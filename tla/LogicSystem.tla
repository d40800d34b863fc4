---------------------------- MODULE LogicSystem ----------------------------
(***************************************************************************)
(* LogicSystem of the asynchronous servers: network threads post complete   *)
(* messages to _msg_queue, one worker thread takes them out and runs the    *)
(* callback registered for their id, and the destructor stops the worker    *)
(* after it has emptied the queue.                                          *)
(*                                                                          *)
(* The module stands for v10_baseOnV9_v2/LogicSystem.cpp and, with          *)
(* NotifyAfterUnlock, for the coroutine server's, whose PostMsgToQueue      *)
(* gives the mutex back before it notifies.  Everything between locking and *)
(* unlocking _mutex is invisible to the other threads except _b_stop, a     *)
(* plain bool the destructor writes WITHOUT _mutex: each read of it is a    *)
(* step of its own.  (A racing read of a bool yields its old or its new     *)
(* value, which is what the order of the steps gives.)                      *)
(***************************************************************************)
EXTENDS Naturals, Sequences

CONSTANTS Poster,             \* threads that post messages
          Msg,                \* bound: each of these messages is posted once
          Registered,         \* the messages whose id has a callback
          NotifyAfterUnlock   \* which of the two PostMsgToQueue is modelled

ASSUME LogicAssumption == /\ Registered \subseteq Msg
                          /\ NotifyAfterUnlock \in BOOLEAN

VARIABLES _msg_queue,   \* the logic queue
          _b_stop,
          workerPc,     \* where the worker is in DealMsg
          posterPc,     \* whether each poster still has to notify
          ownerPc,      \* where the owner is in ~LogicSystem
          posted,       \* every message ever queued, in order
          popped,       \* every message ever taken out, in order
          answered      \* the messages whose callback ran, in order

history == <<posted, popped, answered>>
vars == <<_msg_queue, _b_stop, workerPc, posterPc, ownerPc, history>>

\* The labels of DealMsg at which the worker holds _mutex.
Locked == {"TestWait", "EnterWait", "TestStop", "Drain", "Process"}
MutexFree == workerPc \notin Locked

\* _consume.notify_one: the worker is the only thread that ever waits.
NotifyOne == workerPc' = IF workerPc = "Waiting" THEN "Woken" ELSE workerPc

-----------------------------------------------------------------------------
(***************************************************************************)
(* PostMsgToQueue.                                                         *)
(***************************************************************************)
\* The queue was empty before the push: the worker may be asleep.  The slip
\* tests the size before the push.
WasNonEmpty == Len(_msg_queue) = 1
WasEmpty == Len(_msg_queue) + 1 = 1

PostMsgToQueue(p, m) ==
  /\ posterPc[p] = "Idle" /\ ownerPc # "Destroyed"
  /\ MutexFree
  /\ \A i \in DOMAIN posted : posted[i] # m
  /\ _msg_queue' = Append(_msg_queue, m)
  /\ posted' = Append(posted, m)
  /\ IF WasEmpty /\ ~NotifyAfterUnlock THEN NotifyOne ELSE UNCHANGED workerPc
  /\ posterPc' = IF WasEmpty /\ NotifyAfterUnlock
                 THEN [posterPc EXCEPT ![p] = "Notify"] ELSE posterPc
  /\ UNCHANGED <<_b_stop, ownerPc, popped, answered>>

\* The coroutine server's notify_one, after unlock.
PostNotify(p) ==
  /\ posterPc[p] = "Notify"
  /\ NotifyOne
  /\ posterPc' = [posterPc EXCEPT ![p] = "Idle"]
  /\ UNCHANGED <<_msg_queue, _b_stop, ownerPc, history>>

-----------------------------------------------------------------------------
(***************************************************************************)
(* DealMsg.                                                                *)
(***************************************************************************)
WorkerOnly == UNCHANGED <<posterPc, ownerPc, _b_stop, posted>>

\* The worker locks _mutex for a new turn, or gets it back inside wait and goes
\* round the while loop again.
Lock ==
  /\ workerPc \in {"Lock", "Woken"}
  /\ workerPc' = "TestWait"
  /\ UNCHANGED <<_msg_queue, popped, answered>> /\ WorkerOnly

TestWait ==
  /\ workerPc = "TestWait"
  /\ workerPc' = IF _msg_queue = <<>> /\ ~_b_stop THEN "EnterWait" ELSE "TestStop"
  /\ UNCHANGED <<_msg_queue, popped, answered>> /\ WorkerOnly

EnterWait ==
  /\ workerPc = "EnterWait"
  /\ workerPc' = "Waiting"
  /\ UNCHANGED <<_msg_queue, popped, answered>> /\ WorkerOnly

SpuriousWakeup ==
  /\ workerPc = "Waiting"
  /\ workerPc' = "Woken"
  /\ UNCHANGED <<_msg_queue, popped, answered>> /\ WorkerOnly

TestStop ==
  /\ workerPc = "TestStop"
  /\ workerPc' = IF _b_stop THEN "Drain" ELSE "Process"
  /\ UNCHANGED <<_msg_queue, popped, answered>> /\ WorkerOnly

\* One message: its callback, if its id has one, then the pop.  The slip pops
\* the newest message.
ConsumeLast ==
  LET m == _msg_queue[Len(_msg_queue)] IN
  /\ answered' = IF m \in Registered THEN Append(answered, m) ELSE answered
  /\ popped' = Append(popped, m)
  /\ _msg_queue' = SubSeq(_msg_queue, 1, Len(_msg_queue) - 1)
Consume ==
  LET m == Head(_msg_queue) IN
  /\ answered' = IF m \in Registered THEN Append(answered, m) ELSE answered
  /\ popped' = Append(popped, m)
  /\ _msg_queue' = Tail(_msg_queue)

\* Stopped: one round of the inner while loop.
Drain ==
  /\ workerPc = "Drain" /\ _msg_queue # <<>>
  /\ Consume
  /\ UNCHANGED workerPc /\ WorkerOnly

\* The inner loop's end; break leaves the outer loop and the thread returns.
\* The slip: one round only.
ExitAtOnce ==
  /\ workerPc = "Drain"
  /\ workerPc' = "Exited"
  /\ UNCHANGED <<_msg_queue, popped, answered>> /\ WorkerOnly
Exit ==
  /\ workerPc = "Drain" /\ _msg_queue = <<>>
  /\ workerPc' = "Exited"
  /\ UNCHANGED <<_msg_queue, popped, answered>> /\ WorkerOnly

\* Not stopped: one message, then the end of the turn gives _mutex back.
Process ==
  /\ workerPc = "Process"
  /\ Consume
  /\ workerPc' = "Lock"
  /\ WorkerOnly

WorkerStep == Lock \/ TestWait \/ EnterWait \/ TestStop \/ Drain \/ Exit \/ Process

-----------------------------------------------------------------------------
(***************************************************************************)
(* ~LogicSystem.                                                           *)
(***************************************************************************)
OwnerOnly == UNCHANGED <<_msg_queue, posterPc, history>>

SetStop ==
  /\ ownerPc = "Alive"
  /\ _b_stop' = TRUE
  /\ ownerPc' = "NotifyStop"
  /\ UNCHANGED workerPc /\ OwnerOnly

NotifyStop ==
  /\ ownerPc = "NotifyStop"
  /\ NotifyOne
  /\ ownerPc' = "Join"
  /\ UNCHANGED _b_stop /\ OwnerOnly

Join ==
  /\ ownerPc = "Join" /\ workerPc = "Exited"
  /\ ownerPc' = "Destroyed"
  /\ UNCHANGED <<_b_stop, workerPc>> /\ OwnerOnly

OwnerReturn == NotifyStop \/ Join

-----------------------------------------------------------------------------
\* The constructor.
Init == /\ _msg_queue = <<>> /\ _b_stop = FALSE
        /\ workerPc = "Lock"
        /\ posterPc = [p \in Poster |-> "Idle"]
        /\ ownerPc = "Alive"
        /\ posted = <<>> /\ popped = <<>> /\ answered = <<>>

Next == \/ \E p \in Poster : PostNotify(p) \/ \E m \in Msg : PostMsgToQueue(p, m)
        \/ WorkerStep \/ SpuriousWakeup
        \/ SetStop \/ OwnerReturn

\* The worker, a poster inside PostMsgToQueue and an owner inside the
\* destructor keep running; nobody is obliged to post or to destroy.
Fairness == /\ WF_vars(WorkerStep)
            /\ \A p \in Poster : WF_vars(PostNotify(p))
            /\ WF_vars(OwnerReturn)

Spec == Init /\ [][Next]_vars
FairSpec == Spec /\ Fairness

-----------------------------------------------------------------------------
TypeOK ==
  /\ _msg_queue \in Seq(Msg)
  /\ _b_stop \in BOOLEAN
  /\ workerPc \in {"Lock", "TestWait", "EnterWait", "Waiting", "Woken",
                   "TestStop", "Drain", "Process", "Exited"}
  /\ posterPc \in [Poster -> {"Idle", "Notify"}]
  /\ ownerPc \in {"Alive", "NotifyStop", "Join", "Destroyed"}
  /\ posted \in Seq(Msg) /\ popped \in Seq(Msg) /\ answered \in Seq(Msg)

\* Notifying only when the size becomes 1 is enough: the worker never sleeps
\* over a queued message unless a notification is still on its way, although
\* messages are pushed and notifications sent in any order.
NoSleepOverMessage ==
  workerPc = "Waiting" /\ _msg_queue # <<>> =>
    \E p \in Poster : posterPc[p] = "Notify"

\* front() is called on a queue that holds a message: between the test of
\* empty() and front() the flag may change but the queue may not lose it.
FrontExists == workerPc = "Process" => _msg_queue # <<>>

\* Messages leave the queue in the order they were posted, each exactly once,
\* before and after the stop.
InOrder == popped \o _msg_queue = posted

\* The queue never runs dry under the worker's hands and keeps its order.
QueueInOrder == FrontExists /\ InOrder

\* Messages are attended to in order and never slept over.
QueueIsAttended == QueueInOrder /\ NoSleepOverMessage

\* The comment on _b_stop promises that the worker empties the queue before it
\* ends: whatever was posted by the time it exits has been dealt with.
DrainedBeforeExit ==
  [][workerPc' = "Exited" /\ workerPc # "Exited" => popped' = posted']_vars

\* A message posted before the worker's exit is eventually dealt with, also
\* when the stop overtakes it.
EveryPostDealtWith ==
  \A m \in Msg :
    (workerPc # "Exited" /\ \E i \in DOMAIN posted : posted[i] = m)
      ~> (\E i \in DOMAIN popped : popped[i] = m)

\* The comment on _b_stop: when the flag is received the worker deals with all
\* queued nodes and then the logic system is destroyed.
StopEndsWorker == (ownerPc = "NotifyStop") ~> (ownerPc = "Destroyed")
=============================================================================
