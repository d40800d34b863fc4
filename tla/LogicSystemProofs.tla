------------------------- MODULE LogicSystemProofs -------------------------
(***************************************************************************)
(* Proofs about LogicSystem, for any number of posting threads and any set  *)
(* of messages, and for both ways of notifying.                            *)
(***************************************************************************)
EXTENDS LogicSystem, SequenceTheorems, TLAPS

\* Taking the front element over from one sequence to the end of another
\* leaves their concatenation as it was.
LEMMA MoveFront ==
  ASSUME NEW S, NEW p \in Seq(S), NEW q \in Seq(S), q # <<>>
  PROVE  Append(p, Head(q)) \o Tail(q) = p \o q
<1> DEFINE a == Append(p, Head(q))
<1>1. /\ Head(q) \in S /\ Tail(q) \in Seq(S) /\ Len(Tail(q)) = Len(q) - 1
      /\ \A i \in 1 .. Len(Tail(q)) : Tail(q)[i] = q[i + 1]
  BY HeadTailProperties
<1>2. /\ a \in Seq(S) /\ Len(a) = Len(p) + 1
      /\ \A i \in 1 .. Len(p) : a[i] = p[i]
      /\ a[Len(p) + 1] = Head(q)
  BY <1>1, AppendProperties
<1>3. Len(p) \in Nat /\ Len(q) \in Nat /\ Len(q) > 0 /\ Head(q) = q[1]
  BY EmptySeq
<1> HIDE DEF a
<1>4. /\ a \o Tail(q) \in Seq(S) /\ Len(a \o Tail(q)) = Len(a) + Len(Tail(q))
      /\ \A i \in 1 .. Len(a) + Len(Tail(q)) : (a \o Tail(q))[i] =
             IF i <= Len(a) THEN a[i] ELSE Tail(q)[i - Len(a)]
  BY <1>1, <1>2, ConcatProperties
<1>5. /\ p \o q \in Seq(S) /\ Len(p \o q) = Len(p) + Len(q)
      /\ \A i \in 1 .. Len(p) + Len(q) : (p \o q)[i] =
             IF i <= Len(p) THEN p[i] ELSE q[i - Len(p)]
  BY ConcatProperties
<1>6. ASSUME NEW i \in 1 .. Len(p) + Len(q)
      PROVE  (a \o Tail(q))[i] = (p \o q)[i]
  <2>1. CASE i <= Len(p)
    BY <1>2, <1>3, <1>4, <1>5, <1>1, <2>1
  <2>2. CASE i = Len(p) + 1
    <3>1. (a \o Tail(q))[i] = a[i]
      BY <1>1, <1>2, <1>3, <1>4, <2>2
    <3>2. (p \o q)[i] = q[1]
      BY <1>3, <1>5, <2>2
    <3> QED
      BY <1>2, <1>3, <2>2, <3>1, <3>2
  <2>3. CASE i > Len(p) + 1
    <3>1. (a \o Tail(q))[i] = Tail(q)[i - (Len(p) + 1)]
      BY <1>1, <1>2, <1>3, <1>4, <2>3
    <3>2. i - (Len(p) + 1) \in 1 .. Len(Tail(q))
      BY <1>1, <1>3, <2>3
    <3>3. Tail(q)[i - (Len(p) + 1)] = q[i - (Len(p) + 1) + 1]
      BY <1>1, <3>2
    <3>4. i - (Len(p) + 1) + 1 = i - Len(p)
      BY <1>3
    <3>5. (p \o q)[i] = q[i - Len(p)]
      BY <1>3, <1>5, <2>3
    <3> QED
      BY <3>1, <3>3, <3>4, <3>5
  <2>4. i <= Len(p) \/ i = Len(p) + 1 \/ i > Len(p) + 1
    BY <1>3
  <2> QED
    BY <2>1, <2>2, <2>3, <2>4
<1>7. a \o Tail(q) = p \o q
  BY <1>1, <1>2, <1>3, <1>4, <1>5, <1>6, SeqEqual
<1> QED
  BY <1>7 DEF a

\* Appending to the second sequence appends to the concatenation.
LEMMA AppendBehind ==
  ASSUME NEW S, NEW p \in Seq(S), NEW q \in Seq(S), NEW e \in S
  PROVE  p \o Append(q, e) = Append(p \o q, e)
<1>1. /\ <<e>> \in Seq(S) /\ p \o q \in Seq(S)
      /\ Append(q, e) = q \o <<e>>
  BY AppendIsConcat, ConcatProperties
<1>2. Append(p \o q, e) = (p \o q) \o <<e>>
  BY <1>1, AppendIsConcat
<1> QED
  BY <1>1, <1>2, ConcatAssociative

-----------------------------------------------------------------------------
(***************************************************************************)
(* The inductive invariant.  Besides the properties it says what the worker *)
(* knows at the labels where it holds _mutex: only PostMsgToQueue changes   *)
(* the queue behind its back, and it cannot while the mutex is held.        *)
(***************************************************************************)
WorkerKnows ==
  /\ workerPc = "EnterWait" => _msg_queue = <<>>
  /\ workerPc = "TestStop" /\ ~_b_stop => _msg_queue # <<>>
  /\ workerPc = "Process" => _msg_queue # <<>>

IInv == TypeOK /\ WorkerKnows /\ NoSleepOverMessage /\ InOrder

LEMMA InitIInv == Init => IInv
<1> SUFFICES ASSUME Init PROVE IInv
  OBVIOUS
<1>1. TypeOK
  BY EmptySeq DEF Init, TypeOK
<1>2. WorkerKnows /\ NoSleepOverMessage
  BY DEF Init, WorkerKnows, NoSleepOverMessage
<1>3. InOrder
  BY DEF Init, InOrder
<1> QED
  BY <1>1, <1>2, <1>3 DEF IInv

\* A message taken out of the queue keeps the types and the order.
LEMMA ConsumeKeepsOrder ==
  ASSUME TypeOK, InOrder, _msg_queue # <<>>, Consume, UNCHANGED posted
  PROVE  /\ _msg_queue' \in Seq(Msg)
         /\ popped' \in Seq(Msg) /\ answered' \in Seq(Msg)
         /\ InOrder'
<1>1. /\ Head(_msg_queue) \in Msg /\ Tail(_msg_queue) \in Seq(Msg)
  BY HeadTailProperties DEF TypeOK
<1>2. /\ _msg_queue' = Tail(_msg_queue)
      /\ popped' = Append(popped, Head(_msg_queue))
  BY DEF Consume
<1>3. popped' \in Seq(Msg) /\ answered' \in Seq(Msg)
  BY <1>1, <1>2 DEF Consume, TypeOK
<1>4. popped' \o _msg_queue' = popped \o _msg_queue
  BY <1>2, MoveFront DEF TypeOK
<1> QED
  BY <1>1, <1>2, <1>3, <1>4 DEF InOrder

LEMMA PostKeeps ==
  ASSUME IInv, NEW p \in Poster, NEW m \in Msg, PostMsgToQueue(p, m)
  PROVE  IInv'
<1>1. /\ TypeOK /\ WorkerKnows /\ NoSleepOverMessage /\ InOrder
      /\ MutexFree /\ _msg_queue' = Append(_msg_queue, m)
      /\ posted' = Append(posted, m)
      /\ UNCHANGED <<_b_stop, ownerPc, popped, answered>>
  BY DEF IInv, PostMsgToQueue
<1>2. workerPc' = workerPc \/ (workerPc = "Waiting" /\ workerPc' = "Woken")
  BY DEF PostMsgToQueue, NotifyOne
<1>3. posterPc' = posterPc \/ posterPc' = [posterPc EXCEPT ![p] = "Notify"]
  BY DEF PostMsgToQueue
<1>4. TypeOK'
  <2>1. _msg_queue' \in Seq(Msg) /\ posted' \in Seq(Msg)
    BY <1>1 DEF TypeOK
  <2>2. posterPc' \in [Poster -> {"Idle", "Notify"}]
    BY <1>1, <1>3 DEF TypeOK
  <2> QED
    BY <1>1, <1>2, <2>1, <2>2 DEF TypeOK
<1>5. WorkerKnows'
  BY <1>1, <1>2 DEF WorkerKnows, MutexFree, Locked
<1>6. NoSleepOverMessage'
  <2> SUFFICES ASSUME workerPc' = "Waiting"
               PROVE  \E x \in Poster : posterPc'[x] = "Notify"
    BY DEF NoSleepOverMessage
  <2>1. workerPc = "Waiting"
    BY <1>2
  <2>2. CASE _msg_queue # <<>>
    <3>1. PICK x \in Poster : posterPc[x] = "Notify"
      BY <1>1, <2>1, <2>2 DEF NoSleepOverMessage
    <3>2. posterPc'[x] = "Notify"
      BY <1>1, <1>3, <3>1 DEF TypeOK
    <3> QED
      BY <3>2
  <2>3. CASE _msg_queue = <<>>
    <3>1. WasEmpty
      BY <2>3 DEF WasEmpty
    <3>2. NotifyAfterUnlock
      BY <2>1, <3>1 DEF PostMsgToQueue, NotifyOne
    <3>3. posterPc'[p] = "Notify"
      BY <1>1, <3>1, <3>2 DEF PostMsgToQueue, TypeOK
    <3> QED
      BY <3>3
  <2> QED
    BY <2>2, <2>3
<1>7. InOrder'
  <2>1. popped \o Append(_msg_queue, m) = Append(popped \o _msg_queue, m)
    BY <1>1, AppendBehind DEF TypeOK
  <2> QED
    BY <1>1, <2>1 DEF InOrder
<1> QED
  BY <1>4, <1>5, <1>6, <1>7 DEF IInv

LEMMA PostNotifyKeeps ==
  ASSUME IInv, NEW p \in Poster, PostNotify(p)
  PROVE  IInv'
<1>1. /\ workerPc' # "Waiting"
      /\ workerPc' = workerPc \/ workerPc' = "Woken"
  BY DEF PostNotify, NotifyOne
<1> QED
  BY <1>1 DEF IInv, PostNotify, TypeOK, WorkerKnows, NoSleepOverMessage,
              InOrder, history

LEMMA WorkerKeeps ==
  ASSUME IInv, WorkerStep \/ SpuriousWakeup
  PROVE  IInv'
<1> USE DEF IInv, WorkerOnly
<1>1. CASE Lock \/ SpuriousWakeup
  BY <1>1 DEF Lock, SpuriousWakeup, TypeOK, WorkerKnows, NoSleepOverMessage,
              InOrder
<1>2. CASE TestWait
  BY <1>2 DEF TestWait, TypeOK, WorkerKnows, NoSleepOverMessage, InOrder
<1>3. CASE EnterWait
  BY <1>3 DEF EnterWait, TypeOK, WorkerKnows, NoSleepOverMessage, InOrder
<1>4. CASE TestStop
  BY <1>4 DEF TestStop, TypeOK, WorkerKnows, NoSleepOverMessage, InOrder
<1>5. CASE Drain
  <2>1. /\ _msg_queue' \in Seq(Msg) /\ popped' \in Seq(Msg)
        /\ answered' \in Seq(Msg) /\ InOrder'
    BY <1>5, ConsumeKeepsOrder DEF Drain
  <2> QED
    BY <1>5, <2>1 DEF Drain, TypeOK, WorkerKnows, NoSleepOverMessage
<1>6. CASE Exit
  BY <1>6 DEF Exit, TypeOK, WorkerKnows, NoSleepOverMessage, InOrder
<1>7. CASE Process
  <2>1. /\ _msg_queue' \in Seq(Msg) /\ popped' \in Seq(Msg)
        /\ answered' \in Seq(Msg) /\ InOrder'
    BY <1>7, ConsumeKeepsOrder DEF Process, WorkerKnows
  <2> QED
    BY <1>7, <2>1 DEF Process, TypeOK, WorkerKnows, NoSleepOverMessage
<1> QED
  BY <1>1, <1>2, <1>3, <1>4, <1>5, <1>6, <1>7 DEF WorkerStep

LEMMA OwnerKeeps ==
  ASSUME IInv, SetStop \/ OwnerReturn
  PROVE  IInv'
<1> USE DEF IInv, OwnerOnly, history, TypeOK, WorkerKnows,
            NoSleepOverMessage, InOrder
<1>1. CASE SetStop
  BY <1>1 DEF SetStop
<1>2. CASE NotifyStop
  BY <1>2 DEF NotifyStop, NotifyOne
<1>3. CASE Join
  BY <1>3 DEF Join
<1> QED
  BY <1>1, <1>2, <1>3 DEF OwnerReturn

LEMMA StepIInv == IInv /\ [Next]_vars => IInv'
<1> SUFFICES ASSUME IInv, [Next]_vars PROVE IInv'
  OBVIOUS
<1>1. CASE UNCHANGED vars
  BY <1>1 DEF IInv, vars, history, TypeOK, WorkerKnows, NoSleepOverMessage,
              InOrder
<1> QED
  BY <1>1, PostKeeps, PostNotifyKeeps, WorkerKeeps, OwnerKeeps DEF Next

LEMMA Invariance == Spec => []IInv
BY InitIInv, StepIInv, PTL DEF Spec

\* The worker never sleeps over a queued message that nobody will tell it of,
\* although PostMsgToQueue notifies only when it finds the queue empty.
THEOREM NoMissedMessage == Spec => []NoSleepOverMessage
<1>1. IInv => NoSleepOverMessage
  BY DEF IInv
<1> QED
  BY Invariance, <1>1, PTL

\* DealMsg calls front() and pop() only on a queue that holds a message.
THEOREM FrontSafe == Spec => []FrontExists
<1>1. IInv => FrontExists
  BY DEF IInv, WorkerKnows, FrontExists
<1> QED
  BY Invariance, <1>1, PTL

\* Messages are dealt with in the order they were posted, each exactly once.
THEOREM OrderKept == Spec => []InOrder
<1>1. IInv => InOrder
  BY DEF IInv
<1> QED
  BY Invariance, <1>1, PTL

\* Both together: what DealMsg takes is there, and in order.
THEOREM QueueSafe == Spec => []QueueInOrder
BY FrontSafe, OrderKept, PTL DEF QueueInOrder

\* And no message is slept over meanwhile.
THEOREM QueueIsAttendedHolds == Spec => []QueueIsAttended
BY QueueSafe, NoMissedMessage, PTL DEF QueueIsAttended

\* The types of the logic system's state.
THEOREM TypesHold == Spec => []TypeOK
<1>1. IInv => TypeOK
  BY DEF IInv
<1> QED
  BY Invariance, <1>1, PTL

\* The worker ends only after it has dealt with everything posted before.
THEOREM DrainSafe == Spec => DrainedBeforeExit
<1>1. ASSUME IInv, [Next]_vars
      PROVE  [workerPc' = "Exited" /\ workerPc # "Exited"
                => popped' = posted']_vars
  <2> SUFFICES ASSUME Next, workerPc' = "Exited", workerPc # "Exited"
               PROVE  popped' = posted'
    BY <1>1 DEF vars
  <2>1. Exit
    BY DEF Next, PostNotify, PostMsgToQueue, NotifyOne, WorkerStep, Lock,
           TestWait, EnterWait, TestStop, Drain, Process, SpuriousWakeup,
           SetStop, OwnerReturn, NotifyStop, Join
  <2>2. popped' = popped /\ posted' = posted /\ _msg_queue = <<>>
    BY <2>1 DEF Exit, WorkerOnly
  <2>3. popped \o <<>> = popped
    BY <1>1, ConcatEmptySeq DEF IInv, TypeOK
  <2> QED
    BY <1>1, <2>2, <2>3 DEF IInv, InOrder
<1> QED
  BY Invariance, <1>1, PTL DEF Spec, DrainedBeforeExit
=============================================================================
