------------------------- MODULE BlockingContainers -------------------------
(***************************************************************************)
(* Three containers that threads hand values through:                      *)
(*                                                                          *)
(*  list   theaatingTest/condTest/p_c_Try.cpp: a linked list whose head is   *)
(*         pushed and taken under m1; the producer notifies all after it    *)
(*         has unlocked;                                                    *)
(*  queue  theaatingTest/threadSafe_queue.cpp: a queue that notifies one    *)
(*         under its lock;                                                  *)
(*  stack  theaatingTest/threadSafe_stack.cpp: a stack without a condition   *)
(*         variable, whose pop throws when it is empty; its users test       *)
(*         empty() first, under a lock of its own.                           *)
(*                                                                          *)
(* What is done with the lock held is one step, wait included: it gives the *)
(* lock up as it falls asleep.                                             *)
(***************************************************************************)
EXTENDS Naturals, Sequences, FiniteSets, SequencesExt

CONSTANTS Kind,        \* the containers to run
          Values,      \* bound: the values 1 .. Values are produced
          Consumer

VARIABLES
  kind,         \* the container that is used
  data,         \* what it holds, newest last
  produced,     \* how many values have been pushed
  notifying,    \* the list's producer has unlocked and not notified yet
  pc,           \* each consumer: "ready", "waiting", or "pop" after empty()
  taken,        \* the values taken out, in that order
  thrown        \* consumers that met empty_stack

vars == <<kind, data, produced, notifying, pc, taken, thrown>>

Waiting == {c \in Consumer : pc[c] = "waiting"}
Wake(C) == pc' = [c \in Consumer |-> IF c \in C THEN "ready" ELSE pc[c]]
notify_all == Wake(Waiting)
notify_one == \/ Waiting = {} /\ UNCHANGED pc
              \/ \E c \in Waiting : Wake({c})

\* The slip notifies when the size is one, but looks at it before the push.
NotifyFirst == IF Len(data) = 1 THEN notify_one ELSE UNCHANGED pc
PushNotifies == notify_one

PushNewest == /\ produced < Values
              /\ data' = Append(data, produced + 1)
              /\ produced' = produced + 1
              /\ UNCHANGED <<kind, taken, thrown>>

-----------------------------------------------------------------------------
\* The list.
list_push == /\ ~notifying /\ PushNewest /\ notifying' = TRUE /\ UNCHANGED pc
list_notify == /\ notifying /\ notifying' = FALSE /\ notify_all
               /\ UNCHANGED <<kind, data, produced, taken, thrown>>

\* A consumer tests the head, and sleeps or takes it.
Sleep(c) == /\ data = <<>> /\ pc' = [pc EXCEPT ![c] = "waiting"]
            /\ UNCHANGED <<data, taken>>
list_take(c) ==
  /\ pc[c] = "ready"
  /\ \/ Sleep(c)
     \/ /\ data # <<>> /\ data' = Front(data) /\ taken' = Append(taken, Last(data))
        /\ UNCHANGED pc
  /\ UNCHANGED <<kind, produced, notifying, thrown>>

\* The queue.
threadSafe_push == PushNewest /\ PushNotifies /\ UNCHANGED notifying
threadSafe_pop(c) ==
  /\ pc[c] = "ready"
  /\ \/ Sleep(c)
     \/ /\ data # <<>> /\ data' = Tail(data) /\ taken' = Append(taken, Head(data))
        /\ UNCHANGED pc
  /\ UNCHANGED <<kind, produced, notifying, thrown>>

\* The stack.
push == PushNewest /\ UNCHANGED <<notifying, pc>>
empty(c) == /\ pc[c] = "ready" /\ data # <<>>
            /\ pc' = [pc EXCEPT ![c] = "pop"]
            /\ UNCHANGED <<kind, data, produced, notifying, taken, thrown>>
pop(c) == /\ pc[c] = "pop" /\ pc' = [pc EXCEPT ![c] = "ready"]
          /\ \/ data = <<>> /\ thrown' = thrown \cup {c} /\ UNCHANGED <<data, taken>>
             \/ /\ data # <<>> /\ data' = Front(data)
                /\ taken' = Append(taken, Last(data)) /\ UNCHANGED thrown
          /\ UNCHANGED <<kind, produced, notifying>>

SpuriousWakeup(c) == /\ pc[c] = "waiting" /\ Wake({c})
                     /\ UNCHANGED <<kind, data, produced, notifying, taken, thrown>>

Produce == \/ kind = "list" /\ (list_push \/ list_notify)
           \/ kind = "queue" /\ threadSafe_push
           \/ kind = "stack" /\ push
Consume(c) == \/ kind = "list" /\ list_take(c)
              \/ kind = "queue" /\ threadSafe_pop(c)
              \/ kind = "stack" /\ (empty(c) \/ pop(c))

Init == /\ kind \in Kind /\ data = <<>> /\ produced = 0 /\ notifying = FALSE
        /\ pc = [c \in Consumer |-> "ready"] /\ taken = <<>> /\ thrown = {}
Next == \/ Produce
        \/ \E c \in Consumer : Consume(c) \/ SpuriousWakeup(c)

\* The threads go on; nobody relies on a spurious wakeup.
Fairness == WF_vars(Produce) /\ \A c \in Consumer : WF_vars(Consume(c))
Spec == Init /\ [][Next]_vars
FairSpec == Spec /\ Fairness

-----------------------------------------------------------------------------
TypeOK ==
  /\ kind \in Kind /\ produced \in 0 .. Values /\ notifying \in BOOLEAN
  /\ data \in Seq(1 .. Values) /\ taken \in Seq(1 .. Values)
  /\ pc \in [Consumer -> {"ready", "waiting", "pop"}]
  /\ thrown \subseteq Consumer

\* Every value is in the container or was taken by one consumer, once; the queue
\* gives them out in the order they were pushed, list and stack hold what is left
\* in that order.  Whoever tests empty() and pops later may be told that another
\* was quicker, but gets no value twice.
EachValueOnce ==
  /\ IsInjective(data \o taken) /\ ToSet(data \o taken) = 1 .. produced
  /\ \A i, j \in DOMAIN data : i < j => data[i] < data[j]
  /\ kind = "queue" => \A i \in DOMAIN taken : taken[i] = i

\* The consumers never all sleep over a value, unless the producer is about to
\* notify them.
NoSleepOverValue ==
  data # <<>> /\ Waiting = Consumer => notifying

\* Every value is taken in the end.
EveryValueTaken == <>(ToSet(taken) = 1 .. Values)
=============================================================================
