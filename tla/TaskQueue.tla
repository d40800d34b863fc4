----------------------------- MODULE TaskQueue -----------------------------
(***************************************************************************)
(* threadPool/taskQueue.h: TaskQueue<T>, a ring buffer of QUEUE_MAX slots.  *)
(* Every public operation holds queue_mutex_ from its first line to its     *)
(* return, so each of them is one atomic action.  A slot whose task has     *)
(* been moved out holds NoTask: the move leaves the callback empty and      *)
(* m_arg null, exactly what the default constructor leaves there.           *)
(***************************************************************************)
EXTENDS Naturals, Sequences

CONSTANTS Task,       \* the tasks callers may submit
          NoTask,     \* std::nullopt, and the contents of a moved-from slot
          QUEUE_MAX   \* the number of slots

ASSUME QueueMaxAssumption == QUEUE_MAX \in Nat \ {0}
ASSUME NoTaskAssumption == NoTask \notin Task

VARIABLES queue_,     \* the array of slots
          head_,      \* the slot of the oldest task
          tail_,      \* the slot the next task goes to
          size_,      \* the number of queued tasks
          ret         \* what the last operation returned to its caller

vars == <<queue_, head_, tail_, size_, ret>>

Slot == 0 .. QUEUE_MAX - 1

\* The slot after i.  The slip forgets the wrap-around of the last slot.
SuccNoWrap(i) == IF i + 1 < QUEUE_MAX THEN i + 1 ELSE i
Succ(i) == (i + 1) % QUEUE_MAX

\* The test of addTask.  The slip lets one task too many in.
IsFullOffByOne == size_ > QUEUE_MAX
IsFull == size_ >= QUEUE_MAX

Init == /\ queue_ = [i \in Slot |-> NoTask]
        /\ head_ = 0
        /\ tail_ = 0
        /\ size_ = 0
        /\ ret = <<"none">>

AddTask(t) == /\ ~IsFull
              /\ queue_' = [queue_ EXCEPT ![tail_] = t]
              /\ tail_' = Succ(tail_)
              /\ size_' = size_ + 1
              /\ ret' = <<"addTask", TRUE>>
              /\ UNCHANGED head_

AddTaskFull == /\ IsFull
               /\ ret' = <<"addTask", FALSE>>
               /\ UNCHANGED <<queue_, head_, tail_, size_>>

\* The slip of takeTask leaves the task it returns in the queue's order.
TakeTaskKeepsHead == /\ size_ # 0
                     /\ queue_' = [queue_ EXCEPT ![head_] = NoTask]
                     /\ size_' = size_ - 1
                     /\ ret' = <<"takeTask", queue_[head_]>>
                     /\ UNCHANGED <<head_, tail_>>
TakeTask == /\ size_ # 0
            /\ queue_' = [queue_ EXCEPT ![head_] = NoTask]
            /\ head_' = Succ(head_)
            /\ size_' = size_ - 1
            /\ ret' = <<"takeTask", queue_[head_]>>
            /\ UNCHANGED tail_

TakeTaskEmpty == /\ size_ = 0
                 /\ ret' = <<"takeTask", NoTask>>
                 /\ UNCHANGED <<queue_, head_, tail_, size_>>

GetSize == /\ ret' = <<"getSize", size_>>
           /\ UNCHANGED <<queue_, head_, tail_, size_>>

Next == \/ \E t \in Task : AddTask(t)
        \/ AddTaskFull
        \/ TakeTask
        \/ TakeTaskEmpty
        \/ GetSize

Spec == Init /\ [][Next]_vars

-----------------------------------------------------------------------------
(***************************************************************************)
(* The abstract queue a state of the ring stands for.                      *)
(***************************************************************************)
contents == [i \in 1 .. size_ |-> queue_[(head_ + i - 1) % QUEUE_MAX]]

Fifo == INSTANCE BoundedFifo WITH fifo <- contents, Capacity <- QUEUE_MAX

TypeOK == /\ queue_ \in [Slot -> Task \cup {NoTask}]
          /\ head_ \in Slot
          /\ tail_ \in Slot
          /\ size_ \in 0 .. QUEUE_MAX

\* The offset of slot i from the head, walking forward around the ring.
Offset(i) == IF i >= head_ THEN i - head_ ELSE i + QUEUE_MAX - head_

\* The three redundant fields agree: the size_ slots from head_ on hold tasks,
\* every other slot holds a moved-from task, and tail_ is the first slot after
\* the queued tasks.  (The array, head_, tail_ and size_ of taskQueue.h are
\* updated separately by addTask and takeTask.)
RingConsistent ==
  /\ tail_ = (head_ + size_) % QUEUE_MAX
  /\ \A i \in Slot : queue_[i] \in Task <=> Offset(i) < size_

\* Every history of the ring buffer is a history of the bounded FIFO: tasks
\* come out in the order they went in, none is lost, overwritten or returned
\* twice across a wrap-around, and addTask refuses exactly when QUEUE_MAX
\* tasks are queued.
ImplementsFifo == Fifo!Spec
=============================================================================
