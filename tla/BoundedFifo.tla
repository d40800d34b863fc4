---------------------------- MODULE BoundedFifo ----------------------------
(***************************************************************************)
(* What a bounded task queue promises its callers: a first-in first-out    *)
(* queue of at most Capacity tasks whose three operations are atomic.      *)
(* addTask reports whether the task was accepted, takeTask returns the     *)
(* oldest task or nothing, getSize counts the queued tasks.                *)
(***************************************************************************)
EXTENDS Naturals, Sequences

CONSTANTS Task,      \* the tasks callers may submit
          NoTask,    \* std::nullopt
          Capacity   \* how many tasks the queue holds

VARIABLES fifo,      \* the queued tasks, oldest first
          ret        \* what the last operation returned

fifoVars == <<fifo, ret>>

Init == /\ fifo = <<>>
        /\ ret = <<"none">>

AddTask(t) == /\ Len(fifo) < Capacity
              /\ fifo' = Append(fifo, t)
              /\ ret' = <<"addTask", TRUE>>

AddTaskFull == /\ Len(fifo) = Capacity
               /\ ret' = <<"addTask", FALSE>>
               /\ UNCHANGED fifo

TakeTask == /\ fifo # <<>>
            /\ fifo' = Tail(fifo)
            /\ ret' = <<"takeTask", Head(fifo)>>

TakeTaskEmpty == /\ fifo = <<>>
                 /\ ret' = <<"takeTask", NoTask>>
                 /\ UNCHANGED fifo

GetSize == /\ ret' = <<"getSize", Len(fifo)>>
           /\ UNCHANGED fifo

Next == \/ \E t \in Task : AddTask(t)
        \/ AddTaskFull
        \/ TakeTask
        \/ TakeTaskEmpty
        \/ GetSize

Spec == Init /\ [][Next]_fifoVars
=============================================================================
