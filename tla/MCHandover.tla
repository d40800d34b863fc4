----------------------------- MODULE MCHandover -----------------------------
(***************************************************************************)
(* The programs in which threads and processes hand something over: the     *)
(* task queue of the thread pool, the pool itself, the ring with            *)
(* semaphores, the containers, a parent and its dying children, and a pipe. *)
(* They share nothing; which says the one that runs.                       *)
(*                                                                          *)
(* The task queue has three slots.  The pool has one worker, may grow by    *)
(* another, and gets two tasks while its queue holds one.  The semaphore    *)
(* ring has three slots and numbers its products modulo four, so that a     *)
(* product one turn of the ring too old differs from the right one.  Two    *)
(* consumers share three values; three children die in any order; the pipe   *)
(* holds two of three lines.                                               *)
(***************************************************************************)
EXTENDS TaskQueue

CONSTANTS Worker, Client, PoolTask, NoThread,
          PoolQueue, MaxThreads, MinThreads,   \* how the pool is constructed
          MAX_NUM,      \* slots of the semaphore ring
          Numbers,      \* its products are numbered modulo this
          Values,       \* what the containers pass on
          Children,     \* what the parent forks
          Lines,        \* what ls prints
          Capacity      \* the lines the pipe holds

ASSUME HandoverAssumption ==
  /\ {MAX_NUM, Numbers} \subseteq Nat \ {0}
  /\ {Values, Children, Lines, Capacity} \subseteq Nat
  /\ Worker # {}

VARIABLES which,
  task_Queue_, m_alive_threads, m_busy_threads, m_exit_threads, shutdown_flags,
  tpMutex, pc, inHand, managerPc, seen, mainPc, clientPc, arg, fresh, dropped,
  done,
  queue, blank_sem, product_sem, producer, consumer, p_i, c_i, made, got,
  kind, data, produced, notifying, consumerPc, taken, thrown,
  program, child, forking, parent, handler, installed, blocked, pending,
  brothers, process, holds, pipe, written, counted

Pool == INSTANCE ThreadPool
  WITH Task <- PoolTask, QUEUE_MAX <- PoolQueue,
       m_thread_MAXNUM <- MaxThreads, m_thread_MINNUM <- MinThreads
Semaphores == INSTANCE SemaphoreRing
Containers == INSTANCE BlockingContainers
  WITH Kind <- {"list", "queue", "stack"}, Consumer <- Worker, pc <- consumerPc
Reaping == INSTANCE ChildReaping
  WITH Program <- {"kill", "pool", "poll"}, i <- forking
Pipe == INSTANCE PipePair WITH pc <- process

ASSUME PoolFits == Pool!PoolAssumption /\ Pool!SlotAssumption

pool == <<task_Queue_, m_alive_threads, m_busy_threads, m_exit_threads,
          shutdown_flags, tpMutex, pc, inHand, managerPc, seen, mainPc, clientPc,
          arg, fresh, dropped, done>>
semaphores == <<queue, blank_sem, product_sem, producer, consumer, p_i, c_i,
                made, got>>
containers == <<kind, data, produced, notifying, consumerPc, taken, thrown>>
reaping == <<program, child, forking, parent, handler, installed, blocked, pending>>
pipes == <<brothers, process, holds, pipe, written, counted>>
all == <<which, vars, pool, semaphores, containers, reaping, pipes>>

-----------------------------------------------------------------------------
InitHandover ==
  /\ which \in {"ring", "pool", "semaphores", "containers", "reaping", "pipe"}
  /\ Init /\ Pool!Init /\ Semaphores!Init /\ Containers!Init /\ Reaping!Init
  /\ Pipe!Init
  /\ which # "pool" => pc[CHOOSE w \in Worker : TRUE] = "Lock"
  /\ which # "containers" => kind = "list"
  /\ which # "reaping" => program = "kill"
  /\ which # "pipe" => brothers

NextHandover ==
  \/ /\ which = "ring" /\ Next
     /\ UNCHANGED <<which, pool, semaphores, containers, reaping, pipes>>
  \/ /\ which = "pool" /\ Pool!Next
     /\ UNCHANGED <<which, vars, semaphores, containers, reaping, pipes>>
  \/ /\ which = "semaphores" /\ Semaphores!Next
     /\ UNCHANGED <<which, vars, pool, containers, reaping, pipes>>
  \/ /\ which = "containers" /\ Containers!Next
     /\ UNCHANGED <<which, vars, pool, semaphores, reaping, pipes>>
  \/ /\ which = "reaping" /\ Reaping!Next
     /\ UNCHANGED <<which, vars, pool, semaphores, containers, pipes>>
  \/ /\ which = "pipe" /\ Pipe!Next
     /\ UNCHANGED <<which, vars, pool, semaphores, containers, reaping>>

\* FairSpec of the one that runs.
FairHandover ==
  /\ InitHandover /\ [][NextHandover]_all
  /\ \A w \in Worker : /\ WF_pool(which = "pool" /\ Pool!WorkerStep(w))
                        /\ WF_containers(which = "containers" /\ Containers!Consume(w))
  /\ WF_pool(which = "pool" /\ Pool!ManagerStep)
  /\ \A c \in Client : WF_pool(which = "pool" /\ Pool!ClientReturn(c))
  /\ WF_pool(which = "pool" /\ Pool!MainReturn)
  /\ WF_semaphores(which = "semaphores" /\ Semaphores!Producer)
  /\ WF_semaphores(which = "semaphores" /\ Semaphores!Consumer)
  /\ WF_containers(which = "containers" /\ Containers!Produce)
  /\ WF_reaping(which = "reaping" /\ Reaping!Main)
  /\ WF_reaping(which = "reaping" /\ Reaping!Deliver)
  /\ WF_reaping(which = "reaping" /\ Reaping!CatchSignal)
  /\ \A c \in 1 .. Children :
       WF_reaping(which = "reaping" /\ program # "pool" /\ Reaping!ChildEnds(c))
  /\ WF_pipes(which = "pipe" /\ Pipe!Parent)
  /\ WF_pipes(which = "pipe" /\ Pipe!ParentReads)
  /\ WF_pipes(which = "pipe" /\ Pipe!Ls)
  /\ WF_pipes(which = "pipe" /\ Pipe!Wc)

-----------------------------------------------------------------------------
\* The type invariants of all.
TypesOK == /\ TypeOK /\ Pool!TypeOK /\ Semaphores!TypeOK /\ Containers!TypeOK
           /\ Reaping!TypeOK /\ Pipe!TypeOK

\* The destructor of the pool joins every thread whenever it is called.
DestructorReturns == Pool!DestructorReturns

\* Producer and consumer of the semaphore ring keep off each other's slots and
\* products are read in order; values of the containers are taken once and no
\* consumer sleeps over one; no zombie is forgotten; wc counts all lines.
NothingLost ==
  /\ Semaphores!SlotsCounted /\ Semaphores!IndicesCounted
  /\ Semaphores!SlotsDiffer /\ Semaphores!ReadsInOrder
  /\ Containers!EachValueOnce /\ Containers!NoSleepOverValue
  /\ Reaping!NoZombieForgotten /\ Pipe!AllCounted

\* Everything made is read, every value is taken.
EverythingArrives ==
  /\ which = "semaphores" => Semaphores!EveryProductRead
  /\ which = "containers" => Containers!EveryValueTaken

\* Every dead child is collected and the pipe's processes end.
ProcessesEnd ==
  /\ which = "reaping" => Reaping!ZombiesReaped
  /\ which = "pipe" => Pipe!PipeEnds
=============================================================================
