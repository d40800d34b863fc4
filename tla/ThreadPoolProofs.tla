-------------------------- MODULE ThreadPoolProofs --------------------------
(***************************************************************************)
(* Proofs about ThreadPool, for any number of workers, callers and tasks,   *)
(* any queue capacity and any minimum and maximum of threads.              *)
(***************************************************************************)
EXTENDS ThreadPool, SequenceTheorems, FiniteSetTheorems, TLAPS

\* The types the safety argument rests on.
Types ==
  /\ task_Queue_ \in Seq(Task)
  /\ shutdown_flags \in BOOLEAN
  /\ tpMutex \in Worker \cup {NoThread}
  /\ pc \in [Worker -> WorkerLabel]
  /\ arg \in [Client -> Task \cup {NoTask}]
  /\ clientPc \in [Client -> {"Idle", "Add", "Notify"}]
  /\ \A c \in Client : clientPc[c] = "Add" => arg[c] \in Task

\* Past the wait loop a worker has seen a task, or the shutdown flag.  Only a
\* worker that holds tpMutex takes tasks, and the flag is never taken back.
TaskSeen ==
  \A w \in Worker :
    /\ pc[w] = "TestShutdown" => task_Queue_ # <<>> \/ shutdown_flags
    /\ pc[w] = "Take" => task_Queue_ # <<>>

\* The destructor's first step, and nothing else, sets the flag.
FlagSet == shutdown_flags <=> mainPc # "Running"

IInv == Types /\ MutexHeld /\ TaskSeen /\ FlagSet /\ ShutdownNotMissed

\* A notification moves at most one sleeping worker to Woken.
LEMMA NotifyOneMoves ==
  ASSUME Types, NotifyOne
  PROVE  \/ pc' = pc
         \/ \E w \in Worker : /\ pc[w] = "Waiting"
                              /\ pc' = [pc EXCEPT ![w] = "Woken"]
BY DEF Types, NotifyOne, Waiting, Goto

LEMMA InitIInv == Init => IInv
<1> SUFFICES ASSUME Init PROVE IInv
  OBVIOUS
<1>1. PICK born \in SUBSET Worker :
        pc = [w \in Worker |-> IF w \in born THEN "Lock" ELSE "Free"]
  BY DEF Init
<1>2. Types
  <2>1. pc \in [Worker -> WorkerLabel]
    BY <1>1 DEF WorkerLabel
  <2>2. task_Queue_ \in Seq(Task)
    BY EmptySeq, Zenon DEF Init
  <2> QED
    BY <2>1, <2>2 DEF Init, Types
<1>3. MutexHeld
  BY <1>1, PoolAssumption DEF Init, MutexHeld, Locked
<1>4. TaskSeen
  BY <1>1 DEF Init, TaskSeen
<1>5. FlagSet /\ ShutdownNotMissed
  BY DEF Init, FlagSet, ShutdownNotMissed
<1> QED
  BY <1>2, <1>3, <1>4, <1>5 DEF IInv

(***************************************************************************)
(* The steps of a worker.                                                  *)
(***************************************************************************)
LEMMA WorkerKeepsTypes ==
  ASSUME IInv, NEW w \in Worker, WorkerStep(w) \/ SpuriousWakeup(w)
  PROVE  Types'
<1> USE DEF IInv, Types, Goto, WorkerLabel, clients, queueVars, counters
<1>1. CASE Lock(w)
  BY <1>1 DEF Lock
<1>2. CASE CheckSize(w)
  BY <1>2 DEF CheckSize
<1>3. CASE CheckFlag(w)
  BY <1>3 DEF CheckFlag
<1>4. CASE EnterWait(w)
  BY <1>4 DEF EnterWait
<1>5. CASE ExitSurplus(w)
  BY <1>5 DEF ExitSurplus
<1>6. CASE WakeUp(w)
  BY <1>6 DEF WakeUp, AfterWait
<1>7. CASE TestShutdown(w)
  BY <1>7 DEF TestShutdown
<1>8. CASE Take(w)
  <2>1. task_Queue_' \in Seq(Task)
    <3>1. CASE task_Queue_ = <<>>
      BY <1>8, <3>1 DEF Take
    <3>2. CASE task_Queue_ # <<>>
      <4>1. task_Queue_' = Tail(task_Queue_)
        BY <1>8, <3>2 DEF Take
      <4> QED
        BY <3>2, <4>1, HeadTailProperties
    <3> QED
      BY <3>1, <3>2
  <2>2. tpMutex' \in Worker \cup {NoThread} /\ pc' \in [Worker -> WorkerLabel]
    BY <1>8 DEF Take
  <2> QED
    BY <1>8, <2>1, <2>2 DEF Take
<1>9. CASE MarkBusy(w)
  BY <1>9 DEF MarkBusy
<1>10. CASE RunCallback(w)
  BY <1>10 DEF RunCallback
<1>11. CASE MarkIdle(w)
  BY <1>11 DEF MarkIdle
<1>12. CASE SpuriousWakeup(w)
  BY <1>12 DEF SpuriousWakeup
<1> QED
  BY <1>1, <1>2, <1>3, <1>4, <1>5, <1>6, <1>7, <1>8, <1>9, <1>10, <1>11, <1>12
  DEF WorkerStep

\* tpMutex goes to the worker that enters the locked part and comes back from
\* the one that leaves it.
LEMMA WorkerKeepsMutex ==
  ASSUME IInv, NEW w \in Worker, WorkerStep(w) \/ SpuriousWakeup(w)
  PROVE  MutexHeld'
<1> USE PoolAssumption DEF IInv, Types, MutexHeld, Goto, Locked
<1>1. CASE Lock(w)
  BY <1>1 DEF Lock
<1>2. CASE CheckSize(w)
  BY <1>2 DEF CheckSize
<1>3. CASE CheckFlag(w)
  BY <1>3 DEF CheckFlag
<1>4. CASE EnterWait(w)
  BY <1>4 DEF EnterWait
<1>5. CASE ExitSurplus(w)
  BY <1>5 DEF ExitSurplus
<1>6. CASE WakeUp(w)
  BY <1>6 DEF WakeUp, AfterWait
<1>7. CASE TestShutdown(w)
  BY <1>7 DEF TestShutdown
<1>8. CASE Take(w)
  BY <1>8 DEF Take
<1>9. CASE MarkBusy(w)
  BY <1>9 DEF MarkBusy
<1>10. CASE RunCallback(w)
  BY <1>10 DEF RunCallback
<1>11. CASE MarkIdle(w)
  BY <1>11 DEF MarkIdle
<1>12. CASE SpuriousWakeup(w)
  BY <1>12 DEF SpuriousWakeup
<1> QED
  BY <1>1, <1>2, <1>3, <1>4, <1>5, <1>6, <1>7, <1>8, <1>9, <1>10, <1>11, <1>12
  DEF WorkerStep

\* Taking a task cannot disappoint another worker past the wait loop: both
\* would hold tpMutex.
LEMMA WorkerKeepsTaskSeen ==
  ASSUME IInv, NEW w \in Worker, WorkerStep(w) \/ SpuriousWakeup(w)
  PROVE  TaskSeen'
<1> USE DEF IInv, Types, TaskSeen, Goto, queueVars
<1>1. CASE Lock(w)
  BY <1>1 DEF Lock
<1>2. CASE CheckSize(w)
  BY <1>2 DEF CheckSize
<1>3. CASE CheckFlag(w)
  BY <1>3 DEF CheckFlag, MaySleep
<1>4. CASE EnterWait(w)
  BY <1>4 DEF EnterWait
<1>5. CASE ExitSurplus(w)
  BY <1>5 DEF ExitSurplus
<1>6. CASE WakeUp(w)
  BY <1>6 DEF WakeUp, AfterWait
<1>7. CASE TestShutdown(w)
  BY <1>7 DEF TestShutdown
<1>8. CASE Take(w)
  <2>1. \A v \in Worker \ {w} : pc[v] \notin {"TestShutdown", "Take"}
    BY <1>8 DEF Take, MutexHeld, Locked
  <2>2. \A v \in Worker \ {w} : pc'[v] = pc[v]
    BY <1>8 DEF Take
  <2>3. pc'[w] \in {"Lock", "Busy"}
    BY <1>8 DEF Take
  <2> QED
    BY <2>1, <2>2, <2>3
<1>9. CASE MarkBusy(w)
  BY <1>9 DEF MarkBusy
<1>10. CASE RunCallback(w)
  BY <1>10 DEF RunCallback
<1>11. CASE MarkIdle(w)
  BY <1>11 DEF MarkIdle
<1>12. CASE SpuriousWakeup(w)
  BY <1>12 DEF SpuriousWakeup
<1> QED
  BY <1>1, <1>2, <1>3, <1>4, <1>5, <1>6, <1>7, <1>8, <1>9, <1>10, <1>11, <1>12
  DEF WorkerStep

\* Once the flag is set, no worker turns to EnterWait any more.
LEMMA WorkerKeepsShutdown ==
  ASSUME IInv, NEW w \in Worker, WorkerStep(w) \/ SpuriousWakeup(w)
  PROVE  FlagSet' /\ ShutdownNotMissed'
<1> USE DEF IInv, Types, FlagSet, ShutdownNotMissed, Goto
<1>1. CASE Lock(w)
  BY <1>1 DEF Lock
<1>2. CASE CheckSize(w)
  BY <1>2 DEF CheckSize
<1>3. CASE CheckFlag(w)
  BY <1>3 DEF CheckFlag, MaySleep
<1>4. CASE EnterWait(w)
  BY <1>4 DEF EnterWait
<1>5. CASE ExitSurplus(w)
  BY <1>5 DEF ExitSurplus
<1>6. CASE WakeUp(w)
  BY <1>6 DEF WakeUp, AfterWait
<1>7. CASE TestShutdown(w)
  BY <1>7 DEF TestShutdown
<1>8. CASE Take(w)
  BY <1>8 DEF Take
<1>9. CASE MarkBusy(w)
  BY <1>9 DEF MarkBusy
<1>10. CASE RunCallback(w)
  BY <1>10 DEF RunCallback
<1>11. CASE MarkIdle(w)
  BY <1>11 DEF MarkIdle
<1>12. CASE SpuriousWakeup(w)
  BY <1>12 DEF SpuriousWakeup
<1> QED
  BY <1>1, <1>2, <1>3, <1>4, <1>5, <1>6, <1>7, <1>8, <1>9, <1>10, <1>11, <1>12
  DEF WorkerStep

LEMMA WorkerKeeps ==
  ASSUME IInv, NEW w \in Worker, WorkerStep(w) \/ SpuriousWakeup(w)
  PROVE  IInv'
BY WorkerKeepsTypes, WorkerKeepsMutex, WorkerKeepsTaskSeen, WorkerKeepsShutdown
DEF IInv

(***************************************************************************)
(* The steps of the others.                                                *)
(***************************************************************************)
\* A notification wakes at most sleepers, so what holds of the workers past the
\* wait loop, of the holder of tpMutex and of the sleepers still holds.
LEMMA NotifyKeeps ==
  ASSUME IInv, NotifyOne,
         UNCHANGED <<task_Queue_, shutdown_flags, tpMutex, mainPc>>
  PROVE  /\ pc' \in [Worker -> WorkerLabel]
         /\ MutexHeld' /\ TaskSeen' /\ FlagSet' /\ ShutdownNotMissed'
<1>1. CASE pc' = pc
  BY <1>1 DEF IInv, Types, MutexHeld, TaskSeen, FlagSet, ShutdownNotMissed
<1>2. ASSUME NEW w \in Worker, pc[w] = "Waiting",
             pc' = [pc EXCEPT ![w] = "Woken"]
      PROVE  /\ pc' \in [Worker -> WorkerLabel]
             /\ MutexHeld' /\ TaskSeen' /\ FlagSet' /\ ShutdownNotMissed'
  <2> USE <1>2 DEF IInv, Types
  <2>1. pc' \in [Worker -> WorkerLabel]
    BY DEF WorkerLabel
  <2>2. MutexHeld'
    BY DEF MutexHeld, Locked
  <2>3. TaskSeen'
    BY DEF TaskSeen
  <2>4. FlagSet' /\ ShutdownNotMissed'
    BY DEF FlagSet, ShutdownNotMissed
  <2> QED
    BY <2>1, <2>2, <2>3, <2>4
<1> QED
  BY <1>1, <1>2, NotifyOneMoves DEF IInv

LEMMA ManagerKeeps == IInv /\ ManagerStep => IInv'
<1> SUFFICES ASSUME IInv, ManagerStep PROVE IInv'
  OBVIOUS
<1>1. ASSUME UNCHANGED <<tpMutex, pc>>, ManagerOnly
      PROVE  IInv'
  BY <1>1 DEF ManagerOnly, queueVars, clients, IInv, Types, MutexHeld, TaskSeen,
              FlagSet, ShutdownNotMissed
<1>2. CASE Grow
  <2>1. UNCHANGED <<task_Queue_, shutdown_flags, tpMutex, mainPc, clientPc, arg>>
    BY <1>2 DEF Grow, ManagerOnly, queueVars, clients
  <2>2. PICK born \in SUBSET (Worker \ Live) :
          pc' = [w \in Worker |-> IF w \in born THEN "Lock" ELSE pc[w]]
    BY <1>2 DEF Grow
  <2>3. \A w \in born : pc[w] = "Free"
    BY <2>2 DEF Live
  <2>4. pc' \in [Worker -> WorkerLabel]
    BY <2>2 DEF IInv, Types, WorkerLabel
  <2>5. Types'
    BY <2>1, <2>4 DEF IInv, Types
  <2>6. MutexHeld'
    BY <2>1, <2>2, <2>3 DEF IInv, Types, MutexHeld, Locked
  <2>7. TaskSeen'
    BY <2>1, <2>2 DEF IInv, Types, TaskSeen
  <2>8. FlagSet' /\ ShutdownNotMissed'
    BY <2>1, <2>2 DEF IInv, Types, FlagSet, ShutdownNotMissed
  <2> QED
    BY <2>5, <2>6, <2>7, <2>8 DEF IInv
<1>3. CASE NotifySurplus
  <2>1. UNCHANGED <<task_Queue_, shutdown_flags, tpMutex, mainPc, clientPc, arg>>
    BY <1>3 DEF NotifySurplus, ManagerOnly, queueVars, clients
  <2>2. NotifyOne
    BY <1>3 DEF NotifySurplus
  <2>3. /\ pc' \in [Worker -> WorkerLabel]
        /\ MutexHeld' /\ TaskSeen' /\ FlagSet' /\ ShutdownNotMissed'
    BY <2>1, <2>2, NotifyKeeps
  <2>4. Types'
    BY <2>1, <2>3 DEF IInv, Types
  <2> QED
    BY <2>3, <2>4 DEF IInv
<1>4. CASE ManagerLoop \/ ReadSize \/ ReadAlive \/ ReadBusy \/ SkipGrow
           \/ Shrink \/ SkipShrink
  BY <1>1, <1>4 DEF ManagerLoop, ReadSize, ReadAlive, ReadBusy, SkipGrow, Shrink,
                    SkipShrink, counters
<1> QED
  BY <1>2, <1>3, <1>4 DEF ManagerStep

\* addTask does not hold tpMutex: it only adds to the queue, which cannot
\* disappoint a worker, and wakes sleepers.
LEMMA ClientKeeps ==
  ASSUME IInv, NEW c \in Client, ClientStep(c)
  PROVE  IInv'
<1>1. UNCHANGED <<shutdown_flags, tpMutex, mainPc>>
  BY DEF ClientStep, ClientReturn, AddTaskQueue, AddTaskNotify, AddTaskCheck,
         ClientOnly
<1>2. CASE \E t \in Task : AddTaskCheck(c, t)
  <2>1. UNCHANGED <<task_Queue_, pc>>
    BY <1>2 DEF AddTaskCheck
  <2>2. /\ clientPc' \in [Client -> {"Idle", "Add", "Notify"}]
        /\ arg' \in [Client -> Task \cup {NoTask}]
        /\ \A d \in Client : clientPc'[d] = "Add" => arg'[d] \in Task
    BY <1>2 DEF AddTaskCheck, IInv, Types
  <2> QED
    BY <1>1, <2>1, <2>2 DEF IInv, Types, MutexHeld, TaskSeen, FlagSet,
                            ShutdownNotMissed
<1>3. CASE AddTaskQueue(c)
  <2>1. UNCHANGED pc
    BY <1>3 DEF AddTaskQueue
  <2>2. /\ clientPc' \in [Client -> {"Idle", "Add", "Notify"}]
        /\ arg' \in [Client -> Task \cup {NoTask}]
        /\ \A d \in Client : clientPc'[d] = "Add" => arg'[d] \in Task
    <3>1. /\ arg' = [arg EXCEPT ![c] = NoTask]
          /\ \/ clientPc' = [clientPc EXCEPT ![c] = "Notify"]
             \/ clientPc' = [clientPc EXCEPT ![c] = "Idle"]
      BY <1>3 DEF AddTaskQueue
    <3> QED
      BY <3>1 DEF IInv, Types
  <2>3. task_Queue_ \in Seq(Task) /\ arg[c] \in Task
    BY <1>3 DEF AddTaskQueue, IInv, Types
  <2>4. \/ task_Queue_' = task_Queue_
        \/ task_Queue_' = Append(task_Queue_, arg[c])
    BY <1>3 DEF AddTaskQueue
  <2>5. task_Queue_' \in Seq(Task) /\ (task_Queue_ # <<>> => task_Queue_' # <<>>)
    <3>1. /\ Append(task_Queue_, arg[c]) \in Seq(Task)
          /\ Append(task_Queue_, arg[c]) # <<>>
      BY <2>3, AppendProperties
    <3> QED
      BY <2>3, <2>4, <3>1
  <2>6. Types'
    BY <1>1, <2>1, <2>2, <2>5 DEF IInv, Types
  <2>7. MutexHeld' /\ FlagSet' /\ ShutdownNotMissed'
    BY <1>1, <2>1 DEF IInv, MutexHeld, FlagSet, ShutdownNotMissed
  <2>8. TaskSeen'
    BY <1>1, <2>1, <2>5 DEF IInv, TaskSeen
  <2> QED
    BY <2>6, <2>7, <2>8 DEF IInv
<1>4. CASE AddTaskNotify(c)
  <2>1. /\ NotifyOne /\ UNCHANGED <<task_Queue_, arg>>
        /\ clientPc' = [clientPc EXCEPT ![c] = "Idle"]
    BY <1>4 DEF AddTaskNotify
  <2>2. /\ pc' \in [Worker -> WorkerLabel]
        /\ MutexHeld' /\ TaskSeen' /\ FlagSet' /\ ShutdownNotMissed'
    BY <1>1, <2>1, NotifyKeeps
  <2>3. Types'
    BY <1>1, <2>1, <2>2 DEF IInv, Types
  <2> QED
    BY <2>2, <2>3 DEF IInv
<1> QED
  BY <1>2, <1>3, <1>4 DEF ClientStep, ClientReturn

\* notify_all is sent with tpMutex held, when no worker can be on its way into
\* the wait.
LEMMA MainKeeps == IInv /\ MainStep => IInv'
<1> SUFFICES ASSUME IInv, MainStep PROVE IInv'
  OBVIOUS
<1>1. UNCHANGED <<task_Queue_, tpMutex, clientPc, arg>>
  BY DEF MainStep, MainReturn, SetShutdown, JoinManager, WakeAll, JoinWorkers,
         MainOnly, queueVars, clients
<1>2. CASE SetShutdown
  BY <1>1, <1>2 DEF SetShutdown, MainGoto, IInv, Types, MutexHeld, TaskSeen,
                    FlagSet, ShutdownNotMissed
<1>3. CASE JoinManager
  BY <1>1, <1>3 DEF JoinManager, MainGoto, IInv, Types, MutexHeld, TaskSeen,
                    FlagSet, ShutdownNotMissed
<1>4. CASE WakeAll
  <2>1. /\ tpMutex = NoThread /\ UNCHANGED shutdown_flags
        /\ mainPc = "WakeAll" /\ mainPc' = "JoinWorkers"
    BY <1>4 DEF WakeAll, MainGoto
  <2>2. pc' = [w \in Worker |-> IF pc[w] = "Waiting" THEN "Woken" ELSE pc[w]]
    BY <1>4 DEF WakeAll, NotifyAll, Waiting
  <2>3. \A w \in Worker : pc[w] # "EnterWait"
    BY <2>1, PoolAssumption DEF IInv, MutexHeld, Locked
  <2>4. Types'
    BY <1>1, <2>1, <2>2 DEF IInv, Types, WorkerLabel
  <2>5. MutexHeld'
    BY <1>1, <2>2 DEF IInv, Types, MutexHeld, Locked
  <2>6. TaskSeen'
    BY <1>1, <2>1, <2>2 DEF IInv, Types, TaskSeen
  <2>7. FlagSet' /\ ShutdownNotMissed'
    BY <2>1, <2>2, <2>3 DEF IInv, Types, FlagSet, ShutdownNotMissed
  <2> QED
    BY <2>4, <2>5, <2>6, <2>7 DEF IInv
<1>5. CASE JoinWorkers
  BY <1>1, <1>5 DEF JoinWorkers, MainGoto, IInv, Types, MutexHeld, TaskSeen,
                    FlagSet, ShutdownNotMissed
<1> QED
  BY <1>2, <1>3, <1>4, <1>5 DEF MainStep, MainReturn

LEMMA NextIInv == IInv /\ [Next]_vars => IInv'
<1> SUFFICES ASSUME IInv, [Next]_vars PROVE IInv'
  OBVIOUS
<1>1. ASSUME NEW w \in Worker, WorkerStep(w) \/ SpuriousWakeup(w) PROVE IInv'
  BY <1>1, WorkerKeeps
<1>2. CASE ManagerStep
  BY <1>2, ManagerKeeps
<1>3. ASSUME NEW c \in Client, ClientStep(c) PROVE IInv'
  BY <1>3, ClientKeeps
<1>4. CASE MainStep
  BY <1>4, MainKeeps
<1>5. CASE UNCHANGED vars
  BY <1>5 DEF vars, queueVars, workers, clients, IInv, Types, MutexHeld,
              TaskSeen, FlagSet, ShutdownNotMissed
<1> QED
  BY <1>1, <1>2, <1>3, <1>4, <1>5 DEF Next

LEMMA IInvHolds == Spec => []IInv
BY InitIInv, NextIInv, PTL DEF Spec

-----------------------------------------------------------------------------
(***************************************************************************)
(* The theorems.                                                           *)
(***************************************************************************)
\* The locked part of worker_Func is a critical section.
THEOREM MutualExclusion == Spec => []MutexHeld
<1>1. IInv => MutexHeld
  BY DEF IInv
<1> QED
  BY <1>1, IInvHolds, PTL

\* worker_Func calls takeTask on a queue that has a task.
THEOREM TakeSafe == Spec => []TakeNeverEmpty
<1>1. IInv => TakeNeverEmpty
  BY DEF IInv, TaskSeen, TakeNeverEmpty
<1> QED
  BY <1>1, IInvHolds, PTL

\* No worker sleeps through the destructor's notify_all.
THEOREM ShutdownHeard == Spec => []ShutdownNotMissed
<1>1. IInv => ShutdownNotMissed
  BY DEF IInv
<1> QED
  BY <1>1, IInvHolds, PTL

\* All three, for any number of workers, callers, tasks and slots.
THEOREM LockedSectionHolds == Spec => []LockedSection
BY MutualExclusion, TakeSafe, ShutdownHeard, PTL DEF LockedSection

-----------------------------------------------------------------------------
(***************************************************************************)
(* The counters.  A step moves at most one worker, or spawns some, and      *)
(* changes the counters by as many.                                        *)
(***************************************************************************)
Between == {"Run", "MarkIdle"}
Running == {w \in Worker : pc[w] \in Between}

CounterTypes == m_alive_threads \in Nat /\ m_busy_threads \in Nat

\* With every worker in its place, the counters agree.
CInv == IInv /\ CounterTypes /\ CountersAgree

LEMMA SetsAreFinite ==
  /\ IsFiniteSet(Live) /\ Cardinality(Live) \in Nat
  /\ IsFiniteSet(Running) /\ Cardinality(Running) \in Nat
<1>1. Live \in SUBSET Worker /\ Running \in SUBSET Worker
  BY DEF Live, Running
<1>2. IsFiniteSet(Live) /\ IsFiniteSet(Running)
  BY <1>1, SlotAssumption, FS_Subset
<1> QED
  BY <1>2, FS_CardinalityType

\* Where the counted sets and the counters stay, the agreement does.
LEMMA Uncounted ==
  ASSUME CounterTypes, CountersAgree, Live' = Live, Running' = Running,
         UNCHANGED <<m_alive_threads, m_busy_threads>>,
         shutdown_flags => shutdown_flags'
  PROVE  CounterTypes' /\ CountersAgree'
BY DEF CounterTypes, CountersAgree, BusyCountsRunning, AliveCountsAboveMin,
       Running, Between

\* A worker that goes from one place to another that is counted alike.
LEMMA MovesAlike ==
  ASSUME pc \in [Worker -> WorkerLabel], NEW w \in Worker, NEW label,
         Goto(w, label), pc[w] # "Free", label # "Free",
         pc[w] \in Between <=> label \in Between
  PROVE  Live' = Live /\ Running' = Running
<1>1. \A v \in Worker : pc'[v] = IF v = w THEN label ELSE pc[v]
  BY DEF Goto
<1>2. Live' = Live
  BY <1>1 DEF Live
<1>3. Running' = Running
  BY <1>1 DEF Running
<1> QED
  BY <1>2, <1>3

LEMMA WorkerKeepsCounts ==
  ASSUME CInv, NEW w \in Worker, WorkerStep(w) \/ SpuriousWakeup(w)
  PROVE  CounterTypes' /\ CountersAgree'
<1> USE DEF CInv, IInv, Types
<1>1. ASSUME NEW label, label \notin Between \cup {"Free"}, Goto(w, label),
             pc[w] \notin Between \cup {"Free"},
             UNCHANGED <<m_alive_threads, m_busy_threads, shutdown_flags>>
      PROVE  CounterTypes' /\ CountersAgree'
  BY <1>1, MovesAlike, Uncounted
<1>2. CASE Lock(w)
  BY <1>1, <1>2 DEF Lock, counters, Between
<1>3. CASE CheckSize(w)
  BY <1>1, <1>3 DEF CheckSize, counters, Between
<1>4. CASE CheckFlag(w)
  BY <1>1, <1>4 DEF CheckFlag, counters, Between
<1>5. CASE EnterWait(w)
  BY <1>1, <1>5 DEF EnterWait, counters, Between
<1>6. CASE ExitSurplus(w)
  <2>1. /\ pc[w] = "Woken" /\ m_alive_threads > m_thread_MINNUM
        /\ m_alive_threads' = m_alive_threads - 1
        /\ UNCHANGED <<m_busy_threads, shutdown_flags>>
    BY <1>6 DEF ExitSurplus, IsSurplus
  <2>2. \A v \in Worker : pc'[v] = IF v = w THEN "Free" ELSE pc[v]
    BY <1>6 DEF ExitSurplus, Goto
  <2>3. Live' = Live \ {w} /\ w \in Live
    BY <2>1, <2>2 DEF Live
  <2>4. Running' = Running
    BY <2>1, <2>2 DEF Running, Between
  <2>5. Cardinality(Live') = Cardinality(Live) - 1
    BY <2>3, SetsAreFinite, FS_RemoveElement
  <2>6. CounterTypes'
    BY <2>1, PoolAssumption DEF CounterTypes
  <2>7. BusyCountsRunning'
    BY <2>1, <2>4 DEF CountersAgree, BusyCountsRunning, Running, Between
  <2>8. AliveCountsAboveMin'
    BY <2>1, <2>5, SetsAreFinite, PoolAssumption
    DEF CountersAgree, AliveCountsAboveMin, CounterTypes
  <2> QED
    BY <2>6, <2>7, <2>8 DEF CountersAgree
<1>7. CASE WakeUp(w)
  BY <1>1, <1>7 DEF WakeUp, AfterWait, counters, Between
<1>8. CASE TestShutdown(w)
  <2>1. CASE ~shutdown_flags
    BY <1>1, <1>8, <2>1 DEF TestShutdown, counters, Between
  <2>2. CASE shutdown_flags
    <3>1. /\ pc[w] = "TestShutdown" /\ Goto(w, "Free")
          /\ UNCHANGED <<m_alive_threads, m_busy_threads, shutdown_flags>>
      BY <1>8, <2>2 DEF TestShutdown, counters
    <3>2. \A v \in Worker : pc'[v] = IF v = w THEN "Free" ELSE pc[v]
      BY <3>1 DEF Goto
    <3>3. Running' = Running
      BY <3>1, <3>2 DEF Running, Between
    <3> QED
      BY <2>2, <3>1, <3>3 DEF CounterTypes, CountersAgree, BusyCountsRunning,
                              AliveCountsAboveMin, Running, Between
  <2> QED
    BY <2>1, <2>2
<1>9. CASE Take(w)
  BY <1>1, <1>9 DEF Take, counters, Between
<1>10. CASE MarkBusy(w)
  <2>1. /\ pc[w] = "Busy" /\ Goto(w, "Run")
        /\ m_busy_threads' = m_busy_threads + 1
        /\ UNCHANGED <<m_alive_threads, shutdown_flags>>
    BY <1>10 DEF MarkBusy
  <2>2. \A v \in Worker : pc'[v] = IF v = w THEN "Run" ELSE pc[v]
    BY <2>1 DEF Goto
  <2>3. Live' = Live
    BY <2>1, <2>2 DEF Live
  <2>4. Running' = Running \cup {w} /\ w \notin Running
    BY <2>1, <2>2 DEF Running, Between
  <2>5. Cardinality(Running') = Cardinality(Running) + 1
    BY <2>4, SetsAreFinite, FS_AddElement
  <2> QED
    BY <2>1, <2>3, <2>5 DEF CounterTypes, CountersAgree, BusyCountsRunning,
                            AliveCountsAboveMin, Running, Between
<1>11. CASE RunCallback(w)
  <2>1. /\ pc[w] = "Run" /\ Goto(w, "MarkIdle")
        /\ UNCHANGED <<m_alive_threads, m_busy_threads, shutdown_flags>>
    BY <1>11 DEF RunCallback, counters
  <2>2. Live' = Live /\ Running' = Running
    BY <2>1, MovesAlike DEF Between
  <2> QED
    BY <2>1, <2>2, Uncounted
<1>12. CASE MarkIdle(w)
  <2>1. /\ pc[w] = "MarkIdle" /\ Goto(w, "Lock")
        /\ m_busy_threads' = m_busy_threads - 1
        /\ UNCHANGED <<m_alive_threads, shutdown_flags>>
    BY <1>12 DEF MarkIdle
  <2>2. \A v \in Worker : pc'[v] = IF v = w THEN "Lock" ELSE pc[v]
    BY <2>1 DEF Goto
  <2>3. Live' = Live
    BY <2>1, <2>2 DEF Live
  <2>4. Running' = Running \ {w} /\ w \in Running
    BY <2>1, <2>2 DEF Running, Between
  <2>5. Cardinality(Running') = Cardinality(Running) - 1
    BY <2>4, SetsAreFinite, FS_RemoveElement
  <2>6. IsFiniteSet(Running') /\ Cardinality(Running') \in Nat
    BY <2>4, SetsAreFinite, FS_RemoveElement, FS_CardinalityType
  <2> QED
    BY <2>1, <2>3, <2>5, <2>6, SetsAreFinite
    DEF CounterTypes, CountersAgree, BusyCountsRunning, AliveCountsAboveMin,
        Running, Between
<1>13. CASE SpuriousWakeup(w)
  BY <1>1, <1>13 DEF SpuriousWakeup, counters, Between
<1> QED
  BY <1>2, <1>3, <1>4, <1>5, <1>6, <1>7, <1>8, <1>9, <1>10, <1>11, <1>12, <1>13
  DEF WorkerStep

\* A notification goes to a worker that stays alive and idle.
LEMMA NotifyMovesAlike ==
  ASSUME IInv, NotifyOne PROVE Live' = Live /\ Running' = Running
<1>1. CASE pc' = pc
  BY <1>1 DEF Live, Running
<1>2. ASSUME NEW w \in Worker, pc[w] = "Waiting", pc' = [pc EXCEPT ![w] = "Woken"]
      PROVE  Live' = Live /\ Running' = Running
  BY <1>2, MovesAlike DEF IInv, Types, Goto, Between
<1> QED
  BY <1>1, <1>2, NotifyOneMoves DEF IInv

LEMMA ManagerKeepsCounts ==
  ASSUME CInv, ManagerStep PROVE CounterTypes' /\ CountersAgree'
<1>1. UNCHANGED shutdown_flags
  BY DEF ManagerStep, ManagerLoop, ReadSize, ReadAlive, ReadBusy, Grow, SkipGrow,
         Shrink, SkipShrink, NotifySurplus, ManagerOnly
<1>2. ASSUME UNCHANGED <<pc, m_alive_threads, m_busy_threads>>
      PROVE  CounterTypes' /\ CountersAgree'
  <2>1. Live' = Live /\ Running' = Running
    BY <1>2 DEF Live, Running
  <2> QED
    BY <1>1, <1>2, <2>1, Uncounted DEF CInv
<1>3. CASE Grow
  <2>1. PICK born \in SUBSET (Worker \ Live) :
          /\ Cardinality(born) = GrowBy
          /\ pc' = [w \in Worker |-> IF w \in born THEN "Lock" ELSE pc[w]]
    BY <1>3 DEF Grow
  <2>2. m_alive_threads' = m_alive_threads + GrowBy /\ UNCHANGED m_busy_threads
    BY <1>3 DEF Grow
  <2>3. GrowBy \in Nat
    BY PoolAssumption DEF GrowBy, stepSize
  <2>4. Live' = Live \cup born /\ Live \cap born = {}
    BY <2>1 DEF Live
  <2>5. Running' = Running
    BY <2>1 DEF Running, Live, Between
  <2>6. IsFiniteSet(born)
    BY <2>1, SlotAssumption, FS_Subset
  <2>7. Cardinality(Live') = Cardinality(Live) + GrowBy
    <3>1. Cardinality(Live \cup born)
            = Cardinality(Live) + Cardinality(born) - Cardinality({})
      BY <2>4, <2>6, SetsAreFinite, FS_Union
    <3> QED
      BY <2>1, <2>3, <2>4, <3>1, SetsAreFinite, FS_EmptySet
  <2> QED
    BY <1>1, <2>2, <2>3, <2>5, <2>7, SetsAreFinite, PoolAssumption
    DEF CInv, CounterTypes, CountersAgree, BusyCountsRunning, AliveCountsAboveMin,
        Running, Between
<1>4. CASE NotifySurplus
  <2>1. NotifyOne /\ UNCHANGED <<m_alive_threads, m_busy_threads>>
    BY <1>4 DEF NotifySurplus, counters
  <2> QED
    BY <1>1, <2>1, NotifyMovesAlike, Uncounted DEF CInv
<1>5. CASE ManagerLoop \/ ReadSize \/ ReadAlive \/ ReadBusy \/ SkipGrow
           \/ Shrink \/ SkipShrink
  BY <1>2, <1>5 DEF ManagerLoop, ReadSize, ReadAlive, ReadBusy, SkipGrow, Shrink,
                    SkipShrink, counters
<1> QED
  BY <1>3, <1>4, <1>5 DEF ManagerStep

LEMMA OthersKeepCounts ==
  ASSUME CInv, (\E c \in Client : ClientStep(c)) \/ MainStep \/ UNCHANGED vars
  PROVE  CounterTypes' /\ CountersAgree'
<1>1. /\ UNCHANGED <<m_alive_threads, m_busy_threads>>
      /\ shutdown_flags => shutdown_flags'
  BY DEF ClientStep, ClientReturn, AddTaskQueue, AddTaskNotify, AddTaskCheck,
         ClientOnly, MainStep, MainReturn, SetShutdown, JoinManager, WakeAll,
         JoinWorkers, MainOnly, counters, vars
<1>2. pc' = pc \/ NotifyOne \/ NotifyAll
  BY DEF ClientStep, ClientReturn, AddTaskQueue, AddTaskNotify, AddTaskCheck,
         MainStep, MainReturn, SetShutdown, JoinManager, WakeAll, JoinWorkers,
         vars, workers
<1>3. ASSUME pc' = pc PROVE Live' = Live /\ Running' = Running
  BY <1>3 DEF Live, Running
<1>4. ASSUME NotifyAll PROVE Live' = Live /\ Running' = Running
  BY <1>4 DEF NotifyAll, Waiting, Live, Running, Between
<1> QED
  BY <1>1, <1>2, <1>3, <1>4, NotifyMovesAlike, Uncounted DEF CInv

LEMMA InitCInv == Init => CInv
<1> SUFFICES ASSUME Init PROVE CounterTypes /\ CountersAgree
  BY InitIInv DEF CInv
<1>1. PICK born \in SUBSET Worker :
        /\ Cardinality(born) = m_thread_MINNUM
        /\ pc = [w \in Worker |-> IF w \in born THEN "Lock" ELSE "Free"]
  BY DEF Init
<1>2. Live = born
  BY <1>1 DEF Live
<1>3. {w \in Worker : pc[w] \in {"Run", "MarkIdle"}} = {}
  BY <1>1
<1>4. m_alive_threads = 0 /\ m_busy_threads = 0
  BY DEF Init
<1>5. BusyCountsRunning
  BY <1>3, <1>4, FS_EmptySet DEF BusyCountsRunning
<1>6. AliveCountsAboveMin
  BY <1>1, <1>2, <1>4, PoolAssumption DEF AliveCountsAboveMin
<1> QED
  BY <1>4, <1>5, <1>6 DEF CounterTypes, CountersAgree

LEMMA NextCInv == CInv /\ [Next]_vars => CInv'
<1> SUFFICES ASSUME CInv, [Next]_vars PROVE CounterTypes' /\ CountersAgree'
  BY NextIInv DEF CInv
<1> QED
  BY WorkerKeepsCounts, ManagerKeepsCounts, OthersKeepCounts DEF Next

\* m_busy_threads and m_alive_threads agree with the threads there are, for any
\* number of them, any minimum and maximum, however notifications are taken.
THEOREM CountersAgreeHolds == Spec => []CountersAgree
<1>1. CInv => CountersAgree
  BY DEF CInv
<1> QED
  BY InitCInv, NextCInv, <1>1, PTL DEF Spec

-----------------------------------------------------------------------------
(***************************************************************************)
(* The tasks.  A step takes a task out of one place and puts it into        *)
(* another.                                                                *)
(***************************************************************************)
Same(a, b) == IF a = b THEN 1 ELSE 0
Member(a, S) == IF a \in S THEN 1 ELSE 0
Occurrences(S, f, t) == Cardinality({x \in S : f[x] = t})
ChangedAt(S, f, g, x, v) == \A y \in S : g[y] = IF y = x THEN v ELSE f[y]

\* Callers have a task in hand while they are about to queue it, workers from
\* taking it to the end of its callback.
HandsHold ==
  /\ inHand \in [Worker -> Task \cup {NoTask}] /\ done \in Seq(Task)
  /\ \A c \in Client : clientPc[c] # "Add" => arg[c] = NoTask
  /\ \A w \in Worker : IF pc[w] \in {"Busy", "Run"} THEN inHand[w] \in Task
                       ELSE inHand[w] = NoTask

TInv == IInv /\ HandsHold /\ EachTaskOnce

\* A function over a finite set is changed at one point.
LEMMA CountExcept ==
  ASSUME NEW S, IsFiniteSet(S), NEW f, NEW g, NEW x \in S, NEW v, NEW t,
         ChangedAt(S, f, g, x, v)
  PROVE  Occurrences(S, g, t) = Occurrences(S, f, t) + (Same(v, t) - Same(f[x], t))
<1> DEFINE F == {y \in S : f[y] = t}
           G == {y \in S : g[y] = t}
           R == F \ {x}
<1> USE DEF ChangedAt
<1>1. F \in SUBSET S /\ G \in SUBSET S
  OBVIOUS
<1>2. IsFiniteSet(F) /\ IsFiniteSet(G) /\ IsFiniteSet(R)
  BY <1>1, FS_Subset, FS_RemoveElement
<1>3. Cardinality(F) \in Nat /\ Cardinality(G) \in Nat /\ Cardinality(R) \in Nat
  BY <1>2, FS_CardinalityType
<1>4. Cardinality(R) = Cardinality(F) - Same(f[x], t)
  <2>1. x \in F <=> f[x] = t
    OBVIOUS
  <2>2. Cardinality(R) = IF x \in F THEN Cardinality(F) - 1 ELSE Cardinality(F)
    BY <1>2, FS_RemoveElement
  <2> QED
    BY <1>3, <2>1, <2>2 DEF Same
<1>5. Cardinality(G) = Cardinality(R) + Same(v, t)
  <2>1. CASE v = t
    <3>1. G = R \cup {x} /\ x \notin R
      BY <2>1
    <3> QED
      BY <1>2, <2>1, <3>1, FS_AddElement DEF Same
  <2>2. CASE v # t
    <3>1. G = R
      BY <2>2
    <3> HIDE DEF G, R
    <3> QED
      BY <1>3, <2>2, <3>1 DEF Same
  <2> QED
    BY <2>1, <2>2
<1>6. Cardinality(G) = Cardinality(F) + (Same(v, t) - Same(f[x], t))
  <2> HIDE DEF F, G, R
  <2> QED
    BY <1>3, <1>4, <1>5 DEF Same
<1> QED
  BY <1>6 DEF Occurrences

\* What a sequence holds is counted by a natural number.
LEMMA CountSeq ==
  ASSUME NEW T, NEW s \in Seq(T), NEW t
  PROVE  /\ IsFiniteSet({i \in DOMAIN s : s[i] = t})
         /\ Occurrences(DOMAIN s, s, t) \in Nat
<1>1. DOMAIN s = 1 .. Len(s) /\ Len(s) \in Nat
  BY LenProperties
<1>2. IsFiniteSet(1 .. Len(s))
  BY <1>1, FS_Interval
<1>3. {i \in DOMAIN s : s[i] = t} \in SUBSET (1 .. Len(s))
  BY <1>1
<1> QED
  BY <1>2, <1>3, FS_Subset, FS_CardinalityType DEF Occurrences

LEMMA CountAppend ==
  ASSUME NEW T, NEW s \in Seq(T), NEW v \in T, NEW t
  PROVE  Occurrences(DOMAIN Append(s, v), Append(s, v), t)
           = Occurrences(DOMAIN s, s, t) + Same(v, t)
<1> DEFINE r == Append(s, v)
           F == {i \in DOMAIN s : s[i] = t}
           G == {i \in DOMAIN r : r[i] = t}
<1>1. /\ DOMAIN s = 1 .. Len(s) /\ Len(s) \in Nat
      /\ DOMAIN r = 1 .. Len(s) + 1
      /\ \A i \in 1 .. Len(s) : r[i] = s[i]
      /\ r[Len(s) + 1] = v
  BY AppendProperties, LenProperties
<1>2. Len(s) + 1 \notin F
  BY <1>1
<1>3. IsFiniteSet(F) /\ Cardinality(F) \in Nat
  BY CountSeq DEF Occurrences
<1>4. CASE v = t
  <2>1. G = F \cup {Len(s) + 1}
    BY <1>1, <1>4
  <2> QED
    BY <1>2, <1>3, <1>4, <2>1, FS_AddElement DEF Occurrences, Same
<1>5. CASE v # t
  <2>1. G = F
    BY <1>1, <1>5
  <2>2. Cardinality(G) = Cardinality(F) + Same(v, t)
    <3> HIDE DEF F, G
    <3> QED
      BY <1>3, <1>5, <2>1 DEF Same
  <2> QED
    BY <2>2 DEF Occurrences
<1> QED
  BY <1>4, <1>5

LEMMA CountTail ==
  ASSUME NEW T, NEW s \in Seq(T), s # <<>>, NEW t
  PROVE  Occurrences(DOMAIN Tail(s), Tail(s), t)
           = Occurrences(DOMAIN s, s, t) + (0 - Same(Head(s), t))
<1> DEFINE r == Tail(s)
           F == {i \in DOMAIN s : s[i] = t}
           G == {i \in DOMAIN r : r[i] = t}
           shift == [i \in G |-> i + 1]
<1>1. /\ DOMAIN s = 1 .. Len(s) /\ Len(s) \in Nat \ {0}
      /\ r \in Seq(T) /\ DOMAIN r = 1 .. Len(s) - 1
      /\ \A i \in 1 .. Len(s) - 1 : r[i] = s[i + 1]
  BY HeadTailProperties, LenProperties, EmptySeq
<1>2. Head(s) = s[1]
  BY <1>1
<1>3. IsFiniteSet(F) /\ Cardinality(F) \in Nat
  BY CountSeq DEF Occurrences
<1>4. IsFiniteSet(G)
  BY <1>1, CountSeq
<1>5. shift \in Bijection(G, F \ {1})
  <2>1. \A i \in G : i + 1 \in F \ {1}
    BY <1>1
  <2>2. \A i, j \in G : i + 1 = j + 1 => i = j
    BY <1>1
  <2>3. \A j \in F \ {1} : j - 1 \in G /\ j = (j - 1) + 1
    BY <1>1
  <2>4. shift \in [G -> F \ {1}]
    BY <2>1
  <2>5. shift \in Injection(G, F \ {1})
    BY <2>2, <2>4 DEF Injection, IsInjective
  <2>6. \A j \in F \ {1} : \E i \in G : shift[i] = j
    BY <2>3
  <2>7. shift \in Surjection(G, F \ {1})
    BY <2>4, <2>6 DEF Surjection
  <2> QED
    BY <2>5, <2>7 DEF Bijection
<1>6. Cardinality(F \ {1}) = Cardinality(G)
  BY <1>4, <1>5, FS_Bijection DEF ExistsBijection
<1>7. Cardinality(F \ {1}) = IF 1 \in F THEN Cardinality(F) - 1 ELSE Cardinality(F)
  BY <1>3, FS_RemoveElement
<1>8. 1 \in F <=> Head(s) = t
  BY <1>1, <1>2
<1>9. Cardinality(G) = Cardinality(F) + (0 - Same(Head(s), t))
  <2> HIDE DEF F, G
  <2> QED
    BY <1>3, <1>6, <1>7, <1>8 DEF Same
<1> QED
  BY <1>9 DEF Occurrences

LEMMA CountMember ==
  ASSUME NEW S, NEW t PROVE Cardinality({t} \cap S) = Member(t, S)
<1>1. CASE t \in S
  <2>1. {t} \cap S = {t}
    BY <1>1
  <2> QED
    BY <1>1, <2>1, FS_Singleton DEF Member
<1>2. CASE t \notin S
  <2>1. {t} \cap S = {}
    BY <1>2
  <2> QED
    BY <1>2, <2>1, FS_EmptySet DEF Member
<1> QED
  BY <1>1, <1>2

\* The six places, before and after a step.
LEMMA PlacesCounted ==
  ASSUME NEW t
  PROVE  /\ Places(t) = Occurrences(Client, arg, t)
                        + Occurrences(DOMAIN task_Queue_, task_Queue_, t)
                        + Occurrences(Worker, inHand, t)
                        + Occurrences(DOMAIN done, done, t)
                        + Member(t, fresh) + Member(t, dropped)
         /\ Places(t)' = Occurrences(Client, arg', t)
                        + Occurrences(DOMAIN task_Queue_', task_Queue_', t)
                        + Occurrences(Worker, inHand', t)
                        + Occurrences(DOMAIN done', done', t)
                        + Member(t, fresh') + Member(t, dropped')
<1>1. /\ Cardinality({t} \cap fresh) = Member(t, fresh)
      /\ Cardinality({t} \cap dropped) = Member(t, dropped)
      /\ Cardinality({t} \cap fresh') = Member(t, fresh')
      /\ Cardinality({t} \cap dropped') = Member(t, dropped')
  BY CountMember
<1> QED
  BY <1>1 DEF Places, Occurrences

LEMMA CountsAreNat ==
  ASSUME TInv, NEW t
  PROVE  /\ Occurrences(Client, arg, t) \in Nat
         /\ Occurrences(DOMAIN task_Queue_, task_Queue_, t) \in Nat
         /\ Occurrences(Worker, inHand, t) \in Nat
         /\ Occurrences(DOMAIN done, done, t) \in Nat
<1>1. ASSUME NEW S, IsFiniteSet(S), NEW f PROVE Occurrences(S, f, t) \in Nat
  <2>1. {x \in S : f[x] = t} \in SUBSET S
    OBVIOUS
  <2> QED
    BY <1>1, <2>1, FS_Subset, FS_CardinalityType DEF Occurrences
<1>2. task_Queue_ \in Seq(Task) /\ done \in Seq(Task)
  BY DEF TInv, IInv, Types, HandsHold
<1> QED
  BY <1>1, <1>2, CountSeq, PoolAssumption, SlotAssumption

\* A step changes how often t is with callers, queued, in hand and done by a,
\* q, h and d, and what it changes adds up to nothing.
MovedBy(t, a, q, h, d) ==
  /\ Occurrences(Client, arg', t) = Occurrences(Client, arg, t) + a
  /\ Occurrences(DOMAIN task_Queue_', task_Queue_', t)
       = Occurrences(DOMAIN task_Queue_, task_Queue_, t) + q
  /\ Occurrences(Worker, inHand', t) = Occurrences(Worker, inHand, t) + h
  /\ Occurrences(DOMAIN done', done', t) = Occurrences(DOMAIN done, done, t) + d
  /\ a + q + h + d + Member(t, fresh') + Member(t, dropped')
       = Member(t, fresh) + Member(t, dropped)

\* Such a step leaves the task in one place.
LEMMA TaskMoves ==
  ASSUME TInv, NEW t \in Task,
         NEW a \in Int, NEW q \in Int, NEW h \in Int, NEW d \in Int,
         MovedBy(t, a, q, h, d)
  PROVE  Places(t)' = 1
<1>1. Places(t) = 1
  BY DEF TInv, EachTaskOnce
<1>2. /\ Occurrences(Client, arg, t) \in Nat
      /\ Occurrences(DOMAIN task_Queue_, task_Queue_, t) \in Nat
      /\ Occurrences(Worker, inHand, t) \in Nat
      /\ Occurrences(DOMAIN done, done, t) \in Nat
  BY CountsAreNat
<1>3. /\ Member(t, fresh) \in Nat /\ Member(t, dropped) \in Nat
      /\ Member(t, fresh') \in Nat /\ Member(t, dropped') \in Nat
  BY DEF Member
<1>4. Places(t) = Occurrences(Client, arg, t)
                  + Occurrences(DOMAIN task_Queue_, task_Queue_, t)
                  + Occurrences(Worker, inHand, t)
                  + Occurrences(DOMAIN done, done, t)
                  + Member(t, fresh) + Member(t, dropped)
  BY PlacesCounted
<1>5. Places(t)' = (Occurrences(Client, arg, t) + a)
                   + (Occurrences(DOMAIN task_Queue_, task_Queue_, t) + q)
                   + (Occurrences(Worker, inHand, t) + h)
                   + (Occurrences(DOMAIN done, done, t) + d)
                   + Member(t, fresh') + Member(t, dropped')
  BY PlacesCounted DEF MovedBy
<1> QED
  BY <1>1, <1>2, <1>3, <1>4, <1>5 DEF MovedBy

\* A task not submitted yet, or still in addTask, has not been turned away.
LEMMA AtMostOnePlace ==
  ASSUME TInv, NEW t \in Task
  PROVE  /\ t \in fresh => t \notin dropped
         /\ \A c \in Client : arg[c] = t => t \notin dropped
<1>1. /\ Occurrences(Client, arg, t) \in Nat
      /\ Occurrences(DOMAIN task_Queue_, task_Queue_, t) \in Nat
      /\ Occurrences(Worker, inHand, t) \in Nat
      /\ Occurrences(DOMAIN done, done, t) \in Nat
  BY CountsAreNat
<1>2. Occurrences(Client, arg, t) + Member(t, fresh) + Member(t, dropped) <= 1
  <2>1. Member(t, fresh) \in Nat /\ Member(t, dropped) \in Nat
    BY DEF Member
  <2>2. Places(t) = Occurrences(Client, arg, t)
                    + Occurrences(DOMAIN task_Queue_, task_Queue_, t)
                    + Occurrences(Worker, inHand, t)
                    + Occurrences(DOMAIN done, done, t)
                    + Member(t, fresh) + Member(t, dropped)
    BY PlacesCounted
  <2>3. Places(t) = 1
    BY DEF TInv, EachTaskOnce
  <2> QED
    BY <1>1, <2>1, <2>2, <2>3
<1>3. ASSUME NEW c \in Client, arg[c] = t PROVE Occurrences(Client, arg, t) # 0
  <2> DEFINE A == {d \in Client : arg[d] = t}
  <2>1. c \in A /\ A \in SUBSET Client
    BY <1>3
  <2>2. IsFiniteSet(A)
    BY <2>1, PoolAssumption, FS_Subset
  <2>3. Cardinality(A) # 0
    BY <2>1, <2>2, FS_EmptySet
  <2> QED
    BY <2>3 DEF Occurrences
<1> QED
  BY <1>1, <1>2, <1>3 DEF Member

\* What does not change is counted as before.
LEMMA CountsUnchanged ==
  ASSUME TInv, NEW t
  PROVE  /\ arg' = arg => Occurrences(Client, arg', t) = Occurrences(Client, arg, t) + 0
         /\ task_Queue_' = task_Queue_ =>
              Occurrences(DOMAIN task_Queue_', task_Queue_', t)
                = Occurrences(DOMAIN task_Queue_, task_Queue_, t) + 0
         /\ inHand' = inHand =>
              Occurrences(Worker, inHand', t) = Occurrences(Worker, inHand, t) + 0
         /\ done' = done =>
              Occurrences(DOMAIN done', done', t) = Occurrences(DOMAIN done, done, t) + 0
BY CountsAreNat

\* addTask: from fresh to the caller's hand, or turned away at once.
LEMMA CheckKeepsTasks ==
  ASSUME TInv, NEW c \in Client, NEW u \in Task, AddTaskCheck(c, u)
  PROVE  EachTaskOnce'
<1>1. /\ u \in fresh /\ fresh' = fresh \ {u}
      /\ UNCHANGED <<task_Queue_, inHand, done>>
  BY DEF AddTaskCheck, ClientOnly
<1> SUFFICES ASSUME NEW t \in Task PROVE Places(t)' = 1
  BY DEF EachTaskOnce
<1>2. u \notin dropped
  BY AtMostOnePlace, <1>1
<1>3. CASE shutdown_flags
  <2>1. dropped' = dropped \cup {u} /\ arg' = arg
    BY <1>3 DEF AddTaskCheck
  <2>2. 0 + 0 + 0 + 0 + Member(t, fresh') + Member(t, dropped')
          = Member(t, fresh) + Member(t, dropped)
    BY <1>1, <1>2, <2>1 DEF Member
  <2>3. MovedBy(t, 0, 0, 0, 0)
    BY <1>1, <2>1, <2>2, CountsUnchanged DEF MovedBy
  <2> QED
    BY <2>3, TaskMoves
<1>4. CASE ~shutdown_flags
  <2>1. dropped' = dropped /\ arg' = [arg EXCEPT ![c] = u]
    BY <1>4 DEF AddTaskCheck
  <2>2. arg \in [Client -> Task \cup {NoTask}] /\ arg[c] = NoTask
    BY DEF AddTaskCheck, TInv, HandsHold, IInv, Types
  <2>3. Occurrences(Client, arg', t)
          = Occurrences(Client, arg, t) + (Same(u, t) - Same(NoTask, t))
    <3>1. ChangedAt(Client, arg, arg', c, u)
      BY <2>1, <2>2 DEF ChangedAt
    <3> QED
      BY <2>2, <3>1, CountExcept, PoolAssumption
  <2>4. /\ Same(u, t) - Same(NoTask, t) \in Int
        /\ Same(u, t) - Same(NoTask, t) + 0 + 0 + 0 + Member(t, fresh')
             + Member(t, dropped') = Member(t, fresh) + Member(t, dropped)
    BY <1>1, <2>1, PoolAssumption DEF Member, Same
  <2>5. MovedBy(t, Same(u, t) - Same(NoTask, t), 0, 0, 0)
    BY <1>1, <2>3, <2>4, CountsUnchanged DEF MovedBy
  <2> QED
    BY <2>4, <2>5, TaskMoves
<1> QED
  BY <1>3, <1>4

\* addTask: from the caller's hand to the end of the queue, or turned away.
LEMMA QueueKeepsTasks ==
  ASSUME TInv, NEW c \in Client, AddTaskQueue(c)
  PROVE  EachTaskOnce'
<1>1. /\ arg \in [Client -> Task \cup {NoTask}] /\ arg[c] \in Task
      /\ task_Queue_ \in Seq(Task)
  BY DEF AddTaskQueue, TInv, IInv, Types
<1>2. /\ arg' = [arg EXCEPT ![c] = NoTask]
      /\ UNCHANGED <<fresh, inHand, done>>
  BY DEF AddTaskQueue, ClientOnly
<1> SUFFICES ASSUME NEW t \in Task PROVE Places(t)' = 1
  BY DEF EachTaskOnce
<1>3. Occurrences(Client, arg', t)
        = Occurrences(Client, arg, t) + (Same(NoTask, t) - Same(arg[c], t))
  <2>1. ChangedAt(Client, arg, arg', c, NoTask)
    BY <1>1, <1>2 DEF ChangedAt
  <2> QED
    BY <2>1, CountExcept, PoolAssumption
<1>4. Same(NoTask, t) = 0 /\ Same(arg[c], t) \in {0, 1}
  BY PoolAssumption DEF Same
<1>5. CASE Len(task_Queue_) < QUEUE_MAX
  <2>1. task_Queue_' = Append(task_Queue_, arg[c]) /\ dropped' = dropped
    BY <1>5 DEF AddTaskQueue
  <2>2. Occurrences(DOMAIN task_Queue_', task_Queue_', t)
          = Occurrences(DOMAIN task_Queue_, task_Queue_, t) + Same(arg[c], t)
    BY <1>1, <2>1, CountAppend
  <2>3. /\ Same(NoTask, t) - Same(arg[c], t) \in Int /\ Same(arg[c], t) \in Int
        /\ Same(NoTask, t) - Same(arg[c], t) + Same(arg[c], t) + 0 + 0
             + Member(t, fresh') + Member(t, dropped')
             = Member(t, fresh) + Member(t, dropped)
    BY <1>2, <1>4, <2>1 DEF Member
  <2>4. MovedBy(t, Same(NoTask, t) - Same(arg[c], t), Same(arg[c], t), 0, 0)
    BY <1>2, <1>3, <2>2, <2>3, CountsUnchanged DEF MovedBy
  <2> QED
    BY <2>3, <2>4, TaskMoves
<1>6. CASE ~(Len(task_Queue_) < QUEUE_MAX)
  <2>1. dropped' = dropped \cup {arg[c]} /\ task_Queue_' = task_Queue_
    BY <1>6 DEF AddTaskQueue
  <2>2. arg[c] \notin dropped
    BY <1>1, AtMostOnePlace
  <2>3. /\ Same(NoTask, t) - Same(arg[c], t) \in Int
        /\ Same(NoTask, t) - Same(arg[c], t) + 0 + 0 + 0
             + Member(t, fresh') + Member(t, dropped')
             = Member(t, fresh) + Member(t, dropped)
    BY <1>2, <1>4, <2>1, <2>2 DEF Member, Same
  <2>4. MovedBy(t, Same(NoTask, t) - Same(arg[c], t), 0, 0, 0)
    BY <1>2, <1>3, <2>1, <2>3, CountsUnchanged DEF MovedBy
  <2> QED
    BY <2>3, <2>4, TaskMoves
<1> QED
  BY <1>5, <1>6

\* takeTask: from the front of the queue to the worker's hand.
LEMMA TakeKeepsTasks ==
  ASSUME TInv, NEW w \in Worker, Take(w)
  PROVE  EachTaskOnce'
<1>1. UNCHANGED <<arg, fresh, dropped, done>>
  BY DEF Take, clients
<1>2. /\ task_Queue_ \in Seq(Task) /\ task_Queue_ # <<>>
      /\ inHand \in [Worker -> Task \cup {NoTask}] /\ inHand[w] = NoTask
  BY DEF Take, TInv, IInv, Types, TaskSeen, HandsHold
<1>3. /\ inHand' = [inHand EXCEPT ![w] = Head(task_Queue_)]
      /\ task_Queue_' = Tail(task_Queue_)
  BY <1>2 DEF Take
<1> SUFFICES ASSUME NEW t \in Task PROVE Places(t)' = 1
  BY DEF EachTaskOnce
<1>4. Occurrences(Worker, inHand', t)
        = Occurrences(Worker, inHand, t)
          + (Same(Head(task_Queue_), t) - Same(NoTask, t))
  <2>1. ChangedAt(Worker, inHand, inHand', w, Head(task_Queue_))
    BY <1>2, <1>3 DEF ChangedAt
  <2> QED
    BY <1>2, <2>1, CountExcept, SlotAssumption
<1>5. Occurrences(DOMAIN task_Queue_', task_Queue_', t)
        = Occurrences(DOMAIN task_Queue_, task_Queue_, t)
          + (0 - Same(Head(task_Queue_), t))
  BY <1>2, <1>3, CountTail
<1>6. Same(NoTask, t) = 0 /\ Same(Head(task_Queue_), t) \in {0, 1}
  BY PoolAssumption DEF Same
<1>7. /\ 0 - Same(Head(task_Queue_), t) \in Int
      /\ Same(Head(task_Queue_), t) - Same(NoTask, t) \in Int
      /\ 0 + (0 - Same(Head(task_Queue_), t))
           + (Same(Head(task_Queue_), t) - Same(NoTask, t)) + 0
           + Member(t, fresh') + Member(t, dropped')
           = Member(t, fresh) + Member(t, dropped)
  BY <1>1, <1>6 DEF Member
<1>8. MovedBy(t, 0, 0 - Same(Head(task_Queue_), t),
                 Same(Head(task_Queue_), t) - Same(NoTask, t), 0)
  BY <1>1, <1>4, <1>5, <1>7, CountsUnchanged DEF MovedBy
<1> QED
  BY <1>7, <1>8, TaskMoves

\* The callback: from the worker's hand to those that ran.
LEMMA RunKeepsTasks ==
  ASSUME TInv, NEW w \in Worker, RunCallback(w)
  PROVE  EachTaskOnce'
<1>1. /\ UNCHANGED <<arg, task_Queue_, fresh, dropped>>
      /\ inHand' = [inHand EXCEPT ![w] = NoTask]
      /\ done' = Append(done, inHand[w])
  BY DEF RunCallback, clients
<1>2. /\ done \in Seq(Task)
      /\ inHand \in [Worker -> Task \cup {NoTask}] /\ inHand[w] \in Task
  BY DEF RunCallback, TInv, HandsHold
<1> SUFFICES ASSUME NEW t \in Task PROVE Places(t)' = 1
  BY DEF EachTaskOnce
<1>3. Occurrences(Worker, inHand', t)
        = Occurrences(Worker, inHand, t) + (Same(NoTask, t) - Same(inHand[w], t))
  <2>1. ChangedAt(Worker, inHand, inHand', w, NoTask)
    BY <1>1, <1>2 DEF ChangedAt
  <2> QED
    BY <2>1, CountExcept, SlotAssumption
<1>4. Occurrences(DOMAIN done', done', t)
        = Occurrences(DOMAIN done, done, t) + Same(inHand[w], t)
  BY <1>1, <1>2, CountAppend
<1>5. Same(NoTask, t) = 0 /\ Same(inHand[w], t) \in {0, 1}
  BY PoolAssumption DEF Same
<1>6. /\ Same(NoTask, t) - Same(inHand[w], t) \in Int /\ Same(inHand[w], t) \in Int
      /\ 0 + 0 + (Same(NoTask, t) - Same(inHand[w], t)) + Same(inHand[w], t)
           + Member(t, fresh') + Member(t, dropped')
           = Member(t, fresh) + Member(t, dropped)
  BY <1>1, <1>5 DEF Member
<1>7. MovedBy(t, 0, 0, Same(NoTask, t) - Same(inHand[w], t), Same(inHand[w], t))
  BY <1>1, <1>3, <1>4, <1>6, CountsUnchanged DEF MovedBy
<1> QED
  BY <1>6, <1>7, TaskMoves

\* No other step of a worker touches a task.
LEMMA WorkerKeepsTasks ==
  ASSUME TInv, NEW w \in Worker, WorkerStep(w) \/ SpuriousWakeup(w)
  PROVE  EachTaskOnce'
<1>1. CASE Take(w) \/ RunCallback(w)
  BY <1>1, TakeKeepsTasks, RunKeepsTasks
<1>2. CASE ~(Take(w) \/ RunCallback(w))
  <2>1. UNCHANGED <<arg, task_Queue_, inHand, fresh, dropped, done>>
    BY <1>2 DEF WorkerStep, SpuriousWakeup, Lock, CheckSize, CheckFlag, EnterWait,
                ExitSurplus, WakeUp, TestShutdown, MarkBusy, MarkIdle, queueVars,
                clients
  <2> QED
    BY <2>1 DEF TInv, EachTaskOnce, Places
<1> QED
  BY <1>1, <1>2

\* Nor do the manager, the notification of addTask and the destructor.
LEMMA OthersKeepTasks ==
  ASSUME TInv,
         \/ ManagerStep \/ MainStep \/ UNCHANGED vars
         \/ \E c \in Client : ClientStep(c)
  PROVE  EachTaskOnce'
<1>1. CASE \E c \in Client : AddTaskQueue(c) \/ \E u \in Task : AddTaskCheck(c, u)
  BY <1>1, QueueKeepsTasks, CheckKeepsTasks
<1>2. CASE \/ ManagerStep \/ MainStep \/ UNCHANGED vars
           \/ \E c \in Client : AddTaskNotify(c)
  <2>1. UNCHANGED <<arg, task_Queue_, inHand, fresh, dropped, done>>
    BY <1>2 DEF ManagerStep, ManagerLoop, ReadSize, ReadAlive, ReadBusy, Grow,
                SkipGrow, Shrink, SkipShrink, NotifySurplus, ManagerOnly, MainStep,
                SetShutdown, MainReturn, JoinManager, WakeAll, JoinWorkers, MainOnly,
                AddTaskNotify, ClientOnly, vars, queueVars, clients, workers
  <2> QED
    BY <2>1 DEF TInv, EachTaskOnce, Places
<1> QED
  BY <1>1, <1>2 DEF ClientStep, ClientReturn

\* Who has a task in hand: callers in addTask, workers with tpMutex or running.
LEMMA WorkerKeepsHands ==
  ASSUME TInv, NEW w \in Worker, WorkerStep(w) \/ SpuriousWakeup(w)
  PROVE  HandsHold'
<1> USE DEF TInv, IInv, Types, HandsHold, Goto, clients, queueVars, WorkerLabel
<1>1. CASE Take(w)
  <2>1. task_Queue_ # <<>> /\ task_Queue_ \in Seq(Task)
    BY <1>1 DEF Take, TaskSeen
  <2>2. Head(task_Queue_) \in Task
    BY <2>1, HeadTailProperties
  <2>3. /\ inHand' = [inHand EXCEPT ![w] = Head(task_Queue_)]
        /\ pc' = [pc EXCEPT ![w] = "Busy"]
        /\ UNCHANGED <<done, clientPc, arg>>
    BY <1>1, <2>1 DEF Take
  <2> QED
    BY <2>2, <2>3
<1>2. CASE RunCallback(w)
  <2>1. inHand[w] \in Task
    BY <1>2 DEF RunCallback
  <2>2. /\ inHand' = [inHand EXCEPT ![w] = NoTask]
        /\ pc' = [pc EXCEPT ![w] = "MarkIdle"]
        /\ done' = Append(done, inHand[w]) /\ UNCHANGED <<clientPc, arg>>
    BY <1>2 DEF RunCallback
  <2>3. done' \in Seq(Task)
    BY <2>1, <2>2, AppendProperties
  <2> QED
    BY <2>2, <2>3
<1>3. CASE MarkBusy(w)
  BY <1>3 DEF MarkBusy
<1>4. CASE \/ Lock(w) \/ CheckSize(w) \/ CheckFlag(w) \/ EnterWait(w)
           \/ ExitSurplus(w) \/ WakeUp(w) \/ TestShutdown(w) \/ MarkIdle(w)
           \/ SpuriousWakeup(w)
  <2>1. UNCHANGED <<inHand, done, clientPc, arg>>
    BY <1>4 DEF Lock, CheckSize, CheckFlag, EnterWait, ExitSurplus, WakeUp,
                TestShutdown, MarkIdle, SpuriousWakeup
  <2>2. pc[w] \notin {"Busy", "Run"}
    BY <1>4 DEF Lock, CheckSize, CheckFlag, EnterWait, ExitSurplus, WakeUp,
                TestShutdown, MarkIdle, SpuriousWakeup
  <2>3. \E l \in WorkerLabel \ {"Busy", "Run"} : pc' = [pc EXCEPT ![w] = l]
    BY <1>4 DEF Lock, CheckSize, CheckFlag, EnterWait, ExitSurplus, WakeUp,
                TestShutdown, MarkIdle, SpuriousWakeup, AfterWait
  <2> QED
    BY <2>1, <2>2, <2>3
<1> QED
  BY <1>1, <1>2, <1>3, <1>4 DEF WorkerStep

\* No one but a worker itself moves it to or from where it has a task in hand.
LEMMA OthersKeepHands ==
  ASSUME TInv,
         \/ ManagerStep \/ MainStep \/ UNCHANGED vars
         \/ \E c \in Client : ClientStep(c)
  PROVE  HandsHold'
<1>1. UNCHANGED <<inHand, done>>
  BY DEF ManagerStep, ManagerLoop, ReadSize, ReadAlive, ReadBusy, Grow, SkipGrow,
         Shrink, SkipShrink, NotifySurplus, ManagerOnly, MainStep, SetShutdown,
         MainReturn, JoinManager, WakeAll, JoinWorkers, MainOnly, ClientStep,
         ClientReturn, AddTaskCheck, AddTaskQueue, AddTaskNotify, ClientOnly, vars,
         queueVars, workers
<1>2. \A w \in Worker : \/ pc'[w] = pc[w]
                        \/ pc[w] \notin {"Busy", "Run"} /\ pc'[w] \notin {"Busy", "Run"}
  <2>1. pc' = pc \/ NotifyOne \/ NotifyAll \/ Grow
    BY DEF ManagerStep, ManagerLoop, ReadSize, ReadAlive, ReadBusy, SkipGrow,
           Shrink, SkipShrink, NotifySurplus, MainStep, SetShutdown,
           MainReturn, JoinManager, WakeAll, JoinWorkers, ClientStep,
           ClientReturn, AddTaskCheck, AddTaskQueue, AddTaskNotify, vars, workers
  <2>2. CASE NotifyOne
    BY <2>2, NotifyOneMoves DEF TInv, IInv, Types
  <2>3. CASE NotifyAll
    BY <2>3 DEF NotifyAll, Waiting
  <2>4. CASE Grow
    BY <2>4 DEF Grow, Live
  <2> QED
    BY <2>1, <2>2, <2>3, <2>4
<1>3. \A c \in Client : clientPc'[c] # "Add" => arg'[c] = NoTask
  <2>1. CASE UNCHANGED <<clientPc, arg>>
    BY <2>1 DEF TInv, HandsHold
  <2>2. CASE \E c \in Client : ClientStep(c)
    BY <2>2 DEF TInv, HandsHold, IInv, Types, ClientStep, ClientReturn,
       AddTaskCheck,
                AddTaskQueue, AddTaskNotify
  <2>3. CASE ManagerStep \/ MainStep \/ UNCHANGED vars
    <3>1. UNCHANGED <<clientPc, arg>>
      BY <2>3 DEF ManagerStep, ManagerLoop, ReadSize, ReadAlive, ReadBusy, Grow,
                  SkipGrow, Shrink, SkipShrink, NotifySurplus, ManagerOnly, MainStep,
                  SetShutdown, MainReturn, JoinManager, WakeAll, JoinWorkers,
                  MainOnly, vars, clients
    <3> QED
      BY <2>1, <3>1
  <2> QED
    BY <2>2, <2>3
<1> QED
  BY <1>1, <1>2, <1>3 DEF TInv, HandsHold

LEMMA InitTInv == Init => TInv
<1> SUFFICES ASSUME Init PROVE HandsHold /\ EachTaskOnce
  BY InitIInv DEF TInv
<1>1. HandsHold
  <2>1. \A w \in Worker : pc[w] \notin {"Busy", "Run"}
    BY DEF Init
  <2>2. done \in Seq(Task)
    BY EmptySeq, Zenon DEF Init
  <2> QED
    BY <2>1, <2>2 DEF Init, HandsHold
<1>2. ASSUME NEW t \in Task PROVE Places(t) = 1
  <2>1. /\ {c \in Client : arg[c] = t} = {} /\ {w \in Worker : inHand[w] = t} = {}
    BY <1>2, PoolAssumption DEF Init
  <2>2. /\ {i \in DOMAIN task_Queue_ : task_Queue_[i] = t} = {}
        /\ {i \in DOMAIN done : done[i] = t} = {}
    BY DEF Init
  <2>3. {t} \cap fresh = {t} /\ {t} \cap dropped = {}
    BY <1>2 DEF Init
  <2> QED
    BY <2>1, <2>2, <2>3, FS_EmptySet, FS_Singleton DEF Places
<1> QED
  BY <1>1, <1>2 DEF EachTaskOnce

LEMMA NextTInv == TInv /\ [Next]_vars => TInv'
<1> SUFFICES ASSUME TInv, [Next]_vars PROVE HandsHold' /\ EachTaskOnce'
  BY NextIInv DEF TInv
<1> QED
  BY WorkerKeepsTasks, OthersKeepTasks, WorkerKeepsHands, OthersKeepHands DEF Next

\* Every task is in exactly one place at every moment, for any number of tasks,
\* callers and workers and any capacity: wakeups, growth, shrinking and shutdown
\* neither lose a task nor run one twice.
THEOREM EachTaskOnceHolds == Spec => []EachTaskOnce
<1>1. TInv => EachTaskOnce
  BY DEF TInv
<1> QED
  BY InitTInv, NextTInv, <1>1, PTL DEF Spec

-----------------------------------------------------------------------------
(***************************************************************************)
(* The types.  That the counters are never taken below zero is not local:   *)
(* it rests on their agreement with the threads there are, and what the     *)
(* places of the tasks hold rests on who has one in hand.                  *)
(***************************************************************************)
Others ==
  /\ fresh \subseteq Task /\ dropped \subseteq Task
  /\ m_exit_threads \in Nat
  /\ managerPc \in {"Loop", "ReadSize", "ReadAlive", "ReadBusy", "Grow",
                    "Shrink", "Notify1", "Notify2", "Exited"}
  /\ seen \in [size : Nat, alive : Nat, busy : Nat]
  /\ mainPc \in {"Running", "JoinManager", "WakeAll", "JoinWorkers", "Destroyed"}

PoolInv == CInv /\ TInv /\ Others

LEMMA InitPoolInv == Init => PoolInv
<1> SUFFICES ASSUME Init PROVE Others
  BY InitCInv, InitTInv DEF PoolInv
<1>1. seen \in [size : Nat, alive : Nat, busy : Nat]
  BY DEF Init
<1> QED
  BY <1>1 DEF Init, Others

\* What the manager reads are numbers, as they are counts.
LEMMA ManagerKeepsOthers ==
  ASSUME PoolInv, ManagerStep PROVE Others'
<1>1. UNCHANGED <<fresh, dropped, mainPc>>
  BY DEF ManagerStep, ManagerLoop, ReadSize, ReadAlive, ReadBusy, Grow, SkipGrow,
         Shrink, SkipShrink, NotifySurplus, ManagerOnly, queueVars
<1>2. m_exit_threads' \in Nat
  BY DEF ManagerStep, ManagerLoop, ReadSize, ReadAlive, ReadBusy, Grow, SkipGrow,
         Shrink, SkipShrink, NotifySurplus, counters, stepSize, PoolInv, Others
<1>3. managerPc' \in {"Loop", "ReadSize", "ReadAlive", "ReadBusy", "Grow",
                      "Shrink", "Notify1", "Notify2", "Exited"}
  BY DEF ManagerStep, ManagerLoop, ReadSize, ReadAlive, ReadBusy, Grow, SkipGrow,
         Shrink, SkipShrink, NotifySurplus, ManagerGoto
<1>4. seen' \in [size : Nat, alive : Nat, busy : Nat]
  <2>1. /\ seen \in [size : Nat, alive : Nat, busy : Nat]
        /\ Len(task_Queue_) \in Nat /\ m_alive_threads \in Nat
        /\ m_busy_threads \in Nat
    BY LenProperties DEF PoolInv, Others, CInv, IInv, Types, CounterTypes
  <2>2. \/ seen' = seen
        \/ seen' = [seen EXCEPT !.size = Len(task_Queue_)]
        \/ seen' = [seen EXCEPT !.alive = m_alive_threads]
        \/ seen' = [seen EXCEPT !.busy = m_busy_threads]
    BY DEF ManagerStep, ManagerLoop, ReadSize, ReadAlive, ReadBusy, Grow,
       SkipGrow,
           Shrink, SkipShrink, NotifySurplus
  <2> QED
    BY <2>1, <2>2
<1> QED
  BY <1>1, <1>2, <1>3, <1>4 DEF Others, PoolInv

LEMMA WorkerKeepsOthers ==
  ASSUME PoolInv, NEW w \in Worker, WorkerStep(w) \/ SpuriousWakeup(w)
  PROVE  Others'
<1>1. UNCHANGED <<fresh, dropped, mainPc, managerPc, seen>>
  BY DEF WorkerStep, SpuriousWakeup, Lock, CheckSize, CheckFlag, EnterWait,
         ExitSurplus, WakeUp, TestShutdown, Take, MarkBusy, RunCallback, MarkIdle,
         queueVars, manager
<1>2. CASE ExitSurplus(w)
  BY <1>1, <1>2 DEF ExitSurplus, IsSurplus, PoolInv, Others
<1>3. CASE ~ExitSurplus(w)
  <2>1. UNCHANGED m_exit_threads
    BY <1>3 DEF WorkerStep, SpuriousWakeup, Lock, CheckSize, CheckFlag, EnterWait,
           WakeUp, TestShutdown, Take, MarkBusy, RunCallback, MarkIdle, counters
  <2> QED
    BY <1>1, <2>1 DEF PoolInv, Others
<1> QED
  BY <1>2, <1>3

LEMMA ClientKeepsOthers ==
  ASSUME PoolInv, NEW c \in Client, ClientStep(c) PROVE Others'
<1>1. UNCHANGED <<m_exit_threads, mainPc, managerPc, seen>>
  BY DEF ClientStep, ClientReturn, AddTaskCheck, AddTaskQueue, AddTaskNotify,
         ClientOnly, counters, manager
<1>2. ASSUME NEW t \in Task, AddTaskCheck(c, t)
      PROVE  fresh' \subseteq Task /\ dropped' \subseteq Task
  BY <1>2 DEF AddTaskCheck, PoolInv, Others
<1>3. ASSUME AddTaskQueue(c) PROVE fresh' \subseteq Task /\ dropped' \subseteq Task
  <2>1. arg[c] \in Task
    BY <1>3 DEF AddTaskQueue, PoolInv, TInv, IInv, Types
  <2> QED
    BY <1>3, <2>1 DEF AddTaskQueue, PoolInv, Others
<1>4. ASSUME AddTaskNotify(c) PROVE fresh' \subseteq Task /\ dropped' \subseteq Task
  BY <1>4 DEF AddTaskNotify, PoolInv, Others
<1> QED
  BY <1>1, <1>2, <1>3, <1>4 DEF ClientStep, ClientReturn, PoolInv, Others

LEMMA NextPoolInv == PoolInv /\ [Next]_vars => PoolInv'
<1> SUFFICES ASSUME PoolInv, [Next]_vars PROVE Others'
  BY NextCInv, NextTInv DEF PoolInv
<1>1. CASE MainStep \/ UNCHANGED vars
  <2>1. UNCHANGED <<fresh, dropped, m_exit_threads, managerPc, seen>>
    BY <1>1 DEF MainStep, SetShutdown, MainReturn, JoinManager, WakeAll,
       JoinWorkers,
                MainOnly, queueVars, counters, manager, vars
  <2>2. mainPc' \in {"Running", "JoinManager", "WakeAll", "JoinWorkers", "Destroyed"}
    BY <1>1 DEF MainStep, SetShutdown, MainReturn, JoinManager, WakeAll,
       JoinWorkers,
                MainGoto, vars, PoolInv, Others
  <2> QED
    BY <2>1, <2>2 DEF PoolInv, Others
<1> QED
  BY <1>1, ManagerKeepsOthers, WorkerKeepsOthers, ClientKeepsOthers DEF Next

LEMMA PoolIsTyped == PoolInv => TypeOK
BY DEF PoolInv, CInv, TInv, IInv, Types, CounterTypes, HandsHold, Others, TypeOK

\* Every field keeps its type; above all, neither counter of threads and not
\* m_exit_threads is ever counted below zero.
THEOREM TypeCorrect == Spec => []TypeOK
BY InitPoolInv, NextPoolInv, PoolIsTyped, PTL DEF Spec
=============================================================================
