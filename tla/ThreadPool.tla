----------------------------- MODULE ThreadPool -----------------------------
(***************************************************************************)
(* threadPool/threadpool.h: ThreadPool<T>.  Callers queue tasks, workers    *)
(* sleep on the condition variable queueNotEmpty until there is one, a      *)
(* manager thread grows and shrinks the set of workers, and the destructor  *)
(* stops everybody.                                                         *)
(*                                                                          *)
(* A step is one access to state another thread can reach at that moment.   *)
(* What tpMutex protects from every other thread (m_exit_threads, the wait  *)
(* set) is read or written in the step that locks or unlocks it.  The task  *)
(* queue has a mutex of its own, which addTask takes WITHOUT tpMutex: it is *)
(* the atomic BoundedFifo that TaskQueue is proved to implement.            *)
(*                                                                          *)
(* A member of Worker is a slot for a live std::thread: the slot is Free    *)
(* before the thread is spawned and again after worker_Func returned.       *)
(***************************************************************************)
EXTENDS Naturals, Sequences, FiniteSets

CONSTANTS Worker,          \* slots for worker threads
          Client,          \* threads that call addTask
          Task,            \* bound: each of these tasks is submitted once
          NoTask,          \* no task at hand
          NoThread,        \* tpMutex is not held
          QUEUE_MAX,       \* capacity of the task queue
          m_thread_MAXNUM, \* constructor argument max
          m_thread_MINNUM  \* constructor argument min

ASSUME PoolAssumption ==
  /\ QUEUE_MAX \in Nat \ {0}
  /\ m_thread_MAXNUM \in Nat
  /\ m_thread_MINNUM \in Nat
  /\ NoTask \notin Task
  /\ NoThread \notin Worker
  /\ IsFiniteSet(Client)

\* A growth starts below the maximum and may overshoot it by one thread: with
\* this many slots the model never runs out of threads to spawn.
ASSUME SlotAssumption ==
  /\ IsFiniteSet(Worker)
  /\ Cardinality(Worker) >= m_thread_MINNUM + m_thread_MAXNUM
                             + (IF m_thread_MAXNUM >= 2 THEN 1 ELSE 0)

VARIABLES
  task_Queue_,      \* the queued tasks, oldest first
  m_alive_threads, m_busy_threads, m_exit_threads, shutdown_flags,
  tpMutex,          \* the worker that holds tpMutex, or NoThread
  pc,               \* where each worker is in worker_Func
  inHand,           \* the local t of each worker
  managerPc,        \* where the manager is in manager_Func
  seen,             \* its locals queueSize, aliveThreadNum, busyThreadNum
  mainPc,           \* where the owner is in ~ThreadPool
  clientPc, arg,    \* where each caller is in addTask, and its argument
  fresh,            \* the tasks not submitted yet
  dropped,          \* the tasks addTask turned away
  done              \* the tasks whose callback ran, in that order

queueVars == <<task_Queue_, fresh, dropped, done>>
counters  == <<m_alive_threads, m_busy_threads, m_exit_threads>>
workers   == <<tpMutex, pc, inHand>>
manager   == <<managerPc, seen>>
clients   == <<clientPc, arg>>
vars == <<queueVars, counters, shutdown_flags, workers, manager, mainPc,
          clients>>

stepSize == 2

Live == {w \in Worker : pc[w] # "Free"}
Waiting == {w \in Worker : pc[w] = "Waiting"}
Goto(w, label) == pc' = [pc EXCEPT ![w] = label]

(***************************************************************************)
(* The condition variable: notify_one moves one waiter, if there is one, to *)
(* where it competes for tpMutex again; notify_all moves every waiter.      *)
(***************************************************************************)
NotifyOne == IF Waiting = {}
             THEN UNCHANGED pc
             ELSE \E w \in Waiting : Goto(w, "Woken")

NotifyAllWakesOne == NotifyOne
NotifyAll == pc' = [w \in Worker |-> IF w \in Waiting THEN "Woken" ELSE pc[w]]

-----------------------------------------------------------------------------
(***************************************************************************)
(* worker_Func.                                                            *)
(***************************************************************************)
Lock(w) ==
  /\ pc[w] = "Lock" /\ tpMutex = NoThread
  /\ tpMutex' = w
  /\ Goto(w, "CheckSize")
  /\ UNCHANGED <<queueVars, counters, shutdown_flags, inHand, manager, mainPc,
                 clients>>

\* The first operand of the loop condition: getSize() == 0.
CheckSize(w) ==
  /\ pc[w] = "CheckSize"
  /\ Goto(w, IF task_Queue_ = <<>> THEN "CheckFlag" ELSE "TestShutdown")
  /\ UNCHANGED <<queueVars, counters, shutdown_flags, tpMutex, inHand, manager,
                 mainPc, clients>>

\* The second operand: shutdown_flags != true.  The slip: only the queue is
\* tested before going to sleep.
SleepsAnyway == TRUE
MaySleep == ~shutdown_flags
CheckFlag(w) ==
  /\ pc[w] = "CheckFlag"
  /\ Goto(w, IF MaySleep THEN "EnterWait" ELSE "TestShutdown")
  /\ UNCHANGED <<queueVars, counters, shutdown_flags, tpMutex, inHand, manager,
                 mainPc, clients>>

\* queueNotEmpty.wait: joins the wait set and releases tpMutex at once.
EnterWait(w) ==
  /\ pc[w] = "EnterWait"
  /\ tpMutex' = NoThread
  /\ Goto(w, "Waiting")
  /\ UNCHANGED <<queueVars, counters, shutdown_flags, inHand, manager, mainPc,
                 clients>>

SpuriousWakeup(w) ==
  /\ pc[w] = "Waiting"
  /\ Goto(w, "Woken")
  /\ UNCHANGED <<queueVars, counters, shutdown_flags, tpMutex, inHand, manager,
                 mainPc, clients>>

\* Back from wait with tpMutex held, the worker is one of those to remove.
IsSurplus == m_exit_threads > 0 /\ m_alive_threads > m_thread_MINNUM

\* The surplus worker returns, which releases tpMutex.  The slip: it leaves
\* m_alive_threads as it was.
ExitSurplusUncounted(w) ==
  /\ pc[w] = "Woken" /\ tpMutex = NoThread /\ IsSurplus
  /\ m_exit_threads' = m_exit_threads - 1
  /\ Goto(w, "Free")
  /\ UNCHANGED <<queueVars, m_alive_threads, m_busy_threads, shutdown_flags,
                 tpMutex, inHand, manager, mainPc, clients>>
ExitSurplus(w) ==
  /\ pc[w] = "Woken" /\ tpMutex = NoThread /\ IsSurplus
  /\ m_alive_threads' = m_alive_threads - 1
  /\ m_exit_threads' = m_exit_threads - 1
  /\ Goto(w, "Free")
  /\ UNCHANGED <<queueVars, m_busy_threads, shutdown_flags, tpMutex, inHand,
                 manager, mainPc, clients>>

\* Any other worker goes round the while loop again.  The slip: if for while.
ToTakeAtOnce == "TestShutdown"
AfterWait == "CheckSize"
\* The slip: wait returns without tpMutex.
WakeUpUnlocked(w) ==
  /\ pc[w] = "Woken" /\ ~IsSurplus
  /\ Goto(w, AfterWait)
  /\ UNCHANGED <<queueVars, counters, shutdown_flags, tpMutex, inHand, manager,
                 mainPc, clients>>
WakeUp(w) ==
  /\ pc[w] = "Woken" /\ tpMutex = NoThread /\ ~IsSurplus
  /\ tpMutex' = w
  /\ Goto(w, AfterWait)
  /\ UNCHANGED <<queueVars, counters, shutdown_flags, inHand, manager, mainPc,
                 clients>>

TestShutdown(w) ==
  /\ pc[w] = "TestShutdown"
  /\ IF shutdown_flags
     THEN Goto(w, "Free") /\ tpMutex' = NoThread
     ELSE Goto(w, "Take") /\ UNCHANGED tpMutex
  /\ UNCHANGED <<queueVars, counters, shutdown_flags, inHand, manager, mainPc,
                 clients>>

\* takeTask; nullopt would end the turn and release tpMutex.  The slip: the
\* task is copied and stays at the front.
TakeCopies(w) ==
  /\ pc[w] = "Take"
  /\ IF task_Queue_ = <<>>
     THEN Goto(w, "Lock") /\ tpMutex' = NoThread /\ UNCHANGED inHand
     ELSE /\ inHand' = [inHand EXCEPT ![w] = Head(task_Queue_)]
          /\ Goto(w, "Busy")
          /\ UNCHANGED tpMutex
  /\ UNCHANGED <<queueVars, counters, shutdown_flags, manager, mainPc, clients>>
Take(w) ==
  /\ pc[w] = "Take"
  /\ IF task_Queue_ = <<>>
     THEN /\ Goto(w, "Lock")
          /\ tpMutex' = NoThread
          /\ UNCHANGED <<task_Queue_, inHand>>
     ELSE /\ inHand' = [inHand EXCEPT ![w] = Head(task_Queue_)]
          /\ task_Queue_' = Tail(task_Queue_)
          /\ Goto(w, "Busy")
          /\ UNCHANGED tpMutex
  /\ UNCHANGED <<fresh, dropped, done, counters, shutdown_flags, manager,
                 mainPc, clients>>

MarkBusy(w) ==
  /\ pc[w] = "Busy"
  /\ m_busy_threads' = m_busy_threads + 1
  /\ tpMutex' = NoThread
  /\ Goto(w, "Run")
  /\ UNCHANGED <<queueVars, m_alive_threads, m_exit_threads, shutdown_flags,
                 inHand, manager, mainPc, clients>>

\* The callback runs without tpMutex; its end is the step.
RunCallback(w) ==
  /\ pc[w] = "Run"
  /\ done' = Append(done, inHand[w])
  /\ inHand' = [inHand EXCEPT ![w] = NoTask]
  /\ Goto(w, "MarkIdle")
  /\ UNCHANGED <<task_Queue_, fresh, dropped, counters, shutdown_flags, tpMutex,
                 manager, mainPc, clients>>

MarkIdle(w) ==
  /\ pc[w] = "MarkIdle"
  /\ m_busy_threads' = m_busy_threads - 1
  /\ Goto(w, "Lock")
  /\ UNCHANGED <<queueVars, m_alive_threads, m_exit_threads, shutdown_flags,
                 tpMutex, inHand, manager, mainPc, clients>>

WorkerStep(w) == \/ Lock(w) \/ CheckSize(w) \/ CheckFlag(w) \/ EnterWait(w)
                 \/ ExitSurplus(w) \/ WakeUp(w) \/ TestShutdown(w) \/ Take(w)
                 \/ MarkBusy(w) \/ RunCallback(w) \/ MarkIdle(w)

-----------------------------------------------------------------------------
(***************************************************************************)
(* manager_Func.  The five second sleep is the time the thread spends at    *)
(* ReadSize.                                                                *)
(***************************************************************************)
ManagerGoto(label) == managerPc' = label
ManagerOnly == UNCHANGED <<queueVars, shutdown_flags, mainPc, clients, inHand>>

ManagerLoop ==
  /\ managerPc = "Loop"
  /\ ManagerGoto(IF shutdown_flags THEN "Exited" ELSE "ReadSize")
  /\ UNCHANGED <<seen, counters, tpMutex, pc>> /\ ManagerOnly

ReadSize ==
  /\ managerPc = "ReadSize"
  /\ seen' = [seen EXCEPT !.size = Len(task_Queue_)]
  /\ ManagerGoto("ReadAlive")
  /\ UNCHANGED <<counters, tpMutex, pc>> /\ ManagerOnly

ReadAlive ==
  /\ managerPc = "ReadAlive"
  /\ seen' = [seen EXCEPT !.alive = m_alive_threads]
  /\ ManagerGoto("ReadBusy")
  /\ UNCHANGED <<counters, tpMutex, pc>> /\ ManagerOnly

ReadBusy ==
  /\ managerPc = "ReadBusy"
  /\ seen' = [seen EXCEPT !.busy = m_busy_threads]
  /\ ManagerGoto("Grow")
  /\ UNCHANGED <<counters, tpMutex, pc>> /\ ManagerOnly

\* How many threads one growth spawns: the loop's bound on i is the maximum,
\* its bound on counter the step, and the count it compares with the maximum
\* is the local read before the loop.
GrowBy == IF seen.size > seen.alive /\ seen.alive < m_thread_MAXNUM
          THEN IF stepSize < m_thread_MAXNUM THEN stepSize ELSE m_thread_MAXNUM
          ELSE 0

\* The whole loop runs with tpMutex held, and a new worker's first step is to
\* lock it: one action.
Grow ==
  /\ managerPc = "Grow" /\ GrowBy > 0
  /\ tpMutex = NoThread
  /\ \E born \in SUBSET (Worker \ Live) :
       /\ Cardinality(born) = GrowBy
       /\ pc' = [w \in Worker |-> IF w \in born THEN "Lock" ELSE pc[w]]
  /\ m_alive_threads' = m_alive_threads + GrowBy
  /\ ManagerGoto("Shrink")
  /\ UNCHANGED <<seen, m_busy_threads, m_exit_threads, tpMutex>> /\ ManagerOnly

SkipGrow ==
  /\ managerPc = "Grow" /\ GrowBy = 0
  /\ ManagerGoto("Shrink")
  /\ UNCHANGED <<seen, counters, tpMutex, pc>> /\ ManagerOnly

ShouldShrink == seen.busy * 2 < seen.alive /\ seen.alive > m_thread_MINNUM

Shrink ==
  /\ managerPc = "Shrink" /\ ShouldShrink
  /\ tpMutex = NoThread
  /\ m_exit_threads' = stepSize
  /\ ManagerGoto("Notify1")
  /\ UNCHANGED <<seen, m_alive_threads, m_busy_threads, tpMutex, pc>>
  /\ ManagerOnly

SkipShrink ==
  /\ managerPc = "Shrink" /\ ~ShouldShrink
  /\ ManagerGoto("Loop")
  /\ UNCHANGED <<seen, counters, tpMutex, pc>> /\ ManagerOnly

\* The two notify_one calls, without tpMutex.
NotifySurplus ==
  /\ managerPc \in {"Notify1", "Notify2"}
  /\ NotifyOne
  /\ ManagerGoto(IF managerPc = "Notify1" THEN "Notify2" ELSE "Loop")
  /\ UNCHANGED <<seen, counters, tpMutex>> /\ ManagerOnly

ManagerStep == \/ ManagerLoop \/ ReadSize \/ ReadAlive \/ ReadBusy
               \/ Grow \/ SkipGrow \/ Shrink \/ SkipShrink \/ NotifySurplus

-----------------------------------------------------------------------------
(***************************************************************************)
(* addTask.  A caller may still be inside it while the destructor runs, but *)
(* makes no call once the pool is gone.                                     *)
(***************************************************************************)
ClientOnly == UNCHANGED <<done, counters, shutdown_flags, tpMutex, inHand,
                          manager, mainPc>>

AddTaskCheck(c, t) ==
  /\ clientPc[c] = "Idle" /\ mainPc # "Destroyed"
  /\ t \in fresh
  /\ fresh' = fresh \ {t}
  /\ IF shutdown_flags
     THEN dropped' = dropped \cup {t} /\ UNCHANGED <<clientPc, arg>>
     ELSE /\ clientPc' = [clientPc EXCEPT ![c] = "Add"]
          /\ arg' = [arg EXCEPT ![c] = t]
          /\ UNCHANGED dropped
  /\ UNCHANGED <<task_Queue_, pc>> /\ ClientOnly

AddTaskQueue(c) ==
  /\ clientPc[c] = "Add"
  /\ arg' = [arg EXCEPT ![c] = NoTask]
  /\ IF Len(task_Queue_) < QUEUE_MAX
     THEN /\ task_Queue_' = Append(task_Queue_, arg[c])
          /\ clientPc' = [clientPc EXCEPT ![c] = "Notify"]
          /\ UNCHANGED dropped
     ELSE /\ dropped' = dropped \cup {arg[c]}
          /\ clientPc' = [clientPc EXCEPT ![c] = "Idle"]
          /\ UNCHANGED task_Queue_
  /\ UNCHANGED <<fresh, pc>> /\ ClientOnly

AddTaskNotify(c) ==
  /\ clientPc[c] = "Notify"
  /\ NotifyOne
  /\ clientPc' = [clientPc EXCEPT ![c] = "Idle"]
  /\ UNCHANGED <<task_Queue_, fresh, dropped, arg>> /\ ClientOnly

ClientReturn(c) == AddTaskQueue(c) \/ AddTaskNotify(c)
ClientStep(c) == ClientReturn(c) \/ \E t \in Task : AddTaskCheck(c, t)

-----------------------------------------------------------------------------
(***************************************************************************)
(* ~ThreadPool.                                                            *)
(***************************************************************************)
MainGoto(label) == mainPc' = label
MainOnly == UNCHANGED <<queueVars, counters, inHand, manager, clients, tpMutex>>

SetShutdown ==
  /\ mainPc = "Running"
  /\ shutdown_flags' = TRUE
  /\ MainGoto("JoinManager")
  /\ UNCHANGED pc /\ MainOnly

JoinManager ==
  /\ mainPc = "JoinManager" /\ managerPc = "Exited"
  /\ MainGoto("WakeAll")
  /\ UNCHANGED <<shutdown_flags, pc>> /\ MainOnly

WakeAll ==
  /\ mainPc = "WakeAll" /\ tpMutex = NoThread
  /\ NotifyAll
  /\ MainGoto("JoinWorkers")
  /\ UNCHANGED shutdown_flags /\ MainOnly

JoinWorkers ==
  /\ mainPc = "JoinWorkers" /\ Live = {}
  /\ \A c \in Client : clientPc[c] = "Idle"
  /\ MainGoto("Destroyed")
  /\ UNCHANGED <<shutdown_flags, pc>> /\ MainOnly

MainReturn == JoinManager \/ WakeAll \/ JoinWorkers
MainStep == SetShutdown \/ MainReturn

-----------------------------------------------------------------------------
\* The constructor has spawned the minimum of workers, which it does not count
\* in m_alive_threads, and the manager; none of them has made a step.
Init ==
  /\ task_Queue_ = <<>> /\ fresh = Task /\ dropped = {} /\ done = <<>>
  /\ m_alive_threads = 0 /\ m_busy_threads = 0 /\ m_exit_threads = 0
  /\ shutdown_flags = FALSE
  /\ tpMutex = NoThread
  /\ \E born \in SUBSET Worker :
       /\ Cardinality(born) = m_thread_MINNUM
       /\ pc = [w \in Worker |-> IF w \in born THEN "Lock" ELSE "Free"]
  /\ inHand = [w \in Worker |-> NoTask]
  /\ managerPc = "Loop" /\ seen = [size |-> 0, alive |-> 0, busy |-> 0]
  /\ mainPc = "Running"
  /\ clientPc = [c \in Client |-> "Idle"] /\ arg = [c \in Client |-> NoTask]

Next == \/ \E w \in Worker : WorkerStep(w) \/ SpuriousWakeup(w)
        \/ ManagerStep
        \/ \E c \in Client : ClientStep(c)
        \/ MainStep

\* Every started thread keeps running and callbacks return; nobody is obliged
\* to submit a task, to destroy the pool, or to wake up spuriously.
Fairness == /\ \A w \in Worker : WF_vars(WorkerStep(w))
            /\ WF_vars(ManagerStep)
            /\ \A c \in Client : WF_vars(ClientReturn(c))
            /\ WF_vars(MainReturn)

Spec == Init /\ [][Next]_vars
FairSpec == Spec /\ Fairness

-----------------------------------------------------------------------------
(***************************************************************************)
(* Properties.                                                             *)
(***************************************************************************)
WorkerLabel == {"Free", "Lock", "CheckSize", "CheckFlag", "EnterWait",
                "Waiting", "Woken", "TestShutdown", "Take", "Busy", "Run",
                "MarkIdle"}

\* The labels of worker_Func at which the worker holds tpMutex.
Locked == {"CheckSize", "CheckFlag", "EnterWait", "TestShutdown", "Take", "Busy"}

TypeOK ==
  /\ task_Queue_ \in Seq(Task) /\ fresh \subseteq Task /\ dropped \subseteq Task
  /\ done \in Seq(Task)
  /\ m_alive_threads \in Nat /\ m_busy_threads \in Nat /\ m_exit_threads \in Nat
  /\ shutdown_flags \in BOOLEAN
  /\ tpMutex \in Worker \cup {NoThread}
  /\ pc \in [Worker -> WorkerLabel]
  /\ inHand \in [Worker -> Task \cup {NoTask}]
  /\ managerPc \in {"Loop", "ReadSize", "ReadAlive", "ReadBusy", "Grow",
                    "Shrink", "Notify1", "Notify2", "Exited"}
  /\ seen \in [size : Nat, alive : Nat, busy : Nat]
  /\ mainPc \in {"Running", "JoinManager", "WakeAll", "JoinWorkers", "Destroyed"}
  /\ clientPc \in [Client -> {"Idle", "Add", "Notify"}]
  /\ arg \in [Client -> Task \cup {NoTask}]

\* tpMutex excludes: a worker is inside the locked part of worker_Func exactly
\* when it is the holder, however the waits give the mutex up and take it back.
MutexHeld == \A w \in Worker : pc[w] \in Locked <=> tpMutex = w

\* takeTask in worker_Func never meets an empty queue: no other worker, no
\* spurious wakeup and no stolen notification can empty it between the loop
\* that saw a task and takeTask (the fatal case of the comment before the test
\* of taskOpt).
TakeNeverEmpty == \A w \in Worker : pc[w] = "Take" => task_Queue_ # <<>>

\* The destructor's notify_all is not missed: once it was sent, no worker is
\* asleep or on its way to sleep, so joining the workers cannot hang on one of
\* them.  (The TODO before the destructor fears a worker that has not reached
\* wait when notify_all is sent.)
ShutdownNotMissed ==
  mainPc \in {"JoinWorkers", "Destroyed"} =>
    \A w \in Worker : pc[w] \notin {"EnterWait", "Waiting"}

\* The three things the locked part of worker_Func is for.
LockedSection == MutexHeld /\ TakeNeverEmpty /\ ShutdownNotMissed

\* The manager reads both counters without a lock and grows or shrinks the pool
\* by them.  m_busy_threads counts the workers between their two updates of it.
BusyCountsRunning ==
  m_busy_threads = Cardinality({w \in Worker : pc[w] \in {"Run", "MarkIdle"}})

\* m_alive_threads counts the threads above the minimum: until the pool is shut
\* down there are m_thread_MINNUM more live workers than it says, so the pool
\* never falls below its minimum, whoever takes whose notification.
AliveCountsAboveMin ==
  ~shutdown_flags => Cardinality(Live) = m_thread_MINNUM + m_alive_threads

\* Both counters agree with the threads there are.
CountersAgree == BusyCountsRunning /\ AliveCountsAboveMin

\* Every task is in exactly one place: not submitted, in addTask, turned away,
\* queued, in a worker's hand, or run; none is lost or run twice by wakeups,
\* growth, shrinking or shutdown.
Places(t) == Cardinality({c \in Client : arg[c] = t})
             + Cardinality({i \in DOMAIN task_Queue_ : task_Queue_[i] = t})
             + Cardinality({w \in Worker : inHand[w] = t})
             + Cardinality({i \in DOMAIN done : done[i] = t})
             + Cardinality({t} \cap fresh) + Cardinality({t} \cap dropped)
EachTaskOnce == \A t \in Task : Places(t) = 1

\* The destructor terminates: from the moment shutdown_flags is set, the manager
\* and every worker, asleep, working or just being spawned, are joined.
DestructorReturns == (mainPc = "JoinManager") ~> (mainPc = "Destroyed")

\* The comment before the wait loop: a worker blocks when the queue is empty.
\* When every live worker is asleep and no notification is on its way, nothing
\* is queued.
SleepOnlyWhenEmpty ==
  (/\ \A w \in Live : pc[w] = "Waiting"
   /\ \A c \in Client : clientPc[c] = "Idle"
   /\ mainPc = "Running")
  => task_Queue_ = <<>>
=============================================================================
