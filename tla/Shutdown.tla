------------------------------ MODULE Shutdown ------------------------------
(***************************************************************************)
(* How the asynchronous servers end: SIGINT or SIGTERM completes the        *)
(* async_wait of main's signal_set, and the handler sets off a chain of     *)
(* stops, destructors and joins that differs from version to version.       *)
(*                                                                          *)
(*  v9         everything runs on main's io_context;                       *)
(*  v10        sessions run on a pool of io_contexts, one thread each, which *)
(*             is destroyed after main (AsioIOServicePool);                 *)
(*  coroutine  the same with a pool of one, whose Stop the handler calls;    *)
(*  v10_v2     acceptor and sessions run on the one io_context of a pool of  *)
(*             threads, which the handler joins (AsioThreadPool).           *)
(*                                                                          *)
(* run() returns when its io_context is stopped or has no work left: no work *)
(* guard, no session with a read outstanding, no accept outstanding.        *)
(* Messages and sessions as such are left out.                             *)
(***************************************************************************)
EXTENDS Naturals, FiniteSets

CONSTANTS Version,      \* the versions to run
          Client,       \* bound: clients that ever connect
          Thread        \* the threads of the pool in v10 and v10_v2: 1 .. n

VARIABLES
  version,     \* the version that was built
  client,      \* each client: "away", "connected", "served" or "left"
  home,        \* the io_context its session has been given
  nextIOService,  \* _nextIOService: the one the next session gets
  accepting,   \* an accept is outstanding
  signal,      \* the handler: "waiting", "stop", "join", "notify" or "done"
  _work,       \* the io_contexts of the pool that have a work guard
  running,     \* the pool's threads that are in run()
  stopped,     \* main's io_context has been stopped
  main,        \* where main is
  statics      \* the singletons that are not destroyed yet: "pool", "logic"

vars == <<version, client, home, nextIOService, accepting, signal, _work, running,
          stopped, main, statics>>

Threads == CASE version = "v9" -> {}
             [] version = "coroutine" -> {1}
             [] OTHER -> Thread
IoContext(t) == IF version = "v10_v2" THEN 1 ELSE t

\* The sessions whose clients are there keep their io_context busy, and so does
\* v10_v2's acceptor.
HasWork(c) == \/ c \in _work
              \/ \E x \in Client : client[x] = "served" /\ home[x] = c
              \/ version = "v10_v2" /\ accepting

\* Somebody runs the handlers of the acceptor, and those of a session: main is
\* io_context 0.
Runs(c) == IF c = 0 THEN main = "run" /\ ~stopped
           ELSE \E t \in running : IoContext(t) = c
AcceptorHome == IF version = "v10_v2" THEN 1 ELSE 0

-----------------------------------------------------------------------------
(***************************************************************************)
(* Clients, and the handlers that accept them and notice that they left.    *)
(***************************************************************************)
ClientOnly == UNCHANGED <<version, accepting, signal, _work, running, stopped,
                          main, statics>>

Connect(x) == /\ client[x] = "away" /\ accepting
              /\ client' = [client EXCEPT ![x] = "connected"]
              /\ UNCHANGED <<home, nextIOService>> /\ ClientOnly

\* GetIOService: the next io_context in turn.
Succ(i) == IF i + 1 > Cardinality(Threads) THEN 1 ELSE i + 1
GetIOService == CASE version = "v9" -> 0
                  [] version = "v10_v2" -> 1
                  [] OTHER -> nextIOService

\* handle_Accept starts the session, and start_Accept listens again.
handle_Accept(x) ==
  /\ client[x] = "connected" /\ accepting /\ Runs(AcceptorHome)
  /\ client' = [client EXCEPT ![x] = "served"]
  /\ home' = [home EXCEPT ![x] = GetIOService]
  /\ nextIOService' = IF version \in {"v10", "coroutine"} THEN Succ(nextIOService)
                      ELSE nextIOService
  /\ ClientOnly

\* Its session's read ends with an error and is not armed again.
Leave(x) == /\ client[x] \in {"connected", "served"}
            /\ client[x] = "served" => Runs(home[x])
            /\ client' = [client EXCEPT ![x] = "left"]
            /\ UNCHANGED <<home, nextIOService>> /\ ClientOnly

-----------------------------------------------------------------------------
(***************************************************************************)
(* The signal handler of each version, and the pools' stop.                 *)
(***************************************************************************)
HandlerOnly == UNCHANGED <<version, client, home, nextIOService, accepting,
                           running, main, statics>>

SignalArrives == /\ signal = "waiting" /\ main = "run"
                 /\ signal' = "stop" /\ UNCHANGED <<_work, stopped>> /\ HandlerOnly

\* The slip leaves the work guards as they are.
StopNothing == UNCHANGED _work
AsioIOServicePool_Stop == _work' = {}

v9_handler == /\ signal = "stop" /\ signal' = "done"
              /\ stopped' = TRUE /\ UNCHANGED _work
v10_handler == /\ signal = "stop" /\ signal' = "done"
               /\ stopped' = TRUE /\ UNCHANGED _work
coroutine_handler == \/ /\ signal = "stop" /\ signal' = "join"
                        /\ stopped' = TRUE /\ UNCHANGED _work
                     \/ /\ signal = "join" /\ signal' = "done"
                        /\ AsioIOServicePool_Stop /\ UNCHANGED stopped

\* AsioThreadPool::stop resets the guard and joins every thread.
AsioThreadPool_stop == \/ /\ signal = "stop" /\ signal' = "join"
                          /\ _work' = {}
                       \/ /\ signal = "join" /\ running = {} /\ signal' = "notify"
                          /\ UNCHANGED _work
v10_v2_handler == \/ AsioThreadPool_stop /\ UNCHANGED stopped
                  \/ /\ signal = "notify" /\ signal' = "done"
                     /\ stopped' = TRUE /\ UNCHANGED _work

Handler == /\ HandlerOnly
           /\ \/ version = "v9" /\ v9_handler
              \/ version = "v10" /\ v10_handler
              \/ version = "coroutine" /\ coroutine_handler
              \/ version = "v10_v2" /\ v10_v2_handler

ThreadReturns(t) == /\ t \in running /\ ~HasWork(IoContext(t))
                    /\ running' = running \ {t}
                    /\ UNCHANGED <<version, client, home, nextIOService, accepting,
                                   signal, _work, stopped, main, statics>>

-----------------------------------------------------------------------------
(***************************************************************************)
(* main, and the destructors after it.                                     *)
(***************************************************************************)
MainOnly == UNCHANGED <<version, home, nextIOService, signal, running, stopped>>

\* ioc.run() returns when the handler that stopped it has returned; in v10_v2
\* main waits for _b_stop and then for signal_thread.
RunReturns == /\ main = "run" /\ stopped /\ signal = "done"
              /\ main' = "server"
              /\ UNCHANGED <<client, accepting, _work, statics>>

\* The Server goes, and with it the acceptor; then main's io_context, with the
\* handlers still waiting in it.  The sessions of a pool live on.
DestroyServer == /\ main = "server" /\ main' = "ioc"
                 /\ accepting' = FALSE /\ UNCHANGED <<client, _work, statics>>
DestroyIoc == /\ main = "ioc" /\ main' = "statics"
              /\ client' = [x \in Client |-> IF client[x] = "served" /\ home[x] = 0
                                             THEN "left" ELSE client[x]]
              /\ UNCHANGED <<accepting, _work, statics>>

\* The members of the pool are destroyed in the reverse order of declaration:
\* in v10 _works before _threads, whose jthreads are joined then; in the
\* coroutine server _threads first.
Destroyed(x) == x \in statics /\ statics' = statics \ {x}
v10_destroyPool == \/ /\ main = "statics" /\ "pool" \in statics
                      /\ main' = "join" /\ _work' = {} /\ UNCHANGED statics
                   \/ /\ main = "join" /\ running = {} /\ main' = "statics"
                      /\ Destroyed("pool") /\ UNCHANGED _work
\* The coroutine server's singletons are local statics: the logic system, whose
\* first use came after the pool's, goes first.
coroutine_destroyPool == /\ main = "statics" /\ "logic" \notin statics
                         /\ running = {} /\ Destroyed("pool")
                         /\ UNCHANGED <<main, _work>>

\* The slip does not wait for the threads.
DestroyDetached == /\ main = "statics" /\ Destroyed("pool")
                   /\ UNCHANGED <<main, _work, client, accepting>>
DestroyPool ==
  /\ CASE version = "v10" -> v10_destroyPool
       [] version = "coroutine" -> coroutine_destroyPool
       [] OTHER -> main = "statics" /\ Destroyed("pool") /\ UNCHANGED <<main, _work>>
  /\ UNCHANGED <<client, accepting>>

\* The logic system's worker is joined (see LogicSystem for whether it hears).
\* The singletons of the other versions are static members of a template, whose
\* order is open.
DestroyLogicSystem == /\ main = "statics" /\ Destroyed("logic")
                      /\ UNCHANGED <<main, client, accepting, _work>>
Exit == /\ main = "statics" /\ statics = {} /\ main' = "ended"
        /\ UNCHANGED <<client, accepting, _work, statics>>

Main == /\ MainOnly
        /\ \/ RunReturns \/ DestroyServer \/ DestroyIoc
           \/ DestroyPool \/ DestroyLogicSystem \/ Exit

Init == /\ version \in Version
        /\ client = [x \in Client |-> "away"] /\ home = [x \in Client |-> 0]
        /\ nextIOService = 1 /\ accepting = TRUE /\ signal = "waiting"
        /\ _work = {IoContext(t) : t \in Threads} /\ running = Threads
        /\ stopped = FALSE /\ main = "run"
        /\ statics = IF version = "v9" THEN {"logic"} ELSE {"pool", "logic"}

Next == \/ \E x \in Client : Connect(x) \/ handle_Accept(x) \/ Leave(x)
        \/ SignalArrives \/ Handler \/ Main
        \/ \E t \in Threads : ThreadReturns(t)

\* Every thread goes on when it can.  Nobody has to send a signal, and no client
\* has to connect or to leave.
Fairness == /\ WF_vars(Handler) /\ WF_vars(Main)
            /\ \A x \in Client : WF_vars(handle_Accept(x))
            /\ \A t \in Thread : WF_vars(t \in Threads /\ ThreadReturns(t))
Spec == Init /\ [][Next]_vars
FairSpec == Spec /\ Fairness

-----------------------------------------------------------------------------
TypeOK ==
  /\ version \in Version
  /\ client \in [Client -> {"away", "connected", "served", "left"}]
  /\ home \in [Client -> Threads \cup {0}]
  /\ nextIOService \in 1 .. Cardinality(Threads) + 1
  /\ accepting \in BOOLEAN /\ stopped \in BOOLEAN
  /\ signal \in {"waiting", "stop", "join", "notify", "done"}
  /\ _work \subseteq Threads /\ running \subseteq Threads
  /\ main \in {"run", "server", "ioc", "statics", "join", "ended"}
  /\ statics \subseteq {"pool", "logic"}

\* No thread of the pool is left that could touch it when it has been destroyed,
\* and no session is being served when the process has ended.  (Sessions of a pool
\* do outlive the Server and may outlive the logic system.)
NothingOutlivesMain ==
  /\ "pool" \notin statics => running = {}
  /\ main = "ended" => \A x \in Client : client[x] # "served"

\* The io_context a session has been given is in run(), although its thread may
\* have had nothing to do before, and has it been stopped or not: only the session
\* of a v9 client has to wait for what becomes of main.
AcceptedIsServed ==
  \A x \in Client : client[x] = "served" /\ home[x] # 0 => Runs(home[x])

\* After the handler has stopped main's io_context the process ends once the last
\* client has left; v9 does not wait for its clients.
EndsWhenClientsLeave ==
  (stopped /\ (version = "v9" \/ \A x \in Client : client[x] # "served"))
    ~> main = "ended"

\* "Supplement the server's graceful exit mechanism": after the signal the
\* process ends if all clients leave.
StopEndsProcess ==
  (signal # "waiting" /\ \A x \in Client : client[x] = "left") ~> main = "ended"
=============================================================================
