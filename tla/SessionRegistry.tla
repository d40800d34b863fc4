-------------------------- MODULE SessionRegistry --------------------------
(***************************************************************************)
(* The life of sessions in the asynchronous server: Server accepts them,    *)
(* keeps them in the map _sessions and drops them in clearSession; pending   *)
(* handlers, queued logic nodes and the map each hold a shared_ptr, and a    *)
(* session nobody holds is destroyed, which closes its socket.               *)
(*                                                                           *)
(* poolThreads threads run the handlers of one io_context: one in v9, as    *)
(* many as hardware_concurrency() says in v10_baseOnV9_v2.  handle_Accept   *)
(* is three steps, because a handler of the session it has just started can *)
(* run on another thread; a session's own handlers are kept apart by its    *)
(* strand.  How bytes become messages and how writes are queued is          *)
(* FrameReader's and SendQueue's subject: here a handler may post a         *)
(* message, and what counts is who holds the session.                       *)
(***************************************************************************)
EXTENDS Naturals, FiniteSets

CONSTANTS Session,      \* bound: sessions ever created
          NoSession,
          MaxThreads,   \* bound: hardware_concurrency() of the machine
          MaxNodes      \* bound: messages of a session in flight at a time

ASSUME RegistryAssumption == /\ IsFiniteSet(Session)
                             /\ MaxThreads \in Nat \ {0}
                             /\ MaxNodes \in Nat
                             /\ NoSession \notin Session

VARIABLES
  poolThreads,   \* how many threads run the io_context
  _sessions,     \* the sessions in the server's map
  acceptor,      \* where handle_Accept is, and the session it holds
  unborn,        \* sessions not created yet
  conn,          \* the connection: none, open or failed
  reading,       \* the read of a session: none, pending, or its handler running
                 \* with data or with an error
  writing,       \* the write of a session, likewise
  nodes,         \* its messages in the logic queue
  sendq,         \* the length of its send queue
  worker,        \* the session whose message the logic worker handles
  writeFailed    \* sessions whose handle_Write has seen an error

logic == <<nodes, worker>>
accepting == <<poolThreads, acceptor, unborn>>
vars == <<_sessions, accepting, conn, reading, writing, logic, sendq,
          writeFailed>>

\* The handlers that are running, each on a thread of its own.
Handling == {"ok", "error"}
Running == (IF acceptor.pc \in {"Start", "Insert", "Relisten"} THEN 1 ELSE 0)
           + Cardinality({s \in Session : reading[s] \in Handling})
           + Cardinality({s \in Session : writing[s] \in Handling})
ThreadFree == Running < poolThreads
StrandFree(s) == reading[s] \notin Handling /\ writing[s] \notin Handling

\* How an operation on the socket of s completes now.
Outcome(s) == IF conn[s] = "open" THEN "ok" ELSE "error"

\* Somebody holds a shared_ptr to s.
Held(s) == \/ acceptor.session = s \/ s \in _sessions
           \/ reading[s] # "none" \/ writing[s] # "none"
           \/ nodes[s] > 0 \/ worker = s

\* The map's erase; nothing happens when the session is not in it.  The slip
\* leaves the session in the map.
EraseNothing(s) == UNCHANGED _sessions
clearSession(s) == _sessions' = _sessions \ {s}

-----------------------------------------------------------------------------
(***************************************************************************)
(* Server: start_Accept and handle_Accept.                                 *)
(***************************************************************************)
ServerOnly == UNCHANGED <<poolThreads, writing, logic, sendq, writeFailed>>

\* start_Accept creates the next session and waits for a connection.
start_Accept ==
  /\ acceptor.pc = "Relisten"
  /\ \/ \E s \in unborn :
          /\ acceptor' = [pc |-> "Listening", session |-> s]
          /\ unborn' = unborn \ {s}
     \/ /\ unborn = {}
        /\ acceptor' = [pc |-> "Bound", session |-> NoSession]
        /\ UNCHANGED unborn
  /\ UNCHANGED <<_sessions, conn, reading>> /\ ServerOnly

Connection ==
  /\ acceptor.pc = "Listening" /\ ThreadFree
  /\ acceptor' = [acceptor EXCEPT !.pc = "Start"]
  /\ conn' = [conn EXCEPT ![acceptor.session] = "open"]
  /\ UNCHANGED <<_sessions, unborn, reading>> /\ ServerOnly

\* handle_Accept with an error: the new session goes unused.
AcceptError ==
  /\ acceptor.pc = "Listening" /\ ThreadFree
  /\ acceptor' = [pc |-> "Relisten", session |-> NoSession]
  /\ UNCHANGED <<_sessions, unborn, conn, reading>> /\ ServerOnly

\* handle_Accept: new_session->start() arms the first read ...
StartSession ==
  /\ acceptor.pc = "Start"
  /\ reading' = [reading EXCEPT ![acceptor.session] = "pending"]
  /\ acceptor' = [acceptor EXCEPT !.pc = "Insert"]
  /\ UNCHANGED <<_sessions, unborn, conn>> /\ ServerOnly

\* ... and only then does the session enter the map.  The slip forgets it.
SkipInsert ==
  /\ acceptor.pc = "Insert"
  /\ acceptor' = [pc |-> "Relisten", session |-> NoSession]
  /\ UNCHANGED <<_sessions, unborn, conn, reading>> /\ ServerOnly
InsertSession ==
  /\ acceptor.pc = "Insert"
  /\ _sessions' = _sessions \cup {acceptor.session}
  /\ acceptor' = [pc |-> "Relisten", session |-> NoSession]
  /\ UNCHANGED <<unborn, conn, reading>> /\ ServerOnly

HandleAccept == StartSession \/ InsertSession \/ start_Accept

-----------------------------------------------------------------------------
(***************************************************************************)
(* Session: its read and write handlers.                                   *)
(***************************************************************************)
ConnectionFails(s) ==
  /\ conn[s] = "open" /\ Held(s)
  /\ conn' = [conn EXCEPT ![s] = "failed"]
  /\ UNCHANGED <<_sessions, accepting, reading, writing, logic, sendq,
                 writeFailed>>

ReadCompletes(s) ==
  /\ reading[s] = "pending" /\ ThreadFree /\ StrandFree(s)
  /\ reading' = [reading EXCEPT ![s] = Outcome(s)]
  /\ UNCHANGED <<_sessions, accepting, conn, writing, logic, sendq,
                 writeFailed>>

\* handle_Read with data: perhaps a message for the logic system, then the next
\* read.
ReadRearms(s) ==
  /\ reading[s] = "ok"
  /\ \/ nodes[s] + sendq[s] < MaxNodes /\ nodes' = [nodes EXCEPT ![s] = @ + 1]
     \/ UNCHANGED nodes
  /\ reading' = [reading EXCEPT ![s] = "pending"]
  /\ UNCHANGED <<_sessions, accepting, conn, writing, worker, sendq,
                 writeFailed>>

\* handle_Read with an error or an illegal header.
ReadClears(s) ==
  /\ reading[s] \in Handling
  /\ clearSession(s)
  /\ reading' = [reading EXCEPT ![s] = "none"]
  /\ UNCHANGED <<accepting, conn, writing, logic, sendq, writeFailed>>

WriteCompletes(s) ==
  /\ writing[s] = "pending" /\ ThreadFree /\ StrandFree(s)
  /\ writing' = [writing EXCEPT ![s] = Outcome(s)]
  /\ UNCHANGED <<_sessions, accepting, conn, reading, logic, sendq,
                 writeFailed>>

\* handle_Write after a success: the next node, if there is one.
WriteNext(s) ==
  /\ writing[s] = "ok"
  /\ sendq' = [sendq EXCEPT ![s] = @ - 1]
  /\ writing' = [writing EXCEPT ![s] = IF sendq[s] > 1 THEN "pending" ELSE "none"]
  /\ UNCHANGED <<_sessions, accepting, conn, reading, logic, writeFailed>>

\* handle_Write after an error.
WriteClears(s) ==
  /\ writing[s] = "error"
  /\ clearSession(s)
  /\ writing' = [writing EXCEPT ![s] = "none"]
  /\ writeFailed' = writeFailed \cup {s}
  /\ UNCHANGED <<accepting, conn, reading, logic, sendq>>

HandleRead(s) == ReadRearms(s) \/ ReadClears(s)
HandleWrite(s) == WriteNext(s) \/ WriteClears(s)

-----------------------------------------------------------------------------
(***************************************************************************)
(* The logic worker answers a message with send.                           *)
(***************************************************************************)
WorkerTakes(s) ==
  /\ worker = NoSession /\ nodes[s] > 0
  /\ worker' = s
  /\ nodes' = [nodes EXCEPT ![s] = @ - 1]
  /\ UNCHANGED <<_sessions, accepting, conn, reading, writing, sendq,
                 writeFailed>>

\* The slip starts a write although a failed one is left in the queue.
AlwaysWrites(s) == TRUE
StartsWrite(s) == sendq[s] = 0

\* The slip writes without queueing the node.
WorkerSendsUnqueued ==
  /\ worker # NoSession
  /\ writing' = IF StartsWrite(worker)
                THEN [writing EXCEPT ![worker] = "pending"] ELSE writing
  /\ worker' = NoSession
  /\ UNCHANGED <<_sessions, accepting, conn, reading, nodes, sendq,
                 writeFailed>>
WorkerSends ==
  /\ worker # NoSession
  /\ sendq' = [sendq EXCEPT ![worker] = @ + 1]
  /\ writing' = IF StartsWrite(worker)
                THEN [writing EXCEPT ![worker] = "pending"] ELSE writing
  /\ worker' = NoSession
  /\ UNCHANGED <<_sessions, accepting, conn, reading, nodes, writeFailed>>

WorkerStep == WorkerSends \/ \E s \in Session : WorkerTakes(s)

-----------------------------------------------------------------------------
\* The server's constructor has called start_Accept.
Init == /\ poolThreads \in 1 .. MaxThreads
        /\ _sessions = {}
        /\ \E s \in Session : /\ acceptor = [pc |-> "Listening", session |-> s]
                              /\ unborn = Session \ {s}
        /\ conn = [s \in Session |-> "none"]
        /\ reading = [s \in Session |-> "none"]
        /\ writing = [s \in Session |-> "none"]
        /\ nodes = [s \in Session |-> 0] /\ sendq = [s \in Session |-> 0]
        /\ worker = NoSession /\ writeFailed = {}

SessionStep(s) == \/ ReadCompletes(s) \/ HandleRead(s)
                  \/ WriteCompletes(s) \/ HandleWrite(s)

Next == \/ Connection \/ AcceptError \/ HandleAccept
        \/ \E s \in Session : ConnectionFails(s) \/ SessionStep(s)
        \/ WorkerStep

\* The pool's threads run every handler that is ready, and the logic worker
\* goes on; peers need not connect, send or disconnect.  A completion competes
\* with others for a thread, and a message with others for the worker; both
\* wait in queues that are served in order, hence the strong fairness.
Fairness == /\ WF_vars(HandleAccept) /\ WF_vars(WorkerSends)
            /\ \A s \in Session :
                 /\ SF_vars(WorkerTakes(s))
                 /\ SF_vars(ReadCompletes(s) /\ conn[s] = "failed")
                 /\ WF_vars(HandleRead(s))
                 /\ SF_vars(WriteCompletes(s)) /\ WF_vars(HandleWrite(s))

Spec == Init /\ [][Next]_vars
FairSpec == Spec /\ Fairness

-----------------------------------------------------------------------------
OpState == {"none", "pending"} \cup Handling

TypeOK ==
  /\ poolThreads \in 1 .. MaxThreads
  /\ _sessions \subseteq Session
  /\ acceptor \in [pc : {"Listening", "Start", "Insert", "Relisten", "Bound"},
                   session : Session \cup {NoSession}]
  /\ unborn \subseteq Session
  /\ conn \in [Session -> {"none", "open", "failed"}]
  /\ reading \in [Session -> OpState]
  /\ writing \in [Session -> OpState]
  /\ nodes \in [Session -> Nat] /\ sendq \in [Session -> Nat]
  /\ worker \in Session \cup {NoSession}
  /\ writeFailed \subseteq Session

\* The comment on _sessions: a connection is inserted when it comes and deleted
\* when it goes.  A session in the map is still being read, or handle_Accept is
\* not finished with it; otherwise nothing would ever remove it again.
NoZombie ==
  \A s \in _sessions : reading[s] # "none" \/ acceptor.session = s

\* With one thread (v9, or v10_baseOnV9_v2 on a machine with one core) that is
\* so, although the session is read before it is inserted.
NoZombieAlone == poolThreads = 1 => NoZombie

\* A session that is being read is in the map once handle_Accept is done with
\* it, unless its own handle_Write took it out.
ServedIsRegistered ==
  \A s \in Session :
    reading[s] # "none" /\ acceptor.session # s /\ s \notin writeFailed
      => s \in _sessions

\* The map follows the sessions: it has those that are being served, and with one
\* thread no others.
MapFollowsSessions == NoZombieAlone /\ ServedIsRegistered

\* The write of a session that has failed once is never started again, so a
\* dead session is not kept alive by the answers still to come.
FailedWritesStop == \A s \in writeFailed : writing[s] = "none"

\* With one thread, a session whose connection has failed is eventually held by
\* nobody, and destroyed.
FailedIsReleased ==
  \A s \in Session : (poolThreads = 1 /\ conn[s] = "failed") ~> ~Held(s)
=============================================================================
