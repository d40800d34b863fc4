----------------------- MODULE SessionRegistryProofs -----------------------
(***************************************************************************)
(* The map of sessions follows the sessions, and a session that has failed  *)
(* to write starts no write again, for every number of sessions and threads. *)
(***************************************************************************)
EXTENDS MCSessionRegistry, FiniteSetTheorems, TLAPS

Handler == {"Start", "Insert", "Relisten"}
Busy(s) == reading[s] \in Handling \/ writing[s] \in Handling

\* A session not created yet, or still listened for, does nothing.
Untouched(s) == /\ reading[s] = "none" /\ writing[s] = "none"
                /\ nodes[s] = 0 /\ worker # s
                /\ s \notin _sessions /\ s \notin writeFailed

\* What the acceptor holds at each place.
AcceptorHolds ==
  /\ \A s \in unborn : Untouched(s) /\ acceptor.session # s
  /\ acceptor.pc \in {"Listening", "Start"} =>
       acceptor.session \in Session /\ Untouched(acceptor.session)
  /\ acceptor.pc = "Insert" =>
       acceptor.session \in Session /\ acceptor.session \notin _sessions
  /\ acceptor.pc \in {"Relisten", "Bound"} => acceptor.session = NoSession

\* With one thread no handler of a session runs while handle_Accept does, so the
\* session it has started is still being read when it is inserted.
OneThread ==
  poolThreads = 1 =>
    /\ acceptor.pc \in Handler => \A s \in Session : ~Busy(s)
    /\ acceptor.pc = "Insert" => reading[acceptor.session] = "pending"

\* A write is outstanding only for a node in the queue, and the node whose write
\* has failed stays there.
WritesQueued ==
  \A s \in Session :
    /\ writing[s] # "none" \/ s \in writeFailed => sendq[s] > 0
    /\ s \in writeFailed => writing[s] = "none"

IInv == /\ TypeOK /\ AcceptorHolds /\ OneThread /\ WritesQueued
        /\ NoZombieAlone /\ ServedIsRegistered

-----------------------------------------------------------------------------
\* With one thread, a completion that gets the thread finds nothing running.
LEMMA AloneWhenFree ==
  ASSUME TypeOK, poolThreads = 1, ThreadFree
  PROVE  acceptor.pc \notin Handler /\ \A s \in Session : ~Busy(s)
<1> DEFINE R == {s \in Session : reading[s] \in Handling}
           W == {s \in Session : writing[s] \in Handling}
           A == IF acceptor.pc \in {"Start", "Insert", "Relisten"} THEN 1 ELSE 0
<1>1. IsFiniteSet(R) /\ IsFiniteSet(W)
  BY RegistryAssumption, FS_Subset
<1>2. Cardinality(R) \in Nat /\ Cardinality(W) \in Nat
  BY <1>1, FS_CardinalityType
<1>3. A + Cardinality(R) + Cardinality(W) < 1
  BY DEF ThreadFree, Running
<1>4. A = 0 /\ Cardinality(R) = 0 /\ Cardinality(W) = 0
  BY <1>2, <1>3
<1>5. R = {} /\ W = {}
  BY <1>1, <1>4, FS_EmptySet
<1> QED
  BY <1>4, <1>5 DEF Handler, Busy

-----------------------------------------------------------------------------
\* At the start nobody has come and the first session is listened for.
LEMMA InitIInv == Init => IInv
BY RegistryAssumption DEF Init, IInv, TypeOK, OpState, Handling, AcceptorHolds,
   Untouched, OneThread, Handler, WritesQueued, NoZombieAlone, NoZombie,
   ServedIsRegistered

\* handle_Accept and what it waits for.
LEMMA start_AcceptKeeps ==
  ASSUME IInv, start_Accept
  PROVE  IInv'
<1> USE DEF IInv, accepting, logic, Handling
<1>1. TypeOK'
  BY DEF start_Accept, ServerOnly, TypeOK
<1>2. AcceptorHolds'
  BY DEF start_Accept, ServerOnly, TypeOK, AcceptorHolds, Untouched
<1>3. OneThread'
  BY DEF start_Accept, OneThread, Handler
<1>4. WritesQueued'
  BY DEF start_Accept, ServerOnly, WritesQueued
<1>5. NoZombieAlone'
  BY RegistryAssumption DEF start_Accept, ServerOnly, TypeOK, AcceptorHolds,
     NoZombieAlone, NoZombie
<1>6. ServedIsRegistered'
  BY RegistryAssumption DEF start_Accept, ServerOnly, AcceptorHolds,
     ServedIsRegistered
<1> QED
  BY <1>1, <1>2, <1>3, <1>4, <1>5, <1>6

LEMMA ConnectionKeeps ==
  ASSUME IInv, Connection
  PROVE  IInv'
<1> USE DEF IInv, accepting, logic, Handling
<1>1. TypeOK'
  BY DEF Connection, ServerOnly, TypeOK
<1>2. AcceptorHolds'
  BY DEF Connection, ServerOnly, AcceptorHolds, Untouched
<1>3. OneThread'
  BY AloneWhenFree DEF Connection, ServerOnly, OneThread, Busy
<1>4. WritesQueued'
  BY DEF Connection, ServerOnly, WritesQueued
<1>5. NoZombieAlone'
  BY DEF Connection, ServerOnly, NoZombieAlone, NoZombie
<1>6. ServedIsRegistered'
  BY DEF Connection, ServerOnly, ServedIsRegistered
<1> QED
  BY <1>1, <1>2, <1>3, <1>4, <1>5, <1>6

LEMMA AcceptErrorKeeps ==
  ASSUME IInv, AcceptError
  PROVE  IInv'
<1> USE DEF IInv, accepting, logic, Handling
<1>1. TypeOK'
  BY DEF AcceptError, ServerOnly, TypeOK
<1>2. AcceptorHolds'
  BY RegistryAssumption DEF AcceptError, ServerOnly, TypeOK, AcceptorHolds,
     Untouched
<1>3. OneThread'
  BY AloneWhenFree DEF AcceptError, ServerOnly, OneThread, Busy
<1>4. WritesQueued'
  BY DEF AcceptError, ServerOnly, WritesQueued
<1>5. NoZombieAlone'
  BY DEF AcceptError, ServerOnly, AcceptorHolds, Untouched, NoZombieAlone,
     NoZombie
<1>6. ServedIsRegistered'
  BY DEF AcceptError, ServerOnly, AcceptorHolds, Untouched,
     ServedIsRegistered
<1> QED
  BY <1>1, <1>2, <1>3, <1>4, <1>5, <1>6

LEMMA StartSessionKeeps ==
  ASSUME IInv, StartSession
  PROVE  IInv'
<1> USE DEF IInv, accepting, logic, Handling
<1>1. TypeOK'
  BY DEF StartSession, ServerOnly, TypeOK, OpState
<1>2. AcceptorHolds'
  BY DEF StartSession, ServerOnly, AcceptorHolds, Untouched
<1>3. OneThread'
  BY DEF StartSession, ServerOnly, TypeOK, AcceptorHolds, OneThread,
     Handler, Busy
<1>4. WritesQueued'
  BY DEF StartSession, ServerOnly, WritesQueued
<1>5. NoZombieAlone'
  BY DEF StartSession, ServerOnly, NoZombieAlone, NoZombie
<1>6. ServedIsRegistered'
  BY DEF StartSession, ServerOnly, ServedIsRegistered
<1> QED
  BY <1>1, <1>2, <1>3, <1>4, <1>5, <1>6

LEMMA InsertSessionKeeps ==
  ASSUME IInv, InsertSession
  PROVE  IInv'
<1> USE DEF IInv, accepting, logic, Handling
<1>1. TypeOK'
  BY DEF InsertSession, ServerOnly, TypeOK, AcceptorHolds
<1>2. AcceptorHolds'
  BY RegistryAssumption DEF InsertSession, ServerOnly, TypeOK,
     AcceptorHolds, Untouched
<1>3. OneThread'
  BY DEF InsertSession, ServerOnly, OneThread, Handler, Busy
<1>4. WritesQueued'
  BY DEF InsertSession, ServerOnly, WritesQueued
<1>5. NoZombieAlone'
  BY DEF InsertSession, ServerOnly, OneThread, NoZombieAlone, NoZombie
<1>6. ServedIsRegistered'
  BY DEF InsertSession, ServerOnly, ServedIsRegistered
<1> QED
  BY <1>1, <1>2, <1>3, <1>4, <1>5, <1>6

\* The handlers of a session, and the loss of its connection.
LEMMA ConnectionFailsKeeps ==
  ASSUME IInv, NEW s \in Session, ConnectionFails(s)
  PROVE  IInv'
<1> USE DEF IInv, accepting, logic, Handling
<1>1. TypeOK'
  BY DEF ConnectionFails, TypeOK
<1>2. AcceptorHolds'
  BY DEF ConnectionFails, AcceptorHolds, Untouched
<1>3. OneThread'
  BY DEF ConnectionFails, OneThread, Busy
<1>4. WritesQueued'
  BY DEF ConnectionFails, WritesQueued
<1>5. NoZombieAlone'
  BY DEF ConnectionFails, NoZombieAlone, NoZombie
<1>6. ServedIsRegistered'
  BY DEF ConnectionFails, ServedIsRegistered
<1> QED
  BY <1>1, <1>2, <1>3, <1>4, <1>5, <1>6

LEMMA ReadCompletesKeeps ==
  ASSUME IInv, NEW s \in Session, ReadCompletes(s)
  PROVE  IInv'
<1> USE DEF IInv, accepting, logic, Handling
<1>1. TypeOK'
  BY DEF ReadCompletes, Outcome, TypeOK, OpState
<1>2. AcceptorHolds'
  BY DEF ReadCompletes, AcceptorHolds, Untouched
<1>3. OneThread'
  BY AloneWhenFree DEF ReadCompletes, OneThread, Handler
<1>4. WritesQueued'
  BY DEF ReadCompletes, WritesQueued
<1>5. NoZombieAlone'
  BY DEF ReadCompletes, Outcome, NoZombieAlone, NoZombie
<1>6. ServedIsRegistered'
  BY DEF ReadCompletes, ServedIsRegistered
<1> QED
  BY <1>1, <1>2, <1>3, <1>4, <1>5, <1>6

LEMMA ReadRearmsKeeps ==
  ASSUME IInv, NEW s \in Session, ReadRearms(s)
  PROVE  IInv'
<1> USE DEF IInv, accepting, logic, Handling
<1>1. TypeOK'
  BY DEF ReadRearms, TypeOK, OpState
<1>2. AcceptorHolds'
  BY DEF ReadRearms, TypeOK, AcceptorHolds, Untouched
<1>3. OneThread'
  BY DEF ReadRearms, OneThread, Busy
<1>4. WritesQueued'
  BY DEF ReadRearms, WritesQueued
<1>5. NoZombieAlone'
  BY DEF ReadRearms, NoZombieAlone, NoZombie
<1>6. ServedIsRegistered'
  BY DEF ReadRearms, ServedIsRegistered
<1> QED
  BY <1>1, <1>2, <1>3, <1>4, <1>5, <1>6

LEMMA ReadClearsKeeps ==
  ASSUME IInv, NEW s \in Session, ReadClears(s)
  PROVE  IInv'
<1> USE DEF IInv, accepting, logic, Handling
<1>1. TypeOK'
  BY DEF ReadClears, clearSession, TypeOK, OpState
<1>2. AcceptorHolds'
  BY DEF ReadClears, clearSession, AcceptorHolds, Untouched
<1>3. OneThread'
  BY DEF ReadClears, OneThread, Busy
<1>4. WritesQueued'
  BY DEF ReadClears, WritesQueued
<1>5. NoZombieAlone'
  BY DEF ReadClears, clearSession, NoZombieAlone, NoZombie
<1>6. ServedIsRegistered'
  BY DEF ReadClears, clearSession, TypeOK, ServedIsRegistered
<1> QED
  BY <1>1, <1>2, <1>3, <1>4, <1>5, <1>6

LEMMA WriteCompletesKeeps ==
  ASSUME IInv, NEW s \in Session, WriteCompletes(s)
  PROVE  IInv'
<1> USE DEF IInv, accepting, logic, Handling
<1>1. TypeOK'
  BY DEF WriteCompletes, Outcome, TypeOK, OpState
<1>2. AcceptorHolds'
  BY DEF WriteCompletes, AcceptorHolds, Untouched
<1>3. OneThread'
  BY AloneWhenFree DEF WriteCompletes, OneThread
<1>4. WritesQueued'
  BY DEF WriteCompletes, WritesQueued
<1>5. NoZombieAlone'
  BY DEF WriteCompletes, NoZombieAlone, NoZombie
<1>6. ServedIsRegistered'
  BY DEF WriteCompletes, ServedIsRegistered
<1> QED
  BY <1>1, <1>2, <1>3, <1>4, <1>5, <1>6

LEMMA WriteNextKeeps ==
  ASSUME IInv, NEW s \in Session, WriteNext(s)
  PROVE  IInv'
<1> USE DEF IInv, accepting, logic, Handling
<1>1. TypeOK'
  BY DEF WriteNext, TypeOK, OpState, WritesQueued
<1>2. AcceptorHolds'
  BY DEF WriteNext, AcceptorHolds, Untouched
<1>3. OneThread'
  BY DEF WriteNext, OneThread, Busy
<1>4. WritesQueued'
  BY DEF WriteNext, TypeOK, WritesQueued
<1>5. NoZombieAlone'
  BY DEF WriteNext, NoZombieAlone, NoZombie
<1>6. ServedIsRegistered'
  BY DEF WriteNext, ServedIsRegistered
<1> QED
  BY <1>1, <1>2, <1>3, <1>4, <1>5, <1>6

LEMMA WriteClearsKeeps ==
  ASSUME IInv, NEW s \in Session, WriteClears(s)
  PROVE  IInv'
<1> USE DEF IInv, accepting, logic, Handling
<1>1. TypeOK'
  BY DEF WriteClears, clearSession, TypeOK, OpState
<1>2. AcceptorHolds'
  BY DEF WriteClears, clearSession, AcceptorHolds, Untouched
<1>3. OneThread'
  BY DEF WriteClears, OneThread, Busy
<1>4. WritesQueued'
  BY DEF WriteClears, TypeOK, WritesQueued
<1>5. NoZombieAlone'
  BY DEF WriteClears, clearSession, NoZombieAlone, NoZombie
<1>6. ServedIsRegistered'
  BY DEF WriteClears, clearSession, ServedIsRegistered
<1> QED
  BY <1>1, <1>2, <1>3, <1>4, <1>5, <1>6

\* The worker of the logic system.
LEMMA WorkerTakesKeeps ==
  ASSUME IInv, NEW s \in Session, WorkerTakes(s)
  PROVE  IInv'
<1> USE DEF IInv, accepting, logic, Handling
<1>1. TypeOK'
  BY DEF WorkerTakes, TypeOK
<1>2. AcceptorHolds'
  BY DEF WorkerTakes, AcceptorHolds, Untouched
<1>3. OneThread'
  BY DEF WorkerTakes, OneThread, Busy
<1>4. WritesQueued'
  BY DEF WorkerTakes, WritesQueued
<1>5. NoZombieAlone'
  BY DEF WorkerTakes, NoZombieAlone, NoZombie
<1>6. ServedIsRegistered'
  BY DEF WorkerTakes, ServedIsRegistered
<1> QED
  BY <1>1, <1>2, <1>3, <1>4, <1>5, <1>6

LEMMA WorkerSendsKeeps ==
  ASSUME IInv, WorkerSends
  PROVE  IInv'
<1> USE DEF IInv, accepting, logic, Handling
<1>1. TypeOK'
  BY DEF WorkerSends, TypeOK, OpState
<1>2. AcceptorHolds'
  BY RegistryAssumption DEF WorkerSends, TypeOK, AcceptorHolds, Untouched
<1>3. OneThread'
  BY DEF WorkerSends, OneThread, Busy
<1>4. WritesQueued'
  BY DEF WorkerSends, StartsWrite, TypeOK, WritesQueued
<1>5. NoZombieAlone'
  BY DEF WorkerSends, NoZombieAlone, NoZombie
<1>6. ServedIsRegistered'
  BY DEF WorkerSends, ServedIsRegistered
<1> QED
  BY <1>1, <1>2, <1>3, <1>4, <1>5, <1>6

LEMMA NextIInv == IInv /\ [Next]_vars => IInv'
<1> SUFFICES ASSUME IInv, [Next]_vars PROVE IInv'
  OBVIOUS
<1>1. CASE Connection
  BY <1>1, ConnectionKeeps
<1>2. CASE AcceptError
  BY <1>2, AcceptErrorKeeps
<1>3. CASE start_Accept
  BY <1>3, start_AcceptKeeps
<1>4. CASE StartSession
  BY <1>4, StartSessionKeeps
<1>5. CASE InsertSession
  BY <1>5, InsertSessionKeeps
<1>6. CASE WorkerSends
  BY <1>6, WorkerSendsKeeps
<1>7. ASSUME NEW s \in Session, ConnectionFails(s) PROVE IInv'
  BY <1>7, ConnectionFailsKeeps
<1>8. ASSUME NEW s \in Session, ReadCompletes(s) PROVE IInv'
  BY <1>8, ReadCompletesKeeps
<1>9. ASSUME NEW s \in Session, ReadRearms(s) PROVE IInv'
  BY <1>9, ReadRearmsKeeps
<1>10. ASSUME NEW s \in Session, ReadClears(s) PROVE IInv'
  BY <1>10, ReadClearsKeeps
<1>11. ASSUME NEW s \in Session, WriteCompletes(s) PROVE IInv'
  BY <1>11, WriteCompletesKeeps
<1>12. ASSUME NEW s \in Session, WriteNext(s) PROVE IInv'
  BY <1>12, WriteNextKeeps
<1>13. ASSUME NEW s \in Session, WriteClears(s) PROVE IInv'
  BY <1>13, WriteClearsKeeps
<1>14. ASSUME NEW s \in Session, WorkerTakes(s) PROVE IInv'
  BY <1>14, WorkerTakesKeeps
<1>15. CASE UNCHANGED vars
  BY <1>15 DEF IInv, vars, accepting, logic, TypeOK, AcceptorHolds, Untouched,
     OneThread,
     Busy, WritesQueued, NoZombieAlone, NoZombie, ServedIsRegistered
<1> QED
  BY <1>1, <1>2, <1>3, <1>4, <1>5, <1>6, <1>7, <1>8,
     <1>9, <1>10, <1>11, <1>12, <1>13, <1>14, <1>15
  DEF Next, HandleAccept, SessionStep, HandleRead, HandleWrite, WorkerStep

\* The inductive invariant holds of every reachable state.
THEOREM Invariant == Spec => []IInv
BY InitIInv, NextIInv, PTL DEF Spec

-----------------------------------------------------------------------------
\* The types.
THEOREM TypesHold == Spec => []TypeOK
<1>1. IInv => TypeOK
  BY DEF IInv
<1> QED
  BY <1>1, Invariant, PTL

\* handle_Accept, handle_Read and handle_Write keep the map in step with the
\* sessions: one that is served is in it unless its own write failed, and on
\* one thread one that is over is not.
THEOREM MapFollowsSessionsHolds == Spec => []MapFollowsSessions
<1>1. IInv => MapFollowsSessions
  BY DEF IInv, MapFollowsSessions
<1> QED
  BY <1>1, Invariant, PTL

\* send and handle_Write between them never start a write for a session whose
\* handle_Write has seen an error: the node that failed stays in the queue.
THEOREM FailedWritesStopHolds == Spec => []FailedWritesStop
<1>1. IInv => FailedWritesStop
  BY RegistryAssumption DEF IInv, TypeOK, WritesQueued, FailedWritesStop
<1> QED
  BY <1>1, Invariant, PTL

-----------------------------------------------------------------------------
(***************************************************************************)
(* The shutdown: a session is given an io_context whose thread has not      *)
(* returned, and the thread cannot return while the session is served.  The *)
(* pool itself is destroyed when nobody runs in it any more.               *)
(***************************************************************************)
PerThread == version \in {"v10", "coroutine"}
Served(x) == client[x] = "served"

\* Only v9 gives a session main's io_context, and the next io_context in turn
\* is one of the pool.
Homes == /\ PerThread => nextIOService \in Stop!Threads
         /\ \A x \in Session : Served(x) => (home[x] = 0 <=> version = "v9")

\* A work guard keeps its thread, and they are there until main has stopped.
Guarded == PerThread => /\ _work \subseteq running
                        /\ ~stopped => _work = Stop!Threads

\* What has been done when main and the handler are where they are.
InOrder ==
  /\ main # "run" => stopped /\ signal = "done"
  /\ version = "coroutine" /\ signal = "join" => stopped
  /\ version = "v10_v2" /\ signal \in {"notify", "done"} => running = {}
  /\ main \notin {"run", "server"} => ~accepts
  /\ main \in {"statics", "join", "ended"} => \A x \in Session : Served(x) => home[x] # 0
  /\ "pool" \notin statics => running = {}
  /\ main = "ended" => statics = {}

StopInv == Stop!TypeOK /\ Homes /\ Guarded /\ InOrder /\ Stop!AcceptedIsServed

\* The pool's io_contexts are counted.
LEMMA PoolCounted ==
  /\ Cardinality(1 .. PoolSize) = PoolSize /\ Cardinality({1}) = 1
  /\ Stop!Cardinality(1 .. PoolSize) = PoolSize
  /\ Stop!Cardinality({1}) = 1 /\ Stop!Cardinality({}) = 0
<1>1. \A S : Stop!Cardinality(S) = Cardinality(S)
  BY DEF Stop!Cardinality, Cardinality
<1>2. Cardinality(1 .. PoolSize) = PoolSize
  BY StopAssumption, FS_Interval
<1> QED
  BY <1>1, <1>2, FS_Singleton, FS_EmptySet

LEMMA InitStopInv == Stop!Init => StopInv
<1> SUFFICES ASSUME Stop!Init PROVE StopInv
  OBVIOUS
<1>1. 1 \in 1 .. PoolSize
  BY StopAssumption
<1>2. _work \subseteq Stop!Threads
  BY <1>1, StopAssumption DEF Stop!Init, Stop!Threads, Stop!IoContext
<1>3. PerThread => 1 \in Stop!Threads /\ _work = Stop!Threads
  BY <1>1 DEF Stop!Init, Stop!Threads, Stop!IoContext, PerThread
<1>4. Stop!TypeOK
  <2>1. version \in Versions /\ Stop!Cardinality(Stop!Threads) \in Nat
    BY PoolCounted, StopAssumption DEF Stop!Init, Stop!Threads
  <2>2. nextIOService \in 1 .. Stop!Cardinality(Stop!Threads) + 1
    BY <2>1 DEF Stop!Init
  <2> QED
    BY <1>2, <2>1, <2>2 DEF Stop!Init, Stop!TypeOK
<1>5. Homes /\ Guarded /\ InOrder /\ Stop!AcceptedIsServed
  BY <1>3 DEF Stop!Init, Homes, Guarded, InOrder, Served, Stop!AcceptedIsServed,
     Stop!Threads
<1> QED
  BY <1>4, <1>5 DEF StopInv

LEMMA StopStep == StopInv /\ [Stop!Next]_(Stop!vars) => StopInv'
<1> SUFFICES ASSUME StopInv, [Stop!Next]_(Stop!vars) PROVE StopInv'
  OBVIOUS
<1> USE DEF PerThread, Served, Stop!Runs, Stop!Threads, Stop!IoContext
<1>1. ASSUME NEW x \in Session, Stop!Connect(x) PROVE StopInv'
  <2>1. Stop!TypeOK'
    BY <1>1, StopAssumption DEF StopInv, Stop!Connect, Stop!ClientOnly,
       Stop!TypeOK
  <2>2. Homes'
    BY <1>1, StopAssumption DEF StopInv, Stop!Connect, Stop!ClientOnly, Homes
  <2>3. Guarded'
    BY <1>1, StopAssumption DEF StopInv, Stop!Connect, Stop!ClientOnly, Guarded
  <2>4. InOrder'
    BY <1>1, StopAssumption DEF StopInv, Stop!Connect, Stop!ClientOnly, InOrder
  <2>5. Stop!AcceptedIsServed'
    BY <1>1, StopAssumption DEF StopInv, Stop!Connect, Stop!ClientOnly,
       Stop!AcceptedIsServed
  <2> QED
    BY <2>1, <2>2, <2>3, <2>4, <2>5 DEF StopInv
<1>2. ASSUME NEW x \in Session, Stop!handle_Accept(x) PROVE StopInv'
  <2> DEFINE c == Stop!GetIOService
  <2> USE DEF Stop!handle_Accept, Stop!ClientOnly
  <2>1. version \in {"v9", "v10", "coroutine", "v10_v2"}
    BY StopAssumption DEF StopInv, Stop!TypeOK
  <2>2. c \in Stop!Threads \cup {0} /\ (c = 0 <=> version = "v9")
    BY <1>2, <2>1, StopAssumption DEF StopInv, Homes, Stop!GetIOService
  <2>3. c # 0 => Stop!Runs(c)
    <3>1. CASE PerThread
      <4>1. main = "run" /\ ~stopped /\ c = nextIOService
        BY <1>2, <3>1 DEF Stop!AcceptorHome, Stop!GetIOService
      <4>2. nextIOService \in running
        BY <3>1, <4>1 DEF StopInv, Homes, Guarded
      <4> QED
        BY <3>1, <4>1, <4>2
    <3>2. CASE version = "v10_v2"
      BY <1>2, <3>2 DEF Stop!AcceptorHome, Stop!GetIOService
    <3> QED
      BY <2>1, <2>2, <3>1, <3>2
  <2>4. PerThread => Stop!Succ(nextIOService) \in Stop!Threads
    <3>1. CASE version = "v10"
      <4>1. Stop!Cardinality(Stop!Threads) = PoolSize /\ nextIOService \in 1 .. PoolSize
        BY <3>1, PoolCounted DEF StopInv, Homes
      <4> QED
        BY <3>1, <4>1, StopAssumption DEF Stop!Succ
    <3>2. CASE version = "coroutine"
      <4>1. Stop!Cardinality(Stop!Threads) = 1 /\ nextIOService = 1
        BY <3>2, PoolCounted DEF StopInv, Homes
      <4> QED
        BY <3>2, <4>1 DEF Stop!Succ
    <3> QED
      BY <3>1, <3>2
  <2>5. \A y \in Session : /\ y # x => client'[y] = client[y] /\ home'[y] = home[y]
                          /\ y = x => client'[y] = "served" /\ home'[y] = c
    BY <1>2 DEF StopInv, Stop!TypeOK
  <2>6. nextIOService' \in 1 .. Stop!Cardinality(Stop!Threads) + 1
    <3>1. CASE PerThread
      <4>1. nextIOService' \in Stop!Threads
        BY <1>2, <2>4, <3>1
      <4>2. Stop!Cardinality(Stop!Threads) = (IF version = "v10" THEN PoolSize ELSE 1)
        BY <3>1, PoolCounted
      <4> QED
        BY <3>1, <4>1, <4>2, StopAssumption
    <3>2. CASE ~PerThread
      BY <1>2, <3>2 DEF StopInv, Stop!TypeOK
    <3> QED
      BY <3>1, <3>2
  <2>7. Stop!TypeOK'
    <3>1. home' \in [Session -> Stop!Threads \cup {0}]
      BY <1>2, <2>2 DEF StopInv, Stop!TypeOK
    <3> QED
      BY <1>2, <2>6, <3>1 DEF StopInv, Stop!TypeOK
  <2>8. Homes'
    <3>1. PerThread => nextIOService' \in Stop!Threads
      BY <1>2, <2>4
    <3> QED
      BY <1>2, <2>2, <2>5, <3>1 DEF StopInv, Homes
  <2>9. Guarded'
    BY <1>2 DEF StopInv, Guarded
  <2>10. InOrder'
    BY <1>2 DEF StopInv, InOrder
  <2>11. Stop!AcceptedIsServed'
    BY <1>2, <2>3, <2>5 DEF StopInv, Stop!AcceptedIsServed
  <2> QED
    BY <2>7, <2>8, <2>9, <2>10, <2>11 DEF StopInv
<1>3. ASSUME NEW x \in Session, Stop!Leave(x) PROVE StopInv'
  <2>1. Stop!TypeOK'
    BY <1>3, StopAssumption DEF StopInv, Stop!Leave, Stop!ClientOnly, Stop!TypeOK
  <2>2. Homes'
    BY <1>3, StopAssumption DEF StopInv, Stop!Leave, Stop!ClientOnly, Homes
  <2>3. Guarded'
    BY <1>3, StopAssumption DEF StopInv, Stop!Leave, Stop!ClientOnly, Guarded
  <2>4. InOrder'
    BY <1>3, StopAssumption DEF StopInv, Stop!Leave, Stop!ClientOnly, InOrder
  <2>5. Stop!AcceptedIsServed'
    BY <1>3, StopAssumption DEF StopInv, Stop!Leave, Stop!ClientOnly,
       Stop!AcceptedIsServed
  <2> QED
    BY <2>1, <2>2, <2>3, <2>4, <2>5 DEF StopInv
<1>4. CASE Stop!SignalArrives
  <2>1. Stop!TypeOK'
    BY <1>4, StopAssumption DEF StopInv, Stop!SignalArrives, Stop!HandlerOnly,
       Stop!TypeOK
  <2>2. Homes'
    BY <1>4, StopAssumption DEF StopInv, Stop!SignalArrives, Stop!HandlerOnly,
       Homes
  <2>3. Guarded'
    BY <1>4, StopAssumption DEF StopInv, Stop!SignalArrives, Stop!HandlerOnly,
       Guarded
  <2>4. InOrder'
    BY <1>4, StopAssumption DEF StopInv, Stop!SignalArrives, Stop!HandlerOnly,
       InOrder
  <2>5. Stop!AcceptedIsServed'
    BY <1>4, StopAssumption DEF StopInv, Stop!SignalArrives, Stop!HandlerOnly,
       Stop!AcceptedIsServed
  <2> QED
    BY <2>1, <2>2, <2>3, <2>4, <2>5 DEF StopInv
<1>5. CASE Stop!Handler
  <2>1. Stop!TypeOK'
    BY <1>5, StopAssumption DEF StopInv, Stop!Handler, Stop!HandlerOnly,
       Stop!v9_handler, Stop!v10_handler, Stop!coroutine_handler,
       Stop!AsioIOServicePool_Stop, Stop!AsioThreadPool_stop,
       Stop!v10_v2_handler, Stop!TypeOK
  <2>2. Homes'
    BY <1>5, StopAssumption DEF StopInv, Stop!Handler, Stop!HandlerOnly,
       Stop!v9_handler, Stop!v10_handler, Stop!coroutine_handler,
       Stop!AsioIOServicePool_Stop, Stop!AsioThreadPool_stop,
       Stop!v10_v2_handler, Homes
  <2>3. Guarded'
    BY <1>5, StopAssumption DEF StopInv, Stop!Handler, Stop!HandlerOnly,
       Stop!v9_handler, Stop!v10_handler, Stop!coroutine_handler,
       Stop!AsioIOServicePool_Stop, Stop!AsioThreadPool_stop,
       Stop!v10_v2_handler,
       InOrder, Guarded
  <2>4. InOrder'
    BY <1>5, StopAssumption DEF StopInv, Stop!Handler, Stop!HandlerOnly,
       Stop!v9_handler, Stop!v10_handler, Stop!coroutine_handler,
       Stop!AsioIOServicePool_Stop, Stop!AsioThreadPool_stop,
       Stop!v10_v2_handler, InOrder
  <2>5. Stop!AcceptedIsServed'
    BY <1>5, StopAssumption DEF StopInv, Stop!Handler, Stop!HandlerOnly,
       Stop!v9_handler, Stop!v10_handler, Stop!coroutine_handler,
       Stop!AsioIOServicePool_Stop, Stop!AsioThreadPool_stop,
       Stop!v10_v2_handler, Stop!AcceptedIsServed
  <2> QED
    BY <2>1, <2>2, <2>3, <2>4, <2>5 DEF StopInv
<1>6. CASE Stop!MainOnly /\ Stop!RunReturns
  <2>1. Stop!TypeOK'
    BY <1>6, StopAssumption DEF StopInv, Stop!MainOnly, Stop!RunReturns,
       Stop!TypeOK
  <2>2. Homes'
    BY <1>6, StopAssumption DEF StopInv, Stop!MainOnly, Stop!RunReturns, Homes
  <2>3. Guarded'
    BY <1>6, StopAssumption DEF StopInv, Stop!MainOnly, Stop!RunReturns, Guarded
  <2>4. InOrder'
    BY <1>6, StopAssumption DEF StopInv, Stop!MainOnly, Stop!RunReturns, InOrder
  <2>5. Stop!AcceptedIsServed'
    BY <1>6, StopAssumption DEF StopInv, Stop!MainOnly, Stop!RunReturns,
       Stop!AcceptedIsServed
  <2> QED
    BY <2>1, <2>2, <2>3, <2>4, <2>5 DEF StopInv
<1>7. CASE Stop!MainOnly /\ Stop!DestroyServer
  <2>1. Stop!TypeOK'
    BY <1>7, StopAssumption DEF StopInv, Stop!MainOnly, Stop!DestroyServer,
       Stop!TypeOK
  <2>2. Homes'
    BY <1>7, StopAssumption DEF StopInv, Stop!MainOnly, Stop!DestroyServer, Homes
  <2>3. Guarded'
    BY <1>7, StopAssumption DEF StopInv, Stop!MainOnly, Stop!DestroyServer,
       Guarded
  <2>4. InOrder'
    BY <1>7, StopAssumption DEF StopInv, Stop!MainOnly, Stop!DestroyServer,
       InOrder
  <2>5. Stop!AcceptedIsServed'
    BY <1>7, StopAssumption DEF StopInv, Stop!MainOnly, Stop!DestroyServer,
       Stop!AcceptedIsServed
  <2> QED
    BY <2>1, <2>2, <2>3, <2>4, <2>5 DEF StopInv
<1>8. CASE Stop!MainOnly /\ Stop!DestroyIoc
  <2>1. Stop!TypeOK'
    BY <1>8, StopAssumption DEF StopInv, Stop!MainOnly, Stop!DestroyIoc,
       Stop!TypeOK
  <2>2. Homes'
    BY <1>8, StopAssumption DEF StopInv, Stop!MainOnly, Stop!DestroyIoc, Homes
  <2>3. Guarded'
    BY <1>8, StopAssumption DEF StopInv, Stop!MainOnly, Stop!DestroyIoc, Guarded
  <2>4. InOrder'
    BY <1>8, StopAssumption DEF StopInv, Stop!MainOnly, Stop!DestroyIoc, InOrder
  <2>5. Stop!AcceptedIsServed'
    BY <1>8, StopAssumption DEF StopInv, Stop!MainOnly, Stop!DestroyIoc,
       Stop!AcceptedIsServed
  <2> QED
    BY <2>1, <2>2, <2>3, <2>4, <2>5 DEF StopInv
<1>9. CASE Stop!MainOnly /\ Stop!DestroyPool
  <2>1. Stop!TypeOK'
    BY <1>9, StopAssumption DEF StopInv, Stop!MainOnly, Stop!DestroyPool,
       Stop!Destroyed, Stop!v10_destroyPool, Stop!coroutine_destroyPool,
       Stop!TypeOK
  <2>2. Homes'
    BY <1>9, StopAssumption DEF StopInv, Stop!MainOnly, Stop!DestroyPool,
       Stop!Destroyed, Stop!v10_destroyPool, Stop!coroutine_destroyPool, Homes
  <2>3. Guarded'
    BY <1>9, StopAssumption DEF StopInv, Stop!MainOnly, Stop!DestroyPool,
       Stop!Destroyed, Stop!v10_destroyPool, Stop!coroutine_destroyPool,
       InOrder, Guarded
  <2>4. InOrder'
    BY <1>9, StopAssumption DEF StopInv, Stop!MainOnly, Stop!DestroyPool,
       Stop!Destroyed, Stop!v10_destroyPool, Stop!coroutine_destroyPool,
       Stop!TypeOK, InOrder
  <2>5. Stop!AcceptedIsServed'
    BY <1>9, StopAssumption DEF StopInv, Stop!MainOnly, Stop!DestroyPool,
       Stop!Destroyed, Stop!v10_destroyPool, Stop!coroutine_destroyPool,
       Stop!AcceptedIsServed
  <2> QED
    BY <2>1, <2>2, <2>3, <2>4, <2>5 DEF StopInv
<1>10. CASE Stop!MainOnly /\ Stop!DestroyLogicSystem
  <2>1. Stop!TypeOK'
    BY <1>10, StopAssumption DEF StopInv, Stop!MainOnly,
       Stop!DestroyLogicSystem, Stop!Destroyed, Stop!TypeOK
  <2>2. Homes'
    BY <1>10, StopAssumption DEF StopInv, Stop!MainOnly,
       Stop!DestroyLogicSystem, Stop!Destroyed, Homes
  <2>3. Guarded'
    BY <1>10, StopAssumption DEF StopInv, Stop!MainOnly,
       Stop!DestroyLogicSystem, Stop!Destroyed, Guarded
  <2>4. InOrder'
    BY <1>10, StopAssumption DEF StopInv, Stop!MainOnly,
       Stop!DestroyLogicSystem, Stop!Destroyed, InOrder
  <2>5. Stop!AcceptedIsServed'
    BY <1>10, StopAssumption DEF StopInv, Stop!MainOnly,
       Stop!DestroyLogicSystem, Stop!Destroyed, Stop!AcceptedIsServed
  <2> QED
    BY <2>1, <2>2, <2>3, <2>4, <2>5 DEF StopInv
<1>11. CASE Stop!MainOnly /\ Stop!Exit
  <2>1. Stop!TypeOK'
    BY <1>11, StopAssumption DEF StopInv, Stop!MainOnly, Stop!Exit, Stop!TypeOK
  <2>2. Homes'
    BY <1>11, StopAssumption DEF StopInv, Stop!MainOnly, Stop!Exit, Homes
  <2>3. Guarded'
    BY <1>11, StopAssumption DEF StopInv, Stop!MainOnly, Stop!Exit, Guarded
  <2>4. InOrder'
    BY <1>11, StopAssumption DEF StopInv, Stop!MainOnly, Stop!Exit, InOrder
  <2>5. Stop!AcceptedIsServed'
    BY <1>11, StopAssumption DEF StopInv, Stop!MainOnly, Stop!Exit,
       Stop!AcceptedIsServed
  <2> QED
    BY <2>1, <2>2, <2>3, <2>4, <2>5 DEF StopInv
<1>12. ASSUME NEW t \in Stop!Threads, Stop!ThreadReturns(t) PROVE StopInv'
  <2>1. Stop!TypeOK'
    BY <1>12, StopAssumption DEF StopInv, Stop!ThreadReturns, Stop!HasWork,
       Stop!TypeOK
  <2>2. Homes'
    BY <1>12, StopAssumption DEF StopInv, Stop!ThreadReturns, Stop!HasWork, Homes
  <2>3. Guarded'
    BY <1>12, StopAssumption DEF StopInv, Stop!ThreadReturns, Stop!HasWork,
       Guarded
  <2>4. InOrder'
    BY <1>12, StopAssumption DEF StopInv, Stop!ThreadReturns, Stop!HasWork,
       InOrder
  <2>5. Stop!AcceptedIsServed'
    BY <1>12, StopAssumption DEF StopInv, Stop!ThreadReturns, Stop!HasWork,
       Stop!AcceptedIsServed
  <2> QED
    BY <2>1, <2>2, <2>3, <2>4, <2>5 DEF StopInv
<1>13. CASE UNCHANGED Stop!vars
  <2>1. Stop!TypeOK'
    BY <1>13, StopAssumption DEF StopInv, Stop!vars, Stop!TypeOK
  <2>2. Homes'
    BY <1>13, StopAssumption DEF StopInv, Stop!vars, Homes
  <2>3. Guarded'
    BY <1>13, StopAssumption DEF StopInv, Stop!vars, Guarded
  <2>4. InOrder'
    BY <1>13, StopAssumption DEF StopInv, Stop!vars, InOrder
  <2>5. Stop!AcceptedIsServed'
    BY <1>13, StopAssumption DEF StopInv, Stop!vars, Stop!AcceptedIsServed
  <2> QED
    BY <2>1, <2>2, <2>3, <2>4, <2>5 DEF StopInv
<1> QED
  BY <1>1, <1>2, <1>3, <1>4, <1>5, <1>6, <1>7, <1>8, <1>9, <1>10, <1>11, <1>12,
     <1>13
  DEF Stop!Next, Stop!Main

-----------------------------------------------------------------------------
\* The inductive invariant of the shutdown.
THEOREM StopInvariant == Stop!Spec => []StopInv
BY InitStopInv, StopStep, PTL DEF Stop!Spec

\* handle_Accept gives a session only an io_context that is in run(), whose thread
\* stays there until the session is over, through every stop and destructor; the
\* pool is destroyed when its threads have been joined, and the process ends with
\* no session served.
THEOREM ThreadsAsLongAsNeededHolds == Stop!Spec => []ThreadsAsLongAsNeeded
<1>1. StopInv => ThreadsAsLongAsNeeded
  <2> SUFFICES ASSUME StopInv PROVE ThreadsAsLongAsNeeded
    OBVIOUS
  <2>1. Stop!AcceptedIsServed
    BY DEF StopInv
  <2>2. "pool" \notin statics => running = {}
    BY DEF StopInv, InOrder
  <2>3. ASSUME main = "ended", NEW x \in Session PROVE client[x] # "served"
    BY <2>1, <2>2, <2>3 DEF StopInv, InOrder, Served, Stop!AcceptedIsServed,
       Stop!Runs
  <2> QED
    BY <2>1, <2>2, <2>3 DEF ThreadsAsLongAsNeeded, Stop!NothingOutlivesMain
<1> QED
  BY <1>1, StopInvariant, PTL

-----------------------------------------------------------------------------
(***************************************************************************)
(* The two together, as SessionRegistry.cfg runs them.                      *)
(***************************************************************************)
\* Whichever runs, the other stands still.
LEMMA OneOfTheTwo == FairAll => Spec /\ Stop!Spec
<1>1. InitAll => Init /\ Stop!Init
  BY DEF InitAll
<1>2. [NextAll]_all => [Next]_vars /\ [Stop!Next]_(Stop!vars)
  BY DEF NextAll, all, stopVars, Stop!vars
<1> QED
  BY <1>1, <1>2, PTL DEF FairAll, Spec, Stop!Spec

\* The registry's variables and the shutdown's have their types in every state.
THEOREM TypesOKHolds == FairAll => []TypesOK
<1>1. StopInv => Stop!TypeOK
  BY DEF StopInv
<1>2. TypeOK /\ Stop!TypeOK => TypesOK
  BY DEF TypesOK
<1> QED
  BY <1>1, <1>2, OneOfTheTwo, TypesHold, StopInvariant, PTL

\* The run's specification keeps all its invariants, for any number of sessions,
\* nodes and threads, and for the shutdown of v10_v2 as well.
THEOREM RegistrySafe ==
  FairAll =>
    [](TypesOK /\ MapFollowsSessions /\ FailedWritesStop /\ ThreadsAsLongAsNeeded)
BY OneOfTheTwo, TypesOKHolds, MapFollowsSessionsHolds, FailedWritesStopHolds,
   ThreadsAsLongAsNeededHolds, PTL
=============================================================================
