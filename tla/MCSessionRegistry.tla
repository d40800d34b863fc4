------------------------- MODULE MCSessionRegistry -------------------------
(***************************************************************************)
(* SessionRegistry, and the shutdown of the versions in Versions with as    *)
(* many clients and PoolSize threads in a pool.  They share nothing; which   *)
(* says the one that runs.  SessionRegistry.cfg takes two sessions and two   *)
(* threads, and leaves v10_v2, whose shutdown does not end, to Shutdown.cfg. *)
(***************************************************************************)
EXTENDS SessionRegistry

CONSTANTS Versions,     \* the versions whose shutdown is modelled
          PoolSize      \* bound: the threads of a pool

ASSUME StopAssumption ==
  /\ "v9" \in Versions /\ Versions \subseteq {"v9", "v10", "coroutine", "v10_v2"}
  /\ PoolSize \in Nat \ {0}

VARIABLES which,
          version, client, home, nextIOService, accepts, signal, _work, running,
          stopped, main, statics

Stop == INSTANCE Shutdown
  WITH accepting <- accepts, Client <- Session, Thread <- 1 .. PoolSize,
       Version <- Versions

stopVars == <<version, client, home, nextIOService, accepts, signal, _work, running,
              stopped, main, statics>>
all == <<which, vars, stopVars>>

InitAll ==
  /\ which \in {"registry", "shutdown"}
  /\ Init /\ Stop!Init
  /\ which # "shutdown" => version = "v9"
  /\ which # "registry" =>
       poolThreads = 1 /\ acceptor.session = CHOOSE s \in Session : TRUE

NextAll ==
  \/ which = "registry" /\ Next /\ UNCHANGED <<which, stopVars>>
  \/ which = "shutdown" /\ Stop!Next /\ UNCHANGED <<which, vars>>

\* FairSpec of the one that runs.
FairAll ==
  /\ InitAll /\ [][NextAll]_all
  /\ WF_vars(which = "registry" /\ HandleAccept)
  /\ WF_vars(which = "registry" /\ WorkerSends)
  /\ \A s \in Session :
       /\ SF_vars(which = "registry" /\ WorkerTakes(s))
       /\ SF_vars(which = "registry" /\ ReadCompletes(s) /\ conn[s] = "failed")
       /\ WF_vars(which = "registry" /\ HandleRead(s))
       /\ SF_vars(which = "registry" /\ WriteCompletes(s))
       /\ WF_vars(which = "registry" /\ HandleWrite(s))
       /\ WF_stopVars(which = "shutdown" /\ Stop!handle_Accept(s))
  /\ WF_stopVars(which = "shutdown" /\ Stop!Handler)
  /\ WF_stopVars(which = "shutdown" /\ Stop!Main)
  /\ \A t \in 1 .. PoolSize :
       WF_stopVars(which = "shutdown" /\ t \in Stop!Threads /\ Stop!ThreadReturns(t))

-----------------------------------------------------------------------------
\* The type invariants of the two.
TypesOK == TypeOK /\ Stop!TypeOK

\* A pool's threads run as long as a session needs them, and none is left when
\* the process ends.
ThreadsAsLongAsNeeded == Stop!AcceptedIsServed /\ Stop!NothingOutlivesMain

\* The stopped server ends when its clients have left.
EndsWhenClientsLeave == Stop!EndsWhenClientsLeave
=============================================================================
