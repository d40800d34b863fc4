---------------------------- MODULE ChildReaping ----------------------------
(***************************************************************************)
(* Parents that collect their children:                                    *)
(*                                                                          *)
(*  kill   SignalSetTest/KillSubProcess.cpp: SIGCHLD is blocked, the         *)
(*         children are forked, the handler is installed and SIGCHLD is     *)
(*         unblocked; the handler waits until there is no child left;       *)
(*  pool   CSTest/concurrencyServer.cpp: the handler is installed before a  *)
(*         pool of processes is forked, and collects who is dead already;   *)
(*  poll   WaitExercise/main.cpp: no handler; the parent polls after three  *)
(*         seconds until waitpid says that there is no child.               *)
(*                                                                          *)
(* Signals are not queued: pending is a flag.  A signal that arrives while  *)
(* its action is the default one (for SIGCHLD: ignore) is discarded, unless *)
(* it is blocked.                                                          *)
(***************************************************************************)
EXTENDS Naturals

CONSTANTS Program,    \* the programs to run
          Children    \* bound: the program forks this many (3 or 10)

VARIABLES
  program,
  child,        \* "none", "running", "zombie" or "reaped"
  i,            \* the loop variable: the child to fork
  parent,       \* where the parent is in main
  handler,      \* where it is in the handler: "out", "loop" or "return"
  installed, blocked, pending

vars == <<program, child, i, parent, handler, installed, blocked, pending>>

Child == 1 .. Children
InState(s) == {c \in Child : child[c] = s}

-----------------------------------------------------------------------------
\* main: what it has done when the loop starts.  The slip forks first.
NotBlocked == FALSE
BlockFirst == program = "kill"

AfterLoop == CASE program = "kill" -> "install"
               [] program = "pool" -> "pause"
               [] program = "poll" -> "poll"

\* fork, which may fail: two programs go on, the pool leaves its loop.
Fork ==
  /\ parent = "fork"
  /\ \/ /\ i \in Child
        /\ child' = [child EXCEPT ![i] = "running"]
        /\ i' = i + 1 /\ UNCHANGED parent
     \/ /\ i \in Child /\ program # "pool"
        /\ i' = i + 1 /\ UNCHANGED <<child, parent>>
     \/ /\ i \notin Child \/ program = "pool"
        /\ parent' = AfterLoop /\ UNCHANGED <<child, i>>
  /\ UNCHANGED <<installed, blocked>>

Install == /\ parent = "install" /\ parent' = "unblock" /\ installed' = TRUE
           /\ UNCHANGED <<child, i, blocked>>
Unblock == /\ parent = "unblock" /\ parent' = "pause" /\ blocked' = FALSE
           /\ UNCHANGED <<child, i, installed>>

Reap(c) == child[c] = "zombie" /\ child' = [child EXCEPT ![c] = "reaped"]
NoChildLeft == InState("running") \cup InState("zombie") = {}

\* waitpid(-1, &status, WNOHANG) until it returns -1; 0 is one more turn.
Poll ==
  /\ parent = "poll"
  /\ \/ (\E c \in Child : Reap(c)) /\ UNCHANGED parent
     \/ NoChildLeft /\ parent' = "ended" /\ UNCHANGED child
  /\ UNCHANGED <<i, installed, blocked>>

Main == /\ handler = "out" /\ (Fork \/ Install \/ Unblock \/ Poll)
        /\ UNCHANGED <<program, handler, pending>>

-----------------------------------------------------------------------------
Deliver == /\ pending /\ ~blocked /\ installed /\ handler = "out"
           /\ pending' = FALSE /\ handler' = "loop"
           /\ UNCHANGED <<program, child, i, parent, installed, blocked>>

\* The handlers' loops; waitpid may block in that of "kill".  The slip collects
\* one child for a signal.
ReapOne ==
  \/ (\E c \in Child : Reap(c)) /\ handler' = "return"
  \/ InState("zombie") = {} /\ handler' = "return" /\ UNCHANGED child
ReapLoop ==
  \/ (\E c \in Child : Reap(c)) /\ UNCHANGED handler
  \/ /\ IF program = "kill" THEN NoChildLeft ELSE InState("zombie") = {}
     /\ handler' = "return" /\ UNCHANGED child
CatchSignal ==
  /\ \/ handler = "loop" /\ ReapLoop
     \/ handler = "return" /\ handler' = "out" /\ UNCHANGED child
  /\ UNCHANGED <<program, i, parent, installed, blocked, pending>>

\* A child ends: at once in "kill", when it is killed or fails in "pool".
ChildEnds(c) ==
  /\ child[c] = "running" /\ child' = [child EXCEPT ![c] = "zombie"]
  /\ pending' = (pending \/ installed \/ blocked)
  /\ UNCHANGED <<program, i, parent, handler, installed, blocked>>

Init ==
  /\ program \in Program
  /\ child = [c \in Child |-> "none"] /\ i = 1
  /\ parent = "fork" /\ handler = "out" /\ pending = FALSE
  /\ installed = (program = "pool") /\ blocked = BlockFirst

Next == \/ Main
        \/ Deliver
        \/ CatchSignal
        \/ \E c \in Child : ChildEnds(c)

\* The parent is scheduled, signals are delivered; the children of "kill" and
\* "poll" are short, those of "pool" need not end.
Fairness == /\ WF_vars(Main) /\ WF_vars(Deliver) /\ WF_vars(CatchSignal)
            /\ \A c \in Child : WF_vars(program # "pool" /\ ChildEnds(c))
Spec == Init /\ [][Next]_vars
FairSpec == Spec /\ Fairness

-----------------------------------------------------------------------------
TypeOK ==
  /\ program \in Program /\ child \in [Child -> {"none", "running", "zombie", "reaped"}]
  /\ i \in 1 .. Children + 1
  /\ parent \in {"fork", "install", "unblock", "pause", "poll", "ended"}
  /\ handler \in {"out", "loop", "return"}
  /\ installed \in BOOLEAN /\ blocked \in BOOLEAN /\ pending \in BOOLEAN

\* A parent that has nothing more to do leaves no zombie, although one signal may
\* stand for several children and a child may die after the last waitpid.
NoZombieForgotten ==
  /\ parent = "pause" /\ handler = "out" /\ ~pending => InState("zombie") = {}
  /\ parent = "ended" => NoChildLeft

\* There is never a zombie for ever; every child dies at most once.
ZombiesReaped == []<>(InState("zombie") = {})
=============================================================================
