------------------------------ MODULE PipePair ------------------------------
(***************************************************************************)
(* ls | wc -l over a pipe: PipeTry/pipetestforBro.cpp, where two brothers   *)
(* run the commands and the parent waits for both, and PipeTry/pipetest.cpp *)
(* where the parent runs wc itself.  A process holds the ends of the pipe   *)
(* it was born with until it closes them; the reader meets the end of the   *)
(* file when no process holds the writing end any more.                    *)
(***************************************************************************)
EXTENDS Naturals

CONSTANTS Lines,      \* bound: what ls prints
          Capacity    \* the lines a pipe holds

VARIABLES
  brothers,     \* which of the two programs
  pc,           \* what each process does next
  holds,        \* the ends it holds
  pipe,         \* the lines in the pipe
  written, counted

vars == <<brothers, pc, holds, pipe, written, counted>>

Process == {"parent", "ls", "wc"}
Goto(p, label) == pc' = [pc EXCEPT ![p] = label]
Exit(p) == Goto(p, "ended") /\ holds' = [holds EXCEPT ![p] = {}]
Held(end) == \E p \in Process : end \in holds[p]
NoData == UNCHANGED <<brothers, pipe, written, counted>>

\* fork: the child holds what the parent holds.  It may fail.
Fork(child, label, next) ==
  /\ \/ /\ pc' = [pc EXCEPT !["parent"] = next, ![child] = label]
        /\ holds' = [holds EXCEPT ![child] = holds["parent"]]
     \/ Goto("parent", next) /\ UNCHANGED holds
  /\ NoData

Close(p, end, next) ==
  /\ Goto(p, next) /\ holds' = [holds EXCEPT ![p] = @ \ {end}] /\ NoData

\* The slip: the parent keeps its writing end.
KeepWrite(next) == Goto("parent", next) /\ UNCHANGED holds /\ NoData
CloseWrite(next) == Close("parent", "write", next)

\* The parent of the brothers; wait returns when all children have ended.
Parent ==
  /\ brothers
  /\ \/ pc["parent"] = "fork1" /\ Fork("ls", "close read", "fork2")
     \/ pc["parent"] = "fork2" /\ Fork("wc", "close write", "close read")
     \/ pc["parent"] = "close read" /\ Close("parent", "read", "close write")
     \/ pc["parent"] = "close write" /\ CloseWrite("wait")
     \/ /\ pc["parent"] = "wait" /\ {pc["ls"], pc["wc"]} \subseteq {"unborn", "ended"}
        /\ Exit("parent") /\ NoData

\* The parent of pipetest becomes wc.
ParentReads ==
  /\ ~brothers
  /\ \/ pc["parent"] = "fork1" /\ Fork("ls", "close read", "close write")
     \/ /\ pc["parent"] = "close write"
        /\ pc' = [pc EXCEPT !["parent"] = "ended", !["wc"] = "run"]
        /\ holds' = [holds EXCEPT !["parent"] = {}, !["wc"] = {"read"}]
        /\ NoData

\* ls writes its lines, waits while the pipe is full, and is killed by SIGPIPE
\* when nobody can read them.
Ls ==
  \/ pc["ls"] = "close read" /\ Close("ls", "read", "run")
  \/ /\ pc["ls"] = "run" /\ written < Lines /\ pipe < Capacity /\ Held("read")
     /\ pipe' = pipe + 1 /\ written' = written + 1
     /\ UNCHANGED <<brothers, pc, holds, counted>>
  \/ /\ pc["ls"] = "run" /\ (written = Lines \/ ~Held("read"))
     /\ Exit("ls") /\ NoData

\* wc counts lines until the end of the file.
Wc ==
  \/ pc["wc"] = "close write" /\ Close("wc", "write", "run")
  \/ /\ pc["wc"] = "run" /\ pipe > 0
     /\ pipe' = pipe - 1 /\ counted' = counted + 1
     /\ UNCHANGED <<brothers, pc, holds, written>>
  \/ /\ pc["wc"] = "run" /\ pipe = 0 /\ ~Held("write")
     /\ Exit("wc") /\ NoData

Init ==
  /\ brothers \in BOOLEAN
  /\ pc = [p \in Process |-> IF p = "parent" THEN "fork1" ELSE "unborn"]
  /\ holds = [p \in Process |-> IF p = "parent" THEN {"read", "write"} ELSE {}]
  /\ pipe = 0 /\ written = 0 /\ counted = 0

Next == Parent \/ ParentReads \/ Ls \/ Wc
Fairness == /\ WF_vars(Parent) /\ WF_vars(ParentReads)
            /\ WF_vars(Ls) /\ WF_vars(Wc)
Spec == Init /\ [][Next]_vars
FairSpec == Spec /\ Fairness

-----------------------------------------------------------------------------
TypeOK ==
  /\ brothers \in BOOLEAN
  /\ pc \in [Process -> {"unborn", "fork1", "fork2", "close read", "close write",
                         "run", "wait", "ended"}]
  /\ holds \in [Process -> SUBSET {"read", "write"}]
  /\ pipe \in 0 .. Capacity /\ written \in 0 .. Lines /\ counted \in 0 .. Lines

\* wc has counted all that ls wrote when it ends.
AllCounted == pc["wc"] = "ended" => counted = written

\* The pipe ends: whoever was started exits, the parent last of all.
PipeEnds == <>[](\A p \in Process : pc[p] \in {"unborn", "ended"})
=============================================================================
