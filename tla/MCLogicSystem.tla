--------------------------- MODULE MCLogicSystem ---------------------------
(***************************************************************************)
(* LogicSystem with two posting threads and three messages, one of them    *)
(* with an id no callback is registered for.                               *)
(***************************************************************************)
EXTENDS LogicSystem, TLC
=============================================================================
