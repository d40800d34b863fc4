--------------------------- MODULE MCEpollReactor ---------------------------
(***************************************************************************)
(* EpollReactor alone, with a table of two connections and three            *)
(* descriptors, for the property that it violates.                          *)
(***************************************************************************)
EXTENDS EpollReactor
=============================================================================
