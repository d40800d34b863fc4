---------------------------- MODULE MCThreadPool ----------------------------
(***************************************************************************)
(* ThreadPool on small pools.  Workers, callers and tasks are              *)
(* interchangeable, so the safety runs use their symmetries.               *)
(***************************************************************************)
EXTENDS ThreadPool, TLC

Symmetry == Permutations(Worker) \cup Permutations(Client) \cup Permutations(Task)
=============================================================================
