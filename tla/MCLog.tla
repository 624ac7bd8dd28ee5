------------------------------- MODULE MCLog -------------------------------
(***************************************************************************)
(* The log on small instances: processes and blocks are interchangeable.   *)
(***************************************************************************)
EXTENDS Log, TLC

Symm == Permutations(Procs) \cup Permutations(Blocks)
=============================================================================
