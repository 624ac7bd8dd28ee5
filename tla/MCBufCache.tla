----------------------------- MODULE MCBufCache -----------------------------
(***************************************************************************)
(* The buffer cache on small instances: processes and blocks are           *)
(* interchangeable.                                                        *)
(***************************************************************************)
EXTENDS BufCache, TLC

Symm == Permutations(Procs) \cup Permutations(Blocks)
=============================================================================
