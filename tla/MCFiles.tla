------------------------------ MODULE MCFiles -------------------------------
(* Files.tla for TLC: processes may be exchanged. *)
EXTENDS Files, TLC

Symm == Permutations(Procs)
=============================================================================
