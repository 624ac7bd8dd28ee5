------------------------------ MODULE MCFileIO ------------------------------
(***************************************************************************)
(* Reading and writing on a small instance; negative counts cannot be      *)
(* written in a configuration.                                             *)
(***************************************************************************)
EXTENDS FileIO, TLC

MCCount == {-1, 3, 12}

Symm == Permutations(Procs)
=============================================================================
