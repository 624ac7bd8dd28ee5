------------------------------ MODULE MCPaging ------------------------------
(***************************************************************************)
(* Page tables on a small instance: tables of two entries and four virtual *)
(* pages, so that two of them share all tables, or the upper two, or only  *)
(* the root.                                                               *)
(***************************************************************************)
EXTENDS Paging, TLC

MCVpn == 0 .. 1
MCVaddr == {<<0, 0, 0>>, <<0, 0, 1>>, <<0, 1, 1>>, <<1, 0, 1>>}

Symm == Permutations(Space)
=============================================================================
