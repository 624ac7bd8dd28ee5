------------------------------ MODULE MCOutput ------------------------------
(***************************************************************************)
(* Output on a small instance: an int has 6 bits, a long 8.                *)
(***************************************************************************)
EXTENDS Output

MCNumbers     == {-128, -32, -5, 0, 7, 10, 31, 40, 63}
MCFewNumbers  == {-32, 7}
MCFewNumeric  == {"d"}
MCNumeric     == {"d", "u", "x", "ld", "lu", "lx"}
MCBufs        == {NULL, <<"a", "b">>}
MCCounts      == {-1, 0, 2}
MCCallNumbers == {0, SYS_read, SYS_getpid, 9}
=============================================================================
