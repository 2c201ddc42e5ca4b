---------------------------- MODULE MCMemoryFiles ----------------------------
(***************************************************************************)
(* Instance for TLC.                                                       *)
(***************************************************************************)
EXTENDS MemoryFiles

CONSTANTS w1, c1, c2, r1, r2, p1, p2, s1, s2, f1, k1
=============================================================================
