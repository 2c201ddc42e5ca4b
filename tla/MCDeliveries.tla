----------------------------- MODULE MCDeliveries -----------------------------
(***************************************************************************)
(* Instance for TLC: each of two releases builds its one program from      *)
(* other sources.                                                          *)
(***************************************************************************)
EXTENDS Deliveries

CONSTANTS p1, p2, w1, w2, f1, t1, l1
InputOf == [c \in Contracts |-> [a \in Assets |-> c]]
=============================================================================
