---------------------------- MODULE MCProjectSync ----------------------------
(* Model-checking instance of ProjectSync. *)
EXTENDS ProjectSync
=============================================================================
