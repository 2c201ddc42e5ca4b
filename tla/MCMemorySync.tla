----------------------------- MODULE MCMemorySync -----------------------------
(* Instances of MemorySync for TLC. *)
EXTENDS MemorySync
=============================================================================
