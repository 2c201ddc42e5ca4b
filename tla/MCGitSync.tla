------------------------------ MODULE MCGitSync ------------------------------
(* Instances of GitSync for TLC. *)
EXTENDS GitSync
=============================================================================
