---------------------------- MODULE MCMemoryQueue ----------------------------
(* Instances of MemoryQueue for TLC. *)
EXTENDS MemoryQueue, TLC

\* Hooks, workers and hand-run commands are interchangeable in safety runs.
Symmetry == Permutations(Hooks) \cup Permutations(Workers)
=============================================================================
