------------------------------ MODULE TreeMerge ------------------------------
(***************************************************************************)
(* Memory trees and the pure merge functions of source/memory/src/lib.rs.  *)
(* A tree maps every synchronizable path to the identity of its bytes, or  *)
(* to Absent; the three machine-local index files are never part of it.    *)
(***************************************************************************)
CONSTANTS Paths,   \* synchronizable relative paths
          Values,  \* contents of a file
          Absent   \* no such file

ASSUME ValuesAssumption == Absent \notin Values

Trees == [Paths -> Values \cup {Absent}]
EmptyTree == [p \in Paths |-> Absent]

\* A side that did not move since the baseline yields to the other.
Yields(before, side, other) == side = other \/ side = before

\* Paths changed on both sides since the baseline, and differently.
MergeConflicts(base, ours, theirs) ==
  {p \in Paths : /\ ~Yields(base[p], ours[p], theirs[p])
                 /\ ~Yields(base[p], theirs[p], ours[p])}

\* Broken variant: a change on this side always wins.
OursWins(base, ours, theirs) ==
  [p \in Paths |-> IF ours[p] = Absent THEN theirs[p] ELSE ours[p]]

\* three_way_merge: conflicting paths are left out of the result.
MergedTree(base, ours, theirs) ==
  [p \in Paths |-> IF p \in MergeConflicts(base, ours, theirs) THEN Absent
                   ELSE IF Yields(base[p], ours[p], theirs[p]) THEN theirs[p]
                   ELSE ours[p]]

\* bootstrap_merge: without a baseline only identical files are agreed on.
BootstrapConflicts(ours, theirs) == {p \in Paths : ours[p] # theirs[p]}
BootstrapTree(ours, theirs) ==
  [p \in Paths |-> IF ours[p] = theirs[p] THEN ours[p] ELSE Absent]
=============================================================================
