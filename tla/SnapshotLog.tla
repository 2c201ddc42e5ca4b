----------------------------- MODULE SnapshotLog -----------------------------
(***************************************************************************)
(* What the memory branch promises: a log of snapshots that only grows,    *)
(* and for every computer the entry it is in step with, which never moves  *)
(* back and always names a snapshot of the log.  MemorySync implements it. *)
(***************************************************************************)
EXTENDS Naturals, Sequences

CONSTANTS Machines,
          Snapshots \* what an entry of the log may be

VARIABLES log,   \* the branch, oldest snapshot first
          synced \* the entry each computer is in step with, 0 when none

TypeOK == log \in Seq(Snapshots) /\ synced \in [Machines -> 0..Len(log)]

Init == log = <<>> /\ synced = [m \in Machines |-> 0]

Commit(s) == log' = Append(log, s) /\ UNCHANGED synced

Adopt(m, i) == synced' = [synced EXCEPT ![m] = i] /\ UNCHANGED log

Next == \/ \E s \in Snapshots : Commit(s)
        \/ \E m \in Machines, i \in 1..Len(log) : synced[m] <= i /\ Adopt(m, i)

Spec == Init /\ [][Next]_<<log, synced>>
=============================================================================
