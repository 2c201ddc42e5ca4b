---------------------------- MODULE SyncedBaseline ----------------------------
(***************************************************************************)
(* The synced baseline of the memories: a snapshot directory and, in a file*)
(* of its own, the receipt that names it.  Recording a new baseline swaps  *)
(* directories, then replaces the receipt; what an interruption leaves is  *)
(* sorted out before the next reconciliation looks at it.                  *)
(* Source: record_synced, recover_baseline, remove_tree and copy_tree in   *)
(* source/memory/src/remote.rs.                                            *)
(*                                                                         *)
(* One reconciliation runs at a time (reconcile.lock, module MemoryQueue); *)
(* module MemorySync takes the whole of a recording as one step.  A        *)
(* directory is its snapshot and whether all of it is there: a manifest is *)
(* trusted only when every file matches it.                                *)
(***************************************************************************)
EXTENDS Naturals

CONSTANTS MaxSnapshots,  \* bound: snapshots recorded
          MaxFaults      \* bound: crashes and failing file operations

ASSUME BoundsAssumption == MaxSnapshots \in Nat /\ MaxFaults \in Nat

VARIABLES current,   \* last-synced-snapshot
          previous,  \* .last-synced-snapshot-old
          fresh,     \* .last-synced-snapshot-new
          aside,     \* the snapshot the last recovery moved aside as interrupted
          receipt,   \* the snapshot last-synced.json names
          pc,
          then,      \* where recover_baseline returns to
          made,      \* snapshots so far; the last one is being recorded
          faults

disk == <<current, previous, fresh, aside, receipt>>
vars == <<disk, pc, then, made, faults>>

Snapshots == 1..MaxSnapshots
Directories == Snapshots \X BOOLEAN
Optional(S) == {{}} \cup {{x} : x \in S}
Whole(n) == {<<n, TRUE>>}
Part(n) == {<<n, FALSE>>}

TypeOK ==
  /\ current \in Optional(Directories) /\ previous \in Optional(Directories)
  /\ fresh \in Optional(Directories) /\ aside \in Optional(Directories)
  /\ receipt \in Optional(Snapshots)
  /\ pc \in {"idle", "recover", "drop", "undo", "held", "copy", "copying", "retire",
             "install", "receipt"}
  /\ then \in {"held", "copy", "fail", "done"}
  /\ made \in 0..MaxSnapshots /\ faults \in Nat

Init ==
  /\ current = {} /\ previous = {} /\ fresh = {} /\ aside = {} /\ receipt = {}
  /\ pc = "idle" /\ then = "held" /\ made = 0 /\ faults = 0

\* read_manifest of d succeeds and is what the receipt says.
Matches(d) == \E n \in receipt : d = Whole(n)

Goto(p) == pc' = p
Return == Goto(IF then \in {"fail", "done"} THEN "idle" ELSE then)

-----------------------------------------------------------------------------
(* recover_baseline *)

\* A reconciliation starts with the baseline put in order.
Reconcile ==
  /\ pc = "idle" /\ Goto("recover") /\ then' = "held"
  /\ UNCHANGED <<disk, made, faults>>

NothingLeft ==
  /\ pc = "recover" /\ previous = {} /\ Return
  /\ UNCHANGED <<disk, then, made, faults>>

\* The receipt names the new snapshot: the old one can go.
NewIsTrusted ==
  /\ pc = "recover" /\ previous # {} /\ Matches(current) /\ Goto("drop")
  /\ UNCHANGED <<disk, then, made, faults>>

\* Broken variant: the snapshot in place is not moved aside for the one to put back.
OldIsTrustedIfAlone ==
  /\ pc = "recover" /\ Matches(previous) /\ ~Matches(current)
  /\ Goto(IF current = {} THEN "undo" ELSE "idle")
  /\ UNCHANGED <<disk, then, made, faults>>
\* The receipt still names the old one: the new one is moved aside.
OldIsTrusted ==
  /\ pc = "recover" /\ Matches(previous) /\ ~Matches(current)
  /\ aside' = current /\ current' = {}
  /\ Goto("undo")
  /\ UNCHANGED <<previous, fresh, receipt, then, made, faults>>

\* Without a receipt, or with one that names neither, both are preserved.
NoneIsTrusted ==
  /\ pc = "recover" /\ previous # {} /\ ~Matches(current) /\ ~Matches(previous)
  /\ Goto("idle")
  /\ UNCHANGED <<disk, then, made, faults>>

PutBack ==
  /\ pc = "undo"
  /\ current' = previous /\ previous' = {} /\ Return
  /\ UNCHANGED <<fresh, aside, receipt, then, made, faults>>

\* remove_tree takes file after file.
Drop ==
  /\ pc = "drop"
  /\ \/ \E n \in Snapshots : previous = Whole(n) /\ previous' = Part(n) /\ UNCHANGED pc
     \/ (\A n \in Snapshots : previous # Whole(n)) /\ previous' = {} /\ Return
  /\ UNCHANGED <<current, fresh, aside, receipt, then, made, faults>>

-----------------------------------------------------------------------------
(* record_synced *)

\* The reconciliation has come to a new common snapshot, or ends.  The resolution of
\* a conflict records without looking at the baseline first.
Record ==
  /\ pc \in {"held", "idle"} /\ made < MaxSnapshots
  /\ made' = made + 1
  /\ Goto("recover") /\ then' = "copy"
  /\ UNCHANGED <<disk, faults>>
Finish == pc = "held" /\ Goto("idle") /\ UNCHANGED <<disk, then, made, faults>>

Copy ==
  /\ pc = "copy" /\ fresh' = Part(made) /\ Goto("copying")
  /\ UNCHANGED <<current, previous, aside, receipt, then, made, faults>>
Copied ==
  /\ pc = "copying" /\ fresh' = Whole(made) /\ Goto("retire")
  /\ UNCHANGED <<current, previous, aside, receipt, then, made, faults>>

\* Broken variant: the old snapshot goes while the receipt still names it.
RetireDrops ==
  /\ pc = "retire"
  /\ current' = {} /\ UNCHANGED previous
  /\ Goto("install")
  /\ UNCHANGED <<fresh, aside, receipt, then, made, faults>>
Retire ==
  /\ pc = "retire"
  /\ previous' = (IF current = {} THEN previous ELSE current) /\ current' = {}
  /\ Goto("install")
  /\ UNCHANGED <<fresh, aside, receipt, then, made, faults>>

Install ==
  /\ pc = "install"
  /\ current' = fresh /\ fresh' = {}
  /\ Goto("receipt")
  /\ UNCHANGED <<previous, aside, receipt, then, made, faults>>

WriteReceipt ==
  /\ pc = "receipt"
  /\ receipt' = {made}
  /\ Goto("drop") /\ then' = "done"
  /\ UNCHANGED <<current, previous, fresh, aside, made, faults>>

-----------------------------------------------------------------------------
(* Faults. *)

\* The receipt cannot be written: the old baseline comes back at once.
ReceiptFails ==
  /\ pc = "receipt" /\ faults < MaxFaults /\ faults' = faults + 1
  /\ Goto("recover") /\ then' = "fail"
  /\ UNCHANGED <<disk, made>>

\* The old snapshot cannot be put back: the one moved aside returns to its place,
\* or stays aside when that fails too.
PutBackFails ==
  /\ pc = "undo" /\ faults < MaxFaults /\ faults' = faults + 1
  /\ \/ UNCHANGED <<current, aside>>
     \/ aside # {} /\ current' = aside /\ aside' = {}
  /\ Goto("idle")
  /\ UNCHANGED <<previous, fresh, receipt, then, made>>

\* Any other operation fails, or the process dies.
Interrupted ==
  /\ pc # "idle" /\ faults < MaxFaults /\ faults' = faults + 1
  /\ Goto("idle")
  /\ UNCHANGED <<disk, then, made>>

Recover ==
  NothingLeft \/ NewIsTrusted \/ OldIsTrusted \/ NoneIsTrusted \/ PutBack \/ Drop
RecordSynced == Record \/ Copy \/ Copied \/ Retire \/ Install \/ WriteReceipt
Faults == ReceiptFails \/ PutBackFails \/ Interrupted
Next == Reconcile \/ Recover \/ RecordSynced \/ Finish \/ Faults
Spec == Init /\ [][Next]_vars

\* A reconciliation that runs goes on, and later triggers start another.
FairSpec ==
  Spec /\ WF_vars(Recover) /\ WF_vars(RecordSynced \/ Finish) /\ WF_vars(Reconcile)

-----------------------------------------------------------------------------
(* Properties. *)

\* Wherever an update is interrupted, the snapshot the receipt names is complete on
\* disk, in its place or as the old one.
Recoverable == receipt # {} => Matches(current) \/ Matches(previous)

\* A reconciliation only ever compares with the snapshot the receipt names.
HeldIsTrusted == pc = "held" /\ receipt # {} => Matches(current) /\ previous = {}

\* Interruptions do not wear the synchronization out: it keeps getting to a trusted
\* baseline, unless the first recordings ever were interrupted with no receipt to
\* trust, which is left to the user.
KeepsReconciling == []<>(pc = "held" \/ (receipt = {} /\ previous # {}))
=============================================================================
