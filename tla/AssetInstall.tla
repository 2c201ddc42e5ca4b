----------------------------- MODULE AssetInstall -----------------------------
(***************************************************************************)
(* The preparation of the factory's own programs: it renders manifests,    *)
(* builds, installs all of it in one transaction without a journal, and    *)
(* in the same transaction moves the files of the legacy layout to their   *)
(* new place: the new copies are written first, the old ones deleted last. *)
(* Source: prepare_inner in source/factory/src/factory_runtime.rs;         *)
(* install_generated_transaction_retiring, legacy_artifact_retirements and *)
(* legacy_artifact_relocations in source/workflow/src/project_sync.rs;     *)
(* legacy_clients_quiet in source/core/src/process_activity.rs.            *)
(*                                                                         *)
(* A legacy program may run and write legacy files; others may edit the    *)
(* targets.  The project lock keeps a second preparation out, so there is  *)
(* one.  Left out: legacy files that are deleted without a copy, the way a *)
(* running program is replaced, the build itself.                          *)
(***************************************************************************)
EXTENDS Naturals

CONSTANTS Targets,   \* manifests, programs and their receipts
          Legacy,    \* files of the legacy layout
          MaxEdits,  \* bound: edits by others
          MaxFaults  \* bound: crashes and failing steps

VARIABLES file,     \* path -> contents, or None
          client,   \* a program of the legacy layout runs
          pc,
          retire,   \* legacy file -> the contents to retire, or None
          before,   \* path -> what was there when the preparation began
          put,      \* path -> what it writes there, or None
          at,       \* the path in hand
          done,     \* paths dealt with in the present pass
          deleted,  \* legacy files whose old copy it has deleted
          result,
          must,     \* history: legacy file -> contents that nobody gave up
          raced,    \* history: edited between a check and the operation after it
          stuck,    \* history: legacy files whose deletion could not be undone
          edits, faults

work == <<retire, before, put, at, done, deleted>>
history == <<must, raced, stuck>>
bounds == <<edits, faults>>
vars == <<file, client, pc, work, result, history, bounds>>

Old(l) == <<l, "old">>
New(l) == <<l, "new">>
Olds == {Old(l) : l \in Legacy}
News == {New(l) : l \in Legacy}
Paths == Targets \cup Olds \cup News

\* Contents: what the preparation renders, what was there first, and the edits.
None == 0
Payload == 1
First == 2
Contents == 0..(First + MaxEdits)
Nothing == [p \in Paths |-> None]

TypeOK ==
  /\ file \in [Paths -> Contents] /\ client \in BOOLEAN
  /\ pc \in {"idle", "snapshot", "relocate", "build", "write", "writing", "verify", "delete",
             "deleting", "final", "undelete", "undo"}
  /\ retire \in [Legacy -> Contents] /\ before \in [Paths -> Contents]
  /\ put \in [Paths -> Contents] /\ at \subseteq Paths /\ done \subseteq Paths
  /\ deleted \subseteq Legacy
  /\ result \in {"none", "installed", "refused", "rolled back", "incomplete"}
  /\ must \in [Legacy -> SUBSET Contents] /\ raced \subseteq Legacy /\ stuck \subseteq Legacy
  /\ edits \in 0..MaxEdits /\ faults \in 0..MaxFaults

Init ==
  /\ file \in [Paths -> {None, First}] /\ (\A l \in Legacy : file[New(l)] = None)
  /\ client \in BOOLEAN /\ pc = "idle" /\ retire = [l \in Legacy |-> None]
  /\ before = Nothing /\ put = Nothing /\ at = {} /\ done = {} /\ deleted = {}
  /\ result = "none"
  /\ must = [l \in Legacy |-> {file[Old(l)]} \ {None}] /\ raced = {} /\ stuck = {}
  /\ edits = 0 /\ faults = 0

-----------------------------------------------------------------------------
(* Preparing. *)

Found == [l \in Legacy |-> file[Old(l)]]
Retired == {l \in Legacy : retire[l] # None}
Refuse == pc' = "idle" /\ result' = "refused"
Fault == faults < MaxFaults /\ faults' = faults + 1

\* Nothing legacy is touched while a legacy program runs.
Begin ==
  /\ pc = "idle"
  /\ IF client /\ \E l \in Legacy : Found[l] # None
     THEN Refuse /\ UNCHANGED retire
     ELSE pc' = "snapshot" /\ result' = "none" /\ retire' = Found
  /\ before' = Nothing /\ put' = Nothing /\ at' = {} /\ done' = {} /\ deleted' = {}
  /\ UNCHANGED <<file, client, history, bounds>>

Snapshot ==
  /\ pc = "snapshot"
  /\ IF Found # retire \/ (client /\ Retired # {})
     THEN Refuse /\ UNCHANGED <<before, put>>
     ELSE /\ pc' = "relocate" /\ UNCHANGED result
          /\ before' = [p \in Paths |-> IF p \in News THEN None ELSE file[p]]
          /\ put' = [p \in Paths |-> IF p \in Targets THEN Payload ELSE None]
  /\ UNCHANGED <<file, client, retire, at, done, deleted, history, bounds>>

\* Broken variant: a copy of an earlier attempt is in the way.
CopyExists == \E l \in Legacy : file[Old(l)] # None /\ file[New(l)] # None
\* The copies are taken from what the legacy files hold by now; a copy that is already
\* there must be the same.
Conflict == \E l \in Legacy : file[Old(l)] # None /\ file[New(l)] \notin {None, file[Old(l)]}
Relocate ==
  /\ pc = "relocate"
  /\ IF Conflict
     THEN Refuse /\ UNCHANGED <<before, put>>
     ELSE /\ pc' = "build" /\ UNCHANGED result
          /\ before' = [p \in Paths |-> IF p \in News THEN file[p] ELSE before[p]]
          /\ put' = [p \in Paths |-> IF \E l \in Legacy : p = New(l) THEN file[Old(p[1])]
                                                                   ELSE put[p]]
  /\ UNCHANGED <<file, client, retire, at, done, deleted, history, bounds>>

Writes == {p \in Paths : put[p] # None}
\* After the build, and again at the entry of the transaction, nothing has moved.
Build ==
  /\ pc = "build"
  /\ IF Found = retire /\ \A p \in Writes : file[p] = before[p]
     THEN pc' = "write" /\ UNCHANGED result
     ELSE Refuse
  /\ UNCHANGED <<file, client, work, history, bounds>>

-----------------------------------------------------------------------------
(* The transaction. *)

\* Undoing starts with the deletions.
RollBack == pc' = "undelete" /\ done' = {} /\ at' = {}
Pass(label) == pc' = label /\ done' = {} /\ at' = {}

Check(p) ==
  /\ pc = "write" /\ p \in Writes \ done
  /\ IF file[p] # before[p] THEN RollBack
     ELSE IF before[p] = put[p] THEN done' = done \cup {p} /\ UNCHANGED <<pc, at>>
     ELSE pc' = "writing" /\ at' = {p} /\ UNCHANGED done
  /\ UNCHANGED <<file, client, retire, before, put, deleted, result, history, bounds>>
Write ==
  /\ pc = "writing"
  /\ file' = [p \in Paths |-> IF p \in at THEN put[p] ELSE file[p]]
  /\ pc' = "write" /\ done' = done \cup at /\ at' = {}
  /\ UNCHANGED <<client, retire, before, put, deleted, result, history, bounds>>

\* verify_after, and what was written is what is there.
Written == \A p \in Writes : file[p] = put[p]
Verify ==
  /\ pc = "write" /\ done = Writes
  /\ IF Found = retire /\ Written THEN Pass("delete") ELSE RollBack
  /\ UNCHANGED <<file, client, retire, before, put, deleted, result, history, bounds>>

\* Broken variant: the legacy file is deleted whatever it holds.
CheckNothing(l) ==
  /\ pc = "delete" /\ l \in Retired \ deleted
  /\ pc' = "deleting" /\ at' = {Old(l)}
  /\ UNCHANGED <<file, client, retire, before, put, done, deleted, result, history, bounds>>
CheckOld(l) ==
  /\ pc = "delete" /\ l \in Retired \ deleted
  /\ IF file[Old(l)] # retire[l] THEN RollBack
                                 ELSE pc' = "deleting" /\ at' = {Old(l)} /\ UNCHANGED done
  /\ UNCHANGED <<file, client, retire, before, put, deleted, result, history, bounds>>
Delete ==
  /\ pc = "deleting"
  /\ file' = [p \in Paths |-> IF p \in at THEN None ELSE file[p]]
  /\ deleted' = deleted \cup {p[1] : p \in at}
  /\ pc' = "delete" /\ at' = {}
  /\ UNCHANGED <<client, retire, before, put, done, result, history, bounds>>

\* No legacy file may have appeared again, and no legacy program.
Final ==
  /\ pc = "delete" /\ Retired \subseteq deleted
  /\ IF Written /\ (Retired # {} => ~client /\ \A l \in Legacy : file[Old(l)] = None)
     THEN pc' = "idle" /\ result' = "installed" /\ UNCHANGED <<at, done>>
     ELSE RollBack /\ UNCHANGED result
  /\ UNCHANGED <<file, client, retire, before, put, deleted, history, bounds>>

\* A write, a deletion or a verification fails.
StepFails ==
  /\ pc \in {"write", "writing", "delete", "deleting"} /\ Fault
  /\ RollBack
  /\ UNCHANGED <<file, client, retire, before, put, deleted, result, history, edits>>

-----------------------------------------------------------------------------
(* Undoing.  Whatever cannot be undone is reported, and the rest goes on. *)

Complain == result' = "incomplete"
Undelete(l) ==
  /\ pc = "undelete" /\ l \in deleted /\ Old(l) \notin done
  /\ done' = done \cup {Old(l)}
  /\ \/ /\ file[Old(l)] = None
        /\ file' = [file EXCEPT ![Old(l)] = retire[l]] /\ UNCHANGED <<result, stuck, faults>>
     \/ file[Old(l)] = retire[l] /\ UNCHANGED <<file, result, stuck, faults>>
     \/ /\ file[Old(l)] # retire[l] /\ Complain /\ stuck' = stuck \cup {l}
        /\ IF file[Old(l)] = None THEN Fault ELSE UNCHANGED faults
        /\ UNCHANGED file
  /\ UNCHANGED <<client, pc, retire, before, put, at, deleted, must, raced, edits>>
Undeleted ==
  /\ pc = "undelete" /\ (\A l \in deleted : Old(l) \in done) /\ Pass("undo")
  /\ UNCHANGED <<file, client, retire, before, put, deleted, result, history, bounds>>

Undo(p) ==
  /\ pc = "undo" /\ p \in Writes \ done
  /\ done' = done \cup {p}
  /\ \/ file[p] = before[p] /\ UNCHANGED <<file, result, faults>>
     \/ file[p] \notin {before[p], put[p]} /\ Complain /\ UNCHANGED <<file, faults>>
     \/ /\ file[p] = put[p] /\ put[p] # before[p]
        /\ \/ file' = [file EXCEPT ![p] = before[p]] /\ UNCHANGED <<result, faults>>
           \/ Fault /\ Complain /\ UNCHANGED file
  /\ UNCHANGED <<client, pc, retire, before, put, at, deleted, history, edits>>
Undone ==
  /\ pc = "undo" /\ done = Writes
  /\ pc' = "idle" /\ result' = IF result = "incomplete" THEN result ELSE "rolled back"
  /\ UNCHANGED <<file, client, work, history, bounds>>

-----------------------------------------------------------------------------
(* Others. *)

Edit(p) ==
  /\ edits < MaxEdits /\ edits' = edits + 1
  /\ file' = [file EXCEPT ![p] = First + edits']
  /\ UNCHANGED <<client, pc, work, result, faults>>
EditTarget(p) == p \in Targets /\ Edit(p) /\ UNCHANGED history

\* A legacy program rewrites its file with the old contents in it, or begins a new one.
EditLegacy(l) ==
  /\ client /\ Edit(Old(l))
  /\ must' = [must EXCEPT ![l] = (@ \ {file[Old(l)]}) \cup {file'[Old(l)]}]
  /\ raced' = IF pc = "deleting" /\ Old(l) \in at THEN raced \cup {l} ELSE raced
  /\ UNCHANGED stuck
ClientStarts == ~client /\ client' = TRUE
                /\ UNCHANGED <<file, pc, work, result, history, bounds>>
ClientEnds == client /\ client' = FALSE
              /\ UNCHANGED <<file, pc, work, result, history, bounds>>

Crash ==
  /\ pc # "idle" /\ Fault /\ pc' = "idle" /\ result' = "none"
  /\ UNCHANGED <<file, client, work, history, edits>>

Step ==
  \/ Snapshot \/ Relocate \/ Build \/ Write \/ Verify \/ Delete \/ Final \/ Undeleted \/ Undone
  \/ \E p \in Paths : Check(p) \/ Undo(p)
  \/ \E l \in Legacy : CheckOld(l) \/ Undelete(l)
Next ==
  \/ Begin \/ Step \/ StepFails \/ ClientStarts \/ ClientEnds \/ Crash
  \/ \E p \in Targets : EditTarget(p)
  \/ \E l \in Legacy : EditLegacy(l)
Spec == Init /\ [][Next]_vars

\* A preparation goes on, and the user repeats one that did not install.
FairSpec == Spec /\ WF_vars(Step) /\ WF_vars(Begin)

-----------------------------------------------------------------------------
(* Properties. *)

\* Wherever the transaction stops or fails, what a legacy file held is still in its old
\* place or in the new one, unless the legacy program wrote to the old place between the
\* check and the deletion, or the deletion could not be undone.
Kept(l) == must[l] \subseteq {file[Old(l)], file[New(l)]}
LegacyKept == \A l \in Legacy \ (raced \cup stuck) : Kept(l)

\* Refuted by what the code does: the same when the deletion could not be undone, because
\* writing fails or because the legacy program began a new file there.
StuckIsKept == \A l \in Legacy \ raced : Kept(l)

\* Once no legacy program runs any more, preparations come to an end whatever interrupted
\* the earlier ones: everything is installed, or an old and a new copy differ.
Installed == \A p \in Targets : file[p] = Payload
Moved == \A l \in Legacy : file[Old(l)] = None
Differ == \E l \in Legacy : None \notin {file[Old(l)], file[New(l)]}
                             /\ file[Old(l)] # file[New(l)]
GetsPrepared == <>[]~client => <>[]((Installed /\ Moved) \/ Differ)
=============================================================================
