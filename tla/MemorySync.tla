----------------------------- MODULE MemorySync -----------------------------
(***************************************************************************)
(* Several computers keep their native memories in step through one git    *)
(* branch.  Every reconciliation fetches, compares with its own synced     *)
(* baseline, and then publishes, restores, merges or records a conflict;   *)
(* the native writer edits the tree meanwhile without taking any lock.     *)
(* Source: reconcile_locked, push_snapshot, restore_snapshot and           *)
(* resolve_conflict_with_choices in source/memory/src/remote.rs.           *)
(*                                                                         *)
(* One reconciliation runs per computer at a time (reconcile.lock, module  *)
(* MemoryQueue).  Replacing the tree and recording the baseline are single *)
(* steps here; modules MemoryReplace and SyncedBaseline open them up.      *)
(***************************************************************************)
EXTENDS Naturals, Sequences, TreeMerge

CONSTANTS Machines,
          None,        \* no baseline, no conflict
          Missing,     \* the memories directory does not exist
          MaxEdits,    \* bound: edits by the native writers
          MaxCrashes,  \* bound: reconciliations that die
          MaxDamage    \* bound: commits on the branch without a valid manifest

VARIABLES history,   \* commits of refs/heads/main, oldest first
          local,     \* the memories directory: a tree, or Missing
          base,      \* last-synced-snapshot with its receipt
          conflict,  \* active-conflict.json with its evidence
          pc,        \* where this computer's reconciliation is
          resolving, \* it carries out the user's resolution
          seen,      \* the commit it fetched, then the one it created
          cap,       \* the local tree it captured
          tree,      \* the tree it publishes, restores or records
          edits, crashes, damage

job == <<pc, resolving, seen, cap, tree>>
disk == <<history, local, base, conflict>>
bounds == <<edits, crashes, damage>>
vars == <<disk, job, bounds>>

Commits == [tree : Trees, valid : BOOLEAN]
Baselines == [tree : Trees, commit : Nat]
Conflicts == [local : Trees, remote : Trees, merged : Trees,
              paths : SUBSET Paths, commit : Nat]

ASSUME MarkersAssumption ==
  /\ Missing \notin Trees
  /\ None \notin Baselines \cup Conflicts
ASSUME BoundsAssumption == MaxEdits \in Nat /\ MaxCrashes \in Nat /\ MaxDamage \in Nat

\* Types; every commit a computer names exists.
TypeOK ==
  /\ history \in Seq(Commits)
  /\ local \in [Machines -> Trees \cup {Missing}]
  /\ base \in [Machines -> Baselines \cup {None}]
  /\ conflict \in [Machines -> Conflicts \cup {None}]
  /\ pc \in [Machines -> {"idle", "fetched", "publish", "push", "restore", "record", "finish"}]
  /\ resolving \in [Machines -> BOOLEAN]
  /\ seen \in [Machines -> 0..Len(history)]
  /\ cap \in [Machines -> Trees \cup {Missing}]
  /\ tree \in [Machines -> Trees]
  /\ edits \in Nat /\ crashes \in Nat /\ damage \in Nat

Init ==
  /\ history = <<>>
  /\ local \in [Machines -> {Missing, EmptyTree}]
  /\ base = [m \in Machines |-> None] /\ conflict = [m \in Machines |-> None]
  /\ pc = [m \in Machines |-> "idle"]
  /\ resolving = [m \in Machines |-> FALSE]
  /\ seen = [m \in Machines |-> 0]
  /\ cap = [m \in Machines |-> Missing]
  /\ tree = [m \in Machines |-> EmptyTree]
  /\ edits = 0 /\ crashes = 0 /\ damage = 0

Goto(m, phase) == pc' = [pc EXCEPT ![m] = phase]
Abort(m) == Goto(m, "idle") /\ UNCHANGED <<disk, resolving, seen, cap, tree, bounds>>

\* What the fetched commit holds.
RemoteValid(m) == seen[m] # 0 /\ history[seen[m]].valid
RemoteTree(m) == history[seen[m]].tree
BaseTree(m) == IF base[m] = None THEN EmptyTree ELSE base[m].tree

-----------------------------------------------------------------------------
(* Fetching and deciding.                                                  *)

\* Broken variant: a commit fetched earlier is taken for the branch.
FetchOnce(m) ==
  /\ pc[m] = "idle"
  /\ seen' = [seen EXCEPT ![m] = IF seen[m] = 0 THEN Len(history) ELSE seen[m]]
  /\ resolving' = [resolving EXCEPT ![m] = FALSE]
  /\ Goto(m, "fetched")
  /\ UNCHANGED <<disk, cap, tree, bounds>>

Fetch(m) ==
  /\ pc[m] = "idle"
  /\ seen' = [seen EXCEPT ![m] = Len(history)]
  /\ resolving' = [resolving EXCEPT ![m] = FALSE]
  /\ Goto(m, "fetched")
  /\ UNCHANGED <<disk, cap, tree, bounds>>

Deciding(m) == pc[m] = "fetched" /\ UNCHANGED <<history, local, base, resolving, seen, bounds>>
Plan(m, phase, result) ==
  /\ cap' = [cap EXCEPT ![m] = local[m]]
  /\ tree' = [tree EXCEPT ![m] = result]
  /\ Goto(m, phase)
  /\ UNCHANGED conflict

\* No memories directory: take over a valid remote snapshot; an empty one is
\* only recorded, so that no empty directory is created.
MissingLocal(m) ==
  /\ Deciding(m) /\ local[m] = Missing
  /\ \/ RemoteValid(m) /\ RemoteTree(m) # EmptyTree /\ Plan(m, "restore", RemoteTree(m))
     \/ RemoteValid(m) /\ RemoteTree(m) = EmptyTree /\ Plan(m, "record", EmptyTree)
     \/ seen[m] # 0 /\ ~RemoteValid(m) /\ Plan(m, "idle", tree[m])
     \/ seen[m] = 0 /\ Plan(m, "finish", tree[m])

\* Only local content exists or changed, or only the remote is unusable.
PublishLocal(m) ==
  /\ Deciding(m) /\ local[m] # Missing
  /\ \/ seen[m] = 0
     \/ seen[m] # 0 /\ ~RemoteValid(m) /\ local[m] # EmptyTree
     \/ /\ RemoteValid(m) /\ local[m] # RemoteTree(m)
        /\ \/ base[m] = None /\ RemoteTree(m) = EmptyTree
           \/ base[m] # None /\ RemoteTree(m) = base[m].tree
  /\ Plan(m, "publish", local[m])

\* A damaged remote is not repaired from nothing.
NothingToRepairFrom(m) ==
  /\ Deciding(m) /\ local[m] = EmptyTree
  /\ seen[m] # 0 /\ ~RemoteValid(m)
  /\ Plan(m, "idle", tree[m])

SameContent(m) ==
  /\ Deciding(m) /\ RemoteValid(m) /\ local[m] = RemoteTree(m)
  /\ Plan(m, "record", RemoteTree(m))

\* Only the remote changed.
RestoreRemote(m) ==
  /\ Deciding(m) /\ local[m] # Missing
  /\ RemoteValid(m) /\ local[m] # RemoteTree(m)
  /\ \/ base[m] = None /\ RemoteTree(m) # EmptyTree /\ local[m] = EmptyTree
     \/ base[m] # None /\ local[m] = base[m].tree
  /\ Plan(m, "restore", RemoteTree(m))

BothChanged(m) ==
  /\ local[m] # Missing /\ RemoteValid(m) /\ local[m] # RemoteTree(m)
  /\ IF base[m] = None
     THEN local[m] # EmptyTree /\ RemoteTree(m) # EmptyTree
     ELSE local[m] # base[m].tree /\ RemoteTree(m) # base[m].tree

\* With no baseline every difference clashes, so there is always one.
Clashing(m) == IF base[m] = None
               THEN BootstrapConflicts(local[m], RemoteTree(m))
               ELSE MergeConflicts(base[m].tree, local[m], RemoteTree(m))
Merged(m) == IF base[m] = None
             THEN BootstrapTree(local[m], RemoteTree(m))
             ELSE MergedTree(base[m].tree, local[m], RemoteTree(m))

\* Both changed, on different paths.
Merge(m) ==
  /\ Deciding(m) /\ BothChanged(m) /\ Clashing(m) = {}
  /\ Plan(m, IF Merged(m) = RemoteTree(m) THEN "restore" ELSE "push", Merged(m))

\* Both changed the same path, or no baseline says who did: keep both sides.
RecordConflict(m) ==
  /\ Deciding(m) /\ BothChanged(m) /\ Clashing(m) # {}
  /\ conflict' = [conflict EXCEPT ![m] =
       [local |-> local[m], remote |-> RemoteTree(m), commit |-> seen[m],
        paths |-> Clashing(m), merged |-> Merged(m)]]
  /\ Goto(m, "idle")
  /\ UNCHANGED <<cap, tree>>

Decide(m) == \/ MissingLocal(m) \/ PublishLocal(m) \/ NothingToRepairFrom(m)
             \/ SameContent(m) \/ RestoreRemote(m) \/ Merge(m) \/ RecordConflict(m)

-----------------------------------------------------------------------------
(* resolve: the user takes one side of every conflicting path.             *)

ConflictStillApplies(m) ==
  LET c == conflict[m]
      now == Len(history)
  IN \/ now = c.commit
     \/ now # 0 /\ history[now].valid /\ history[now].tree = c.local

ResolveStart(m) ==
  /\ pc[m] = "idle" /\ conflict[m] # None
  /\ local[m] = conflict[m].local
  /\ ConflictStillApplies(m)
  /\ \E mine \in SUBSET conflict[m].paths :
       tree' = [tree EXCEPT ![m] = [p \in Paths |->
                  IF p \in mine THEN conflict[m].local[p]
                  ELSE IF p \in conflict[m].paths THEN conflict[m].remote[p]
                  ELSE conflict[m].merged[p]]]
  /\ seen' = [seen EXCEPT ![m] = Len(history)]
  /\ cap' = [cap EXCEPT ![m] = conflict[m].local]
  /\ resolving' = [resolving EXCEPT ![m] = TRUE]
  /\ Goto(m, "push")
  /\ UNCHANGED <<disk, bounds>>

-----------------------------------------------------------------------------
(* Carrying a decision out.                                                *)

\* Broken variant: a forced push.
AdvanceForced(m, t) ==
  /\ history' = Append(history, [tree |-> t, valid |-> TRUE])
  /\ seen' = [seen EXCEPT ![m] = Len(history) + 1]

\* Broken variant: a commit without a parent replaces the branch.
AdvanceOrphan(m, t) ==
  /\ history' = <<[tree |-> t, valid |-> TRUE]>>
  /\ seen' = [seen EXCEPT ![m] = 1]

\* An ordinary push of a child of the fetched commit: the branch moves only
\* when it still is where it was fetched.
Advance(m, t) ==
  /\ Len(history) = seen[m]
  /\ history' = Append(history, [tree |-> t, valid |-> TRUE])
  /\ seen' = [seen EXCEPT ![m] = Len(history) + 1]

\* publish_local_snapshot captures the tree again and publishes that.
Publish(m) ==
  /\ pc[m] = "publish" /\ local[m] # Missing
  /\ Advance(m, local[m])
  /\ tree' = [tree EXCEPT ![m] = local[m]]
  /\ Goto(m, "record")
  /\ UNCHANGED <<local, base, conflict, resolving, cap, bounds>>

\* Broken variant: the merged tree is published but not put in place.
PushOnly(m) ==
  /\ pc[m] = "push" /\ local[m] = cap[m]
  /\ Advance(m, tree[m])
  /\ Goto(m, "record")
  /\ UNCHANGED <<local, base, conflict, resolving, cap, tree, bounds>>

\* A merged or resolved tree is pushed while the captured tree is in place.
Push(m) ==
  /\ pc[m] = "push" /\ local[m] = cap[m]
  /\ Advance(m, tree[m])
  /\ Goto(m, IF tree[m] # cap[m] \/ resolving[m] THEN "restore" ELSE "record")
  /\ UNCHANGED <<local, base, conflict, resolving, cap, tree, bounds>>

\* The branch moved, or the captured tree changed: start over another time.
PushRejected(m) ==
  /\ \/ pc[m] \in {"publish", "push"} /\ Len(history) # seen[m]
     \/ pc[m] = "publish" /\ local[m] = Missing
     \/ pc[m] = "push" /\ local[m] # cap[m]
  /\ Abort(m)

\* Broken variant: the tree is replaced whatever was written meanwhile.
RestoreAnyway(m) ==
  /\ pc[m] = "restore"
  /\ local' = [local EXCEPT ![m] = tree[m]]
  /\ Goto(m, "record")
  /\ UNCHANGED <<history, base, conflict, resolving, seen, cap, tree, bounds>>

\* replace_memories_if_unchanged.
Restore(m) ==
  /\ pc[m] = "restore" /\ local[m] = cap[m]
  /\ local' = [local EXCEPT ![m] = tree[m]]
  /\ Goto(m, "record")
  /\ UNCHANGED <<history, base, conflict, resolving, seen, cap, tree, bounds>>

RestoreRefused(m) ==
  /\ pc[m] = "restore" /\ local[m] # cap[m]
  /\ Abort(m)

Record(m) ==
  /\ pc[m] = "record"
  /\ base' = [base EXCEPT ![m] = [tree |-> tree[m], commit |-> seen[m]]]
  /\ Goto(m, "finish")
  /\ UNCHANGED <<history, local, conflict, resolving, seen, cap, tree, bounds>>

\* Any result but a conflict clears the active conflict.
Finish(m) ==
  /\ pc[m] = "finish"
  /\ conflict' = [conflict EXCEPT ![m] = None]
  /\ Goto(m, "idle")
  /\ UNCHANGED <<history, local, base, resolving, seen, cap, tree, bounds>>

-----------------------------------------------------------------------------
(* The environment.                                                        *)

NativeEdit(m) ==
  /\ edits < MaxEdits
  /\ edits' = edits + 1
  /\ \/ \E p \in Paths, v \in Values \cup {Absent} :
          LET now == IF local[m] = Missing THEN EmptyTree ELSE local[m]
          IN /\ v # now[p]
             /\ local' = [local EXCEPT ![m] = [now EXCEPT ![p] = v]]
     \/ local[m] # Missing /\ local' = [local EXCEPT ![m] = Missing]
  /\ UNCHANGED <<history, base, conflict, job, crashes, damage>>

Crash(m) ==
  /\ pc[m] # "idle" /\ crashes < MaxCrashes
  /\ crashes' = crashes + 1
  /\ Goto(m, "idle")
  /\ UNCHANGED <<disk, resolving, seen, cap, tree, edits, damage>>

\* Somebody else puts a commit without a valid snapshot on the branch.
DamageRemote ==
  /\ damage < MaxDamage
  /\ damage' = damage + 1
  /\ history' = Append(history, [tree |-> EmptyTree, valid |-> FALSE])
  /\ UNCHANGED <<local, base, conflict, job, edits, crashes>>

Step(m) == \/ Fetch(m) \/ Decide(m) \/ Publish(m) \/ Push(m) \/ PushRejected(m)
           \/ Restore(m) \/ RestoreRefused(m) \/ Record(m) \/ Finish(m)

Next == \/ \E m \in Machines : Step(m) \/ ResolveStart(m) \/ NativeEdit(m) \/ Crash(m)
        \/ DamageRemote

Spec == Init /\ [][Next]_vars

\* Lifecycle hooks keep reconciling every computer; a reconciliation runs on.
FairSpec == Spec /\ \A m \in Machines : WF_vars(Step(m))

-----------------------------------------------------------------------------
(* Properties.                                                             *)

Replaced(old, new) == {p \in Paths : old[p] # new[p]}

PushReplacesKnown(m) ==
  pc[m] \in {"publish", "push"} /\ Len(history') > Len(history) /\ pc'[m] # pc[m] =>
    (history # <<>> /\ history[Len(history)].valid =>
       \A p \in Replaced(history[Len(history)].tree, history'[Len(history')].tree) :
         IF resolving[m]
         THEN history[Len(history)].tree[p] \in {conflict[m].local[p], conflict[m].remote[p]}
         ELSE history[Len(history)].tree[p] = BaseTree(m)[p])

\* Whatever a push replaces or removes on the branch was known to the pusher:
\* it is the pusher's own baseline, or a side of the conflict the user resolved.
PushKnowsHead == [][\A m \in Machines : PushReplacesKnown(m)]_vars

RestoreReplacesSynced(m) ==
  pc[m] = "restore" /\ pc'[m] = "record" /\ ~resolving[m] /\ local[m] # Missing =>
    \A p \in Replaced(local[m], local'[m]) : local[m][p] = BaseTree(m)[p]

\* Replacing the memories directory never drops an edit that was not synced:
\* every file it changes is still what the baseline has, or the user chose.
RestoreKeepsEdits == [][\A m \in Machines : RestoreReplacesSynced(m)]_vars

\* The receipt names the commit that holds the baseline.
BaselineInHistory ==
  \A m \in Machines : base[m] # None =>
    /\ base[m].commit \in DOMAIN history
    /\ history[base[m].commit].tree = base[m].tree

RecordsTreeInPlace(m) ==
  pc[m] # "record" /\ pc'[m] = "record" =>
    local'[m] = tree'[m] \/ (local'[m] = Missing /\ tree'[m] = EmptyTree)

\* A baseline is recorded only for a tree that was in place: a computer never
\* takes for synced what it has not got, and so never undoes a remote change.
RecordsWhatIsHere == [][\A m \in Machines : RecordsTreeInPlace(m)]_vars

\* The branch and the receipts are the log of SnapshotLog: commits are never
\* lost or rewritten, and a computer never goes back to an older one.
Log == INSTANCE SnapshotLog WITH
         Snapshots <- Commits, log <- history,
         synced <- [m \in Machines |-> IF base[m] = None THEN 0 ELSE base[m].commit]
ImplementsLog == Log!Spec

HeadTree == IF history = <<>> THEN EmptyTree ELSE history[Len(history)].tree

\* Once the writers rest, every computer reaches the tree of the branch, or a
\* conflict waits for its user.
Converges ==
  <>[](\/ \E m \in Machines : conflict[m] # None
       \/ \A m \in Machines : local[m] = HeadTree \/ (local[m] = Missing /\ HeadTree = EmptyTree))

\* Local content is not removed because the remote snapshot is empty.
EmptyRemoteKeepsLocal ==
  [][\A m \in Machines :
       local[m] \notin {Missing, EmptyTree} /\ pc[m] = "restore" /\ local'[m] # local[m]
         => tree[m] # EmptyTree]_vars
=============================================================================
