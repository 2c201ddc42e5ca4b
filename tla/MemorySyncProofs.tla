-------------------------- MODULE MemorySyncProofs --------------------------
(***************************************************************************)
(* The safety of the memory branch for any number of computers, paths,     *)
(* contents, edits, crashes and damaged commits.                           *)
(*                                                                         *)
(* What a push replaces and what a restore overwrites was decided on the   *)
(* commit fetched and the tree captured earlier; the invariant carries     *)
(* what the decision knew (DecisionInv) to the step that acts on it, over  *)
(* any step of another computer, which can only append to the history.     *)
(***************************************************************************)
EXTENDS MemorySync, TLAPS

\* What is restored or recorded is the commit that was fetched or pushed, and
\* it is not older than the baseline.
Fetched(m) ==
  /\ pc[m] \in {"restore", "record"} =>
       seen[m] \in 1..Len(history) /\ history[seen[m]].tree = tree[m]
  /\ pc[m] # "idle" /\ base[m] # None => base[m].commit <= seen[m]

\* The conflict evidence is a commit of the branch.
Evidence(m) ==
  conflict[m] # None =>
    /\ conflict[m].commit \in 1..Len(history)
    /\ history[conflict[m].commit].tree = conflict[m].remote

\* What a planned push or restore replaces is known to the one who plans it.
Decision(m) ==
  /\ pc[m] \in {"fetched", "publish"} => ~resolving[m]
  /\ pc[m] = "publish" /\ RemoteValid(m) => RemoteTree(m) = BaseTree(m)
  /\ pc[m] = "push" => cap[m] # Missing
  /\ pc[m] = "push" /\ ~resolving[m] /\ RemoteValid(m) => \A p \in Paths :
       tree[m][p] # RemoteTree(m)[p] => RemoteTree(m)[p] = BaseTree(m)[p]
  /\ pc[m] = "push" /\ resolving[m] /\ RemoteValid(m) => \A p \in Paths :
       tree[m][p] # RemoteTree(m)[p] =>
         RemoteTree(m)[p] \in {conflict[m].local[p], conflict[m].remote[p]}
  /\ pc[m] \in {"push", "restore"} /\ ~resolving[m] /\ cap[m] # Missing => \A p \in Paths :
       cap[m][p] # tree[m][p] => cap[m][p] = BaseTree(m)[p]

FetchedInv == \A m \in Machines : Fetched(m)
EvidenceInv == \A m \in Machines : Evidence(m)
DecisionInv == \A m \in Machines : Decision(m)

IInv == TypeOK /\ BaselineInHistory /\ FetchedInv /\ EvidenceInv /\ DecisionInv

-----------------------------------------------------------------------------
(* The data: histories, trees and merges.                                  *)

\* A commit on top leaves the older ones in place.
LEMMA AppendCommit ==
  ASSUME NEW h \in Seq(Commits), NEW c \in Commits
  PROVE  /\ Append(h, c) \in Seq(Commits)
         /\ Len(Append(h, c)) = Len(h) + 1
         /\ Append(h, c)[Len(h) + 1] = c
         /\ \A i \in 1..Len(h) : Append(h, c)[i] = h[i]
OBVIOUS

\* A commit of the history holds a tree.
LEMMA CommitTree ==
  ASSUME NEW h \in Seq(Commits), NEW i \in 1..Len(h)
  PROVE  h[i] \in Commits /\ h[i].tree \in Trees /\ h[i].valid \in BOOLEAN
<1>1. h[i] \in Commits
  OBVIOUS
<1>2. QED  BY <1>1 DEF Commits

\* The empty tree and the two merges are trees.
LEMMA TreesClosed ==
  /\ EmptyTree \in Trees
  /\ \A b, o, t \in Trees : MergedTree(b, o, t) \in Trees /\ BootstrapTree(o, t) \in Trees
BY DEF EmptyTree, Trees, MergedTree, BootstrapTree, Yields, MergeConflicts

\* A merge without conflicts changes a side only where that side still is the baseline.
LEMMA MergeKnows ==
  ASSUME NEW b \in Trees, NEW o \in Trees, NEW t \in Trees,
         MergeConflicts(b, o, t) = {}, NEW p \in Paths
  PROVE  /\ MergedTree(b, o, t)[p] # t[p] => t[p] = b[p]
         /\ o[p] # MergedTree(b, o, t)[p] => o[p] = b[p]
<1>1. p \notin MergeConflicts(b, o, t)
  OBVIOUS
<1>2. Yields(b[p], o[p], t[p]) \/ Yields(b[p], t[p], o[p])
  BY <1>1 DEF MergeConflicts
<1>3. MergedTree(b, o, t)[p] = IF Yields(b[p], o[p], t[p]) THEN t[p] ELSE o[p]
  BY <1>1 DEF MergedTree
<1>4. QED  BY <1>2, <1>3 DEF Yields

-----------------------------------------------------------------------------
(* The invariant is inductive.                                             *)

\* The fetched commit, when it is valid, holds a tree.
LEMMA RemoteTyped ==
  ASSUME TypeOK, NEW m \in Machines, RemoteValid(m)
  PROVE  seen[m] \in 1..Len(history) /\ RemoteTree(m) \in Trees
<1>1. seen[m] \in 1..Len(history) /\ history \in Seq(Commits)
  BY DEF TypeOK, RemoteValid
<1>2. QED  BY <1>1, CommitTree DEF RemoteTree

\* The baseline of a computer is a tree.
LEMMA BaseTyped ==
  ASSUME TypeOK, NEW m \in Machines
  PROVE  /\ BaseTree(m) \in Trees
         /\ base[m] # None => base[m].tree \in Trees /\ base[m].commit \in Nat
<1>1. base[m] # None => base[m] \in Baselines
  BY DEF TypeOK
<1>2. QED  BY <1>1, TreesClosed DEF BaseTree, Baselines

\* The parts of the conflict evidence.
LEMMA ConflictTyped ==
  ASSUME TypeOK, NEW m \in Machines, conflict[m] # None
  PROVE  /\ conflict[m].local \in Trees /\ conflict[m].remote \in Trees
         /\ conflict[m].merged \in Trees /\ conflict[m].commit \in Nat
<1>1. conflict[m] \in Conflicts
  BY DEF TypeOK
<1>2. QED  BY <1>1 DEF Conflicts

\* A push puts one commit on top.
LEMMA AdvanceGrows ==
  ASSUME TypeOK, NEW m \in Machines, NEW t \in Trees, Advance(m, t)
  PROVE  /\ history' \in Seq(Commits)
         /\ Len(history') = Len(history) + 1
         /\ history'[Len(history')] = [tree |-> t, valid |-> TRUE]
         /\ \A i \in 1..Len(history) : history'[i] = history[i]
         /\ seen' \in [Machines -> 0..Len(history')]
         /\ seen' = [seen EXCEPT ![m] = Len(history')]
         /\ Len(history) = seen[m]
<1>1. /\ history \in Seq(Commits) /\ Len(history) \in Nat
      /\ history' = Append(history, [tree |-> t, valid |-> TRUE])
  BY DEF TypeOK, Advance
<1>2. [tree |-> t, valid |-> TRUE] \in Commits
  BY DEF Commits
<1>3. /\ history' \in Seq(Commits)
      /\ Len(history') = Len(history) + 1
      /\ history'[Len(history')] = [tree |-> t, valid |-> TRUE]
      /\ \A i \in 1..Len(history) : history'[i] = history[i]
  BY <1>1, <1>2, AppendCommit
<1>4. /\ seen \in [Machines -> 0..Len(history)]
      /\ seen' = [seen EXCEPT ![m] = Len(history')]
  BY <1>3 DEF TypeOK, Advance
<1>5. seen' \in [Machines -> 0..Len(history')]
  BY <1>1, <1>3, <1>4
<1>6. QED  BY <1>3, <1>4, <1>5 DEF Advance

\* The merged tree of a decision.
LEMMA MergedTyped ==
  ASSUME TypeOK, NEW m \in Machines, BothChanged(m)
  PROVE  Merged(m) \in Trees
<1>1. local[m] \in Trees /\ RemoteTree(m) \in Trees
  BY RemoteTyped DEF TypeOK, BothChanged
<1>2. QED  BY <1>1, BaseTyped, TreesClosed DEF Merged

\* Every action keeps the types.
LEMMA TypeStep == TypeOK /\ [Next]_vars => TypeOK'
<1> SUFFICES ASSUME TypeOK, [Next]_vars PROVE TypeOK'
  OBVIOUS
<1> USE RemoteTyped, TreesClosed, BoundsAssumption DEF TypeOK, Goto, Abort, Plan, Deciding, disk, job, bounds
<1>1. ASSUME NEW m \in Machines, Step(m) \/ ResolveStart(m) \/ NativeEdit(m) \/ Crash(m)
      PROVE  TypeOK'
  <2>1. CASE Fetch(m)  BY <2>1 DEF Fetch
  <2>2. CASE MissingLocal(m)
    <3>1. RemoteValid(m) => RemoteTree(m) \in Trees
      BY RemoteTyped
    <3>2. ASSUME NEW phase \in {"restore", "record", "idle", "finish"}, NEW result \in Trees,
                 Plan(m, phase, result), Deciding(m)
          PROVE  TypeOK'
      BY <3>2
    <3>3. tree[m] \in Trees
      OBVIOUS
    <3>4. QED  BY <2>2, <3>1, <3>2, <3>3 DEF MissingLocal
  <2>3. CASE PublishLocal(m)  BY <2>3 DEF PublishLocal
  <2>4. CASE NothingToRepairFrom(m)  BY <2>4 DEF NothingToRepairFrom
  <2>5. CASE SameContent(m)  BY <2>5 DEF SameContent
  <2>6. CASE RestoreRemote(m)  BY <2>6 DEF RestoreRemote
  <2>7. CASE Merge(m)
    BY <2>7, MergedTyped DEF Merge
  <2>8. CASE RecordConflict(m)
    <3>1. /\ local[m] \in Trees /\ RemoteTree(m) \in Trees /\ Merged(m) \in Trees
          /\ seen[m] \in Nat
      BY <2>8, RemoteTyped, MergedTyped DEF RecordConflict, BothChanged
    <3>2. Clashing(m) \in SUBSET Paths
      BY DEF Clashing, BootstrapConflicts, MergeConflicts
    <3>3. [local |-> local[m], remote |-> RemoteTree(m), commit |-> seen[m],
           paths |-> Clashing(m), merged |-> Merged(m)] \in Conflicts
      BY <3>1, <3>2 DEF Conflicts
    <3>4. conflict' \in [Machines -> Conflicts \cup {None}]
      BY <2>8, <3>3 DEF RecordConflict
    <3>5. QED  BY <2>8, <3>4 DEF RecordConflict
  <2>9. CASE Publish(m)
    <3>1. local[m] \in Trees /\ Advance(m, local[m])
      BY <2>9 DEF Publish
    <3>2. history' \in Seq(Commits) /\ seen' \in [Machines -> 0..Len(history')]
      BY <3>1, AdvanceGrows
    <3>3. QED  BY <2>9, <3>1, <3>2 DEF Publish
  <2>10. CASE Push(m)
    <3>1. tree[m] \in Trees /\ Advance(m, tree[m])
      BY <2>10 DEF Push
    <3>2. history' \in Seq(Commits) /\ seen' \in [Machines -> 0..Len(history')]
      BY <3>1, AdvanceGrows
    <3>3. QED  BY <2>10, <3>1, <3>2 DEF Push
  <2>11. CASE PushRejected(m)  BY <2>11 DEF PushRejected
  <2>12. CASE Restore(m)  BY <2>12 DEF Restore
  <2>13. CASE RestoreRefused(m)  BY <2>13 DEF RestoreRefused
  <2>14. CASE Record(m)
    <3>1. [tree |-> tree[m], commit |-> seen[m]] \in Baselines
      <4>1. tree[m] \in Trees /\ seen[m] \in Nat
        OBVIOUS
      <4>2. QED  BY <4>1 DEF Baselines
    <3>2. base' \in [Machines -> Baselines \cup {None}]
      BY <2>14, <3>1 DEF Record
    <3>3. QED  BY <2>14, <3>2 DEF Record
  <2>15. CASE Finish(m)  BY <2>15 DEF Finish
  <2>16. CASE ResolveStart(m)
    <3>1. /\ conflict[m].local \in Trees /\ conflict[m].remote \in Trees
          /\ conflict[m].merged \in Trees
      BY <2>16, ConflictTyped DEF ResolveStart
    <3>2. PICK mine \in SUBSET conflict[m].paths :
            tree' = [tree EXCEPT ![m] = [p \in Paths |->
                       IF p \in mine THEN conflict[m].local[p]
                       ELSE IF p \in conflict[m].paths THEN conflict[m].remote[p]
                       ELSE conflict[m].merged[p]]]
      BY <2>16 DEF ResolveStart
    <3>3. [p \in Paths |-> IF p \in mine THEN conflict[m].local[p]
                           ELSE IF p \in conflict[m].paths THEN conflict[m].remote[p]
                           ELSE conflict[m].merged[p]] \in Trees
      BY <3>1 DEF Trees
    <3>4. tree' \in [Machines -> Trees]
      BY <3>2, <3>3
    <3>5. Len(history) \in 0..Len(history)
      OBVIOUS
    <3>6. QED  BY <2>16, <3>1, <3>4, <3>5 DEF ResolveStart
  <2>17. CASE NativeEdit(m)
    <3>1. ASSUME NEW p \in Paths, NEW v \in Values \cup {Absent}, NEW now \in Trees
          PROVE  [now EXCEPT ![p] = v] \in Trees
      BY DEF Trees
    <3>2. (IF local[m] = Missing THEN EmptyTree ELSE local[m]) \in Trees
      OBVIOUS
    <3>3. local' \in [Machines -> Trees \cup {Missing}]
      <4>1. CASE local' = [local EXCEPT ![m] = Missing]
        BY <4>1
      <4>2. ASSUME NEW p \in Paths, NEW v \in Values \cup {Absent},
                   local' = [local EXCEPT ![m] =
                      [(IF local[m] = Missing THEN EmptyTree ELSE local[m]) EXCEPT ![p] = v]]
            PROVE  local' \in [Machines -> Trees \cup {Missing}]
        <5>1. [(IF local[m] = Missing THEN EmptyTree ELSE local[m]) EXCEPT ![p] = v] \in Trees
          BY <3>1, <3>2
        <5>2. QED  BY <4>2, <5>1
      <4>3. QED  BY <2>17, <4>1, <4>2 DEF NativeEdit
    <3>4. QED  BY <2>17, <3>3 DEF NativeEdit
  <2>18. CASE Crash(m)  BY <2>18 DEF Crash
  <2>19. QED  BY <1>1, <2>1, <2>2, <2>3, <2>4, <2>5, <2>6, <2>7, <2>8, <2>9, <2>10, <2>11, <2>12, <2>13, <2>14, <2>15, <2>16, <2>17, <2>18 DEF Step, Decide
<1>2. CASE DamageRemote
  <2>1. [tree |-> EmptyTree, valid |-> FALSE] \in Commits
    BY DEF Commits
  <2>2. /\ history' \in Seq(Commits) /\ Len(history') = Len(history) + 1
        /\ Len(history) \in Nat
    BY <1>2, <2>1, AppendCommit DEF DamageRemote
  <2>3. seen' \in [Machines -> 0..Len(history')]
    BY <1>2, <2>2 DEF DamageRemote, job
  <2>4. QED  BY <1>2, <2>2, <2>3 DEF DamageRemote
<1>3. CASE UNCHANGED vars  BY <1>3 DEF vars
<1>4. QED  BY <1>1, <1>2, <1>3 DEF Next

\* No step rewrites the history.
LEMMA HistoryGrows ==
  ASSUME TypeOK, [Next]_vars
  PROVE  /\ Len(history) \in Nat /\ Len(history') \in Nat
         /\ Len(history) <= Len(history')
         /\ \A i \in 1..Len(history) : history'[i] = history[i]
<1>1. history \in Seq(Commits) /\ Len(history) \in Nat
  BY DEF TypeOK
<1>2. CASE history' = history
  BY <1>1, <1>2
<1>3. ASSUME NEW m \in Machines, Publish(m) \/ Push(m)
      PROVE  Len(history') = Len(history) + 1 /\ \A i \in 1..Len(history) : history'[i] = history[i]
  <2>1. PICK t \in Trees : Advance(m, t)
    BY <1>3 DEF Publish, Push, TypeOK
  <2>2. QED  BY <2>1, AdvanceGrows
<1>4. CASE DamageRemote
  <2>1. [tree |-> EmptyTree, valid |-> FALSE] \in Commits
    BY TreesClosed DEF Commits
  <2>2. QED  BY <1>1, <1>4, <2>1, AppendCommit DEF DamageRemote
<1>5. history' = history \/ DamageRemote \/ \E m \in Machines : Publish(m) \/ Push(m)
  BY DEF Next, Step, Decide, vars, Goto, Abort, Deciding, disk, job, bounds,
         Fetch, MissingLocal, PublishLocal, NothingToRepairFrom, SameContent, RestoreRemote,
         Merge, RecordConflict, PushRejected, Restore, RestoreRefused, Record, Finish,
         ResolveStart, NativeEdit, Crash
<1>6. QED  BY <1>1, <1>2, <1>3, <1>4, <1>5

\* The files and the reconciliation of a computer that does not act.
Untouched(n) ==
  /\ pc'[n] = pc[n] /\ resolving'[n] = resolving[n] /\ seen'[n] = seen[n]
  /\ cap'[n] = cap[n] /\ tree'[n] = tree[n]
  /\ base'[n] = base[n] /\ conflict'[n] = conflict[n]

\* Only its own steps touch them.
LEMMA OneActs ==
  ASSUME TypeOK, [Next]_vars, NEW n \in Machines
  PROVE  Untouched(n) \/ Step(n) \/ ResolveStart(n) \/ Crash(n)
<1> USE DEF TypeOK, Untouched, Goto, Abort, Plan, Deciding, disk, job, bounds
<1>1. ASSUME NEW m \in Machines, m # n, Step(m) \/ ResolveStart(m) \/ Crash(m)
      PROVE  Untouched(n)
  <2>1. CASE Fetch(m)  BY <1>1, <2>1 DEF Fetch
  <2>2. CASE MissingLocal(m)  BY <1>1, <2>2 DEF MissingLocal
  <2>3. CASE PublishLocal(m)  BY <1>1, <2>3 DEF PublishLocal
  <2>4. CASE NothingToRepairFrom(m)  BY <1>1, <2>4 DEF NothingToRepairFrom
  <2>5. CASE SameContent(m)  BY <1>1, <2>5 DEF SameContent
  <2>6. CASE RestoreRemote(m)  BY <1>1, <2>6 DEF RestoreRemote
  <2>7. CASE Merge(m)  BY <1>1, <2>7 DEF Merge
  <2>8. CASE RecordConflict(m)  BY <1>1, <2>8 DEF RecordConflict
  <2>9. CASE Publish(m)  BY <1>1, <2>9 DEF Publish, Advance
  <2>10. CASE Push(m)  BY <1>1, <2>10 DEF Push, Advance
  <2>11. CASE PushRejected(m)  BY <1>1, <2>11 DEF PushRejected
  <2>12. CASE Restore(m)  BY <1>1, <2>12 DEF Restore
  <2>13. CASE RestoreRefused(m)  BY <1>1, <2>13 DEF RestoreRefused
  <2>14. CASE Record(m)  BY <1>1, <2>14 DEF Record
  <2>15. CASE Finish(m)  BY <1>1, <2>15 DEF Finish
  <2>16. CASE ResolveStart(m)  BY <1>1, <2>16 DEF ResolveStart
  <2>17. CASE Crash(m)  BY <1>1, <2>17 DEF Crash
  <2>18. QED  BY <1>1, <2>1, <2>2, <2>3, <2>4, <2>5, <2>6, <2>7, <2>8, <2>9, <2>10, <2>11, <2>12, <2>13, <2>14, <2>15, <2>16, <2>17 DEF Step, Decide
<1>2. ASSUME NEW m \in Machines, NativeEdit(m) PROVE Untouched(n)
  BY <1>2 DEF NativeEdit
<1>3. CASE DamageRemote  BY <1>3 DEF DamageRemote
<1>4. CASE UNCHANGED vars  BY <1>4 DEF vars
<1>5. QED  BY <1>1, <1>2, <1>3, <1>4 DEF Next

\* The fetched commit stays what it is.
LEMMA RemoteKept ==
  ASSUME TypeOK, [Next]_vars, NEW n \in Machines, seen'[n] = seen[n]
  PROVE  /\ RemoteValid(n)' = RemoteValid(n)
         /\ seen[n] # 0 => RemoteTree(n)' = RemoteTree(n)
<1>1. seen[n] \in 0..Len(history)
  BY DEF TypeOK
<1>2. seen[n] # 0 => history'[seen[n]] = history[seen[n]]
  BY <1>1, HistoryGrows
<1>3. QED  BY <1>2 DEF RemoteValid, RemoteTree

\* A baseline changes only when it is recorded.
LEMMA BaseMoves ==
  ASSUME TypeOK, [Next]_vars, NEW n \in Machines
  PROVE  base'[n] = base[n] \/ Record(n)
<1>1. CASE Untouched(n)
  BY <1>1 DEF Untouched
<1>2. CASE Step(n) \/ ResolveStart(n) \/ Crash(n)
  BY <1>2 DEF TypeOK, Goto, Abort, Plan, Deciding, disk, job, bounds, Step, Decide, Fetch,
              MissingLocal, PublishLocal, NothingToRepairFrom, SameContent, RestoreRemote,
              Merge, RecordConflict, Publish, Push, PushRejected, Restore, RestoreRefused,
              Finish, ResolveStart, Crash
<1>3. QED  BY <1>1, <1>2, OneActs

\* Every action keeps receipts and commits together.
LEMMA BaselineStep ==
  TypeOK /\ BaselineInHistory /\ FetchedInv /\ [Next]_vars => BaselineInHistory'
<1> SUFFICES ASSUME TypeOK, BaselineInHistory, FetchedInv, [Next]_vars,
                    NEW n \in Machines, base'[n] # None
             PROVE  /\ base'[n].commit \in DOMAIN history'
                    /\ history'[base'[n].commit].tree = base'[n].tree
  BY DEF BaselineInHistory
<1>1. DOMAIN history = 1..Len(history) /\ DOMAIN history' = 1..Len(history')
  BY TypeStep DEF TypeOK
<1>2. CASE base'[n] = base[n]
  <2>1. base[n].commit \in 1..Len(history) /\ history[base[n].commit].tree = base[n].tree
    BY <1>1, <1>2 DEF BaselineInHistory
  <2>2. QED  BY <1>1, <1>2, <2>1, HistoryGrows
<1>3. CASE Record(n)
  <2>1. base'[n] = [tree |-> tree[n], commit |-> seen[n]] /\ history' = history
    BY <1>3 DEF Record, TypeOK
  <2>2. seen[n] \in 1..Len(history) /\ history[seen[n]].tree = tree[n]
    BY <1>3 DEF Record, FetchedInv, Fetched
  <2>3. QED  BY <1>1, <2>1, <2>2
<1>4. QED  BY <1>2, <1>3, BaseMoves

\* Every action keeps conflict evidence a commit of the branch.
LEMMA EvidenceStep == TypeOK /\ EvidenceInv /\ [Next]_vars => EvidenceInv'
<1> SUFFICES ASSUME TypeOK, EvidenceInv, [Next]_vars, NEW n \in Machines
             PROVE  Evidence(n)'
  BY DEF EvidenceInv
<1>1. CASE conflict'[n] = conflict[n]
  <2>1. Evidence(n)
    BY DEF EvidenceInv
  <2>2. QED  BY <1>1, <2>1, HistoryGrows DEF Evidence
<1>2. CASE conflict'[n] = None
  BY <1>2 DEF Evidence
<1>3. CASE RecordConflict(n)
  <2>1. /\ conflict'[n].commit = seen[n] /\ conflict'[n].remote = RemoteTree(n)
        /\ history' = history
    BY <1>3 DEF RecordConflict, Deciding, TypeOK
  <2>2. seen[n] \in 1..Len(history)
    BY <1>3, RemoteTyped DEF RecordConflict, BothChanged
  <2>3. QED  BY <2>1, <2>2 DEF Evidence, RemoteTree
<1>4. Untouched(n) \/ Step(n) \/ ResolveStart(n) \/ Crash(n)
      => conflict'[n] = conflict[n] \/ conflict'[n] = None \/ RecordConflict(n)
  BY DEF TypeOK, Goto, Abort, Plan, Deciding, disk, job, bounds, Step, Decide, Fetch,
         MissingLocal, PublishLocal, NothingToRepairFrom, SameContent, RestoreRemote,
         Merge, Publish, Push, PushRejected, Restore, RestoreRefused, Record, Finish,
         ResolveStart, Crash, Untouched
<1>5. QED  BY <1>1, <1>2, <1>3, <1>4, OneActs

\* Every action keeps the fetched commit and what is made of it together.
LEMMA FetchedStep ==
  TypeOK /\ BaselineInHistory /\ FetchedInv /\ [Next]_vars => FetchedInv'
<1> SUFFICES ASSUME TypeOK, BaselineInHistory, FetchedInv, [Next]_vars, NEW n \in Machines
             PROVE  Fetched(n)'
  BY DEF FetchedInv
<1>1. Fetched(n) /\ seen[n] \in 0..Len(history)
  BY DEF FetchedInv, TypeOK
<1>2. base[n] # None => base[n].commit \in 1..Len(history)
  BY DEF BaselineInHistory, TypeOK
<1>3. /\ Len(history) \in Nat /\ Len(history') \in Nat /\ Len(history) <= Len(history')
      /\ \A i \in 1..Len(history) : history'[i] = history[i]
  BY HistoryGrows
<1>4. CASE Untouched(n)
  BY <1>1, <1>2, <1>3, <1>4 DEF Fetched, Untouched
<1>5. CASE pc'[n] = "idle"
  BY <1>5 DEF Fetched
<1>6. CASE Fetch(n) \/ ResolveStart(n)
  BY <1>2, <1>6 DEF Fetch, ResolveStart, Fetched, Goto, TypeOK, disk
<1>7. CASE MissingLocal(n) \/ SameContent(n) \/ RestoreRemote(n) \/ Merge(n) \/ PublishLocal(n)
  <2>1. /\ pc[n] = "fetched" /\ history' = history /\ base' = base /\ seen' = seen
    BY <1>7 DEF MissingLocal, SameContent, RestoreRemote, Merge, PublishLocal, Deciding
  <2>2. pc'[n] \in {"restore", "record"} => RemoteValid(n) /\ tree'[n] = RemoteTree(n)
    BY <1>7 DEF MissingLocal, SameContent, RestoreRemote, Merge, PublishLocal, BothChanged,
                Plan, Goto, TypeOK
  <2>3. RemoteValid(n) => seen[n] \in 1..Len(history)
    BY RemoteTyped
  <2>4. QED  BY <1>1, <1>2, <2>1, <2>2, <2>3 DEF Fetched, RemoteTree
<1>8. CASE Publish(n) \/ Push(n)
  <2>1. PICK t \in Trees : Advance(n, t) /\ tree'[n] = t /\ base'[n] = base[n]
    BY <1>8 DEF Publish, Push, TypeOK
  <2>2. seen \in [Machines -> 0..Len(history)]
    BY DEF TypeOK
  <2>3. /\ seen' = [seen EXCEPT ![n] = Len(history')] /\ Len(history') = Len(history) + 1
        /\ history'[Len(history')] = [tree |-> t, valid |-> TRUE]
    BY <2>1, AdvanceGrows
  <2>4. seen'[n] = Len(history') /\ history'[Len(history')].tree = t
    BY <2>2, <2>3
  <2>5. QED  BY <1>2, <1>3, <2>1, <2>3, <2>4 DEF Fetched
<1>9. CASE Restore(n) \/ Record(n) \/ Finish(n)
  BY <1>1, <1>9 DEF Restore, Record, Finish, Fetched, Goto, TypeOK, disk
<1>10. PushRejected(n) \/ RestoreRefused(n) \/ Crash(n) \/ RecordConflict(n)
       \/ NothingToRepairFrom(n) => pc'[n] = "idle"
  BY DEF PushRejected, RestoreRefused, Crash, RecordConflict, NothingToRepairFrom, Plan,
         Abort, Goto, TypeOK
<1>11. QED  BY <1>4, <1>5, <1>6, <1>7, <1>8, <1>9, <1>10, OneActs DEF Step, Decide

\* Every action keeps what a decision knows until it is carried out.
LEMMA DecisionStep ==
  TypeOK /\ EvidenceInv /\ DecisionInv /\ [Next]_vars => DecisionInv'
<1> SUFFICES ASSUME TypeOK, EvidenceInv, DecisionInv, [Next]_vars, NEW n \in Machines
             PROVE  Decision(n)'
  BY DEF DecisionInv
<1>1. Decision(n) /\ Evidence(n)
  BY DEF DecisionInv, EvidenceInv
<1>2. CASE Untouched(n)
  <2>1. /\ RemoteValid(n)' = RemoteValid(n)
        /\ RemoteValid(n) => RemoteTree(n)' = RemoteTree(n)
        /\ BaseTree(n)' = BaseTree(n)
    BY <1>2, RemoteKept DEF Untouched, BaseTree, RemoteValid
  <2>2. QED  BY <1>1, <1>2, <2>1 DEF Decision, Untouched
<1>3. CASE pc'[n] \notin {"fetched", "publish", "push", "restore"} \/ Fetch(n)
  BY <1>3 DEF Decision, Fetch, Goto, TypeOK
<1>4. CASE MissingLocal(n) \/ PublishLocal(n) \/ RestoreRemote(n) \/ Merge(n)
  <2>1. /\ history' = history /\ base' = base /\ seen' = seen /\ resolving' = resolving
        /\ cap'[n] = local[n]
    BY <1>4 DEF MissingLocal, PublishLocal, RestoreRemote, Merge, Deciding, Plan, TypeOK
  <2>2. /\ RemoteValid(n)' = RemoteValid(n) /\ RemoteTree(n)' = RemoteTree(n)
        /\ BaseTree(n)' = BaseTree(n)
    BY <2>1 DEF RemoteValid, RemoteTree, BaseTree
  <2>3. CASE MissingLocal(n) \/ PublishLocal(n)
    <3>1. CASE MissingLocal(n)
      <4>1. cap'[n] = Missing /\ pc'[n] \in {"restore", "record", "idle", "finish"}
        BY <2>1, <3>1 DEF MissingLocal, Plan, Goto, TypeOK
      <4>2. QED  BY <4>1 DEF Decision
    <3>2. CASE PublishLocal(n)
      <4>1. pc'[n] = "publish" /\ (RemoteValid(n) => RemoteTree(n) = BaseTree(n))
        BY <3>2 DEF PublishLocal, Plan, Goto, TypeOK, BaseTree, RemoteValid
      <4>2. ~resolving'[n]
        BY <1>1, <2>1, <3>2 DEF PublishLocal, Deciding, Decision
      <4>3. QED  BY <2>2, <4>1, <4>2 DEF Decision
    <3>3. QED  BY <2>3, <3>1, <3>2
  <2>4. CASE RestoreRemote(n)
    <3>1. pc'[n] = "restore" /\ local[n] = BaseTree(n)
      BY <2>4 DEF RestoreRemote, Plan, Goto, TypeOK, BaseTree
    <3>2. QED  BY <2>1, <2>2, <3>1 DEF Decision
  <2>5. CASE Merge(n)
    <3>1. /\ local[n] \in Trees /\ RemoteTree(n) \in Trees /\ BaseTree(n) \in Trees
          /\ RemoteValid(n) /\ Clashing(n) = {}
          /\ pc'[n] \in {"restore", "push"} /\ tree'[n] = Merged(n)
      BY <2>5, RemoteTyped, BaseTyped DEF Merge, BothChanged, Plan, Goto, TypeOK
    <3>2. base[n] # None
      <4>1. SUFFICES ASSUME base[n] = None PROVE FALSE
        OBVIOUS
      <4>2. local[n] # RemoteTree(n) /\ BootstrapConflicts(local[n], RemoteTree(n)) = {}
        BY <2>5, <3>1, <4>1 DEF Merge, BothChanged, Clashing
      <4>3. QED  BY <3>1, <4>2 DEF BootstrapConflicts, Trees
    <3>3. /\ MergeConflicts(BaseTree(n), local[n], RemoteTree(n)) = {}
          /\ Merged(n) = MergedTree(BaseTree(n), local[n], RemoteTree(n))
      BY <3>1, <3>2 DEF Clashing, Merged, BaseTree
    <3>4. \A p \in Paths : /\ Merged(n)[p] # RemoteTree(n)[p] => RemoteTree(n)[p] = BaseTree(n)[p]
                           /\ local[n][p] # Merged(n)[p] => local[n][p] = BaseTree(n)[p]
      BY <3>1, <3>3, MergeKnows
    <3>5. ~resolving'[n]
      BY <1>1, <1>4, <2>1, <2>5 DEF Merge, Deciding, Decision
    <3>6. local[n] # Missing
      BY <2>5 DEF Merge, BothChanged
    <3>7. QED  BY <2>1, <2>2, <3>1, <3>4, <3>5, <3>6 DEF Decision
  <2>6. QED  BY <1>4, <2>3, <2>4, <2>5
<1>5. CASE ResolveStart(n)
  <2>1. PICK mine \in SUBSET conflict[n].paths :
          tree' = [tree EXCEPT ![n] = [p \in Paths |->
                     IF p \in mine THEN conflict[n].local[p]
                     ELSE IF p \in conflict[n].paths THEN conflict[n].remote[p]
                     ELSE conflict[n].merged[p]]]
    BY <1>5 DEF ResolveStart
  <2>2. /\ pc'[n] = "push" /\ resolving'[n] /\ cap'[n] = conflict[n].local
        /\ seen'[n] = Len(history) /\ history' = history /\ conflict' = conflict
        /\ conflict[n] # None
    BY <1>5 DEF ResolveStart, Goto, TypeOK, disk
  <2>3. cap'[n] # Missing
    BY <2>2, ConflictTyped, MarkersAssumption
  <2>4. RemoteValid(n)' => RemoteTree(n)' \in {conflict[n].local, conflict[n].remote}
    <3>1. conflict[n].commit \in 1..Len(history)
          /\ history[conflict[n].commit].tree = conflict[n].remote
      BY <1>1, <2>2 DEF Evidence
    <3>2. QED  BY <1>5, <2>2, <3>1 DEF ResolveStart, ConflictStillApplies, RemoteValid, RemoteTree
  <2>5. RemoteValid(n)' => \A p \in Paths :
          RemoteTree(n)'[p] \in {conflict[n].local[p], conflict[n].remote[p]}
    BY <2>4
  <2>6. QED  BY <2>2, <2>3, <2>5 DEF Decision
<1>6. CASE Push(n)
  <2>1. /\ pc[n] = "push" /\ pc'[n] \in {"restore", "record"} /\ resolving'[n] = resolving[n]
        /\ cap'[n] = cap[n] /\ tree'[n] = tree[n] /\ base'[n] = base[n]
    BY <1>6 DEF Push, Goto, TypeOK
  <2>2. BaseTree(n)' = BaseTree(n)
    BY <2>1 DEF BaseTree
  <2>3. QED  BY <1>1, <2>1, <2>2 DEF Decision
<1>7. NothingToRepairFrom(n) \/ SameContent(n) \/ RecordConflict(n) \/ Publish(n)
      \/ PushRejected(n) \/ Restore(n) \/ RestoreRefused(n) \/ Record(n) \/ Finish(n) \/ Crash(n)
      => pc'[n] \notin {"fetched", "publish", "push", "restore"}
  BY DEF NothingToRepairFrom, SameContent, RecordConflict, Publish, PushRejected,
         Restore, RestoreRefused, Record, Finish, Crash, Plan, Abort, Goto, TypeOK
<1>8. QED  BY <1>2, <1>3, <1>4, <1>5, <1>6, <1>7, OneActs DEF Step, Decide

\* The invariant holds from the start.
LEMMA InitInv == Init => IInv
<1> SUFFICES ASSUME Init PROVE IInv
  OBVIOUS
<1>1. TypeOK
  BY TreesClosed DEF Init, TypeOK
<1>2. BaselineInHistory /\ FetchedInv /\ EvidenceInv /\ DecisionInv
  BY DEF Init, BaselineInHistory, FetchedInv, Fetched, EvidenceInv, Evidence, DecisionInv, Decision
<1>3. QED  BY <1>1, <1>2 DEF IInv

-----------------------------------------------------------------------------
(* The results.                                                            *)

\* IInv is an invariant of the memory branch.
THEOREM Invariance == Spec => []IInv
<1>1. IInv /\ [Next]_vars => IInv'
  BY TypeStep, BaselineStep, FetchedStep, EvidenceStep, DecisionStep DEF IInv
<1>2. QED  BY InitInv, <1>1, PTL DEF Spec

\* Type correctness: every commit a computer names exists.
THEOREM TypeCorrect == Spec => []TypeOK
<1>1. IInv => TypeOK  BY DEF IInv
<1>2. QED  BY Invariance, <1>1, PTL

\* The receipt of record_synced always names the commit that holds the baseline.
THEOREM ReceiptsHold == Spec => []BaselineInHistory
<1>1. IInv => BaselineInHistory  BY DEF IInv
<1>2. QED  BY Invariance, <1>1, PTL

\* A push of push_snapshot replaces on the branch only what its computer knew.
THEOREM PushesKnow == Spec => PushKnowsHead
<1>1. ASSUME IInv, [Next]_vars, NEW m \in Machines, pc[m] \in {"publish", "push"},
             Len(history') > Len(history), pc'[m] # pc[m],
             history # <<>>, history[Len(history)].valid,
             NEW p \in Replaced(history[Len(history)].tree, history'[Len(history')].tree)
      PROVE  IF resolving[m]
             THEN history[Len(history)].tree[p] \in {conflict[m].local[p], conflict[m].remote[p]}
             ELSE history[Len(history)].tree[p] = BaseTree(m)[p]
  <2>1. TypeOK /\ Decision(m)
    BY <1>1 DEF IInv, DecisionInv
  <2>2. Publish(m) \/ Push(m)
    <3>1. Len(history) \in Nat /\ history' # history
      BY <1>1, <2>1 DEF TypeOK
    <3>2. Step(m) \/ ResolveStart(m) \/ Crash(m)
      BY <1>1, <2>1, OneActs DEF Untouched
    <3>3. QED
      BY <1>1, <3>1, <3>2 DEF Step, Decide, Fetch, MissingLocal, PublishLocal, SameContent,
         NothingToRepairFrom, RestoreRemote, Merge, RecordConflict, PushRejected, Abort, Restore,
         RestoreRefused, Record, Finish, ResolveStart, Crash, Deciding, disk
  <2>3. PICK t \in Trees : /\ Advance(m, t)
                           /\ t = IF pc[m] = "push" THEN tree[m] ELSE local[m]
    BY <2>1, <2>2 DEF Publish, Push, TypeOK
  <2>4. Len(history) = seen[m] /\ history'[Len(history')] = [tree |-> t, valid |-> TRUE]
    BY <2>1, <2>3, AdvanceGrows
  <2>5. RemoteValid(m) /\ history[Len(history)].tree = RemoteTree(m)
    <3>1. Len(history) # 0
      BY <1>1, <2>1 DEF TypeOK
    <3>2. QED  BY <1>1, <2>4, <3>1 DEF RemoteValid, RemoteTree
  <2>6. p \in Paths /\ RemoteTree(m)[p] # t[p]
    BY <1>1, <2>4, <2>5 DEF Replaced
  <2>7. CASE pc[m] = "publish"
    BY <2>1, <2>5, <2>7 DEF Decision
  <2>8. CASE pc[m] = "push"
    BY <2>1, <2>3, <2>5, <2>6, <2>8 DEF Decision
  <2>9. QED  BY <1>1, <2>7, <2>8
<1>2. IInv /\ [Next]_vars => [\A m \in Machines : PushReplacesKnown(m)]_vars
  BY <1>1 DEF PushReplacesKnown
<1>3. QED  BY <1>2, Invariance, PTL DEF Spec, PushKnowsHead

\* A restore of restore_snapshot overwrites only files that are as the baseline has them.
THEOREM RestoresKeep == Spec => RestoreKeepsEdits
<1>1. ASSUME IInv, [Next]_vars, NEW m \in Machines, pc[m] = "restore", pc'[m] = "record",
             ~resolving[m], local[m] # Missing, NEW p \in Replaced(local[m], local'[m])
      PROVE  local[m][p] = BaseTree(m)[p]
  <2>1. TypeOK /\ Decision(m)
    BY <1>1 DEF IInv, DecisionInv
  <2>2. Restore(m)
    <3>1. Step(m) \/ ResolveStart(m) \/ Crash(m)
      BY <1>1, <2>1, OneActs DEF Untouched
    <3>2. QED
      BY <1>1, <2>1, <3>1 DEF Step, Decide, Fetch, MissingLocal, PublishLocal, SameContent,
         NothingToRepairFrom, RestoreRemote, Merge, RecordConflict, Publish, Push, PushRejected,
         Abort, Goto, RestoreRefused, Record, Finish, ResolveStart, Crash, Deciding, TypeOK
  <2>3. local[m] = cap[m] /\ local'[m] = tree[m]
    BY <2>1, <2>2 DEF Restore, TypeOK
  <2>4. QED  BY <1>1, <2>1, <2>3 DEF Replaced, Decision
<1>2. IInv /\ [Next]_vars => [\A m \in Machines : RestoreReplacesSynced(m)]_vars
  BY <1>1 DEF RestoreReplacesSynced
<1>3. QED  BY <1>2, Invariance, PTL DEF Spec, RestoreKeepsEdits

\* record_synced is reached only with a tree that is in place.
THEOREM RecordsAreHere == Spec => RecordsWhatIsHere
<1>1. ASSUME IInv, [Next]_vars, NEW m \in Machines, pc[m] # "record", pc'[m] = "record"
      PROVE  local'[m] = tree'[m] \/ (local'[m] = Missing /\ tree'[m] = EmptyTree)
  <2>1. TypeOK
    BY <1>1 DEF IInv
  <2>2. Step(m) \/ ResolveStart(m) \/ Crash(m)
    BY <1>1, <2>1, OneActs DEF Untouched
  <2>3. MissingLocal(m) \/ SameContent(m) \/ Publish(m) \/ Push(m) \/ Restore(m)
    BY <1>1, <2>1, <2>2 DEF Step, Decide, Fetch, PublishLocal, NothingToRepairFrom, RestoreRemote,
       Merge, RecordConflict, PushRejected, Abort, Goto, Plan, RestoreRefused, Record, Finish,
       ResolveStart, Crash, TypeOK
  <2>4. QED
    BY <1>1, <2>1, <2>3 DEF MissingLocal, SameContent, Publish, Push, Restore, Deciding, Plan,
       Goto, TypeOK
<1>2. IInv /\ [Next]_vars => [\A m \in Machines : RecordsTreeInPlace(m)]_vars
  BY <1>1 DEF RecordsTreeInPlace
<1>3. QED  BY <1>2, Invariance, PTL DEF Spec, RecordsWhatIsHere

\* A step of the log, or a stutter.
LogStep ==
  [Log!Next]_<<history, [m \in Machines |-> IF base[m] = None THEN 0 ELSE base[m].commit]>>

\* The branch and the receipts implement the append-only log of SnapshotLog.
THEOREM BranchIsLog == Spec => ImplementsLog
<1>1. Init => Log!Init
  BY DEF Init, Log!Init
<1>2. ASSUME IInv, [Next]_vars PROVE LogStep
  <2> DEFINE synced == [m \in Machines |-> IF base[m] = None THEN 0 ELSE base[m].commit]
  <2>1. TypeOK /\ TypeOK'
    BY <1>2, TypeStep DEF IInv
  <2>2. CASE history' = history /\ base' = base
    BY <2>2 DEF LogStep
  <2>3. CASE DamageRemote
    <3>1. [tree |-> EmptyTree, valid |-> FALSE] \in Commits
      BY TreesClosed DEF Commits
    <3>2. QED  BY <2>3, <3>1 DEF DamageRemote, LogStep, Log!Next, Log!Commit
  <2>4. ASSUME NEW m \in Machines, Publish(m) \/ Push(m) PROVE LogStep
    <3>1. PICK t \in Trees : Advance(m, t) /\ base' = base
      BY <2>1, <2>4 DEF Publish, Push, TypeOK
    <3>2. [tree |-> t, valid |-> TRUE] \in Commits
      BY DEF Commits
    <3>3. QED  BY <3>1, <3>2 DEF Advance, LogStep, Log!Next, Log!Commit
  <2>5. ASSUME NEW m \in Machines, Record(m) PROVE LogStep
    <3>1. /\ history' = history
          /\ base' = [base EXCEPT ![m] = [tree |-> tree[m], commit |-> seen[m]]]
          /\ base \in [Machines -> Baselines \cup {None}]
      BY <2>1, <2>5 DEF Record, TypeOK
    <3>2. seen[m] \in 1..Len(history) /\ synced[m] <= seen[m]
      BY <1>2, <2>5 DEF IInv, FetchedInv, Fetched, Record
    <3>3. [tree |-> tree[m], commit |-> seen[m]] # None
      <4>1. tree[m] \in Trees /\ seen[m] \in Nat
        BY <2>1, <3>2 DEF TypeOK
      <4>2. QED  BY <4>1, MarkersAssumption DEF Baselines
    <3>4. synced' = [synced EXCEPT ![m] = seen[m]]
      BY <3>1, <3>3
    <3>5. \E i \in 1..Len(history) : synced[m] <= i /\ Log!Adopt(m, i)
      BY <3>1, <3>2, <3>4 DEF Log!Adopt
    <3>6. Log!Next
      BY <3>5 DEF Log!Next
    <3>7. QED  BY <3>6 DEF LogStep
  <2>6. QED
    BY <1>2, <2>2, <2>3, <2>4, <2>5 DEF Next, Step, Decide, vars, disk, Goto, Abort, Deciding,
       Fetch, MissingLocal, PublishLocal, NothingToRepairFrom, SameContent, RestoreRemote, Merge,
       RecordConflict, PushRejected, Restore, RestoreRefused, Finish, ResolveStart, NativeEdit,
       Crash
<1>3. QED  BY <1>1, <1>2, Invariance, PTL DEF Spec, ImplementsLog, Log!Spec, LogStep
=============================================================================
