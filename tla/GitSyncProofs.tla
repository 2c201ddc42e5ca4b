---------------------------- MODULE GitSyncProofs ----------------------------
(***************************************************************************)
(* Proofs about GitSync, for any number of commits, edits and faults: type *)
(* correctness, that no commit other than a verified one is pushed, that   *)
(* "synced" means published, and that automatic writes overwrite no edit.  *)
(***************************************************************************)
EXTENDS GitSync, TLAPS

-----------------------------------------------------------------------------
(* The commits form a tree that grows from commit 1. *)

GraphInv ==
  \A c \in Made :
    /\ 1 \in past[c] /\ c \in past[c] /\ past[c] \subseteq 1..c
    /\ c # 1 => parent[c] \in 1..(c - 1) /\ past[c] = past[parent[c]] \cup {c}

\* A commit of git-sync other than the verified one, while it can be reached from
\* HEAD, has a guard that no commit on top of it satisfies.
Refuses(g) == \A c \in past[head] \cap rewritten :
                 g[1] < c /\ ~(parent[c] = g[1] /\ tree[c] = g[2])
Guarded == past[head] \cap rewritten # {} => \E g \in guard : Refuses(g)

\* A run that is past the guard, and past the check of its own commit, has a HEAD
\* that may be pushed.
Position == pc \notin {"idle", "guard", "check"} => past[head] \cap rewritten = {}
Ready == pc = "commit" => <<plan.head, expect>> \in guard

SafeInv == OnlyVerifiedPushed /\ Guarded /\ Position /\ Ready
IInv == TypeOK /\ GraphInv /\ SafeInv

-----------------------------------------------------------------------------
(* Trees and commits. *)

\* What is built from trees by Tree, Merge and Plan is well typed.
LEMMA TreeType ==
  ASSUME NEW w \in SUBSET Nat, NEW t \in Contents, NEW f \in SUBSET {"conflict", "candidate"}
  PROVE  Tree(w, t, f) \in Trees
BY DEF Tree, Trees

LEMMA TreeFields ==
  ASSUME NEW x \in Trees
  PROVE  /\ x.work \in SUBSET Nat /\ x.target \in Contents
         /\ x.flaws \in SUBSET {"conflict", "candidate"}
BY DEF Trees

LEMMA MergeType ==
  ASSUME NEW x \in Trees, NEW base \in Trees, NEW new \in Trees
  PROVE  Merge(x, base, new) \in Trees
<1> DEFINE w == x.work \cup new.work
           t == [u \in Targets |-> IF x.target[u] = base.target[u] THEN new.target[u]
                                                                   ELSE x.target[u]]
           f == (x.flaws \ base.flaws) \cup new.flaws
<1>1. w \in SUBSET Nat /\ f \in SUBSET {"conflict", "candidate"}
  BY TreeFields
<1>2. t \in Contents
  <2>1. x.target \in Contents /\ new.target \in Contents
    BY TreeFields
  <2>. QED BY <2>1 DEF Contents
<1>3. Merge(x, base, new) = Tree(w, t, f)
  BY DEF Merge
<1> HIDE DEF w, t, f
<1>. QED BY <1>1, <1>2, <1>3, TreeType

\* A target of a tree is set.
LEMMA SetType ==
  ASSUME TypeOK, NEW t \in Targets, NEW n \in Nat, SetTarget(t, n)
  PROVE  files' \in Trees
<1>1. files.work \in SUBSET Nat /\ files.target \in Contents
      /\ files.flaws \in SUBSET {"conflict", "candidate"}
  BY TreeFields DEF TypeOK
<1>2. [files.target EXCEPT ![t] = n] \in Contents
  BY <1>1 DEF Contents
<1>. QED BY <1>1, <1>2, TreeType DEF SetTarget

\* What another computer publishes is a tree.
LEMMA PushedType ==
  ASSUME TypeOK, NEW W \in SUBSET Targets, stamp' = stamp + 1
  PROVE  Tree(tree[origin].work \cup {stamp'},
              [t \in Targets |-> IF t \in W THEN stamp' ELSE tree[origin].target[t]],
              tree[origin].flaws) \in Trees
<1> DEFINE target == [t \in Targets |-> IF t \in W THEN stamp' ELSE tree[origin].target[t]]
<1>1. tree[origin] \in Trees /\ stamp' \in Nat
  BY CommitsAssumption DEF TypeOK, Made, Ids
<1>2. /\ tree[origin].work \in SUBSET Nat /\ tree[origin].target \in Contents
      /\ tree[origin].flaws \in SUBSET {"conflict", "candidate"}
  BY <1>1, TreeFields
<1>3. target \in Contents
  BY <1>1, <1>2 DEF Contents
<1>4. tree[origin].work \cup {stamp'} \in SUBSET Nat
  BY <1>1, <1>2
<1>5. Tree(tree[origin].work \cup {stamp'}, target, tree[origin].flaws) \in Trees
  <2> HIDE DEF target
  <2>. QED BY <1>2, <1>3, <1>4, TreeType
<1>. QED BY <1>5

\* A new commit extends the commits, and changes none of them.
Extended(p, x) ==
  /\ made' \in Ids /\ made' = made + 1 /\ Made \subseteq Made'
  /\ parent' \in [Ids -> 0..MaxCommits] /\ past' \in [Ids -> SUBSET Ids] /\ tree' \in [Ids -> Trees]
  /\ \A c \in Made : past'[c] = past[c] /\ parent'[c] = parent[c] /\ tree'[c] = tree[c]
  /\ past'[made'] = past[p] \cup {made'} /\ parent'[made'] = p /\ tree'[made'] = x

LEMMA CommitExtends ==
  ASSUME TypeOK, NEW p \in Made, NEW x \in Trees, NewCommit(p, x)
  PROVE  Extended(p, x)
<1>1. made \in Nat /\ MaxCommits \in Nat /\ made' = made + 1 /\ made' \in Ids
  BY CommitsAssumption DEF TypeOK, Ids, NewCommit
<1>2. Made \subseteq Made' /\ Made \subseteq Ids /\ made' \notin Made /\ p \in Ids /\ p \in 0..MaxCommits
  <2>1. p \in 1..made /\ made' <= MaxCommits
    BY <1>1 DEF Made, Ids
  <2>. QED BY ONLY <1>1, <2>1 DEF Made, Ids
<1>3. past[p] \cup {made'} \in SUBSET Ids
  BY <1>1, <1>2 DEF TypeOK
<1>. QED BY <1>1, <1>2, <1>3 DEF Extended, NewCommit, TypeOK

LEMMA GraphExtends ==
  ASSUME TypeOK, GraphInv, NEW p \in Made, NEW x \in Trees, Extended(p, x)
  PROVE  GraphInv'
<1>1. made \in Nat /\ made' = made + 1 /\ p \in 1..made
  BY CommitsAssumption DEF TypeOK, Ids, Extended, Made
<1>a. Made' = Made \cup {made'}
  BY ONLY <1>1 DEF Made
<1> SUFFICES ASSUME NEW c \in Made'
             PROVE  /\ 1 \in past'[c] /\ c \in past'[c] /\ past'[c] \subseteq 1..c
                    /\ c # 1 => /\ parent'[c] \in 1..(c - 1)
                                /\ past'[c] = past'[parent'[c]] \cup {c}
  BY DEF GraphInv
<1>2. CASE c \in Made
  <2>1. past'[c] = past[c] /\ parent'[c] = parent[c]
    BY <1>2 DEF Extended
  <2>2. c # 1 => parent[c] \in Made
    BY <1>1, <1>2 DEF GraphInv, Made
  <2>3. c # 1 => past'[parent[c]] = past[parent[c]]
    BY <2>2 DEF Extended
  <2>. QED BY <1>2, <2>1, <2>3 DEF GraphInv
<1>3. CASE c = made'
  <2>1. past'[c] = past[p] \cup {c} /\ parent'[c] = p /\ past'[p] = past[p]
    BY <1>3 DEF Extended
  <2>2. 1 \in past[p] /\ past[p] \subseteq 1..p
    BY DEF GraphInv
  <2>. QED BY <1>1, <1>3, <2>1, <2>2
<1>. QED BY <1>1, <1>a, <1>2, <1>3

\* Trees are arbitrary values for the steps that only move them.
LEMMA InitType == Init => TypeOK /\ GraphInv
<1> SUFFICES ASSUME Init PROVE TypeOK /\ GraphInv
  OBVIOUS
<1>1. [t \in Targets |-> 0] \in Contents
  BY DEF Contents
<1>2. Empty \in Trees
  BY <1>1, TreeType DEF Empty
<1>3. 1 \in Ids /\ Made = {1}
  BY CommitsAssumption DEF Ids, Made, Init
<1>4. plan \in [head : Made, index : Trees, files : Trees]
  BY <1>2, <1>3 DEF Init, Plan
<1>5. will \in [DOMAIN will -> Nat] /\ DOMAIN will = {}
  BY DEF Init
<1>6. parent \in [Ids -> 0..MaxCommits] /\ past \in [Ids -> SUBSET Ids] /\ tree \in [Ids -> Trees]
  BY <1>2, CommitsAssumption DEF Init
<1>7. TypeOK
  BY <1>2, <1>3, <1>4, <1>5, <1>6 DEF Init, TypeOK, Pcs, Modes
<1>8. GraphInv
  BY <1>3 DEF Init, GraphInv
<1>. QED BY <1>7, <1>8

LEMMA StepType == TypeOK /\ GraphInv /\ [Next]_vars => TypeOK' /\ GraphInv'
<1> SUFFICES ASSUME TypeOK, GraphInv, [Next]_vars
             PROVE  TypeOK' /\ GraphInv'
  OBVIOUS
<1> USE DEF Goto, End
<1>a. ASSUME UNCHANGED graph PROVE GraphInv'
  BY <1>a DEF GraphInv, Made, graph
<1>b. made \in Nat /\ Made \subseteq Ids /\ MaxCommits \in Nat
  BY CommitsAssumption DEF TypeOK, Ids, Made
<1>c. \A c \in Made : tree[c] \in Trees
  BY <1>b DEF TypeOK
<1>d. /\ files.work \in SUBSET Nat /\ files.target \in Contents
      /\ files.flaws \in SUBSET {"conflict", "candidate"}
      /\ index.work \in SUBSET Nat /\ index.target \in Contents
      /\ index.flaws \in SUBSET {"conflict", "candidate"}
  BY TreeFields DEF TypeOK
<1>e. Dirty \in BOOLEAN
  BY DEF Dirty
<1>1. CASE CheckGuard
  BY <1>a, <1>b, <1>1 DEF CheckGuard, TypeOK, Made, Pcs, Modes, graph, refs, local, plans, command, history, bounds
<1>2. CASE Fetch
  BY <1>a, <1>b, <1>e, <1>2 DEF Fetch, FetchBranch, TypeOK, Made, Pcs, Modes, graph, refs, local, plans, command, history, bounds
<1>3. CASE PullRefused
  BY <1>a, <1>b, <1>3 DEF PullRefused, TypeOK, Made, Pcs, Modes, graph, refs, local, plans, command, history, bounds
<1>4. CASE Recheck
  BY <1>a, <1>b, <1>e, <1>4 DEF Recheck, TypeOK, Made, Pcs, Modes, graph, refs, local, plans, command, history, bounds
<1>5. CASE Decide
  BY <1>a, <1>b, <1>5 DEF Decide, TypeOK, Made, Pcs, Modes, graph, refs, local, plans, command, history, bounds
<1>6. CASE PlanRefused
  BY <1>a, <1>b, <1>6 DEF PlanRefused, TypeOK, Made, Pcs, Modes, graph, refs, local, plans, command, history, bounds
<1>7. CASE Verify
  BY <1>a, <1>b, <1>7 DEF Verify, TypeOK, Made, Pcs, Modes, graph, refs, local, plans, command, history, bounds
<1>8. CASE BaselineHolds
  BY <1>a, <1>b, <1>8 DEF BaselineHolds, TypeOK, Made, Pcs, Modes, graph, refs, local, plans, command, history, bounds
<1>9. CASE Add
  BY <1>a, <1>b, <1>9 DEF Add, TypeOK, Made, Pcs, Modes, graph, refs, local, plans, command, history, bounds
<1>10. CASE Stage
  BY <1>a, <1>b, <1>10 DEF Stage, TypeOK, Made, Pcs, Modes, graph, refs, local, plans, command, history, bounds
<1>11. CASE CommitRefused
  BY <1>a, <1>b, <1>11 DEF CommitRefused, TypeOK, Made, Pcs, Modes, graph, refs, local, plans, command, history, bounds
<1>12. CASE Check
  BY <1>a, <1>b, <1>12 DEF Check, TypeOK, Made, Pcs, Modes, graph, refs, local, plans, command, history, bounds
<1>13. CASE Undo
  BY <1>a, <1>b, <1>13 DEF Undo, TypeOK, Made, Pcs, Modes, graph, refs, local, plans, command, history, bounds
<1>14. CASE Compare
  BY <1>a, <1>b, <1>14 DEF Compare, TypeOK, Made, Pcs, Modes, graph, refs, local, plans, command, history, bounds
<1>15. CASE Identify
  BY <1>a, <1>b, <1>15 DEF Identify, TypeOK, Made, Pcs, Modes, graph, refs, local, plans, command, history, bounds
<1>16. CASE Push
  BY <1>a, <1>b, <1>16 DEF Push, TypeOK, Made, Pcs, Modes, graph, refs, local, plans, command, history, bounds
<1>17. CASE Pushed
  BY <1>a, <1>b, <1>17 DEF Pushed, TypeOK, Made, Pcs, Modes, graph, refs, local, plans, command, history, bounds
<1>18. CASE Finish
  BY <1>a, <1>b, <1>e, <1>18 DEF Finish, TypeOK, Made, Pcs, Modes, graph, refs, local, plans, command, history, bounds
<1>19. CASE Receipt
  BY <1>a, <1>b, <1>19 DEF Receipt, TypeOK, Made, Pcs, Modes, graph, refs, local, plans, command, history, bounds
<1>20. CASE StepFails
  BY <1>a, <1>b, <1>20 DEF StepFails, TypeOK, Made, Pcs, Modes, graph, refs, local, plans, command, history, bounds
<1>21. CASE Crash
  BY <1>a, <1>b, <1>21 DEF Crash, TypeOK, Made, Pcs, Modes, graph, refs, local, plans, command, history, bounds
<1>22. CASE Start
  BY <1>a, <1>b, <1>c, <1>d, <1>22, TreeFields DEF Start, TypeOK, Made, Pcs, Modes, graph, refs, local, plans, command, history, bounds
<1>23. CASE Stash
  <2>1. <<head, files>> \in Ids \X Trees /\ tree[head] \in Trees
    BY <1>b, <1>c DEF TypeOK
  <2>. QED BY <1>a, <1>b, <1>23, <2>1 DEF Stash, TypeOK, Made, Pcs, Modes, graph, refs, local, plans, command, history, bounds
<1>24. CASE Pull
  <2>1. Merge(files, tree[head], tree[origin]) \in Trees /\ Merge(index, tree[head], tree[origin]) \in Trees
    BY <1>c, MergeType DEF TypeOK
  <2>. QED BY <1>a, <1>b, <1>24, <2>1 DEF Pull, TypeOK, Made, Pcs, Modes, graph, refs, local, plans, command, history, bounds
<1>25. CASE Pop
  <2>1. PICK s \in saved : /\ files' = Merge(s[2], tree[s[1]], files) /\ stash' = stash \ {s}
    BY <1>25 DEF Pop
  <2>2. s[2] \in Trees /\ tree[s[1]] \in Trees
    BY <2>1 DEF TypeOK
  <2>3. files' \in Trees
    BY <2>1, <2>2, MergeType DEF TypeOK
  <2>. QED BY <1>a, <1>b, <1>25, <2>1, <2>3 DEF Pop, TypeOK, Made, Pcs, Modes, graph, refs, local, plans, command, history, bounds
<1>26. CASE PopConflicts
  <2>1. PICK s \in saved : files' = Tree(files.work \cup s[2].work, files.target, files.flaws \cup {"conflict"})
    BY <1>26 DEF PopConflicts
  <2>2. s[2].work \in SUBSET Nat
    BY <2>1, TreeFields DEF TypeOK
  <2>3. files' \in Trees
    BY <1>d, <2>1, <2>2, TreeType
  <2>. QED BY <1>a, <1>b, <1>26, <2>3 DEF PopConflicts, TypeOK, Made, Pcs, Modes, graph, refs, local, plans, command, history, bounds
<1>27. CASE MakePlan
  <2>1. PICK W \in SUBSET Targets : /\ todo' = W /\ will' = [t \in W |-> stamp + 1]
                                  /\ stamp' = IF W = {} THEN stamp ELSE stamp + 1
    BY <1>27 DEF MakePlan
  <2>2. plan' \in [head : Made, index : Trees, files : Trees]
    BY <1>27 DEF MakePlan, Plan, TypeOK
  <2>3. DOMAIN will' = W /\ will' \in [W -> Nat] /\ stamp' \in Nat
    BY <2>1 DEF TypeOK
  <2>. QED BY <1>a, <1>b, <1>27, <2>1, <2>2, <2>3 DEF MakePlan, TypeOK, Made, Pcs, Modes, graph, refs, local, plans, command, history, bounds
<1>28. CASE \E t \in Targets : ApplyWrite(t)
  <2>1. PICK t \in Targets : ApplyWrite(t)
    BY <1>28
  <2>2. will[t] \in Nat
    BY <2>1 DEF ApplyWrite, TypeOK
  <2>3. files' \in Trees
    BY <2>1, <2>2, SetType DEF ApplyWrite
  <2>. QED BY <1>a, <1>b, <2>1, <2>3 DEF ApplyWrite, TypeOK, Made, Pcs, Modes, graph, refs, local, plans, command, history, bounds
<1>29. CASE \E t \in Targets : Restore(t)
  <2>1. PICK t \in Targets : Restore(t)
    BY <1>29
  <2>2. plan.files.target[t] \in Nat
    BY <2>1, TreeFields DEF TypeOK, Contents
  <2>3. files' \in Trees
    BY <2>1, <2>2, SetType DEF Restore
  <2>. QED BY <1>a, <1>b, <2>1, <2>3 DEF Restore, TypeOK, Made, Pcs, Modes, graph, refs, local, plans, command, history, bounds
<1>30. CASE RestoreIndex
  BY <1>a, <1>b, <1>30 DEF RestoreIndex, TypeOK, Made, Pcs, Modes, graph, refs, local, plans, command, history, bounds
<1>31. CASE Commit
  <2>1. index \in Trees
    BY DEF TypeOK
  <2>2. Extended(head, index)
    BY <1>31, <2>1, CommitExtends DEF Commit, MakeCommit, TypeOK
  <2>3. GraphInv'
    BY <2>1, <2>2, GraphExtends DEF TypeOK
  <2>4. head' \in Made' /\ rewritten' \subseteq Made'
    BY <1>b, <1>31, <2>2 DEF Commit, MakeCommit, Extended, TypeOK, Made
  <2>5. plan \in [head : Made', index : Trees, files : Trees]
    BY <2>2 DEF Extended, TypeOK
  <2>. QED BY <1>b, <1>31, <2>1, <2>2, <2>3, <2>4, <2>5 DEF Commit, MakeCommit, Extended, TypeOK, Made, Pcs, Modes, graph, refs, local, plans, command, history, bounds
<1>32. CASE UserCommit
  <2>1. index \in Trees
    BY DEF TypeOK
  <2>2. Extended(head, index)
    BY <1>32, <2>1, CommitExtends DEF UserCommit, TypeOK
  <2>3. GraphInv'
    BY <2>1, <2>2, GraphExtends DEF TypeOK
  <2>4. head' \in Made' /\ rewritten' \subseteq Made'
    BY <1>b, <1>32, <2>2 DEF UserCommit, Extended, TypeOK, Made, history
  <2>5. plan \in [head : Made', index : Trees, files : Trees]
    BY <2>2 DEF Extended, TypeOK
  <2>. QED BY <1>b, <1>32, <2>1, <2>2, <2>3, <2>4, <2>5 DEF UserCommit, Extended, TypeOK, Made, Pcs, Modes, graph, refs, local, plans, command, history, bounds
<1>33. CASE HookRewrites
  <2>0. stamp + 1 \in Nat
    BY DEF TypeOK
  <2>1. index' \in Trees /\ files' \in Trees /\ stamp' \in Nat /\ faults' \in Nat
    BY <1>33, <1>d, <2>0, TreeType DEF HookRewrites, TypeOK
  <2>2. Extended(head, index')
    BY <1>33, <2>1, CommitExtends DEF HookRewrites, MakeCommit, TypeOK
  <2>3. GraphInv'
    BY <2>1, <2>2, GraphExtends DEF TypeOK
  <2>4. head' \in Made' /\ rewritten' \subseteq Made'
    BY <1>b, <1>33, <2>2 DEF HookRewrites, MakeCommit, Extended, TypeOK, Made
  <2>5. plan \in [head : Made', index : Trees, files : Trees]
    BY <2>2 DEF Extended, TypeOK
  <2>. QED BY <1>b, <1>33, <2>1, <2>2, <2>3, <2>4, <2>5 DEF HookRewrites, MakeCommit, Extended, TypeOK, Made, Pcs, Modes, graph, refs, local, plans, command, history, bounds
<1>34. CASE FailsLate
  <2>1. CASE pc = "commit"
    <3>1. index \in Trees /\ NewCommit(head, index) /\ head' = made' /\ faults' \in Nat /\ pc' = "undo"
      BY <1>34, <2>1 DEF FailsLate, TypeOK
    <3>2. Extended(head, index)
      BY <3>1, CommitExtends DEF TypeOK
    <3>3. GraphInv'
      BY <3>1, <3>2, GraphExtends DEF TypeOK
    <3>4. head' \in Made' /\ rewritten' \subseteq Made' /\ plan \in [head : Made', index : Trees, files : Trees]
      BY <1>b, <1>34, <2>1, <3>1, <3>2 DEF FailsLate, Extended, TypeOK, Made, Pcs, Modes, graph, refs, local, plans, command, history, bounds
    <3>. QED BY <1>b, <1>34, <2>1, <3>1, <3>2, <3>3, <3>4 DEF FailsLate, Extended, TypeOK, Made, Pcs, Modes, graph, refs, local, plans, command, history, bounds
  <2>2. CASE pc # "commit"
    BY <1>a, <1>b, <1>34, <2>2 DEF FailsLate, TypeOK, Made, Pcs, Modes, graph, refs, local, plans, command, history, bounds
  <2>. QED BY <2>1, <2>2
<1>35. CASE OtherPush
  <2>1. PICK W \in SUBSET Targets :
         NewCommit(origin, Tree(tree[origin].work \cup {stamp'},
                                [t \in Targets |-> IF t \in W THEN stamp' ELSE tree[origin].target[t]],
                                tree[origin].flaws))
    BY <1>35 DEF OtherPush
  <2> DEFINE target == [t \in Targets |-> IF t \in W THEN stamp' ELSE tree[origin].target[t]]
             x == Tree(tree[origin].work \cup {stamp'}, target, tree[origin].flaws)
  <2>2. tree[origin] \in Trees /\ stamp' \in Nat
    BY <1>b, <1>c, <1>35 DEF OtherPush, TypeOK
  <2>3. /\ tree[origin].work \in SUBSET Nat /\ tree[origin].target \in Contents
        /\ tree[origin].flaws \in SUBSET {"conflict", "candidate"}
    BY <2>2, TreeFields
  <2>4. target \in Contents
    BY <2>2, <2>3 DEF Contents
  <2>5. x \in Trees
    <3>1. tree[origin].work \cup {stamp'} \in SUBSET Nat
      BY <2>2, <2>3
    <3> HIDE DEF target
    <3>. QED BY <2>3, <2>4, <3>1, TreeType
  <2>6. Extended(origin, x)
    <3>1. NewCommit(origin, x)
      BY <2>1
    <3> HIDE DEF x
    <3>. QED BY <2>5, <3>1, CommitExtends DEF TypeOK
  <2> HIDE DEF x
  <2>7. GraphInv'
    BY <2>5, <2>6, GraphExtends DEF TypeOK
  <2>8. origin' \in Made' /\ rewritten' \subseteq Made' /\ plan \in [head : Made', index : Trees, files : Trees]
    BY <1>b, <1>35, <2>6 DEF OtherPush, Extended, TypeOK, Made, Pcs, Modes, graph, refs, local, plans, command, history, bounds
  <2>. QED BY <1>b, <1>35, <2>2, <2>6, <2>7, <2>8 DEF OtherPush, Extended, TypeOK, Made, Pcs, Modes, graph, refs, local, plans, command, history, bounds
<1>36. CASE Edit
  <2>1. stamp' \in Nat
    BY <1>36 DEF Edit, TypeOK
  <2>2. files' \in Trees
    <3>1. CASE files' = Tree(files.work \cup {stamp'}, files.target, files.flaws)
      BY <1>d, <2>1, <3>1, TreeType
    <3>2. CASE \E t \in Targets : SetTarget(t, stamp')
      BY <2>1, <3>2, SetType
    <3>. QED BY <1>36, <3>1, <3>2 DEF Edit
  <2>. QED BY <1>a, <1>b, <1>36, <2>1, <2>2 DEF Edit, TypeOK, Made, Pcs, Modes, graph, refs, local, plans, command, history, bounds
<1>37. CASE UserAdd
  <2>1. files' \in Trees
    BY <1>d, <1>37, TreeType DEF UserAdd
  <2>2. index' = files' /\ unmerged' \in BOOLEAN /\ UNCHANGED <<graph, refs, stash, journal, guard, command, history, bounds>>
    BY <1>37 DEF UserAdd
  <2>. QED BY <1>a, <1>b, <2>1, <2>2 DEF TypeOK, Made, Pcs, Modes, graph, refs, local, plans, command, history, bounds
<1>38. CASE UserReset
  <2>1. head # 1 /\ head' = parent[head]
    BY <1>38 DEF UserReset, GraphInv, TypeOK
  <2>2. head' \in Made
    BY <1>b, <2>1 DEF GraphInv, TypeOK, Made
  <2>. QED BY <1>a, <1>b, <1>38, <2>2 DEF UserReset, TypeOK, Made, Pcs, Modes, graph, refs, local, plans, command, history, bounds
<1>39. CASE DevelopStarts
  <2>1. files' \in Trees
    BY <1>d, <1>39, TreeType DEF DevelopStarts
  <2>. QED BY <1>a, <1>b, <1>39, <2>1 DEF DevelopStarts, TypeOK, Made, Pcs, Modes, graph, refs, local, plans, command, history, bounds
<1>40. CASE DevelopEnds
  <2>1. files' \in Trees
    BY <1>d, <1>40, TreeType DEF DevelopEnds
  <2>2. journal' \in BOOLEAN /\ UNCHANGED <<graph, refs, index, unmerged, stash, guard, command, history, bounds>>
    BY <1>40 DEF DevelopEnds
  <2>. QED BY <1>a, <1>b, <2>1, <2>2 DEF TypeOK, Made, Pcs, Modes, graph, refs, local, plans, command, history, bounds
<1>41. CASE UNCHANGED vars
  BY <1>a, <1>b, <1>41 DEF vars, TypeOK, Made, Pcs, Modes, graph, refs, local, plans, command, history, bounds
<1>. QED
  BY <1>1, <1>2, <1>3, <1>4, <1>5, <1>6, <1>7, <1>8, <1>9, <1>10, <1>11, <1>12, <1>13, <1>14, <1>15, <1>16, <1>17, <1>18, <1>19, <1>20, <1>21, <1>22, <1>23, <1>24, <1>25, <1>26, <1>27, <1>28, <1>29, <1>30, <1>31, <1>32, <1>33, <1>34, <1>35, <1>36, <1>37, <1>38, <1>39, <1>40, <1>41
  DEF Next, Integrate, Publish, Rollback, Faults, Users

\* The state of git-sync and of its repository is well typed.
THEOREM TypeCorrect == Spec => []TypeOK
<1>. QED BY InitType, StepType, PTL DEF Spec

-----------------------------------------------------------------------------
(* Only verified commits are pushed. *)

Early == {"idle", "guard", "check"}

\* A guard that HEAD satisfies says that no commit below HEAD was rewritten: such a
\* commit is younger than the one the guard names, so HEAD would be that commit, or
\* sit on top of it, and neither is what the guard was written for.
LEMMA AcceptedClear ==
  ASSUME TypeOK, GraphInv, Guarded, \A g \in guard : Accepted(g)
  PROVE  past[head] \cap rewritten = {}
<1> SUFFICES ASSUME past[head] \cap rewritten # {} PROVE FALSE
  OBVIOUS
<1>1. PICK g \in guard : Refuses(g)
  BY DEF Guarded
<1>2. PICK c \in past[head] \cap rewritten : g[1] < c /\ ~(parent[c] = g[1] /\ tree[c] = g[2])
  BY <1>1 DEF Refuses
<1>3. head \in Nat /\ c \in Nat /\ g[1] \in Nat /\ c \in 1..head /\ head \in Made
  <2>1. head \in Made /\ made \in Nat
    BY CommitsAssumption DEF TypeOK, Ids
  <2>2. past[head] \subseteq 1..head /\ head \in Nat
    BY <2>1 DEF GraphInv, Made
  <2>3. g[1] \in Nat
    BY CommitsAssumption DEF TypeOK, Ids
  <2>. QED BY <1>2, <2>1, <2>2, <2>3
<1>4. head # g[1]
  BY <1>2, <1>3
<1>5. parent[head] = g[1] /\ tree[head] = g[2]
  BY <1>4 DEF Accepted
<1>6. c # head /\ head # 1
  BY <1>2, <1>3, <1>5
<1>7. parent[head] \in Made /\ c \in past[parent[head]]
  <2>1. parent[head] \in 1..(head - 1) /\ past[head] = past[parent[head]] \cup {head}
    BY <1>3, <1>6 DEF GraphInv
  <2>2. made \in Nat /\ head \in 1..made
    BY <1>3, CommitsAssumption DEF TypeOK, Ids, Made
  <2>. QED BY <1>2, <1>6, <2>1, <2>2 DEF Made
<1>8. c \in 1..parent[head]
  BY <1>7 DEF GraphInv
<1>. QED BY <1>2, <1>3, <1>5, <1>8

\* A step that changes no commit, HEAD, remote or guard, and neither passes a check
\* nor reaches the commit, preserves the invariant.
LEMMA QuietSafe ==
  ASSUME SafeInv, UNCHANGED <<graph, head, origin, guard, rewritten>>,
         pc' \notin Early => pc \notin Early,
         pc' = "commit" => pc = "commit" /\ UNCHANGED <<plan, expect>>
  PROVE  SafeInv'
<1>1. UNCHANGED <<parent, past, tree, head, origin, guard, rewritten>>
  BY DEF graph
<1>2. OnlyVerifiedPushed' /\ Guarded'
  BY <1>1 DEF SafeInv, OnlyVerifiedPushed, Guarded, Refuses
<1>3. Position' /\ Ready'
  BY <1>1 DEF SafeInv, Position, Ready, Early
<1>. QED BY <1>2, <1>3 DEF SafeInv

\* So does a step after which nothing below HEAD was rewritten.
LEMMA ClearSafe ==
  ASSUME past'[head'] \cap rewritten' = {}, past'[origin'] \cap rewritten' = {},
         pc' = "commit" => <<plan'.head, expect'>> \in guard'
  PROVE  SafeInv'
BY DEF SafeInv, OnlyVerifiedPushed, Guarded, Position, Ready

\* A new commit p + 1 on top of HEAD or of the remote branch.
LEMMA NewCommitSafe ==
  ASSUME TypeOK, GraphInv, NEW p \in Made, NEW x \in Trees, Extended(p, x)
  PROVE  /\ \A c \in Made : past'[c] = past[c] /\ made' \notin past[c]
         /\ made' \notin rewritten /\ made' \in Nat /\ past'[made'] = past[p] \cup {made'}
         /\ \A c \in Made : c < made'
<1>1. made \in Nat /\ made' = made + 1 /\ made' \in Nat
  BY CommitsAssumption DEF TypeOK, Ids, Extended
<1>2. \A c \in Made : past[c] \subseteq 1..c /\ c \in Nat /\ c < made'
  BY <1>1 DEF GraphInv, Made
<1>3. made' \notin rewritten
  BY <1>1, <1>2 DEF TypeOK
<1>4. \A c \in Made : made' \notin past[c]
  BY <1>1, <1>2
<1>. QED BY <1>1, <1>2, <1>3, <1>4 DEF Extended

\* git commit by git-sync: either it is what was verified, or its guard refuses it.
LEMMA MakeCommitSafe ==
  ASSUME TypeOK, GraphInv, SafeInv, NEW x \in Trees, MakeCommit(x), pc = "commit",
         UNCHANGED <<origin, guard, plan, expect>>
  PROVE  SafeInv'
<1>1. Extended(head, x)
  BY CommitExtends DEF MakeCommit, TypeOK
<1>2. head \in Made /\ origin \in Made /\ plan.head \in Made
  BY DEF TypeOK
<1>3. /\ \A c \in Made : past'[c] = past[c] /\ made' \notin past[c]
      /\ made' \notin rewritten /\ past'[made'] = past[head] \cup {made'} /\ plan.head < made'
  BY <1>1, <1>2, NewCommitSafe
<1>4. past[head] \cap rewritten = {} /\ past[origin] \cap rewritten = {}
      /\ <<plan.head, expect>> \in guard
  BY DEF SafeInv, Position, OnlyVerifiedPushed, Ready
<1>5. head' = made' /\ pc' = "check" /\ rewritten' \subseteq rewritten \cup {made'}
  BY DEF MakeCommit, Goto
<1>6. OnlyVerifiedPushed'
  BY <1>2, <1>3, <1>4, <1>5 DEF OnlyVerifiedPushed
<1>7. Guarded'
  <2> SUFFICES ASSUME past'[head'] \cap rewritten' # {}
               PROVE  \E g \in guard' : Refuses(g)'
    BY DEF Guarded
  <2>1. past'[head'] \cap rewritten' = {made'} /\ made' \in rewritten'
    BY <1>2, <1>3, <1>4, <1>5
  <2>2. ~(head = plan.head /\ x = expect)
    BY <1>3, <2>1 DEF MakeCommit
  <2>3. parent'[made'] = head /\ tree'[made'] = x
    BY <1>1 DEF Extended
  <2>4. PICK g \in guard' : g[1] = plan.head /\ g[2] = expect
    BY <1>4
  <2>5. Refuses(g)'
    <3> SUFFICES ASSUME NEW c \in past'[head'] \cap rewritten'
                 PROVE  g[1] < c /\ ~(parent'[c] = g[1] /\ tree'[c] = g[2])
      BY DEF Refuses
    <3>1. c = made'
      BY <2>1
    <3>. QED BY <1>3, <2>2, <2>3, <2>4, <3>1
  <2>. QED BY <2>4, <2>5
<1>8. Position' /\ Ready'
  BY <1>5 DEF Position, Ready
<1>. QED BY <1>6, <1>7, <1>8 DEF SafeInv

\* A commit of someone else, or one that is as verified, on top of HEAD.
LEMMA OtherCommitSafe ==
  ASSUME TypeOK, GraphInv, SafeInv, NEW x \in Trees, NewCommit(head, x), head' = made',
         UNCHANGED <<origin, guard, rewritten, plan, expect>>,
         pc' = pc \/ (pc = "commit" /\ pc' = "undo")
  PROVE  SafeInv'
<1>1. Extended(head, x)
  BY CommitExtends DEF TypeOK
<1>2. head \in Made /\ origin \in Made /\ rewritten \subseteq Made
  BY DEF TypeOK
<1>3. /\ \A c \in Made : past'[c] = past[c]
      /\ made' \notin rewritten /\ past'[made'] = past[head] \cup {made'}
  BY <1>1, <1>2, NewCommitSafe
<1>4. past'[head'] \cap rewritten' = past[head] \cap rewritten
  BY <1>2, <1>3
<1>5. \A c \in rewritten : parent'[c] = parent[c] /\ tree'[c] = tree[c]
  BY <1>1, <1>2 DEF Extended
<1>6. OnlyVerifiedPushed' /\ Position' /\ Ready'
  BY <1>2, <1>3, <1>4 DEF SafeInv, OnlyVerifiedPushed, Position, Ready
<1>7. Guarded'
  BY <1>4, <1>5 DEF SafeInv, Guarded, Refuses
<1>. QED BY <1>6, <1>7 DEF SafeInv

\* Commits of other computers do not touch the ones of git-sync.
LEMMA RemoteCommitSafe ==
  ASSUME TypeOK, GraphInv, SafeInv, NEW x \in Trees, Extended(origin, x), origin' = made',
         UNCHANGED <<head, guard, rewritten, plan, expect, pc>>
  PROVE  SafeInv'
<1>1. head \in Made /\ origin \in Made /\ rewritten \subseteq Made
  BY DEF TypeOK
<1>2. /\ \A c \in Made : past'[c] = past[c]
      /\ made' \notin rewritten /\ past'[made'] = past[origin] \cup {made'}
  BY <1>1, NewCommitSafe
<1>3. \A c \in rewritten : parent'[c] = parent[c] /\ tree'[c] = tree[c]
  BY <1>1 DEF Extended
<1>4. OnlyVerifiedPushed'
  BY <1>1, <1>2 DEF SafeInv, OnlyVerifiedPushed
<1>5. Guarded' /\ Position' /\ Ready'
  BY <1>1, <1>2, <1>3 DEF SafeInv, Guarded, Refuses, Position, Ready
<1>. QED BY <1>4, <1>5 DEF SafeInv

LEMMA StepSafe == TypeOK /\ GraphInv /\ SafeInv /\ [Next]_vars => SafeInv'
<1> SUFFICES ASSUME TypeOK, GraphInv, SafeInv, [Next]_vars
             PROVE  SafeInv'
  OBVIOUS
<1> USE DEF Goto, End
<1>a. head \in Made /\ origin \in Made
  BY DEF TypeOK
<1>b. Guarded /\ past[origin] \cap rewritten = {}
  BY DEF SafeInv, OnlyVerifiedPushed
<1>c. pc \notin Early => past[head] \cap rewritten = {}
  BY DEF SafeInv, Position, Early
<1>1. CASE Start
  BY <1>1, QuietSafe DEF Start, Early, graph, refs, local, plans, command, history, bounds
<1>2. CASE Fetch
  BY <1>2, QuietSafe DEF Fetch, Early, graph, refs, local, plans, command, history, bounds
<1>3. CASE Stash
  BY <1>3, QuietSafe DEF Stash, Early, graph, refs, local, plans, command, history, bounds
<1>4. CASE PullRefused
  BY <1>4, QuietSafe DEF PullRefused, Early, graph, refs, local, plans, command, history, bounds
<1>5. CASE Pop
  BY <1>5, QuietSafe DEF Pop, Early, graph, refs, local, plans, command, history, bounds
<1>6. CASE PopConflicts
  BY <1>6, QuietSafe DEF PopConflicts, Early, graph, refs, local, plans, command, history, bounds
<1>7. CASE Recheck
  BY <1>7, QuietSafe DEF Recheck, Early, graph, refs, local, plans, command, history, bounds
<1>8. CASE Decide
  BY <1>8, QuietSafe DEF Decide, Early, graph, refs, local, plans, command, history, bounds
<1>9. CASE MakePlan
  BY <1>9, QuietSafe DEF MakePlan, Early, graph, refs, local, plans, command, history, bounds
<1>10. CASE PlanRefused
  BY <1>10, QuietSafe DEF PlanRefused, Early, graph, refs, local, plans, command, history, bounds
<1>11. CASE Verify
  BY <1>11, QuietSafe DEF Verify, Early, graph, refs, local, plans, command, history, bounds
<1>12. CASE \E t \in Targets : ApplyWrite(t)
  BY <1>12, QuietSafe DEF ApplyWrite, Early, graph, refs, local, plans, command, history, bounds
<1>13. CASE BaselineHolds
  BY <1>13, QuietSafe DEF BaselineHolds, Early, graph, refs, local, plans, command, history, bounds
<1>14. CASE Add
  BY <1>14, QuietSafe DEF Add, Early, graph, refs, local, plans, command, history, bounds
<1>15. CASE CommitRefused
  BY <1>15, QuietSafe DEF CommitRefused, Early, graph, refs, local, plans, command, history, bounds
<1>16. CASE Compare
  BY <1>16, QuietSafe DEF Compare, Early, graph, refs, local, plans, command, history, bounds
<1>17. CASE Identify
  BY <1>17, QuietSafe DEF Identify, Early, graph, refs, local, plans, command, history, bounds
<1>18. CASE Pushed
  BY <1>18, QuietSafe DEF Pushed, Early, graph, refs, local, plans, command, history, bounds
<1>19. CASE Finish
  BY <1>19, QuietSafe DEF Finish, Early, graph, refs, local, plans, command, history, bounds
<1>20. CASE Receipt
  BY <1>20, QuietSafe DEF Receipt, Early, graph, refs, local, plans, command, history, bounds
<1>21. CASE Undo
  BY <1>21, QuietSafe DEF Undo, Early, graph, refs, local, plans, command, history, bounds
<1>22. CASE \E t \in Targets : Restore(t)
  BY <1>22, QuietSafe DEF Restore, Early, graph, refs, local, plans, command, history, bounds
<1>23. CASE RestoreIndex
  BY <1>23, QuietSafe DEF RestoreIndex, Early, graph, refs, local, plans, command, history, bounds
<1>24. CASE StepFails
  BY <1>24, QuietSafe DEF StepFails, Early, graph, refs, local, plans, command, history, bounds
<1>25. CASE Crash
  BY <1>25, QuietSafe DEF Crash, Early, graph, refs, local, plans, command, history, bounds
<1>26. CASE Edit
  BY <1>26, QuietSafe DEF Edit, Early, graph, refs, local, plans, command, history, bounds
<1>27. CASE UserAdd
  BY <1>27, QuietSafe DEF UserAdd, Early, graph, refs, local, plans, command, history, bounds
<1>28. CASE DevelopStarts
  BY <1>28, QuietSafe DEF DevelopStarts, Early, graph, refs, local, plans, command, history, bounds
<1>29. CASE DevelopEnds
  BY <1>29, QuietSafe DEF DevelopEnds, Early, graph, refs, local, plans, command, history, bounds
<1>30. CASE UNCHANGED vars
  BY <1>30, QuietSafe DEF vars, Early, graph, refs, local, plans, command, history, bounds
<1>31. CASE CheckGuard
  <2>1. CASE \A g \in guard : Accepted(g)
    <3>1. past[head] \cap rewritten = {}
      BY <1>b, <2>1, AcceptedClear
    <3>. QED BY <1>b, <1>31, <2>1, <3>1, ClearSafe DEF CheckGuard, graph, refs, local, plans, command, history, bounds
  <2>2. CASE ~(\A g \in guard : Accepted(g))
    BY <1>31, <2>2, QuietSafe DEF CheckGuard, Early, graph, refs, local, plans, command, history, bounds
  <2>. QED BY <2>1, <2>2
<1>32. CASE Check
  <2>1. CASE parent[head] = plan.head /\ tree[head] = expect /\ \A g \in guard : Accepted(g)
    <3>1. past[head] \cap rewritten = {}
      BY <1>b, <2>1, AcceptedClear
    <3>. QED BY <1>b, <1>32, <2>1, <3>1, ClearSafe DEF Check, graph, refs, local, plans, command, history, bounds
  <2>2. CASE ~(parent[head] = plan.head /\ tree[head] = expect /\ \A g \in guard : Accepted(g))
    BY <1>32, <2>2, QuietSafe DEF Check, Early, graph, refs, local, plans, command, history, bounds
  <2>. QED BY <2>1, <2>2
<1>33. CASE Pull
  BY <1>b, <1>33, ClearSafe DEF Pull, graph, refs, local, plans, command, history, bounds
<1>34. CASE Stage
  <2>1. past[head] \cap rewritten = {}
    BY <1>c, <1>34 DEF Stage, Early
  <2>2. pc' = "commit" => <<plan'.head, expect'>> \in guard'
    BY <1>34 DEF Stage, graph, refs, local, plans, command, history, bounds
  <2>. QED BY <1>b, <1>34, <2>1, <2>2, ClearSafe DEF Stage, graph, refs, local, plans, command, history, bounds
<1>35. CASE Push
  <2>1. past[head] \cap rewritten = {}
    BY <1>c, <1>35 DEF Push, Early
  <2>. QED BY <1>b, <1>35, <2>1, ClearSafe DEF Push, graph, refs, local, plans, command, history, bounds
<1>36. CASE Commit
  <2>1. index \in Trees
    BY DEF TypeOK
  <2>. QED BY <1>36, <2>1, MakeCommitSafe DEF Commit, plans
<1>37. CASE HookRewrites
  <2>1. index' \in Trees
    BY StepType DEF TypeOK
  <2>2. MakeCommit(index') /\ pc = "commit" /\ UNCHANGED <<origin, guard, plan, expect>>
    BY <1>37 DEF HookRewrites, plans
  <2>. QED BY <2>1, <2>2, MakeCommitSafe
<1>38. CASE UserCommit
  <2>1. index \in Trees
    BY DEF TypeOK
  <2>. QED BY <1>38, <2>1, OtherCommitSafe DEF UserCommit, command, plans, history
<1>39. CASE FailsLate
  <2>1. CASE pc = "commit"
    <3>1. index \in Trees
      BY DEF TypeOK
    <3>. QED BY <1>39, <2>1, <3>1, OtherCommitSafe DEF FailsLate, plans, history
  <2>2. CASE pc = "push"
    BY <1>b, <1>c, <1>39, <2>2, ClearSafe DEF FailsLate, Early, graph, refs, local, plans, command, history, bounds
  <2>3. CASE pc = "add"
    BY <1>39, <2>3, QuietSafe DEF FailsLate, Early, graph, refs, local, plans, command, history, bounds
  <2>. QED BY <1>39, <2>1, <2>2, <2>3 DEF FailsLate
<1>40. CASE UserReset
  <2>1. head # 1 /\ head' = parent[head] /\ UNCHANGED <<graph, origin, guard, rewritten, plan, expect, pc>>
    BY <1>a, <1>40 DEF UserReset, GraphInv, command, plans
  <2>2. past[parent[head]] \subseteq past[head]
    BY <1>a, <2>1 DEF GraphInv
  <2>3. UNCHANGED <<parent, past, tree>>
    BY <2>1 DEF graph
  <2>4. past'[head'] \cap rewritten' \subseteq past[head] \cap rewritten
    BY <2>1, <2>2, <2>3
  <2>5. OnlyVerifiedPushed' /\ Position' /\ Ready'
    BY <2>1, <2>3, <2>4 DEF SafeInv, OnlyVerifiedPushed, Position, Ready
  <2>6. Guarded'
    BY <2>1, <2>3, <2>4 DEF SafeInv, Guarded, Refuses
  <2>. QED BY <2>5, <2>6 DEF SafeInv
<1>41. CASE OtherPush
  <2>1. PICK W \in SUBSET Targets :
         NewCommit(origin, Tree(tree[origin].work \cup {stamp'},
                                [t \in Targets |-> IF t \in W THEN stamp' ELSE tree[origin].target[t]],
                                tree[origin].flaws))
    BY <1>41 DEF OtherPush
  <2> DEFINE x == Tree(tree[origin].work \cup {stamp'},
                       [t \in Targets |-> IF t \in W THEN stamp' ELSE tree[origin].target[t]],
                       tree[origin].flaws)
  <2>2. x \in Trees
    BY <1>a, <1>41, PushedType DEF OtherPush
  <2>3. NewCommit(origin, x)
    BY <2>1
  <2> HIDE DEF x
  <2>4. Extended(origin, x)
    BY <1>a, <2>2, <2>3, CommitExtends
  <2>. QED BY <1>41, <2>2, <2>4, RemoteCommitSafe DEF OtherPush, command, plans, history
<1>. QED
  BY <1>1, <1>2, <1>3, <1>4, <1>5, <1>6, <1>7, <1>8, <1>9, <1>10, <1>11, <1>12, <1>13, <1>14, <1>15, <1>16, <1>17, <1>18, <1>19, <1>20, <1>21, <1>22, <1>23, <1>24, <1>25, <1>26, <1>27, <1>28, <1>29, <1>30, <1>31, <1>32, <1>33, <1>34, <1>35, <1>36, <1>37, <1>38, <1>39, <1>40, <1>41
  DEF Next, Integrate, Publish, Rollback, Faults, Users

\* A commit that a hook changed, or that was made from a HEAD or an index that moved,
\* is never pushed by any git-sync, for any number of commits and any interleaving
\* of crashes, failures, users and other computers.
THEOREM OnlyVerified == Spec => []OnlyVerifiedPushed
<1>1. Init => IInv
  <2>1. Init => SafeInv
    BY DEF Init, SafeInv, OnlyVerifiedPushed, Guarded, Position, Ready
  <2>. QED BY <2>1, InitType DEF IInv
<1>2. IInv /\ [Next]_vars => IInv'
  BY StepType, StepSafe DEF IInv
<1>3. IInv => OnlyVerifiedPushed
  BY DEF IInv, SafeInv
<1>. QED BY <1>1, <1>2, <1>3, PTL DEF Spec

-----------------------------------------------------------------------------
(* "synced" means published.  Edits travel from the worktree to the index, to *)
(* HEAD and to the remote; none of these ever holds an edit that the one      *)
(* before it lacks, up to the newest commit that HEAD and the remote share.   *)

\* The commits of HEAD from the newest one on that the remote has too.
Local == {c \in past[head] : \A d \in past[head] \cap past[origin] : d <= c}
Shared == Local \cap past[origin]
Within(C, w) == \A c \in C : tree[c].work \subseteq w

Closed == \A d \in Made : \A c \in past[d] : past[c] \subseteq past[d]
Fetched == past[tracking] \subseteq past[origin]
RemoteHolds == Within(Shared, tree[origin].work)
RefsInv == Closed /\ Fetched /\ RemoteHolds

\* Where the index is known to hold everything that HEAD may be reset to.
Staged == \/ pc = "decide" /\ ~dirty
          \/ pc \in {"stage", "commit", "check", "compare", "identity", "push"}
Planned == pc \in {"verify", "apply", "add", "stage", "commit", "undo", "restore"}
Chain == \A c, d \in Local : c <= d => tree[c].work \subseteq tree[d].work

FilesHold == index.work \subseteq files.work /\ Within(Local, files.work)
IndexHolds == Within(Shared, index.work) /\ (Staged => Within(Local, index.work))
StashHolds == pc = "stash" => Chain /\ Within(Local, index.work)
PlanHolds == Planned => plan.index.work \subseteq files.work /\ Within(Shared, plan.index.work)
WorkInv == FilesHold /\ IndexHolds /\ StashHolds /\ PlanHolds

\* While a git-sync runs, what it owes is in the worktree or in its stash.
OwedHere == pc # "idle" => \A e \in owed : e \in files.work \/ \E s \in saved : e \in s[2].work
SavedOnce == /\ pc \notin {"idle", "pull", "pop"} => saved = {}
             /\ \A s, r \in saved : s = r
ReceiptHolds == pc = "receipt" /\ ~dirty /\ head \in past[origin] => owed \subseteq tree[head].work
Running == pc # "idle" => result = "running"
OwedInv == OwedHere /\ SavedOnce /\ ReceiptHolds /\ Running /\ SyncedIsPublished

\* What the commits of HEAD are after a step: the same ones, ...
LEMMA SameLocal ==
  ASSUME UNCHANGED <<graph, head, origin>>
  PROVE  Local' = Local /\ Shared' = Shared /\ UNCHANGED <<past, tree, made>>
BY DEF Local, Shared, graph

\* ... one more on top of HEAD, ...
LEMMA CommitLocal ==
  ASSUME TypeOK, GraphInv, NEW x \in Trees, Extended(head, x), head' = made', UNCHANGED origin
  PROVE  /\ Local' = Local \cup {made'} /\ Shared' = Shared /\ made' \notin past'[origin']
         /\ tree'[made'] = x /\ (\A c \in Local : tree'[c] = tree[c] /\ c < made')
         /\ past'[origin] = past[origin] /\ tree'[origin] = tree[origin]
<1>1. head \in Made /\ origin \in Made
  BY DEF TypeOK
<1>2. /\ \A c \in Made : past'[c] = past[c] /\ made' \notin past[c]
      /\ made' \in Nat /\ past'[made'] = past[head] \cup {made'}
      /\ \A c \in Made : c < made'
  BY <1>1, NewCommitSafe
<1>3. past'[head'] = past[head] \cup {made'} /\ past'[origin'] = past[origin]
      /\ made' \notin past[head] /\ made' \notin past[origin]
  BY <1>1, <1>2
<1>4. past[head] \subseteq Made
  BY <1>1, CommitsAssumption DEF GraphInv, Made, TypeOK, Ids
<1>5. \A c \in past[head] : c < made' /\ c \in Nat
  BY <1>2, <1>4 DEF Made
<1>6. Local' = Local \cup {made'}
  BY <1>2, <1>3, <1>5 DEF Local
<1>7. Shared' = Shared
  BY <1>3, <1>6 DEF Shared
<1>8. \A c \in Local : tree'[c] = tree[c] /\ c < made'
  BY <1>4, <1>5 DEF Local, Extended
<1>. QED BY <1>1, <1>3, <1>6, <1>7, <1>8 DEF Extended

\* ... one less, when it is reset, ...
LEMMA ResetLocal ==
  ASSUME TypeOK, GraphInv, UNCHANGED <<graph, origin>>, head # 1, head' = parent[head],
         head \notin past[origin]
  PROVE  Local' \subseteq Local /\ Shared' = Shared /\ UNCHANGED <<past, tree, made>>
<1>1. head \in Made
  BY DEF TypeOK
<1>2. past[head] = past[head'] \cup {head} /\ UNCHANGED <<past, tree, made, origin>>
  BY <1>1 DEF GraphInv, graph
<1>3. past'[head'] \cap past'[origin'] = past[head] \cap past[origin]
  BY <1>2
<1>4. Local' \subseteq Local
  BY <1>2, <1>3 DEF Local
<1>5. Shared' = Shared
  BY <1>2, <1>3 DEF Local, Shared
<1>. QED BY <1>2, <1>4, <1>5

\* ... the same ones, when another computer pushes, ...
LEMMA OtherLocal ==
  ASSUME TypeOK, GraphInv, NEW x \in Trees, Extended(origin, x), origin' = made', UNCHANGED head
  PROVE  /\ Local' = Local /\ Shared' = Shared /\ past[origin] \subseteq past'[origin']
         /\ \A c \in Local : tree'[c] = tree[c]
         /\ tree'[origin'] = x /\ head' # made'
<1>1. head \in Made /\ origin \in Made
  BY DEF TypeOK
<1>2. /\ \A c \in Made : past'[c] = past[c] /\ made' \notin past[c]
      /\ made' \in Nat /\ past'[made'] = past[origin] \cup {made'}
      /\ \A c \in Made : c < made'
  BY <1>1, NewCommitSafe
<1>3. past'[head'] = past[head] /\ past'[origin'] = past[origin] \cup {made'} /\ made' \notin past[head]
  BY <1>1, <1>2
<1>4. Local' = Local /\ Shared' = Shared
  BY <1>3 DEF Local, Shared
<1>5. past[head] \subseteq Made
  BY <1>1, CommitsAssumption DEF GraphInv, Made, TypeOK, Ids
<1>6. \A c \in Local : tree'[c] = tree[c]
  BY <1>5 DEF Local, Extended
<1>7. head' # made'
  BY <1>1, <1>2, CommitsAssumption DEF TypeOK, Ids, Made
<1>. QED BY <1>3, <1>4, <1>6, <1>7 DEF Extended

\* ... and HEAD alone, when it is what the remote has.
LEMMA MetLocal ==
  ASSUME TypeOK, GraphInv, UNCHANGED graph, head' \in Made, head' = origin'
  PROVE  Local' = {head'} /\ Shared' = {head'} /\ UNCHANGED <<past, tree, made>>
<1>1. UNCHANGED <<past, tree, made>>
  BY DEF graph
<1>2. head' \in past[head'] /\ \A c \in past[head'] : c <= head' /\ c \in Nat
  BY DEF GraphInv, Made
<1>3. head' \in Nat
  BY DEF Made
<1>4. Local' = {head'}
  <2>1. \A c \in Local' : c = head'
    BY <1>1, <1>2, <1>3 DEF Local
  <2>2. head' \in Local'
    BY <1>1, <1>2 DEF Local
  <2>. QED BY <2>1, <2>2
<1>. QED BY <1>1, <1>2, <1>4 DEF Shared

\* HEAD is one of them, and the only one when it was published.
LEMMA HeadLocal ==
  ASSUME TypeOK, GraphInv
  PROVE  head \in Local /\ (head \in past[origin] => Local = {head} /\ Shared = {head})
<1>1. head \in Made /\ head \in Nat
  BY DEF TypeOK, Made
<1>2. head \in past[head] /\ \A c \in past[head] : c <= head /\ c \in Nat
  BY <1>1 DEF GraphInv
<1>3. head \in Local
  BY <1>1, <1>2 DEF Local
<1>4. head \in past[origin] => \A c \in Local : c = head
  BY <1>1, <1>2 DEF Local
<1>. QED BY <1>3, <1>4 DEF Shared

\* Commits are closed under what they can reach, and stay so.
LEMMA ClosedExtends ==
  ASSUME TypeOK, GraphInv, Closed, NEW p \in Made, NEW x \in Trees, Extended(p, x)
  PROVE  Closed'
<1>1. /\ \A c \in Made : past'[c] = past[c] /\ past[c] \subseteq Made
      /\ made' \in Nat /\ past'[made'] = past[p] \cup {made'} /\ Made' = Made \cup {made'}
  <2>1. made \in Nat /\ made' = made + 1 /\ \A c \in Made : past[c] \subseteq 1..c
    BY CommitsAssumption DEF TypeOK, Ids, Extended, GraphInv
  <2>2. \A c \in Made : past[c] \subseteq Made
    BY <2>1 DEF Made
  <2>. QED BY <2>1, <2>2, NewCommitSafe DEF Made
<1> SUFFICES ASSUME NEW d \in Made', NEW c \in past'[d]
             PROVE  past'[c] \subseteq past'[d]
  BY DEF Closed
<1>2. CASE d \in Made
  BY <1>1, <1>2 DEF Closed
<1>3. CASE d = made'
  BY <1>1, <1>3 DEF Closed
<1>. QED BY <1>1, <1>2, <1>3

\* Steps that add to what the worktree and the index hold, and to nothing else.
LEMMA Grown ==
  ASSUME WorkInv, Local' \subseteq Local, Shared' \subseteq Shared,
         \A c \in Local : tree'[c] = tree[c],
         files.work \subseteq files'.work, index.work \subseteq index'.work,
         index'.work \subseteq files'.work,
         Staged' => Staged \/ Within(Local, index'.work),
         pc' = "stash" => pc = "stash" \/ \E c \in Shared : Local = {c},
         Planned' => (Planned /\ plan' = plan) \/ plan'.index = index
  PROVE  WorkInv'
<1>1. Shared \subseteq Local /\ Shared' \subseteq Local'
  BY DEF Shared
<1>2. FilesHold'
  BY DEF FilesHold, Within, WorkInv
<1>3. IndexHolds'
  BY <1>1 DEF IndexHolds, Within, WorkInv
<1>4. StashHolds'
  <2> SUFFICES ASSUME pc' = "stash" PROVE (Chain /\ Within(Local, index.work))'
    BY DEF StashHolds, Within
  <2>1. CASE pc = "stash"
    BY <2>1 DEF StashHolds, Chain, Within, WorkInv
  <2>2. CASE \E c \in Shared : Local = {c}
    BY <1>1, <2>2 DEF Chain, Within, IndexHolds, WorkInv
  <2>. QED BY <2>1, <2>2
<1>5. PlanHolds'
  BY <1>1 DEF PlanHolds, FilesHold, IndexHolds, Within, WorkInv
<1>. QED BY <1>2, <1>3, <1>4, <1>5 DEF WorkInv

\* Most steps move no commit at all.
LEMMA QuietWork ==
  ASSUME RefsInv, WorkInv, UNCHANGED <<graph, head, origin>>,
         tracking' = tracking \/ tracking' = origin,
         files.work \subseteq files'.work, index.work \subseteq index'.work,
         index'.work \subseteq files'.work,
         Staged' => Staged \/ Within(Local, index'.work),
         pc' = "stash" => pc = "stash" \/ \E c \in Shared : Local = {c},
         Planned' => (Planned /\ plan' = plan) \/ plan'.index = index
  PROVE  RefsInv' /\ WorkInv'
<1>1. Local' = Local /\ Shared' = Shared /\ UNCHANGED <<past, tree, made>>
  BY SameLocal
<1>2. RefsInv'
  BY <1>1 DEF RefsInv, Closed, Fetched, RemoteHolds, Within, Made
<1>3. WorkInv'
  BY <1>1, Grown
<1>. QED BY <1>2, <1>3

\* What a step leaves of the worktree, the index and the program is enough for most.
LEMMA StillWork ==
  ASSUME RefsInv, WorkInv, UNCHANGED <<graph, head, origin>>,
         tracking' = tracking \/ tracking' = origin, UNCHANGED <<index, plan>>,
         files' = files \/ files.work \subseteq files'.work,
         Staged' => Staged \/ Within(Local, index.work),
         pc' # "stash" \/ pc = "stash", Planned' => Planned
  PROVE  RefsInv' /\ WorkInv'
<1>1. index.work \subseteq files.work
  BY DEF WorkInv, FilesHold
<1>2. /\ files.work \subseteq files'.work /\ index.work \subseteq index'.work
      /\ index'.work \subseteq files'.work
  BY <1>1
<1>. QED BY <1>2, QuietWork

\* A commit of the index on top of HEAD, by whoever makes it.
LEMMA CommitWork ==
  ASSUME TypeOK, GraphInv, RefsInv, WorkInv, index' \in Trees, NewCommit(head, index'),
         head' = made', UNCHANGED <<origin, tracking, plan>>,
         index.work \subseteq index'.work, files.work \subseteq files'.work,
         index'.work \subseteq files'.work,
         Staged' => Staged, pc' = "stash" => pc = "stash", Planned' => Planned
  PROVE  RefsInv' /\ WorkInv'
<1>1. Extended(head, index')
  BY CommitExtends DEF TypeOK
<1>2. /\ Local' = Local \cup {made'} /\ Shared' = Shared /\ made' \notin past'[origin']
      /\ tree'[made'] = index' /\ (\A c \in Local : tree'[c] = tree[c] /\ c < made')
      /\ past'[origin] = past[origin] /\ tree'[origin] = tree[origin]
  BY <1>1, CommitLocal
<1>3. Shared \subseteq Local
  BY DEF Shared
<1>4. head \in Made /\ tracking \in Made
  BY DEF TypeOK
<1>5. Closed'
  BY <1>1, <1>4, ClosedExtends DEF RefsInv
<1>6. Fetched'
  BY <1>1, <1>2, <1>4 DEF RefsInv, Fetched, Extended
<1>7. RemoteHolds'
  BY <1>2, <1>3 DEF RefsInv, RemoteHolds, Within
<1>8. FilesHold'
  BY <1>2 DEF FilesHold, Within, WorkInv
<1>9. IndexHolds'
  BY <1>2, <1>3 DEF IndexHolds, Within, WorkInv
<1>10. StashHolds'
  <2> SUFFICES ASSUME pc' = "stash" PROVE (Chain /\ Within(Local, index.work))'
    BY DEF StashHolds, Within
  <2>1. Chain /\ Within(Local, index.work)
    BY DEF StashHolds, WorkInv
  <2>2. \A c \in Local' : tree'[c].work \subseteq index'.work
    BY <1>2, <2>1 DEF Within
  <2>3. Chain'
    <3> SUFFICES ASSUME NEW c \in Local', NEW d \in Local', c <= d
                 PROVE  tree'[c].work \subseteq tree'[d].work
      BY DEF Chain
    <3>1. CASE d = made'
      BY <1>2, <2>2, <3>1
    <3>2. CASE d # made' /\ c # made'
      BY <1>2, <2>1, <3>2 DEF Chain
    <3>3. CASE d # made' /\ c = made'
      <4>1. made' \in Nat /\ d \in Nat /\ d < made'
        <5>1. d \in Made
          <6>1. d \in past[head]
            BY <1>2, <3>3 DEF Local
          <6>. QED BY <6>1, <1>4, CommitsAssumption DEF GraphInv, TypeOK, Made, Ids
        <5>. QED BY <1>1, <1>2, <3>3, <5>1, CommitsAssumption DEF Extended, TypeOK, Made, Ids
      <4>. QED BY <3>3, <4>1
    <3>. QED BY <3>1, <3>2, <3>3
  <2>. QED BY <2>2, <2>3 DEF Within
<1>11. PlanHolds'
  BY <1>2, <1>3 DEF PlanHolds, Within, WorkInv
<1>. QED BY <1>5, <1>6, <1>7, <1>8, <1>9, <1>10, <1>11 DEF RefsInv, WorkInv

\* A pull or a push: HEAD and the remote meet in a commit that the index holds.
LEMMA MeetWork ==
  ASSUME TypeOK, GraphInv, RefsInv, WorkInv, UNCHANGED graph, head' \in Made, head' = origin',
         past[tracking'] \subseteq past[origin'],
         tree[head'].work \subseteq index'.work, index'.work \subseteq files'.work,
         pc' \notin {"stash", "plan"}, ~Planned'
  PROVE  RefsInv' /\ WorkInv'
<1>1. Local' = {head'} /\ Shared' = {head'} /\ UNCHANGED <<past, tree, made>>
  BY MetLocal
<1>2. RefsInv'
  BY <1>1 DEF RefsInv, Closed, Fetched, RemoteHolds, Within, Made
<1>3. WorkInv'
  BY <1>1 DEF WorkInv, FilesHold, IndexHolds, StashHolds, PlanHolds, Within
<1>. QED BY <1>2, <1>3

LEMMA StepWork ==
  TypeOK /\ GraphInv /\ RefsInv /\ WorkInv /\ [Next]_vars => RefsInv' /\ WorkInv'
<1> SUFFICES ASSUME TypeOK, GraphInv, RefsInv, WorkInv, [Next]_vars
             PROVE  RefsInv' /\ WorkInv'
  OBVIOUS
<1> USE DEF Goto, End, Tree
<1>a. head \in Made /\ origin \in Made /\ tracking \in Made /\ head \in Local
      /\ (head \in past[origin] => Local = {head} /\ Shared = {head})
  BY HeadLocal DEF TypeOK
<1>b. past[tracking] \subseteq past[origin]
  BY DEF RefsInv, Fetched
<1>c. /\ index.work \subseteq files.work /\ Within(Local, files.work) /\ Within(Shared, index.work)
      /\ (Staged => Within(Local, index.work))
  BY DEF WorkInv, FilesHold, IndexHolds
<1>d. index \in Trees /\ index' \in Trees
  BY StepType DEF TypeOK
<1>1. CASE Start
  BY <1>1, StillWork DEF Start, graph, refs, local, plans, command, history, bounds, Staged, Planned
<1>2. CASE CheckGuard
  BY <1>2, StillWork DEF CheckGuard, graph, refs, local, plans, command, history, bounds, Staged, Planned
<1>3. CASE PullRefused
  BY <1>3, StillWork DEF PullRefused, graph, refs, local, plans, command, history, bounds, Staged, Planned
<1>4. CASE Decide
  BY <1>4, StillWork DEF Decide, graph, refs, local, plans, command, history, bounds, Staged, Planned
<1>5. CASE PlanRefused
  BY <1>5, StillWork DEF PlanRefused, graph, refs, local, plans, command, history, bounds, Staged, Planned
<1>6. CASE Verify
  BY <1>6, StillWork DEF Verify, graph, refs, local, plans, command, history, bounds, Staged, Planned
<1>7. CASE \E t \in Targets : ApplyWrite(t)
  BY <1>7, StillWork DEF ApplyWrite, SetTarget, graph, refs, local, plans, command, history, bounds, Staged, Planned
<1>8. CASE BaselineHolds
  BY <1>8, StillWork DEF BaselineHolds, graph, refs, local, plans, command, history, bounds, Staged, Planned
<1>9. CASE Stage
  BY <1>9, StillWork DEF Stage, graph, refs, local, plans, command, history, bounds, Staged, Planned
<1>10. CASE CommitRefused
  BY <1>10, StillWork DEF CommitRefused, graph, refs, local, plans, command, history, bounds, Staged, Planned
<1>11. CASE Check
  BY <1>11, StillWork DEF Check, graph, refs, local, plans, command, history, bounds, Staged, Planned
<1>12. CASE Compare
  BY <1>12, StillWork DEF Compare, graph, refs, local, plans, command, history, bounds, Staged, Planned
<1>13. CASE Identify
  BY <1>13, StillWork DEF Identify, graph, refs, local, plans, command, history, bounds, Staged, Planned
<1>14. CASE Pushed
  BY <1>14, StillWork DEF Pushed, graph, refs, local, plans, command, history, bounds, Staged, Planned
<1>15. CASE Finish
  BY <1>15, StillWork DEF Finish, graph, refs, local, plans, command, history, bounds, Staged, Planned
<1>16. CASE Receipt
  BY <1>16, StillWork DEF Receipt, graph, refs, local, plans, command, history, bounds, Staged, Planned
<1>17. CASE Undo
  BY <1>17, StillWork DEF Undo, graph, refs, local, plans, command, history, bounds, Staged, Planned
<1>18. CASE \E t \in Targets : Restore(t)
  BY <1>18, StillWork DEF Restore, SetTarget, graph, refs, local, plans, command, history, bounds, Staged, Planned
<1>19. CASE StepFails
  BY <1>19, StillWork DEF StepFails, graph, refs, local, plans, command, history, bounds, Staged, Planned
<1>20. CASE Crash
  BY <1>20, StillWork DEF Crash, graph, refs, local, plans, command, history, bounds, Staged, Planned
<1>21. CASE MakePlan
  BY <1>c, <1>21, QuietWork DEF MakePlan, Plan, graph, refs, local, plans, command, history, bounds, Staged, Planned
<1>22. CASE Fetch
  <2>1. Staged' => Within(Local, index.work)
    BY <1>c, <1>22 DEF Fetch, Dirty, Staged, local
  <2>2. pc' = "stash" => \E c \in Shared : Local = {c}
    <3> SUFFICES ASSUME pc' = "stash" PROVE head \in past[origin]
      BY <1>a
    <3>1. past[head] \subseteq past[tracking']
      BY <1>22 DEF Fetch, Ahead, graph
    <3>2. head \in past[head]
      BY <1>a DEF GraphInv
    <3>3. tracking' = tracking \/ tracking' = origin
      BY <1>22 DEF Fetch, FetchBranch
    <3>. QED BY <1>b, <3>1, <3>2, <3>3
  <2>. QED BY <1>c, <1>22, <2>1, <2>2, QuietWork DEF Fetch, FetchBranch, graph, refs, local, plans, command, history, bounds, Staged, Planned
<1>23. CASE Stash
  <2>1. CASE unmerged
    BY <1>23, <2>1, StillWork DEF Stash, graph, refs, local, plans, command, history, bounds, Staged, Planned
  <2>2. CASE ~unmerged
    <3>1. /\ files' = tree[head] /\ index' = tree[head] /\ pc' = "pull"
          /\ UNCHANGED <<graph, head, origin, tracking, plan>>
      BY <1>23, <2>2 DEF Stash, graph, refs, local, plans, command, history, bounds, Staged, Planned
    <3>2. Local' = Local /\ Shared' = Shared /\ UNCHANGED <<past, tree, made>>
      BY <3>1, SameLocal
    <3>3. \A c \in Local : tree[c].work \subseteq tree[head].work
      <4>1. \A c \in Local : c <= head
        BY <1>a DEF Local, GraphInv, Made
      <4>. QED BY <1>a, <1>23, <4>1 DEF WorkInv, StashHolds, Chain, Stash
    <3>4. RefsInv'
      BY <3>1, <3>2 DEF RefsInv, Closed, Fetched, RemoteHolds, Within, Made
    <3>5. WorkInv'
      BY <3>1, <3>2, <3>3 DEF WorkInv, FilesHold, IndexHolds, StashHolds, PlanHolds, Within, Shared, Staged, Planned
    <3>. QED BY <3>4, <3>5
  <2>. QED BY <2>1, <2>2
<1>24. CASE Pull
  <2>1. files'.work = files.work \cup tree[origin].work /\ index'.work = index.work \cup tree[origin].work
    BY <1>24 DEF Pull, Merge
  <2>2. /\ UNCHANGED graph /\ head' = origin /\ origin' = origin /\ tracking' = origin
        /\ pc' \in {"recheck", "pop"}
    BY <1>24 DEF Pull
  <2>3. tree[head'].work \subseteq index'.work /\ index'.work \subseteq files'.work
    BY <1>c, <2>1, <2>2
  <2>. QED BY <1>a, <2>2, <2>3, MeetWork DEF Planned
<1>25. CASE Pop
  <2>1. files.work \subseteq files'.work
    BY <1>25 DEF Pop, Merge
  <2>. QED BY <1>25, <2>1, StillWork DEF Pop, graph, refs, local, plans, command, history, bounds, Staged, Planned
<1>26. CASE PopConflicts
  <2>1. files.work \subseteq files'.work
    BY <1>26 DEF PopConflicts
  <2>. QED BY <1>26, <2>1, StillWork DEF PopConflicts, graph, refs, local, plans, command, history, bounds, Staged, Planned
<1>27. CASE Recheck
  <2>1. Staged' => Within(Local, index.work)
    BY <1>c, <1>27 DEF Recheck, Dirty, Staged, local
  <2>. QED BY <1>27, <2>1, StillWork DEF Recheck, graph, refs, local, plans, command, history, bounds, Staged, Planned
<1>28. CASE Add
  BY <1>c, <1>28, QuietWork DEF Add, graph, refs, local, plans, command, history, bounds, Staged, Planned
<1>29. CASE RestoreIndex
  <2>1. Planned /\ index' = plan.index /\ pc' = "idle" /\ UNCHANGED <<graph, head, origin, tracking, files>>
    BY <1>29 DEF RestoreIndex, graph, refs, local, plans, command, history, bounds, Staged, Planned
  <2>2. Local' = Local /\ Shared' = Shared /\ UNCHANGED <<past, tree, made>>
    BY <2>1, SameLocal
  <2>3. RefsInv'
    BY <2>1, <2>2 DEF RefsInv, Closed, Fetched, RemoteHolds, Within, Made
  <2>4. WorkInv'
    BY <2>1, <2>2 DEF WorkInv, FilesHold, IndexHolds, StashHolds, PlanHolds, Within, Staged, Planned
  <2>. QED BY <2>3, <2>4
<1>30. CASE Commit
  <2>1. NewCommit(head, index') /\ head' = made' /\ UNCHANGED <<origin, tracking, plan, index, files>> /\ pc' = "check"
    BY <1>30 DEF Commit, MakeCommit, graph, refs, local, plans, command, history, bounds, Staged, Planned
  <2>2. Staged
    BY <1>30 DEF Commit, Staged
  <2>. QED BY <1>c, <1>d, <2>1, <2>2, CommitWork DEF Planned
<1>31. CASE HookRewrites
  <2>1. NewCommit(head, index') /\ head' = made' /\ UNCHANGED <<origin, tracking, plan>> /\ pc' = "check"
    BY <1>31 DEF HookRewrites, MakeCommit, plans
  <2>2. Staged
    BY <1>31 DEF HookRewrites, Staged
  <2>3. index'.work = index.work \cup {stamp'} /\ files'.work = files.work \cup {stamp'}
    BY <1>31 DEF HookRewrites
  <2>. QED BY <1>c, <1>d, <2>1, <2>2, <2>3, CommitWork DEF Planned
<1>32. CASE UserCommit
  <2>1. NewCommit(head, index') /\ head' = made' /\ UNCHANGED <<origin, tracking, plan, index, files, pc, dirty>>
    BY <1>32 DEF UserCommit, graph, refs, local, plans, command, history, bounds, Staged, Planned
  <2>. QED BY <1>c, <1>d, <2>1, CommitWork DEF Planned, Staged
<1>33. CASE Push
  <2>1. CASE origin \in past[head]
    <3>1. /\ UNCHANGED <<graph, head, index, files>> /\ origin' = head /\ tracking' = head /\ pc' = "pushed"
      BY <1>33, <2>1 DEF Push, graph, refs, local, plans, command, history, bounds, Staged, Planned
    <3>2. tree[head].work \subseteq index.work
      BY <1>a, <1>c, <1>33 DEF Push, Staged, Within
    <3>. QED BY <1>a, <1>c, <3>1, <3>2, MeetWork DEF Planned
  <2>2. CASE origin \notin past[head]
    BY <1>33, <2>2, StillWork DEF Push, graph, refs, local, plans, command, history, bounds, Staged, Planned
  <2>. QED BY <2>1, <2>2
<1>34. CASE FailsLate
  <2>1. CASE pc = "commit"
    <3>1. NewCommit(head, index') /\ head' = made' /\ UNCHANGED <<origin, tracking, plan, index, files>> /\ pc' = "undo"
      BY <1>34, <2>1 DEF FailsLate, graph, refs, local, plans, command, history, bounds, Staged, Planned
    <3>. QED BY <1>c, <1>d, <2>1, <3>1, CommitWork DEF Planned, Staged
  <2>2. CASE pc = "push"
    <3>1. /\ UNCHANGED <<graph, head, index, files, tracking>> /\ origin' = head /\ pc' = "idle"
          /\ origin \in past[head]
      BY <1>34, <2>2 DEF FailsLate, graph, refs, local, plans, command, history, bounds, Staged, Planned
    <3>2. tree[head].work \subseteq index.work
      BY <1>a, <1>c, <2>2 DEF Staged, Within
    <3>3. past[tracking'] \subseteq past[origin']
      BY <1>a, <1>b, <3>1 DEF RefsInv, Closed
    <3>. QED BY <1>a, <1>c, <3>1, <3>2, <3>3, MeetWork DEF Planned
  <2>3. CASE pc = "add"
    BY <1>c, <1>34, <2>3, QuietWork DEF FailsLate, graph, refs, local, plans, command, history, bounds, Staged, Planned
  <2>. QED BY <1>34, <2>1, <2>2, <2>3 DEF FailsLate
<1>35. CASE Edit
  <2>1. files.work \subseteq files'.work
    BY <1>35 DEF Edit, SetTarget
  <2>. QED BY <1>35, <2>1, StillWork DEF Edit, graph, refs, local, plans, command, history, bounds, Staged, Planned
<1>36. CASE UserAdd
  <2>1. files'.work = files.work /\ index' = files' /\ UNCHANGED <<graph, refs, command>>
    BY <1>36 DEF UserAdd
  <2>. QED BY <1>c, <2>1, QuietWork DEF refs, command, plans, Staged, Planned
<1>37. CASE UserReset
  <2>1. /\ head # 1 /\ head' = parent[head] /\ head \notin past[origin]
        /\ UNCHANGED <<graph, origin, tracking, files, index, pc, dirty, plan>>
    BY <1>a, <1>37 DEF UserReset, GraphInv, graph, refs, local, plans, command, history, bounds, Staged, Planned
  <2>2. Local' \subseteq Local /\ Shared' = Shared /\ UNCHANGED <<past, tree, made>>
    BY <2>1, ResetLocal
  <2>3. RefsInv'
    BY <2>1, <2>2 DEF RefsInv, Closed, Fetched, RemoteHolds, Within, Made
  <2>4. WorkInv'
    BY <1>c, <2>1, <2>2, Grown DEF Staged, Planned
  <2>. QED BY <2>3, <2>4
<1>38. CASE OtherPush
  <2>1. PICK W \in SUBSET Targets :
         NewCommit(origin, Tree(tree[origin].work \cup {stamp'},
                                [t \in Targets |-> IF t \in W THEN stamp' ELSE tree[origin].target[t]],
                                tree[origin].flaws))
    BY <1>38 DEF OtherPush
  <2> DEFINE x == Tree(tree[origin].work \cup {stamp'},
                       [t \in Targets |-> IF t \in W THEN stamp' ELSE tree[origin].target[t]],
                       tree[origin].flaws)
  <2>2. x \in Trees
    BY <1>a, <1>38, PushedType DEF OtherPush
  <2>3. NewCommit(origin, x) /\ tree[origin].work \subseteq x.work
    BY <2>1
  <2> HIDE DEF x
  <2>4. Extended(origin, x)
    BY <1>a, <2>2, <2>3, CommitExtends
  <2>5. origin' = made' /\ UNCHANGED <<head, tracking, files, index, pc, dirty, plan>>
    BY <1>38 DEF OtherPush, graph, refs, local, plans, command, history, bounds, Staged, Planned
  <2>6. /\ Local' = Local /\ Shared' = Shared /\ past[origin] \subseteq past'[origin']
        /\ \A c \in Local : tree'[c] = tree[c]
        /\ tree'[origin'] = x
    BY <2>2, <2>4, <2>5, OtherLocal
  <2>7. RefsInv'
    <3>1. Closed'
      BY <1>a, <2>2, <2>4, ClosedExtends DEF RefsInv
    <3>2. Fetched'
      BY <1>a, <1>b, <2>4, <2>5, <2>6 DEF Fetched, Extended
    <3>3. RemoteHolds'
      BY <2>3, <2>6 DEF RefsInv, RemoteHolds, Within, Shared
    <3>. QED BY <3>1, <3>2, <3>3 DEF RefsInv
  <2>8. WorkInv'
    BY <1>c, <2>5, <2>6, Grown DEF Staged, Planned
  <2>. QED BY <2>7, <2>8
<1>39. CASE DevelopStarts
  BY <1>39, StillWork DEF DevelopStarts, graph, refs, local, plans, command, history, bounds, Staged, Planned
<1>40. CASE DevelopEnds
  BY <1>40, StillWork DEF DevelopEnds, graph, refs, local, plans, command, history, bounds, Staged, Planned
<1>41. CASE UNCHANGED vars
  BY <1>41, StillWork DEF vars, graph, refs, local, plans, command, history, bounds, Staged, Planned
<1>. QED
  BY <1>1, <1>2, <1>3, <1>4, <1>5, <1>6, <1>7, <1>8, <1>9, <1>10, <1>11, <1>12, <1>13, <1>14, <1>15, <1>16, <1>17, <1>18, <1>19, <1>20, <1>21, <1>22, <1>23, <1>24, <1>25, <1>26, <1>27, <1>28, <1>29, <1>30, <1>31, <1>32, <1>33, <1>34, <1>35, <1>36, <1>37, <1>38, <1>39, <1>40, <1>41
  DEF Next, Integrate, Publish, Rollback, Faults, Users

\* A step that loses nothing of what is owed.
LEMMA OwedKept ==
  ASSUME OwedInv, owed' \subseteq owed, files.work \subseteq files'.work, saved' = saved,
         pc' # "idle" => pc # "idle" /\ UNCHANGED result,
         pc' \notin {"idle", "pull", "pop"} => pc \notin {"idle", "pull", "pop"} \/ saved = {},
         ReceiptHolds',
         result' = "synced" => result = "synced" /\ tree[origin].work \subseteq tree'[origin'].work
  PROVE  OwedInv'
<1>1. OwedHere'
  BY DEF OwedInv, OwedHere
<1>2. SavedOnce' /\ Running'
  BY DEF OwedInv, SavedOnce, Running
<1>3. SyncedIsPublished'
  BY DEF OwedInv, SyncedIsPublished
<1>. QED BY <1>1, <1>2, <1>3 DEF OwedInv

\* A step of git-sync that moves no commit and is not the last look at the worktree.
LEMMA OwedQuiet ==
  ASSUME OwedInv, UNCHANGED <<owed, saved, tree, origin>>,
         files' = files \/ files.work \subseteq files'.work,
         pc' # "idle" => pc # "idle" /\ UNCHANGED result,
         pc' \notin {"idle", "pull", "pop"} => pc \notin {"idle", "pull", "pop"} \/ saved = {},
         pc' = "receipt" => pc = "receipt" /\ UNCHANGED <<past, head, dirty>>,
         result' = "synced" => result = "synced"
  PROVE  OwedInv'
<1>1. ReceiptHolds'
  BY DEF OwedInv, ReceiptHolds
<1>2. files.work \subseteq files'.work
  OBVIOUS
<1>. QED BY <1>1, <1>2, OwedKept

LEMMA StepOwed ==
  TypeOK /\ GraphInv /\ RefsInv /\ WorkInv /\ OwedInv /\ [Next]_vars => OwedInv'
<1> SUFFICES ASSUME TypeOK, GraphInv, RefsInv, WorkInv, OwedInv, [Next]_vars
             PROVE  OwedInv'
  OBVIOUS
<1> USE DEF Goto, End, Tree
<1>a. head \in Made /\ origin \in Made /\ tracking \in Made /\ head \in Local
      /\ (head \in past[origin] => Local = {head} /\ Shared = {head})
  BY HeadLocal DEF TypeOK
<1>b. past[tracking] \subseteq past[origin]
  BY DEF RefsInv, Fetched
<1>c. pc # "idle" => result = "running"
  BY DEF OwedInv, Running
<1>d. pc \notin {"idle", "pull", "pop"} => saved = {}
  BY DEF OwedInv, SavedOnce
<1>e. pc # "idle" => \A e \in owed : e \in files.work \/ \E s \in saved : e \in s[2].work
  BY DEF OwedInv, OwedHere
<1>f. index \in Trees
  BY DEF TypeOK
<1>1. CASE CheckGuard
  BY <1>c, <1>d, <1>1, OwedQuiet DEF CheckGuard, graph, refs, local, plans, command, history, bounds
<1>2. CASE Fetch
  BY <1>c, <1>d, <1>2, OwedQuiet DEF Fetch, graph, refs, local, plans, command, history, bounds
<1>3. CASE PullRefused
  BY <1>c, <1>d, <1>3, OwedQuiet DEF PullRefused, graph, refs, local, plans, command, history, bounds
<1>4. CASE Recheck
  BY <1>c, <1>d, <1>4, OwedQuiet DEF Recheck, graph, refs, local, plans, command, history, bounds
<1>5. CASE Decide
  BY <1>c, <1>d, <1>5, OwedQuiet DEF Decide, graph, refs, local, plans, command, history, bounds
<1>6. CASE MakePlan
  BY <1>c, <1>d, <1>6, OwedQuiet DEF MakePlan, graph, refs, local, plans, command, history, bounds
<1>7. CASE PlanRefused
  BY <1>c, <1>d, <1>7, OwedQuiet DEF PlanRefused, graph, refs, local, plans, command, history, bounds
<1>8. CASE Verify
  BY <1>c, <1>d, <1>8, OwedQuiet DEF Verify, graph, refs, local, plans, command, history, bounds
<1>9. CASE \E t \in Targets : ApplyWrite(t)
  BY <1>c, <1>d, <1>9, OwedQuiet DEF ApplyWrite, SetTarget, graph, refs, local, plans, command, history, bounds
<1>10. CASE BaselineHolds
  BY <1>c, <1>d, <1>10, OwedQuiet DEF BaselineHolds, graph, refs, local, plans, command, history, bounds
<1>11. CASE Add
  BY <1>c, <1>d, <1>11, OwedQuiet DEF Add, graph, refs, local, plans, command, history, bounds
<1>12. CASE Stage
  BY <1>c, <1>d, <1>12, OwedQuiet DEF Stage, graph, refs, local, plans, command, history, bounds
<1>13. CASE CommitRefused
  BY <1>c, <1>d, <1>13, OwedQuiet DEF CommitRefused, graph, refs, local, plans, command, history, bounds
<1>14. CASE Check
  BY <1>c, <1>d, <1>14, OwedQuiet DEF Check, graph, refs, local, plans, command, history, bounds
<1>15. CASE Compare
  BY <1>c, <1>d, <1>15, OwedQuiet DEF Compare, graph, refs, local, plans, command, history, bounds
<1>16. CASE Identify
  BY <1>c, <1>d, <1>16, OwedQuiet DEF Identify, graph, refs, local, plans, command, history, bounds
<1>17. CASE Pushed
  BY <1>c, <1>d, <1>17, OwedQuiet DEF Pushed, graph, refs, local, plans, command, history, bounds
<1>18. CASE Undo
  BY <1>c, <1>d, <1>18, OwedQuiet DEF Undo, graph, refs, local, plans, command, history, bounds
<1>19. CASE \E t \in Targets : Restore(t)
  BY <1>c, <1>d, <1>19, OwedQuiet DEF Restore, SetTarget, graph, refs, local, plans, command, history, bounds
<1>20. CASE RestoreIndex
  BY <1>c, <1>d, <1>20, OwedQuiet DEF RestoreIndex, graph, refs, local, plans, command, history, bounds
<1>21. CASE StepFails
  BY <1>c, <1>d, <1>21, OwedQuiet DEF StepFails, graph, refs, local, plans, command, history, bounds
<1>22. CASE Crash
  BY <1>c, <1>d, <1>22, OwedQuiet DEF Crash, graph, refs, local, plans, command, history, bounds
<1>23. CASE UserAdd
  BY <1>c, <1>d, <1>23, OwedQuiet DEF UserAdd, graph, refs, local, plans, command, history, bounds
<1>24. CASE DevelopStarts
  BY <1>c, <1>d, <1>24, OwedQuiet DEF DevelopStarts, graph, refs, local, plans, command, history, bounds
<1>25. CASE DevelopEnds
  BY <1>c, <1>d, <1>25, OwedQuiet DEF DevelopEnds, graph, refs, local, plans, command, history, bounds
<1>26. CASE UNCHANGED vars
  BY <1>c, <1>d, <1>26, OwedQuiet DEF vars, graph, refs, local, plans, command, history, bounds
<1>27. CASE Start
  <2>1. /\ owed' = files.work \cup tree[head].work /\ pc' = "guard" /\ result' = "running" /\ saved' = {}
        /\ files' = files
    BY <1>27 DEF Start, graph, refs, local, plans, command, history, bounds
  <2>2. tree[head].work \subseteq files.work
    BY <1>a DEF WorkInv, FilesHold, Within
  <2>. QED BY <2>1, <2>2 DEF OwedInv, OwedHere, SavedOnce, ReceiptHolds, Running, SyncedIsPublished
<1>28. CASE Stash
  <2>1. CASE unmerged
    BY <1>c, <1>d, <1>28, <2>1, OwedQuiet DEF Stash, graph, refs, local, plans, command, history, bounds
  <2>2. CASE ~unmerged
    <3>1. /\ saved' = (IF Dirty THEN {<<head, files>>} ELSE {}) /\ files' = tree[head]
          /\ pc' = "pull" /\ UNCHANGED <<owed, result>>
      BY <1>28, <2>2 DEF Stash, history
    <3>2. \A e \in owed : e \in files.work
      BY <1>d, <1>e, <1>28 DEF Stash
    <3>3. OwedHere'
      <4>1. CASE Dirty
        <5>1. <<head, files>> \in saved' /\ <<head, files>>[2] = files
          BY <3>1, <4>1
        <5>. QED BY <3>1, <3>2, <5>1 DEF OwedHere
      <4>2. CASE ~Dirty
        BY <3>1, <3>2, <4>2 DEF OwedHere, Dirty
      <4>. QED BY <4>1, <4>2
    <3>4. SavedOnce' /\ ReceiptHolds' /\ Running' /\ SyncedIsPublished'
      BY <1>c, <1>28, <3>1 DEF Stash, SavedOnce, ReceiptHolds, Running, SyncedIsPublished
    <3>. QED BY <3>3, <3>4 DEF OwedInv
  <2>. QED BY <2>1, <2>2
<1>29. CASE Pull
  <2>1. files'.work = files.work \cup tree[origin].work
    BY <1>29 DEF Pull, Merge
  <2>. QED BY <1>c, <1>d, <1>29, <2>1, OwedQuiet DEF Pull, graph, refs, local, plans, command, history, bounds
<1>30. CASE Pop
  <2>1. PICK s \in saved : files'.work = s[2].work \cup files.work
    BY <1>30 DEF Pop, Merge
  <2>2. \A r \in saved : r = s
    BY DEF OwedInv, SavedOnce
  <2>3. \A e \in owed : e \in files'.work
    BY <1>e, <1>30, <2>1, <2>2 DEF Pop
  <2>4. saved' = {} /\ pc' = "recheck" /\ result' = result /\ result = "running" /\ owed' = owed
    BY <1>c, <1>30 DEF Pop, history
  <2>. QED BY <2>3, <2>4 DEF OwedInv, OwedHere, SavedOnce, ReceiptHolds, Running, SyncedIsPublished
<1>31. CASE PopConflicts
  <2>1. files.work \subseteq files'.work
    BY <1>31 DEF PopConflicts
  <2>. QED BY <1>c, <1>d, <1>31, <2>1, OwedQuiet DEF PopConflicts, graph, refs, local, plans, command, history, bounds
<1>32. CASE Commit
  <2>1. UNCHANGED <<owed, saved, files, origin, result>> /\ pc' = "check" /\ pc = "commit" /\ Extended(head, index)
    BY <1>a, <1>f, <1>32, CommitExtends DEF Commit, MakeCommit, graph, refs, local, plans, command, history, bounds
  <2>2. ReceiptHolds'
    BY <2>1 DEF ReceiptHolds
  <2>. QED BY <1>c, <1>d, <2>1, <2>2, OwedKept
<1>33. CASE HookRewrites
  <2>1. UNCHANGED <<owed, saved, origin, result>> /\ pc' = "check" /\ pc = "commit"
        /\ files.work \subseteq files'.work
    BY <1>33 DEF HookRewrites, MakeCommit, graph, refs, local, plans, command, history, bounds
  <2>2. ReceiptHolds'
    BY <2>1 DEF ReceiptHolds
  <2>. QED BY <1>c, <1>d, <2>1, <2>2, OwedKept
<1>34. CASE UserCommit
  <2>1. UNCHANGED <<owed, saved, files, origin, result, pc>> /\ NewCommit(head, index) /\ head' = made'
    BY <1>34 DEF UserCommit, graph, refs, local, plans, command, history, bounds
  <2>2. Extended(head, index)
    BY <1>a, <1>f, <2>1, CommitExtends
  <2>3. head' \notin past'[origin'] /\ tree'[origin'] = tree[origin]
    BY <1>f, <2>1, <2>2, CommitLocal
  <2>4. ReceiptHolds'
    BY <2>3 DEF ReceiptHolds
  <2>. QED BY <1>c, <1>d, <2>1, <2>3, <2>4, OwedKept
<1>35. CASE FailsLate
  <2>1. /\ UNCHANGED <<owed, saved, files>> /\ pc' \in {"idle", "undo"} /\ pc \notin {"idle", "pull", "pop"}
        /\ result' \in {result, "blocked"} /\ (pc' # "idle" => result' = result)
    BY <1>35 DEF FailsLate, graph, refs, local, plans, command, history, bounds
  <2>2. ReceiptHolds'
    BY <2>1 DEF ReceiptHolds
  <2>. QED BY <1>c, <1>d, <2>1, <2>2, OwedKept
<1>36. CASE Push
  <2>1. /\ UNCHANGED <<owed, saved, files>> /\ pc' \in {"idle", "pushed"} /\ pc = "push"
        /\ result' \in {result, "blocked"} /\ (pc' # "idle" => result' = result)
    BY <1>36 DEF Push, graph, refs, local, plans, command, history, bounds
  <2>2. ReceiptHolds'
    BY <2>1 DEF ReceiptHolds
  <2>. QED BY <1>c, <1>d, <2>1, <2>2, OwedKept
<1>37. CASE Finish
  <2>1. /\ UNCHANGED <<graph, head, origin, files, owed, saved, result>> /\ pc' = "receipt" /\ pc = "finish"
        /\ dirty' = Dirty
    BY <1>37 DEF Finish, graph, refs, local, plans, command, history, bounds
  <2>2. owed \subseteq files.work
    BY <1>d, <1>e, <2>1
  <2>3. ReceiptHolds'
    BY <2>1, <2>2 DEF ReceiptHolds, Dirty, graph
  <2>. QED BY <1>c, <1>d, <2>1, <2>3, OwedKept DEF graph
<1>38. CASE Receipt
  <2>1. CASE result' = "synced"
    <3>1. ~dirty /\ past[head] \subseteq past[tracking] /\ UNCHANGED <<tree, origin, owed, saved>> /\ pc' = "idle"
          /\ pc = "receipt"
      BY <1>38, <2>1 DEF Receipt, Ahead, graph, refs, local, plans, command, history, bounds
    <3>2. head \in past[origin]
      BY <1>a, <1>b, <3>1 DEF GraphInv
    <3>3. owed \subseteq tree[head].work
      BY <3>1, <3>2 DEF OwedInv, ReceiptHolds
    <3>4. tree[head].work \subseteq tree[origin].work
      BY <1>a, <3>2 DEF RefsInv, RemoteHolds, Within
    <3>5. SavedOnce'
      BY <3>1 DEF OwedInv, SavedOnce
    <3>. QED BY <3>1, <3>3, <3>4, <3>5 DEF OwedInv, OwedHere, ReceiptHolds, Running, SyncedIsPublished
  <2>2. CASE result' # "synced"
    BY <1>c, <1>d, <1>38, <2>2, OwedQuiet DEF Receipt, graph, refs, local, plans, command, history, bounds
  <2>. QED BY <2>1, <2>2
<1>39. CASE Edit
  <2>1. files.work \subseteq files'.work
    BY <1>39 DEF Edit, SetTarget
  <2>. QED BY <1>c, <1>d, <1>39, <2>1, OwedQuiet DEF Edit, graph, refs, local, plans, command, history, bounds
<1>40. CASE UserReset
  <2>1. /\ UNCHANGED <<graph, origin, files, saved, result, pc>>
        /\ owed' = owed \cap tree[head'].work
    BY <1>40 DEF UserReset, graph, refs, local, plans, command, history, bounds
  <2>2. ReceiptHolds'
    BY <2>1 DEF ReceiptHolds, graph
  <2>. QED BY <1>c, <1>d, <2>1, <2>2, OwedKept DEF graph
<1>41. CASE OtherPush
  <2>1. PICK W \in SUBSET Targets :
         NewCommit(origin, Tree(tree[origin].work \cup {stamp'},
                                [t \in Targets |-> IF t \in W THEN stamp' ELSE tree[origin].target[t]],
                                tree[origin].flaws))
    BY <1>41 DEF OtherPush
  <2> DEFINE x == Tree(tree[origin].work \cup {stamp'},
                       [t \in Targets |-> IF t \in W THEN stamp' ELSE tree[origin].target[t]],
                       tree[origin].flaws)
  <2>2. x \in Trees
    BY <1>a, <1>41, PushedType DEF OtherPush
  <2>3. NewCommit(origin, x) /\ tree[origin].work \subseteq x.work
    BY <2>1
  <2> HIDE DEF x
  <2>4. Extended(origin, x)
    BY <1>a, <2>2, <2>3, CommitExtends
  <2>5. origin' = made' /\ UNCHANGED <<head, files, pc, dirty, owed, saved, result>>
    BY <1>41 DEF OtherPush, graph, refs, local, plans, command, history, bounds
  <2>6. tree'[origin'] = x /\ head' # made' /\ Local' = Local /\ Shared' = Shared /\ tree'[head] = tree[head]
    BY <1>a, <2>2, <2>4, <2>5, OtherLocal
  <2>7. past'[origin'] = past[origin] \cup {made'}
    BY <2>4, <2>5 DEF Extended
  <2>8. ReceiptHolds'
    BY <2>5, <2>6, <2>7 DEF OwedInv, ReceiptHolds
  <2>. QED BY <1>c, <1>d, <2>3, <2>5, <2>6, <2>8, OwedKept
<1>. QED
  BY <1>1, <1>2, <1>3, <1>4, <1>5, <1>6, <1>7, <1>8, <1>9, <1>10, <1>11, <1>12, <1>13, <1>14, <1>15, <1>16, <1>17, <1>18, <1>19, <1>20, <1>21, <1>22, <1>23, <1>24, <1>25, <1>26, <1>27, <1>28, <1>29, <1>30, <1>31, <1>32, <1>33, <1>34, <1>35, <1>36, <1>37, <1>38, <1>39, <1>40, <1>41
  DEF Next, Integrate, Publish, Rollback, Faults, Users

\* A git-sync that reports "synced" has published everything that was in the worktree
\* or in HEAD when it started, unless its user took it back: for any number of commits,
\* edits and faults, with users, other computers and a stash in between.
THEOREM SyncedPublished == Spec => []SyncedIsPublished
<1> DEFINE Inv == TypeOK /\ GraphInv /\ RefsInv /\ WorkInv /\ OwedInv
<1>1. Init => Inv
  <2> SUFFICES ASSUME Init PROVE Inv
    OBVIOUS
  <2>1. TypeOK /\ GraphInv
    BY InitType
  <2>2. head = 1 /\ origin = 1 /\ tracking = 1 /\ past[1] = {1} /\ Made = {1} /\ 1 \in Ids
    BY CommitsAssumption DEF Init, Made, Ids
  <2>3. tree[1].work = {} /\ files.work = {} /\ index.work = {}
    BY <2>2 DEF Init, Empty, Tree
  <2>4. Local = {1} /\ Shared = {1}
    BY <2>1, <2>2, HeadLocal
  <2>5. RefsInv
    BY <2>2, <2>3, <2>4 DEF RefsInv, Closed, Fetched, RemoteHolds, Within
  <2>6. WorkInv
    BY <2>3, <2>4 DEF Init, WorkInv, FilesHold, IndexHolds, StashHolds, PlanHolds, Within, Staged, Planned
  <2>7. OwedInv
    BY DEF Init, OwedInv, OwedHere, SavedOnce, ReceiptHolds, Running, SyncedIsPublished
  <2>. QED BY <2>1, <2>5, <2>6, <2>7
<1>2. Inv /\ [Next]_vars => Inv'
  BY StepType, StepWork, StepOwed
<1>3. Inv => SyncedIsPublished
  BY DEF OwedInv
<1>. QED BY <1>1, <1>2, <1>3, PTL DEF Spec

-----------------------------------------------------------------------------
(* Automatic writes overwrite no edit. *)

\* A target that is still to be written holds what the plan was made from, and one
\* that is still to be restored that or what was planned, unless it was edited since.
WritesCompared ==
  pc = "apply" => \A t \in todo \ raced : files.target[t] = plan.files.target[t]
RestoresCompared ==
  pc = "restore" => \A t \in todo \ raced : files.target[t] \in {plan.files.target[t], will[t]}
ComparedInv == WritesCompared /\ RestoresCompared

\* A step that touches neither the targets nor what they are compared with.
LEMMA ComparedKept ==
  ASSUME ComparedInv, \/ pc' \notin {"apply", "restore"}
                      \/ pc' = pc /\ UNCHANGED <<plan, will, todo, raced>> /\ files'.target = files.target
  PROVE  ComparedInv'
BY DEF ComparedInv, WritesCompared, RestoresCompared

\* One target is set, and is no longer to be compared.
LEMMA ComparedSet ==
  ASSUME TypeOK, ComparedInv, NEW t \in Targets, NEW n \in Nat, SetTarget(t, n),
         UNCHANGED <<pc, plan, will>>, todo' \ raced' \subseteq (todo \ raced) \ {t}
  PROVE  ComparedInv'
<1>1. files.target \in [Targets -> Nat] /\ todo \subseteq Targets
  BY TreeFields DEF TypeOK, Contents
<1>2. \A u \in Targets : u # t => files'.target[u] = files.target[u]
  BY <1>1 DEF SetTarget, Tree
<1>. QED BY <1>1, <1>2 DEF ComparedInv, WritesCompared, RestoresCompared

LEMMA StepCompared == TypeOK /\ ComparedInv /\ [Next]_vars => ComparedInv' /\ OverwritesOnlyRaced
<1> SUFFICES ASSUME TypeOK, ComparedInv, [Next]_vars
             PROVE  ComparedInv' /\ OverwritesOnlyRaced
  OBVIOUS
<1> USE DEF Goto, End, Tree
<1>a. ASSUME files'.target = files.target \/ pc \notin {"apply", "restore"} \/ stamp' # stamp
      PROVE  OverwritesOnlyRaced
  BY <1>a DEF OverwritesOnlyRaced
<1>1. CASE Start
  BY <1>a, <1>1, ComparedKept DEF Start, graph, refs, local, plans, command, history, bounds
<1>2. CASE CheckGuard
  BY <1>a, <1>2, ComparedKept DEF CheckGuard, graph, refs, local, plans, command, history, bounds
<1>3. CASE Fetch
  BY <1>a, <1>3, ComparedKept DEF Fetch, graph, refs, local, plans, command, history, bounds
<1>4. CASE Stash
  BY <1>a, <1>4, ComparedKept DEF Stash, graph, refs, local, plans, command, history, bounds
<1>5. CASE Pull
  BY <1>a, <1>5, ComparedKept DEF Pull, graph, refs, local, plans, command, history, bounds
<1>6. CASE PullRefused
  BY <1>a, <1>6, ComparedKept DEF PullRefused, graph, refs, local, plans, command, history, bounds
<1>7. CASE Pop
  BY <1>a, <1>7, ComparedKept DEF Pop, graph, refs, local, plans, command, history, bounds
<1>8. CASE PopConflicts
  BY <1>a, <1>8, ComparedKept DEF PopConflicts, graph, refs, local, plans, command, history, bounds
<1>9. CASE Recheck
  BY <1>a, <1>9, ComparedKept DEF Recheck, graph, refs, local, plans, command, history, bounds
<1>10. CASE Decide
  BY <1>a, <1>10, ComparedKept DEF Decide, graph, refs, local, plans, command, history, bounds
<1>11. CASE MakePlan
  BY <1>a, <1>11, ComparedKept DEF MakePlan, graph, refs, local, plans, command, history, bounds
<1>12. CASE PlanRefused
  BY <1>a, <1>12, ComparedKept DEF PlanRefused, graph, refs, local, plans, command, history, bounds
<1>13. CASE BaselineHolds
  BY <1>a, <1>13, ComparedKept DEF BaselineHolds, graph, refs, local, plans, command, history, bounds
<1>14. CASE Add
  BY <1>a, <1>14, ComparedKept DEF Add, graph, refs, local, plans, command, history, bounds
<1>15. CASE Stage
  BY <1>a, <1>15, ComparedKept DEF Stage, graph, refs, local, plans, command, history, bounds
<1>16. CASE Commit
  BY <1>a, <1>16, ComparedKept DEF Commit, MakeCommit, graph, refs, local, plans, command, history, bounds
<1>17. CASE CommitRefused
  BY <1>a, <1>17, ComparedKept DEF CommitRefused, graph, refs, local, plans, command, history, bounds
<1>18. CASE Check
  BY <1>a, <1>18, ComparedKept DEF Check, graph, refs, local, plans, command, history, bounds
<1>19. CASE Compare
  BY <1>a, <1>19, ComparedKept DEF Compare, graph, refs, local, plans, command, history, bounds
<1>20. CASE Identify
  BY <1>a, <1>20, ComparedKept DEF Identify, graph, refs, local, plans, command, history, bounds
<1>21. CASE Push
  BY <1>a, <1>21, ComparedKept DEF Push, graph, refs, local, plans, command, history, bounds
<1>22. CASE Pushed
  BY <1>a, <1>22, ComparedKept DEF Pushed, graph, refs, local, plans, command, history, bounds
<1>23. CASE Finish
  BY <1>a, <1>23, ComparedKept DEF Finish, graph, refs, local, plans, command, history, bounds
<1>24. CASE Receipt
  BY <1>a, <1>24, ComparedKept DEF Receipt, graph, refs, local, plans, command, history, bounds
<1>25. CASE RestoreIndex
  BY <1>a, <1>25, ComparedKept DEF RestoreIndex, graph, refs, local, plans, command, history, bounds
<1>26. CASE StepFails
  BY <1>a, <1>26, ComparedKept DEF StepFails, graph, refs, local, plans, command, history, bounds
<1>27. CASE FailsLate
  BY <1>a, <1>27, ComparedKept DEF FailsLate, graph, refs, local, plans, command, history, bounds
<1>28. CASE Crash
  BY <1>a, <1>28, ComparedKept DEF Crash, graph, refs, local, plans, command, history, bounds
<1>29. CASE HookRewrites
  BY <1>a, <1>29, ComparedKept DEF HookRewrites, MakeCommit, graph, refs, local, plans, command, history, bounds
<1>30. CASE UserAdd
  BY <1>a, <1>30, ComparedKept DEF UserAdd, graph, refs, local, plans, command, history, bounds
<1>31. CASE UserCommit
  BY <1>a, <1>31, ComparedKept DEF UserCommit, graph, refs, local, plans, command, history, bounds
<1>32. CASE UserReset
  BY <1>a, <1>32, ComparedKept DEF UserReset, graph, refs, local, plans, command, history, bounds
<1>33. CASE OtherPush
  BY <1>a, <1>33, ComparedKept DEF OtherPush, graph, refs, local, plans, command, history, bounds
<1>34. CASE DevelopStarts
  BY <1>a, <1>34, ComparedKept DEF DevelopStarts, graph, refs, local, plans, command, history, bounds
<1>35. CASE DevelopEnds
  BY <1>a, <1>35, ComparedKept DEF DevelopEnds, graph, refs, local, plans, command, history, bounds
<1>36. CASE UNCHANGED vars
  BY <1>a, <1>36, ComparedKept DEF vars, graph, refs, local, plans, command, history, bounds
<1>37. CASE Verify
  BY <1>a, <1>37 DEF Verify, Unchanged, ComparedInv, WritesCompared, RestoresCompared, graph, refs, local, plans, command, history, bounds
<1>38. CASE Undo
  <2>1. todo' \subseteq DOMAIN will /\ files' = files /\ UNCHANGED <<plan, will>> /\ pc' # "apply"
        /\ (pc' = "restore" => Untouched)
    BY <1>38 DEF Undo, local
  <2>. QED BY <1>a, <2>1 DEF Untouched, ComparedInv, WritesCompared, RestoresCompared
<1>39. CASE \E t \in Targets : ApplyWrite(t)
  <2>1. PICK t \in Targets : ApplyWrite(t)
    BY <1>39
  <2>2. /\ SetTarget(t, will[t]) /\ todo' = todo \ {t} /\ t \in todo /\ UNCHANGED <<pc, plan, will, raced, stamp>>
        /\ pc = "apply"
    BY <2>1 DEF ApplyWrite, history, bounds
  <2>3. will[t] \in Nat /\ todo \subseteq DOMAIN will /\ files.target \in [Targets -> Nat]
    BY <2>2, TreeFields DEF TypeOK, Contents
  <2>4. ComparedInv'
    BY <2>2, <2>3, ComparedSet
  <2>5. \A u \in Targets \ raced : files'.target[u] # files.target[u] => u = t
    BY <2>2, <2>3 DEF SetTarget
  <2>6. t \notin raced => files.target[t] \in {plan.files.target[t], will[t]}
    BY <2>2 DEF ComparedInv, WritesCompared
  <2>7. OverwritesOnlyRaced
    BY <2>2, <2>3, <2>5, <2>6 DEF OverwritesOnlyRaced
  <2>. QED BY <2>4, <2>7
<1>40. CASE \E t \in Targets : Restore(t)
  <2>1. PICK t \in Targets : Restore(t)
    BY <1>40
  <2>2. /\ SetTarget(t, plan.files.target[t]) /\ todo' = todo \ {t} /\ t \in todo /\ UNCHANGED <<pc, plan, will, raced, stamp>>
        /\ pc = "restore"
    BY <2>1 DEF Restore, history, bounds
  <2>3. plan.files.target[t] \in Nat /\ todo \subseteq DOMAIN will /\ files.target \in [Targets -> Nat]
    BY <2>2, TreeFields DEF TypeOK, Contents
  <2>4. ComparedInv'
    BY <2>2, <2>3, ComparedSet
  <2>5. \A u \in Targets \ raced : files'.target[u] # files.target[u] => u = t
    BY <2>2, <2>3 DEF SetTarget
  <2>6. t \notin raced => files.target[t] \in {plan.files.target[t], will[t]}
    BY <2>2 DEF ComparedInv, RestoresCompared
  <2>7. OverwritesOnlyRaced
    BY <2>2, <2>3, <2>5, <2>6 DEF OverwritesOnlyRaced
  <2>. QED BY <2>4, <2>7
<1>41. CASE Edit
  <2>0. stamp \in Nat /\ stamp' = stamp + 1 /\ UNCHANGED <<pc, plan, will, todo>>
    BY <1>41 DEF Edit, TypeOK, graph, refs, local, plans, command, history, bounds
  <2>1. OverwritesOnlyRaced
    BY <1>a, <2>0
  <2>2. CASE files' = Tree(files.work \cup {stamp'}, files.target, files.flaws) /\ UNCHANGED raced
    BY <2>0, <2>1, <2>2, ComparedKept
  <2>3. CASE \E t \in Targets : SetTarget(t, stamp') /\ raced' = raced \cup {t}
    <3>1. PICK t \in Targets : SetTarget(t, stamp') /\ raced' = raced \cup {t}
      BY <2>3
    <3>2. stamp' \in Nat /\ todo' \ raced' \subseteq (todo \ raced) \ {t}
      BY <2>0, <3>1
    <3>. QED BY <2>0, <2>1, <3>1, <3>2, ComparedSet
  <2>. QED BY <1>41, <2>2, <2>3 DEF Edit
<1>. QED
  BY <1>1, <1>2, <1>3, <1>4, <1>5, <1>6, <1>7, <1>8, <1>9, <1>10, <1>11, <1>12, <1>13, <1>14, <1>15, <1>16, <1>17, <1>18, <1>19, <1>20, <1>21, <1>22, <1>23, <1>24, <1>25, <1>26, <1>27, <1>28, <1>29, <1>30, <1>31, <1>32, <1>33, <1>34, <1>35, <1>36, <1>37, <1>38, <1>39, <1>40, <1>41
  DEF Next, Integrate, Publish, Rollback, Faults, Users

\* In the worktree, an automatic write and its rollback change a target only from what the
\* plan read or the run wrote, unless it was edited after the comparison before them.
THEOREM EditsSurvive == Spec => TargetEditsSurvive
<1>1. Init => ComparedInv
  BY DEF Init, ComparedInv, WritesCompared, RestoresCompared
<1>2. TypeOK /\ ComparedInv /\ [Next]_vars => ComparedInv' /\ OverwritesOnlyRaced
  BY StepCompared
<1>3. TypeOK /\ ComparedInv /\ [Next]_vars => [OverwritesOnlyRaced]_vars
  BY StepCompared
<1>. QED BY <1>1, <1>2, <1>3, TypeCorrect, PTL DEF Spec, TargetEditsSurvive
=============================================================================
