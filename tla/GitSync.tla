------------------------------- MODULE GitSync -------------------------------
(***************************************************************************)
(* git-sync: integrate the remote, write what a release needs, commit what *)
(* is in the worktree, push it and say whether everything is synchronized. *)
(* Source: sync_impl, check_release_commit_guard, RepositoryIdentity and   *)
(* restore_snapshots_guarded in source/workflow/src/git_sync.rs.           *)
(*                                                                         *)
(* It takes no lock: users edit, stage, commit and reset at any time, other*)
(* computers push, a development transaction may run.  Two git-syncs in one*)
(* repository are outside its contract.                                    *)
(*                                                                         *)
(* A tree holds the set of edits that reached it, the contents of the      *)
(* automatic targets (version files, release log) and its flaws: conflict  *)
(* markers, and the candidate versions of an open development transaction. *)
(***************************************************************************)
EXTENDS Naturals

CONSTANTS Targets,      \* files a release or a factory sync writes
          MaxCommits,   \* bound: commits
          Reserve,      \* bound: commits not made by users
          MaxEdits,     \* bound: contents made by users, computers and plans
          MaxFaults,    \* bound: crashes, failing steps, hooks that object, resets
          MaxDevelops,  \* bound: development transactions
          MaxChanges    \* bound: contents and development transactions together

ASSUME CommitsAssumption == MaxCommits \in Nat \ {0}
ASSUME BoundsAssumption == {Reserve, MaxEdits, MaxFaults, MaxDevelops, MaxChanges} \subseteq Nat

VARIABLES made, parent, past, tree,  \* the commits, and those reachable from each
          head, origin, tracking,    \* HEAD, the branch on the remote, its copy here
          files, index, unmerged,    \* the worktree and the index
          stash,                     \* entries: commit and worktree
          journal,                   \* a development transaction is open
          guard,                     \* commit-guard.json: no guard, or parent and tree
          pc, mode,                  \* the running git-sync
          dirty,                     \* what its last git status said
          saved,                     \* the entry it stashed
          plan,                      \* HEAD, index and worktree it planned from
          will,                      \* contents planned for the targets
          todo,                      \* targets still to be written or restored
          expect,                    \* the index it expects
          identity,                  \* the HEAD it may push, once there is one
          result,                    \* of the last git-sync
          owed,      \* history: edits here when it started
          raced,     \* history: targets edited since it last compared them
          rewritten, \* history: commits it made that are not what it verified
          stamp, faults, develops

graph == <<made, parent, past, tree>>
refs == <<head, origin, tracking>>
local == <<files, index, unmerged, stash>>
plans == <<plan, will, todo, expect>>
command == <<pc, mode, dirty, saved, plans, identity, result>>
history == <<owed, raced, rewritten>>
bounds == <<stamp, faults, develops>>
vars == <<graph, refs, local, journal, guard, command, history, bounds>>

\* Bounds: another content may be made.
CanChange == stamp < MaxEdits /\ stamp + develops < MaxChanges

Ids == 1..MaxCommits
Contents == [Targets -> Nat]
Tree(w, t, f) == [work |-> w, target |-> t, flaws |-> f]
Trees == [work : SUBSET Nat, target : Contents, flaws : SUBSET {"conflict", "candidate"}]
Plan(h, i, f) == [head |-> h, index |-> i, files |-> f]
Made == 1..made

Pcs == {"idle", "guard", "fetch", "stash", "pull", "pop", "recheck", "decide", "plan",
        "verify", "apply", "add", "stage", "commit", "check", "compare", "identity",
        "push", "pushed", "finish", "receipt", "undo", "restore"}
Modes == {"sync", "local", "remote", "release"}

TypeOK ==
  /\ made \in Ids
  /\ parent \in [Ids -> 0..MaxCommits] /\ past \in [Ids -> SUBSET Ids] /\ tree \in [Ids -> Trees]
  /\ head \in Made /\ origin \in Made /\ tracking \in Made
  /\ files \in Trees /\ index \in Trees /\ unmerged \in BOOLEAN
  /\ stash \subseteq Ids \X Trees
  /\ journal \in BOOLEAN
  /\ guard \subseteq Ids \X Trees
  /\ pc \in Pcs /\ mode \in Modes /\ dirty \in BOOLEAN
  /\ saved \subseteq stash
  /\ plan \in [head : Made, index : Trees, files : Trees]
  /\ DOMAIN will \subseteq Targets /\ will \in [DOMAIN will -> Nat] /\ todo \subseteq DOMAIN will
  /\ expect \in Trees
  /\ identity \subseteq Made
  /\ result \in {"none", "running", "blocked", "ready", "synced", "remaining"}
  /\ owed \subseteq Nat /\ raced \subseteq Targets /\ rewritten \subseteq Made
  /\ stamp \in Nat /\ faults \in Nat /\ develops \in Nat

Empty == Tree({}, [t \in Targets |-> 0], {})
Init ==
  /\ made = 1 /\ parent = [c \in Ids |-> 0] /\ past = [c \in Ids |-> {c}]
  /\ tree = [c \in Ids |-> Empty]
  /\ head = 1 /\ origin = 1 /\ tracking = 1
  /\ files = Empty /\ index = Empty /\ unmerged = FALSE /\ stash = {}
  /\ journal = FALSE /\ guard = {}
  /\ pc = "idle" /\ mode = "sync" /\ dirty = FALSE /\ saved = {}
  /\ plan = Plan(1, Empty, Empty) /\ will = [t \in {} |-> 0] /\ todo = {} /\ expect = Empty
  /\ identity = {} /\ result = "none"
  /\ owed = {} /\ raced = {} /\ rewritten = {}
  /\ stamp = 0 /\ faults = 0 /\ develops = 0

-----------------------------------------------------------------------------
(* Git. *)

Dirty == files # tree[head] \/ index # tree[head] \/ unmerged
Ahead == past[head] \ past[tracking] # {}
Behind == past[tracking] \ past[head] # {}

\* A new commit on top of commit p with tree x.
NewCommit(p, x) ==
  /\ made < MaxCommits
  /\ made' = made + 1
  /\ parent' = [parent EXCEPT ![made'] = p]
  /\ past' = [past EXCEPT ![made'] = past[p] \cup {made'}]
  /\ tree' = [tree EXCEPT ![made'] = x]

\* What x, a change of base, becomes on top of new.
Merge(x, base, new) ==
  Tree(x.work \cup new.work,
       [t \in Targets |-> IF x.target[t] = base.target[t] THEN new.target[t] ELSE x.target[t]],
       (x.flaws \ base.flaws) \cup new.flaws)
Overlap(x, base, new) ==
  \E t \in Targets : x.target[t] # base.target[t] /\ new.target[t] # base.target[t]

Goto(p) == pc' = p /\ UNCHANGED result
End(outcome) == pc' = "idle" /\ result' = outcome

-----------------------------------------------------------------------------
(* Integration of the remote. *)

\* Refused while a development transaction is open.
Start ==
  /\ pc = "idle" /\ ~journal
  /\ mode' \in Modes
  /\ pc' = "guard" /\ result' = "running"
  /\ saved' = {} /\ identity' = {} /\ raced' = {}
  /\ owed' = files.work \cup tree[head].work
  /\ UNCHANGED <<graph, refs, local, journal, guard, dirty, plans, rewritten, bounds>>

\* Broken variant: the tree of the commit is not compared.
AcceptedAnyTree(g) == head = g[1] \/ parent[head] = g[1]
Accepted(g) == head = g[1] \/ (parent[head] = g[1] /\ tree[head] = g[2])

\* A guard left behind: the commit it was written for must be as verified.
CheckGuard ==
  /\ pc = "guard"
  /\ IF \A g \in guard : Accepted(g) THEN guard' = {} /\ Goto("fetch")
                                     ELSE End("blocked") /\ UNCHANGED guard
  /\ UNCHANGED <<graph, refs, local, journal, mode, dirty, saved, plans, identity,
                 history, bounds>>

\* Broken variant: the branch of the remote is not fetched.
FetchNothing == UNCHANGED tracking
\* --skip-fetch keeps the copy of the remote branch as it is.
FetchBranch == tracking' = origin \/ (mode # "sync" /\ UNCHANGED tracking)

Fetch ==
  /\ pc = "fetch"
  /\ FetchBranch
  /\ dirty' = Dirty
  /\ UNCHANGED <<graph, head, origin, local, journal, guard, mode, saved, plans, identity,
                 history, bounds>>
  /\ \/ Ahead' /\ Behind' /\ End("blocked")
     \/ Behind' /\ ~Ahead' /\ Goto(IF Dirty THEN "stash" ELSE "pull")
     \/ ~Behind' /\ Goto("decide")

Stash ==
  /\ pc = "stash"
  /\ IF unmerged THEN End("blocked") /\ UNCHANGED <<local, saved>>
     ELSE /\ saved' = IF Dirty THEN {<<head, files>>} ELSE {}
          /\ stash' = stash \cup saved'
          /\ files' = tree[head] /\ index' = tree[head]
          /\ Goto("pull") /\ UNCHANGED unmerged
  /\ UNCHANGED <<graph, refs, journal, guard, mode, dirty, plans, identity, history, bounds>>

\* pull --ff-only fetches again.
Pull ==
  /\ pc = "pull"
  /\ head \in past[origin] /\ ~Overlap(files, tree[head], tree[origin])
  /\ head' = origin /\ tracking' = origin
  /\ files' = Merge(files, tree[head], tree[origin])
  /\ index' = Merge(index, tree[head], tree[origin])
  /\ Goto(IF saved = {} THEN "recheck" ELSE "pop")
  /\ UNCHANGED <<graph, origin, unmerged, stash, journal, guard, mode, dirty, saved, plans,
                 identity, history, bounds>>

\* Not a fast-forward, or changes made meanwhile are in its way.
PullRefused ==
  /\ pc = "pull"
  /\ head \notin past[origin] \/ Dirty
  /\ tracking' = origin
  /\ End("blocked")
  /\ UNCHANGED <<graph, head, origin, local, journal, guard, mode, dirty, saved, plans,
                 identity, history, bounds>>

Pop ==
  /\ pc = "pop"
  /\ \E s \in saved :
       /\ ~Overlap(s[2], tree[s[1]], files)
       /\ files' = Merge(s[2], tree[s[1]], files)
       /\ stash' = stash \ {s}
  /\ saved' = {} /\ Goto("recheck")
  /\ UNCHANGED <<graph, refs, index, unmerged, journal, guard, mode, dirty, plans, identity,
                 history, bounds>>

\* The entry is kept, and conflict markers are left in the worktree.
PopConflicts ==
  /\ pc = "pop"
  /\ \E s \in saved :
       /\ s[1] # head
       /\ files' = Tree(files.work \cup s[2].work, files.target, files.flaws \cup {"conflict"})
  /\ unmerged' = TRUE
  /\ End("blocked")
  /\ UNCHANGED <<graph, refs, index, stash, journal, guard, mode, dirty, saved, plans, identity,
                 history, bounds>>

Recheck ==
  /\ pc = "recheck"
  /\ dirty' = Dirty
  /\ IF Ahead /\ Behind THEN End("blocked") ELSE Goto("decide")
  /\ UNCHANGED <<graph, refs, local, journal, guard, mode, saved, plans, identity, history, bounds>>

\* --sync-remote ends here; a clean worktree has nothing to commit.
Decide ==
  /\ pc = "decide"
  /\ IF mode = "remote" THEN End(IF Behind THEN "blocked" ELSE "ready")
     ELSE Goto(IF dirty \/ mode = "release" THEN "plan" ELSE "compare")
  /\ UNCHANGED <<graph, refs, local, journal, guard, mode, dirty, saved, plans, identity,
                 history, bounds>>

-----------------------------------------------------------------------------
(* Automatic writes and the commit. *)

\* A release writes some of the targets, a factory sync may.
MakePlan ==
  /\ pc = "plan"
  /\ plan' = Plan(head, index, files)
  /\ \E W \in SUBSET Targets :
       /\ mode = "release" => W # {}
       /\ W # {} => CanChange
       /\ todo' = W
       /\ will' = [t \in W |-> stamp + 1]
       /\ stamp' = IF W = {} THEN stamp ELSE stamp + 1
  /\ identity' = {head} /\ Goto("verify")
  /\ UNCHANGED <<graph, refs, local, journal, guard, mode, dirty, saved, expect, history,
                 faults, develops>>

\* A release that has no version to write, or no coverage for it.
PlanRefused ==
  /\ pc = "plan" /\ mode = "release"
  /\ End("blocked")
  /\ UNCHANGED <<graph, refs, local, journal, guard, mode, dirty, saved, plans, identity,
                 history, bounds>>

\* HEAD, the index, the targets and what a release was computed from still are
\* as they were planned from.
Unchanged ==
  /\ head = plan.head /\ index = plan.index
  /\ \A t \in todo : files.target[t] = plan.files.target[t]
  /\ mode = "release" => files = plan.files
Verify ==
  /\ pc = "verify"
  /\ IF Unchanged THEN Goto("apply") ELSE End("blocked")
  /\ raced' = {} /\ expect' = index
  /\ UNCHANGED <<graph, refs, local, journal, guard, mode, dirty, saved, plan, will, todo,
                 identity, owed, rewritten, bounds>>

SetTarget(t, value) ==
  files' = Tree(files.work, [files.target EXCEPT ![t] = value], files.flaws)

ApplyWrite(t) ==
  /\ pc = "apply" /\ t \in todo
  /\ SetTarget(t, will[t]) /\ todo' = todo \ {t}
  /\ UNCHANGED <<graph, refs, index, unmerged, stash, journal, guard, pc, mode, dirty, saved,
                 plan, will, expect, identity, result, history, bounds>>

\* The baseline of the project is verified after the writes.
BaselineHolds ==
  /\ pc = "apply" /\ todo = {}
  /\ Goto("add")
  /\ UNCHANGED <<graph, refs, local, journal, guard, mode, dirty, saved, plans, identity,
                 history, bounds>>

\* git add . resolves every conflict as it is in the worktree.
Add ==
  /\ pc = "add"
  /\ index' = files /\ unmerged' = FALSE
  /\ Goto("stage")
  /\ UNCHANGED <<graph, refs, files, stash, journal, guard, mode, dirty, saved, plans, identity,
                 history, bounds>>

\* Nothing staged: no commit.  Otherwise the index has to be the worktree, up to
\* new files, and the guard says what the commit must be.
Stage ==
  /\ pc = "stage" /\ ~unmerged
  /\ expect' = index
  /\ \/ index = tree[head] /\ Goto("compare") /\ UNCHANGED <<guard, todo>>
     \/ /\ index # tree[head] /\ files.target = index.target
        /\ guard' = {<<plan.head, index>>}
        /\ Goto("commit") /\ UNCHANGED todo
     \/ /\ index # tree[head] /\ files # index
        /\ Goto("undo") /\ UNCHANGED <<guard, todo>>
  /\ UNCHANGED <<graph, refs, local, journal, mode, dirty, saved, plan, will, identity,
                 history, bounds>>

\* git commit takes HEAD and the index as they are when it runs.
MakeCommit(x) ==
  /\ NewCommit(head, x)
  /\ head' = made'
  /\ rewritten' = IF head = plan.head /\ x = expect THEN rewritten ELSE rewritten \cup {made'}
  /\ Goto("check")
Commit ==
  /\ pc = "commit" /\ ~unmerged /\ index # tree[head]
  /\ MakeCommit(index)
  /\ UNCHANGED <<origin, tracking, local, journal, guard, mode, dirty, saved, plans, identity,
                 owed, raced, bounds>>

\* git commit has nothing to commit, or conflicts.
CommitRefused ==
  /\ pc = "commit" /\ (unmerged \/ index = tree[head])
  /\ IF index = expect THEN Goto("undo") ELSE End("blocked")
  /\ UNCHANGED <<graph, refs, local, journal, guard, mode, dirty, saved, plans, identity,
                 history, bounds>>

\* A commit hook may change what is committed.
HookRewrites ==
  /\ pc = "commit" /\ ~unmerged /\ faults < MaxFaults /\ CanChange
  /\ stamp' = stamp + 1 /\ faults' = faults + 1
  /\ index' = Tree(index.work \cup {stamp'}, index.target, index.flaws)
  /\ files' = Tree(files.work \cup {stamp'}, files.target, files.flaws)
  /\ MakeCommit(index')
  /\ UNCHANGED <<origin, tracking, unmerged, stash, journal, guard, mode, dirty, saved, plans,
                 identity, owed, raced, develops>>

\* Parent and tree of HEAD, and the guard once more; then HEAD may be pushed.
Check ==
  /\ pc = "check"
  /\ IF parent[head] = plan.head /\ tree[head] = expect /\ \A g \in guard : Accepted(g)
     THEN guard' = {} /\ identity' = {head} /\ Goto("compare")
     ELSE End("blocked") /\ UNCHANGED <<guard, identity>>
  /\ UNCHANGED <<graph, refs, local, journal, mode, dirty, saved, plans, history, bounds>>

-----------------------------------------------------------------------------
(* Rollback of the automatic writes and the index. *)

\* Broken variant: the written files are not compared.
UntouchedIndex == head = plan.head /\ index = expect
Untouched ==
  /\ head = plan.head /\ index = expect
  /\ \A t \in DOMAIN will : files.target[t] \in {plan.files.target[t], will[t]}

\* Nothing is restored unless everything still is as it was left.
Undo ==
  /\ pc = "undo"
  /\ IF Untouched THEN Goto("restore") ELSE End("blocked")
  /\ todo' = DOMAIN will /\ raced' = {}
  /\ UNCHANGED <<graph, refs, local, journal, guard, mode, dirty, saved, plan, will, expect,
                 identity, owed, rewritten, bounds>>

Restore(t) ==
  /\ pc = "restore" /\ t \in todo
  /\ SetTarget(t, plan.files.target[t]) /\ todo' = todo \ {t}
  /\ UNCHANGED <<graph, refs, index, unmerged, stash, journal, guard, pc, mode, dirty, saved,
                 plan, will, expect, identity, result, history, bounds>>

RestoreIndex ==
  /\ pc = "restore" /\ todo = {}
  /\ index' = plan.index
  /\ End("blocked")
  /\ UNCHANGED <<graph, refs, files, unmerged, stash, journal, guard, mode, dirty, saved, plans,
                 identity, history, bounds>>

-----------------------------------------------------------------------------
(* Push and receipt. *)

Compare ==
  /\ pc = "compare"
  /\ IF Behind THEN End("blocked")
     ELSE Goto(IF Ahead /\ mode # "local" THEN "identity" ELSE "finish")
  /\ UNCHANGED <<graph, refs, local, journal, guard, mode, dirty, saved, plans, identity,
                 history, bounds>>

\* HEAD is the commit this run has verified, or the one it found.
Identify ==
  /\ pc = "identity"
  /\ IF identity \subseteq {head} THEN identity' = {head} /\ Goto("push")
                                  ELSE End("blocked") /\ UNCHANGED identity
  /\ UNCHANGED <<graph, refs, local, journal, guard, mode, dirty, saved, plans, history, bounds>>

\* The remote accepts fast-forwards only.
Push ==
  /\ pc = "push"
  /\ IF origin \in past[head] THEN origin' = head /\ tracking' = head /\ Goto("pushed")
                              ELSE End("blocked") /\ UNCHANGED <<origin, tracking>>
  /\ UNCHANGED <<graph, head, local, journal, guard, mode, dirty, saved, plans, identity,
                 history, bounds>>

Pushed ==
  /\ pc = "pushed"
  /\ IF identity = {head} THEN Goto("finish") ELSE End("blocked")
  /\ UNCHANGED <<graph, refs, local, journal, guard, mode, dirty, saved, plans, identity,
                 history, bounds>>

Finish ==
  /\ pc = "finish"
  /\ dirty' = Dirty
  /\ Goto("receipt")
  /\ UNCHANGED <<graph, refs, local, journal, guard, mode, saved, plans, identity,
                 history, bounds>>

\* Broken variant: commits that are not published do not count.
ReceiptAnyAhead ==
  /\ pc = "receipt"
  /\ End(IF dirty \/ Behind THEN "remaining" ELSE "synced")
  /\ UNCHANGED <<graph, refs, local, journal, guard, mode, dirty, saved, plans, identity,
                 history, bounds>>
Receipt ==
  /\ pc = "receipt"
  /\ End(IF dirty \/ Ahead \/ Behind THEN "remaining" ELSE "synced")
  /\ UNCHANGED <<graph, refs, local, journal, guard, mode, dirty, saved, plans, identity,
                 history, bounds>>

-----------------------------------------------------------------------------
(* Faults, users and other computers. *)

\* A Git command fails or times out, a write fails, a hook rejects the commit,
\* a baseline is not met.  Some had their effect all the same.
StepFails ==
  /\ faults < MaxFaults /\ faults' = faults + 1
  /\ \/ /\ pc \in {"fetch", "stash", "pull", "pop", "recheck", "plan", "verify", "check",
                   "compare", "identity", "push", "pushed", "finish", "receipt", "restore"}
        /\ End("blocked")
     \/ /\ pc \in {"apply", "add", "stage"} \/ (pc = "commit" /\ index = expect)
        /\ Goto("undo")
  /\ UNCHANGED <<graph, refs, local, journal, guard, mode, dirty, saved, plans, identity,
                 history, stamp, develops>>

\* The commit is made, the push arrives, or files are staged, and the command
\* reports a failure.
FailsLate ==
  /\ faults < MaxFaults /\ faults' = faults + 1
  /\ \/ /\ pc = "commit" /\ head = plan.head /\ index = expect
        /\ NewCommit(head, index) /\ head' = made' /\ Goto("undo")
        /\ UNCHANGED <<origin, tracking, index>>
     \/ /\ pc = "push" /\ origin \in past[head]
        /\ origin' = head /\ End("blocked")
        /\ UNCHANGED <<graph, head, tracking, index>>
     \/ /\ pc = "add" /\ ~unmerged
        /\ index' = files /\ Goto("undo")
        /\ UNCHANGED <<graph, refs>>
  /\ UNCHANGED <<files, unmerged, stash, journal, guard, mode, dirty, saved, plans, identity,
                 history, stamp, develops>>

Crash ==
  /\ pc # "idle" /\ faults < MaxFaults
  /\ faults' = faults + 1 /\ End("none")
  /\ UNCHANGED <<graph, refs, local, journal, guard, mode, dirty, saved, plans, identity,
                 history, stamp, develops>>

Edit ==
  /\ CanChange
  /\ stamp' = stamp + 1
  /\ \/ /\ files' = Tree(files.work \cup {stamp'}, files.target, files.flaws)
        /\ UNCHANGED raced
     \/ \E t \in Targets : SetTarget(t, stamp') /\ raced' = raced \cup {t}
  /\ UNCHANGED <<graph, refs, index, unmerged, stash, journal, guard, command, owed,
                 rewritten, faults, develops>>

\* Conflict markers are edited away, and the result is staged.
UserAdd ==
  /\ files' = Tree(files.work, files.target, files.flaws \ {"conflict"})
  /\ index' = files' /\ unmerged' = FALSE
  /\ UNCHANGED <<graph, refs, stash, journal, guard, command, history, bounds>>

\* (Bound: users leave Reserve commits to git-sync.)
UserCommit ==
  /\ made + Reserve < MaxCommits /\ ~unmerged /\ index # tree[head] /\ index.flaws = {}
  /\ NewCommit(head, index) /\ head' = made'
  /\ UNCHANGED <<origin, tracking, local, journal, guard, command, history, bounds>>

\* git reset --soft HEAD~ takes an unpublished commit back.
UserReset ==
  /\ faults < MaxFaults /\ faults' = faults + 1
  /\ head \notin past[origin] /\ head \notin past[tracking]
  /\ head' = parent[head] /\ owed' = owed \cap tree[head'].work
  /\ UNCHANGED <<graph, origin, tracking, local, journal, guard, command, raced, rewritten,
                 stamp, develops>>

\* Another computer publishes an edit.
OtherPush ==
  /\ CanChange /\ stamp' = stamp + 1
  /\ \E W \in SUBSET Targets :
       NewCommit(origin, Tree(tree[origin].work \cup {stamp'},
                              [t \in Targets |-> IF t \in W THEN stamp' ELSE tree[origin].target[t]],
                              tree[origin].flaws))
  /\ origin' = made'
  /\ UNCHANGED <<head, tracking, local, journal, guard, command, history, faults, develops>>

\* A development transaction writes candidates into the worktree, and takes them
\* back or records them.
DevelopStarts ==
  /\ ~journal /\ develops < MaxDevelops /\ stamp + develops < MaxChanges
  /\ develops' = develops + 1 /\ journal' = TRUE
  /\ files' = Tree(files.work, files.target, files.flaws \cup {"candidate"})
  /\ UNCHANGED <<graph, refs, index, unmerged, stash, guard, command, history, stamp, faults>>
DevelopEnds ==
  /\ journal /\ "candidate" \in files.flaws
  /\ journal' = FALSE
  /\ files' = Tree(files.work, files.target, files.flaws \ {"candidate"})
  /\ UNCHANGED <<graph, refs, index, unmerged, stash, guard, command, history, bounds>>

Integrate ==
  \/ CheckGuard \/ Fetch \/ Stash \/ Pull \/ PullRefused \/ Pop \/ PopConflicts
  \/ Recheck \/ Decide
Publish ==
  \/ MakePlan \/ PlanRefused \/ Verify \/ (\E t \in Targets : ApplyWrite(t)) \/ BaselineHolds \/ Add
  \/ Stage \/ Commit \/ CommitRefused \/ Check
  \/ Compare \/ Identify \/ Push \/ Pushed \/ Finish \/ Receipt
Rollback == Undo \/ (\E t \in Targets : Restore(t)) \/ RestoreIndex
Faults == StepFails \/ FailsLate \/ Crash \/ HookRewrites
Users == Edit \/ UserAdd \/ UserCommit \/ UserReset \/ OtherPush \/ DevelopStarts \/ DevelopEnds
Next == Start \/ Integrate \/ Publish \/ Rollback \/ Faults \/ Users

Spec == Init /\ [][Next]_vars

\* A git-sync that runs goes on, and its user runs it again.
FairSpec == Spec /\ WF_vars(Integrate \/ Publish \/ Rollback) /\ SF_vars(Start /\ mode' = "sync")

-----------------------------------------------------------------------------
(* Properties. *)

\* A commit of git-sync that is not what it verified (a hook changed it, or HEAD or
\* the index moved under it) never reaches the remote, whatever crashes, fails or
\* is committed on top, in this run or a later one.
OnlyVerifiedPushed == past[origin] \cap rewritten = {}

\* "synced" means published: everything that was in the worktree or in HEAD when the
\* run started is in the branch on the remote, unless its user took it back.
SyncedIsPublished == result = "synced" => owed \subseteq tree[origin].work

\* In the worktree, the automatic writes of a run and their rollback change a target only
\* from what the plan read or from what the run itself wrote.  A target that was edited
\* after the comparison before them (raced) is exempt: such an edit is overwritten unread.
\* The index is not spoken of: staging and the rollback of the index replace what it has.
OverwritesOnlyRaced ==
  pc \in {"apply", "restore"} /\ stamp' = stamp =>
    \A t \in Targets \ raced :
      files'.target[t] # files.target[t] =>
        t \in DOMAIN will /\ files.target[t] \in {plan.files.target[t], will[t]}
TargetEditsSurvive == [][OverwritesOnlyRaced]_vars

\* A conflict stops the synchronization and is left to its user.
ConflictsStayLocal == \A c \in past[origin] : "conflict" \notin tree[c].flaws

\* While a development transaction is open nothing of it is published.
CandidatesStayLocal == \A c \in past[origin] : "candidate" \notin tree[c].flaws

\* Repeated runs end with everything published, or with something that only a user
\* decides: a diverged branch, a conflict, a stash, a commit the guard refuses.
AllPublished == ~Dirty /\ head = origin
UserDecides ==
  \/ unmerged \/ stash # {} \/ journal
  \/ head \notin past[origin] /\ origin \notin past[head]
  \/ \E g \in guard : ~Accepted(g)
SyncSettles == <>[](AllPublished \/ UserDecides)
=============================================================================
