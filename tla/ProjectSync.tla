----------------------------- MODULE ProjectSync -----------------------------
(***************************************************************************)
(* The project synchronization: a plan is shown and confirmed, then applied*)
(* under the project lock as a transaction over files, with the version    *)
(* stamp last and a rollback when a step fails.  Other programs, that take *)
(* no lock, edit the files at any time; there is no journal, so a crash    *)
(* leaves what was written.                                                *)
(* Source: build_plan_with_inputs, apply_plan_internal and the file        *)
(* operations of source/workflow/src/project_sync.rs, the command in       *)
(* source/cli/src/lib.rs, the verification of the installed baseline in    *)
(* source/skeleton/src/baseline.rs.                                        *)
(*                                                                         *)
(* Paths are numbered in the order of the plan's map.  The content of a    *)
(* path is that of a version, an edit, or Gone.  Left out: rendering,      *)
(* blockers, the decisions of a destructive rebuild, empty directories.    *)
(***************************************************************************)
EXTENDS Naturals

CONSTANTS Procs,       \* project-sync commands
          N,           \* number of managed paths
          Stamp,       \* the path of the version stamp
          Retired,     \* paths that every version later than the first removes
          MaxVersion,  \* bound: versions of the product
          MaxEdits,    \* bound: edits by other programs
          MaxFaults    \* bound: crashes and failing file operations

Paths == 1..N
ASSUME PathsAssumption == N \in Nat /\ Stamp \in Paths /\ Retired \subseteq Paths \ {Stamp}
ASSUME BoundsAssumption == MaxVersion \in Nat \ {0} /\ MaxEdits \in Nat /\ MaxFaults \in Nat

VARIABLES file,    \* path -> content
          lock,    \* the holder of project-sync.lock, if any
          pc,
          target,  \* the version a command installs
          plan,    \* what its plan read: the confirmed state of every path
          todo,    \* paths left in the loop it is in
          at,      \* the path in hand
          done,    \* expected_after: the paths it has changed
          errs,    \* rollback_errors: the paths its rollback leaves to others
          told,    \* history: paths reported as not rolled back since the last success
          result,
          raced,   \* history: edits between the last look at a path and its replacement
          cut,     \* history: a rollback was cut short by a crash
          edits, faults

wish == <<target, plan>>
loop == <<todo, at, done, errs>>
reports == <<result, told>>
ghosts == <<raced, cut>>
bounds == <<edits, faults>>
vars == <<file, lock, pc, wish, loop, reports, ghosts, bounds>>

Gone == 0
Versions == 1..MaxVersion
Products == 2..MaxVersion   \* the versions a command installs
Edits == (MaxVersion + 1)..(MaxVersion + MaxEdits)
Contents == 0..(MaxVersion + MaxEdits)
Want(v, q) == IF q \in Retired THEN Gone ELSE v

TypeOK ==
  /\ file \in [Paths -> Contents] /\ lock \subseteq Procs /\ (\A p, r \in lock : p = r)
  /\ pc \in [Procs -> {"idle", "shown", "lock", "check", "write", "put", "delete", "remove",
                       "stamp", "putstamp", "final", "undo", "restore"}]
  /\ target \in [Procs -> Contents] /\ plan \in [Procs -> [Paths -> Contents]]
  /\ todo \in [Procs -> SUBSET Paths] /\ at \in [Procs -> Paths]
  /\ done \in [Procs -> SUBSET Paths] /\ errs \in [Procs -> SUBSET Paths] /\ told \subseteq Paths
  /\ result \in {"none", "applied", "rolledback", "incomplete"}
  /\ raced \subseteq Edits /\ cut \in BOOLEAN /\ edits \in 0..MaxEdits /\ faults \in Nat

\* A new project, or one of the first version.
Init ==
  /\ file \in {[q \in Paths |-> Gone], [q \in Paths |-> 1]}
  /\ lock = {} /\ pc = [p \in Procs |-> "idle"] /\ target = [p \in Procs |-> Gone]
  /\ plan = [p \in Procs |-> [q \in Paths |-> Gone]]
  /\ todo = [p \in Procs |-> {}]
  /\ at = [p \in Procs |-> Stamp] /\ done = [p \in Procs |-> {}]
  /\ errs = [p \in Procs |-> {}] /\ told = {}
  /\ result = "none"
  /\ raced = {} /\ cut = FALSE /\ edits = 0 /\ faults = 0

Goto(p, l) == pc' = [pc EXCEPT ![p] = l]
Wanted(p, q) == Want(target[p], q)
\* Broken variant: a stamp of the version stands for all of its files.
WritesOfUpdate(p) ==
  {q \in Paths \ Retired : plan[p][q] # target[p] /\ plan[p][Stamp] # target[p]}
Writes(p) == {q \in Paths \ Retired : plan[p][q] # target[p]}
Deletes(p) == {q \in Retired : plan[p][q] # Gone}
Holds(p, S) == \A q \in S : file[q] = Wanted(p, q)

First(S) == {q \in S : \A r \in S : q <= r}
Last(S) == {q \in S : \A r \in S : r <= q}

\* The command ends: what it held in memory is gone.
Exit(p) ==
  /\ Goto(p, "idle")
  /\ target' = [target EXCEPT ![p] = Gone] /\ plan' = [plan EXCEPT ![p] = [q \in Paths |-> Gone]]
  /\ todo' = [todo EXCEPT ![p] = {}] /\ at' = [at EXCEPT ![p] = Stamp]
  /\ done' = [done EXCEPT ![p] = {}] /\ errs' = [errs EXCEPT ![p] = {}]
End(p, r) ==
  /\ Exit(p) /\ lock' = lock \ {p} /\ result' = r
  /\ told' = IF r = "applied" THEN {} ELSE IF r = "incomplete" THEN told \cup errs[p] ELSE told

\* Broken variant: the rollback leaves the deleted files.
FailWrites(p) ==
  /\ Goto(p, "undo") /\ todo' = [todo EXCEPT ![p] = Writes(p) \cup {Stamp}]
\* The rollback goes over everything that was captured.
Fail(p) ==
  /\ Goto(p, "undo")
  /\ todo' = [todo EXCEPT ![p] = Writes(p) \cup Deletes(p) \cup {Stamp}]

-----------------------------------------------------------------------------
(* Plan and confirmation. *)

\* A project of a later version is refused, and a retired file that somebody changed
\* is a gap: no confirmation applies such a plan.
Show(p, v) ==
  /\ pc[p] = "idle" /\ v \in Products /\ file[Stamp] <= v
  /\ \A q \in Retired : file[q] \notin Edits
  /\ plan' = [plan EXCEPT ![p] = file] /\ target' = [target EXCEPT ![p] = v]
  /\ Goto(p, "shown")
  /\ UNCHANGED <<file, lock, loop, reports, ghosts, bounds>>

\* apply plans again; its fingerprint must be the confirmed one.
Apply(p) ==
  /\ pc[p] = "shown"
  /\ IF file = plan[p] THEN Goto(p, "lock") /\ UNCHANGED <<wish, loop>> ELSE Exit(p)
  /\ UNCHANGED <<file, lock, reports, ghosts, bounds>>

Acquire(p) ==
  /\ pc[p] = "lock"
  /\ IF lock = {} THEN lock' = {p} /\ Goto(p, "check") /\ UNCHANGED <<wish, loop>>
                  ELSE Exit(p) /\ UNCHANGED lock
  /\ UNCHANGED <<file, reports, ghosts, bounds>>

-----------------------------------------------------------------------------
(* The transaction. *)

\* Broken variant: nothing is compared again, and the stamp is one of the files.
PrepareAll(p) ==
  /\ pc[p] = "check" /\ Goto(p, "write") /\ todo' = [todo EXCEPT ![p] = Writes(p)]
  /\ UNCHANGED <<file, lock, wish, at, done, errs, reports, ghosts, bounds>>
\* Under the lock everything the plan read is compared again and captured.
Prepare(p) ==
  /\ pc[p] = "check"
  /\ \/ /\ file = plan[p] /\ Writes(p) \cup Deletes(p) # {}
        /\ Goto(p, "write") /\ todo' = [todo EXCEPT ![p] = Writes(p) \ {Stamp}]
        /\ UNCHANGED <<lock, wish, at, done, errs, reports>>
     \/ file = plan[p] /\ Writes(p) \cup Deletes(p) = {} /\ End(p, "applied")
     \/ file # plan[p] /\ End(p, "none")
  /\ UNCHANGED <<file, ghosts, bounds>>

\* write_unchanged_file and delete_unchanged_file look, then act.
Look(p, q, act) ==
  /\ at' = [at EXCEPT ![p] = q]
  /\ IF file[q] = plan[p][q] THEN Goto(p, act) /\ UNCHANGED todo ELSE Fail(p)
Change(p, next) ==
  /\ file' = [file EXCEPT ![at[p]] = Wanted(p, at[p])]
  /\ done' = [done EXCEPT ![p] = @ \cup {at[p]}]
  /\ todo' = [todo EXCEPT ![p] = @ \ {at[p]}]
  /\ Goto(p, next)

Write(p) ==
  /\ pc[p] = "write" /\ \E q \in First(todo[p]) : Look(p, q, "put")
  /\ UNCHANGED <<file, lock, wish, done, errs, reports, ghosts, bounds>>
Put(p) ==
  /\ pc[p] = "put" /\ Change(p, "write")
  /\ UNCHANGED <<lock, wish, at, errs, reports, ghosts, bounds>>

\* verify_written_payloads, then the deletions, in no particular order.
Written(p) ==
  /\ pc[p] = "write" /\ todo[p] = {}
  /\ IF Holds(p, Writes(p) \ {Stamp})
       THEN Goto(p, "delete") /\ todo' = [todo EXCEPT ![p] = Deletes(p)]
       ELSE Fail(p)
  /\ UNCHANGED <<file, lock, wish, at, done, errs, reports, ghosts, bounds>>
Delete(p) ==
  /\ pc[p] = "delete" /\ \E q \in todo[p] : Look(p, q, "remove")
  /\ UNCHANGED <<file, lock, wish, done, errs, reports, ghosts, bounds>>
Remove(p) ==
  /\ pc[p] = "remove" /\ Change(p, "delete")
  /\ UNCHANGED <<lock, wish, at, errs, reports, ghosts, bounds>>

\* The prospective baseline: every asset of the version but its stamp.
Deleted(p) ==
  /\ pc[p] = "delete" /\ todo[p] = {}
  /\ IF Holds(p, Paths \ (Retired \cup {Stamp})) THEN Goto(p, "stamp") /\ UNCHANGED todo
                                                 ELSE Fail(p)
  /\ UNCHANGED <<file, lock, wish, at, done, errs, reports, ghosts, bounds>>
WriteStamp(p) ==
  /\ pc[p] = "stamp" /\ Look(p, Stamp, "putstamp")
  /\ UNCHANGED <<file, lock, wish, done, errs, reports, ghosts, bounds>>
PutStamp(p) ==
  /\ pc[p] = "putstamp" /\ Change(p, "final")
  /\ UNCHANGED <<lock, wish, at, errs, reports, ghosts, bounds>>

\* The evidence of the verification and everything written or deleted.
Finish(p) ==
  /\ pc[p] = "final"
  /\ IF Holds(p, (Paths \ Retired) \cup done[p])
       THEN End(p, "applied")
       ELSE Fail(p) /\ UNCHANGED <<lock, wish, at, done, errs, reports>>
  /\ UNCHANGED <<file, ghosts, bounds>>

-----------------------------------------------------------------------------
(* The rollback, from the last path to the first. *)

Pass(p, q, report) ==
  /\ todo' = [todo EXCEPT ![p] = @ \ {q}] /\ errs' = [errs EXCEPT ![p] = @ \cup report]
  /\ Goto(p, "undo")

\* Broken variant: the rollback does not look whose content is there.
UndoAll(p) ==
  /\ pc[p] = "undo"
  /\ \E q \in Last(todo[p]) :
       /\ at' = [at EXCEPT ![p] = q]
       /\ IF file[q] = plan[p][q] THEN Pass(p, q, {})
                                 ELSE Goto(p, "restore") /\ UNCHANGED <<todo, errs>>
  /\ UNCHANGED <<file, lock, wish, done, reports, ghosts, bounds>>
Undo(p) ==
  /\ pc[p] = "undo"
  /\ \E q \in Last(todo[p]) :
       /\ at' = [at EXCEPT ![p] = q]
       /\ \/ file[q] = plan[p][q] /\ Pass(p, q, {})
          \/ /\ file[q] # plan[p][q] /\ q \in done[p] /\ file[q] = Wanted(p, q)
             /\ Goto(p, "restore") /\ UNCHANGED <<todo, errs>>
          \/ /\ file[q] # plan[p][q] /\ (q \notin done[p] \/ file[q] # Wanted(p, q))
             /\ Pass(p, q, {q})
  /\ UNCHANGED <<file, lock, wish, done, reports, ghosts, bounds>>
Restore(p) ==
  /\ pc[p] = "restore"
  /\ file' = [file EXCEPT ![at[p]] = plan[p][at[p]]]
  /\ Pass(p, at[p], {})
  /\ UNCHANGED <<lock, wish, at, done, reports, ghosts, bounds>>
Undone(p) ==
  /\ pc[p] = "undo" /\ todo[p] = {}
  /\ End(p, IF errs[p] = {} THEN "rolledback" ELSE "incomplete")
  /\ UNCHANGED <<file, ghosts, bounds>>

-----------------------------------------------------------------------------
(* Faults and other programs. *)

Fault == faults < MaxFaults /\ faults' = faults + 1

StepFails(p) ==
  /\ pc[p] \in {"put", "remove", "putstamp"} /\ Fault /\ Fail(p)
  /\ UNCHANGED <<file, lock, wish, at, done, errs, reports, ghosts, edits>>
RestoreFails(p) ==
  /\ pc[p] = "restore" /\ Fault /\ Pass(p, at[p], {at[p]})
  /\ UNCHANGED <<file, lock, wish, at, done, reports, ghosts, edits>>

\* The process dies; the system gives the lock back.
Crash(p) ==
  /\ pc[p] # "idle" /\ Fault
  /\ Exit(p) /\ lock' = lock \ {p}
  /\ cut' = (cut \/ pc[p] \in {"undo", "restore"})
  /\ UNCHANGED <<file, reports, raced, edits>>

\* Nothing but this command writes the version stamp.
Edit(q) ==
  /\ q # Stamp /\ edits < MaxEdits /\ edits' = edits + 1
  /\ LET e == MaxVersion + edits' IN
     /\ file' = [file EXCEPT ![q] = e]
     /\ raced' = IF \E p \in Procs : pc[p] \in {"put", "remove", "restore"} /\ at[p] = q
                   THEN raced \cup {e} ELSE raced
  /\ UNCHANGED <<lock, pc, wish, loop, reports, cut, faults>>

Run(p) ==
  \/ Apply(p) \/ Acquire(p) \/ Prepare(p) \/ Write(p) \/ Put(p) \/ Written(p)
  \/ Delete(p) \/ Remove(p) \/ Deleted(p) \/ WriteStamp(p) \/ PutStamp(p) \/ Finish(p)
  \/ Undo(p) \/ Restore(p) \/ Undone(p)
Next ==
  \/ \E p \in Procs : \/ Run(p) \/ StepFails(p) \/ RestoreFails(p) \/ Crash(p)
                      \/ \E v \in Products : Show(p, v)
  \/ \E q \in Paths : Edit(q)
Spec == Init /\ [][Next]_vars

\* A command that runs goes on, and somebody plans and confirms again.
FairSpec ==
  Spec /\ \A p \in Procs : WF_vars(Run(p)) /\ WF_vars(\E v \in Products : Show(p, v))

-----------------------------------------------------------------------------
(* Properties. *)

\* A command replaces an edit only when the plan that was confirmed had read it, or
\* when the edit slipped in between the last look at the file and its replacement.
EditsSurvive ==
  [][\A q \in Paths : file[q] \in Edits /\ file'[q] # file[q] /\ edits' = edits =>
       \/ file[q] \in raced
       \/ \E p \in lock : plan[p][q] = file[q]]_vars

\* A transaction reported as rolled back leaves every path as its plan read it, or to
\* somebody who edited it since.
RollbackRestores ==
  [][\A p \in Procs : Undone(p) /\ result' = "rolledback" =>
       \A q \in Paths : file[q] = plan[p][q] \/ file[q] \in Edits]_vars

\* While nothing runs, no path is behind the version in the stamp, unless the rollback
\* said that it could not restore it.
Behind(q) ==
  IF q \in Retired THEN file[q] \in Versions /\ file[Stamp] > 1
                   ELSE file[q] < file[Stamp]
NoFalseUpgrade ==
  lock = {} /\ Stamp \notin told => \A q \in Paths \ told : ~Behind(q)
UncutNoFalseUpgrade == ~cut => NoFalseUpgrade

\* However commands crash and race, repeated synchronization ends with one version
\* installed as a whole, but for a retired file that somebody changed, which waits for
\* its user.
Installed(v) ==
  /\ \A q \in Paths \ Retired : file[q] = v
  /\ \A q \in Retired : file[q] = Gone
GetsInstalled ==
  <>[]((\E v \in Products : Installed(v)) \/ \E q \in Retired : file[q] \in Edits)
=============================================================================
