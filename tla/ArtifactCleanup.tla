--------------------------- MODULE ArtifactCleanup ---------------------------
(***************************************************************************)
(* cleanup: the deletion of everything below .runtime and .build that is   *)
(* no declared product, while other programs work: builds write outputs,   *)
(* and a development transaction holds project-sync.lock and keeps its     *)
(* journal there, both of them below .runtime.                             *)
(* Source: Plan (capture, verify, execute_inner) and Guard in              *)
(* source/core/src/artifact_cleanup.rs; command, eligible and build_policy *)
(* in source/workflow/src/artifact_cleanup.rs; FileLock in                 *)
(* source/core/src/file_lock.rs; the journal of                            *)
(* source/lifecycle/src/release/schema4/development.rs.                    *)
(*                                                                         *)
(* Files are opened as on Windows, where alone the code deletes: while a   *)
(* guard is open nobody can write, replace or remove its file, and a guard *)
(* cannot be opened while somebody has the file open for writing.  A walk  *)
(* over the files is one step: what it finds in files under a guard stays. *)
(* Left out: directories, links, running programs, the report.             *)
(***************************************************************************)
EXTENDS Naturals

CONSTANTS Workers,    \* processes that run development transactions
          Outputs,    \* files that builds and checks write
          MaxWrites,  \* bound: files written
          MaxFaults   \* bound: crashes and failing file operations

VARIABLES file,    \* path -> the version of its contents, or None
          keep,    \* outputs that the project declares as products
          wpc,     \* worker -> where it is
          handle,  \* worker -> the version of the lock file it has open
          cpc,     \* where the cleanup is
          policy,  \* the outputs to keep, as it read them
          plan,    \* path -> the version it is going to delete, or None
          guards,  \* the files it has open
          at,      \* the file in hand
          fresh,   \* history: paths written since the plan was made
          spared,  \* history: outputs declared when the files were last verified
          taken,   \* history: deleted files that it should have left alone
          writes, faults

cleanup == <<cpc, policy, plan, guards, at>>
worker == <<wpc, handle>>
history == <<fresh, spared, taken>>
bounds == <<writes, faults>>
vars == <<file, keep, worker, cleanup, history, bounds>>

Paths == Outputs \cup {"lock", "journal"}
None == 0
Nothing == [p \in Paths |-> None]
Versions == 0..MaxWrites

TypeOK ==
  /\ file \in [Paths -> Versions] /\ keep \subseteq Outputs
  /\ wpc \in [Workers -> {"idle", "opened", "held", "running"}]
  /\ handle \in [Workers -> Versions]
  /\ cpc \in {"idle", "policy", "capture", "eligible", "verify", "open", "recheck", "lock",
              "delete", "remove", "absent"}
  /\ policy \subseteq Outputs /\ plan \in [Paths -> Versions]
  /\ guards \subseteq Paths /\ at \subseteq Paths
  /\ fresh \subseteq Paths /\ spared \subseteq Outputs /\ taken \subseteq Paths
  /\ writes \in Versions /\ faults \in 0..MaxFaults

\* Some outputs are there; an earlier transaction may have left its journal.
Init ==
  /\ file \in {f \in [Paths -> {None, 1}] : f["lock"] = 1}
  /\ keep = {} /\ wpc = [w \in Workers |-> "idle"] /\ handle = [w \in Workers |-> None]
  /\ cpc = "idle" /\ policy = {} /\ plan = Nothing /\ guards = {} /\ at = {}
  /\ fresh = {} /\ spared = {} /\ taken = {} /\ writes = 1 /\ faults = 0

-----------------------------------------------------------------------------
(* Other programs. *)

\* A file is created or replaced; fresh contents are told from all earlier ones.
Put(p) ==
  /\ p \notin guards /\ writes < MaxWrites /\ writes' = writes + 1
  /\ file' = [file EXCEPT ![p] = writes'] /\ fresh' = fresh \cup {p}
Write(f) ==
  /\ Put(f)
  /\ UNCHANGED <<keep, worker, cleanup, spared, taken, faults>>

Declare ==
  /\ \E f \in Outputs : keep' = IF f \in keep THEN keep \ {f} ELSE keep \cup {f}
  /\ UNCHANGED <<file, worker, cleanup, history, bounds>>

WGoto(w, p) == wpc' = [wpc EXCEPT ![w] = p]
Holds(w) == wpc[w] \in {"held", "running"}

\* FileLock::acquire opens the lock file, creates it if there is none, and locks what
\* it has opened.
OpenLock(w) ==
  /\ wpc[w] = "idle" /\ "lock" \notin guards
  /\ IF file["lock"] = None THEN Put("lock")
                            ELSE UNCHANGED <<file, fresh, writes>>
  /\ handle' = [handle EXCEPT ![w] = file'["lock"]] /\ WGoto(w, "opened")
  /\ UNCHANGED <<keep, cleanup, spared, taken, faults>>
Locked(version) ==
  \/ \E w \in Workers : Holds(w) /\ handle[w] = version
  \/ cpc \in {"delete", "remove", "absent"} /\ "lock" \in guards /\ file["lock"] = version
TakeLock(w) ==
  /\ wpc[w] = "opened"
  /\ IF Locked(handle[w])
     THEN WGoto(w, "idle") /\ handle' = [handle EXCEPT ![w] = None]
     ELSE WGoto(w, "held") /\ UNCHANGED handle
  /\ UNCHANGED <<file, keep, cleanup, history, bounds>>

\* A transaction keeps a journal until it is done; one that finds the journal of another
\* recovers it.
Begin(w) ==
  /\ wpc[w] = "held" /\ file["journal"] = None
  /\ Put("journal") /\ WGoto(w, "running")
  /\ UNCHANGED <<keep, handle, cleanup, spared, taken, faults>>
EndJournal(w) ==
  /\ \/ wpc[w] = "running"
     \/ wpc[w] = "held" /\ file["journal"] # None
  /\ "journal" \notin guards
  /\ file' = [file EXCEPT !["journal"] = None] /\ WGoto(w, "held")
  /\ UNCHANGED <<keep, handle, cleanup, history, bounds>>
Release(w) ==
  /\ wpc[w] = "held"
  /\ WGoto(w, "idle") /\ handle' = [handle EXCEPT ![w] = None]
  /\ UNCHANGED <<file, keep, cleanup, history, bounds>>

-----------------------------------------------------------------------------
(* The cleanup. *)

Goto(p) == cpc' = p /\ UNCHANGED <<guards, at>>
\* Its guards are closed; what is deleted stays deleted.
GiveUp == cpc' = "idle" /\ guards' = {} /\ at' = {}

\* An unfinished transaction is none of its business, with or without a process.
Eligible ==
  /\ cpc = "idle" /\ file["journal"] = None /\ Goto("policy")
  /\ UNCHANGED <<file, keep, worker, policy, plan, history, bounds>>

ReadPolicy ==
  /\ cpc = "policy" /\ policy' = keep /\ Goto("capture")
  /\ UNCHANGED <<file, keep, worker, plan, history, bounds>>

Selected == [p \in Paths |-> IF p \in policy THEN None ELSE file[p]]
Targets == {p \in Paths : plan[p] # None}
Capture ==
  /\ cpc = "capture"
  /\ IF keep = policy THEN plan' = Selected /\ fresh' = {} /\ Goto("eligible")
                      ELSE GiveUp /\ UNCHANGED <<plan, fresh>>
  /\ UNCHANGED <<file, keep, worker, policy, spared, taken, bounds>>

\* Broken variant: the second look for an unfinished transaction is missing.
EligibleOnce ==
  /\ cpc = "eligible" /\ Goto("verify")
  /\ UNCHANGED <<file, keep, worker, policy, plan, history, bounds>>
EligibleAgain ==
  /\ cpc = "eligible"
  /\ IF file["journal"] = None THEN Goto("verify") ELSE GiveUp
  /\ UNCHANGED <<file, keep, worker, policy, plan, history, bounds>>

\* The files and the declarations are as they were.
AsPlanned == Selected = plan /\ keep = policy
Verify ==
  /\ cpc = "verify"
  /\ IF AsPlanned THEN Goto("open") ELSE GiveUp
  /\ UNCHANGED <<file, keep, worker, policy, plan, history, bounds>>

\* Lock files come last.
InTurn(p, S) == p \in S /\ (p = "lock" => S = {"lock"})
Busy(p) == p = "lock" /\ \E w \in Workers : handle[w] = file["lock"]
\* Broken variant: the lock file is opened beside other handles.
OpenShared(p) ==
  /\ cpc = "open" /\ InTurn(p, Targets \ guards)
  /\ IF file[p] = None THEN GiveUp
     ELSE guards' = guards \cup {p} /\ UNCHANGED <<cpc, at>>
  /\ UNCHANGED <<file, keep, worker, policy, plan, history, bounds>>
OpenGuard(p) ==
  /\ cpc = "open" /\ InTurn(p, Targets \ guards)
  /\ IF file[p] = None \/ Busy(p) THEN GiveUp
     ELSE guards' = guards \cup {p} /\ UNCHANGED <<cpc, at>>
  /\ UNCHANGED <<file, keep, worker, policy, plan, history, bounds>>
AllOpen ==
  /\ cpc = "open" /\ guards = Targets /\ Goto("recheck")
  /\ UNCHANGED <<file, keep, worker, policy, plan, history, bounds>>

Recheck ==
  /\ cpc = "recheck"
  /\ IF AsPlanned THEN Goto("lock") ELSE GiveUp
  /\ spared' = keep
  /\ UNCHANGED <<file, keep, worker, policy, plan, fresh, taken, bounds>>
LockFiles ==
  /\ cpc = "lock"
  /\ IF guards = {} \/ \E w \in Workers : Holds(w) /\ handle[w] = file["lock"]
     THEN GiveUp ELSE Goto("delete")
  /\ UNCHANGED <<file, keep, worker, policy, plan, history, bounds>>

Inspect(p) ==
  /\ cpc = "delete" /\ InTurn(p, guards)
  /\ IF file[p] = plan[p] THEN cpc' = "remove" /\ at' = {p} /\ UNCHANGED guards ELSE GiveUp
  /\ UNCHANGED <<file, keep, worker, policy, plan, history, bounds>>
Remove ==
  /\ cpc = "remove"
  /\ file' = [p \in Paths |-> IF p \in at THEN None ELSE file[p]]
  /\ taken' = taken \cup (at \cap (fresh \cup spared \cup {"journal"}))
  /\ guards' = guards \ at /\ cpc' = "absent" /\ UNCHANGED at
  /\ UNCHANGED <<keep, worker, policy, plan, fresh, spared, bounds>>
\* Somebody may have created the file again: the cleanup stops there.
RequireAbsent ==
  /\ cpc = "absent"
  /\ IF guards = {} \/ \E p \in at : file[p] # None THEN GiveUp ELSE Goto("delete")
  /\ UNCHANGED <<file, keep, worker, policy, plan, history, bounds>>

-----------------------------------------------------------------------------
(* Faults. *)

CleanupStops ==
  /\ cpc # "idle" /\ faults < MaxFaults /\ faults' = faults + 1
  /\ GiveUp
  /\ UNCHANGED <<file, keep, worker, policy, plan, history, writes>>
WorkerDies(w) ==
  /\ wpc[w] # "idle" /\ faults < MaxFaults /\ faults' = faults + 1
  /\ WGoto(w, "idle") /\ handle' = [handle EXCEPT ![w] = None]
  /\ UNCHANGED <<file, keep, cleanup, history, writes>>

Clean ==
  \/ Eligible \/ ReadPolicy \/ Capture \/ EligibleAgain \/ Verify \/ AllOpen \/ Recheck
  \/ LockFiles \/ Remove \/ RequireAbsent
  \/ \E p \in Paths : OpenGuard(p) \/ Inspect(p)
Work(w) ==
  OpenLock(w) \/ TakeLock(w) \/ Begin(w) \/ EndJournal(w) \/ Release(w) \/ WorkerDies(w)
Next ==
  \/ Clean \/ CleanupStops \/ Declare
  \/ \E f \in Outputs : Write(f)
  \/ \E w \in Workers : Work(w)
Spec == Init /\ [][Next]_vars

-----------------------------------------------------------------------------
(* Properties. *)

\* The cleanup deletes the lock file, and still no two processes ever hold the lock, one
\* of the deleted file and one of the file that took its place.
LocksExclude == \A v, w \in Workers : Holds(v) /\ Holds(w) => v = w

\* The cleanup deletes no file that was written after it was planned, no product that was
\* declared when it verified for the last time, and never the journal that an unfinished
\* transaction needs for its recovery.
OnlyPlannedGoes == taken = {}
=============================================================================
