----------------------------- MODULE MemoryQueue -----------------------------
(***************************************************************************)
(* The native-memory demand queue: lifecycle hooks record demand in        *)
(* pending.json and launch a hidden worker; one worker at a time drains    *)
(* the demand by reconciling; reconcile and resolve can also be run by     *)
(* hand.  Sources: source/memory/src/worker.rs, the worker commands of     *)
(* source/cli/src/memory_commands.rs and the locking shell of              *)
(* source/memory/src/remote.rs.  What a reconciliation does to the two     *)
(* trees is module MemorySync; here it moves a version number.             *)
(***************************************************************************)
EXTENDS Naturals

CONSTANTS Hooks,      \* hook-run / kick processes, one lifecycle event each
          Workers,    \* worker processes; a worker is named by its token
          Syncers,    \* reconcile commands run by hand
          Resolvers,  \* resolve commands run by hand
          None,       \* no token, no lock holder
          DrainLimit, \* reconciliations in one drain (16 in the code)
          MaxEdits,   \* bound: native writes after the start
          MaxFaults   \* bound: crashes and failing steps in one behaviour

ASSUME ActorsAssumption ==
  /\ Hooks \cap Workers = {}
  /\ (Hooks \cup Workers) \cap (Syncers \cup Resolvers) = {}
  /\ Syncers \cap Resolvers = {}
  /\ None \notin Hooks \cup Workers \cup Syncers \cup Resolvers
ASSUME BoundsAssumption ==
  /\ DrainLimit \in Nat \ {0}
  /\ MaxEdits \in Nat
  /\ MaxFaults \in Nat

Launchers == Hooks \cup Workers
Reconcilers == Workers \cup Syncers
Procs == Hooks \cup Workers \cup Syncers \cup Resolvers

VARIABLES pending,  \* pending.json: 0 when absent, else the time it was last written
          clock,    \* the time of the last write of pending.json
          res,      \* worker.json: its token, is a pid recorded, is it a pid-less one under 30 s old
          lock,     \* holder of reconcile.lock
          pc,       \* what each process does next
          seen,     \* the pending payload a reconciliation read before locking
          snap,     \* the memories version a reconciliation captured
          claim,    \* the token a launcher has reserved and not yet spawned
          passes,   \* reconciliations this worker has done
          outcome,  \* the action or error of the last reconciliation
          health,   \* health.json
          conflict, \* active-conflict.json: 0 when absent, else the version it captured
          local,    \* version of the native memories tree
          synced,   \* the version covered by the synced baseline
          faults    \* faults left
VARIABLE  marked    \* history: the memories version at the last recorded demand

files == <<pending, clock, res, health, conflict, local, synced, marked>>
procs == <<pc, seen, snap, claim, passes, outcome>>
vars == <<files, procs, lock, faults>>

\* A worker that has recorded its pid and has not yet released its reservation.
Reconciling == {"verify", "lock", "dedup", "capture", "decide", "clear", "finish", "ret"}
Draining == Reconciling \cup {"authorize", "release"}
\* Inside the critical section of reconcile.lock.
Locked == {"capture", "decide", "clear", "finish", "resolve"}
Phases == Draining \cup {"free", "born", "recheck", "launch", "spawn", "report", "idle",
                         "resolve", "done"}

NoReservation == [token |-> None, started |-> FALSE, fresh |-> FALSE]

\* Types, with the limit of a drain and pending.json never newer than the clock.
TypeOK ==
  /\ clock \in Nat /\ pending \in 0..clock
  /\ res \in [token : Workers \cup {None}, started : BOOLEAN, fresh : BOOLEAN]
  /\ lock \in Procs \cup {None}
  /\ pc \in [Procs -> Phases]
  /\ seen \in [Reconcilers -> Nat] /\ snap \in [Reconcilers -> Nat]
  /\ claim \in [Launchers -> Workers \cup {None}]
  /\ passes \in [Workers -> 0..DrainLimit]
  /\ outcome \in [Reconcilers -> {"synced", "busy", "conflicted", "error"}]
  /\ health \in {"none", "healthy", "failed", "conflicted"}
  /\ conflict \in Nat /\ local \in Nat /\ synced \in Nat /\ marked \in Nat
  /\ faults \in Nat

Init ==
  /\ pending = 0 /\ clock = 0 /\ conflict = 0
  /\ local = 1 /\ synced = 1 /\ marked = 1
  /\ res = NoReservation /\ lock = None /\ health = "none"
  /\ pc = [p \in Procs |-> IF p \in Workers THEN "free" ELSE "idle"]
  /\ seen = [p \in Reconcilers |-> 0] /\ snap = [p \in Reconcilers |-> 0]
  /\ claim = [p \in Launchers |-> None]
  /\ passes = [w \in Workers |-> 0]
  /\ outcome = [p \in Reconcilers |-> "synced"]
  /\ faults = MaxFaults

Goto(p, phase) == pc' = [pc EXCEPT ![p] = phase]
Fault == faults > 0 /\ faults' = faults - 1
NoFault == UNCHANGED faults

-----------------------------------------------------------------------------
(* pending.json and worker.json: each operation runs under the queue lock,
   so it is one step; a queue lock that stays busy for two seconds fails it. *)

MarkPending == /\ clock' = clock + 1
               /\ pending' = clock + 1
               /\ marked' = local

\* Broken variant: the payload is not compared.
ClearPendingAnyway(p) == pending' = 0 /\ UNCHANGED <<clock, marked>>

ClearPendingIfUnchanged(p) ==
  /\ pending' = IF seen[p] # 0 /\ pending = seen[p] THEN 0 ELSE pending
  /\ UNCHANGED <<clock, marked>>

\* Broken variant: a recorded pid counts as live for ever.
PidIsLive == /\ res.token # None
             /\ res.started \/ res.fresh

\* A recorded pid is live while its process is; before that, for 30 seconds.
WorkerIsLive == /\ res.token # None
                /\ IF res.started THEN pc[res.token] # "free" ELSE res.fresh

\* Tokens never repeat: a free worker's token may be issued when no file and
\* no process mentions it.
FreshToken(w) == /\ pc[w] = "free"
                 /\ res.token # w
                 /\ \A l \in Launchers : claim[l] # w

ReleaseWorker(w) == res' = IF res.token = w THEN NoReservation ELSE res

-----------------------------------------------------------------------------
(* Lifecycle hooks and launching.                                          *)

AfterLaunch(p) == IF p \in Workers THEN "report" ELSE "done"

\* hook-run, kick: record the demand before looking for a worker.
HookMark(h) ==
  /\ pc[h] = "idle"
  /\ MarkPending
  /\ Goto(h, "launch")
  /\ UNCHANGED <<res, health, conflict, local, synced, lock, seen, snap, claim, passes, outcome>>
  /\ NoFault

HookMarkFails(h) ==
  /\ pc[h] = "idle" /\ Fault
  /\ health' = "failed"
  /\ Goto(h, "done")
  /\ UNCHANGED <<pending, clock, res, conflict, local, synced, marked, lock, seen, snap, claim,
                 passes, outcome>>

\* reserve_worker: a live reservation is reused, any other is replaced.
ReuseWorker(p) ==
  /\ pc[p] = "launch" /\ WorkerIsLive
  /\ Goto(p, AfterLaunch(p))
  /\ UNCHANGED <<files, lock, seen, snap, claim, passes, outcome>>
  /\ NoFault

ReserveWorker(p) ==
  /\ pc[p] = "launch" /\ ~WorkerIsLive
  /\ \E w \in Workers :
       /\ FreshToken(w)
       /\ res' = [token |-> w, started |-> FALSE, fresh |-> TRUE]
       /\ claim' = [claim EXCEPT ![p] = w]
  /\ Goto(p, "spawn")
  /\ UNCHANGED <<pending, clock, health, conflict, local, synced, marked, lock, seen, snap,
                 passes, outcome>>
  /\ NoFault

\* The launch failed: a hook reports it at once, a worker in its own outcome.
LaunchFailed(p) ==
  /\ IF p \in Workers
     THEN outcome' = [outcome EXCEPT ![p] = "error"] /\ UNCHANGED health
     ELSE health' = "failed" /\ UNCHANGED outcome
  /\ Goto(p, AfterLaunch(p))

ReserveFails(p) ==
  /\ pc[p] = "launch" /\ Fault
  /\ LaunchFailed(p)
  /\ UNCHANGED <<pending, clock, res, conflict, local, synced, marked, lock, seen, snap, claim,
                 passes>>

Spawn(p) ==
  /\ pc[p] = "spawn"
  /\ pc' = [pc EXCEPT ![p] = AfterLaunch(p), ![claim[p]] = "born"]
  /\ claim' = [claim EXCEPT ![p] = None]
  /\ UNCHANGED <<files, lock, seen, snap, passes, outcome>>
  /\ NoFault

SpawnFails(p) ==
  /\ pc[p] = "spawn" /\ Fault
  /\ ReleaseWorker(claim[p])
  /\ claim' = [claim EXCEPT ![p] = None]
  /\ LaunchFailed(p)
  /\ UNCHANGED <<pending, clock, conflict, local, synced, marked, lock, seen, snap, passes>>

\* The 30 second start grace of a reservation without a pid runs out.
GraceExpires ==
  /\ res.fresh /\ ~res.started
  /\ res' = [token |-> res.token, started |-> FALSE, fresh |-> FALSE]
  /\ UNCHANGED <<pending, clock, health, conflict, local, synced, marked, procs, lock>>
  /\ NoFault

-----------------------------------------------------------------------------
(* The worker process around its reconciliations.                          *)

\* Broken variant: any worker records its pid.
WorkerStartUnchecked(w) ==
  /\ pc[w] = "born"
  /\ res' = [token |-> res.token, started |-> TRUE, fresh |-> FALSE]
  /\ Goto(w, "authorize")
  /\ passes' = [passes EXCEPT ![w] = 0]
  /\ outcome' = [outcome EXCEPT ![w] = "synced"]
  /\ UNCHANGED <<pending, clock, health, conflict, local, synced, marked, lock, seen, snap,
                 claim>>
  /\ NoFault

\* mark_worker_started: only the reservation's own token may record a pid.
WorkerStart(w) ==
  /\ pc[w] = "born"
  /\ IF res.token = w
     THEN /\ res' = [token |-> w, started |-> TRUE, fresh |-> FALSE]
          /\ Goto(w, "authorize")
     ELSE Goto(w, "free") /\ UNCHANGED res
  /\ passes' = [passes EXCEPT ![w] = 0]
  /\ outcome' = [outcome EXCEPT ![w] = "synced"]
  /\ UNCHANGED <<pending, clock, health, conflict, local, synced, marked, lock, seen, snap,
                 claim>>
  /\ NoFault

WorkerStartFails(w) ==
  /\ pc[w] = "born" /\ Fault
  /\ Goto(w, "free")
  /\ UNCHANGED <<files, lock, seen, snap, claim, passes, outcome>>

Authorize(w) ==
  /\ pc[w] = "authorize"
  /\ Goto(w, "verify")
  /\ UNCHANGED <<files, lock, seen, snap, claim, passes, outcome>>
  /\ NoFault

AuthorizeFails(w) ==
  /\ pc[w] = "authorize" /\ Fault
  /\ ReleaseWorker(w)
  /\ outcome' = [outcome EXCEPT ![w] = "error"]
  /\ Goto(w, "report")
  /\ UNCHANGED <<pending, clock, health, conflict, local, synced, marked, lock, seen, snap,
                 claim, passes>>

\* drain_pending: reconcile again while demand is left, at most DrainLimit times.
DrainAgain(w) ==
  /\ pc[w] = "ret"
  /\ passes' = [passes EXCEPT ![w] = @ + 1]
  /\ IF outcome[w] = "synced" /\ pending # 0 /\ passes[w] + 1 < DrainLimit
     THEN Goto(w, "verify")
     ELSE Goto(w, "release")
  /\ UNCHANGED <<files, lock, seen, snap, claim, outcome>>
  /\ NoFault

Release(w) ==
  /\ pc[w] = "release"
  /\ ReleaseWorker(w)
  /\ Goto(w, "recheck")
  /\ UNCHANGED <<pending, clock, health, conflict, local, synced, marked, lock, seen, snap,
                 claim, passes, outcome>>
  /\ NoFault

ReleaseFails(w) ==
  /\ pc[w] = "release" /\ Fault
  /\ outcome' = [outcome EXCEPT ![w] = "error"]
  /\ Goto(w, "report")
  /\ UNCHANGED <<files, lock, seen, snap, claim, passes>>

\* Broken variant: no recheck after the release.
NoRecheck(w) ==
  /\ pc[w] = "recheck"
  /\ Goto(w, "report")
  /\ UNCHANGED <<files, lock, seen, snap, claim, passes, outcome>>
  /\ NoFault

\* Demand that came after the last drain check is launched again, unless the
\* drain ended busy, conflicted or in an error.
Recheck(w) ==
  /\ pc[w] = "recheck"
  /\ IF outcome[w] = "synced" /\ pending # 0
     THEN Goto(w, "launch")
     ELSE Goto(w, "report")
  /\ UNCHANGED <<files, lock, seen, snap, claim, passes, outcome>>
  /\ NoFault

\* memory_operation_outcome, then exit: busy leaves health.json alone.
Report(p) ==
  /\ pc[p] = "report"
  /\ \/ outcome[p] = "synced" /\ health' = "healthy"
     \/ outcome[p] = "conflicted" /\ health' = "conflicted"
     \/ outcome[p] = "error" /\ health' = "failed"
     \/ outcome[p] = "busy" /\ UNCHANGED health
  /\ Goto(p, IF p \in Workers THEN "free" ELSE "done")
  /\ UNCHANGED <<pending, clock, res, conflict, local, synced, marked, lock, seen, snap, claim,
                 passes, outcome>>
  /\ NoFault

-----------------------------------------------------------------------------
(* One reconciliation, by a worker or by hand.                             *)

Finished(p, result) == outcome' = [outcome EXCEPT ![p] = result]
AfterReconcile(p) == IF p \in Workers THEN "ret" ELSE "report"

SyncerStart(s) ==
  /\ pc[s] = "idle"
  /\ Goto(s, "verify")
  /\ UNCHANGED <<files, lock, seen, snap, claim, passes, outcome>>
  /\ NoFault

\* The pending payload is read after the remote is verified, before the lock.
ReadPending(p) ==
  /\ pc[p] = "verify"
  /\ seen' = [seen EXCEPT ![p] = pending]
  /\ Goto(p, "lock")
  /\ UNCHANGED <<files, lock, snap, claim, passes, outcome>>
  /\ NoFault

VerifyFails(p) ==
  /\ pc[p] = "verify" /\ Fault
  /\ Finished(p, "error")
  /\ Goto(p, AfterReconcile(p))
  /\ UNCHANGED <<files, lock, seen, snap, claim, passes>>

TryLock(p) ==
  /\ pc[p] = "lock"
  /\ IF lock = None
     THEN lock' = p /\ Goto(p, "capture")
     ELSE UNCHANGED lock /\ Goto(p, "dedup")
  /\ UNCHANGED <<files, seen, snap, claim, passes, outcome>>
  /\ NoFault

Deduplicate(p) ==
  /\ pc[p] = "dedup"
  /\ MarkPending
  /\ Finished(p, "busy")
  /\ Goto(p, AfterReconcile(p))
  /\ UNCHANGED <<res, health, conflict, local, synced, lock, seen, snap, claim, passes>>
  /\ NoFault

DeduplicateFails(p) ==
  /\ pc[p] = "dedup" /\ Fault
  /\ Finished(p, "error")
  /\ Goto(p, AfterReconcile(p))
  /\ UNCHANGED <<files, lock, seen, snap, claim, passes>>

Capture(p) ==
  /\ pc[p] = "capture"
  /\ snap' = [snap EXCEPT ![p] = local]
  /\ Goto(p, "decide")
  /\ UNCHANGED <<files, lock, seen, claim, passes, outcome>>
  /\ NoFault

\* The remote already holds what was captured.
SyncNoop(p) ==
  /\ pc[p] = "decide" /\ snap[p] = synced
  /\ Goto(p, "clear")
  /\ UNCHANGED <<files, lock, seen, snap, claim, passes, outcome>>
  /\ NoFault

\* Publication, restoration and merge all recheck the tree they captured.
SyncPublish(p) ==
  /\ pc[p] = "decide" /\ snap[p] # synced /\ local = snap[p]
  /\ synced' = snap[p]
  /\ Goto(p, "clear")
  /\ UNCHANGED <<pending, clock, res, health, conflict, local, marked, lock, seen, snap, claim,
                 passes, outcome>>
  /\ NoFault

LocalChanged(p) ==
  /\ pc[p] = "decide" /\ snap[p] # synced /\ local # snap[p]
  /\ Finished(p, "error")
  /\ Goto(p, "finish")
  /\ UNCHANGED <<files, lock, seen, snap, claim, passes>>
  /\ NoFault

\* Another computer changed the same path.
SyncConflict(p) ==
  /\ pc[p] = "decide" /\ snap[p] # synced
  /\ conflict' = snap[p]
  /\ Finished(p, "conflicted")
  /\ Goto(p, "finish")
  /\ UNCHANGED <<pending, clock, res, health, local, synced, marked, lock, seen, snap, claim,
                 passes>>
  /\ NoFault

SyncFails(p) ==
  /\ pc[p] \in {"capture", "decide", "clear"} /\ Fault
  /\ Finished(p, "error")
  /\ Goto(p, "finish")
  /\ UNCHANGED <<files, lock, seen, snap, claim, passes>>

ClearPending(p) ==
  /\ pc[p] = "clear"
  /\ ClearPendingIfUnchanged(p)
  /\ Finished(p, "synced")
  /\ Goto(p, "finish")
  /\ UNCHANGED <<res, health, conflict, local, synced, lock, seen, snap, claim, passes>>
  /\ NoFault

\* The locals of the call that returns.
Forget(p) == /\ seen' = [seen EXCEPT ![p] = 0]
             /\ snap' = [snap EXCEPT ![p] = 0]

\* A result other than a conflict clears the active conflict; the work
\* directory is removed; the lock is dropped on return.
Finish(p) ==
  /\ pc[p] = "finish"
  /\ conflict' = IF outcome[p] = "synced" THEN 0 ELSE conflict
  /\ lock' = None
  /\ Forget(p)
  /\ Goto(p, AfterReconcile(p))
  /\ UNCHANGED <<pending, clock, res, health, local, synced, marked, claim, passes, outcome>>
  /\ NoFault

\* The work directory cannot be removed: demand is recorded again.
FinishFails(p) ==
  /\ pc[p] = "finish" /\ Fault
  /\ MarkPending
  /\ conflict' = IF outcome[p] = "synced" THEN 0 ELSE conflict
  /\ Finished(p, "error")
  /\ lock' = None
  /\ Forget(p)
  /\ Goto(p, AfterReconcile(p))
  /\ UNCHANGED <<res, health, local, synced, claim, passes>>

-----------------------------------------------------------------------------
(* resolve, the native writer and crashes.                                 *)

ResolveBusy(r) ==
  /\ pc[r] = "idle" /\ conflict # 0 /\ lock # None
  /\ health' = "failed"
  /\ Goto(r, "done")
  /\ UNCHANGED <<pending, clock, res, conflict, local, synced, marked, lock, seen, snap, claim,
                 passes, outcome>>
  /\ NoFault

ResolveStart(r) ==
  /\ pc[r] = "idle" /\ conflict # 0 /\ lock = None
  /\ lock' = r
  /\ Goto(r, "resolve")
  /\ UNCHANGED <<files, seen, snap, claim, passes, outcome>>
  /\ NoFault

\* The captured local tree must still be in place; the resolved tree is pushed,
\* restored and recorded.  resolve never clears pending.json: it passes None.
Resolve(r) ==
  /\ pc[r] = "resolve"
  /\ lock' = None
  /\ IF local = conflict
     THEN /\ local' = local + 1 /\ synced' = local + 1
          /\ conflict' = 0 /\ health' = "healthy"
     ELSE health' = "failed" /\ UNCHANGED <<local, synced, conflict>>
  /\ Goto(r, "done")
  /\ UNCHANGED <<pending, clock, res, marked, seen, snap, claim, passes, outcome>>
  /\ NoFault

NativeEdit ==
  /\ local <= MaxEdits
  /\ local' = local + 1
  /\ UNCHANGED <<pending, clock, res, health, conflict, synced, marked, procs, lock>>
  /\ NoFault

\* A process dies; the system drops the lock it held.
Crash(p) ==
  /\ pc[p] \notin {"free", "idle", "done"} /\ Fault
  /\ Goto(p, IF p \in Workers THEN "free" ELSE "done")
  /\ lock' = IF lock = p THEN None ELSE lock
  /\ claim' = IF p \in Launchers THEN [claim EXCEPT ![p] = None] ELSE claim
  /\ UNCHANGED <<files, seen, snap, passes, outcome>>

-----------------------------------------------------------------------------
HookStep(h) == HookMark(h) \/ HookMarkFails(h)
LaunchStep(p) == \/ ReuseWorker(p) \/ ReserveWorker(p) \/ ReserveFails(p)
                 \/ Spawn(p) \/ SpawnFails(p)
WorkerStep(w) == \/ WorkerStart(w) \/ WorkerStartFails(w)
                 \/ Authorize(w) \/ AuthorizeFails(w)
                 \/ DrainAgain(w) \/ Release(w) \/ ReleaseFails(w) \/ Recheck(w)
ReconcileStep(p) == \/ ReadPending(p) \/ VerifyFails(p) \/ TryLock(p)
                    \/ Deduplicate(p) \/ DeduplicateFails(p)
                    \/ Capture(p) \/ SyncNoop(p) \/ SyncPublish(p)
                    \/ LocalChanged(p) \/ SyncConflict(p) \/ SyncFails(p)
                    \/ ClearPending(p) \/ Finish(p) \/ FinishFails(p) \/ Report(p)
ResolveStep(r) == ResolveBusy(r) \/ ResolveStart(r) \/ Resolve(r)

Next == \/ \E h \in Hooks : HookStep(h)
        \/ \E p \in Launchers : LaunchStep(p)
        \/ \E w \in Workers : WorkerStep(w)
        \/ \E s \in Syncers : SyncerStart(s)
        \/ \E p \in Reconcilers : ReconcileStep(p)
        \/ \E r \in Resolvers : ResolveStep(r)
        \/ \E p \in Procs : Crash(p)
        \/ GraceExpires
        \/ NativeEdit

Spec == Init /\ [][Next]_vars

\* A process that has started keeps running unless it crashes, and clocks
\* advance.  Nothing obliges the user or the host to start another command.
Running(p) == \/ p \in Launchers /\ LaunchStep(p)
              \/ p \in Workers /\ WorkerStep(p)
              \/ p \in Reconcilers /\ ReconcileStep(p)
              \/ p \in Resolvers /\ Resolve(p)
Fairness == /\ \A p \in Procs : WF_vars(Running(p))
            /\ WF_vars(GraceExpires)
FairSpec == Spec /\ Fairness

-----------------------------------------------------------------------------
(* Properties.                                                             *)

\* At most one worker is between recording its pid and releasing its
\* reservation, however launches, expiring start graces and crashes interleave
\* (reserve_worker, mark_worker_started and release_worker compare tokens).
SingleDrainer ==
  \A v, w \in Workers : pc[v] \in Draining /\ pc[w] \in Draining => v = w

\* Demand disappears from pending.json only when the synced baseline covers
\* the memories as they were when the last demand was recorded: a trigger that
\* arrives during a synchronization survives it.
NoLostTrigger == pending = 0 => synced >= marked

\* Recorded demand is eventually consumed with no other hook needed, unless a
\* conflict waits for the user, or a drain ended in an error or a process died, which
\* the next lifecycle event makes up for (drain_pending rechecks pending.json after it
\* has released the reservation, so a demand at the tail of a drain is not missed).
TailDemandHandled ==
  pending # 0 ~> \/ pending = 0
                 \/ conflict # 0
                 \/ \E w \in Workers : outcome[w] = "error"
                 \/ faults < MaxFaults

\* Whatever crashes, a live reservation ends: no stale worker.json blocks
\* launching for ever.
ReservationYields == WorkerIsLive ~> ~WorkerIsLive
=============================================================================
