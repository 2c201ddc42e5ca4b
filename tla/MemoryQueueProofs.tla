------------------------- MODULE MemoryQueueProofs -------------------------
(***************************************************************************)
(* The safety of the demand queue for any number of hooks, workers and     *)
(* hand-run commands, any drain limit and any number of faults.            *)
(*                                                                         *)
(* SingleDrainer is not inductive: a launcher may replace a reservation    *)
(* that is not live, so a draining worker must be known to own a           *)
(* reservation with its pid in it (OwnerInv), and a failed spawn must be   *)
(* known to release a token nobody runs under (ClaimInv).  NoLostTrigger   *)
(* needs the order in which a reconciliation reads: the payload, then the  *)
(* memories, both under the timestamps of later demand (CoverInv), with    *)
(* no other reconciliation in between (LockInv).                           *)
(***************************************************************************)
EXTENDS MemoryQueue, TLAPS

\* A worker has passes left whenever it is about to reconcile.
DrainInv == \A w \in Workers :
  pc[w] \in Reconciling \cup {"authorize"} => passes[w] < DrainLimit

\* A launcher about to spawn holds a token of its own that nobody runs under.
ClaimInv ==
  /\ \A l \in Launchers : pc[l] = "spawn" <=> claim[l] # None
  /\ \A l \in Launchers : claim[l] # None => pc[claim[l]] = "free"
  /\ \A l, m \in Launchers : claim[l] # None /\ claim[l] = claim[m] => l = m

\* A draining worker owns the reservation, and its pid is recorded there.
OwnerInv == \A w \in Workers :
  pc[w] \in Draining => res.token = w /\ res.started

\* Only the holder of reconcile.lock is in its critical section.
LockInv == \A p \in Procs : pc[p] \in Locked => lock = p

\* What a reconciliation that is about to clear the demand it has read covers.
CoverInv ==
  /\ synced <= local /\ marked <= local
  /\ pending = 0 => synced >= marked
  /\ \A p \in Reconcilers :
       /\ seen[p] <= clock
       /\ pc[p] \in {"decide", "clear"} =>
            /\ snap[p] <= local
            /\ pending # 0 /\ pending = seen[p] => snap[p] >= marked
       /\ pc[p] = "decide" => synced <= snap[p]
       /\ pc[p] = "clear" => synced = snap[p]

IInv == TypeOK /\ DrainInv /\ ClaimInv /\ OwnerInv /\ LockInv /\ CoverInv

\* Every action keeps the types.
LEMMA TypeStep == TypeOK /\ DrainInv /\ ClaimInv /\ [Next]_vars => TypeOK'
<1> SUFFICES ASSUME TypeOK /\ DrainInv /\ ClaimInv, [Next]_vars PROVE TypeOK'
  OBVIOUS
<1> USE ActorsAssumption, BoundsAssumption DEF TypeOK, DrainInv, ClaimInv, Procs, Launchers, Reconcilers, Phases, Draining, Reconciling, Locked, Goto, Fault, NoFault, files, procs, AfterLaunch, AfterReconcile, Finished, MarkPending, LaunchFailed, ReleaseWorker, ClearPendingIfUnchanged, NoReservation, Forget
<1>1. ASSUME NEW h \in Hooks, HookStep(h) PROVE TypeOK'
  <2>1. CASE HookMark(h)  BY <2>1 DEF HookMark
  <2>2. CASE HookMarkFails(h)  BY <2>2 DEF HookMarkFails
  <2>3. QED  BY <1>1, <2>1, <2>2 DEF HookStep
<1>2. ASSUME NEW p \in Launchers, LaunchStep(p) PROVE TypeOK'
  <2>1. CASE ReuseWorker(p)  BY <2>1 DEF ReuseWorker
  <2>2. CASE ReserveWorker(p)  BY <2>2 DEF ReserveWorker
  <2>3. CASE ReserveFails(p)  BY <2>3 DEF ReserveFails
  <2>4. CASE Spawn(p)  BY <2>4 DEF Spawn
  <2>5. CASE SpawnFails(p)  BY <2>5 DEF SpawnFails
  <2>6. QED  BY <1>2, <2>1, <2>2, <2>3, <2>4, <2>5 DEF LaunchStep
<1>3. ASSUME NEW w \in Workers, WorkerStep(w) PROVE TypeOK'
  <2>1. CASE WorkerStart(w)
    <3>1. res' \in [token : Workers \cup {None}, started : BOOLEAN, fresh : BOOLEAN]
      <4>1. res' = [token |-> w, started |-> TRUE, fresh |-> FALSE] \/ res' = res
        BY <2>1 DEF WorkerStart
      <4>2. [token |-> w, started |-> TRUE, fresh |-> FALSE] \in
              [token : Workers \cup {None}, started : BOOLEAN, fresh : BOOLEAN]
        OBVIOUS
      <4>3. QED  BY <4>1, <4>2 DEF TypeOK
    <3>2. pc' \in [Procs -> Phases]
      BY <2>1 DEF WorkerStart
    <3>3. outcome' \in [Reconcilers -> {"synced", "busy", "conflicted", "error"}]
      BY <2>1 DEF WorkerStart
    <3>4. passes' \in [Workers -> 0..DrainLimit]
      BY <2>1 DEF WorkerStart
    <3>5. QED  BY <2>1, <3>1, <3>2, <3>3, <3>4 DEF WorkerStart
  <2>2. CASE WorkerStartFails(w)  BY <2>2 DEF WorkerStartFails
  <2>3. CASE Authorize(w)  BY <2>3 DEF Authorize
  <2>4. CASE AuthorizeFails(w)  BY <2>4 DEF AuthorizeFails
  <2>5. CASE DrainAgain(w)  BY <2>5 DEF DrainAgain
  <2>6. CASE Release(w)  BY <2>6 DEF Release
  <2>7. CASE ReleaseFails(w)  BY <2>7 DEF ReleaseFails
  <2>8. CASE Recheck(w)  BY <2>8 DEF Recheck
  <2>9. QED  BY <1>3, <2>1, <2>2, <2>3, <2>4, <2>5, <2>6, <2>7, <2>8 DEF WorkerStep
<1>4. ASSUME NEW s \in Syncers, SyncerStart(s) PROVE TypeOK'
  BY <1>4 DEF SyncerStart
<1>5. ASSUME NEW p \in Reconcilers, ReconcileStep(p) PROVE TypeOK'
  <2>1. CASE ReadPending(p)  BY <2>1 DEF ReadPending
  <2>2. CASE VerifyFails(p)  BY <2>2 DEF VerifyFails
  <2>3. CASE TryLock(p)  BY <2>3 DEF TryLock
  <2>4. CASE Deduplicate(p)  BY <2>4 DEF Deduplicate
  <2>5. CASE DeduplicateFails(p)  BY <2>5 DEF DeduplicateFails
  <2>6. CASE Capture(p)  BY <2>6 DEF Capture
  <2>7. CASE SyncNoop(p)  BY <2>7 DEF SyncNoop
  <2>8. CASE SyncPublish(p)  BY <2>8 DEF SyncPublish
  <2>9. CASE LocalChanged(p)  BY <2>9 DEF LocalChanged
  <2>10. CASE SyncConflict(p)  BY <2>10 DEF SyncConflict
  <2>11. CASE SyncFails(p)  BY <2>11 DEF SyncFails
  <2>12. CASE ClearPending(p)  BY <2>12 DEF ClearPending
  <2>13. CASE Finish(p)  BY <2>13 DEF Finish
  <2>14. CASE FinishFails(p)  BY <2>14 DEF FinishFails
  <2>15. CASE Report(p)  BY <2>15 DEF Report
  <2>16. QED  BY <1>5, <2>1, <2>2, <2>3, <2>4, <2>5, <2>6, <2>7, <2>8, <2>9, <2>10, <2>11, <2>12, <2>13, <2>14, <2>15 DEF ReconcileStep
<1>6. ASSUME NEW r \in Resolvers, ResolveStep(r) PROVE TypeOK'
  <2>1. CASE ResolveBusy(r)  BY <2>1 DEF ResolveBusy
  <2>2. CASE ResolveStart(r)  BY <2>2 DEF ResolveStart
  <2>3. CASE Resolve(r)  BY <2>3 DEF Resolve
  <2>4. QED  BY <1>6, <2>1, <2>2, <2>3 DEF ResolveStep
<1>7. ASSUME NEW p \in Procs, Crash(p) PROVE TypeOK'
  BY <1>7 DEF Crash
<1>8. CASE GraceExpires  BY <1>8 DEF GraceExpires
<1>9. CASE NativeEdit  BY <1>9 DEF NativeEdit
<1>10. CASE UNCHANGED vars  BY <1>10 DEF vars
<1>11. QED  BY <1>1, <1>2, <1>3, <1>4, <1>5, <1>6, <1>7, <1>8, <1>9, <1>10 DEF Next

\* Every action keeps DrainInv.
LEMMA DrainStep == TypeOK /\ DrainInv /\ ClaimInv /\ [Next]_vars => DrainInv'
<1> SUFFICES ASSUME TypeOK /\ DrainInv /\ ClaimInv, [Next]_vars PROVE DrainInv'
  OBVIOUS
<1> USE ActorsAssumption, BoundsAssumption DEF TypeOK, DrainInv, ClaimInv, Procs, Launchers, Reconcilers, Phases, Draining, Reconciling, Locked, Goto, Fault, NoFault, files, procs, AfterLaunch, AfterReconcile, Finished, MarkPending, LaunchFailed, ReleaseWorker, ClearPendingIfUnchanged, NoReservation, Forget
<1>1. ASSUME NEW h \in Hooks, HookStep(h) PROVE DrainInv'
  <2>1. CASE HookMark(h)  BY <2>1 DEF HookMark
  <2>2. CASE HookMarkFails(h)  BY <2>2 DEF HookMarkFails
  <2>3. QED  BY <1>1, <2>1, <2>2 DEF HookStep
<1>2. ASSUME NEW p \in Launchers, LaunchStep(p) PROVE DrainInv'
  <2>1. CASE ReuseWorker(p)  BY <2>1 DEF ReuseWorker
  <2>2. CASE ReserveWorker(p)  BY <2>2 DEF ReserveWorker
  <2>3. CASE ReserveFails(p)  BY <2>3 DEF ReserveFails
  <2>4. CASE Spawn(p)  BY <2>4 DEF Spawn
  <2>5. CASE SpawnFails(p)  BY <2>5 DEF SpawnFails
  <2>6. QED  BY <1>2, <2>1, <2>2, <2>3, <2>4, <2>5 DEF LaunchStep
<1>3. ASSUME NEW w \in Workers, WorkerStep(w) PROVE DrainInv'
  <2>1. CASE WorkerStart(w)  BY <2>1 DEF WorkerStart
  <2>2. CASE WorkerStartFails(w)  BY <2>2 DEF WorkerStartFails
  <2>3. CASE Authorize(w)  BY <2>3 DEF Authorize
  <2>4. CASE AuthorizeFails(w)  BY <2>4 DEF AuthorizeFails
  <2>5. CASE DrainAgain(w)  BY <2>5 DEF DrainAgain
  <2>6. CASE Release(w)  BY <2>6 DEF Release
  <2>7. CASE ReleaseFails(w)  BY <2>7 DEF ReleaseFails
  <2>8. CASE Recheck(w)  BY <2>8 DEF Recheck
  <2>9. QED  BY <1>3, <2>1, <2>2, <2>3, <2>4, <2>5, <2>6, <2>7, <2>8 DEF WorkerStep
<1>4. ASSUME NEW s \in Syncers, SyncerStart(s) PROVE DrainInv'
  BY <1>4 DEF SyncerStart
<1>5. ASSUME NEW p \in Reconcilers, ReconcileStep(p) PROVE DrainInv'
  <2>1. CASE ReadPending(p)  BY <2>1 DEF ReadPending
  <2>2. CASE VerifyFails(p)  BY <2>2 DEF VerifyFails
  <2>3. CASE TryLock(p)  BY <2>3 DEF TryLock
  <2>4. CASE Deduplicate(p)  BY <2>4 DEF Deduplicate
  <2>5. CASE DeduplicateFails(p)  BY <2>5 DEF DeduplicateFails
  <2>6. CASE Capture(p)  BY <2>6 DEF Capture
  <2>7. CASE SyncNoop(p)  BY <2>7 DEF SyncNoop
  <2>8. CASE SyncPublish(p)  BY <2>8 DEF SyncPublish
  <2>9. CASE LocalChanged(p)  BY <2>9 DEF LocalChanged
  <2>10. CASE SyncConflict(p)  BY <2>10 DEF SyncConflict
  <2>11. CASE SyncFails(p)  BY <2>11 DEF SyncFails
  <2>12. CASE ClearPending(p)  BY <2>12 DEF ClearPending
  <2>13. CASE Finish(p)  BY <2>13 DEF Finish
  <2>14. CASE FinishFails(p)  BY <2>14 DEF FinishFails
  <2>15. CASE Report(p)  BY <2>15 DEF Report
  <2>16. QED  BY <1>5, <2>1, <2>2, <2>3, <2>4, <2>5, <2>6, <2>7, <2>8, <2>9, <2>10, <2>11, <2>12, <2>13, <2>14, <2>15 DEF ReconcileStep
<1>6. ASSUME NEW r \in Resolvers, ResolveStep(r) PROVE DrainInv'
  <2>1. CASE ResolveBusy(r)  BY <2>1 DEF ResolveBusy
  <2>2. CASE ResolveStart(r)  BY <2>2 DEF ResolveStart
  <2>3. CASE Resolve(r)  BY <2>3 DEF Resolve
  <2>4. QED  BY <1>6, <2>1, <2>2, <2>3 DEF ResolveStep
<1>7. ASSUME NEW p \in Procs, Crash(p) PROVE DrainInv'
  BY <1>7 DEF Crash
<1>8. CASE GraceExpires  BY <1>8 DEF GraceExpires
<1>9. CASE NativeEdit  BY <1>9 DEF NativeEdit
<1>10. CASE UNCHANGED vars  BY <1>10 DEF vars
<1>11. QED  BY <1>1, <1>2, <1>3, <1>4, <1>5, <1>6, <1>7, <1>8, <1>9, <1>10 DEF Next

\* Every action keeps ClaimInv.
LEMMA ClaimStep == TypeOK /\ ClaimInv /\ [Next]_vars => ClaimInv'
<1> SUFFICES ASSUME TypeOK /\ ClaimInv, [Next]_vars PROVE ClaimInv'
  OBVIOUS
<1> USE ActorsAssumption, BoundsAssumption DEF TypeOK, ClaimInv, Procs, Launchers, Reconcilers, Phases, Draining, Reconciling, Locked, Goto, Fault, NoFault, files, procs, AfterLaunch, AfterReconcile, Finished, MarkPending, LaunchFailed, ReleaseWorker, ClearPendingIfUnchanged, NoReservation, Forget
<1>1. ASSUME NEW h \in Hooks, HookStep(h) PROVE ClaimInv'
  <2>1. CASE HookMark(h)  BY <2>1 DEF HookMark
  <2>2. CASE HookMarkFails(h)  BY <2>2 DEF HookMarkFails
  <2>3. QED  BY <1>1, <2>1, <2>2 DEF HookStep
<1>2. ASSUME NEW p \in Launchers, LaunchStep(p) PROVE ClaimInv'
  <2>1. CASE ReuseWorker(p)  BY <2>1 DEF ReuseWorker
  <2>2. CASE ReserveWorker(p)  BY <2>2 DEF ReserveWorker, FreshToken
  <2>3. CASE ReserveFails(p)  BY <2>3 DEF ReserveFails
  <2>4. CASE Spawn(p)  BY <2>4 DEF Spawn
  <2>5. CASE SpawnFails(p)  BY <2>5 DEF SpawnFails
  <2>6. QED  BY <1>2, <2>1, <2>2, <2>3, <2>4, <2>5 DEF LaunchStep
<1>3. ASSUME NEW w \in Workers, WorkerStep(w) PROVE ClaimInv'
  <2>1. CASE WorkerStart(w)  BY <2>1 DEF WorkerStart
  <2>2. CASE WorkerStartFails(w)  BY <2>2 DEF WorkerStartFails
  <2>3. CASE Authorize(w)  BY <2>3 DEF Authorize
  <2>4. CASE AuthorizeFails(w)  BY <2>4 DEF AuthorizeFails
  <2>5. CASE DrainAgain(w)  BY <2>5 DEF DrainAgain
  <2>6. CASE Release(w)  BY <2>6 DEF Release
  <2>7. CASE ReleaseFails(w)  BY <2>7 DEF ReleaseFails
  <2>8. CASE Recheck(w)  BY <2>8 DEF Recheck
  <2>9. QED  BY <1>3, <2>1, <2>2, <2>3, <2>4, <2>5, <2>6, <2>7, <2>8 DEF WorkerStep
<1>4. ASSUME NEW s \in Syncers, SyncerStart(s) PROVE ClaimInv'
  BY <1>4 DEF SyncerStart
<1>5. ASSUME NEW p \in Reconcilers, ReconcileStep(p) PROVE ClaimInv'
  <2>1. CASE ReadPending(p)  BY <2>1 DEF ReadPending
  <2>2. CASE VerifyFails(p)  BY <2>2 DEF VerifyFails
  <2>3. CASE TryLock(p)  BY <2>3 DEF TryLock
  <2>4. CASE Deduplicate(p)  BY <2>4 DEF Deduplicate
  <2>5. CASE DeduplicateFails(p)  BY <2>5 DEF DeduplicateFails
  <2>6. CASE Capture(p)  BY <2>6 DEF Capture
  <2>7. CASE SyncNoop(p)  BY <2>7 DEF SyncNoop
  <2>8. CASE SyncPublish(p)  BY <2>8 DEF SyncPublish
  <2>9. CASE LocalChanged(p)  BY <2>9 DEF LocalChanged
  <2>10. CASE SyncConflict(p)  BY <2>10 DEF SyncConflict
  <2>11. CASE SyncFails(p)  BY <2>11 DEF SyncFails
  <2>12. CASE ClearPending(p)  BY <2>12 DEF ClearPending
  <2>13. CASE Finish(p)  BY <2>13 DEF Finish
  <2>14. CASE FinishFails(p)  BY <2>14 DEF FinishFails
  <2>15. CASE Report(p)  BY <2>15 DEF Report
  <2>16. QED  BY <1>5, <2>1, <2>2, <2>3, <2>4, <2>5, <2>6, <2>7, <2>8, <2>9, <2>10, <2>11, <2>12, <2>13, <2>14, <2>15 DEF ReconcileStep
<1>6. ASSUME NEW r \in Resolvers, ResolveStep(r) PROVE ClaimInv'
  <2>1. CASE ResolveBusy(r)  BY <2>1 DEF ResolveBusy
  <2>2. CASE ResolveStart(r)  BY <2>2 DEF ResolveStart
  <2>3. CASE Resolve(r)  BY <2>3 DEF Resolve
  <2>4. QED  BY <1>6, <2>1, <2>2, <2>3 DEF ResolveStep
<1>7. ASSUME NEW p \in Procs, Crash(p) PROVE ClaimInv'
  BY <1>7 DEF Crash
<1>8. CASE GraceExpires  BY <1>8 DEF GraceExpires
<1>9. CASE NativeEdit  BY <1>9 DEF NativeEdit
<1>10. CASE UNCHANGED vars  BY <1>10 DEF vars
<1>11. QED  BY <1>1, <1>2, <1>3, <1>4, <1>5, <1>6, <1>7, <1>8, <1>9, <1>10 DEF Next

\* Every action keeps OwnerInv.
LEMMA OwnerStep == TypeOK /\ ClaimInv /\ OwnerInv /\ [Next]_vars => OwnerInv'
<1> SUFFICES ASSUME TypeOK /\ ClaimInv /\ OwnerInv, [Next]_vars PROVE OwnerInv'
  OBVIOUS
<1> USE ActorsAssumption, BoundsAssumption DEF TypeOK, ClaimInv, OwnerInv, Procs, Launchers, Reconcilers, Phases, Draining, Reconciling, Locked, Goto, Fault, NoFault, files, procs, AfterLaunch, AfterReconcile, Finished, MarkPending, LaunchFailed, ReleaseWorker, ClearPendingIfUnchanged, NoReservation, Forget
<1>1. ASSUME NEW h \in Hooks, HookStep(h) PROVE OwnerInv'
  <2>1. CASE HookMark(h)  BY <2>1 DEF HookMark
  <2>2. CASE HookMarkFails(h)  BY <2>2 DEF HookMarkFails
  <2>3. QED  BY <1>1, <2>1, <2>2 DEF HookStep
<1>2. ASSUME NEW p \in Launchers, LaunchStep(p) PROVE OwnerInv'
  <2>1. CASE ReuseWorker(p)  BY <2>1 DEF ReuseWorker, WorkerIsLive
  <2>2. CASE ReserveWorker(p)  BY <2>2 DEF ReserveWorker, WorkerIsLive
  <2>3. CASE ReserveFails(p)  BY <2>3 DEF ReserveFails
  <2>4. CASE Spawn(p)  BY <2>4 DEF Spawn
  <2>5. CASE SpawnFails(p)  BY <2>5 DEF SpawnFails
  <2>6. QED  BY <1>2, <2>1, <2>2, <2>3, <2>4, <2>5 DEF LaunchStep
<1>3. ASSUME NEW w \in Workers, WorkerStep(w) PROVE OwnerInv'
  <2>1. CASE WorkerStart(w)  BY <2>1 DEF WorkerStart
  <2>2. CASE WorkerStartFails(w)  BY <2>2 DEF WorkerStartFails
  <2>3. CASE Authorize(w)  BY <2>3 DEF Authorize
  <2>4. CASE AuthorizeFails(w)  BY <2>4 DEF AuthorizeFails
  <2>5. CASE DrainAgain(w)  BY <2>5 DEF DrainAgain
  <2>6. CASE Release(w)  BY <2>6 DEF Release
  <2>7. CASE ReleaseFails(w)  BY <2>7 DEF ReleaseFails
  <2>8. CASE Recheck(w)  BY <2>8 DEF Recheck
  <2>9. QED  BY <1>3, <2>1, <2>2, <2>3, <2>4, <2>5, <2>6, <2>7, <2>8 DEF WorkerStep
<1>4. ASSUME NEW s \in Syncers, SyncerStart(s) PROVE OwnerInv'
  BY <1>4 DEF SyncerStart
<1>5. ASSUME NEW p \in Reconcilers, ReconcileStep(p) PROVE OwnerInv'
  <2>1. CASE ReadPending(p)  BY <2>1 DEF ReadPending
  <2>2. CASE VerifyFails(p)  BY <2>2 DEF VerifyFails
  <2>3. CASE TryLock(p)  BY <2>3 DEF TryLock
  <2>4. CASE Deduplicate(p)  BY <2>4 DEF Deduplicate
  <2>5. CASE DeduplicateFails(p)  BY <2>5 DEF DeduplicateFails
  <2>6. CASE Capture(p)  BY <2>6 DEF Capture
  <2>7. CASE SyncNoop(p)  BY <2>7 DEF SyncNoop
  <2>8. CASE SyncPublish(p)  BY <2>8 DEF SyncPublish
  <2>9. CASE LocalChanged(p)  BY <2>9 DEF LocalChanged
  <2>10. CASE SyncConflict(p)  BY <2>10 DEF SyncConflict
  <2>11. CASE SyncFails(p)  BY <2>11 DEF SyncFails
  <2>12. CASE ClearPending(p)  BY <2>12 DEF ClearPending
  <2>13. CASE Finish(p)  BY <2>13 DEF Finish
  <2>14. CASE FinishFails(p)  BY <2>14 DEF FinishFails
  <2>15. CASE Report(p)  BY <2>15 DEF Report
  <2>16. QED  BY <1>5, <2>1, <2>2, <2>3, <2>4, <2>5, <2>6, <2>7, <2>8, <2>9, <2>10, <2>11, <2>12, <2>13, <2>14, <2>15 DEF ReconcileStep
<1>6. ASSUME NEW r \in Resolvers, ResolveStep(r) PROVE OwnerInv'
  <2>1. CASE ResolveBusy(r)  BY <2>1 DEF ResolveBusy
  <2>2. CASE ResolveStart(r)  BY <2>2 DEF ResolveStart
  <2>3. CASE Resolve(r)  BY <2>3 DEF Resolve
  <2>4. QED  BY <1>6, <2>1, <2>2, <2>3 DEF ResolveStep
<1>7. ASSUME NEW p \in Procs, Crash(p) PROVE OwnerInv'
  BY <1>7 DEF Crash
<1>8. CASE GraceExpires  BY <1>8 DEF GraceExpires
<1>9. CASE NativeEdit  BY <1>9 DEF NativeEdit
<1>10. CASE UNCHANGED vars  BY <1>10 DEF vars
<1>11. QED  BY <1>1, <1>2, <1>3, <1>4, <1>5, <1>6, <1>7, <1>8, <1>9, <1>10 DEF Next

\* Every action keeps LockInv.
LEMMA LockStep == TypeOK /\ ClaimInv /\ LockInv /\ [Next]_vars => LockInv'
<1> SUFFICES ASSUME TypeOK /\ ClaimInv /\ LockInv, [Next]_vars PROVE LockInv'
  OBVIOUS
<1> USE ActorsAssumption, BoundsAssumption DEF TypeOK, ClaimInv, LockInv, Procs, Launchers, Reconcilers, Phases, Draining, Reconciling, Locked, Goto, Fault, NoFault, files, procs, AfterLaunch, AfterReconcile, Finished, MarkPending, LaunchFailed, ReleaseWorker, ClearPendingIfUnchanged, NoReservation, Forget
<1>1. ASSUME NEW h \in Hooks, HookStep(h) PROVE LockInv'
  <2>1. CASE HookMark(h)  BY <2>1 DEF HookMark
  <2>2. CASE HookMarkFails(h)  BY <2>2 DEF HookMarkFails
  <2>3. QED  BY <1>1, <2>1, <2>2 DEF HookStep
<1>2. ASSUME NEW p \in Launchers, LaunchStep(p) PROVE LockInv'
  <2>1. CASE ReuseWorker(p)  BY <2>1 DEF ReuseWorker
  <2>2. CASE ReserveWorker(p)  BY <2>2 DEF ReserveWorker
  <2>3. CASE ReserveFails(p)  BY <2>3 DEF ReserveFails
  <2>4. CASE Spawn(p)  BY <2>4 DEF Spawn
  <2>5. CASE SpawnFails(p)  BY <2>5 DEF SpawnFails
  <2>6. QED  BY <1>2, <2>1, <2>2, <2>3, <2>4, <2>5 DEF LaunchStep
<1>3. ASSUME NEW w \in Workers, WorkerStep(w) PROVE LockInv'
  <2>1. CASE WorkerStart(w)  BY <2>1 DEF WorkerStart
  <2>2. CASE WorkerStartFails(w)  BY <2>2 DEF WorkerStartFails
  <2>3. CASE Authorize(w)  BY <2>3 DEF Authorize
  <2>4. CASE AuthorizeFails(w)  BY <2>4 DEF AuthorizeFails
  <2>5. CASE DrainAgain(w)  BY <2>5 DEF DrainAgain
  <2>6. CASE Release(w)  BY <2>6 DEF Release
  <2>7. CASE ReleaseFails(w)  BY <2>7 DEF ReleaseFails
  <2>8. CASE Recheck(w)  BY <2>8 DEF Recheck
  <2>9. QED  BY <1>3, <2>1, <2>2, <2>3, <2>4, <2>5, <2>6, <2>7, <2>8 DEF WorkerStep
<1>4. ASSUME NEW s \in Syncers, SyncerStart(s) PROVE LockInv'
  BY <1>4 DEF SyncerStart
<1>5. ASSUME NEW p \in Reconcilers, ReconcileStep(p) PROVE LockInv'
  <2>1. CASE ReadPending(p)  BY <2>1 DEF ReadPending
  <2>2. CASE VerifyFails(p)  BY <2>2 DEF VerifyFails
  <2>3. CASE TryLock(p)  BY <2>3 DEF TryLock
  <2>4. CASE Deduplicate(p)  BY <2>4 DEF Deduplicate
  <2>5. CASE DeduplicateFails(p)  BY <2>5 DEF DeduplicateFails
  <2>6. CASE Capture(p)  BY <2>6 DEF Capture
  <2>7. CASE SyncNoop(p)  BY <2>7 DEF SyncNoop
  <2>8. CASE SyncPublish(p)  BY <2>8 DEF SyncPublish
  <2>9. CASE LocalChanged(p)  BY <2>9 DEF LocalChanged
  <2>10. CASE SyncConflict(p)  BY <2>10 DEF SyncConflict
  <2>11. CASE SyncFails(p)  BY <2>11 DEF SyncFails
  <2>12. CASE ClearPending(p)  BY <2>12 DEF ClearPending
  <2>13. CASE Finish(p)  BY <2>13 DEF Finish
  <2>14. CASE FinishFails(p)  BY <2>14 DEF FinishFails
  <2>15. CASE Report(p)  BY <2>15 DEF Report
  <2>16. QED  BY <1>5, <2>1, <2>2, <2>3, <2>4, <2>5, <2>6, <2>7, <2>8, <2>9, <2>10, <2>11, <2>12, <2>13, <2>14, <2>15 DEF ReconcileStep
<1>6. ASSUME NEW r \in Resolvers, ResolveStep(r) PROVE LockInv'
  <2>1. CASE ResolveBusy(r)  BY <2>1 DEF ResolveBusy
  <2>2. CASE ResolveStart(r)  BY <2>2 DEF ResolveStart
  <2>3. CASE Resolve(r)  BY <2>3 DEF Resolve
  <2>4. QED  BY <1>6, <2>1, <2>2, <2>3 DEF ResolveStep
<1>7. ASSUME NEW p \in Procs, Crash(p) PROVE LockInv'
  BY <1>7 DEF Crash
<1>8. CASE GraceExpires  BY <1>8 DEF GraceExpires
<1>9. CASE NativeEdit  BY <1>9 DEF NativeEdit
<1>10. CASE UNCHANGED vars  BY <1>10 DEF vars
<1>11. QED  BY <1>1, <1>2, <1>3, <1>4, <1>5, <1>6, <1>7, <1>8, <1>9, <1>10 DEF Next

\* Every action keeps CoverInv.
LEMMA CoverStep == TypeOK /\ ClaimInv /\ LockInv /\ CoverInv /\ [Next]_vars => CoverInv'
<1> SUFFICES ASSUME TypeOK /\ ClaimInv /\ LockInv /\ CoverInv, [Next]_vars PROVE CoverInv'
  OBVIOUS
<1> USE ActorsAssumption, BoundsAssumption DEF TypeOK, ClaimInv, LockInv, CoverInv, Procs, Launchers, Reconcilers, Phases, Draining, Reconciling, Locked, Goto, Fault, NoFault, files, procs, AfterLaunch, AfterReconcile, Finished, MarkPending, LaunchFailed, ReleaseWorker, ClearPendingIfUnchanged, NoReservation, Forget
<1>1. ASSUME NEW h \in Hooks, HookStep(h) PROVE CoverInv'
  <2>1. CASE HookMark(h)  BY <2>1 DEF HookMark
  <2>2. CASE HookMarkFails(h)  BY <2>2 DEF HookMarkFails
  <2>3. QED  BY <1>1, <2>1, <2>2 DEF HookStep
<1>2. ASSUME NEW p \in Launchers, LaunchStep(p) PROVE CoverInv'
  <2>1. CASE ReuseWorker(p)  BY <2>1 DEF ReuseWorker
  <2>2. CASE ReserveWorker(p)  BY <2>2 DEF ReserveWorker
  <2>3. CASE ReserveFails(p)  BY <2>3 DEF ReserveFails
  <2>4. CASE Spawn(p)  BY <2>4 DEF Spawn
  <2>5. CASE SpawnFails(p)  BY <2>5 DEF SpawnFails
  <2>6. QED  BY <1>2, <2>1, <2>2, <2>3, <2>4, <2>5 DEF LaunchStep
<1>3. ASSUME NEW w \in Workers, WorkerStep(w) PROVE CoverInv'
  <2>1. CASE WorkerStart(w)  BY <2>1 DEF WorkerStart
  <2>2. CASE WorkerStartFails(w)  BY <2>2 DEF WorkerStartFails
  <2>3. CASE Authorize(w)  BY <2>3 DEF Authorize
  <2>4. CASE AuthorizeFails(w)  BY <2>4 DEF AuthorizeFails
  <2>5. CASE DrainAgain(w)  BY <2>5 DEF DrainAgain
  <2>6. CASE Release(w)  BY <2>6 DEF Release
  <2>7. CASE ReleaseFails(w)  BY <2>7 DEF ReleaseFails
  <2>8. CASE Recheck(w)  BY <2>8 DEF Recheck
  <2>9. QED  BY <1>3, <2>1, <2>2, <2>3, <2>4, <2>5, <2>6, <2>7, <2>8 DEF WorkerStep
<1>4. ASSUME NEW s \in Syncers, SyncerStart(s) PROVE CoverInv'
  BY <1>4 DEF SyncerStart
<1>5. ASSUME NEW p \in Reconcilers, ReconcileStep(p) PROVE CoverInv'
  <2>1. CASE ReadPending(p)  BY <2>1 DEF ReadPending
  <2>2. CASE VerifyFails(p)  BY <2>2 DEF VerifyFails
  <2>3. CASE TryLock(p)  BY <2>3 DEF TryLock
  <2>4. CASE Deduplicate(p)  BY <2>4 DEF Deduplicate
  <2>5. CASE DeduplicateFails(p)  BY <2>5 DEF DeduplicateFails
  <2>6. CASE Capture(p)  BY <2>6 DEF Capture
  <2>7. CASE SyncNoop(p)  BY <2>7 DEF SyncNoop
  <2>8. CASE SyncPublish(p)  BY <2>8 DEF SyncPublish
  <2>9. CASE LocalChanged(p)  BY <2>9 DEF LocalChanged
  <2>10. CASE SyncConflict(p)  BY <2>10 DEF SyncConflict
  <2>11. CASE SyncFails(p)  BY <2>11 DEF SyncFails
  <2>12. CASE ClearPending(p)  BY <2>12 DEF ClearPending
  <2>13. CASE Finish(p)  BY <2>13 DEF Finish
  <2>14. CASE FinishFails(p)  BY <2>14 DEF FinishFails
  <2>15. CASE Report(p)  BY <2>15 DEF Report
  <2>16. QED  BY <1>5, <2>1, <2>2, <2>3, <2>4, <2>5, <2>6, <2>7, <2>8, <2>9, <2>10, <2>11, <2>12, <2>13, <2>14, <2>15 DEF ReconcileStep
<1>6. ASSUME NEW r \in Resolvers, ResolveStep(r) PROVE CoverInv'
  <2>1. CASE ResolveBusy(r)  BY <2>1 DEF ResolveBusy
  <2>2. CASE ResolveStart(r)  BY <2>2 DEF ResolveStart
  <2>3. CASE Resolve(r)  BY <2>3 DEF Resolve
  <2>4. QED  BY <1>6, <2>1, <2>2, <2>3 DEF ResolveStep
<1>7. ASSUME NEW p \in Procs, Crash(p) PROVE CoverInv'
  BY <1>7 DEF Crash
<1>8. CASE GraceExpires  BY <1>8 DEF GraceExpires
<1>9. CASE NativeEdit  BY <1>9 DEF NativeEdit
<1>10. CASE UNCHANGED vars  BY <1>10 DEF vars
<1>11. QED  BY <1>1, <1>2, <1>3, <1>4, <1>5, <1>6, <1>7, <1>8, <1>9, <1>10 DEF Next

\* The inductive invariant holds from the start.
LEMMA InitInv == Init => IInv
<1> SUFFICES ASSUME Init PROVE IInv
  OBVIOUS
<1> USE ActorsAssumption, BoundsAssumption DEF Init, Procs, Launchers, Reconcilers
<1>1. TypeOK  BY DEF TypeOK, NoReservation, Phases, Draining, Reconciling
<1>2. DrainInv  BY DEF DrainInv, Reconciling
<1>3. ClaimInv  BY DEF ClaimInv
<1>4. OwnerInv  BY DEF OwnerInv, Draining, Reconciling
<1>5. LockInv  BY DEF LockInv, Locked
<1>6. CoverInv
  <2>1. ASSUME NEW p \in Reconcilers
        PROVE  pc[p] # "decide" /\ pc[p] # "clear"
    <3>1. pc[p] = IF p \in Workers THEN "free" ELSE "idle"
      OBVIOUS
    <3>2. QED  BY <3>1
  <2>2. /\ synced <= local /\ marked <= local
        /\ pending = 0 => synced >= marked
        /\ \A p \in Reconcilers : seen[p] <= clock
    OBVIOUS
  <2>3. QED  BY <2>1, <2>2 DEF CoverInv
<1>7. QED  BY <1>1, <1>2, <1>3, <1>4, <1>5, <1>6 DEF IInv

\* IInv is an invariant of the queue.
THEOREM Invariance == Spec => []IInv
<1>1. IInv /\ [Next]_vars => IInv'
  BY TypeStep, DrainStep, ClaimStep, OwnerStep, LockStep, CoverStep DEF IInv
<1>2. QED  BY InitInv, <1>1, PTL DEF Spec

\* Type correctness, with at most DrainLimit reconciliations in a drain.
THEOREM TypeCorrect == Spec => []TypeOK
<1>1. IInv => TypeOK  BY DEF IInv
<1>2. QED  BY Invariance, <1>1, PTL

\* At most one worker drains, whatever expires, crashes or is relaunched.
THEOREM OneDrainer == Spec => []SingleDrainer
<1>1. IInv => SingleDrainer  BY DEF IInv, OwnerInv, SingleDrainer
<1>2. QED  BY Invariance, <1>1, PTL

\* No demand leaves pending.json before the baseline covers it.
THEOREM TriggersCovered == Spec => []NoLostTrigger
<1>1. IInv => NoLostTrigger  BY DEF IInv, CoverInv, NoLostTrigger
<1>2. QED  BY Invariance, <1>1, PTL
=============================================================================
