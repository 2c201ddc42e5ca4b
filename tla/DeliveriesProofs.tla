--------------------------- MODULE DeliveriesProofs ---------------------------
(***************************************************************************)
(* Safety of what the factory delivers, for every set of workers, outputs, *)
(* targets, legacy files, releases and runs: the cleanup lets nobody hold  *)
(* a lock twice and deletes only what it planned; a relocation keeps what  *)
(* the legacy files held; an installation of the public artifacts gets     *)
(* every program from one build of the right sources.                      *)
(*                                                                         *)
(* Each of the three modules has an inductive invariant that says why: for *)
(* the cleanup, whose handle is of which file and how far what is open is  *)
(* as planned; for the relocation, which copies there are and what they    *)
(* are copies of; for the public artifacts, that whatever is named, in the *)
(* cache, a receipt or a run, is a build of what its name says.            *)
(***************************************************************************)
EXTENDS Deliveries, TLAPS

-----------------------------------------------------------------------------
(* The cleanup. *)

\* Everyone who has the lock file open has the one that is there.  The cleanup opens it
\* only when nobody has, and keeps others out until it is deleted.
HandlesCurrent == \A w \in Workers : handle[w] \in {0, cfile["lock"]}
WorkersHaveIt == \A w \in Workers : wpc[w] # "idle" => handle[w] # 0
GuardKeepsOut == "lock" \in guards => \A w \in Workers : handle[w] = 0

\* What is open is planned, and what is in hand is open and as planned.
GuardsPlanned ==
  /\ guards \subseteq Cleanup!Targets
  /\ cpc \in {"idle", "policy", "capture", "eligible", "verify"} => guards = {}
  /\ cpc = "remove" => cat \subseteq guards /\ \A p \in cat : cfile[p] = plan[p]

\* Versions are told apart: what was written since the capture is not what is planned.
VersionsBelow == \A p \in Cleanup!Paths : cfile[p] <= writes /\ plan[p] <= writes
FreshDiffers == \A p \in fresh : plan[p] = 0 \/ cfile[p] # plan[p]

\* A journal in the plan is of a transaction that has ended since.
Closing == {"lock", "delete", "remove", "absent"}
Executing == {"verify", "open", "recheck"} \cup Closing
JournalGone == cpc \in Executing => plan["journal"] = 0 \/ cfile["journal"] # plan["journal"]

\* The plan leaves out what the policy keeps, and the last check read the policy again.
PolicyKept == cpc \in Executing \cup {"eligible"} => \A f \in policy : plan[f] = 0
SparedKept == cpc \in Closing => spared = policy

LockInv == HandlesCurrent /\ WorkersHaveIt /\ GuardKeepsOut
PlanInv == VersionsBelow /\ FreshDiffers /\ JournalGone /\ PolicyKept /\ SparedKept
CleanupInv == /\ Cleanup!TypeOK /\ GuardsPlanned /\ LockInv /\ PlanInv
              /\ Cleanup!LocksExclude /\ Cleanup!OnlyPlannedGoes

\* Every step keeps the types.
LEMMA CleanupTypes ==
  ASSUME Cleanup!TypeOK, [Cleanup!Next]_(Cleanup!vars)
  PROVE  Cleanup!TypeOK'
<1> USE OutputsAssumption, WritesAssumption
    DEF Cleanup!Goto, Cleanup!GiveUp, Cleanup!WGoto, Cleanup!worker, Cleanup!cleanup,
        Cleanup!history, Cleanup!bounds, Cleanup!Paths, Cleanup!None, Cleanup!Versions,
        Cleanup!TypeOK
<1>1. CASE Cleanup!Eligible
  BY <1>1 DEF Cleanup!Eligible
<1>2. CASE Cleanup!ReadPolicy
  BY <1>2 DEF Cleanup!ReadPolicy
<1>3. CASE Cleanup!Capture
  BY <1>3 DEF Cleanup!Capture, Cleanup!Selected
<1>4. CASE Cleanup!EligibleAgain
  BY <1>4 DEF Cleanup!EligibleAgain
<1>5. CASE Cleanup!Verify
  BY <1>5 DEF Cleanup!Verify
<1>6. CASE Cleanup!AllOpen
  BY <1>6 DEF Cleanup!AllOpen
<1>7. CASE Cleanup!Recheck
  BY <1>7 DEF Cleanup!Recheck
<1>8. CASE Cleanup!LockFiles
  BY <1>8 DEF Cleanup!LockFiles
<1>9. CASE Cleanup!Remove
  BY <1>9 DEF Cleanup!Remove
<1>10. CASE Cleanup!RequireAbsent
  BY <1>10 DEF Cleanup!RequireAbsent
<1>11. ASSUME NEW p \in Cleanup!Paths, Cleanup!OpenGuard(p) PROVE Cleanup!TypeOK'
  BY <1>11 DEF Cleanup!OpenGuard
<1>12. ASSUME NEW p \in Cleanup!Paths, Cleanup!Inspect(p) PROVE Cleanup!TypeOK'
  BY <1>12 DEF Cleanup!Inspect
<1>13. CASE Cleanup!CleanupStops
  BY <1>13 DEF Cleanup!CleanupStops
<1>14. CASE Cleanup!Declare
  BY <1>14 DEF Cleanup!Declare
<1>15. ASSUME NEW f \in Outputs, Cleanup!Write(f) PROVE Cleanup!TypeOK'
  BY <1>15 DEF Cleanup!Write, Cleanup!Put
<1>16. ASSUME NEW w \in Workers, Cleanup!OpenLock(w) PROVE Cleanup!TypeOK'
  BY <1>16 DEF Cleanup!OpenLock, Cleanup!Put
<1>17. ASSUME NEW w \in Workers, Cleanup!TakeLock(w) PROVE Cleanup!TypeOK'
  BY <1>17 DEF Cleanup!TakeLock
<1>18. ASSUME NEW w \in Workers, Cleanup!Begin(w) PROVE Cleanup!TypeOK'
  BY <1>18 DEF Cleanup!Begin, Cleanup!Put
<1>19. ASSUME NEW w \in Workers, Cleanup!EndJournal(w) PROVE Cleanup!TypeOK'
  BY <1>19 DEF Cleanup!EndJournal
<1>20. ASSUME NEW w \in Workers, Cleanup!Release(w) PROVE Cleanup!TypeOK'
  BY <1>20 DEF Cleanup!Release
<1>21. ASSUME NEW w \in Workers, Cleanup!WorkerDies(w) PROVE Cleanup!TypeOK'
  BY <1>21 DEF Cleanup!WorkerDies
<1>22. CASE UNCHANGED Cleanup!vars
  BY <1>22 DEF Cleanup!vars
<1> QED
  BY <1>1, <1>2, <1>3, <1>4, <1>5, <1>6, <1>7, <1>8, <1>9, <1>10, <1>11, <1>12, <1>13,
    <1>14, <1>15, <1>16, <1>17, <1>18, <1>19, <1>20, <1>21, <1>22 DEF Cleanup!Next,
    Cleanup!Clean, Cleanup!Work

\* A file is opened only when it is planned, and the plan stays while files are open.
LEMMA StepGuards ==
  ASSUME Cleanup!TypeOK, [Cleanup!Next]_(Cleanup!vars), GuardsPlanned
  PROVE  GuardsPlanned'
<1> USE OutputsAssumption, WritesAssumption
    DEF Cleanup!Goto, Cleanup!GiveUp, Cleanup!WGoto, Cleanup!worker, Cleanup!cleanup,
        Cleanup!history, Cleanup!bounds, Cleanup!Paths, Cleanup!None, Cleanup!Versions,
        GuardsPlanned, Cleanup!TypeOK, Cleanup!Targets
<1>1. CASE Cleanup!Eligible
  BY <1>1 DEF Cleanup!Eligible
<1>2. CASE Cleanup!ReadPolicy
  BY <1>2 DEF Cleanup!ReadPolicy
<1>3. CASE Cleanup!Capture
  BY <1>3 DEF Cleanup!Capture, Cleanup!Selected
<1>4. CASE Cleanup!EligibleAgain
  BY <1>4 DEF Cleanup!EligibleAgain
<1>5. CASE Cleanup!Verify
  BY <1>5 DEF Cleanup!Verify, Cleanup!AsPlanned
<1>6. CASE Cleanup!AllOpen
  BY <1>6 DEF Cleanup!AllOpen
<1>7. CASE Cleanup!Recheck
  BY <1>7 DEF Cleanup!Recheck, Cleanup!AsPlanned
<1>8. CASE Cleanup!LockFiles
  BY <1>8 DEF Cleanup!LockFiles
<1>9. CASE Cleanup!Remove
  BY <1>9 DEF Cleanup!Remove
<1>10. CASE Cleanup!RequireAbsent
  BY <1>10 DEF Cleanup!RequireAbsent
<1>11. ASSUME NEW p \in Cleanup!Paths, Cleanup!OpenGuard(p) PROVE GuardsPlanned'
  BY <1>11 DEF Cleanup!OpenGuard, Cleanup!InTurn
<1>12. ASSUME NEW p \in Cleanup!Paths, Cleanup!Inspect(p) PROVE GuardsPlanned'
  BY <1>12 DEF Cleanup!Inspect, Cleanup!InTurn
<1>13. CASE Cleanup!CleanupStops
  BY <1>13 DEF Cleanup!CleanupStops
<1>14. CASE Cleanup!Declare
  BY <1>14 DEF Cleanup!Declare
<1>15. ASSUME NEW f \in Outputs, Cleanup!Write(f) PROVE GuardsPlanned'
  BY <1>15 DEF Cleanup!Write, Cleanup!Put
<1>16. ASSUME NEW w \in Workers, Cleanup!OpenLock(w) PROVE GuardsPlanned'
  BY <1>16 DEF Cleanup!OpenLock, Cleanup!Put
<1>17. ASSUME NEW w \in Workers, Cleanup!TakeLock(w) PROVE GuardsPlanned'
  BY <1>17 DEF Cleanup!TakeLock
<1>18. ASSUME NEW w \in Workers, Cleanup!Begin(w) PROVE GuardsPlanned'
  BY <1>18 DEF Cleanup!Begin, Cleanup!Put
<1>19. ASSUME NEW w \in Workers, Cleanup!EndJournal(w) PROVE GuardsPlanned'
  BY <1>19 DEF Cleanup!EndJournal
<1>20. ASSUME NEW w \in Workers, Cleanup!Release(w) PROVE GuardsPlanned'
  BY <1>20 DEF Cleanup!Release
<1>21. ASSUME NEW w \in Workers, Cleanup!WorkerDies(w) PROVE GuardsPlanned'
  BY <1>21 DEF Cleanup!WorkerDies
<1>22. CASE UNCHANGED Cleanup!vars
  BY <1>22 DEF Cleanup!vars
<1> QED
  BY <1>1, <1>2, <1>3, <1>4, <1>5, <1>6, <1>7, <1>8, <1>9, <1>10, <1>11, <1>12, <1>13,
    <1>14, <1>15, <1>16, <1>17, <1>18, <1>19, <1>20, <1>21, <1>22 DEF Cleanup!Next,
    Cleanup!Clean, Cleanup!Work

\* The lock file is deleted only while nobody has it open.
LEMMA StepLock ==
  ASSUME Cleanup!TypeOK, [Cleanup!Next]_(Cleanup!vars), GuardsPlanned, LockInv
  PROVE  LockInv'
<1> USE OutputsAssumption, WritesAssumption
    DEF Cleanup!Goto, Cleanup!GiveUp, Cleanup!WGoto, Cleanup!worker, Cleanup!cleanup,
        Cleanup!history, Cleanup!bounds, Cleanup!Paths, Cleanup!None, Cleanup!Versions, LockInv,
        HandlesCurrent, WorkersHaveIt, GuardKeepsOut, Cleanup!TypeOK
<1>1. CASE Cleanup!Eligible
  BY <1>1 DEF Cleanup!Eligible
<1>2. CASE Cleanup!ReadPolicy
  BY <1>2 DEF Cleanup!ReadPolicy
<1>3. CASE Cleanup!Capture
  BY <1>3 DEF Cleanup!Capture, Cleanup!Selected
<1>4. CASE Cleanup!EligibleAgain
  BY <1>4 DEF Cleanup!EligibleAgain
<1>5. CASE Cleanup!Verify
  BY <1>5 DEF Cleanup!Verify
<1>6. CASE Cleanup!AllOpen
  BY <1>6 DEF Cleanup!AllOpen
<1>7. CASE Cleanup!Recheck
  BY <1>7 DEF Cleanup!Recheck
<1>8. CASE Cleanup!LockFiles
  BY <1>8 DEF Cleanup!LockFiles
<1>9. CASE Cleanup!Remove
  BY <1>9 DEF Cleanup!Remove, GuardsPlanned
<1>10. CASE Cleanup!RequireAbsent
  BY <1>10 DEF Cleanup!RequireAbsent
<1>11. ASSUME NEW p \in Cleanup!Paths, Cleanup!OpenGuard(p) PROVE LockInv'
  BY <1>11 DEF Cleanup!OpenGuard, Cleanup!Busy
<1>12. ASSUME NEW p \in Cleanup!Paths, Cleanup!Inspect(p) PROVE LockInv'
  BY <1>12 DEF Cleanup!Inspect
<1>13. CASE Cleanup!CleanupStops
  BY <1>13 DEF Cleanup!CleanupStops
<1>14. CASE Cleanup!Declare
  BY <1>14 DEF Cleanup!Declare
<1>15. ASSUME NEW f \in Outputs, Cleanup!Write(f) PROVE LockInv'
  BY <1>15 DEF Cleanup!Write, Cleanup!Put
<1>16. ASSUME NEW w \in Workers, Cleanup!OpenLock(w) PROVE LockInv'
  BY <1>16 DEF Cleanup!OpenLock, Cleanup!Put
<1>17. ASSUME NEW w \in Workers, Cleanup!TakeLock(w) PROVE LockInv'
  BY <1>17 DEF Cleanup!TakeLock
<1>18. ASSUME NEW w \in Workers, Cleanup!Begin(w) PROVE LockInv'
  BY <1>18 DEF Cleanup!Begin, Cleanup!Put
<1>19. ASSUME NEW w \in Workers, Cleanup!EndJournal(w) PROVE LockInv'
  BY <1>19 DEF Cleanup!EndJournal
<1>20. ASSUME NEW w \in Workers, Cleanup!Release(w) PROVE LockInv'
  BY <1>20 DEF Cleanup!Release
<1>21. ASSUME NEW w \in Workers, Cleanup!WorkerDies(w) PROVE LockInv'
  BY <1>21 DEF Cleanup!WorkerDies
<1>22. CASE UNCHANGED Cleanup!vars
  BY <1>22 DEF Cleanup!vars
<1> QED
  BY <1>1, <1>2, <1>3, <1>4, <1>5, <1>6, <1>7, <1>8, <1>9, <1>10, <1>11, <1>12, <1>13,
    <1>14, <1>15, <1>16, <1>17, <1>18, <1>19, <1>20, <1>21, <1>22 DEF Cleanup!Next,
    Cleanup!Clean, Cleanup!Work

\* Whoever takes the lock takes that of the one lock file there is.
LEMMA StepHolds ==
  ASSUME Cleanup!TypeOK, [Cleanup!Next]_(Cleanup!vars), LockInv, Cleanup!LocksExclude
  PROVE  Cleanup!LocksExclude'
<1>1. \/ \E w \in Workers : Cleanup!OpenLock(w)
      \/ \E w \in Workers : Cleanup!TakeLock(w)
      \/ \E w \in Workers : Cleanup!Begin(w)
      \/ \E w \in Workers : Cleanup!EndJournal(w)
      \/ \E w \in Workers : Cleanup!Release(w)
      \/ \E w \in Workers : Cleanup!WorkerDies(w)
      \/ UNCHANGED <<wpc, handle>>
  BY DEF Cleanup!Next, Cleanup!Clean, Cleanup!Work, Cleanup!vars, Cleanup!Eligible,
       Cleanup!ReadPolicy, Cleanup!Capture, Cleanup!EligibleAgain, Cleanup!Verify,
       Cleanup!AllOpen, Cleanup!Recheck, Cleanup!LockFiles, Cleanup!Remove,
       Cleanup!RequireAbsent, Cleanup!OpenGuard, Cleanup!Inspect, Cleanup!CleanupStops,
       Cleanup!Declare, Cleanup!Write, Cleanup!Selected, Cleanup!Put, Cleanup!Goto,
       Cleanup!GiveUp, Cleanup!WGoto, Cleanup!worker, Cleanup!cleanup, Cleanup!history,
       Cleanup!bounds, Cleanup!Paths, Cleanup!None, Cleanup!Versions
<1> USE OutputsAssumption, WritesAssumption
    DEF Cleanup!Goto, Cleanup!GiveUp, Cleanup!WGoto, Cleanup!worker, Cleanup!cleanup,
        Cleanup!history, Cleanup!bounds, Cleanup!Paths, Cleanup!None, Cleanup!Versions, LockInv,
        HandlesCurrent, WorkersHaveIt, Cleanup!TypeOK, Cleanup!LocksExclude, Cleanup!Holds
<1>2. ASSUME NEW w \in Workers, Cleanup!OpenLock(w) PROVE Cleanup!LocksExclude'
  BY <1>2 DEF Cleanup!OpenLock, Cleanup!Put
<1>3. ASSUME NEW w \in Workers, Cleanup!TakeLock(w) PROVE Cleanup!LocksExclude'
  BY <1>3 DEF Cleanup!TakeLock, Cleanup!Locked
<1>4. ASSUME NEW w \in Workers, Cleanup!Begin(w) PROVE Cleanup!LocksExclude'
  BY <1>4 DEF Cleanup!Begin, Cleanup!Put
<1>5. ASSUME NEW w \in Workers, Cleanup!EndJournal(w) PROVE Cleanup!LocksExclude'
  BY <1>5 DEF Cleanup!EndJournal
<1>6. ASSUME NEW w \in Workers, Cleanup!Release(w) PROVE Cleanup!LocksExclude'
  BY <1>6 DEF Cleanup!Release
<1>7. ASSUME NEW w \in Workers, Cleanup!WorkerDies(w) PROVE Cleanup!LocksExclude'
  BY <1>7 DEF Cleanup!WorkerDies
<1>8. CASE UNCHANGED <<wpc, handle>>
  BY <1>8
<1> QED
  BY <1>1, <1>2, <1>3, <1>4, <1>5, <1>6, <1>7, <1>8

\* What is planned is told from what is written later; the last check reads it all again.
LEMMA StepPlan ==
  ASSUME Cleanup!TypeOK, [Cleanup!Next]_(Cleanup!vars), GuardsPlanned, PlanInv
  PROVE  PlanInv'
<1> USE OutputsAssumption, WritesAssumption
    DEF Cleanup!Goto, Cleanup!GiveUp, Cleanup!WGoto, Cleanup!worker, Cleanup!cleanup,
        Cleanup!history, Cleanup!bounds, Cleanup!Paths, Cleanup!None, Cleanup!Versions, PlanInv,
        VersionsBelow, FreshDiffers, JournalGone, PolicyKept, SparedKept, Executing, Closing,
        Cleanup!TypeOK
<1>1. CASE Cleanup!Eligible
  BY <1>1 DEF Cleanup!Eligible
<1>2. CASE Cleanup!ReadPolicy
  BY <1>2 DEF Cleanup!ReadPolicy
<1>3. CASE Cleanup!Capture
  BY <1>3 DEF Cleanup!Capture, Cleanup!Selected
<1>4. CASE Cleanup!EligibleAgain
  BY <1>4 DEF Cleanup!EligibleAgain
<1>5. CASE Cleanup!Verify
  BY <1>5 DEF Cleanup!Verify, Cleanup!AsPlanned
<1>6. CASE Cleanup!AllOpen
  BY <1>6 DEF Cleanup!AllOpen
<1>7. CASE Cleanup!Recheck
  BY <1>7 DEF Cleanup!Recheck, Cleanup!AsPlanned
<1>8. CASE Cleanup!LockFiles
  BY <1>8 DEF Cleanup!LockFiles
<1>9. CASE Cleanup!Remove
  BY <1>9 DEF Cleanup!Remove
<1>10. CASE Cleanup!RequireAbsent
  BY <1>10 DEF Cleanup!RequireAbsent
<1>11. ASSUME NEW p \in Cleanup!Paths, Cleanup!OpenGuard(p) PROVE PlanInv'
  BY <1>11 DEF Cleanup!OpenGuard
<1>12. ASSUME NEW p \in Cleanup!Paths, Cleanup!Inspect(p) PROVE PlanInv'
  BY <1>12 DEF Cleanup!Inspect
<1>13. CASE Cleanup!CleanupStops
  BY <1>13 DEF Cleanup!CleanupStops
<1>14. CASE Cleanup!Declare
  BY <1>14 DEF Cleanup!Declare
<1>15. ASSUME NEW f \in Outputs, Cleanup!Write(f) PROVE PlanInv'
  BY <1>15 DEF Cleanup!Write, Cleanup!Put
<1>16. ASSUME NEW w \in Workers, Cleanup!OpenLock(w) PROVE PlanInv'
  BY <1>16 DEF Cleanup!OpenLock, Cleanup!Put
<1>17. ASSUME NEW w \in Workers, Cleanup!TakeLock(w) PROVE PlanInv'
  BY <1>17 DEF Cleanup!TakeLock
<1>18. ASSUME NEW w \in Workers, Cleanup!Begin(w) PROVE PlanInv'
  BY <1>18 DEF Cleanup!Begin, Cleanup!Put
<1>19. ASSUME NEW w \in Workers, Cleanup!EndJournal(w) PROVE PlanInv'
  BY <1>19 DEF Cleanup!EndJournal
<1>20. ASSUME NEW w \in Workers, Cleanup!Release(w) PROVE PlanInv'
  BY <1>20 DEF Cleanup!Release
<1>21. ASSUME NEW w \in Workers, Cleanup!WorkerDies(w) PROVE PlanInv'
  BY <1>21 DEF Cleanup!WorkerDies
<1>22. CASE UNCHANGED Cleanup!vars
  BY <1>22 DEF Cleanup!vars
<1> QED
  BY <1>1, <1>2, <1>3, <1>4, <1>5, <1>6, <1>7, <1>8, <1>9, <1>10, <1>11, <1>12, <1>13,
    <1>14, <1>15, <1>16, <1>17, <1>18, <1>19, <1>20, <1>21, <1>22 DEF Cleanup!Next,
    Cleanup!Clean, Cleanup!Work

\* What is in hand is as planned, so it is none of what must stay.
LEMMA StepTaken ==
  ASSUME Cleanup!TypeOK, [Cleanup!Next]_(Cleanup!vars), GuardsPlanned, PlanInv,
         Cleanup!OnlyPlannedGoes
  PROVE  Cleanup!OnlyPlannedGoes'
<1>1. \/ Cleanup!Remove
      \/ UNCHANGED taken
  BY DEF Cleanup!Next, Cleanup!Clean, Cleanup!Work, Cleanup!vars, Cleanup!Eligible,
       Cleanup!ReadPolicy, Cleanup!Capture, Cleanup!EligibleAgain, Cleanup!Verify,
       Cleanup!AllOpen, Cleanup!Recheck, Cleanup!LockFiles, Cleanup!RequireAbsent,
       Cleanup!OpenGuard, Cleanup!Inspect, Cleanup!CleanupStops, Cleanup!Declare, Cleanup!Write,
       Cleanup!OpenLock, Cleanup!TakeLock, Cleanup!Begin, Cleanup!EndJournal, Cleanup!Release,
       Cleanup!WorkerDies, Cleanup!Selected, Cleanup!Put, Cleanup!Goto, Cleanup!GiveUp,
       Cleanup!WGoto, Cleanup!worker, Cleanup!cleanup, Cleanup!history, Cleanup!bounds,
       Cleanup!Paths, Cleanup!None, Cleanup!Versions
<1> USE OutputsAssumption, WritesAssumption
    DEF Cleanup!Goto, Cleanup!GiveUp, Cleanup!WGoto, Cleanup!worker, Cleanup!cleanup,
        Cleanup!history, Cleanup!bounds, Cleanup!Paths, Cleanup!None, Cleanup!Versions,
        Cleanup!OnlyPlannedGoes
<1>2. CASE Cleanup!Remove
  BY <1>2 DEF Cleanup!Remove, GuardsPlanned, Cleanup!Targets, PlanInv, FreshDiffers,
    JournalGone, PolicyKept, SparedKept, Executing, Closing, Cleanup!TypeOK
<1>3. CASE UNCHANGED taken
  BY <1>3
<1> QED
  BY <1>1, <1>2, <1>3

\* The cleanup begins in the invariant.
LEMMA InitCleanup == Cleanup!Init => CleanupInv
  BY OutputsAssumption, WritesAssumption
  DEF Cleanup!Init, CleanupInv, Cleanup!TypeOK, GuardsPlanned, LockInv, HandlesCurrent,
      WorkersHaveIt, GuardKeepsOut, PlanInv, VersionsBelow, FreshDiffers, JournalGone,
      PolicyKept, SparedKept, Executing, Closing, Cleanup!LocksExclude,
      Cleanup!OnlyPlannedGoes, Cleanup!Holds, Cleanup!Paths, Cleanup!None,
      Cleanup!Versions, Cleanup!Nothing

\* The invariant of the cleanup holds throughout.
THEOREM CleanupSafe == Cleanup!Spec => []CleanupInv
<1>1. CleanupInv /\ [Cleanup!Next]_(Cleanup!vars) => CleanupInv'
  BY CleanupTypes, StepGuards, StepLock, StepHolds, StepPlan, StepTaken DEF CleanupInv
<1> QED
  BY InitCleanup, <1>1, PTL DEF Cleanup!Spec

-----------------------------------------------------------------------------
(* The installation with its relocations. *)

Old(l) == Asset!Old(l)
New(l) == Asset!New(l)

\* Contents are told apart: an edit is none of what was there or is to be retired.
EditsAbove ==
  /\ \A p \in Asset!Paths : /\ ifile[p] <= Asset!First + edits
                            /\ before[p] <= Asset!First + edits /\ put[p] <= Asset!First + edits
  /\ \A l \in Legacy : retire[l] <= Asset!First + edits
NothingIsMissed == \A l \in Legacy : 0 \notin must[l]

\* What is written: no legacy file, and a copy only where there is none, or the same.
Transaction == {"write", "writing", "delete", "deleting", "undelete", "undo"}
Prepared == Transaction \cup {"build"}
CopiesPlanned ==
  /\ ipc = "relocate" => \A l \in Legacy : put[New(l)] = 0
  /\ ipc \in Prepared =>
       \A l \in Legacy : put[New(l)] # 0 => before[New(l)] \in {0, put[New(l)]}
  /\ ipc \in Prepared \cup {"relocate"} => \A l \in Legacy : put[Old(l)] = 0
\* The copy is of what is retired: nobody writes the same contents again.
CopiesRetired ==
  /\ ipc = "build" => \A l \in Legacy : ifile[Old(l)] = retire[l] => put[New(l)] = retire[l]
  /\ ipc \in Transaction => \A l \in Legacy : put[New(l)] = retire[l]

NoneDeleted == ipc \in {"snapshot", "relocate", "build", "write", "writing"} => deleted = {}
WritesChange == ipc = "writing" => \A p \in at : put[p] # 0 /\ before[p] # put[p]
\* What is deleted has its copy.
CopiesThere ==
  /\ ipc \in {"delete", "deleting"} =>
       \A l \in Legacy : retire[l] # 0 \/ l \in deleted => ifile[New(l)] = retire[l]
  /\ ipc = "undelete" => \A l \in deleted : ifile[New(l)] = retire[l]
DeletesChecked ==
  ipc = "deleting" =>
    \E l \in Legacy : /\ at = {Old(l)} /\ retire[l] # 0
                      /\ ifile[Old(l)] = retire[l] \/ l \in raced

\* A copy that the transaction has made is not the only one, but while its legacy file is
\* deleted.
Away(l) == l \in deleted /\ ipc # "undo" /\ ~(ipc = "undelete" /\ Old(l) \in done)
StillOld(l) ==
  before[New(l)] = 0 /\ put[New(l)] # 0 /\ ~Away(l) => must[l] \subseteq {ifile[Old(l)]}
OldHolds == ipc \in Prepared => \A l \in Legacy \ (raced \cup stuck) : StillOld(l)

AssetInv == /\ Asset!TypeOK /\ EditsAbove /\ NothingIsMissed
            /\ CopiesPlanned /\ CopiesRetired /\ NoneDeleted /\ WritesChange /\ CopiesThere
            /\ DeletesChecked /\ OldHolds /\ Asset!LegacyKept

-----------------------------------------------------------------------------
\* The places: targets, legacy files and their copies, all told apart.
LEMMA OldPlace ==
  ASSUME NEW l \in Legacy
  PROVE  /\ Old(l) \in Asset!Paths /\ Old(l) \notin Generated /\ Old(l) \notin Asset!News
         /\ Old(l)[1] = l
  BY GeneratedAssumption DEF Old, Asset!Old, Asset!New, Asset!Olds, Asset!News, Asset!Paths
LEMMA NewPlace ==
  ASSUME NEW l \in Legacy
  PROVE  /\ New(l) \in Asset!Paths /\ New(l) \notin Generated /\ New(l) \in Asset!News
         /\ New(l)[1] = l
  BY GeneratedAssumption DEF New, Asset!Old, Asset!New, Asset!Olds, Asset!News, Asset!Paths
LEMMA Apart ==
  ASSUME NEW l \in Legacy, NEW m \in Legacy
  PROVE  /\ Old(l) # New(m)
         /\ Old(l) = Old(m) => l = m
         /\ New(l) = New(m) => l = m
  BY DEF Old, New, Asset!Old, Asset!New
LEMMA EveryPlace ==
  ASSUME NEW p \in Asset!Paths
  PROVE  p \in Generated \/ \E l \in Legacy : p = Old(l) \/ p = New(l)
  BY DEF Old, New, Asset!Olds, Asset!News, Asset!Paths
LEMMA TargetPlace == Generated \subseteq Asset!Paths
  BY DEF Asset!Paths

\* What the steps use of the types: contents are numbers, files are functions of paths.
LEMMA ContentsNat == /\ 0 \in Asset!Contents /\ 1 \in Asset!Contents
                     /\ Asset!Contents \subseteq Nat
  BY EditsAssumption DEF Asset!Contents, Asset!First
Shapes ==
  /\ ifile \in [Asset!Paths -> Nat] /\ before \in [Asset!Paths -> Nat]
  /\ put \in [Asset!Paths -> Nat] /\ retire \in [Legacy -> Nat]
  /\ must \in [Legacy -> SUBSET Nat]
  /\ at \subseteq Asset!Paths /\ deleted \subseteq Legacy /\ edits \in Nat
LEMMA TypesShape == Asset!TypeOK => Shapes
<1> SUFFICES ASSUME Asset!TypeOK PROVE Shapes
  OBVIOUS
<1>1. edits \in 0..MaxEdits
  BY DEF Asset!TypeOK
<1>2. edits \in Nat
  BY <1>1, EditsAssumption
<1> QED
  BY <1>2, ContentsNat DEF Asset!TypeOK, Shapes

\* The counters, and what an edit writes while they are within their bounds.
CountersOK == edits \in 0..MaxEdits /\ ifaults \in 0..InstallFaults
LEMMA CountersNow == Asset!TypeOK => CountersOK
  BY DEF Asset!TypeOK, CountersOK
LEMMA EditContents ==
  ASSUME NEW e \in 0..MaxEdits
  PROVE  Asset!First + e \in Asset!Contents
  BY EditsAssumption DEF Asset!Contents, Asset!First

\* The counters stay within their bounds.
LEMMA CountersTyped ==
  ASSUME Asset!TypeOK, [Asset!Next]_(Asset!vars)
  PROVE  CountersOK'
<1>1. \/ \E p \in Asset!Paths : Asset!Undo(p)
      \/ \E l \in Legacy : Asset!Undelete(l)
      \/ Asset!StepFails
      \/ Asset!Crash
      \/ \E q \in Generated : Asset!EditTarget(q)
      \/ \E m \in Legacy : Asset!EditLegacy(m)
      \/ UNCHANGED <<edits, ifaults>>
  BY DEF Asset!Next, Asset!Step, Asset!vars, Asset!Begin, Asset!Snapshot, Asset!Relocate,
       Asset!Build, Asset!Write, Asset!Verify, Asset!Delete, Asset!Final, Asset!Undeleted,
       Asset!Undone, Asset!Check, Asset!CheckOld, Asset!ClientStarts, Asset!ClientEnds,
       Asset!Conflict, Asset!Written, Asset!history, Asset!bounds, Asset!Fault
<1> USE CountersNow, EditsAssumption
    DEF Asset!history, Asset!bounds, Asset!Fault, CountersOK
<1>2. ASSUME NEW p \in Asset!Paths, Asset!Undo(p) PROVE CountersOK'
  BY <1>2 DEF Asset!Undo
<1>3. ASSUME NEW l \in Legacy, Asset!Undelete(l) PROVE CountersOK'
  BY <1>3 DEF Asset!Undelete
<1>4. CASE Asset!StepFails
  BY <1>4 DEF Asset!StepFails
<1>5. CASE Asset!Crash
  BY <1>5 DEF Asset!Crash
<1>6. ASSUME NEW q \in Generated, Asset!EditTarget(q) PROVE CountersOK'
  BY <1>6 DEF Asset!EditTarget, Asset!Edit
<1>7. ASSUME NEW m \in Legacy, Asset!EditLegacy(m) PROVE CountersOK'
  BY <1>7 DEF Asset!EditLegacy, Asset!Edit
<1>8. CASE UNCHANGED <<edits, ifaults>>
  BY <1>8
<1> QED
  BY <1>1, <1>2, <1>3, <1>4, <1>5, <1>6, <1>7, <1>8

\* Every step keeps the types.
LEMMA AssetTypes ==
  ASSUME Asset!TypeOK, DeletesChecked, [Asset!Next]_(Asset!vars)
  PROVE  Asset!TypeOK'
<1> USE ContentsNat, CountersTyped, OldPlace
    DEF Asset!work, Asset!history, Asset!bounds, Asset!Refuse, Asset!Fault, Asset!RollBack,
        Asset!Pass, Asset!Complain, Asset!Found, Asset!Retired, Asset!Writes, Asset!None,
        CountersOK, Old, Asset!TypeOK, Asset!Nothing, Asset!Payload
<1>1. CASE Asset!Begin
  <2>1. retire' \in [Legacy -> Asset!Contents]
    BY <1>1 DEF Asset!Begin
  <2>2. before' \in [Asset!Paths -> Asset!Contents] /\ put' \in [Asset!Paths -> Asset!Contents]
    BY <1>1 DEF Asset!Begin
  <2> QED
    BY <1>1, <2>1, <2>2 DEF Asset!Begin
<1>2. CASE Asset!Snapshot
  <2>1. before' \in [Asset!Paths -> Asset!Contents] /\ put' \in [Asset!Paths -> Asset!Contents]
    <3>1. /\ ifile \in [Asset!Paths -> Asset!Contents] /\ 0 \in Asset!Contents
          /\ 1 \in Asset!Contents /\ before \in [Asset!Paths -> Asset!Contents]
          /\ put \in [Asset!Paths -> Asset!Contents]
      OBVIOUS
    <3> QED
      BY ONLY <1>2, <3>1 DEF Asset!Snapshot, Asset!None, Asset!Payload
  <2> QED
    BY <1>2, <2>1 DEF Asset!Snapshot
<1>3. CASE Asset!Relocate
  <2>1. \A p \in Asset!Paths : (\E l \in Legacy : p = Asset!New(l))
                                  => ifile[Asset!Old(p[1])] \in Asset!Contents
    BY NewPlace DEF New
  <2>2. before' \in [Asset!Paths -> Asset!Contents]
    BY <1>3 DEF Asset!Relocate
  <2>3. put' \in [Asset!Paths -> Asset!Contents]
    BY <1>3, <2>1 DEF Asset!Relocate
  <2> QED
    BY <1>3, <2>2, <2>3 DEF Asset!Relocate
<1>4. CASE Asset!Build
  BY <1>4 DEF Asset!Build
<1>5. CASE Asset!Write
  BY <1>5 DEF Asset!Write
<1>6. CASE Asset!Verify
  BY <1>6 DEF Asset!Verify, Asset!Written
<1>7. CASE Asset!Delete
  BY <1>7 DEF Asset!Delete, DeletesChecked
<1>8. CASE Asset!Final
  BY <1>8 DEF Asset!Final, Asset!Written
<1>9. CASE Asset!Undeleted
  BY <1>9 DEF Asset!Undeleted
<1>10. CASE Asset!Undone
  BY <1>10 DEF Asset!Undone
<1>11. ASSUME NEW p \in Asset!Paths, Asset!Check(p) PROVE Asset!TypeOK'
  BY <1>11 DEF Asset!Check
<1>12. ASSUME NEW p \in Asset!Paths, Asset!Undo(p) PROVE Asset!TypeOK'
  <2>1. ifile' \in [Asset!Paths -> Asset!Contents]
    BY <1>12 DEF Asset!Undo
  <2> QED
    BY <1>12, <2>1 DEF Asset!Undo
<1>13. ASSUME NEW l \in Legacy, Asset!CheckOld(l) PROVE Asset!TypeOK'
  BY <1>13 DEF Asset!CheckOld
<1>14. ASSUME NEW l \in Legacy, Asset!Undelete(l) PROVE Asset!TypeOK'
  BY <1>14 DEF Asset!Undelete
<1>15. CASE Asset!StepFails
  BY <1>15 DEF Asset!StepFails
<1>16. CASE Asset!ClientStarts
  BY <1>16 DEF Asset!ClientStarts
<1>17. CASE Asset!ClientEnds
  BY <1>17 DEF Asset!ClientEnds
<1>18. CASE Asset!Crash
  BY <1>18 DEF Asset!Crash
<1>19. ASSUME NEW q \in Generated, Asset!EditTarget(q) PROVE Asset!TypeOK'
  BY <1>19, EditContents, TargetPlace DEF Asset!EditTarget, Asset!Edit
<1>20. ASSUME NEW m \in Legacy, Asset!EditLegacy(m) PROVE Asset!TypeOK'
  <2>1. ifile' \in [Asset!Paths -> Asset!Contents] /\ ifile'[Asset!Old(m)] \in Asset!Contents
    BY <1>20, EditContents DEF Asset!EditLegacy, Asset!Edit
  <2>2. must' \in [Legacy -> SUBSET Asset!Contents]
    BY <1>20, <2>1 DEF Asset!EditLegacy
  <2> QED
    BY <1>20, <2>1, <2>2 DEF Asset!EditLegacy, Asset!Edit
<1>21. CASE UNCHANGED Asset!vars
  BY <1>21 DEF Asset!vars
<1> QED
  BY <1>1, <1>2, <1>3, <1>4, <1>5, <1>6, <1>7, <1>8, <1>9, <1>10, <1>11, <1>12, <1>13,
    <1>14, <1>15, <1>16, <1>17, <1>18, <1>19, <1>20, <1>21 DEF Asset!Next, Asset!Step

\* Only an edit brings contents that were not there, and those are new.
LEMMA StepAbove ==
  ASSUME Shapes, [Asset!Next]_(Asset!vars), EditsAbove
  PROVE  EditsAbove'
<1>1. \/ Asset!Begin
      \/ Asset!Snapshot
      \/ Asset!Relocate
      \/ Asset!Write
      \/ Asset!Delete
      \/ \E p \in Asset!Paths : Asset!Undo(p)
      \/ \E l \in Legacy : Asset!Undelete(l)
      \/ \E q \in Generated : Asset!EditTarget(q)
      \/ \E m \in Legacy : Asset!EditLegacy(m)
      \/ UNCHANGED <<ifile, before, put, retire, edits>>
  BY DEF Asset!Next, Asset!Step, Asset!vars, Asset!Build, Asset!Verify, Asset!Final,
       Asset!Undeleted, Asset!Undone, Asset!Check, Asset!CheckOld, Asset!StepFails,
       Asset!ClientStarts, Asset!ClientEnds, Asset!Crash, Asset!Written, Asset!work,
       Asset!history, Asset!bounds, Asset!Refuse, Asset!Fault, Asset!RollBack, Asset!Pass,
       Asset!Complain, Asset!Found, Asset!Retired, Asset!Writes, Asset!None, Old, New
<1> USE OldPlace, NewPlace
    DEF Asset!work, Asset!history, Asset!bounds, Asset!Refuse, Asset!Fault, Asset!RollBack,
        Asset!Pass, Asset!Complain, Asset!Found, Asset!Retired, Asset!Writes, Asset!None, Old,
        New, Shapes, EditsAbove, Asset!First, Asset!Payload, Asset!Nothing
<1>2. CASE Asset!Begin
  BY <1>2 DEF Asset!Begin
<1>3. CASE Asset!Snapshot
  BY <1>3 DEF Asset!Snapshot
<1>4. CASE Asset!Relocate
  BY <1>4 DEF Asset!Relocate, Asset!Conflict
<1>5. CASE Asset!Write
  BY <1>5 DEF Asset!Write
<1>6. CASE Asset!Delete
  BY <1>6 DEF Asset!Delete
<1>7. ASSUME NEW p \in Asset!Paths, Asset!Undo(p) PROVE EditsAbove'
  BY <1>7 DEF Asset!Undo
<1>8. ASSUME NEW l \in Legacy, Asset!Undelete(l) PROVE EditsAbove'
  BY <1>8 DEF Asset!Undelete
<1>9. ASSUME NEW q \in Generated, Asset!EditTarget(q) PROVE EditsAbove'
  BY <1>9 DEF Asset!EditTarget, Asset!Edit
<1>10. ASSUME NEW m \in Legacy, Asset!EditLegacy(m) PROVE EditsAbove'
  BY <1>10 DEF Asset!EditLegacy, Asset!Edit
<1>11. CASE UNCHANGED <<ifile, before, put, retire, edits>>
  BY <1>11
<1> QED
  BY <1>1, <1>2, <1>3, <1>4, <1>5, <1>6, <1>7, <1>8, <1>9, <1>10, <1>11

\* To miss is to miss contents, never the absence of a file.
LEMMA StepMissed ==
  ASSUME Shapes, [Asset!Next]_(Asset!vars), NothingIsMissed
  PROVE  NothingIsMissed'
<1>1. \/ \E m \in Legacy : Asset!EditLegacy(m)
      \/ UNCHANGED must
  BY DEF Asset!Next, Asset!Step, Asset!vars, Asset!Begin, Asset!Snapshot, Asset!Relocate,
       Asset!Build, Asset!Write, Asset!Verify, Asset!Delete, Asset!Final, Asset!Undeleted,
       Asset!Undone, Asset!Check, Asset!Undo, Asset!CheckOld, Asset!Undelete, Asset!StepFails,
       Asset!ClientStarts, Asset!ClientEnds, Asset!Crash, Asset!EditTarget, Asset!Conflict,
       Asset!Written, Asset!Edit, Asset!work, Asset!history, Asset!bounds, Asset!Refuse,
       Asset!Fault, Asset!RollBack, Asset!Pass, Asset!Complain, Asset!Found, Asset!Retired,
       Asset!Writes, Asset!None, Old, New
<1> USE OldPlace, NewPlace
    DEF Asset!work, Asset!history, Asset!bounds, Asset!Refuse, Asset!Fault, Asset!RollBack,
        Asset!Pass, Asset!Complain, Asset!Found, Asset!Retired, Asset!Writes, Asset!None, Old,
        New, Shapes, NothingIsMissed
<1>2. ASSUME NEW m \in Legacy, Asset!EditLegacy(m) PROVE NothingIsMissed'
  BY <1>2 DEF Asset!EditLegacy, Asset!Edit, Asset!First
<1>3. CASE UNCHANGED must
  BY <1>3
<1> QED
  BY <1>1, <1>2, <1>3

\* A copy goes where there is none, or where it is already.
LEMMA StepCopies ==
  ASSUME Shapes, [Asset!Next]_(Asset!vars), CopiesPlanned, NoneDeleted
  PROVE  (CopiesPlanned /\ NoneDeleted)'
<1> USE OldPlace, NewPlace
    DEF Asset!work, Asset!history, Asset!bounds, Asset!Refuse, Asset!Fault, Asset!RollBack,
        Asset!Pass, Asset!Complain, Asset!Found, Asset!Retired, Asset!Writes, Asset!None, Old,
        New, Shapes, CopiesPlanned, NoneDeleted, Transaction, Prepared
<1>1. CASE Asset!Begin
  BY <1>1 DEF Asset!Begin
<1>2. CASE Asset!Snapshot
  BY <1>2 DEF Asset!Snapshot
<1>3. CASE Asset!Relocate
  BY <1>3 DEF Asset!Relocate, Asset!Conflict
<1>4. CASE Asset!Build
  BY <1>4 DEF Asset!Build
<1>5. CASE Asset!Write
  BY <1>5 DEF Asset!Write
<1>6. CASE Asset!Verify
  BY <1>6 DEF Asset!Verify, Asset!Written
<1>7. CASE Asset!Delete
  BY <1>7 DEF Asset!Delete
<1>8. CASE Asset!Final
  BY <1>8 DEF Asset!Final, Asset!Written
<1>9. CASE Asset!Undeleted
  BY <1>9 DEF Asset!Undeleted
<1>10. CASE Asset!Undone
  BY <1>10 DEF Asset!Undone
<1>11. ASSUME NEW p \in Asset!Paths, Asset!Check(p) PROVE (CopiesPlanned /\ NoneDeleted)'
  BY <1>11 DEF Asset!Check
<1>12. ASSUME NEW p \in Asset!Paths, Asset!Undo(p) PROVE (CopiesPlanned /\ NoneDeleted)'
  BY <1>12 DEF Asset!Undo
<1>13. ASSUME NEW l \in Legacy, Asset!CheckOld(l) PROVE (CopiesPlanned /\ NoneDeleted)'
  BY <1>13 DEF Asset!CheckOld
<1>14. ASSUME NEW l \in Legacy, Asset!Undelete(l) PROVE (CopiesPlanned /\ NoneDeleted)'
  BY <1>14 DEF Asset!Undelete
<1>15. CASE Asset!StepFails
  BY <1>15 DEF Asset!StepFails
<1>16. CASE Asset!ClientStarts
  BY <1>16 DEF Asset!ClientStarts
<1>17. CASE Asset!ClientEnds
  BY <1>17 DEF Asset!ClientEnds
<1>18. CASE Asset!Crash
  BY <1>18 DEF Asset!Crash
<1>19. ASSUME NEW q \in Generated, Asset!EditTarget(q) PROVE (CopiesPlanned /\ NoneDeleted)'
  BY <1>19 DEF Asset!EditTarget, Asset!Edit
<1>20. ASSUME NEW m \in Legacy, Asset!EditLegacy(m) PROVE (CopiesPlanned /\ NoneDeleted)'
  BY <1>20 DEF Asset!EditLegacy, Asset!Edit
<1>21. CASE UNCHANGED Asset!vars
  BY <1>21 DEF Asset!vars
<1> QED
  BY <1>1, <1>2, <1>3, <1>4, <1>5, <1>6, <1>7, <1>8, <1>9, <1>10, <1>11, <1>12, <1>13,
    <1>14, <1>15, <1>16, <1>17, <1>18, <1>19, <1>20, <1>21 DEF Asset!Next, Asset!Step

\* What is copied is what is retired, for the transaction begins only if nothing moved.
LEMMA StepRetired ==
  ASSUME Shapes, [Asset!Next]_(Asset!vars), EditsAbove, CopiesPlanned, CopiesRetired
  PROVE  CopiesRetired'
<1> USE OldPlace, NewPlace
    DEF Asset!work, Asset!history, Asset!bounds, Asset!Refuse, Asset!Fault, Asset!RollBack,
        Asset!Pass, Asset!Complain, Asset!Found, Asset!Retired, Asset!Writes, Asset!None, Old,
        New, Shapes, CopiesRetired, Transaction, Prepared
<1>1. CASE Asset!Begin
  BY <1>1 DEF Asset!Begin
<1>2. CASE Asset!Snapshot
  BY <1>2 DEF Asset!Snapshot
<1>3. CASE Asset!Relocate
  BY <1>3 DEF Asset!Relocate, Asset!Conflict, CopiesPlanned
<1>4. CASE Asset!Build
  BY <1>4 DEF Asset!Build
<1>5. CASE Asset!Write
  BY <1>5 DEF Asset!Write
<1>6. CASE Asset!Verify
  BY <1>6 DEF Asset!Verify, Asset!Written
<1>7. CASE Asset!Delete
  BY <1>7 DEF Asset!Delete
<1>8. CASE Asset!Final
  BY <1>8 DEF Asset!Final, Asset!Written
<1>9. CASE Asset!Undeleted
  BY <1>9 DEF Asset!Undeleted
<1>10. CASE Asset!Undone
  BY <1>10 DEF Asset!Undone
<1>11. ASSUME NEW p \in Asset!Paths, Asset!Check(p) PROVE CopiesRetired'
  BY <1>11 DEF Asset!Check
<1>12. ASSUME NEW p \in Asset!Paths, Asset!Undo(p) PROVE CopiesRetired'
  BY <1>12 DEF Asset!Undo
<1>13. ASSUME NEW l \in Legacy, Asset!CheckOld(l) PROVE CopiesRetired'
  BY <1>13 DEF Asset!CheckOld
<1>14. ASSUME NEW l \in Legacy, Asset!Undelete(l) PROVE CopiesRetired'
  BY <1>14 DEF Asset!Undelete
<1>15. CASE Asset!StepFails
  BY <1>15 DEF Asset!StepFails
<1>16. CASE Asset!ClientStarts
  BY <1>16 DEF Asset!ClientStarts
<1>17. CASE Asset!ClientEnds
  BY <1>17 DEF Asset!ClientEnds
<1>18. CASE Asset!Crash
  BY <1>18 DEF Asset!Crash
<1>19. ASSUME NEW q \in Generated, Asset!EditTarget(q) PROVE CopiesRetired'
  BY <1>19 DEF Asset!EditTarget, Asset!Edit
<1>20. ASSUME NEW m \in Legacy, Asset!EditLegacy(m) PROVE CopiesRetired'
  BY <1>20, Apart DEF Asset!EditLegacy, Asset!Edit, EditsAbove, Asset!First
<1>21. CASE UNCHANGED Asset!vars
  BY <1>21 DEF Asset!vars
<1> QED
  BY <1>1, <1>2, <1>3, <1>4, <1>5, <1>6, <1>7, <1>8, <1>9, <1>10, <1>11, <1>12, <1>13,
    <1>14, <1>15, <1>16, <1>17, <1>18, <1>19, <1>20, <1>21 DEF Asset!Next, Asset!Step

\* What is in hand was checked, and who comes in between is known.
LEMMA StepChecks ==
  ASSUME Shapes, [Asset!Next]_(Asset!vars), WritesChange, DeletesChecked
  PROVE  (WritesChange /\ DeletesChecked)'
<1> USE OldPlace, NewPlace
    DEF Asset!work, Asset!history, Asset!bounds, Asset!Refuse, Asset!Fault, Asset!RollBack,
        Asset!Pass, Asset!Complain, Asset!Found, Asset!Retired, Asset!Writes, Asset!None, Old,
        New, Shapes, WritesChange, DeletesChecked
<1>1. CASE Asset!Begin
  BY <1>1 DEF Asset!Begin
<1>2. CASE Asset!Snapshot
  BY <1>2 DEF Asset!Snapshot
<1>3. CASE Asset!Relocate
  BY <1>3 DEF Asset!Relocate, Asset!Conflict
<1>4. CASE Asset!Build
  BY <1>4 DEF Asset!Build
<1>5. CASE Asset!Write
  BY <1>5 DEF Asset!Write
<1>6. CASE Asset!Verify
  BY <1>6 DEF Asset!Verify, Asset!Written
<1>7. CASE Asset!Delete
  BY <1>7 DEF Asset!Delete
<1>8. CASE Asset!Final
  BY <1>8 DEF Asset!Final, Asset!Written
<1>9. CASE Asset!Undeleted
  BY <1>9 DEF Asset!Undeleted
<1>10. CASE Asset!Undone
  BY <1>10 DEF Asset!Undone
<1>11. ASSUME NEW p \in Asset!Paths, Asset!Check(p) PROVE (WritesChange /\ DeletesChecked)'
  BY <1>11 DEF Asset!Check
<1>12. ASSUME NEW p \in Asset!Paths, Asset!Undo(p) PROVE (WritesChange /\ DeletesChecked)'
  BY <1>12 DEF Asset!Undo
<1>13. ASSUME NEW l \in Legacy, Asset!CheckOld(l) PROVE (WritesChange /\ DeletesChecked)'
  BY <1>13 DEF Asset!CheckOld
<1>14. ASSUME NEW l \in Legacy, Asset!Undelete(l) PROVE (WritesChange /\ DeletesChecked)'
  BY <1>14 DEF Asset!Undelete
<1>15. CASE Asset!StepFails
  BY <1>15 DEF Asset!StepFails
<1>16. CASE Asset!ClientStarts
  BY <1>16 DEF Asset!ClientStarts
<1>17. CASE Asset!ClientEnds
  BY <1>17 DEF Asset!ClientEnds
<1>18. CASE Asset!Crash
  BY <1>18 DEF Asset!Crash
<1>19. ASSUME NEW q \in Generated, Asset!EditTarget(q) PROVE (WritesChange /\ DeletesChecked)'
  BY <1>19 DEF Asset!EditTarget, Asset!Edit
<1>20. ASSUME NEW m \in Legacy, Asset!EditLegacy(m) PROVE (WritesChange /\ DeletesChecked)'
  BY <1>20, Apart DEF Asset!EditLegacy, Asset!Edit
<1>21. CASE UNCHANGED Asset!vars
  BY <1>21 DEF Asset!vars
<1> QED
  BY <1>1, <1>2, <1>3, <1>4, <1>5, <1>6, <1>7, <1>8, <1>9, <1>10, <1>11, <1>12, <1>13,
    <1>14, <1>15, <1>16, <1>17, <1>18, <1>19, <1>20, <1>21 DEF Asset!Next, Asset!Step

\* Copies are verified before the first deletion.
LEMMA StepThere ==
  ASSUME Shapes, [Asset!Next]_(Asset!vars), CopiesPlanned, CopiesRetired, NoneDeleted,
         DeletesChecked, CopiesThere
  PROVE  CopiesThere'
<1> USE OldPlace, NewPlace
    DEF Asset!work, Asset!history, Asset!bounds, Asset!Refuse, Asset!Fault, Asset!RollBack,
        Asset!Pass, Asset!Complain, Asset!Found, Asset!Retired, Asset!Writes, Asset!None, Old,
        New, Shapes, CopiesThere, CopiesRetired, CopiesPlanned, NoneDeleted, DeletesChecked,
        Transaction, Prepared
<1>1. CASE Asset!Begin
  BY <1>1 DEF Asset!Begin
<1>2. CASE Asset!Snapshot
  BY <1>2 DEF Asset!Snapshot
<1>3. CASE Asset!Relocate
  BY <1>3 DEF Asset!Relocate, Asset!Conflict
<1>4. CASE Asset!Build
  BY <1>4 DEF Asset!Build
<1>5. CASE Asset!Write
  BY <1>5 DEF Asset!Write
<1>6. CASE Asset!Verify
  BY <1>6 DEF Asset!Verify, Asset!Written
<1>7. CASE Asset!Delete
  BY <1>7, Apart DEF Asset!Delete
<1>8. CASE Asset!Final
  BY <1>8 DEF Asset!Final, Asset!Written
<1>9. CASE Asset!Undeleted
  BY <1>9 DEF Asset!Undeleted
<1>10. CASE Asset!Undone
  BY <1>10 DEF Asset!Undone
<1>11. ASSUME NEW p \in Asset!Paths, Asset!Check(p) PROVE CopiesThere'
  BY <1>11 DEF Asset!Check
<1>12. ASSUME NEW p \in Asset!Paths, Asset!Undo(p) PROVE CopiesThere'
  BY <1>12 DEF Asset!Undo
<1>13. ASSUME NEW l \in Legacy, Asset!CheckOld(l) PROVE CopiesThere'
  BY <1>13 DEF Asset!CheckOld
<1>14. ASSUME NEW l \in Legacy, Asset!Undelete(l) PROVE CopiesThere'
  BY <1>14, Apart DEF Asset!Undelete
<1>15. CASE Asset!StepFails
  BY <1>15 DEF Asset!StepFails
<1>16. CASE Asset!ClientStarts
  BY <1>16 DEF Asset!ClientStarts
<1>17. CASE Asset!ClientEnds
  BY <1>17 DEF Asset!ClientEnds
<1>18. CASE Asset!Crash
  BY <1>18 DEF Asset!Crash
<1>19. ASSUME NEW q \in Generated, Asset!EditTarget(q) PROVE CopiesThere'
  BY <1>19 DEF Asset!EditTarget, Asset!Edit
<1>20. ASSUME NEW m \in Legacy, Asset!EditLegacy(m) PROVE CopiesThere'
  BY <1>20, Apart DEF Asset!EditLegacy, Asset!Edit
<1>21. CASE UNCHANGED Asset!vars
  BY <1>21 DEF Asset!vars
<1> QED
  BY <1>1, <1>2, <1>3, <1>4, <1>5, <1>6, <1>7, <1>8, <1>9, <1>10, <1>11, <1>12, <1>13,
    <1>14, <1>15, <1>16, <1>17, <1>18, <1>19, <1>20, <1>21 DEF Asset!Next, Asset!Step

\* A copy is taken away only when the legacy file has its contents again.
LEMMA StepHeld ==
  ASSUME Shapes, AssetInv, [Asset!Next]_(Asset!vars)
  PROVE  OldHolds'
<1> USE OldPlace, NewPlace
    DEF Asset!work, Asset!history, Asset!bounds, Asset!Refuse, Asset!Fault, Asset!RollBack,
        Asset!Pass, Asset!Complain, Asset!Found, Asset!Retired, Asset!Writes, Asset!None, Old,
        New, AssetInv, Shapes, EditsAbove, NothingIsMissed, CopiesPlanned, CopiesRetired,
        NoneDeleted, WritesChange, CopiesThere, DeletesChecked, OldHolds, StillOld, Away,
        Asset!LegacyKept, Asset!Kept, Transaction, Prepared
<1>1. CASE Asset!Begin
  BY <1>1 DEF Asset!Begin
<1>2. CASE Asset!Snapshot
  BY <1>2 DEF Asset!Snapshot
<1>3. CASE Asset!Relocate
  BY <1>3 DEF Asset!Relocate, Asset!Conflict
<1>4. CASE Asset!Build
  BY <1>4 DEF Asset!Build
<1>5. CASE Asset!Write
  BY <1>5, Apart DEF Asset!Write
<1>6. CASE Asset!Verify
  BY <1>6 DEF Asset!Verify, Asset!Written
<1>7. CASE Asset!Delete
  BY <1>7, Apart DEF Asset!Delete
<1>8. CASE Asset!Final
  BY <1>8 DEF Asset!Final, Asset!Written
<1>9. CASE Asset!Undeleted
  BY <1>9 DEF Asset!Undeleted
<1>10. CASE Asset!Undone
  BY <1>10 DEF Asset!Undone
<1>11. ASSUME NEW p \in Asset!Paths, Asset!Check(p) PROVE OldHolds'
  BY <1>11 DEF Asset!Check
<1>12. ASSUME NEW p \in Asset!Paths, Asset!Undo(p) PROVE OldHolds'
  BY <1>12, Apart, EveryPlace DEF Asset!Undo
<1>13. ASSUME NEW l \in Legacy, Asset!CheckOld(l) PROVE OldHolds'
  BY <1>13 DEF Asset!CheckOld
<1>14. ASSUME NEW l \in Legacy, Asset!Undelete(l) PROVE OldHolds'
  BY <1>14, Apart DEF Asset!Undelete
<1>15. CASE Asset!StepFails
  BY <1>15 DEF Asset!StepFails
<1>16. CASE Asset!ClientStarts
  BY <1>16 DEF Asset!ClientStarts
<1>17. CASE Asset!ClientEnds
  BY <1>17 DEF Asset!ClientEnds
<1>18. CASE Asset!Crash
  BY <1>18 DEF Asset!Crash
<1>19. ASSUME NEW q \in Generated, Asset!EditTarget(q) PROVE OldHolds'
  BY <1>19 DEF Asset!EditTarget, Asset!Edit
<1>20. ASSUME NEW m \in Legacy, Asset!EditLegacy(m) PROVE OldHolds'
  BY <1>20, Apart DEF Asset!EditLegacy, Asset!Edit
<1>21. CASE UNCHANGED Asset!vars
  BY <1>21 DEF Asset!vars
<1> QED
  BY <1>1, <1>2, <1>3, <1>4, <1>5, <1>6, <1>7, <1>8, <1>9, <1>10, <1>11, <1>12, <1>13,
    <1>14, <1>15, <1>16, <1>17, <1>18, <1>19, <1>20, <1>21 DEF Asset!Next, Asset!Step

\* So every step leaves what is missed in one of the two places.
LEMMA StepKept ==
  ASSUME Shapes, AssetInv, [Asset!Next]_(Asset!vars)
  PROVE  Asset!LegacyKept'
<1>1. \/ Asset!Write
      \/ Asset!Delete
      \/ \E p \in Asset!Paths : Asset!Undo(p)
      \/ \E l \in Legacy : Asset!Undelete(l)
      \/ \E q \in Generated : Asset!EditTarget(q)
      \/ \E m \in Legacy : Asset!EditLegacy(m)
      \/ UNCHANGED <<ifile, must, raced, stuck>>
  BY DEF Asset!Next, Asset!Step, Asset!vars, Asset!Begin, Asset!Snapshot, Asset!Relocate,
       Asset!Build, Asset!Verify, Asset!Final, Asset!Undeleted, Asset!Undone, Asset!Check,
       Asset!CheckOld, Asset!StepFails, Asset!ClientStarts, Asset!ClientEnds, Asset!Crash,
       Asset!Conflict, Asset!Written, Asset!work, Asset!history, Asset!bounds, Asset!Refuse,
       Asset!Fault, Asset!RollBack, Asset!Pass, Asset!Complain, Asset!Found, Asset!Retired,
       Asset!Writes, Asset!None, Old, New
<1> USE OldPlace, NewPlace
    DEF Asset!work, Asset!history, Asset!bounds, Asset!Refuse, Asset!Fault, Asset!RollBack,
        Asset!Pass, Asset!Complain, Asset!Found, Asset!Retired, Asset!Writes, Asset!None, Old,
        New, AssetInv, Shapes, EditsAbove, NothingIsMissed, CopiesPlanned, CopiesRetired,
        NoneDeleted, WritesChange, CopiesThere, DeletesChecked, OldHolds, StillOld, Away,
        Asset!LegacyKept, Asset!Kept, Transaction, Prepared
<1>2. CASE Asset!Write
  BY <1>2, Apart DEF Asset!Write
<1>3. CASE Asset!Delete
  BY <1>3, Apart DEF Asset!Delete
<1>4. ASSUME NEW p \in Asset!Paths, Asset!Undo(p) PROVE Asset!LegacyKept'
  BY <1>4, Apart, EveryPlace DEF Asset!Undo
<1>5. ASSUME NEW l \in Legacy, Asset!Undelete(l) PROVE Asset!LegacyKept'
  BY <1>5, Apart DEF Asset!Undelete
<1>6. ASSUME NEW q \in Generated, Asset!EditTarget(q) PROVE Asset!LegacyKept'
  BY <1>6 DEF Asset!EditTarget, Asset!Edit
<1>7. ASSUME NEW m \in Legacy, Asset!EditLegacy(m) PROVE Asset!LegacyKept'
  BY <1>7, Apart DEF Asset!EditLegacy, Asset!Edit
<1>8. CASE UNCHANGED <<ifile, must, raced, stuck>>
  BY <1>8
<1> QED
  BY <1>1, <1>2, <1>3, <1>4, <1>5, <1>6, <1>7, <1>8

\* The installation begins in its invariant.
LEMMA InitAsset == Asset!Init => AssetInv
<1> SUFFICES ASSUME Asset!Init PROVE AssetInv
  OBVIOUS
<1>1. Asset!TypeOK
  BY EditsAssumption DEF Asset!Init, Asset!TypeOK, Asset!Contents, Asset!First, Asset!None,
     Asset!Nothing, Asset!Olds, Asset!Old, Asset!Paths
<1>2. EditsAbove
  BY DEF Asset!Init, EditsAbove, Asset!First, Asset!None, Asset!Nothing
<1>3. NothingIsMissed /\ Asset!LegacyKept
  BY DEF Asset!Init, NothingIsMissed, Asset!LegacyKept, Asset!Kept, Asset!None
<1>4. /\ CopiesPlanned /\ CopiesRetired /\ NoneDeleted /\ WritesChange /\ CopiesThere
      /\ DeletesChecked /\ OldHolds
  BY DEF Asset!Init, CopiesPlanned, CopiesRetired, NoneDeleted, WritesChange, CopiesThere,
     DeletesChecked, OldHolds, Transaction, Prepared
<1> QED
  BY <1>1, <1>2, <1>3, <1>4 DEF AssetInv

\* The invariant of the installation holds throughout.
THEOREM AssetSafe == Asset!Spec => []AssetInv
<1>1. AssetInv /\ [Asset!Next]_(Asset!vars) => AssetInv'
  BY TypesShape, AssetTypes, StepAbove, StepMissed, StepCopies, StepRetired, StepChecks,
     StepThere, StepHeld, StepKept DEF AssetInv
<1> QED
  BY InitAsset, <1>1, PTL DEF Asset!Spec

-----------------------------------------------------------------------------
(* Preparing and installing the public artifacts. *)

\* A run works on a release, on programs of it.
ReleaseKnown(p) == pc[p] # "idle" => release[p] \in Contracts
LeftKnown(p) == left[p] \subseteq Assets /\ DOMAIN got[p] \subseteq Assets
PublicControl ==
  /\ product \in Contracts
  /\ pc \in [Procs -> Steps] /\ DOMAIN release = Procs /\ DOMAIN source = Procs
  /\ DOMAIN left = Procs /\ DOMAIN refs = Procs /\ DOMAIN got = Procs /\ DOMAIN bin = Procs
  /\ \A p \in Procs : ReleaseKnown(p) /\ LeftKnown(p)

\* What is built, is built from the sources the release names.
Storing == {"open", "take", "room", "publish"}
SourcesMatch(p) ==
  pc[p] \in Storing => source[p] \in Contracts /\ Input[source[p]] = Input[release[p]]
SourcesAgree == \A p \in Procs : SourcesMatch(p)

\* An entry is a build of what its name says, and so is what was taken from one.
EntriesNamed == \A k \in DOMAIN entry : k \in Keys /\ entry[k] \in Build /\ entry[k].of = k
BuildsOf(f, c) == \A a \in DOMAIN f : a \in Assets /\ f[a] \in Build /\ f[a].of = Key(c, a)
ReceiptsNamed ==
  \A c \in DOMAIN ready : c \in Contracts /\ DOMAIN ready[c] = Assets /\ BuildsOf(ready[c], c)

\* A preparation has taken what is not left, an installation has read it.
Reading == {"entry", "binary", "rest", "done"}
TakenSoFar(p) ==
  /\ pc[p] \in {"idle", "capture", "open"} => refs[p] = NoRefs
  /\ pc[p] \in {"capture", "open"} => left[p] = Assets
  /\ pc[p] \in Storing => DOMAIN refs[p] = Assets \ left[p]
  /\ pc[p] \in Reading \cup {"receipt"} => DOMAIN refs[p] = Assets
  /\ pc[p] # "idle" => BuildsOf(refs[p], release[p])
RefsNamed == ReceiptsNamed /\ \A p \in Procs : TakenSoFar(p)
ReadSoFar(p) ==
  /\ pc[p] = "done" => left[p] = {}
  /\ pc[p] \in Reading => \A a \in Assets \ left[p] :
                            a \in DOMAIN got[p] /\ got[p][a] = {refs[p][a]}
ReadsAgree == \A p \in Procs : ReadSoFar(p)
PublicInv == PublicControl /\ SourcesAgree /\ EntriesNamed /\ RefsNamed /\ ReadsAgree

\* A build is told from all that are in use.
LEMMA FreshBuild == ~(Builds \subseteq InUse) => Fresh \in Builds
  BY DEF Fresh

\* A run that has taken nothing has references to nothing.
LEMMA NoDomain == DOMAIN NoRefs = {}
  BY DEF NoRefs

\* Every step keeps the shape of the state.
LEMMA StepSteps ==
  ASSUME PublicControl, [Next]_vars
  PROVE  PublicControl'
<1> USE NumbersAssumption
    DEF Goto, Ends, disk, proc, bounds, PublicControl, Steps, ReleaseKnown, LeftKnown,
        Current, With
<1>1. ASSUME NEW p \in Procs, Prepare(p) PROVE PublicControl'
  BY <1>1 DEF Prepare
<1>2. ASSUME NEW p \in Procs, Install(p) PROVE PublicControl'
  BY <1>2 DEF Install
<1>3. ASSUME NEW p \in Procs, Capture(p) PROVE PublicControl'
  BY <1>3 DEF Capture, Matches
<1>4. ASSUME NEW p \in Procs, Open(p) PROVE PublicControl'
  BY <1>4 DEF Open
<1>5. ASSUME NEW p \in Procs, Take(p) PROVE PublicControl'
  BY <1>5 DEF Take, Hit
<1>6. ASSUME NEW p \in Procs, Room(p) PROVE PublicControl'
  BY <1>6 DEF Room, Disturb
<1>7. ASSUME NEW p \in Procs, Publish(p) PROVE PublicControl'
  BY <1>7 DEF Publish, Disturb
<1>8. ASSUME NEW p \in Procs, Taken(p) PROVE PublicControl'
  BY <1>8 DEF Taken
<1>9. ASSUME NEW p \in Procs, WriteReceipt(p) PROVE PublicControl'
  BY <1>9 DEF WriteReceipt
<1>10. ASSUME NEW p \in Procs, Prune(p) PROVE PublicControl'
  BY <1>10 DEF Prune
<1>11. ASSUME NEW p \in Procs, ReadReceipt(p) PROVE PublicControl'
  BY <1>11 DEF ReadReceipt
<1>12. ASSUME NEW p \in Procs, ReadEntry(p) PROVE PublicControl'
  BY <1>12 DEF ReadEntry, Is
<1>13. ASSUME NEW p \in Procs, ReadBinary(p) PROVE PublicControl'
  BY <1>13 DEF ReadBinary
<1>14. ASSUME NEW p \in Procs, ReadRest(p) PROVE PublicControl'
  BY <1>14 DEF ReadRest, Is
<1>15. ASSUME NEW p \in Procs, ReadAll(p) PROVE PublicControl'
  BY <1>15 DEF ReadAll
<1>16. ASSUME NEW p \in Procs, Done(p) PROVE PublicControl'
  BY <1>16 DEF Done
<1>17. ASSUME NEW p \in Procs, Stops(p) PROVE PublicControl'
  BY <1>17 DEF Stops, Fault
<1>18. CASE Upgrade
  BY <1>18 DEF Upgrade
<1>19. ASSUME NEW k \in Keys, Damage(k) PROVE PublicControl'
  BY <1>19 DEF Damage, Fault
<1>20. CASE UNCHANGED vars
  BY <1>20 DEF vars
<1> QED
  BY <1>1, <1>2, <1>3, <1>4, <1>5, <1>6, <1>7, <1>8, <1>9, <1>10, <1>11, <1>12, <1>13,
    <1>14, <1>15, <1>16, <1>17, <1>18, <1>19, <1>20 DEF Next, Step

\* Only sources that match the contract of the release are built.
LEMMA StepSources ==
  ASSUME PublicControl, SourcesAgree, [Next]_vars
  PROVE  SourcesAgree'
<1> USE NumbersAssumption
    DEF Goto, Ends, disk, proc, bounds, PublicControl, SourcesAgree, SourcesMatch, Storing,
        Steps, ReleaseKnown
<1>1. ASSUME NEW p \in Procs, Prepare(p) PROVE SourcesAgree'
  BY <1>1 DEF Prepare
<1>2. ASSUME NEW p \in Procs, Install(p) PROVE SourcesAgree'
  BY <1>2 DEF Install
<1>3. ASSUME NEW p \in Procs, Capture(p) PROVE SourcesAgree'
  BY <1>3 DEF Capture, Matches
<1>4. ASSUME NEW p \in Procs, Open(p) PROVE SourcesAgree'
  BY <1>4 DEF Open
<1>5. ASSUME NEW p \in Procs, Take(p) PROVE SourcesAgree'
  BY <1>5 DEF Take, Hit
<1>6. ASSUME NEW p \in Procs, Room(p) PROVE SourcesAgree'
  BY <1>6 DEF Room
<1>7. ASSUME NEW p \in Procs, Publish(p) PROVE SourcesAgree'
  BY <1>7 DEF Publish
<1>8. ASSUME NEW p \in Procs, Taken(p) PROVE SourcesAgree'
  BY <1>8 DEF Taken
<1>9. ASSUME NEW p \in Procs, WriteReceipt(p) PROVE SourcesAgree'
  BY <1>9 DEF WriteReceipt
<1>10. ASSUME NEW p \in Procs, Prune(p) PROVE SourcesAgree'
  BY <1>10 DEF Prune
<1>11. ASSUME NEW p \in Procs, ReadReceipt(p) PROVE SourcesAgree'
  BY <1>11 DEF ReadReceipt
<1>12. ASSUME NEW p \in Procs, ReadEntry(p) PROVE SourcesAgree'
  BY <1>12 DEF ReadEntry, Is
<1>13. ASSUME NEW p \in Procs, ReadBinary(p) PROVE SourcesAgree'
  BY <1>13 DEF ReadBinary
<1>14. ASSUME NEW p \in Procs, ReadRest(p) PROVE SourcesAgree'
  BY <1>14 DEF ReadRest, Is
<1>15. ASSUME NEW p \in Procs, ReadAll(p) PROVE SourcesAgree'
  BY <1>15 DEF ReadAll
<1>16. ASSUME NEW p \in Procs, Done(p) PROVE SourcesAgree'
  BY <1>16 DEF Done
<1>17. ASSUME NEW p \in Procs, Stops(p) PROVE SourcesAgree'
  BY <1>17 DEF Stops, Fault
<1>18. CASE Upgrade
  BY <1>18 DEF Upgrade
<1>19. ASSUME NEW k \in Keys, Damage(k) PROVE SourcesAgree'
  BY <1>19 DEF Damage, Fault
<1>20. CASE UNCHANGED vars
  BY <1>20 DEF vars
<1> QED
  BY <1>1, <1>2, <1>3, <1>4, <1>5, <1>6, <1>7, <1>8, <1>9, <1>10, <1>11, <1>12, <1>13,
    <1>14, <1>15, <1>16, <1>17, <1>18, <1>19, <1>20 DEF Next, Step

\* An entry is stored under the name of the sources it was built from.
LEMMA StepEntries ==
  ASSUME PublicControl, SourcesAgree, EntriesNamed, [Next]_vars
  PROVE  EntriesNamed'
<1>a. ASSUME NEW p \in Procs, Prepare(p) \/ Install(p) \/ Stops(p) PROVE UNCHANGED entry
  BY ONLY <1>a DEF Prepare, Install, Stops, disk
<1>b. ASSUME NEW p \in Procs, Capture(p) \/ Open(p) \/ ReadReceipt(p)
             \/ ReadEntry(p) \/ ReadBinary(p) \/ ReadRest(p) \/ ReadAll(p) \/ Done(p)
      PROVE  UNCHANGED entry
  BY ONLY <1>b DEF Capture, Open, ReadReceipt, ReadEntry, ReadBinary, ReadRest,
          ReadAll, Done, disk
<1>c. ASSUME NEW p \in Procs, Take(p) \/ Taken(p) \/ WriteReceipt(p) \/ Prune(p) PROVE UNCHANGED entry
  BY ONLY <1>c DEF Take, Taken, WriteReceipt, Prune, disk
<1>d. ASSUME Upgrade \/ (\E k \in Keys : Damage(k)) \/ UNCHANGED vars PROVE UNCHANGED entry
  BY ONLY <1>d DEF Upgrade, Damage, vars, disk
<1>1. \/ \E p \in Procs : Room(p)
      \/ \E p \in Procs : Publish(p)
      \/ UNCHANGED entry
  BY <1>a, <1>b, <1>c, <1>d DEF Next, Step
<1> USE NumbersAssumption
    DEF Goto, Ends, disk, proc, bounds, EntriesNamed, With, Without
<1>2. ASSUME NEW p \in Procs, Room(p) PROVE EntriesNamed'
  BY <1>2 DEF Room
<1>3. ASSUME NEW p \in Procs, Publish(p) PROVE EntriesNamed'
  BY <1>3, FreshBuild DEF Publish, PublicControl, SourcesAgree, SourcesMatch, Storing,
    Build, Key, Keys, ReleaseKnown, LeftKnown, Current, Steps
<1>4. CASE UNCHANGED entry
  BY <1>4
<1> QED
  BY <1>1, <1>2, <1>3, <1>4

\* A receipt names builds of its release, one for every program.
LEMMA StepReceipts ==
  ASSUME PublicControl, RefsNamed, [Next]_vars
  PROVE  ReceiptsNamed'
<1>a. ASSUME NEW p \in Procs, Prepare(p) \/ Install(p) \/ Stops(p) PROVE UNCHANGED ready
  BY ONLY <1>a DEF Prepare, Install, Stops, disk
<1>b. ASSUME NEW p \in Procs, Capture(p) \/ Open(p) \/ ReadReceipt(p)
             \/ ReadEntry(p) \/ ReadBinary(p) \/ ReadRest(p) \/ ReadAll(p) \/ Done(p)
      PROVE  UNCHANGED ready
  BY ONLY <1>b DEF Capture, Open, ReadReceipt, ReadEntry, ReadBinary, ReadRest,
          ReadAll, Done, disk
<1>c. ASSUME NEW p \in Procs, Take(p) \/ Room(p) \/ Publish(p) \/ Taken(p) PROVE UNCHANGED ready
  BY ONLY <1>c DEF Take, Room, Publish, Taken, disk
<1>d. ASSUME Upgrade \/ (\E k \in Keys : Damage(k)) \/ UNCHANGED vars PROVE UNCHANGED ready
  BY ONLY <1>d DEF Upgrade, Damage, vars, disk
<1>1. \/ \E p \in Procs : WriteReceipt(p)
      \/ \E p \in Procs : Prune(p)
      \/ UNCHANGED ready
  BY <1>a, <1>b, <1>c, <1>d DEF Next, Step
<1> USE NumbersAssumption
    DEF Goto, Ends, disk, proc, bounds, RefsNamed, ReceiptsNamed, With, Without, BuildsOf,
        PublicControl, ReleaseKnown
<1>2. ASSUME NEW p \in Procs, WriteReceipt(p) PROVE ReceiptsNamed'
  BY <1>2 DEF WriteReceipt, TakenSoFar, Reading, Storing, Steps
<1>3. ASSUME NEW p \in Procs, Prune(p) PROVE ReceiptsNamed'
  BY <1>3 DEF Prune
<1>4. CASE UNCHANGED ready
  BY <1>4
<1> QED
  BY <1>1, <1>2, <1>3, <1>4

\* What a run has taken, or reads of a receipt, are builds of its release.
LEMMA StepRefs ==
  ASSUME PublicControl, SourcesAgree, EntriesNamed, RefsNamed, [Next]_vars
  PROVE  (\A q \in Procs : TakenSoFar(q))'
<1> USE NumbersAssumption
    DEF Goto, Ends, disk, proc, bounds, RefsNamed, TakenSoFar, BuildsOf, Storing, Reading,
        Steps, PublicControl
<1>1. ASSUME NEW p \in Procs, Prepare(p) PROVE (\A q \in Procs : TakenSoFar(q))'
  BY <1>1, NoDomain DEF Prepare
<1>2. ASSUME NEW p \in Procs, Install(p) PROVE (\A q \in Procs : TakenSoFar(q))'
  BY <1>2, NoDomain DEF Install
<1>3. ASSUME NEW p \in Procs, Capture(p) PROVE (\A q \in Procs : TakenSoFar(q))'
  BY <1>3, NoDomain DEF Capture, Matches
<1>4. ASSUME NEW p \in Procs, Open(p) PROVE (\A q \in Procs : TakenSoFar(q))'
  BY <1>4 DEF Open
<1>5. ASSUME NEW p \in Procs, Take(p) PROVE (\A q \in Procs : TakenSoFar(q))'
  BY <1>5 DEF Take, Hit, With, Current, LeftKnown, EntriesNamed, ReleaseKnown, Key
<1>6. ASSUME NEW p \in Procs, Room(p) PROVE (\A q \in Procs : TakenSoFar(q))'
  BY <1>6 DEF Room
<1>7. ASSUME NEW p \in Procs, Publish(p) PROVE (\A q \in Procs : TakenSoFar(q))'
  <2> DEFINE B(a) == [id |-> Fresh, of |-> Key(source[p], a)]
  <2>1. PICK a \in Current(p) : /\ refs' = [refs EXCEPT ![p] = With(refs[p], a, B(a))]
                                /\ left' = [left EXCEPT ![p] = left[p] \ {a}]
    BY <1>7 DEF Publish
  <2>2. pc[p] = "publish" /\ pc' = [pc EXCEPT ![p] = "take"] /\ UNCHANGED release
    BY <1>7 DEF Publish
  <2>3. a \in Assets /\ Fresh \in Builds
    BY <1>7, <2>1, FreshBuild DEF Publish, Current, LeftKnown
  <2>4. B(a) \in Build /\ B(a).of = Key(release[p], a)
    <3>1. /\ source[p] \in Contracts /\ Input[source[p]] = Input[release[p]]
          /\ release[p] \in Contracts
      BY <2>2 DEF SourcesAgree, SourcesMatch, ReleaseKnown
    <3> QED
      BY ONLY <2>3, <3>1 DEF Key, Keys, Build
  <2> HIDE DEF B
  <2>5. refs'[p] = With(refs[p], a, B(a)) /\ left'[p] = left[p] \ {a}
    BY <2>1
  <2>6. TakenSoFar(p)'
    BY <2>2, <2>3, <2>4, <2>5 DEF With
  <2>7. \A q \in Procs : q # p => TakenSoFar(q)'
    BY <2>1, <2>2
  <2> QED
    BY <2>6, <2>7
<1>8. ASSUME NEW p \in Procs, Taken(p) PROVE (\A q \in Procs : TakenSoFar(q))'
  BY <1>8 DEF Taken
<1>9. ASSUME NEW p \in Procs, WriteReceipt(p) PROVE (\A q \in Procs : TakenSoFar(q))'
  BY <1>9 DEF WriteReceipt
<1>10. ASSUME NEW p \in Procs, Prune(p) PROVE (\A q \in Procs : TakenSoFar(q))'
  BY <1>10 DEF Prune
<1>11. ASSUME NEW p \in Procs, ReadReceipt(p) PROVE (\A q \in Procs : TakenSoFar(q))'
  BY <1>11 DEF ReadReceipt, ReceiptsNamed
<1>12. ASSUME NEW p \in Procs, ReadEntry(p) PROVE (\A q \in Procs : TakenSoFar(q))'
  BY <1>12 DEF ReadEntry, Is
<1>13. ASSUME NEW p \in Procs, ReadBinary(p) PROVE (\A q \in Procs : TakenSoFar(q))'
  BY <1>13 DEF ReadBinary
<1>14. ASSUME NEW p \in Procs, ReadRest(p) PROVE (\A q \in Procs : TakenSoFar(q))'
  BY <1>14 DEF ReadRest, Is
<1>15. ASSUME NEW p \in Procs, ReadAll(p) PROVE (\A q \in Procs : TakenSoFar(q))'
  BY <1>15 DEF ReadAll
<1>16. ASSUME NEW p \in Procs, Done(p) PROVE (\A q \in Procs : TakenSoFar(q))'
  BY <1>16 DEF Done
<1>17. ASSUME NEW p \in Procs, Stops(p) PROVE (\A q \in Procs : TakenSoFar(q))'
  BY <1>17 DEF Stops, Fault
<1>18. CASE Upgrade
  BY <1>18 DEF Upgrade
<1>19. ASSUME NEW k \in Keys, Damage(k) PROVE (\A q \in Procs : TakenSoFar(q))'
  BY <1>19 DEF Damage, Fault
<1>20. CASE UNCHANGED vars
  BY <1>20 DEF vars
<1> QED
  BY <1>1, <1>2, <1>3, <1>4, <1>5, <1>6, <1>7, <1>8, <1>9, <1>10, <1>11, <1>12, <1>13,
    <1>14, <1>15, <1>16, <1>17, <1>18, <1>19, <1>20 DEF Next, Step

\* What is read is compared with the receipt, before and after.
LEMMA StepReads ==
  ASSUME PublicControl, RefsNamed, ReadsAgree, [Next]_vars
  PROVE  ReadsAgree'
<1> USE NumbersAssumption
    DEF Goto, Ends, disk, proc, bounds, ReadsAgree, ReadSoFar, Reading, Steps, PublicControl
<1>1. ASSUME NEW p \in Procs, Prepare(p) PROVE ReadsAgree'
  BY <1>1 DEF Prepare
<1>2. ASSUME NEW p \in Procs, Install(p) PROVE ReadsAgree'
  BY <1>2 DEF Install
<1>3. ASSUME NEW p \in Procs, Capture(p) PROVE ReadsAgree'
  BY <1>3 DEF Capture, Matches
<1>4. ASSUME NEW p \in Procs, Open(p) PROVE ReadsAgree'
  BY <1>4 DEF Open
<1>5. ASSUME NEW p \in Procs, Take(p) PROVE ReadsAgree'
  BY <1>5 DEF Take, Hit
<1>6. ASSUME NEW p \in Procs, Room(p) PROVE ReadsAgree'
  BY <1>6 DEF Room
<1>7. ASSUME NEW p \in Procs, Publish(p) PROVE ReadsAgree'
  BY <1>7 DEF Publish
<1>8. ASSUME NEW p \in Procs, Taken(p) PROVE ReadsAgree'
  BY <1>8 DEF Taken
<1>9. ASSUME NEW p \in Procs, WriteReceipt(p) PROVE ReadsAgree'
  BY <1>9 DEF WriteReceipt
<1>10. ASSUME NEW p \in Procs, Prune(p) PROVE ReadsAgree'
  BY <1>10 DEF Prune
<1>11. ASSUME NEW p \in Procs, ReadReceipt(p) PROVE ReadsAgree'
  BY <1>11 DEF ReadReceipt
<1>12. ASSUME NEW p \in Procs, ReadEntry(p) PROVE ReadsAgree'
  BY <1>12 DEF ReadEntry, Is
<1>13. ASSUME NEW p \in Procs, ReadBinary(p) PROVE ReadsAgree'
  BY <1>13 DEF ReadBinary
<1>14. ASSUME NEW p \in Procs, ReadRest(p) PROVE ReadsAgree'
  <2>1. CASE pc'[p] = "entry"
    <3> DEFINE K(a) == Key(release[p], a)
    <3>0. ~Ends(p)
      BY <2>1
    <3> HIDE DEF Ends
    <3>1. PICK a \in Current(p) :
            /\ K(a) \in DOMAIN entry /\ entry[K(a)] = refs[p][a] /\ bin[p] = {refs[p][a]}
            /\ got' = [got EXCEPT ![p] = With(got[p], a, bin[p] \cup {entry[K(a)]})]
            /\ left' = [left EXCEPT ![p] = left[p] \ {a}]
      BY <1>14, <3>0 DEF ReadRest, Is
    <3>2. pc[p] = "rest" /\ pc' = [pc EXCEPT ![p] = "entry"] /\ UNCHANGED refs
      BY <1>14, <3>0 DEF ReadRest
    <3>3. got'[p] = With(got[p], a, {refs[p][a]}) /\ left'[p] = left[p] \ {a}
      BY <3>1
    <3>4. \A b \in Assets \ left'[p] : b \in DOMAIN got'[p] /\ got'[p][b] = {refs[p][b]}
      BY <3>2, <3>3 DEF With
    <3>5. \A q \in Procs : q # p => /\ pc'[q] = pc[q] /\ got'[q] = got[q]
                                    /\ left'[q] = left[q]
      BY <3>1, <3>2
    <3>6. ReadSoFar(p)'
      BY <2>1, <3>2, <3>4
    <3>7. \A q \in Procs : q # p => ReadSoFar(q)'
      BY <3>2, <3>5
    <3> QED
      BY <3>6, <3>7
  <2>2. CASE pc'[p] # "entry"
    BY <1>14, <2>2 DEF ReadRest
  <2> QED
    BY <2>1, <2>2
<1>15. ASSUME NEW p \in Procs, ReadAll(p) PROVE ReadsAgree'
  BY <1>15 DEF ReadAll
<1>16. ASSUME NEW p \in Procs, Done(p) PROVE ReadsAgree'
  BY <1>16 DEF Done
<1>17. ASSUME NEW p \in Procs, Stops(p) PROVE ReadsAgree'
  BY <1>17 DEF Stops, Fault
<1>18. CASE Upgrade
  BY <1>18 DEF Upgrade
<1>19. ASSUME NEW k \in Keys, Damage(k) PROVE ReadsAgree'
  BY <1>19 DEF Damage, Fault
<1>20. CASE UNCHANGED vars
  BY <1>20 DEF vars
<1> QED
  BY <1>1, <1>2, <1>3, <1>4, <1>5, <1>6, <1>7, <1>8, <1>9, <1>10, <1>11, <1>12, <1>13,
    <1>14, <1>15, <1>16, <1>17, <1>18, <1>19, <1>20 DEF Next, Step

\* The public artifacts begin in their invariant.
LEMMA InitPublic == Init => PublicInv
<1> SUFFICES ASSUME Init PROVE PublicInv
  OBVIOUS
<1>1. PublicControl
  BY NoDomain DEF Init, PublicControl, Steps, ReleaseKnown, LeftKnown, NoRefs
<1>2. SourcesAgree /\ ReadsAgree
  BY DEF Init, SourcesAgree, SourcesMatch, Storing, ReadsAgree, ReadSoFar, Reading
<1>3. EntriesNamed /\ RefsNamed
  BY NoDomain DEF Init, EntriesNamed, RefsNamed, ReceiptsNamed, TakenSoFar, Storing, Reading,
     NoRefs
<1> QED
  BY <1>1, <1>2, <1>3 DEF PublicInv

\* And every step keeps it.
LEMMA PublicStep == PublicInv /\ [Next]_vars => PublicInv'
  BY StepSteps, StepSources, StepEntries, StepReceipts, StepRefs, StepReads
  DEF PublicInv, RefsNamed

\* Once everything was read, everything was read of the builds the receipt names.
LEMMA ReadIsOneBuild == PublicInv => OneBuild
<1> SUFFICES ASSUME PublicInv, NEW p \in Procs, pc[p] = "done", NEW a \in Assets
             PROVE  \E b \in Build : got[p][a] = {b} /\ b.of = Key(release[p], a)
  BY DEF OneBuild
<1>1. got[p][a] = {refs[p][a]}
  BY DEF PublicInv, ReadsAgree, ReadSoFar, Reading
<1>2. refs[p][a] \in Build /\ refs[p][a].of = Key(release[p], a)
  BY DEF PublicInv, RefsNamed, TakenSoFar, Reading, BuildsOf
<1> QED
  BY <1>1, <1>2

-----------------------------------------------------------------------------
(* The system. *)

\* A behaviour of the system is one of every module.
LEMMA IsCleanup == AllSpec => Cleanup!Spec
<1>1. [AllNext]_all => [Cleanup!Next]_(Cleanup!vars)
  BY DEF AllNext, all, cleanupVars, Cleanup!vars, Cleanup!worker, Cleanup!cleanup,
     Cleanup!history, Cleanup!bounds
<1> QED
  BY <1>1, PTL DEF AllSpec, AllInit, Cleanup!Spec
LEMMA IsAsset == AllSpec => Asset!Spec
<1>1. [AllNext]_all => [Asset!Next]_(Asset!vars)
  BY DEF AllNext, all, assetVars, Asset!vars, Asset!work, Asset!history, Asset!bounds
<1> QED
  BY <1>1, PTL DEF AllSpec, AllInit, Asset!Spec

\* No two processes hold project-sync.lock at a time, although the cleanup deletes the
\* file that is locked and others create it again.
THEOREM LockExcludes == AllSpec => []LocksExclude
<1>1. CleanupInv => LocksExclude
  BY DEF CleanupInv, LocksExclude
<1> QED
  BY IsCleanup, CleanupSafe, <1>1, PTL

\* The cleanup deletes nothing that was written or declared after it was planned and
\* checked, and never the journal of a transaction.
THEOREM CleanupKeepsToPlan == AllSpec => []OnlyPlannedGoes
<1>1. CleanupInv => OnlyPlannedGoes
  BY DEF CleanupInv, OnlyPlannedGoes
<1> QED
  BY IsCleanup, CleanupSafe, <1>1, PTL

\* What a legacy file held is in its old place or in the new one wherever an installation
\* stops, but for a write of the legacy program into the gap and a failing deletion.
THEOREM LegacyStays == AllSpec => []LegacyKept
<1>1. AssetInv => LegacyKept
  BY DEF AssetInv, LegacyKept
<1> QED
  BY IsAsset, AssetSafe, <1>1, PTL

\* An installation gets every program of its release from one build, of the sources that
\* the release names, whatever is prepared, evicted, damaged or upgraded meanwhile.
THEOREM InstallsOneBuild == AllSpec => []OneBuild
<1>1. [AllNext]_all => [Next]_vars
  BY DEF AllNext, all
<1> QED
  BY InitPublic, PublicStep, ReadIsOneBuild, <1>1, PTL DEF AllSpec, AllInit

\* Cleanup and installation keep their types; of the types of the public artifacts,
\* PublicInv holds what does not depend on the order of the entries.
THEOREM DeliveriesTyped == AllSpec => [](Cleanup!TypeOK /\ Asset!TypeOK)
<1>1. CleanupInv => Cleanup!TypeOK
  BY DEF CleanupInv
<1>2. AssetInv => Asset!TypeOK
  BY DEF AssetInv
<1> QED
  BY IsCleanup, CleanupSafe, IsAsset, AssetSafe, <1>1, <1>2, PTL
=============================================================================
