----------------------------- MODULE MemoryFiles -----------------------------
(***************************************************************************)
(* The modules about files of the Codex home other than the queue and the  *)
(* branch, side by side: SyncedBaseline, MemoryReplace, MemoryMigration,   *)
(* MemoryConfig and MemoryHealth.  They have no file in common that two of *)
(* them describe, so one of them runs in a behaviour.                      *)
(***************************************************************************)
EXTENDS SyncedBaseline, FiniteSets

CONSTANTS Writers, MaxRuns, ReplaceEdits, ReplaceFaults,       \* of MemoryReplace
          Commands, Remotes, MaxDecisions, MigrationFaults,    \* of MemoryMigration
          Repositories, MaxSetups, ConfigEdits, ConfigFaults,  \* of MemoryConfig
          Reporters, Sessions, Failures, Conflicts, MaxReports, MaxAcks  \* of MemoryHealth

ASSUME ReplaceAssumption == MaxRuns \in Nat /\ ReplaceEdits \in Nat
ASSUME DecisionsAssumption == {MaxDecisions, MigrationFaults, MaxSetups, ConfigEdits,
                            ConfigFaults} \subseteq Nat
\* What the ledger says besides the name of a repository is none.
ASSUME RepositoriesAssumption == "none" \notin Repositories /\ "declined" \notin Repositories

VARIABLES part,  \* the module that runs
          live, content, kept, open, rpc, cap, index, stage, old, rresult, handed, rtold,
          late, runs, redits, rfaults,
          legacy, mledger, mremote, snapshot, mreceipt, evidence, active, demand, marker, mpc,
          mlock, approval, closed, served, marked, decisions, mfaults,
          config, hooks, remote, ledger, cpc, seen, before, asked, clock, result, changed,
          undone, raced, setups, edits, cfaults,
          health, conflict, emitted, acked, hpc, outcome, alert, prior, hlock, told, last,
          repeated, reports, acks

Replace == INSTANCE MemoryReplace WITH
  MaxEdits <- ReplaceEdits, MaxFaults <- ReplaceFaults,
  pc <- rpc, result <- rresult, told <- rtold, edits <- redits, faults <- rfaults
Migration == INSTANCE MemoryMigration WITH
  MaxFaults <- MigrationFaults,
  ledger <- mledger, remote <- mremote, receipt <- mreceipt, pc <- mpc, lock <- mlock,
  faults <- mfaults
Config == INSTANCE MemoryConfig WITH
  MaxEdits <- ConfigEdits, MaxFaults <- ConfigFaults,
  pc <- cpc, lock <- clock, faults <- cfaults
Health == INSTANCE MemoryHealth WITH pc <- hpc, lock <- hlock

replaceVars == <<live, content, kept, open, rpc, cap, index, stage, old, rresult, handed,
                 rtold, late, runs, redits, rfaults>>
migrationVars == <<legacy, mledger, mremote, snapshot, mreceipt, evidence, active, demand,
                   marker, mpc, mlock, approval, closed, served, marked, decisions, mfaults>>
configVars == <<config, hooks, remote, ledger, cpc, seen, before, asked, clock, result,
                changed, undone, raced, setups, edits, cfaults>>
healthVars == <<health, conflict, emitted, acked, hpc, outcome, alert, prior, hlock, told,
                last, repeated, reports, acks>>
all == <<part, vars, replaceVars, migrationVars, configVars, healthVars>>

\* What does not run has one initial state.
AllInit ==
  /\ part \in {"baseline", "replace", "migration", "config", "health"}
  /\ Init /\ Replace!Init /\ Migration!Init /\ Config!Init /\ Health!Init
  /\ part # "migration" =>
       /\ legacy.baseline = "none" /\ legacy.conflict = "none" /\ ~legacy.demand
       /\ legacy.remote = {} /\ mledger = {} /\ snapshot = {} /\ active = {} /\ demand = {}
  /\ part # "config" => config.is = "off" /\ hooks.is = "none"

Runs(p) == part = p /\ UNCHANGED part
AllNext ==
  \/ /\ Runs("baseline") /\ Next
     /\ UNCHANGED <<replaceVars, migrationVars, configVars, healthVars>>
  \/ /\ Runs("replace") /\ Replace!Next
     /\ UNCHANGED <<vars, migrationVars, configVars, healthVars>>
  \/ /\ Runs("migration") /\ Migration!Next
     /\ UNCHANGED <<vars, replaceVars, configVars, healthVars>>
  \/ /\ Runs("config") /\ Config!Next
     /\ UNCHANGED <<vars, replaceVars, migrationVars, healthVars>>
  \/ /\ Runs("health") /\ Health!Next
     /\ UNCHANGED <<vars, replaceVars, migrationVars, configVars>>

\* The fairness of each module, while it runs.
AllFair ==
  /\ WF_vars(part = "baseline" /\ Recover)
  /\ WF_vars(part = "baseline" /\ (RecordSynced \/ Finish))
  /\ WF_vars(part = "baseline" /\ Reconcile)
  /\ \A c \in Commands :
       WF_migrationVars(part = "migration" /\ (Migration!Migrate(c) \/ Migration!Run(c)))
  /\ WF_migrationVars(part = "migration" /\ \E c \in Commands : Migration!Enter(c))
  /\ \A p \in Reporters : WF_healthVars(part = "health" /\ Health!ReporterStep(p))
  /\ \A s \in Sessions : /\ WF_healthVars(part = "health" /\ Health!SessionStep(s))
                         /\ WF_healthVars(part = "health" /\ Health!Start(s))
AllSpec == AllInit /\ [][AllNext]_all /\ AllFair

-----------------------------------------------------------------------------
(* Properties, each stated in the module it is about. *)

\* Reconciliations go on after every interruption.
BaselineKeepsReconciling == part = "baseline" => KeepsReconciling
\* No edit of the native writer is lost when the memories are replaced.
NoEditLost == Replace!NoEditLost
\* Nothing of the legacy state is left behind, and a conflict of it that was closed does
\* not come back.
MigratesOnce == Migration!MigratesOnce
\* Lifecycle events complete the migration, unless only the user can.
MigrationEnds == part = "migration" => Migration!MigrationEnds
\* What runs with an approval has the memories on and the handlers in place.
AuthorizedIsSetUp == Config!AuthorizedIsSetUp
\* An alert is shown once.
ShownOnce == Health!ShownOnce
\* A failure that stays the last word is shown.
FailureIsTold == Health!FailureIsTold
=============================================================================
