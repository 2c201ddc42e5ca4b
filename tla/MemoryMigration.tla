--------------------------- MODULE MemoryMigration ---------------------------
(***************************************************************************)
(* The one-time move of the state an earlier program kept in memory-sync   *)
(* into native-memory-sync.  Every command that synchronizes tries it first*)
(* and goes on only when it has been completed, by this command or by an   *)
(* earlier one; state-migration.json is written last and says so.          *)
(* Source: migrate_legacy_state and the functions it calls in              *)
(* source/memory/src/migration.rs; memory_sync in                          *)
(* source/cli/src/memory_commands.rs.                                      *)
(*                                                                         *)
(* A state file is empty or says where it comes from: the legacy directory *)
(* or this program.  The files of the legacy directory stay as they are.   *)
(***************************************************************************)
EXTENDS Naturals

CONSTANTS Commands,      \* processes: hooks and hand-run commands
          Remotes,       \* repositories the user may approve
          MaxDecisions,  \* bound: decisions of the user
          MaxFaults      \* bound: crashes and failing file operations

VARIABLES legacy,    \* what the legacy directory holds
          ledger,    \* the repositories approved for synchronization: one or none
          remote,    \* remote.txt
          snapshot,  \* last-synced-snapshot
          receipt,   \* last-synced.json
          evidence,  \* the directory of the legacy conflict under conflicts
          active,    \* active-conflict.json
          demand,    \* where the demand in pending.json comes from
          marker,    \* state-migration.json
          pc, lock,
          approval,  \* the ledger as the migration that runs has read it
          closed,    \* history: conflicts that active-conflict.json no longer names
          served,    \* history: demand that a synchronization took up
          marked,    \* history: this program has recorded demand
          decisions, faults

disk == <<remote, snapshot, receipt, evidence, active, demand, marker>>
history == <<closed, served, marked>>
bounds == <<decisions, faults>>
vars == <<legacy, ledger, disk, pc, lock, approval, history, bounds>>

Origins == {"legacy", "own"}
Optional(S) == {{}} \cup {{x} : x \in S}

\* An incomplete baseline is skipped; a damaged one, and damaged evidence of a conflict,
\* is an error.
Legacy == [remote : Optional(Remotes), baseline : {"none", "whole", "incomplete", "damaged"},
           conflict : {"none", "whole", "damaged"}, demand : BOOLEAN]
Damaged == legacy.baseline = "damaged" \/ legacy.conflict = "damaged"

TypeOK ==
  /\ legacy \in Legacy /\ ledger \in Optional(Remotes) /\ remote \in Optional(Remotes)
  /\ snapshot \in Optional(Origins) /\ receipt \in Optional(Origins)
  /\ evidence \in BOOLEAN /\ active \in Optional(Origins)
  /\ demand \subseteq Origins /\ marker \in BOOLEAN
  /\ pc \in [Commands -> {"idle", "enter", "remote", "baseline", "receipt", "conflict",
                          "active", "demand", "marker", "run", "clear"}]
  /\ lock \in Optional(Commands) /\ approval \in Optional(Remotes)
  /\ closed \subseteq Origins /\ served \subseteq Origins /\ marked \in BOOLEAN
  /\ decisions \in 0..MaxDecisions /\ faults \in 0..MaxFaults

\* Earlier versions of this program worked beside the legacy directory.
Init ==
  /\ legacy \in Legacy
  /\ ledger \in Optional(Remotes) /\ remote \in {{}, ledger}
  /\ \E B \in Optional({"own"}) : snapshot = B /\ receipt = B
  /\ active \in Optional({"own"}) /\ demand \in {{}, {"own"}}
  /\ evidence = FALSE /\ marker = FALSE
  /\ pc = [c \in Commands |-> "idle"] /\ lock = {} /\ approval = {}
  /\ closed = {} /\ served = {} /\ marked = (demand # {}) /\ decisions = 0 /\ faults = 0

Goto(c, p) == pc' = [pc EXCEPT ![c] = p]
Leave(c, p) == Goto(c, p) /\ lock' = {}

-----------------------------------------------------------------------------
(* migrate_legacy_state *)

Enter(c) ==
  /\ pc[c] = "idle" /\ lock = {}
  /\ lock' = {c} /\ Goto(c, "enter")
  /\ UNCHANGED <<legacy, ledger, disk, approval, history, bounds>>

\* Broken variant: the migration is not ended by the marker of an earlier one.
MarkerIgnored(c) ==
  /\ pc[c] = "enter"
  /\ IF ledger # {} THEN Goto(c, "remote") /\ UNCHANGED lock ELSE Leave(c, "idle")
  /\ approval' = ledger
  /\ UNCHANGED <<legacy, ledger, disk, history, bounds>>
CheckMarker(c) ==
  /\ pc[c] = "enter"
  /\ CASE marker                   -> Leave(c, "run")
       [] ~marker /\ ledger # {}   -> Goto(c, "remote") /\ UNCHANGED lock
       [] OTHER                    -> Leave(c, "idle")
  /\ approval' = ledger
  /\ UNCHANGED <<legacy, ledger, disk, history, bounds>>

MigrateRemote(c) ==
  /\ pc[c] = "remote"
  /\ IF legacy.remote = approval /\ remote \in {{}, approval}
     THEN remote' = approval /\ Goto(c, "baseline") /\ UNCHANGED lock
     ELSE Leave(c, "idle") /\ UNCHANGED remote
  /\ UNCHANGED <<legacy, ledger, snapshot, receipt, evidence, active, demand, marker, approval, history,
                 bounds>>

\* Broken variant: a current baseline ends the migration.
CurrentBaselineRefused(c) ==
  /\ pc[c] = "baseline"
  /\ CASE legacy.baseline \in {"none", "incomplete"} ->
            Goto(c, "conflict") /\ UNCHANGED <<snapshot, lock>>
       [] legacy.baseline = "damaged" \/ (legacy.baseline = "whole" /\ snapshot # {}) ->
            Leave(c, "idle") /\ UNCHANGED snapshot
       [] OTHER -> snapshot' = {"legacy"} /\ Goto(c, "receipt") /\ UNCHANGED lock
  /\ UNCHANGED <<legacy, ledger, remote, receipt, evidence, active, demand, marker, approval,
                 history, bounds>>
\* A current baseline is retained, but it must be one: snapshot and receipt.
MigrateSnapshot(c) ==
  /\ pc[c] = "baseline"
  /\ CASE \/ legacy.baseline \in {"none", "incomplete"}
          \/ legacy.baseline = "whole" /\ snapshot = receipt /\ snapshot # {} ->
            Goto(c, "conflict") /\ UNCHANGED <<snapshot, lock>>
       [] legacy.baseline = "damaged" \/ (legacy.baseline = "whole" /\ snapshot # receipt) ->
            Leave(c, "idle") /\ UNCHANGED snapshot
       [] OTHER -> snapshot' = {"legacy"} /\ Goto(c, "receipt") /\ UNCHANGED lock
  /\ UNCHANGED <<legacy, ledger, remote, receipt, evidence, active, demand, marker, approval, history,
                 bounds>>
MigrateReceipt(c) ==
  /\ pc[c] = "receipt"
  /\ receipt' = {"legacy"} /\ Goto(c, "conflict")
  /\ UNCHANGED <<legacy, ledger, remote, snapshot, evidence, active, demand, marker, lock,
                 approval, history, bounds>>

MigrateEvidence(c) ==
  /\ pc[c] = "conflict"
  /\ CASE legacy.conflict = "none" \/ active # {} ->
            Goto(c, "demand") /\ UNCHANGED <<evidence, lock>>
       [] legacy.conflict = "damaged" /\ active = {} ->
            Leave(c, "idle") /\ UNCHANGED evidence
       [] OTHER -> evidence' = TRUE /\ Goto(c, "active") /\ UNCHANGED lock
  /\ UNCHANGED <<legacy, ledger, remote, snapshot, receipt, active, demand, marker, approval, history,
                 bounds>>
MigrateActive(c) ==
  /\ pc[c] = "active"
  /\ active' = {"legacy"} /\ closed' = closed \cup active /\ Goto(c, "demand")
  /\ UNCHANGED <<legacy, ledger, remote, snapshot, receipt, evidence, demand, marker, lock,
                 approval, served, marked, bounds>>

MigratePending(c) ==
  /\ pc[c] = "demand"
  /\ demand' = demand \cup {o \in {"legacy"} : legacy.demand}
  /\ Goto(c, "marker")
  /\ UNCHANGED <<legacy, ledger, remote, snapshot, receipt, evidence, active, marker, lock,
                 approval, history, bounds>>

WriteMarker(c) ==
  /\ pc[c] = "marker"
  /\ marker' = TRUE /\ Leave(c, "run")
  /\ UNCHANGED <<legacy, ledger, remote, snapshot, receipt, evidence, active, demand, approval, history,
                 bounds>>

-----------------------------------------------------------------------------
(* What commands do afterwards: modules MemoryQueue and MemorySync.  Both need the *)
(* approval and the same repository in remote.txt.                                 *)

Authorized == ledger # {} /\ remote = ledger

\* reconcile.lock: held from the capture to the end of a reconciliation or a resolution.
Reconciling == \E c \in Commands : pc[c] = "clear"

\* A reconciliation never looks at active-conflict.json.  It ends in a conflict, which
\* takes the place of one that is open; or it records its baseline, except where neither
\* memories nor a remote snapshot are there, and removes the demand it has read.
Reconcile(c) ==
  /\ pc[c] = "run" /\ Authorized /\ ~Reconciling
  /\ \/ /\ active' = {"own"} /\ closed' = closed \cup active /\ Goto(c, "idle")
        /\ UNCHANGED <<snapshot, receipt, demand, served>>
     \/ /\ \/ snapshot' = {"own"} /\ receipt' = {"own"}
           \/ UNCHANGED <<snapshot, receipt>>
        /\ \/ demand' = {} /\ served' = served \cup demand
           \/ UNCHANGED <<demand, served>>  \* marked again since it was read
        /\ Goto(c, "clear") /\ UNCHANGED <<active, closed>>
  /\ UNCHANGED <<legacy, ledger, remote, evidence, marker, lock, approval, marked, bounds>>

\* The user resolves the conflict that is open; resolve leaves the demand.
Resolve(c) ==
  /\ pc[c] = "run" /\ Authorized /\ ~Reconciling /\ active # {}
  /\ snapshot' = {"own"} /\ receipt' = {"own"} /\ Goto(c, "clear")
  /\ UNCHANGED <<legacy, ledger, remote, evidence, active, demand, marker, lock, approval,
                 history, bounds>>

\* Both end with clear_active_conflict, whichever conflict it is.
ClearConflict(c) ==
  /\ pc[c] = "clear"
  /\ active' = {} /\ closed' = closed \cup active /\ Goto(c, "idle")
  /\ UNCHANGED <<legacy, ledger, remote, snapshot, receipt, evidence, demand, marker, lock,
                 approval, served, marked, bounds>>

\* A hook, a command that finds a reconciliation running, or one that is not authorized
\* or has no conflict to resolve.
Other(c) ==
  /\ pc[c] = "run"
  /\ \/ Authorized /\ demand' = demand \cup {"own"} /\ marked' = TRUE
     \/ UNCHANGED <<demand, marked>>
  /\ Goto(c, "idle")
  /\ UNCHANGED <<legacy, ledger, remote, snapshot, receipt, evidence, active, marker, lock,
                 approval, closed, served, bounds>>

\* setup records approval and repository; decline takes the approval back.
Decide ==
  /\ decisions < MaxDecisions /\ decisions' = decisions + 1
  /\ \/ \E r \in Remotes : ledger' = {r} /\ remote' = {r}
     \/ ledger' = {} /\ UNCHANGED remote
  /\ UNCHANGED <<legacy, snapshot, receipt, evidence, active, demand, marker, pc, lock,
                 approval, history, faults>>

\* An operation fails or the process dies; the system drops the lock.
Interrupted(c) ==
  /\ pc[c] # "idle" /\ faults < MaxFaults /\ faults' = faults + 1
  /\ Goto(c, "idle") /\ lock' = lock \ {c}
  /\ UNCHANGED <<legacy, ledger, disk, approval, history, decisions>>

Migrate(c) ==
  \/ CheckMarker(c) \/ MigrateRemote(c) \/ MigrateSnapshot(c) \/ MigrateReceipt(c)
  \/ MigrateEvidence(c) \/ MigrateActive(c) \/ MigratePending(c) \/ WriteMarker(c)
Run(c) == Reconcile(c) \/ Resolve(c) \/ ClearConflict(c) \/ Other(c)
Next == (\E c \in Commands : Enter(c) \/ Migrate(c) \/ Run(c) \/ Interrupted(c)) \/ Decide
Spec == Init /\ [][Next]_vars

\* A command that runs goes on, and lifecycle events keep starting commands.
FairSpec ==
  /\ Spec
  /\ \A c \in Commands : WF_vars(Migrate(c) \/ Run(c))
  /\ WF_vars(\E c \in Commands : Enter(c))

-----------------------------------------------------------------------------
(* Properties. *)

\* Nothing usable of the legacy state is left behind by a complete migration: the
\* synchronization has a baseline; the conflict came over with its evidence, unless one of
\* this program was open, and is open until a synchronization or its user closes it; the
\* demand is pending or was served.
ConflictCame == evidence /\ "legacy" \in active \cup closed
NothingLeftBehind ==
  marker => /\ legacy.baseline = "whole" => snapshot # {}
            /\ legacy.conflict = "whole" => ConflictCame \/ "own" \in active \cup closed
            /\ legacy.demand => "legacy" \in demand \cup served

\* The legacy conflict is open here only with its evidence and before any other one: it
\* takes no other's place, and once closed or replaced it does not come back.
ConflictComesFirst == active = {"legacy"} => evidence /\ closed = {}

\* Whatever interrupts or repeats the migration, the legacy state comes over once: nothing
\* of it is left behind, a conflict that was closed does not come back from there, and the
\* demand recorded here is not replaced by what comes over.
MigratesOnce ==
  NothingLeftBehind /\ ConflictComesFirst /\ (marked => "own" \in demand \cup served)

\* Lifecycle events complete the migration, unless only the user can: another
\* repository is approved or none is, something in the legacy directory is damaged, or
\* an interruption between the snapshot and its receipt left the one without the other.
Migratable ==
  ledger = legacy.remote /\ ledger # {} /\ remote \in {{}, ledger} /\ ~Damaged
HalfBaseline == snapshot # {} /\ receipt = {}
MigrationEnds == <>[](marker \/ ~Migratable \/ HalfBaseline)

\* The same without the exception for the half baseline.
MigrationRecovers == <>[](marker \/ ~Migratable)
=============================================================================
