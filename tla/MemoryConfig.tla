---------------------------- MODULE MemoryConfig ----------------------------
(***************************************************************************)
(* Setting the synchronization of memories up, repairing its hooks and     *)
(* declining it: four files in the Codex home that the user, Codex and     *)
(* other tools edit too.  Only hooks.json is written under a lock and only *)
(* it is compared before it is replaced; a setup that fails puts back what *)
(* it read at its start.                                                   *)
(* Source: configure, enable_memories, merge_user_hooks and                *)
(* migrate_python_handlers in source/memory/src/user_config.rs;            *)
(* canonicalize and merge_hooks_file in source/memory/src/ownership.rs;    *)
(* record_native_memories_consent and require_runtime_authorization in     *)
(* source/memory/src/lib.rs; memory_sync in source/cli/src/memory_commands.rs. *)
(*                                                                         *)
(* A file is what the synchronization needs of it, and the edits of others *)
(* in it.                                                                  *)
(***************************************************************************)
EXTENDS Naturals

CONSTANTS Repositories, \* remote repositories a user may choose
          MaxSetups,    \* bound: setups
          MaxEdits,     \* bound: edits by users and other tools
          MaxFaults     \* bound: crashes and failing file operations

VARIABLES config,   \* config.toml: the memories are on
          hooks,    \* hooks.json: the managed handlers
          remote,   \* remote.txt: one repository or none
          ledger,   \* bridgeforge-codex-managed.json: the consent
          pc,       \* process -> where it is
          seen,     \* process -> the file it is about to replace, as it read it
          before,   \* what the setup read at its start
          asked,    \* the repository it is for
          lock,     \* user-hooks.lock
          result,   \* of the last setup
          changed,  \* history: since the setup began somebody has turned memories off
                    \* or changed the managed handlers
          undone,   \* history: the same since the setup began that approved last
          raced,    \* history: edits since the process that replaces a file looked at it
          setups, edits, faults

files == <<config, hooks, remote, ledger>>
process == <<pc, seen, before, asked, lock, result>>
history == <<changed, undone, raced>>
bounds == <<setups, edits, faults>>
vars == <<files, process, history, bounds>>

Procs == {"setup", "repair"}
Edits == 1..MaxEdits
Optional(S) == {{}} \cup {{x} : x \in S}
File(V) == [is : V, edits : SUBSET Edits]

\* "official" handlers are those of earlier programs, known to the byte; a "changed"
\* one carries the managed identity and other contents.
Handlers == {"none", "current", "official", "changed"}
Switch == {"on", "off"}
Consents == {"none", "declined"} \cup Repositories

TypeOK ==
  /\ config \in File(Switch) /\ hooks \in File(Handlers)
  /\ remote \in Optional(Repositories) /\ ledger \in Consents
  /\ pc["setup"] \in {"idle", "enable", "enabling", "hooks", "compare", "merge", "remote",
                      "consent", "undo ledger", "undo remote", "undo hooks",
                      "undo config"}
  /\ pc["repair"] \in {"idle", "hooks", "compare", "merge"}
  /\ lock \in Optional(Procs) /\ asked \in Optional(Repositories)
  /\ result \in {"none", "configured", "rolled back", "incomplete"}
  /\ changed \in BOOLEAN /\ undone \in BOOLEAN
  /\ raced \in [Procs -> SUBSET Edits]
  /\ setups \in 0..MaxSetups /\ edits \in 0..MaxEdits /\ faults \in 0..MaxFaults

Now == [config |-> config, hooks |-> hooks, remote |-> remote, ledger |-> ledger]
As(f, v) == [f EXCEPT !.is = v]

Init ==
  /\ \E on \in Switch : config = [is |-> on, edits |-> {}]
  /\ \E h \in Handlers : hooks = [is |-> h, edits |-> {}]
  /\ remote = {} /\ ledger = "none"
  /\ pc = [p \in Procs |-> "idle"] /\ seen = [p \in Procs |-> config]
  /\ before = Now /\ asked = {} /\ lock = {} /\ result = "none"
  /\ changed = FALSE /\ undone = FALSE /\ raced = [p \in Procs |-> {}]
  /\ setups = 0 /\ edits = 0 /\ faults = 0

Goto(p, l) == pc' = [pc EXCEPT ![p] = l]
Look(p, f) == seen' = [seen EXCEPT ![p] = f] /\ raced' = [raced EXCEPT ![p] = {}]
\* The setup starts its rollback; a repair just ends.
Fail(p) == Goto(p, IF p = "setup" THEN "undo ledger" ELSE "idle") /\ lock' = lock \ {p}
HooksDone(p) == Goto(p, IF p = "setup" THEN "remote" ELSE "idle")

\* require_runtime_authorization
Authorized == remote = {ledger}

-----------------------------------------------------------------------------
(* configure *)

Setup(r) ==
  /\ pc["setup"] = "idle" /\ setups < MaxSetups
  /\ setups' = setups + 1 /\ asked' = {r} /\ before' = Now /\ result' = "none"
  /\ Goto("setup", "enable") /\ changed' = FALSE
  /\ UNCHANGED <<files, seen, lock, undone, raced, edits, faults>>

\* Broken variant: the authorization is recorded before the switch, the hooks and the remote.
ConsentFirst ==
  /\ pc["setup"] = "enable"
  /\ ledger' \in asked /\ undone' = changed
  /\ Look("setup", config) /\ Goto("setup", IF config.is = "on" THEN "hooks" ELSE "enabling")
  /\ UNCHANGED <<config, hooks, remote, before, asked, lock, result, changed, bounds>>
Enable ==
  /\ pc["setup"] = "enable"
  /\ Look("setup", config) /\ Goto("setup", IF config.is = "on" THEN "hooks" ELSE "enabling")
  /\ UNCHANGED <<files, before, asked, lock, result, changed, undone, bounds>>
Enabled ==
  /\ pc["setup"] = "enabling"
  /\ config' = As(seen["setup"], "on") /\ Goto("setup", "hooks")
  /\ UNCHANGED <<hooks, remote, ledger, seen, before, asked, lock, result, history, bounds>>

WriteRemote ==
  /\ pc["setup"] = "remote"
  /\ remote' = asked /\ Goto("setup", "consent")
  /\ UNCHANGED <<config, hooks, ledger, seen, before, asked, lock, result, history, bounds>>

\* The consent is written last: until then nothing synchronizes.
Approve ==
  /\ pc["setup"] = "consent"
  /\ ledger' \in asked
  /\ Goto("setup", "idle") /\ result' = "configured" /\ undone' = changed
  /\ UNCHANGED <<config, hooks, remote, seen, before, asked, lock, changed, raced, bounds>>

\* The rollback goes the other way and compares nothing.
UndoLedger ==
  /\ pc["setup"] = "undo ledger"
  /\ ledger' = before.ledger /\ Goto("setup", "undo remote")
  /\ UNCHANGED <<config, hooks, remote, seen, before, asked, lock, result, history, bounds>>
UndoRemote ==
  /\ pc["setup"] = "undo remote"
  /\ remote' = before.remote /\ Goto("setup", "undo hooks")
  /\ UNCHANGED <<config, hooks, ledger, seen, before, asked, lock, result, history, bounds>>
UndoHooks ==
  /\ pc["setup"] = "undo hooks"
  /\ hooks' = before.hooks /\ Goto("setup", "undo config")
  /\ UNCHANGED <<config, remote, ledger, seen, before, asked, lock, result, history, bounds>>
UndoConfig ==
  /\ pc["setup"] = "undo config"
  /\ config' = before.config /\ Goto("setup", "idle")
  /\ result' = IF result = "none" THEN "rolled back" ELSE result
  /\ UNCHANGED <<hooks, remote, ledger, seen, before, asked, lock, history, bounds>>

-----------------------------------------------------------------------------
(* merge_user_hooks, in a setup or a repair *)

\* repair-hook leaves memories alone that the user turned off.
Repair ==
  /\ pc["repair"] = "idle" /\ Authorized /\ config.is = "on" /\ hooks.is # "current"
  /\ Goto("repair", "hooks")
  /\ UNCHANGED <<files, seen, before, asked, lock, result, history, bounds>>

ReadHooks(p) ==
  /\ pc[p] = "hooks"
  /\ IF lock # {} \/ hooks.is = "changed" THEN Fail(p)
     ELSE IF hooks.is = "current" THEN HooksDone(p) /\ UNCHANGED lock
     ELSE lock' = {p} /\ Goto(p, "compare")
  /\ Look(p, hooks)
  /\ UNCHANGED <<files, before, asked, result, changed, undone, bounds>>

CompareHooks(p) ==
  /\ pc[p] = "compare"
  /\ IF hooks = seen[p]
     THEN Goto(p, "merge") /\ raced' = [raced EXCEPT ![p] = {}] /\ UNCHANGED lock
     ELSE Fail(p) /\ UNCHANGED raced
  /\ UNCHANGED <<files, seen, before, asked, result, changed, undone, bounds>>

\* canonicalize: the managed handlers become the current ones, the others are kept.
Merge(p) ==
  /\ pc[p] = "merge"
  /\ hooks' = As(seen[p], "current") /\ lock' = {} /\ HooksDone(p)
  /\ UNCHANGED <<config, remote, ledger, seen, before, asked, result, history, bounds>>

-----------------------------------------------------------------------------
(* decline, other writers, faults *)

Decline ==
  /\ ledger' = "declined"
  /\ UNCHANGED <<config, hooks, remote, process, history, bounds>>

Edit ==
  /\ edits < MaxEdits /\ edits' = edits + 1
  /\ \/ /\ \E on \in Switch :
             /\ config' = [is |-> on, edits |-> config.edits \cup {edits'}]
             /\ changed' = (changed \/ on = "off") /\ undone' = (undone \/ on = "off")
        /\ UNCHANGED hooks
     \/ /\ \E h \in {hooks.is, "none", "changed"} :
             /\ hooks' = [is |-> h, edits |-> hooks.edits \cup {edits'}]
             /\ changed' = (changed \/ h # hooks.is) /\ undone' = (undone \/ h # hooks.is)
        /\ UNCHANGED config
  /\ raced' = [p \in Procs |-> raced[p] \cup {edits'}]
  /\ UNCHANGED <<remote, ledger, process, setups, faults>>

\* A step of a setup fails, one of its rollback too, or a process dies.
StepFails(p) ==
  /\ pc[p] \notin {"idle", "undo ledger", "undo remote", "undo hooks", "undo config"}
  /\ faults < MaxFaults /\ faults' = faults + 1
  /\ Fail(p)
  /\ UNCHANGED <<files, seen, before, asked, result, history, setups, edits>>
UndoFails ==
  /\ faults < MaxFaults /\ faults' = faults + 1 /\ result' = "incomplete"
  /\ \/ pc["setup"] = "undo ledger" /\ Goto("setup", "undo remote")
     \/ pc["setup"] = "undo remote" /\ Goto("setup", "undo hooks")
     \/ pc["setup"] = "undo hooks" /\ Goto("setup", "undo config")
     \/ pc["setup"] = "undo config" /\ Goto("setup", "idle")
  /\ UNCHANGED <<files, seen, before, asked, lock, history, setups, edits>>
Crash ==
  /\ pc["setup"] # "idle" /\ faults < MaxFaults /\ faults' = faults + 1
  /\ Goto("setup", "idle") /\ lock' = lock \ {"setup"}
  /\ UNCHANGED <<files, seen, before, asked, result, history, setups, edits>>

Configure ==
  \/ (\E r \in Repositories : Setup(r)) \/ Enable \/ Enabled \/ WriteRemote \/ Approve
Undo == UndoLedger \/ UndoRemote \/ UndoHooks \/ UndoConfig
MergeHooks(p) == ReadHooks(p) \/ CompareHooks(p) \/ Merge(p)
Next ==
  \/ Configure \/ Undo \/ Repair \/ Decline \/ Edit \/ UndoFails \/ Crash
  \/ \E p \in Procs : MergeHooks(p) \/ StepFails(p)
Spec == Init /\ [][Next]_vars

-----------------------------------------------------------------------------
(* Properties. *)

\* Wherever a setup stops, what runs with an approval has the memories on and the
\* handlers in place, unless somebody has changed them.
AuthorizedIsSetUp == Authorized /\ ~undone => config.is = "on" /\ hooks.is = "current"

\* Refuted by the rollback: a writer loses edits of others only when they come between its
\* last look at the file and its write.
Lost == (config.edits \ config'.edits) \cup (hooks.edits \ hooks'.edits)
LostBy(p) == IF pc'[p] # pc[p] THEN Lost ELSE {}
RollbackKeepsEdits == [][\A p \in Procs : LostBy(p) \subseteq raced[p]]_vars

\* Refuted by what the code does: once declined, nothing is authorized before the user sets it up again.
DeclineHolds == [][Authorized' /\ ~Authorized => pc["setup"] = "consent"]_vars
=============================================================================
