---------------------------- MODULE MemoryHealth ----------------------------
(***************************************************************************)
(* What the user is told of the synchronization: a command reports how its *)
(* reconciliation ended, a session that starts asks for the status and     *)
(* shows an alert it has not shown yet, and the user acknowledges alerts.  *)
(* Source: record_health, emit_alert_once and acknowledge_alert in         *)
(* source/memory/src/lib.rs; memory_operation_outcome, memory_hook_notice  *)
(* and the status in source/cli/src/memory_commands.rs.                    *)
(*                                                                         *)
(* A command reports after it has released reconcile.lock; alert-state.json*)
(* is read and written under a lock by emissions only.  No process dies    *)
(* here: one that dies between the receipt of an emission and its message  *)
(* has shown nothing.                                                      *)
(***************************************************************************)
EXTENDS FiniteSets, Naturals

CONSTANTS Reporters,   \* processes that reconcile and report
          Sessions,    \* processes of sessions that start
          Failures,    \* alert ids of failures: a digest of the error
          Conflicts,   \* and of conflicts
          MaxReports,  \* bound: reconciliations
          MaxAcks      \* bound: acknowledgements

VARIABLES health,    \* health.json: "healthy", "conflicted" or the id of a failure
          conflict,  \* active-conflict.json
          emitted,   \* alert-state.json: lastEmitted
          acked,     \* and lastAcknowledged
          pc, outcome,
          alert,     \* session -> the alert of the status it has asked for
          prior,     \* session -> lastEmitted and lastAcknowledged as it read them
          lock,      \* the lock of the emissions
          told,      \* history: alerts shown or acknowledged since the last healthy report
          last,      \* history: the alert shown last, until something new is told
          repeated,  \* history: an alert was shown again with nothing new in between
          reports, acks

files == <<health, conflict, emitted, acked>>
session == <<alert, prior, lock>>
history == <<told, last, repeated>>
bounds == <<reports, acks>>
vars == <<files, pc, outcome, session, history, bounds>>

Ids == Failures \cup Conflicts
Procs == Reporters \cup Sessions
Optional(S) == {{}} \cup {{x} : x \in S}

TypeOK ==
  /\ health \in {"none", "healthy", "conflicted"} \cup Failures
  /\ conflict \in Optional(Conflicts) /\ emitted \in Optional(Ids) /\ acked \in Optional(Ids)
  /\ pc \in [Procs -> {"idle", "report", "clear", "notice", "emit"}]
  /\ outcome \in [Reporters -> {"healthy", "conflicted"} \cup Failures]
  /\ alert \in [Sessions -> Optional(Ids)]
  /\ prior \in [Sessions -> Optional(Ids) \X Optional(Ids)]
  /\ lock \in Optional(Sessions) /\ told \subseteq Ids
  /\ last \in Optional(Ids) /\ repeated \in BOOLEAN

Init ==
  /\ health = "none" /\ conflict = {} /\ emitted = {} /\ acked = {}
  /\ pc = [p \in Procs |-> "idle"] /\ outcome = [r \in Reporters |-> "healthy"]
  /\ alert = [s \in Sessions |-> {}] /\ prior = [s \in Sessions |-> <<{}, {}>>]
  /\ lock = {} /\ told = {} /\ last = {} /\ repeated = FALSE /\ reports = 0 /\ acks = 0

Goto(p, l) == pc' = [pc EXCEPT ![p] = l]

\* The status: a conflict is read from its own file, whatever was reported last.
Active == IF conflict # {} THEN conflict ELSE {health} \cap Failures

-----------------------------------------------------------------------------
(* Reports. *)

\* A reconciliation ends, with its files in place: a conflict takes the place of another.
Reconciled(r) ==
  /\ pc[r] = "idle" /\ reports < MaxReports /\ reports' = reports + 1
  /\ \/ outcome' = [outcome EXCEPT ![r] = "healthy"] /\ conflict' = {}
     \/ \E k \in Conflicts : conflict' = {k} /\ outcome' = [outcome EXCEPT ![r] = "conflicted"]
     \/ \E f \in Failures : outcome' = [outcome EXCEPT ![r] = f] /\ UNCHANGED conflict
  /\ Goto(r, "report")
  /\ UNCHANGED <<health, emitted, acked, session, history, acks>>

\* Broken variant: a healthy report leaves alert-state.json.
ReportOnly(r) ==
  /\ pc[r] = "report"
  /\ health' = outcome[r] /\ Goto(r, "idle")
  /\ told' = IF outcome[r] = "healthy" THEN {} ELSE told
  /\ UNCHANGED <<conflict, emitted, acked, outcome, session, last, repeated, bounds>>
\* record_health: health.json, then a healthy report takes alert-state.json away.
Report(r) ==
  /\ pc[r] = "report"
  /\ health' = outcome[r]
  /\ IF outcome[r] = "healthy" THEN told' = {} /\ Goto(r, "clear")
                               ELSE UNCHANGED told /\ Goto(r, "idle")
  /\ UNCHANGED <<conflict, emitted, acked, outcome, session, last, repeated, bounds>>
Clear(r) ==
  /\ pc[r] = "clear"
  /\ emitted' = {} /\ acked' = {} /\ last' = {} /\ Goto(r, "idle")
  /\ UNCHANGED <<health, conflict, outcome, session, told, repeated, bounds>>

-----------------------------------------------------------------------------
(* memory_hook_notice *)

\* The status leaves out an alert that was acknowledged.
Start(s) ==
  /\ pc[s] = "idle"
  /\ Active \ acked # {}
  /\ alert' = [alert EXCEPT ![s] = Active] /\ Goto(s, "notice")
  /\ UNCHANGED <<files, outcome, prior, lock, history, bounds>>

\* emit_alert_once: while another emission runs nothing is shown.
EmitBusy(s) ==
  /\ pc[s] = "notice" /\ lock # {}
  /\ Goto(s, "idle")
  /\ UNCHANGED <<files, outcome, session, history, bounds>>
Look(s) ==
  /\ pc[s] = "notice"
  /\ prior' = [prior EXCEPT ![s] = <<emitted, acked>>]
  /\ IF alert[s] \in {emitted, acked} THEN Goto(s, "idle") /\ UNCHANGED lock
                                      ELSE Goto(s, "emit") /\ lock' = {s}
  /\ UNCHANGED <<files, outcome, alert, history, bounds>>
\* Broken variant: a session looks without the lock.
LookAnyway(s) == Look(s)
LookLocked(s) == lock = {} /\ Look(s)

\* The receipt is written before the message is printed.
Emit(s) ==
  /\ pc[s] = "emit"
  /\ emitted' = alert[s] /\ acked' = prior[s][2]
  /\ told' = told \cup alert[s]
  /\ last' = alert[s] /\ repeated' = (repeated \/ last = alert[s])
  /\ lock' = {} /\ Goto(s, "idle")
  /\ UNCHANGED <<health, conflict, outcome, alert, prior, bounds>>

-----------------------------------------------------------------------------
\* acknowledge_alert takes no lock.
Acknowledge(a) ==
  /\ acks < MaxAcks /\ acks' = acks + 1
  /\ a \in told \cup Active
  /\ emitted' = {a} /\ acked' = {a}
  /\ told' = told \cup {a} /\ last' = last \cap {a}
  /\ UNCHANGED <<health, conflict, pc, outcome, session, repeated, reports>>

ReporterStep(r) == Report(r) \/ Clear(r)
SessionStep(s) == EmitBusy(s) \/ LookLocked(s) \/ Emit(s)
Next ==
  \/ \E r \in Reporters : Reconciled(r) \/ ReporterStep(r)
  \/ \E s \in Sessions : Start(s) \/ SessionStep(s)
  \/ \E a \in Ids : Acknowledge(a)
Spec == Init /\ [][Next]_vars

\* Processes go on, and sessions keep starting.
FairSpec ==
  /\ Spec
  /\ \A r \in Reporters : WF_vars(ReporterStep(r))
  /\ \A s \in Sessions : WF_vars(SessionStep(s)) /\ WF_vars(Start(s))

-----------------------------------------------------------------------------
(* Properties. *)

\* An alert is shown once: again only after a healthy report or another alert.
ShownOnce == ~repeated

\* A failure that stays the last word is shown, or was acknowledged, since the last
\* healthy report.
FailureIsTold == \A f \in Failures : <>[](Active = {f}) => <>[](f \in told)

\* What was acknowledged stays so while nothing healthy was reported since.
AcknowledgedStays == [][acked # {} /\ acked' = {} => health = "healthy"]_vars
=============================================================================
