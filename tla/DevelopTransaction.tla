------------------------- MODULE DevelopTransaction -------------------------
(***************************************************************************)
(* A development closure writes candidate versions into the native         *)
(* manifests of a project, runs the checks on them and appends what passed *)
(* to the ledger .codex/package-closures.json.  A journal makes the whole  *)
(* recoverable.  Users edit the same files meanwhile, and take no lock.    *)
(* Source: execute, rollback, recover and mutate_scoped in                 *)
(* source/lifecycle/src/release/schema4/development.rs.                    *)
(*                                                                         *)
(* develop --apply, --validate and --recover hold the sync lock and the    *)
(* project lock from start to end, so one command runs at a time.  A file  *)
(* is the user's text and a version; an edit changes the text.             *)
(***************************************************************************)
EXTENDS Naturals

CONSTANTS Paths,       \* manifests, lock files and projections it may write
          Early,       \* the paths that sort before the ledger's
          Record,      \* the ledger's own path
          MaxRounds,   \* number of affected packages
          MaxRenders,  \* bound: candidates rendered
          MaxEdits,    \* bound: edits by users
          MaxCommits,  \* bound: commits by users
          MaxFaults    \* bound: crashes and failing writes

ASSUME PathsAssumption == Early \subseteq Paths /\ Record \notin Paths
ASSUME BoundsAssumption ==
  {MaxRounds, MaxRenders, MaxEdits, MaxCommits, MaxFaults} \subseteq Nat

VARIABLES file,     \* the worktree
          ledger,   \* the version the ledger records for every path
          head,     \* HEAD
          journal,  \* develop-transaction.json: no journal, or one
          pc, cmd,  \* the running command
          capture,  \* inputs the plan was made from
          mem,      \* the journal as the command holds it
          round,    \* fallback rounds so far
          todo,     \* paths still to be written or rolled back
          clash,    \* this rollback met an external edit
          at,       \* the path about to be put back
          after,    \* where this rollback leads: "retry", "validated" or "failed"
          raced,    \* history: paths edited since the command last compared them
                    \* with its inputs or its candidate
          renders, edits, faults

plan == <<cmd, capture, mem, round>>
walk == <<todo, clash, at, after>>
command == <<pc, plan, walk>>
disk == <<file, ledger, head, journal>>
bounds == <<renders, edits, faults>>
vars == <<disk, command, raced, bounds>>

Contents == Nat \X Nat
Text(c) == c[1]
Version(c) == c[2]
Ledgers == [Paths -> Nat]

\* A journal: the contents before and after, the ledger before, and the ledger
\* to be written, once there is one.
Journal(h, b, a, was, will) ==
  [head |-> h, before |-> b, after |-> a, was |-> was, will |-> will]
IsJournal(j) ==
  /\ j = Journal(j.head, j.before, j.after, j.was, j.will)
  /\ j.head \in Nat /\ j.was \in Ledgers /\ j.will \in SUBSET Ledgers
  /\ DOMAIN j.after \subseteq Paths
  /\ j.before \in [DOMAIN j.after -> Contents] /\ j.after \in [DOMAIN j.after -> Contents]

Pcs == {"idle", "begin", "journal", "write", "final", "seal", "late", "record",
        "unjournal", "undo", "put", "render"}

TypeOK ==
  /\ file \in [Paths -> Contents]
  /\ ledger \in Ledgers
  /\ head \in Nat
  /\ \A j \in journal : IsJournal(j)
  /\ pc \in Pcs
  /\ cmd \in {"apply", "validate", "recover"}
  /\ capture \in [Paths -> Contents]
  /\ IsJournal(mem)
  /\ round \in 0..MaxRounds
  /\ todo \subseteq DOMAIN mem.after \cup {Record}
  /\ clash \in BOOLEAN
  /\ at \in Paths \cup {Record} /\ (pc = "put" => at \in DOMAIN mem.after)
  /\ after \in {"retry", "validated", "failed"}
  /\ raced \subseteq Paths
  /\ renders \in Nat /\ edits \in Nat /\ faults \in Nat

Nothing == [p \in {} |-> <<0, 0>>]
Init ==
  /\ file = [p \in Paths |-> <<0, 0>>]
  /\ ledger = [p \in Paths |-> 0]
  /\ head = 0
  /\ journal = {}
  /\ pc = "idle" /\ cmd = "recover"
  /\ capture = file
  /\ mem = Journal(0, Nothing, Nothing, ledger, {})
  /\ round = 0 /\ todo = {} /\ clash = FALSE /\ at = Record /\ after = "failed"
  /\ raced = {}
  /\ renders = 0 /\ edits = 0 /\ faults = 0

-----------------------------------------------------------------------------
(* Candidates. *)

Writes == DOMAIN mem.after

\* The plan's candidate for W: new versions in the text that was captured.
Candidate(W, text) == [p \in W |-> <<Text(text[p]), renders + 1>>]
Captured(W, contents) == [p \in W |-> contents[p]]

\* What final verification expects of every file.
Expected(p) == IF p \in Writes THEN mem.after[p] ELSE capture[p]

\* prepare: refused while a journal exists; reads every input.
Start ==
  /\ pc = "idle" /\ journal = {} /\ renders < MaxRenders
  /\ cmd' \in {"apply", "validate"}
  /\ capture' = file
  /\ \E W \in (SUBSET Paths) \ {{}} :
       mem' = Journal(head, Captured(W, file), Candidate(W, file), ledger, {})
  /\ pc' = "begin" /\ round' = 0 /\ todo' = {} /\ clash' = FALSE /\ at' = Record /\ after' = "failed"
  /\ raced' = {} /\ renders' = renders + 1
  /\ UNCHANGED <<disk, edits, faults>>

\* The inputs are compared with the plan's before anything is written.
Begin ==
  /\ pc = "begin"
  /\ pc' = IF file = capture THEN "journal" ELSE "idle"
  /\ raced' = {}
  /\ UNCHANGED <<disk, plan, walk, bounds>>

SaveJournal ==
  /\ pc = "journal"
  /\ journal' = {mem}
  /\ pc' = "write" /\ todo' = Writes
  /\ UNCHANGED <<file, ledger, head, plan, clash, at, after, raced, bounds>>

WriteFile(p) ==
  /\ pc = "write" /\ p \in todo
  /\ file' = [file EXCEPT ![p] = mem.after[p]]
  /\ todo' = todo \ {p}
  /\ UNCHANGED <<ledger, head, journal, pc, plan, clash, at, after,
                 raced, bounds>>

-----------------------------------------------------------------------------
(* Rollback: a file is put back only if it still holds what was written. *)

Undoable(j) == DOMAIN j.after \cup (IF j.will = {} THEN {} ELSE {Record})
Undo(outcome) ==
  /\ pc' = "undo" /\ after' = outcome /\ clash' = FALSE /\ at' = Record
  /\ todo' = Undoable(mem)

\* Paths are visited in the order of their names.
Due(p) == /\ p \in todo
          /\ p # Record => Record \notin todo \/ p \in Early
          /\ p = Record => todo \cap Early = {}

\* Broken variant: a file that is restored already counts as an edit.
RestoredClashes(p) ==
  /\ pc = "undo" /\ Due(p) /\ p # Record
  /\ file[p] = mem.before[p]
  /\ todo' = todo \ {p} /\ clash' = TRUE /\ raced' = raced \ {p}
  /\ UNCHANGED <<disk, pc, plan, at, after, bounds>>

SkipRestored(p) ==
  /\ pc = "undo" /\ Due(p) /\ p # Record
  /\ file[p] = mem.before[p]
  /\ todo' = todo \ {p} /\ raced' = raced \ {p}
  /\ UNCHANGED <<disk, pc, plan, clash, at, after, bounds>>

KeepEdit(p) ==
  /\ pc = "undo" /\ Due(p) /\ p # Record
  /\ file[p] # mem.before[p] /\ file[p] # mem.after[p]
  /\ todo' = todo \ {p} /\ clash' = TRUE /\ raced' = raced \ {p}
  /\ UNCHANGED <<disk, pc, plan, at, after, bounds>>

\* Broken variant: any content counts as the candidate.
FindAny(p) ==
  /\ pc = "undo" /\ Due(p) /\ p # Record
  /\ file[p] # mem.before[p]
  /\ pc' = "put" /\ at' = p /\ raced' = raced \ {p}
  /\ UNCHANGED <<disk, plan, todo, clash, after, bounds>>

\* The comparison and the replacement are two steps: an edit may fall between.
FindOwn(p) ==
  /\ pc = "undo" /\ Due(p) /\ p # Record
  /\ file[p] # mem.before[p] /\ file[p] = mem.after[p]
  /\ pc' = "put" /\ at' = p /\ raced' = raced \ {p}
  /\ UNCHANGED <<disk, plan, todo, clash, after, bounds>>

PutBack(p) ==
  /\ pc = "put" /\ at = p
  /\ file' = [file EXCEPT ![p] = mem.before[p]]
  /\ pc' = "undo" /\ todo' = todo \ {p} /\ at' = Record
  /\ UNCHANGED <<ledger, head, journal, plan, clash, after, raced, bounds>>

\* The ledger is only written under the lock, so it is what it was or will be.
RestoreLedger ==
  /\ pc = "undo" /\ Due(Record)
  /\ ledger' = mem.was
  /\ todo' = todo \ {Record}
  /\ UNCHANGED <<file, head, journal, pc, plan, clash, at, after, raced, bounds>>

\* Broken variant: the journal goes although edits were kept.
UndoForgets ==
  /\ pc = "undo" /\ todo = {} /\ clash
  /\ journal' = {} /\ pc' = "idle"
  /\ UNCHANGED <<file, ledger, head, plan, walk, raced, bounds>>

\* Edits that were kept leave the journal behind and fail the command, which
\* then rolls back once more; otherwise the journal goes.
UndoClashed ==
  /\ pc = "undo" /\ todo = {} /\ clash
  /\ IF after = "failed" THEN pc' = "idle" /\ UNCHANGED walk
                         ELSE Undo("failed")
  /\ UNCHANGED <<disk, plan, raced, bounds>>

UndoDone ==
  /\ pc = "undo" /\ todo = {} /\ ~clash
  /\ journal' = {}
  /\ pc' = IF after = "retry" THEN "render" ELSE "idle"
  /\ UNCHANGED <<file, ledger, head, plan, walk, raced, bounds>>

\* Fallback: render again from the captured inputs; what is on disk now is read
\* as the state to go back to, and not compared with anything.
Rerender ==
  /\ pc = "render" /\ renders < MaxRenders
  /\ \E W \in SUBSET Writes :
       mem' = Journal(mem.head, Captured(W, file), Candidate(W, capture), mem.was, {})
  /\ pc' = "journal" /\ todo' = {} /\ renders' = renders + 1
  /\ UNCHANGED <<disk, cmd, capture, round, clash, at, after, raced, edits, faults>>

RenderFails ==
  /\ pc = "render"
  /\ Undo("failed")
  /\ UNCHANGED <<disk, plan, raced, bounds>>

-----------------------------------------------------------------------------
(* Checks, the ledger and the end of the transaction. *)

\* A required check failed, or the last fallback round did.
ChecksFail ==
  /\ pc = "write" /\ todo = {}
  /\ Undo("failed")
  /\ UNCHANGED <<disk, plan, raced, bounds>>

\* A stability check failed: its package falls back to a development version.
StabilityFails ==
  /\ pc = "write" /\ todo = {} /\ round < MaxRounds
  /\ round' = round + 1 /\ Undo("retry")
  /\ UNCHANGED <<disk, cmd, capture, mem, raced, bounds>>

ChecksPass ==
  /\ pc = "write" /\ todo = {}
  /\ pc' = "final"
  /\ UNCHANGED <<disk, plan, walk, raced, bounds>>

InputsAsExpected == \A p \in Paths : file[p] = Expected(p)

FinalVerify ==
  /\ pc = "final" /\ InputsAsExpected /\ head = mem.head
  /\ raced' = {}
  /\ IF cmd = "validate" THEN Undo("validated")
                         ELSE pc' = "seal" /\ UNCHANGED walk
  /\ UNCHANGED <<disk, plan, bounds>>

FinalDrift ==
  /\ pc = "final" /\ ~(InputsAsExpected /\ head = mem.head)
  /\ Undo("failed")
  /\ UNCHANGED <<disk, plan, raced, bounds>>

\* The ledger to be written, from the versions on disk, joins the journal.
Seal ==
  /\ pc = "seal"
  /\ mem' = Journal(mem.head, mem.before, mem.after, mem.was,
                    {[p \in Paths |-> Version(file[p])]})
  /\ journal' = {mem'}
  /\ pc' = "late"
  /\ UNCHANGED <<file, ledger, head, cmd, capture, round, walk, raced, bounds>>

\* Inputs are verified once more; HEAD only if checks were reused or staged.
LateVerify ==
  /\ pc = "late" /\ InputsAsExpected
  /\ pc' = "record" /\ raced' = {}
  /\ UNCHANGED <<disk, plan, walk, bounds>>

LateDrift ==
  /\ pc = "late" /\ ~(InputsAsExpected /\ head = mem.head)
  /\ Undo("failed")
  /\ UNCHANGED <<disk, plan, raced, bounds>>

WriteLedger ==
  /\ pc = "record"
  /\ ledger' \in mem.will
  /\ pc' = "unjournal"
  /\ UNCHANGED <<file, head, journal, plan, walk, raced, bounds>>

Unjournal ==
  /\ pc = "unjournal"
  /\ journal' = {}
  /\ pc' = "idle"
  /\ UNCHANGED <<file, ledger, head, plan, walk, raced, bounds>>

-----------------------------------------------------------------------------
(* develop --recover, faults and users. *)

\* Refused for another HEAD.  A ledger already written means only the removal
\* of the journal was missing; otherwise everything is rolled back.
Recover ==
  /\ pc = "idle" /\ mem' \in journal /\ head = mem'.head
  /\ cmd' = "recover" /\ raced' = {}
  /\ after' = "failed" /\ clash' = FALSE /\ at' = Record
  /\ todo' = Undoable(mem')
  /\ pc' = IF mem'.will = {ledger} THEN "unjournal" ELSE "undo"
  /\ UNCHANGED <<disk, capture, round, bounds>>

\* A write or the removal of the journal fails.
StepFails ==
  /\ faults < MaxFaults
  /\ faults' = faults + 1
  /\ \/ /\ \/ pc = "journal" /\ round > 0
           \/ pc \in {"write", "seal", "record"}
           \/ pc = "unjournal" /\ cmd = "apply"
           \/ pc \in {"undo", "put"} /\ after # "failed"
        /\ Undo("failed")
     \/ /\ \/ pc = "journal" /\ round = 0
           \/ pc = "unjournal" /\ cmd = "recover"
           \/ pc \in {"undo", "put"} /\ after = "failed"
        /\ pc' = "idle" /\ UNCHANGED walk
  /\ UNCHANGED <<disk, plan, raced, renders, edits>>

Crash ==
  /\ pc # "idle" /\ faults < MaxFaults
  /\ faults' = faults + 1
  /\ pc' = "idle"
  /\ UNCHANGED <<disk, plan, walk, raced, renders, edits>>

Edit(p) ==
  /\ edits < MaxEdits
  /\ edits' = edits + 1
  /\ file' = [file EXCEPT ![p] = <<edits + 1, Version(file[p])>>]
  /\ raced' = raced \cup {p}
  /\ UNCHANGED <<ledger, head, journal, command, renders, faults>>

\* The user takes an edit back that a rollback has kept.
TakeBack(p) ==
  /\ pc = "idle"
  /\ \E j \in journal :
       /\ p \in DOMAIN j.after
       /\ \E content \in {j.before[p], j.after[p]} :
            /\ Version(content) = Version(file[p])
            /\ file' = [file EXCEPT ![p] = content]
  /\ UNCHANGED <<ledger, head, journal, command, raced, bounds>>

Commit ==
  /\ head < MaxCommits
  /\ head' = head + 1
  /\ UNCHANGED <<file, ledger, journal, command, raced, bounds>>

Rollback ==
  \/ \E p \in Paths : SkipRestored(p) \/ KeepEdit(p) \/ FindOwn(p) \/ PutBack(p)
  \/ RestoreLedger \/ UndoClashed \/ UndoDone
Closure ==
  \/ Begin \/ SaveJournal \/ (\E p \in Paths : WriteFile(p))
  \/ ChecksPass \/ StabilityFails \/ ChecksFail \/ Rerender \/ RenderFails
  \/ FinalVerify \/ FinalDrift \/ Seal \/ LateVerify \/ LateDrift \/ WriteLedger \/ Unjournal
Environment == StepFails \/ Crash \/ Commit \/ \E p \in Paths : Edit(p) \/ TakeBack(p)
Next == Start \/ Recover \/ Closure \/ Rollback \/ Environment

Spec == Init /\ [][Next]_vars

\* A command that runs goes on, and the user recovers what a crash left.
FairSpec == Spec /\ WF_vars(Closure \/ Rollback) /\ WF_vars(Recover)

-----------------------------------------------------------------------------
(* Properties. *)

\* What git synchronization relies on when it finds no journal: the versions on
\* disk are the versions the ledger records, so no candidate was left behind by
\* a failed, interrupted or validating command, and none is recorded half.
LedgerMatches ==
  journal = {} => \A p \in Paths : Version(file[p]) = ledger[p]

\* The first candidate overwrites only edits made after the inputs were verified,
\* and a rollback only edits made after it found the candidate still in place.
OverwritesOnlyRaced ==
  pc = "put" \/ (pc = "write" /\ round = 0) =>
    \A p \in Paths : Text(file'[p]) < Text(file[p]) => p \in raced
EditsSurvive == [][OverwritesOnlyRaced]_vars

\* "Concurrent external edits are kept": an edit that the command has read into
\* its journal is not overwritten by its candidate.
OverwritesOnlyUnread ==
  pc = "write" => \A p \in Writes :
    Text(file'[p]) < Text(file[p]) => file[p] # mem.before[p]
ReadEditsSurvive == [][OverwritesOnlyUnread]_vars

\* An interrupted transaction can be recovered: the journal goes, unless HEAD
\* moved or an edit awaits its user.
Unsettled ==
  \E j \in journal :
    \/ head # j.head
    \/ \E p \in DOMAIN j.after : file[p] \notin {j.before[p], j.after[p]}
RecoverySettles == journal # {} ~> (journal = {} \/ Unsettled)
=============================================================================
