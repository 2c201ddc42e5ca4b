-------------------------- MODULE DevelopmentProofs --------------------------
(***************************************************************************)
(* How versions come about, proved of every instance.                      *)
(*                                                                         *)
(* First DevelopTransaction: the development transaction leaves no half-   *)
(* recorded version behind, for any number of paths, rounds, edits,        *)
(* commits and faults, provided that no path sorts before the ledger's: a  *)
(* rollback visits the paths in the order of their names, and the ledger   *)
(* must be restored first.  The journal on disk is the argument.  Whatever *)
(* a command or a crash left on disk is covered by it (JournalInv); a      *)
(* running command holds the same journal, and its position says which     *)
(* files carry which version (CommandInv).                                 *)
(*                                                                         *)
(* Then PackageRelease, for any packages, dependencies, answers and        *)
(* histories.  The ledger of the checkout accounts for every version since *)
(* the last formal release (Tracked), a version that was ever published    *)
(* stands for what the package was closed with (NumbersKept), and an audit *)
(* that succeeds has seen every formal release (AuditKept).  A develop     *)
(* keeps that because the plan it closes fits its tree (Fitting), and what *)
(* the checks let fall back fits it as well (Kept).  Several operators run *)
(* through rounds; what holds of a round is carried to the last one by     *)
(* InductionTo, that rests on the well-foundedness of the numbers.         *)
(*                                                                         *)
(* On top of it, that a develop closes its scope (ClosingInv).  Its rounds *)
(* come to rest because each of them but the last two forces one package   *)
(* more (RoundsRest, PrepareRests).  Nothing of the scope is left over     *)
(* because what a plan changes, and whatever that reaches, is among what   *)
(* it affects (MovedAffected, ClosingLeaves), and a plan leaves the scope  *)
(* of the next release only along inherited versions (PrepareWithin).      *)
(***************************************************************************)
EXTENDS DevelopTransaction, PackageRelease, FiniteSetTheorems, WellFoundedInduction, TLAPS

\* The ledger that records what a journal's candidate puts on disk.
Sealed(j) ==
  [p \in Paths |-> IF p \in DOMAIN j.after THEN Version(j.after[p]) ELSE j.was[p]]

\* A journal leads back to the versions of the old ledger, and forth to those
\* of the new one.
Sound(j) ==
  /\ \A p \in DOMAIN j.after : Version(j.before[p]) = j.was[p]
  /\ \A l \in j.will : l = Sealed(j)

\* Every file carries the version before or after, and once the new ledger is
\* written every version on disk is the new one.
Covers(j) ==
  /\ \A p \in Paths : \/ Version(file[p]) = j.was[p]
                      \/ p \in DOMAIN j.after /\ Version(file[p]) = Version(j.after[p])
  /\ ledger = j.was \/ j.will = {ledger}
  /\ j.will = {ledger} => \A p \in Paths : Version(file[p]) = ledger[p]

JournalInv == \A j \in journal : Sound(j) /\ Covers(j) /\ journal = {j}

\* Where the journal of a running command is, and what it says.
Position ==
  /\ pc \in {"begin", "journal", "render"} => journal = {}
  /\ pc \in {"write", "final", "seal", "late", "record", "unjournal"} => journal = {mem}
  /\ pc \in {"undo", "put"} => journal = {mem} \/ (journal = {} /\ mem.will = {})
  /\ pc \in {"undo", "put"} /\ after # "failed" => mem.will = {}
  /\ pc \in {"begin", "journal", "render", "write", "final", "seal"} => mem.will = {}
  /\ pc \in {"late", "record"} => mem.will = {Sealed(mem)}
  /\ pc = "unjournal" => mem.will = {ledger}
  /\ pc \notin {"idle", "unjournal", "undo", "put"} => ledger = mem.was

\* How far writing and rolling back have come.
Progress ==
  /\ pc = "write" => todo \subseteq Writes
  /\ pc = "write" => \A p \in Writes \ todo : Version(file[p]) = Version(mem.after[p])
  /\ pc \in {"final", "seal", "late", "record"} =>
       \A p \in Writes : Version(file[p]) = Version(mem.after[p])
  /\ pc \in {"undo", "put"} => todo \subseteq Undoable(mem)
  /\ pc \in {"undo", "put"} => ledger = mem.was \/ Record \in todo
  /\ pc \in {"undo", "put"} /\ ~clash =>
       \A p \in Writes \ todo : Version(file[p]) = mem.was[p]
  /\ pc = "put" => at \in todo /\ at \in Writes /\ Record \notin todo

CommandInv == pc # "idle" => Sound(mem) /\ Position /\ Progress

\* Going back loses no text.
KeepsText(j) ==
  \A p \in DOMAIN j.after :
    Text(j.after[p]) <= Text(j.before[p]) /\ Text(j.before[p]) <= edits

\* Texts only grow, and an edit that came late is remembered.
TextInv ==
  /\ \A j \in journal : KeepsText(j)
  /\ pc # "idle" => KeepsText(mem)
  /\ \A p \in Paths : Text(file[p]) <= edits /\ Text(capture[p]) <= edits
  /\ pc # "idle" /\ cmd # "recover" =>
       /\ \A p \in Paths : Text(capture[p]) <= Text(file[p])
       /\ \A p \in Writes : Text(mem.after[p]) = Text(capture[p])
  /\ pc # "idle" /\ cmd = "recover" => pc \in {"unjournal", "undo", "put"} /\ after = "failed"
  /\ pc \in {"undo", "put"} /\ after = "retry" => round # 0
  /\ pc = "render" => round # 0
  /\ pc \in {"journal", "write"} /\ round = 0 =>
       \A p \in Paths : p \notin raced => Text(file[p]) = Text(capture[p])
  /\ pc = "put" /\ at \notin raced => file[at] = mem.after[at]

IInv == TypeOK /\ JournalInv /\ LedgerMatches /\ CommandInv

-----------------------------------------------------------------------------
(* Journals and candidates.                                                *)

LEMMA JournalFields ==
  ASSUME NEW h, NEW b, NEW a, NEW was, NEW will
  PROVE  LET j == Journal(h, b, a, was, will)
         IN  /\ j.head = h /\ j.before = b /\ j.after = a
             /\ j.was = was /\ j.will = will
             /\ j = Journal(j.head, j.before, j.after, j.was, j.will)
BY DEF Journal

LEMMA JournalType ==
  ASSUME NEW h \in Nat, NEW W \in SUBSET Paths, NEW b \in [W -> Contents],
         NEW a \in [W -> Contents], NEW was \in Ledgers, NEW will \in SUBSET Ledgers
  PROVE  IsJournal(Journal(h, b, a, was, will))
BY JournalFields DEF IsJournal

LEMMA VersionType ==
  ASSUME NEW c \in Contents
  PROVE  Version(c) \in Nat /\ Text(c) \in Nat
BY DEF Version, Text, Contents

\* What rendering a candidate for W yields.
LEMMA CandidateType ==
  ASSUME NEW W \in SUBSET Paths, NEW c \in [Paths -> Contents], renders \in Nat
  PROVE  /\ Captured(W, c) \in [W -> Contents]
         /\ Candidate(W, c) \in [W -> Contents]
         /\ \A p \in W : /\ Captured(W, c)[p] = c[p]
                        /\ Text(Candidate(W, c)[p]) = Text(c[p])
<1>1. \A p \in W : c[p] \in Contents /\ Text(c[p]) \in Nat
  BY VersionType
<1>2. \A p \in W : <<Text(c[p]), renders + 1>> \in Contents
  BY <1>1 DEF Contents
<1>3. Captured(W, c) \in [W -> Contents] /\ \A p \in W : Captured(W, c)[p] = c[p]
  BY <1>1 DEF Captured
<1>4. \A p \in W : Candidate(W, c)[p] = <<Text(c[p]), renders + 1>>
  BY DEF Candidate
<1>5. Candidate(W, c) \in [W -> Contents]
  BY <1>2 DEF Candidate
<1> QED BY <1>3, <1>4, <1>5 DEF Text

-----------------------------------------------------------------------------
(* Types.                                                                  *)

LEMMA InitType == Init => TypeOK
<1> SUFFICES ASSUME Init PROVE TypeOK
  OBVIOUS
<1>1. IsJournal(mem)
  <2>1. Nothing \in [{} -> Contents]
    BY DEF Nothing
  <2> QED BY <2>1, JournalType DEF Init, Ledgers
<1>2. file \in [Paths -> Contents]
  BY DEF Init, Contents
<1>3. round \in 0..MaxRounds
  BY BoundsAssumption DEF Init
<1> QED BY <1>1, <1>2, <1>3 DEF Init, TypeOK, Ledgers, Pcs

LEMMA StepType == TypeOK /\ [Next]_vars => TypeOK'
<1> SUFFICES ASSUME TypeOK, [Next]_vars PROVE TypeOK'
  OBVIOUS
<1>mem. /\ IsJournal(mem) /\ mem.head \in Nat /\ mem.was \in Ledgers
        /\ mem.will \in SUBSET Ledgers /\ Writes \subseteq Paths
        /\ mem.before \in [Writes -> Contents] /\ mem.after \in [Writes -> Contents]
  BY DEF TypeOK, IsJournal, Writes
<1>undo. ASSUME NEW o \in {"retry", "validated", "failed"}, Undo(o), UNCHANGED mem
         PROVE  /\ pc' = "undo" /\ after' \in {"retry", "validated", "failed"}
                /\ clash' \in BOOLEAN /\ at' \in Paths \cup {Record}
                /\ todo' \subseteq DOMAIN mem'.after \cup {Record}
  BY <1>undo DEF Undo, Undoable
<1> USE DEF TypeOK, disk, plan, walk, bounds, Pcs
<1>1. CASE Start
  <2>1. PICK W \in (SUBSET Paths) \ {{}} :
          mem' = Journal(head, Captured(W, file), Candidate(W, file), ledger, {})
    BY <1>1 DEF Start
  <2>2. IsJournal(mem')
    BY <2>1, CandidateType, JournalType
  <2>3. round' \in 0..MaxRounds
    BY <1>1, BoundsAssumption DEF Start
  <2>4. file' \in [Paths -> Contents] /\ capture' \in [Paths -> Contents]
    BY <1>1 DEF Start
  <2>5. \A j \in journal' : IsJournal(j)
    BY <1>1 DEF Start
  <2>6. ledger' \in Ledgers /\ head' \in Nat /\ pc' \in Pcs /\ pc' # "put"
    BY <1>1 DEF Start
  <2>7. /\ cmd' \in {"apply", "validate", "recover"} /\ todo' = {} /\ clash' \in BOOLEAN
        /\ at' \in Paths \cup {Record} /\ after' \in {"retry", "validated", "failed"}
    BY <1>1 DEF Start
  <2>8. raced' \subseteq Paths /\ renders' \in Nat /\ edits' \in Nat /\ faults' \in Nat
    BY <1>1 DEF Start
  <2> QED BY <2>2, <2>3, <2>4, <2>5, <2>6, <2>7, <2>8
<1>2. CASE Recover
  <2>1. IsJournal(mem')
    BY <1>2 DEF Recover
  <2> QED BY <1>2, <2>1 DEF Recover, Undoable
<1>3. CASE Begin
  BY <1>3 DEF Begin
<1>4. CASE SaveJournal
  BY <1>4, <1>mem DEF SaveJournal, Writes
<1>5. ASSUME NEW p \in Paths, WriteFile(p) PROVE TypeOK'
  BY <1>5, <1>mem, PathsAssumption DEF WriteFile, Writes
<1>6. CASE ChecksPass
  BY <1>6 DEF ChecksPass
<1>7. CASE StabilityFails
  BY <1>7, <1>undo, BoundsAssumption DEF StabilityFails
<1>8. CASE ChecksFail
  BY <1>8, <1>undo DEF ChecksFail
<1>9. CASE Rerender
  <2>1. PICK W \in SUBSET Writes :
          mem' = Journal(mem.head, Captured(W, file), Candidate(W, capture), mem.was, {})
    BY <1>9 DEF Rerender
  <2>2. IsJournal(mem')
    BY <2>1, <1>mem, CandidateType, JournalType
  <2> QED BY <1>9, <2>2 DEF Rerender
<1>10. CASE RenderFails
  BY <1>10, <1>undo DEF RenderFails
<1>11. CASE FinalVerify
  BY <1>11, <1>undo DEF FinalVerify
<1>12. CASE FinalDrift
  BY <1>12, <1>undo DEF FinalDrift
<1>13. CASE Seal
  <2> DEFINE will == {[p \in Paths |-> Version(file[p])]}
  <2>1. will \in SUBSET Ledgers
    BY VersionType DEF Ledgers
  <2>2. mem' = Journal(mem.head, mem.before, mem.after, mem.was, will)
    BY <1>13 DEF Seal
  <2> HIDE DEF will
  <2>3. IsJournal(mem')
    BY <2>1, <2>2, <1>mem, JournalType
  <2>4. mem'.after = mem.after
    BY <2>2, JournalFields
  <2> QED BY <1>13, <2>3, <2>4 DEF Seal
<1>14. CASE LateVerify
  BY <1>14 DEF LateVerify
<1>15. CASE LateDrift
  BY <1>15, <1>undo DEF LateDrift
<1>16. CASE WriteLedger
  BY <1>16, <1>mem DEF WriteLedger
<1>17. CASE Unjournal
  BY <1>17 DEF Unjournal
<1>18. ASSUME NEW p \in Paths, SkipRestored(p) PROVE TypeOK'
  BY <1>18 DEF SkipRestored
<1>19. ASSUME NEW p \in Paths, KeepEdit(p) PROVE TypeOK'
  BY <1>19 DEF KeepEdit
<1>20. ASSUME NEW p \in Paths, FindOwn(p) PROVE TypeOK'
  BY <1>20, <1>mem, PathsAssumption DEF FindOwn, Due, Writes
<1>21. ASSUME NEW p \in Paths, PutBack(p) PROVE TypeOK'
  BY <1>21, <1>mem, PathsAssumption DEF PutBack, Writes
<1>22. CASE RestoreLedger
  BY <1>22, <1>mem DEF RestoreLedger
<1>23. CASE UndoClashed
  BY <1>23, <1>undo DEF UndoClashed
<1>24. CASE UndoDone
  BY <1>24 DEF UndoDone
<1>25. CASE StepFails
  BY <1>25, <1>undo DEF StepFails
<1>26. CASE Crash
  BY <1>26 DEF Crash
<1>27. CASE Commit
  BY <1>27 DEF Commit, command
<1>28. ASSUME NEW p \in Paths, Edit(p) PROVE TypeOK'
  <2>1. <<edits + 1, Version(file[p])>> \in Contents
    BY VersionType DEF Contents
  <2> QED BY <1>28, <2>1 DEF Edit, command
<1>29. ASSUME NEW p \in Paths, TakeBack(p) PROVE TypeOK'
  BY <1>29 DEF TakeBack, command, IsJournal
<1>30. CASE UNCHANGED vars
  BY <1>30 DEF vars, command
<1> QED BY <1>1, <1>2, <1>3, <1>4, <1>5, <1>6, <1>7, <1>8, <1>9, <1>10, <1>11, <1>12,
           <1>13, <1>14, <1>15, <1>16, <1>17, <1>18, <1>19, <1>20, <1>21, <1>22, <1>23,
           <1>24, <1>25, <1>26, <1>27, <1>28, <1>29, <1>30
        DEF Next, Closure, Rollback, Environment

-----------------------------------------------------------------------------
(* The journal and the ledger.                                             *)

LEMMA InitInv == Init => IInv
<1> SUFFICES ASSUME Init PROVE IInv
  OBVIOUS
<1>1. TypeOK
  BY InitType
<1>2. \A p \in Paths : Version(file[p]) = ledger[p]
  BY DEF Init, Version
<1> QED BY <1>1, <1>2 DEF Init, IInv, JournalInv, LedgerMatches, CommandInv

\* A step that leaves the disk alone leaves what is said of it.
LEMMA DiskKept ==
  ASSUME JournalInv, LedgerMatches, UNCHANGED disk
  PROVE  JournalInv' /\ LedgerMatches'
BY DEF JournalInv, LedgerMatches, Covers, disk

\* A rollback may start wherever the journal is the command's own.
LEMMA UndoStarts ==
  ASSUME NEW o, Undo(o), UNCHANGED <<disk, mem>>, TypeOK, Sound(mem),
         journal = {mem} \/ (journal = {} /\ mem.will = {}),
         ledger = mem.was \/ mem.will # {},
         o = "failed" \/ mem.will = {}
  PROVE  CommandInv'
<1>1. Sound(mem)' /\ Writes' = Writes /\ Undoable(mem)' = Undoable(mem)
  BY DEF Sound, Writes, Undoable, Sealed
<1>2. pc' = "undo" /\ todo' = Undoable(mem) /\ after' = o
  BY DEF Undo
<1>3. Position'
  BY <1>2 DEF Position, disk
<1>4. Writes \subseteq todo'
  BY <1>2 DEF Undoable, Writes
<1>5. Progress'
  BY <1>1, <1>2, <1>4 DEF Progress, Undoable, disk
<1> QED BY <1>1, <1>3, <1>5 DEF CommandInv

LEMMA StepInv ==
  ASSUME Early = {}, IInv, [Next]_vars
  PROVE  IInv'
<1>type. TypeOK /\ TypeOK'
  BY StepType DEF IInv
<1>inv. JournalInv /\ LedgerMatches /\ CommandInv
  BY DEF IInv
<1> SUFFICES JournalInv' /\ LedgerMatches' /\ CommandInv'
  BY <1>type DEF IInv
<1>run. pc # "idle" => Sound(mem) /\ Position /\ Progress
  BY <1>inv DEF CommandInv
<1>disk. UNCHANGED disk => JournalInv' /\ LedgerMatches'
  BY <1>inv, DiskKept
<1>undo. ASSUME NEW o, Undo(o), UNCHANGED <<disk, mem>>, pc # "idle",
                journal = {mem} \/ (journal = {} /\ mem.will = {}),
                ledger = mem.was \/ mem.will # {},
                o = "failed" \/ mem.will = {}
         PROVE  CommandInv'
  BY <1>undo, <1>run, <1>type, UndoStarts
<1>own. pc \notin {"idle", "begin", "journal", "render"} =>
          /\ journal = {mem} \/ (journal = {} /\ mem.will = {})
          /\ ledger = mem.was \/ mem.will # {}
  <2>1. pc \in {"undo", "put"} /\ Record \in todo => mem.will # {}
    BY <1>run, <1>type, PathsAssumption DEF Progress, Undoable, TypeOK, IsJournal
  <2> QED BY <1>run, <2>1, <1>type DEF Position, Progress, TypeOK, Pcs
\* An edit keeps the versions.
<1>edit. ASSUME UNCHANGED <<ledger, journal, command>>,
                \A q \in Paths : Version(file'[q]) = Version(file[q])
         PROVE  JournalInv' /\ LedgerMatches' /\ CommandInv'
  <2>1. Writes \subseteq Paths /\ \A j \in journal : DOMAIN j.after \subseteq Paths
    BY <1>type DEF TypeOK, IsJournal, Writes
  <2>2. JournalInv' /\ LedgerMatches'
    BY <1>edit, <1>inv DEF JournalInv, LedgerMatches, Covers, Sound, Sealed
  <2>3. pc # "idle" => Sound(mem)' /\ Position'
    BY <1>edit, <1>run DEF Position, Sound, Sealed, command, plan, walk
  <2>4. pc # "idle" => Progress'
    BY <1>edit, <2>1, <1>run DEF Progress, command, plan, walk, Writes, Undoable
  <2> QED BY <2>2, <2>3, <2>4, <1>edit DEF CommandInv, command
\* Steps that only move the command on.
<1>same. ASSUME UNCHANGED <<disk, mem>>, pc # "idle",
                Position', Progress'
         PROVE  CommandInv'
  <2>1. Sound(mem)'
    BY <1>same, <1>run DEF Sound, Sealed
  <2> QED BY <1>same, <2>1 DEF CommandInv
<1>1. CASE Start
  <2>1. PICK W \in (SUBSET Paths) \ {{}} :
          mem' = Journal(head, Captured(W, file), Candidate(W, file), ledger, {})
    BY <1>1 DEF Start
  <2>2. /\ mem'.before = Captured(W, file) /\ mem'.after = Candidate(W, file)
        /\ mem'.was = ledger /\ mem'.will = {}
    BY <2>1, JournalFields
  <2>3. /\ Captured(W, file) \in [W -> Contents] /\ Candidate(W, file) \in [W -> Contents]
        /\ \A p \in W : Captured(W, file)[p] = file[p]
        /\ \A p \in W : Text(Candidate(W, file)[p]) = Text(file[p])
    <3>1. W \in SUBSET Paths
      OBVIOUS
    <3>2. file \in [Paths -> Contents] /\ renders \in Nat
      BY <1>type DEF TypeOK
    <3> QED BY <3>1, <3>2, CandidateType
  <2>4. \A p \in Paths : Version(file[p]) = ledger[p]
    BY <1>1, <1>inv DEF LedgerMatches, Start
  <2>5. Sound(mem')
    BY <2>2, <2>3, <2>4 DEF Sound
  <2>6. Position' /\ Progress'
    BY <1>1, <2>2 DEF Start, Position, Progress, disk
  <2> QED BY <2>5, <2>6, <1>1, <1>disk DEF CommandInv, Sound, Sealed, Start
<1>2. CASE Recover
  <2>1. Sound(mem') /\ journal = {mem'} /\ (ledger = mem'.was \/ mem'.will = {ledger})
    BY <1>2, <1>inv DEF Recover, JournalInv, Covers
  <2>2. Writes' \subseteq todo' /\ todo' = Undoable(mem')
    BY <1>2 DEF Recover, Writes, Undoable
  <2>3. Position'
    BY <1>2, <2>1 DEF Recover, Position, disk
  <2>4. Progress'
    BY <1>2, <2>1, <2>2 DEF Recover, Progress, Undoable, disk
  <2> QED BY <2>1, <2>3, <2>4, <1>2, <1>disk DEF CommandInv, Sound, Sealed, Recover
<1>3. CASE Begin
  <2>1. Position' /\ Progress'
    BY <1>3, <1>run DEF Begin, Position, Progress, disk, plan, walk
  <2> QED BY <2>1, <1>3, <1>same, <1>disk DEF Begin, plan
<1>4. CASE SaveJournal
  <2>1. Sound(mem) /\ ledger = mem.was /\ mem.will = {} /\ journal = {}
    BY <1>4, <1>run DEF SaveJournal, Position
  <2>2. Sound(mem)' /\ journal' = {mem} /\ mem' = mem
    BY <2>1, <1>4 DEF SaveJournal, plan, Sound, Sealed
  <2>3. Covers(mem)'
    BY <2>1, <1>4, <1>inv DEF SaveJournal, Covers, LedgerMatches, plan
  <2>4. JournalInv' /\ LedgerMatches'
    BY <2>1, <2>2, <2>3 DEF JournalInv, LedgerMatches, Sound, Sealed, Covers
  <2>5. Position' /\ Progress'
    BY <1>4, <2>1, <2>2 DEF SaveJournal, Position, Progress, plan, Writes
  <2> QED BY <2>2, <2>4, <2>5 DEF CommandInv
<1>5. ASSUME NEW p \in Paths, WriteFile(p) PROVE JournalInv' /\ LedgerMatches' /\ CommandInv'
  <2>1. /\ Sound(mem) /\ journal = {mem} /\ mem.will = {} /\ ledger = mem.was
        /\ p \in Writes /\ mem' = mem /\ journal' = journal /\ ledger' = ledger
    BY <1>5, <1>run DEF WriteFile, Position, Progress, plan
  <2>2. \A q \in Paths : file'[q] = IF q = p THEN mem.after[p] ELSE file[q]
    BY <1>5, <1>type DEF WriteFile, TypeOK
  <2>3. Covers(mem)
    BY <2>1, <1>inv DEF JournalInv
  <2>4. Covers(mem)'
    BY <2>1, <2>2, <2>3 DEF Covers, Writes
  <2>5. JournalInv' /\ LedgerMatches'
    BY <2>1, <2>4 DEF JournalInv, LedgerMatches, Sound, Sealed, Covers
  <2>6. Position'
    BY <1>5, <2>1, <1>run DEF WriteFile, Position
  <2>7. Writes \subseteq Paths
    BY <1>type DEF TypeOK, IsJournal, Writes
  <2>8. Progress'
    BY <1>5, <2>1, <2>2, <2>7, <1>run DEF WriteFile, Progress, Writes
  <2> QED BY <2>1, <2>5, <2>6, <2>8 DEF CommandInv, Sound, Sealed
<1>6. CASE ChecksPass
  <2>1. Position' /\ Progress'
    BY <1>6, <1>run DEF ChecksPass, Position, Progress, disk, plan, walk, Writes
  <2> QED BY <2>1, <1>6, <1>same, <1>disk DEF ChecksPass, plan
<1>7. CASE StabilityFails
  BY <1>7, <1>undo, <1>own, <1>run, <1>disk DEF StabilityFails, Position
<1>8. CASE ChecksFail
  BY <1>8, <1>undo, <1>own, <1>disk DEF ChecksFail, plan
<1>9. CASE Rerender
  <2>1. PICK W \in SUBSET Writes :
          mem' = Journal(mem.head, Captured(W, file), Candidate(W, capture), mem.was, {})
    BY <1>9 DEF Rerender
  <2>2. /\ mem'.before = Captured(W, file) /\ mem'.after = Candidate(W, capture)
        /\ mem'.was = ledger /\ mem'.will = {} /\ journal = {}
    BY <2>1, <1>9, <1>run, JournalFields DEF Position, Rerender
  <2>3. W \subseteq Paths
    BY <1>type DEF TypeOK, IsJournal, Writes
  <2>4. /\ Captured(W, file) \in [W -> Contents] /\ Candidate(W, capture) \in [W -> Contents]
        /\ \A p \in W : Captured(W, file)[p] = file[p]
        /\ \A p \in W : Text(Candidate(W, capture)[p]) = Text(capture[p])
    BY CandidateType, <1>type, <2>3 DEF TypeOK
  <2>5. \A p \in Paths : Version(file[p]) = ledger[p]
    BY <2>2, <1>inv DEF LedgerMatches
  <2>6. Sound(mem')
    BY <2>2, <2>3, <2>4, <2>5 DEF Sound
  <2>7. Position' /\ Progress'
    BY <1>9, <2>2, <1>run DEF Rerender, Position, Progress, disk
  <2> QED BY <2>6, <2>7, <1>9, <1>disk DEF CommandInv, Sound, Sealed, Rerender
<1>10. CASE RenderFails
  BY <1>10, <1>undo, <1>run, <1>disk DEF RenderFails, Position, plan
<1>11. CASE FinalVerify
  <2>1. CASE cmd = "validate"
    BY <2>1, <1>11, <1>undo, <1>own, <1>run, <1>disk DEF FinalVerify, plan, Position
  <2>2. CASE cmd # "validate"
    <3>1. Position' /\ Progress'
      BY <2>2, <1>11, <1>run DEF FinalVerify, Position, Progress, disk, plan, walk, Writes
    <3> QED BY <3>1, <2>2, <1>11, <1>same, <1>disk DEF FinalVerify, plan
  <2> QED BY <2>1, <2>2
<1>12. CASE FinalDrift
  BY <1>12, <1>undo, <1>own, <1>disk DEF FinalDrift, plan
<1>13. CASE Seal
  <2> DEFINE will == {[p \in Paths |-> Version(file[p])]}
  <2>1. mem' = Journal(mem.head, mem.before, mem.after, mem.was, will)
    BY <1>13 DEF Seal
  <2>2. /\ mem'.before = mem.before /\ mem'.after = mem.after
        /\ mem'.was = mem.was /\ mem'.will = will
    BY <2>1, JournalFields
  <2>3. /\ Sound(mem) /\ journal = {mem} /\ ledger = mem.was
        /\ \A p \in Writes : Version(file[p]) = Version(mem.after[p])
    BY <1>13, <1>run DEF Seal, Position, Progress
  <2>4. Covers(mem) /\ file' = file /\ ledger' = ledger /\ journal' = {mem'}
    BY <2>3, <1>13, <1>inv DEF JournalInv, Seal
  <2>5. [p \in Paths |-> Version(file[p])] = Sealed(mem) /\ Sealed(mem') = Sealed(mem)
    BY <2>2, <2>3, <2>4 DEF Covers, Sealed, Writes
  <2>6. will = {Sealed(mem')}
    BY <2>5
  <2>7. ledger = mem'.was /\ (mem'.will = {ledger} => \A p \in Paths : Version(file[p]) = ledger[p])
    BY <2>2, <2>3
  <2> HIDE DEF will
  <2>8. Sound(mem')
    BY <2>2, <2>3, <2>6 DEF Sound
  <2>9. Covers(mem)'
    BY <2>2, <2>4, <2>7 DEF Covers
  <2>10. JournalInv' /\ LedgerMatches'
    BY <2>4, <2>8, <2>9 DEF JournalInv, LedgerMatches, Sound, Sealed, Covers
  <2>11. Position' /\ Progress'
    BY <1>13, <2>2, <2>3, <2>4, <2>6 DEF Seal, Position, Progress, Writes, Sealed
  <2> QED BY <2>8, <2>10, <2>11 DEF CommandInv, Sound, Sealed
<1>14. CASE LateVerify
  <2>1. Position' /\ Progress'
    BY <1>14, <1>run DEF LateVerify, Position, Progress, disk, plan, walk, Writes, Sealed
  <2> QED BY <2>1, <1>14, <1>same, <1>disk DEF LateVerify, plan
<1>15. CASE LateDrift
  BY <1>15, <1>undo, <1>own, <1>disk DEF LateDrift, plan
<1>16. CASE WriteLedger
  <2>1. /\ Sound(mem) /\ journal = {mem} /\ mem.will = {Sealed(mem)}
        /\ \A p \in Writes : Version(file[p]) = Version(mem.after[p])
    BY <1>16, <1>run DEF WriteLedger, Position, Progress
  <2>2. Covers(mem)
    BY <2>1, <1>inv DEF JournalInv
  <2>3. ledger' = Sealed(mem) /\ mem' = mem /\ journal' = journal /\ file' = file /\ pc' = "unjournal"
    BY <2>1, <1>16 DEF WriteLedger, plan
  <2>4. \A p \in Paths : Version(file[p]) = Sealed(mem)[p]
    BY <2>1, <2>2 DEF Covers, Sealed, Writes
  <2>5. Covers(mem)'
    BY <2>1, <2>2, <2>3, <2>4 DEF Covers
  <2>6. JournalInv' /\ LedgerMatches'
    BY <2>1, <2>3, <2>5 DEF JournalInv, LedgerMatches, Sound, Sealed, Covers
  <2>7. Position' /\ Progress'
    BY <2>1, <2>3 DEF Position, Progress
  <2> QED BY <2>1, <2>3, <2>6, <2>7 DEF CommandInv, Sound, Sealed
<1>17. CASE Unjournal
  <2>1. journal = {mem} /\ mem.will = {ledger}
    BY <1>17, <1>run DEF Unjournal, Position
  <2>2. \A p \in Paths : Version(file[p]) = ledger[p]
    BY <2>1, <1>inv DEF JournalInv, Covers
  <2> QED BY <2>2, <1>17 DEF Unjournal, JournalInv, LedgerMatches, CommandInv
<1>18. ASSUME NEW p \in Paths, SkipRestored(p) PROVE JournalInv' /\ LedgerMatches' /\ CommandInv'
  <2>1. Sound(mem) /\ p # Record /\ (p \in Writes => Version(file[p]) = mem.was[p])
    BY <1>18, <1>run DEF SkipRestored, Sound, Writes
  <2>2. Position' /\ Progress'
    BY <2>1, <1>18, <1>run DEF SkipRestored, Position, Progress, disk, plan, Writes, Undoable
  <2> QED BY <2>2, <1>18, <1>same, <1>disk DEF SkipRestored, plan
<1>19. ASSUME NEW p \in Paths, KeepEdit(p) PROVE JournalInv' /\ LedgerMatches' /\ CommandInv'
  <2>1. p # Record
    BY <1>19 DEF KeepEdit
  <2>2. Position' /\ Progress'
    BY <2>1, <1>19, <1>run DEF KeepEdit, Position, Progress, disk, plan, Writes, Undoable
  <2> QED BY <2>2, <1>19, <1>same, <1>disk DEF KeepEdit, plan
<1>20. ASSUME NEW p \in Paths, FindOwn(p) PROVE JournalInv' /\ LedgerMatches' /\ CommandInv'
  <2>1. p \in todo /\ p # Record /\ Record \notin todo
    BY <1>20 DEF FindOwn, Due
  <2>2. p \in Writes
    BY <2>1, <1>type DEF TypeOK, Writes
  <2>3. Position' /\ Progress'
    BY <2>1, <2>2, <1>20, <1>run DEF FindOwn, Position, Progress, disk, plan, Writes, Undoable
  <2> QED BY <2>3, <1>20, <1>same, <1>disk DEF FindOwn, plan
<1>21. ASSUME NEW p \in Paths, PutBack(p) PROVE JournalInv' /\ LedgerMatches' /\ CommandInv'
  <2>1. /\ Sound(mem) /\ p \in Writes /\ p \in todo /\ Record \notin todo
        /\ mem' = mem /\ journal' = journal /\ ledger' = ledger /\ pc' = "undo"
    BY <1>21, <1>run DEF PutBack, Progress, plan
  <2>2. ledger = mem.was /\ Version(mem.before[p]) = mem.was[p]
    BY <2>1, <1>21, <1>run DEF PutBack, Progress, Sound, Writes
  <2>3. \A q \in Paths : file'[q] = IF q = p THEN mem.before[p] ELSE file[q]
    BY <1>21, <1>type DEF PutBack, TypeOK
  <2>4. \A q \in Paths : Version(file'[q]) = IF q = p THEN mem.was[p] ELSE Version(file[q])
    BY <2>2, <2>3
  <2>5. ASSUME journal = {mem} PROVE Covers(mem)'
    <3>1. Covers(mem)
      BY <2>5, <1>inv DEF JournalInv
    <3> QED BY <3>1, <2>1, <2>2, <2>4 DEF Covers
  <2>6. JournalInv'
    BY <2>1, <2>5, <1>inv, <1>21, <1>run DEF JournalInv, Position, PutBack, Covers, Sound, Sealed
  <2>7. LedgerMatches'
    BY <2>1, <2>2, <2>4, <1>inv DEF LedgerMatches
  <2>8. Position'
    BY <2>1, <1>21, <1>run DEF PutBack, Position
  <2>9. Writes \subseteq Paths
    BY <1>type DEF TypeOK, IsJournal, Writes
  <2>10. Progress'
    BY <2>1, <2>2, <2>4, <2>9, <1>21, <1>run, PathsAssumption DEF PutBack, Progress, Writes, Undoable
  <2> QED BY <2>1, <2>6, <2>7, <2>8, <2>10 DEF CommandInv, Sound, Sealed
<1>22. CASE RestoreLedger
  <2>1. /\ Sound(mem) /\ Record \in todo /\ todo \subseteq Undoable(mem) /\ pc = "undo"
        /\ mem' = mem /\ journal' = journal /\ ledger' = mem.was /\ file' = file
    BY <1>22, <1>run DEF RestoreLedger, Due, Progress, plan
  <2>2. Writes \subseteq Paths
    BY <1>type DEF TypeOK, IsJournal, Writes
  <2>3. journal = {mem}
    BY <2>1, <2>2, <1>run, PathsAssumption DEF Undoable, Position, Writes
  <2>4. Covers(mem)
    BY <2>3, <1>inv DEF JournalInv
  <2>5. mem.will = {mem.was} => \A p \in Writes : Version(mem.after[p]) = mem.was[p]
    <3> SUFFICES ASSUME mem.will = {mem.was}, NEW p \in Writes
                 PROVE  Version(mem.after[p]) = mem.was[p]
      OBVIOUS
    <3>1. mem.was = Sealed(mem)
      BY <2>1 DEF Sound
    <3> QED BY <3>1, <2>2 DEF Sealed, Writes
  <2>6. Covers(mem)'
    BY <2>1, <2>4, <2>5 DEF Covers, Writes
  <2>7. JournalInv' /\ LedgerMatches'
    BY <2>1, <2>3, <2>6 DEF JournalInv, LedgerMatches, Sound, Sealed, Covers
  <2>8. Position' /\ Progress'
    BY <2>1, <2>2, <2>3, <1>22, <1>run, PathsAssumption DEF RestoreLedger, Position, Progress, Writes, Undoable
  <2> QED BY <2>1, <2>7, <2>8 DEF CommandInv, Sound, Sealed
<1>23. CASE UndoClashed
  <2>1. CASE after = "failed"
    BY <2>1, <1>23, <1>disk DEF UndoClashed, CommandInv
  <2>2. CASE after # "failed"
    BY <2>2, <1>23, <1>undo, <1>own, <1>disk DEF UndoClashed, plan
  <2> QED BY <2>1, <2>2
<1>24. CASE UndoDone
  <2>1. /\ Sound(mem) /\ ledger = mem.was /\ file' = file /\ ledger' = ledger /\ mem' = mem
        /\ \A p \in Writes : Version(file[p]) = mem.was[p]
    BY <1>24, <1>run DEF UndoDone, Progress, plan
  <2>2. \A p \in Paths : Version(file[p]) = ledger[p]
    <3>1. CASE journal = {}
      BY <3>1, <1>inv DEF LedgerMatches
    <3>2. CASE journal = {mem}
      BY <3>2, <2>1, <1>inv DEF JournalInv, Covers, Writes
    <3> QED BY <3>1, <3>2, <1>24, <1>run DEF UndoDone, Position
  <2>3. JournalInv' /\ LedgerMatches'
    BY <2>1, <2>2, <1>24 DEF UndoDone, JournalInv, LedgerMatches
  <2>5. Position' /\ Progress'
    BY <2>1, <1>24, <1>run DEF UndoDone, Position, Progress
  <2> QED BY <2>1, <2>3, <2>5 DEF CommandInv, Sound, Sealed
<1>25. CASE StepFails
  BY <1>25, <1>undo, <1>own, <1>run, <1>disk DEF StepFails, plan, Position, CommandInv
<1>26. CASE Crash
  BY <1>26, <1>disk DEF Crash, CommandInv
<1>27. CASE Commit
  <2>1. JournalInv' /\ LedgerMatches'
    BY <1>27, <1>inv DEF Commit, JournalInv, LedgerMatches, Covers
  <2> QED BY <2>1, <1>27, <1>inv DEF Commit, CommandInv, Position, Progress, Sound, Sealed,
                                   command, plan, walk, Writes, Undoable
<1>28. ASSUME NEW p \in Paths, Edit(p) PROVE JournalInv' /\ LedgerMatches' /\ CommandInv'
  <2>1. \A q \in Paths : Version(file'[q]) = Version(file[q])
    BY <1>28, <1>type DEF Edit, TypeOK, Version
  <2> QED BY <2>1, <1>28, <1>edit DEF Edit
<1>29. ASSUME NEW p \in Paths, TakeBack(p) PROVE JournalInv' /\ LedgerMatches' /\ CommandInv'
  <2>1. \A q \in Paths : Version(file'[q]) = Version(file[q])
    BY <1>29, <1>type DEF TakeBack, TypeOK
  <2> QED BY <2>1, <1>29, <1>edit DEF TakeBack
<1>30. CASE UNCHANGED vars
  BY <1>30, <1>inv, <1>disk DEF vars, CommandInv, Position, Progress, Sound, Sealed,
                         command, plan, walk, disk, Writes, Undoable
<1> QED BY <1>1, <1>2, <1>3, <1>4, <1>5, <1>6, <1>7, <1>8, <1>9, <1>10, <1>11, <1>12,
           <1>13, <1>14, <1>15, <1>16, <1>17, <1>18, <1>19, <1>20, <1>21, <1>22, <1>23,
           <1>24, <1>25, <1>26, <1>27, <1>28, <1>29, <1>30
        DEF IInv, Next, Closure, Rollback, Environment

-----------------------------------------------------------------------------
(* The texts of the users.                                                 *)

LEMMA InitText == Init => TextInv
<1> SUFFICES ASSUME Init PROVE TextInv
  OBVIOUS
<1>1. \A p \in Paths : Text(file[p]) = 0 /\ Text(capture[p]) = 0
  BY DEF Init, Text
<1> QED BY <1>1 DEF Init, TextInv

LEMMA StepText ==
  ASSUME TypeOK, TextInv, [Next]_vars
  PROVE  TextInv'
<1>type. /\ TypeOK' /\ Writes \subseteq Paths /\ edits \in Nat
         /\ \A p \in Paths : Text(file[p]) \in Nat /\ Text(capture[p]) \in Nat
         /\ todo \subseteq Writes \cup {Record}
  BY StepType, VersionType DEF TypeOK, IsJournal, Writes
<1> USE DEF TextInv, disk, plan, walk, bounds, Writes
<1>undo. ASSUME NEW o \in {"retry", "validated", "failed"}, Undo(o),
                UNCHANGED <<disk, cmd, capture, mem, edits>>, pc # "idle",
                o = "failed" \/ cmd # "recover",
                o = "retry" => round' # 0
         PROVE  TextInv'
  BY <1>undo DEF Undo, KeepsText
<1>1. CASE Start
  <2>1. PICK W \in (SUBSET Paths) \ {{}} :
          mem' = Journal(head, Captured(W, file), Candidate(W, file), ledger, {})
    BY <1>1 DEF Start
  <2>2. mem'.before = Captured(W, file) /\ mem'.after = Candidate(W, file)
    BY <2>1, JournalFields
  <2>3. /\ Candidate(W, file) \in [W -> Contents] /\ Captured(W, file) \in [W -> Contents]
        /\ \A p \in W : Captured(W, file)[p] = file[p]
        /\ \A p \in W : Text(Candidate(W, file)[p]) = Text(file[p])
    <3>1. W \in SUBSET Paths
      OBVIOUS
    <3>2. file \in [Paths -> Contents] /\ renders \in Nat
      BY DEF TypeOK
    <3>3. Candidate(W, file) \in [W -> Contents] /\ Captured(W, file) \in [W -> Contents]
      BY ONLY <3>1, <3>2, CandidateType
    <3>4. \A p \in W : Captured(W, file)[p] = file[p]
      BY ONLY <3>1, <3>2, CandidateType
    <3>5. \A p \in W : Text(Candidate(W, file)[p]) = Text(file[p])
      BY ONLY <3>1, <3>2, CandidateType
    <3> QED BY <3>3, <3>4, <3>5
  <2>4. KeepsText(mem') /\ \A p \in DOMAIN mem'.after : Text(mem'.after[p]) = Text(file[p])
    BY <2>2, <2>3, <1>type DEF KeepsText
  <2>5. journal = {} /\ journal' = {} /\ cmd' # "recover" /\ pc' = "begin" /\ capture' = file
        /\ file' = file /\ edits' = edits
    BY <1>1 DEF Start
  <2>6. \A p \in Paths : Text(file'[p]) <= edits' /\ Text(capture'[p]) <= edits' /\ Text(capture'[p]) <= Text(file'[p])
    BY <2>5, <1>type
  <2>7. KeepsText(mem)' /\ \A p \in Writes' : Text(mem'.after[p]) = Text(capture'[p])
    BY <2>4, <2>5, <1>type DEF KeepsText
  <2> QED BY <2>5, <2>6, <2>7
<1>2. CASE Recover
  BY <1>2 DEF Recover, KeepsText
<1>3. CASE Begin
  BY <1>3 DEF Begin, KeepsText
<1>4. CASE SaveJournal
  BY <1>4 DEF SaveJournal, KeepsText
<1>5. ASSUME NEW p \in Paths, WriteFile(p) PROVE TextInv'
  <2>1. p \in Writes /\ cmd # "recover"
    BY <1>5, <1>type, PathsAssumption DEF WriteFile
  <2>2. \A q \in Paths : Text(file'[q]) = IF q = p THEN Text(capture[q]) ELSE Text(file[q])
    BY <1>5, <2>1 DEF WriteFile, TypeOK
  <2> QED BY <1>5, <2>1, <2>2, <1>type DEF WriteFile, KeepsText
<1>6. CASE ChecksPass
  BY <1>6 DEF ChecksPass, KeepsText
<1>7. CASE StabilityFails
  <2>1. round' # 0
    BY <1>7 DEF StabilityFails, TypeOK
  <2> QED BY <2>1, <1>7, <1>undo DEF StabilityFails
<1>8. CASE ChecksFail
  BY <1>8, <1>undo DEF ChecksFail
<1>9. CASE Rerender
  <2>1. PICK W \in SUBSET Writes :
          mem' = Journal(mem.head, Captured(W, file), Candidate(W, capture), mem.was, {})
    BY <1>9 DEF Rerender
  <2>2. mem'.before = Captured(W, file) /\ mem'.after = Candidate(W, capture)
    BY <2>1, JournalFields
  <2>3. /\ Candidate(W, capture) \in [W -> Contents] /\ Captured(W, file) \in [W -> Contents]
        /\ \A p \in W : Captured(W, file)[p] = file[p]
        /\ \A p \in W : Text(Candidate(W, capture)[p]) = Text(capture[p])
    <3>1. W \in SUBSET Paths
      BY <1>type
    <3>2. {file, capture} \subseteq [Paths -> Contents] /\ renders \in Nat
      BY DEF TypeOK
    <3> QED BY <3>1, <3>2, CandidateType
  <2>4. /\ cmd # "recover" /\ edits' = edits
        /\ \A p \in Paths : Text(capture[p]) <= Text(file[p]) /\ Text(file[p]) <= edits
    BY <1>9 DEF Rerender
  <2>5. /\ W \subseteq Paths /\ KeepsText(mem)'
        /\ \A p \in DOMAIN mem'.after : Text(mem'.after[p]) = Text(capture[p])
    BY <2>2, <2>3, <2>4, <1>type DEF KeepsText
  <2>6. /\ UNCHANGED <<file, journal, cmd, capture, after, round, raced>> /\ pc' = "journal"
        /\ round # 0
    BY <1>9 DEF Rerender
  <2>7. \A j \in journal' : KeepsText(j)'
    BY <2>4, <2>6 DEF KeepsText
  <2> QED BY <2>4, <2>5, <2>6, <2>7
<1>10. CASE RenderFails
  BY <1>10, <1>undo DEF RenderFails
<1>11. CASE FinalVerify
  <2>1. CASE cmd = "validate"
    BY <2>1, <1>11, <1>undo DEF FinalVerify
  <2> QED BY <2>1, <1>11 DEF FinalVerify, KeepsText
<1>12. CASE FinalDrift
  BY <1>12, <1>undo DEF FinalDrift
<1>13. CASE Seal
  <2>1. mem'.before = mem.before /\ mem'.after = mem.after
    BY <1>13, JournalFields DEF Seal
  <2> QED BY <1>13, <2>1 DEF Seal, KeepsText
<1>14. CASE LateVerify
  BY <1>14 DEF LateVerify, KeepsText
<1>15. CASE LateDrift
  BY <1>15, <1>undo DEF LateDrift
<1>16. CASE WriteLedger
  BY <1>16 DEF WriteLedger, KeepsText
<1>17. CASE Unjournal
  BY <1>17 DEF Unjournal, KeepsText
<1>18. ASSUME NEW p \in Paths, SkipRestored(p) PROVE TextInv'
  BY <1>18 DEF SkipRestored, KeepsText
<1>19. ASSUME NEW p \in Paths, KeepEdit(p) PROVE TextInv'
  BY <1>19 DEF KeepEdit, KeepsText
<1>20. ASSUME NEW p \in Paths, FindOwn(p) PROVE TextInv'
  BY <1>20 DEF FindOwn, KeepsText
<1>21. ASSUME NEW p \in Paths, PutBack(p) PROVE TextInv'
  <2>1. p \in Writes
    BY <1>21 DEF PutBack, TypeOK
  <2>2. \A q \in Paths : file'[q] = IF q = p THEN mem.before[q] ELSE file[q]
    BY <1>21 DEF PutBack, TypeOK
  <2>3. Text(mem.after[p]) <= Text(mem.before[p]) /\ Text(mem.before[p]) <= edits
    BY <2>1, <1>21 DEF KeepsText, PutBack
  <2>4. KeepsText(mem)' /\ \A j \in journal' : KeepsText(j)'
    BY <1>21 DEF PutBack, KeepsText
  <2>5. cmd # "recover" => \A q \in Paths : Text(capture[q]) <= Text(file'[q])
    <3>1. cmd # "recover" => Text(mem.after[p]) = Text(capture[p])
      BY <2>1, <1>21 DEF PutBack
    <3>2. Text(mem.before[p]) \in Nat /\ Text(mem.after[p]) \in Nat
      BY <2>1, VersionType DEF TypeOK, IsJournal
    <3> QED BY <2>2, <2>3, <3>1, <3>2, <1>21, <1>type DEF PutBack
  <2>6. \A q \in Paths : Text(file'[q]) <= edits
    BY <2>2, <2>3
  <2> QED BY <1>21, <2>4, <2>5, <2>6 DEF PutBack
<1>22. CASE RestoreLedger
  BY <1>22 DEF RestoreLedger, KeepsText
<1>23. CASE UndoClashed
  <2>1. CASE after = "failed"
    BY <2>1, <1>23 DEF UndoClashed, KeepsText
  <2>2. CASE after # "failed"
    BY <2>2, <1>23, <1>undo DEF UndoClashed
  <2> QED BY <2>1, <2>2
<1>24. CASE UndoDone
  BY <1>24 DEF UndoDone, KeepsText
<1>25. CASE StepFails
  BY <1>25, <1>undo DEF StepFails, KeepsText
<1>26. CASE Crash
  BY <1>26 DEF Crash, KeepsText
<1>27. CASE Commit
  BY <1>27 DEF Commit, command, KeepsText
<1>28. ASSUME NEW p \in Paths, Edit(p) PROVE TextInv'
  <2>1. \A q \in Paths : Text(file'[q]) = IF q = p THEN edits + 1 ELSE Text(file[q])
    BY <1>28 DEF Edit, TypeOK, Text
  <2>2. /\ edits' = edits + 1 /\ raced' = raced \cup {p}
        /\ UNCHANGED <<journal, pc, cmd, capture, mem, round, after, at>>
    BY <1>28 DEF Edit, command
  <2>3. \A j : (\A q \in DOMAIN j.after : Text(j.before[q]) \in Nat) /\ KeepsText(j) => KeepsText(j)'
    BY <2>2, <1>type DEF KeepsText
  <2>4. \A j : IsJournal(j) => \A q \in DOMAIN j.after : Text(j.before[q]) \in Nat
    BY VersionType DEF IsJournal
  <2>5. (\A j \in journal' : KeepsText(j)') /\ (pc # "idle" => KeepsText(mem)')
    BY <2>2, <2>3, <2>4 DEF TypeOK, KeepsText
  <2>6. at # p => file'[at] = file[at]
    BY <1>28 DEF Edit, TypeOK
  <2> QED BY <2>1, <2>2, <2>5, <2>6, <1>type
<1>29. ASSUME NEW p \in Paths, TakeBack(p) PROVE TextInv'
  <2>1. PICK j \in journal : /\ p \in DOMAIN j.after
                             /\ \E c \in {j.before[p], j.after[p]} : file' = [file EXCEPT ![p] = c]
    BY <1>29 DEF TakeBack
  <2>2. Text(j.before[p]) \in Nat /\ Text(j.after[p]) \in Nat /\ KeepsText(j)
    BY <2>1, VersionType DEF TypeOK, IsJournal
  <2>3. \A q \in Paths : Text(file'[q]) <= edits
    BY <2>1, <2>2, <1>type DEF KeepsText, TypeOK
  <2> QED BY <2>3, <1>29 DEF TakeBack, command, KeepsText
<1>30. CASE UNCHANGED vars
  BY <1>30 DEF vars, command, KeepsText
<1> QED BY <1>1, <1>2, <1>3, <1>4, <1>5, <1>6, <1>7, <1>8, <1>9, <1>10, <1>11, <1>12,
           <1>13, <1>14, <1>15, <1>16, <1>17, <1>18, <1>19, <1>20, <1>21, <1>22, <1>23,
           <1>24, <1>25, <1>26, <1>27, <1>28, <1>29, <1>30
        DEF Next, Closure, Rollback, Environment

\* Only WriteFile and PutBack replace a file while a command runs.
LEMMA OverwriteStep ==
  ASSUME TypeOK, TextInv, [Next]_vars
  PROVE  OverwritesOnlyRaced
<1> SUFFICES ASSUME pc = "put" \/ (pc = "write" /\ round = 0),
                    NEW p \in Paths, Text(file'[p]) < Text(file[p])
             PROVE  p \in raced
  BY DEF OverwritesOnlyRaced
<1>1. /\ Writes \subseteq Paths /\ Text(file[p]) \in Nat
      /\ \A q \in Writes : Text(mem.after[q]) \in Nat /\ Text(mem.before[q]) \in Nat
  BY VersionType DEF TypeOK, IsJournal, Writes
<1>2. file' # file
  BY <1>1
<1>3. ASSUME NEW q \in Paths, WriteFile(q) PROVE p \in raced
  <2>1. q \in Writes /\ q = p /\ file'[p] = mem.after[p]
    BY <1>3, <1>1, PathsAssumption DEF WriteFile, TypeOK, Writes
  <2>2. cmd # "recover" /\ Text(mem.after[p]) = Text(capture[p])
    BY <2>1, <1>3 DEF WriteFile, TextInv
  <2>3. p \notin raced => Text(file[p]) = Text(capture[p])
    BY <1>3 DEF WriteFile, TextInv
  <2> QED BY <2>1, <2>2, <2>3, <1>1
<1>4. ASSUME NEW q \in Paths, PutBack(q) PROVE p \in raced
  <2>1. q \in Writes /\ q = p /\ file'[p] = mem.before[p] /\ at = p
    BY <1>4, <1>1 DEF PutBack, TypeOK, Writes
  <2>2. Text(mem.after[p]) <= Text(mem.before[p])
    BY <2>1, <1>4 DEF PutBack, TextInv, KeepsText, Writes
  <2>3. p \notin raced => file[p] = mem.after[p]
    BY <2>1, <1>4 DEF PutBack, TextInv
  <2> QED BY <2>1, <2>2, <2>3, <1>1
<1>5. ASSUME NEW q \in Paths, Edit(q) PROVE FALSE
  <2>1. file'[p] = IF p = q THEN <<edits + 1, Version(file[q])>> ELSE file[p]
    BY <1>5 DEF Edit, TypeOK
  <2>2. Text(file[p]) <= edits /\ edits \in Nat
    BY DEF TextInv, TypeOK
  <2> QED BY <2>1, <2>2, <1>1 DEF Text
<1>6. ASSUME NEW q \in Paths, TakeBack(q) PROVE FALSE
  BY <1>6 DEF TakeBack
<1>7. CASE \/ Start \/ Recover \/ Begin \/ SaveJournal \/ Rerender \/ UndoDone \/ Unjournal
           \/ Seal \/ WriteLedger \/ RestoreLedger \/ Commit \/ UNCHANGED vars
  BY <1>7, <1>2 DEF Start, Recover, Begin, SaveJournal, Rerender, UndoDone, Unjournal, Seal,
                    WriteLedger, RestoreLedger, Commit, vars, disk
<1>8. CASE \/ ChecksPass \/ StabilityFails \/ ChecksFail \/ RenderFails \/ FinalVerify
           \/ FinalDrift \/ LateVerify \/ LateDrift \/ UndoClashed \/ StepFails \/ Crash
  BY <1>8, <1>2 DEF ChecksPass, StabilityFails, ChecksFail, RenderFails, FinalVerify,
                    FinalDrift, LateVerify, LateDrift, UndoClashed, StepFails, Crash, disk
<1>9. ASSUME NEW q \in Paths, SkipRestored(q) \/ KeepEdit(q) \/ FindOwn(q) PROVE FALSE
  BY <1>9, <1>2 DEF SkipRestored, KeepEdit, FindOwn, disk
<1> QED BY <1>3, <1>4, <1>5, <1>6, <1>7, <1>8, <1>9
        DEF Next, Closure, Rollback, Environment

-----------------------------------------------------------------------------
(* Theorems.                                                               *)

\* Types, and every path to be written or rolled back is one of the journal's.
THEOREM TypeCorrect == Spec => []TypeOK
<1>1. Init => TypeOK
  BY InitType
<1>2. TypeOK /\ [Next]_vars => TypeOK'
  BY StepType
<1> QED BY <1>1, <1>2, PTL DEF Spec

\* Without a journal the versions on disk are those the ledger records, if a
\* rollback reaches the ledger before any other file.
THEOREM VersionsMatch == ASSUME Early = {} PROVE Spec => []LedgerMatches
<1>1. Init => IInv
  BY InitInv
<1>2. IInv /\ [Next]_vars => IInv'
  BY StepInv
<1>3. IInv => LedgerMatches
  BY DEF IInv
<1> QED BY <1>1, <1>2, <1>3, PTL DEF Spec

\* Candidates and rollbacks overwrite only edits that fell between a comparison
\* and the replacement.
THEOREM EditsKept == Spec => EditsSurvive
<1>1. Init => TypeOK /\ TextInv
  BY InitType, InitText
<1>2. TypeOK /\ TextInv /\ [Next]_vars => (TypeOK /\ TextInv)'
  BY StepType, StepText
<1>3. TypeOK /\ TextInv /\ [Next]_vars => OverwritesOnlyRaced
  BY OverwriteStep
<1> QED BY <1>1, <1>2, <1>3, PTL DEF Spec, EditsSurvive

-----------------------------------------------------------------------------
(* Versions and requirements. *)

\* Less is a strict total order; the mixed forms of transitivity are those the proofs use.
LEMMA LessOrder ==
  ASSUME NEW u \in Versions, NEW v \in Versions, NEW w \in Versions
  PROVE  /\ ~Less(u, u)
         /\ Less(u, v) => ~Less(v, u)
         /\ u = v \/ Less(u, v) \/ Less(v, u)
         /\ Less(u, v) /\ Less(v, w) => Less(u, w)
         /\ ~Less(v, u) /\ ~Less(w, v) => ~Less(w, u)
         /\ Less(u, v) /\ ~Less(w, v) => Less(u, w)
         /\ ~Less(v, u) /\ Less(v, w) => Less(u, w)
BY DEF Versions, Less

\* Later is the greater of two versions.
LEMMA LaterIs ==
  ASSUME NEW v \in Versions, NEW w \in Versions
  PROVE  /\ Later(v, w) \in {v, w} /\ Later(v, w) \in Versions
         /\ ~Less(Later(v, w), v) /\ ~Less(Later(v, w), w)
BY DEF Versions, Less, Later

\* Every bump exceeds its argument.
LEMMA BumpGrows ==
  ASSUME NEW v \in Versions, NEW n \in 1..3
  PROVE  BumpNative(v, n) \in Versions /\ Less(v, BumpNative(v, n))
<1>1. CASE n = 1  BY <1>1 DEF Versions, Less, BumpNative
<1>2. CASE n = 2  BY <1>2 DEF Versions, Less, BumpNative
<1>3. CASE n = 3  BY <1>3 DEF Versions, Less, BumpNative
<1> QED BY <1>1, <1>2, <1>3

\* A bump by the breaking level leaves the caret range of all that came before.
LEMMA BreakingLeaves ==
  ASSUME NEW v \in Versions, NEW u \in Versions, NEW b \in Versions, NEW w \in Versions,
         ~Less(u, v), ~Less(b, u), ~Less(w, BumpNative(b, BreakingLevel(u)))
  PROVE  ~Compatible(v, w)
<1> DEFINE r == [op |-> "^", parts |-> v]
<1>1. r.op = "^" /\ Len(r.parts) = 3 /\ r.parts = v
  BY DEF Versions
<1> HIDE DEF r
<1>2. Lower(r) = v
  BY <1>1 DEF Lower, Part, Versions
<1> DEFINE level == IF v[1] > 0 THEN 3 ELSE IF v[2] > 0 THEN 2 ELSE 1
<1>3. Upper(r) = BumpNative(v, level)
  BY <1>1, <1>2 DEF Upper
<1>4. ~Less(w, BumpNative(v, level))
  BY DEF Versions, Less, BumpNative, BreakingLevel, Unstable
<1> HIDE DEF level
<1>5. Accepts(r, w) => Less(w, Upper(r))
  BY <1>1 DEF Accepts
<1> QED BY <1>3, <1>4, <1>5 DEF Compatible, r

\* A rewritten requirement accepts what it was rewritten for.
LEMMA RewrittenAccepts ==
  ASSUME NEW r \in Requirement, NEW v \in Versions, Rewritable(r)
  PROVE  /\ UpdatedRequirement(r, v) \in Requirement
         /\ Accepts(UpdatedRequirement(r, v), v)
<1> DEFINE s == UpdatedRequirement(r, v)
<1>1. s.op = r.op /\ Len(s.parts) = 3 /\ s.parts = v /\ s.op \in {"=", "^", "~"}
  BY DEF Versions, UpdatedRequirement, Rewritable
<1>2. s \in Requirement
  <2>1. v \in [1..3 -> Nat]
    BY DEF Versions
  <2>2. s.op \in Operators
    BY DEF UpdatedRequirement, Requirement
  <2> QED BY <1>1, <2>1, <2>2 DEF Requirement, UpdatedRequirement
<1>3. Lower(s) = v
  BY <1>1 DEF Lower, Part, Versions
<1> DEFINE level == IF s.op = "~" THEN 2 ELSE IF v[1] > 0 THEN 3 ELSE IF v[2] > 0 THEN 2 ELSE 1
<1>4. Upper(s) = BumpNative(v, level)
  BY <1>1, <1>3 DEF Upper
<1>5. level \in 1..3
  OBVIOUS
<1> HIDE DEF level
<1>6. ~Less(v, v) /\ Less(v, Upper(s))
  BY <1>4, <1>5, BumpGrows, LessOrder
<1> HIDE DEF s
<1>7. Accepts(s, v)
  BY <1>1, <1>3, <1>6 DEF Accepts
<1> QED BY <1>2, <1>7 DEF s

\* What a requirement accepts is an interval.
LEMMA AcceptsBetween ==
  ASSUME NEW r \in Requirement, NEW u \in Versions, NEW v \in Versions, NEW w \in Versions,
         Accepts(r, u), Accepts(r, w), ~Less(v, u), ~Less(w, v)
  PROVE  Accepts(r, v)
<1>1. r.op \in Operators
  BY DEF Requirement
<1>2. PICK n \in 1..3 : r.parts \in [1..n -> Nat]
  BY DEF Requirement
<1>3. Len(r.parts) = n
  BY <1>2
<1>4. \A i \in 1..n : r.parts[i] \in Nat
  BY <1>2
<1>5. Lower(r) \in Versions
  <2>1. \A i \in 1..3 : Part(r, i) \in Nat
    BY <1>3, <1>4 DEF Part
  <2> QED BY <2>1 DEF Lower, Versions
<1>6. Upper(r) \in Versions
  <2>1. \A level \in 1..3 : BumpNative(Lower(r), level) \in Versions
    BY <1>5, BumpGrows
  <2> QED BY <2>1 DEF Upper
<1> HIDE DEF Lower, Upper
<1>7. ASSUME NEW x \in Versions
      PROVE  /\ ~Less(u, x) => ~Less(v, x)
             /\ Less(x, u) => Less(x, v)
             /\ Less(w, x) => Less(v, x)
             /\ ~Less(x, w) => ~Less(x, v)
  BY LessOrder
<1>8. CASE r.op = "="
  <2>1. \A i \in 1..n : u[i] = r.parts[i] /\ w[i] = r.parts[i]
    BY <1>8, <1>3 DEF Accepts
  <2>2. \A i \in 1..n : v[i] = u[i]
    <3>1. CASE n = 1  BY <3>1, <2>1 DEF Versions, Less
    <3>2. CASE n = 2  BY <3>2, <2>1 DEF Versions, Less
    <3>3. CASE n = 3  BY <3>3, <2>1 DEF Versions, Less
    <3> QED BY <3>1, <3>2, <3>3
  <2> QED BY <1>8, <1>3, <2>1, <2>2 DEF Accepts
<1>9. CASE r.op # "="
  BY <1>1, <1>5, <1>6, <1>7, <1>9 DEF Accepts, Operators
<1> QED BY <1>8, <1>9

-----------------------------------------------------------------------------
(* Induction. *)

\* A set of numbers that is not empty has a least one.
LEMMA LeastNumber ==
  ASSUME NEW T, T \subseteq Nat, T # {}
  PROVE  \E n \in T : \A m \in T : n <= m
<1>1. IsWellFoundedOn(OpToRel(<, Nat), Nat)
  BY NatLessThanWellFounded
<1>2. PICK n \in T : \A m \in T : ~(<<m, n>> \in OpToRel(<, Nat))
  BY <1>1, WFMin
<1>3. \A m \in T : ~(m < n)
  BY <1>2 DEF OpToRel
<1> QED BY <1>3

\* What holds of 0 and of the successor of every number it holds of holds of all.
LEMMA Induction ==
  ASSUME NEW T, 0 \in T, \A n \in Nat : n \in T => n + 1 \in T
  PROVE  Nat \subseteq T
<1> SUFFICES ASSUME ~(Nat \subseteq T) PROVE FALSE
  OBVIOUS
<1>1. PICK n \in Nat \ T : \A m \in Nat \ T : n <= m
  BY LeastNumber
<1>2. n # 0 /\ n - 1 \in Nat /\ n - 1 \in T
  BY <1>1
<1> QED BY <1>1, <1>2

\* The same up to a bound.
LEMMA InductionTo ==
  ASSUME NEW k \in Nat, NEW T, 0 \in T, \A n \in 0..(k - 1) : n \in T => n + 1 \in T
  PROVE  0..k \subseteq T
<1> SUFFICES ASSUME ~(0..k \subseteq T) PROVE FALSE
  OBVIOUS
<1>1. PICK n \in (0..k) \ T : \A m \in (0..k) \ T : n <= m
  <2>1. (0..k) \ T \subseteq Nat /\ (0..k) \ T # {}
    OBVIOUS
  <2> QED BY <2>1, LeastNumber
<1>2. n # 0 /\ n - 1 \in 0..(k - 1) /\ n - 1 \in T
  BY <1>1
<1> QED BY <1>1, <1>2

-----------------------------------------------------------------------------
(* Reachability. *)

\* How many rounds Reach goes through.
Rounds == Cardinality(Packages)

\* Reach goes through a finite number of rounds.
LEMMA RoundsType == Rounds \in Nat
  BY PackagesAssumption, FS_CardinalityType DEF Rounds

\* How Reach has a chain of sets grow.
Grown(g, S, step, k) ==
  [n \in 0..k |-> IF n = 0 THEN S ELSE LET prior == g[n - 1] IN prior \cup step[prior]]

\* There is one that grows that way.
LEMMA GrownExists ==
  ASSUME NEW S, NEW step, NEW k \in Nat
  PROVE  \E g : g = Grown(g, S, step, k)
<1> DEFINE Is(g, n) == g = [i \in 0..n |-> IF i = 0 THEN S ELSE g[i - 1] \cup step[g[i - 1]]]
           T == {n \in Nat : \E g : Is(g, n)}
<1>1. 0 \in T
  <2>1. Is([i \in 0..0 |-> S], 0)
    OBVIOUS
  <2> QED BY <2>1
<1>2. ASSUME NEW n \in Nat, n \in T PROVE n + 1 \in T
  <2>1. PICK f : Is(f, n)
    BY <1>2
  <2> DEFINE g == [i \in 0..(n + 1) |-> IF i = n + 1 THEN f[n] \cup step[f[n]] ELSE f[i]]
  <2>2. ASSUME NEW i \in 0..(n + 1)
        PROVE  g[i] = IF i = 0 THEN S ELSE g[i - 1] \cup step[g[i - 1]]
    <3>1. CASE i = n + 1  BY <3>1
    <3>2. CASE i \in 1..n
      <4>1. i \in 0..n /\ i - 1 \in 0..n /\ i # 0 /\ i # n + 1 /\ i - 1 # n + 1
        BY <3>2
      <4>2. f[i] = f[i - 1] \cup step[f[i - 1]]
        BY <4>1, <2>1
      <4>3. g[i] = f[i] /\ g[i - 1] = f[i - 1]
        BY <4>1
      <4> HIDE DEF g, Is
      <4> QED BY <4>1, <4>2, <4>3
    <3>3. CASE i = 0  BY <3>3, <2>1
    <3> QED BY <3>1, <3>2, <3>3
  <2>3. Is(g, n + 1)
    BY <2>2
  <2> HIDE DEF g, Is
  <2> QED BY <2>3
<1> HIDE DEF T
<1>3. k \in T
  BY <1>1, <1>2, Induction
<1> QED BY <1>3 DEF T, Grown

\* Reach is the last of a chain of sets, each what the step adds to the one before.
LEMMA ReachChain ==
  ASSUME NEW S \in SUBSET Packages, NEW step \in [SUBSET Packages -> SUBSET Packages]
  PROVE  \E g \in [0..Rounds -> SUBSET Packages] :
            /\ g[0] = S /\ g[Rounds] = Reach(S, step)
            /\ \A n \in 0..(Rounds - 1) : g[n + 1] = g[n] \cup step[g[n]]
<1> DEFINE g == CHOOSE f : f = Grown(f, S, step, Rounds)
<1>1. Rounds \in Nat
  BY RoundsType
<1>2. g = Grown(g, S, step, Rounds)
  <2>1. \E f : f = Grown(f, S, step, Rounds)
    BY <1>1, GrownExists
  <2> QED BY <2>1
<1>3. Reach(S, step) = g[Rounds]
  BY DEF Reach, Rounds, Grown
<1> HIDE DEF g
<1>4. g[0] = S
  BY <1>1, <1>2 DEF Grown
<1>5. ASSUME NEW n \in 0..(Rounds - 1) PROVE g[n + 1] = g[n] \cup step[g[n]]
  <2>1. n + 1 \in 0..Rounds /\ n + 1 # 0 /\ (n + 1) - 1 = n
    BY <1>1
  <2> QED BY <1>2, <2>1 DEF Grown
<1> DEFINE T == {n \in 0..Rounds : g[n] \in SUBSET Packages}
<1>6. 0..Rounds \subseteq T
  <2>1. 0 \in T
    BY <1>1, <1>4
  <2>2. ASSUME NEW n \in 0..(Rounds - 1), n \in T PROVE n + 1 \in T
    BY <1>1, <1>5, <2>2
  <2> HIDE DEF T
  <2> QED BY <1>1, <2>1, <2>2, InductionTo
<1>7. g \in [0..Rounds -> SUBSET Packages]
  <2>1. g = [n \in 0..Rounds |-> g[n]]
    BY <1>2 DEF Grown
  <2> QED BY <1>6, <2>1
<1> QED BY <1>3, <1>4, <1>5, <1>7

\* In a chain every set holds those before it.
LEMMA ChainGrows ==
  ASSUME NEW k \in Nat, NEW X, NEW g \in [0..k -> SUBSET X],
         \A n \in 0..(k - 1) : g[n] \subseteq g[n + 1]
  PROVE  \A m \in 0..k : \A n \in 0..m : g[n] \subseteq g[m]
<1> DEFINE T == {m \in 0..k : \A n \in 0..m : g[n] \subseteq g[m]}
<1>1. 0 \in T
  OBVIOUS
<1>2. ASSUME NEW m \in 0..(k - 1), m \in T PROVE m + 1 \in T
  <2>1. \A n \in 0..m : g[n] \subseteq g[m + 1]
    BY <1>2
  <2> QED BY <2>1
<1> HIDE DEF T
<1>3. 0..k \subseteq T
  BY <1>1, <1>2, InductionTo
<1> QED BY <1>3 DEF T

\* Reach keeps what it starts from and stays within the packages.
LEMMA ReachHolds ==
  ASSUME NEW S \in SUBSET Packages, NEW step \in [SUBSET Packages -> SUBSET Packages]
  PROVE  S \subseteq Reach(S, step) /\ Reach(S, step) \in SUBSET Packages
<1>1. PICK g \in [0..Rounds -> SUBSET Packages] :
         /\ g[0] = S /\ g[Rounds] = Reach(S, step)
         /\ \A n \in 0..(Rounds - 1) : g[n + 1] = g[n] \cup step[g[n]]
  BY ReachChain
<1>2. \A m \in 0..Rounds : \A n \in 0..m : g[n] \subseteq g[m]
  <2>1. \A n \in 0..(Rounds - 1) : g[n] \subseteq g[n + 1]
    BY <1>1
  <2> QED BY <2>1, RoundsType, ChainGrows
<1> QED BY <1>1, <1>2, RoundsType

\* The two steps that Reach takes along the edges.
Targets(S) == {e[2] : e \in {f \in Edges : f[1] \in S}}
Owners(S) == {e[1] : e \in {f \in Edges : f[2] \in S}}

\* The two ways along the edges map sets of packages to sets of packages.
LEMMA EdgeEnds ==
  /\ \A e \in Edges : e[1] \in Packages /\ e[2] \in Packages
  /\ [S \in SUBSET Packages |-> Targets(S)] \in [SUBSET Packages -> SUBSET Packages]
  /\ [S \in SUBSET Packages |-> Owners(S)] \in [SUBSET Packages -> SUBSET Packages]
<1>1. \A e \in Edges : e[1] \in Packages /\ e[2] \in Packages
  BY EdgesAssumption
<1> QED BY <1>1 DEF Targets, Owners

\* What a package depends on, and what depends on any of a set.
LEMMA ScopeHolds ==
  /\ \A p \in Packages : p \in DependencyScope[p] /\ DependencyScope[p] \in SUBSET Packages
  /\ \A S \in SUBSET Packages : S \subseteq Consumers(S) /\ Consumers(S) \in SUBSET Packages
<1>1. ASSUME NEW p \in Packages
      PROVE  p \in DependencyScope[p] /\ DependencyScope[p] \in SUBSET Packages
  BY EdgeEnds, ReachHolds DEF DependencyScope, Targets
<1>2. ASSUME NEW S \in SUBSET Packages
      PROVE  S \subseteq Consumers(S) /\ Consumers(S) \in SUBSET Packages
  BY EdgeEnds, ReachHolds DEF Consumers, Owners
<1> QED BY <1>1, <1>2

\* Whatever depends on a member of a set is among the set's consumers.
LEMMA DependentsConsume ==
  ASSUME NEW S \in SUBSET Packages, NEW p \in Packages, NEW q \in DependencyScope[p], q \in S
  PROVE  p \in Consumers(S)
<1>1. PICK d \in [0..Rounds -> SUBSET Packages] :
         /\ d[0] = {p} /\ d[Rounds] = DependencyScope[p]
         /\ \A n \in 0..(Rounds - 1) : d[n + 1] = d[n] \cup Targets(d[n])
  <2>1. \E g \in [0..Rounds -> SUBSET Packages] :
            /\ g[0] = {p} /\ g[Rounds] = Reach({p}, [T \in SUBSET Packages |-> Targets(T)])
            /\ \A n \in 0..(Rounds - 1) :
                  g[n + 1] = g[n] \cup [T \in SUBSET Packages |-> Targets(T)][g[n]]
    <3> DEFINE along == [T \in SUBSET Packages |-> Targets(T)]
    <3>1. {p} \in SUBSET Packages
      OBVIOUS
    <3>2. along \in [SUBSET Packages -> SUBSET Packages]
      BY EdgeEnds
    <3> HIDE DEF along
    <3>3. \E g \in [0..Rounds -> SUBSET Packages] :
             /\ g[0] = {p} /\ g[Rounds] = Reach({p}, along)
             /\ \A n \in 0..(Rounds - 1) : g[n + 1] = g[n] \cup along[g[n]]
      BY <3>1, <3>2, ReachChain
    <3> QED BY <3>3 DEF along
  <2>2. DependencyScope[p] = Reach({p}, [T \in SUBSET Packages |-> Targets(T)])
    BY DEF DependencyScope, Targets
  <2>3. \A g \in [0..Rounds -> SUBSET Packages] : \A n \in 0..(Rounds - 1) : g[n] \in SUBSET Packages
    BY RoundsType
  <2> QED BY <2>1, <2>2, <2>3
<1>2. PICK c \in [0..Rounds -> SUBSET Packages] :
         /\ c[0] = S /\ c[Rounds] = Consumers(S)
         /\ \A n \in 0..(Rounds - 1) : c[n + 1] = c[n] \cup Owners(c[n])
  <2>1. \E g \in [0..Rounds -> SUBSET Packages] :
            /\ g[0] = S /\ g[Rounds] = Reach(S, [T \in SUBSET Packages |-> Owners(T)])
            /\ \A n \in 0..(Rounds - 1) :
                  g[n + 1] = g[n] \cup [T \in SUBSET Packages |-> Owners(T)][g[n]]
    <3> DEFINE along == [T \in SUBSET Packages |-> Owners(T)]
    <3>1. along \in [SUBSET Packages -> SUBSET Packages]
      BY EdgeEnds
    <3> HIDE DEF along
    <3>2. \E g \in [0..Rounds -> SUBSET Packages] :
             /\ g[0] = S /\ g[Rounds] = Reach(S, along)
             /\ \A n \in 0..(Rounds - 1) : g[n + 1] = g[n] \cup along[g[n]]
      BY <3>1, ReachChain
    <3> QED BY <3>2 DEF along
  <2>2. Consumers(S) = Reach(S, [T \in SUBSET Packages |-> Owners(T)])
    BY DEF Consumers, Owners
  <2>3. \A g \in [0..Rounds -> SUBSET Packages] : \A n \in 0..(Rounds - 1) : g[n] \in SUBSET Packages
    BY RoundsType
  <2> QED BY <2>1, <2>2, <2>3
\* After m rounds back from S, the rest of a path from p is at most k long.
<1> DEFINE T == {k \in 0..Rounds :
                   \A x \in d[k] : \A m \in 0..(Rounds - k) : x \in c[m] => p \in c[m + k]}
<1>3. 0 \in T
  BY <1>1, RoundsType
<1>4. ASSUME NEW k \in 0..(Rounds - 1), k \in T PROVE k + 1 \in T
  <2>3. k + 1 \in 0..Rounds
    BY RoundsType
  <2> SUFFICES ASSUME NEW x \in d[k + 1], NEW m \in 0..(Rounds - (k + 1)), x \in c[m]
               PROVE  p \in c[m + (k + 1)]
    BY <2>3
  <2>4. m \in Nat /\ k \in Nat /\ m <= Rounds - (k + 1)
    BY RoundsType
  <2>1. m \in 0..(Rounds - 1) /\ m + 1 \in 0..(Rounds - k) /\ (m + 1) + k = m + (k + 1)
    BY <2>4, RoundsType
  <2>2. \E y \in d[k] : y \in c[m + 1]
    <3>1. CASE x \in d[k]
      BY <3>1, <2>1, <1>2
    <3>2. CASE \E e \in Edges : e[1] \in d[k] /\ e[2] = x
      <4>1. PICK e \in Edges : e[1] \in d[k] /\ e[2] = x
        BY <3>2
      <4>2. e[1] \in Owners(c[m])
        BY <4>1 DEF Owners
      <4> QED BY <4>1, <4>2, <2>1, <1>2
    <3> QED BY <3>1, <3>2, <1>1 DEF Targets
  <2> QED BY <1>4, <2>1, <2>2
<1> HIDE DEF T
<1>5. 0..Rounds \subseteq T
  BY <1>3, <1>4, InductionTo, RoundsType
<1> QED BY <1>1, <1>2, <1>5, RoundsType DEF T

-----------------------------------------------------------------------------
(* The audit. *)

\* How Audit goes through a history.
Audited(a, h, k) ==
  [i \in 1..k |-> IF i = 1 THEN AuditStart(h) ELSE AuditStep(h, i, a[i - 1])]

\* Audit defines a function for every history.
LEMMA AuditedExists ==
  ASSUME NEW h, NEW k \in Nat
  PROVE  \E a : a = Audited(a, h, k)
<1> DEFINE T == {n \in Nat : \E a : a = Audited(a, h, n)}
<1>1. 0 \in T
  <2>1. \A a : Audited(a, h, 0) = [i \in 1..0 |-> 0]
    BY DEF Audited
  <2> QED BY <2>1
<1>2. ASSUME NEW n \in Nat, n \in T PROVE n + 1 \in T
  <2>1. PICK f : f = Audited(f, h, n)
    BY <1>2
  <2> DEFINE Last == IF n = 0 THEN AuditStart(h) ELSE AuditStep(h, n + 1, f[n])
             g == [i \in 1..(n + 1) |-> IF i = n + 1 THEN Last ELSE f[i]]
  <2>2. ASSUME NEW i \in 1..(n + 1)
        PROVE  g[i] = IF i = 1 THEN AuditStart(h) ELSE AuditStep(h, i, g[i - 1])
    <3>1. CASE i = n + 1
      <4>1. i # 1 => g[i - 1] = f[n]
        BY <3>1
      <4> QED BY <3>1, <4>1
    <3>2. CASE i \in 1..n
      <4>1. i # n + 1 /\ (i # 1 => i - 1 \in 1..n /\ i - 1 # n + 1)
        BY <3>2
      <4>2. g[i] = f[i] /\ (i # 1 => g[i - 1] = f[i - 1])
        BY <4>1
      <4>3. f[i] = IF i = 1 THEN AuditStart(h) ELSE AuditStep(h, i, f[i - 1])
        BY <3>2, <2>1 DEF Audited
      <4> HIDE DEF g
      <4> QED BY <4>2, <4>3
    <3> QED BY <3>1, <3>2
  <2>3. g = Audited(g, h, n + 1)
    <3>1. g = [i \in 1..(n + 1) |-> g[i]]
      OBVIOUS
    <3> HIDE DEF g
    <3> QED BY <2>2, <3>1 DEF Audited
  <2> HIDE DEF g
  <2> QED BY <2>3
<1> HIDE DEF T
<1>3. k \in T
  BY <1>1, <1>2, Induction
<1> QED BY <1>3 DEF T

\* The audit of a history ends a chain of steps, one for every commit.
LEMMA AuditChain ==
  ASSUME NEW h \in Seq(Releases), h # <<>>
  PROVE  \E a : /\ a[1] = AuditStart(h) /\ Audit(h) = a[Len(h)]
                /\ \A i \in 2..Len(h) : a[i] = AuditStep(h, i, a[i - 1])
<1> DEFINE a == CHOOSE f : f = Audited(f, h, Len(h))
<1>1. Len(h) \in Nat \ {0}
  OBVIOUS
<1>2. a = Audited(a, h, Len(h))
  <2>1. \E f : f = Audited(f, h, Len(h))
    BY <1>1, AuditedExists
  <2> QED BY <2>1
<1>3. Audit(h) = a[Len(h)]
  BY DEF Audit, Audited
<1> HIDE DEF a
<1>4. a[1] = AuditStart(h)
  BY <1>1, <1>2 DEF Audited
<1>5. ASSUME NEW i \in 2..Len(h) PROVE a[i] = AuditStep(h, i, a[i - 1])
  <2>1. i \in 1..Len(h) /\ i # 1
    BY <1>1
  <2> QED BY <2>1, <1>2 DEF Audited
<1> QED BY <1>3, <1>4, <1>5

\* What an audit may say.
Audits == [ok : BOOLEAN, boundary : Nat, formal : SUBSET Nat, latest : Nat,
           product : Versions, floor : [Packages -> Versions]]

\* What an audit of the first n commits may name.
Within(audit, n) ==
  audit \in Audits /\ audit.boundary = n /\ audit.formal \subseteq 1..n /\ audit.latest \in 1..n

\* The fields of a commit of a history.
LEMMA ReleaseParts ==
  ASSUME NEW h \in Seq(Releases), NEW i \in 1..Len(h)
  PROVE  /\ h[i] \in Releases /\ h[i].tree \in Trees
         /\ h[i].restored \in Nat /\ h[i].withdrawn \in Nat
<1>1. h[i] \in Releases
  OBVIOUS
<1> QED BY <1>1 DEF Releases

\* The fields of a tree.
LEMMA TreeParts ==
  ASSUME NEW t \in Trees
  PROVE  /\ t.version \in [Packages -> Versions] /\ t.content \in [Packages -> Nat]
         /\ t.req \in [Edges -> Requirement] /\ t.lock \in [Packages -> Nat]
         /\ t.inherited \in SUBSET Packages /\ t.other \in Nat /\ t.product \in Versions
         /\ t.ledger \in Seq(Entries)
BY DEF Trees

\* Where the first step starts, and what every other does.
LEMMA StartWithin ==
  ASSUME NEW h \in Seq(Releases), h # <<>>
  PROVE  Within(AuditStart(h), 1)
<1>1. h[1].tree.product \in Versions
  BY ReleaseParts, TreeParts
<1>2. [p \in Packages |-> NoVersion] \in [Packages -> Versions]
  BY DEF NoVersion, Versions
<1> QED BY <1>1, <1>2 DEF Within, Audits, AuditStart

\* What a step of the audit does to every field, for a version that goes down and one
\* that does not.
LEMMA StepFields ==
  ASSUME NEW h, NEW i, NEW audit \in Audits
  PROVE  LET now == h[i].tree.product
             new == AuditStep(h, i, audit)
         IN  /\ new.boundary = i
             /\ Less(now, h[i - 1].tree.product) =>
                  /\ new.ok = (audit.ok /\ Restores(h, i, audit))
                  /\ new.formal = audit.formal /\ new.latest = audit.latest
                  /\ new.product = audit.product
                  /\ new.floor = IF h[i].withdrawn \in audit.formal
                                 THEN Raised(audit.floor, h[h[i].withdrawn].tree)
                                 ELSE audit.floor
             /\ ~Less(now, h[i - 1].tree.product) =>
                  /\ new.ok = (audit.ok /\ Less(audit.product, now))
                  /\ new.formal = audit.formal \cup {i} /\ new.latest = i
                  /\ new.product = now /\ new.floor = audit.floor
             /\ new = [ok |-> new.ok, boundary |-> new.boundary, formal |-> new.formal,
                       latest |-> new.latest, product |-> new.product, floor |-> new.floor]
<1> DEFINE now == h[i].tree.product
           new == AuditStep(h, i, audit)
<1>1. audit = [ok |-> audit.ok, boundary |-> audit.boundary, formal |-> audit.formal,
               latest |-> audit.latest, product |-> audit.product, floor |-> audit.floor]
  BY DEF Audits
<1>2. CASE Less(now, h[i - 1].tree.product)
  BY <1>1, <1>2 DEF AuditStep
<1>3. CASE ~Less(now, h[i - 1].tree.product)
  BY <1>1, <1>3 DEF AuditStep
<1> QED BY <1>2, <1>3

\* The floor after a withdrawal.
LEMMA RaisedTyped ==
  ASSUME NEW f \in [Packages -> Versions], NEW t \in Trees
  PROVE  /\ Raised(f, t) \in [Packages -> Versions]
         /\ \A p \in Packages : Raised(f, t)[p] = Later(f[p], t.version[p])
BY TreeParts, LaterIs DEF Raised

\* A step of the audit names only commits up to its own.
LEMMA StepWithin ==
  ASSUME NEW h \in Seq(Releases), NEW i \in 2..Len(h), NEW audit, Within(audit, i - 1)
  PROVE  Within(AuditStep(h, i, audit), i)
<1> DEFINE new == AuditStep(h, i, audit)
<1>1. audit \in Audits /\ audit.formal \subseteq 1..(i - 1) /\ audit.latest \in 1..(i - 1)
  BY DEF Within
<1>2. /\ audit.ok \in BOOLEAN /\ audit.product \in Versions /\ audit.floor \in [Packages -> Versions]
      /\ audit.formal \in SUBSET Nat
  BY <1>1 DEF Audits
<1>3. h[i].tree.product \in Versions
  BY ReleaseParts, TreeParts
<1>4. new.floor \in [Packages -> Versions]
  <2>1. CASE Less(h[i].tree.product, h[i - 1].tree.product) /\ h[i].withdrawn \in audit.formal
    <3>1. h[h[i].withdrawn].tree \in Trees
      BY <1>1, <2>1, ReleaseParts
    <3> QED BY <1>1, <1>2, <2>1, <3>1, RaisedTyped, StepFields
  <2>2. CASE ~(Less(h[i].tree.product, h[i - 1].tree.product) /\ h[i].withdrawn \in audit.formal)
    BY <1>1, <1>2, <2>2, StepFields
  <2> QED BY <2>1, <2>2
<1>5. /\ new.boundary = i /\ new.ok \in BOOLEAN /\ new.formal \subseteq 1..i
      /\ new.latest \in 1..i /\ new.product \in Versions
  <2> HIDE DEF new
  <2>1. CASE Less(h[i].tree.product, h[i - 1].tree.product)
    <3>1. new.boundary = i /\ new.ok = (audit.ok /\ Restores(h, i, audit))
      BY <1>1, <2>1, StepFields DEF new
    <3>2. new.formal = audit.formal /\ new.latest = audit.latest /\ new.product = audit.product
      BY <1>1, <2>1, StepFields DEF new
    <3>3. new.ok \in BOOLEAN
      BY <3>1
    <3> QED BY <1>1, <1>2, <3>1, <3>2, <3>3
  <2>2. CASE ~Less(h[i].tree.product, h[i - 1].tree.product)
    <3>1. new.boundary = i /\ new.ok = (audit.ok /\ Less(audit.product, h[i].tree.product))
      BY <1>1, <2>2, StepFields DEF new
    <3>2. new.formal = audit.formal \cup {i} /\ new.latest = i /\ new.product = h[i].tree.product
      BY <1>1, <2>2, StepFields DEF new
    <3>3. new.ok \in BOOLEAN
      BY <3>1
    <3> QED BY <1>1, <1>3, <3>1, <3>2, <3>3
  <2> QED BY <2>1, <2>2
<1>6. new = [ok |-> new.ok, boundary |-> new.boundary, formal |-> new.formal,
             latest |-> new.latest, product |-> new.product, floor |-> new.floor]
  BY <1>1, StepFields
<1>7. i \in Nat /\ new.formal \in SUBSET Nat /\ new.latest \in Nat
  BY <1>5
<1> HIDE DEF new
<1>8. new \in Audits
  BY <1>4, <1>5, <1>6, <1>7 DEF Audits
<1> QED BY <1>5, <1>8 DEF Within, new

\* So does a chain of steps.
LEMMA ChainWithin ==
  ASSUME NEW h \in Seq(Releases), h # <<>>, NEW a, a[1] = AuditStart(h),
         \A i \in 2..Len(h) : a[i] = AuditStep(h, i, a[i - 1])
  PROVE  \A i \in 1..Len(h) : Within(a[i], i)
<1> DEFINE n == Len(h)
           T == {k \in 0..(n - 1) : Within(a[k + 1], k + 1)}
<1>1. n \in Nat \ {0}
  OBVIOUS
<1>2. 0 \in T
  BY <1>1, StartWithin
<1>3. ASSUME NEW k \in 0..(n - 2), k \in T PROVE k + 1 \in T
  <2>1. k + 2 \in 2..n /\ (k + 2) - 1 = k + 1 /\ (k + 1) + 1 = k + 2 /\ k + 1 \in 0..(n - 1)
    BY <1>1
  <2>2. Within(AuditStep(h, k + 2, a[k + 1]), k + 2)
    BY <1>3, <2>1, StepWithin
  <2> QED BY <2>1, <2>2
<1> HIDE DEF T
<1>4. 0..(n - 1) \subseteq T
  <2>1. n - 1 \in Nat /\ (n - 1) - 1 = n - 2
    BY <1>1
  <2> QED BY <2>1, <1>2, <1>3, InductionTo
<1>5. ASSUME NEW i \in 1..n PROVE Within(a[i], i)
  <2>1. i - 1 \in T /\ (i - 1) + 1 = i
    BY <1>1, <1>4
  <2> QED BY <2>1 DEF T
<1> QED BY <1>5

\* An audit names commits of the history, the last one as its boundary.
LEMMA AuditWithin ==
  ASSUME NEW h \in Seq(Releases), h # <<>>
  PROVE  Within(Audit(h), Len(h)) /\ Boundary(h) = h[Len(h)].tree
<1>1. Within(Audit(h), Len(h))
  <2>1. Len(h) \in 1..Len(h)
    OBVIOUS
  <2> QED BY <2>1, AuditChain, ChainWithin
<1> QED BY <1>1 DEF Within, Boundary

\* A step looks at no commit after its own.
LEMMA StepSame ==
  ASSUME NEW h \in Seq(Releases), NEW x \in Releases, NEW i \in 2..Len(h),
         NEW audit, Within(audit, i - 1)
  PROVE  AuditStep(Append(h, x), i, audit) = AuditStep(h, i, audit)
<1> DEFINE g == Append(h, x)
<1>1. \A j \in 1..Len(h) : g[j] = h[j]
  OBVIOUS
<1>2. audit.formal \subseteq 1..(i - 1) /\ audit.latest \in 1..(i - 1)
  BY DEF Within
<1>3. 1..(i - 1) \subseteq 1..Len(h) /\ i \in 1..Len(h) /\ i - 1 \in 1..Len(h)
  OBVIOUS
<1>4. g[i] = h[i] /\ g[i - 1] = h[i - 1] /\ g[audit.latest] = h[audit.latest]
  BY <1>1, <1>2, <1>3
<1>5. \A j \in audit.formal : g[j] = h[j]
  BY <1>1, <1>2, <1>3
<1> HIDE DEF g
<1>6. Restores(g, i, audit) = Restores(h, i, audit)
  BY <1>4, <1>5 DEF Restores
<1>7. AuditStep(g, i, audit) = AuditStep(h, i, audit)
  BY <1>4, <1>5, <1>6 DEF AuditStep
<1> QED BY <1>7 DEF g

\* One commit more is one step more.
LEMMA AuditAppend ==
  ASSUME NEW h \in Seq(Releases), h # <<>>, NEW x \in Releases
  PROVE  Audit(Append(h, x)) = AuditStep(Append(h, x), Len(h) + 1, Audit(h))
<1> DEFINE g == Append(h, x)
           n == Len(h)
<1>1. /\ g \in Seq(Releases) /\ g # <<>> /\ Len(g) = n + 1 /\ n \in Nat \ {0}
      /\ \A j \in 1..n : g[j] = h[j]
  OBVIOUS
<1>2. PICK a : /\ a[1] = AuditStart(h) /\ Audit(h) = a[n]
               /\ \A i \in 2..n : a[i] = AuditStep(h, i, a[i - 1])
  BY AuditChain
<1>3. PICK b : /\ b[1] = AuditStart(g) /\ Audit(g) = b[n + 1]
               /\ \A i \in 2..(n + 1) : b[i] = AuditStep(g, i, b[i - 1])
  <2> HIDE DEF g
  <2> QED BY <1>1, AuditChain
<1>4. \A i \in 1..n : Within(a[i], i)
  BY <1>2, ChainWithin
<1> DEFINE T == {k \in 0..(n - 1) : b[k + 1] = a[k + 1]}
<1>5. 0 \in T
  <2>1. g[1] = h[1] /\ 0 \in 0..(n - 1) /\ 0 + 1 = 1
    BY <1>1
  <2> HIDE DEF g
  <2>2. AuditStart(g) = AuditStart(h)
    BY <2>1 DEF AuditStart
  <2> QED BY <1>2, <1>3, <2>1, <2>2
<1>6. ASSUME NEW k \in 0..(n - 2), k \in T PROVE k + 1 \in T
  <2>1. /\ k + 2 \in 2..n /\ k + 2 \in 2..(n + 1) /\ (k + 2) - 1 = k + 1 /\ (k + 1) + 1 = k + 2
        /\ k + 1 \in 0..(n - 1) /\ k + 1 \in 1..n
    BY <1>1
  <2>2. b[k + 2] = AuditStep(g, k + 2, a[k + 1])
    BY <1>3, <1>6, <2>1
  <2>3. a[k + 2] = AuditStep(h, k + 2, a[k + 1])
    BY <1>2, <2>1
  <2>4. Within(a[k + 1], (k + 2) - 1)
    BY <1>4, <2>1
  <2>5. AuditStep(g, k + 2, a[k + 1]) = AuditStep(h, k + 2, a[k + 1])
    BY <2>1, <2>4, StepSame
  <2> QED BY <2>1, <2>2, <2>3, <2>5
<1>7. n - 1 \in T
  <2> HIDE DEF T
  <2>1. n - 1 \in Nat /\ (n - 1) - 1 = n - 2 /\ n - 1 \in 0..(n - 1)
    BY <1>1
  <2>2. 0..(n - 1) \subseteq T
    BY <2>1, <1>5, <1>6, InductionTo
  <2> QED BY <2>1, <2>2
<1>8. b[n] = a[n]
  <2>1. (n - 1) + 1 = n
    BY <1>1
  <2> QED BY <1>7, <2>1
<1>9. n + 1 \in 2..(n + 1) /\ (n + 1) - 1 = n
  BY <1>1
<1> HIDE DEF g, T
<1> QED BY <1>2, <1>3, <1>8, <1>9 DEF g

-----------------------------------------------------------------------------
(* The choice of a version. *)

\* Bumps keep the order.
LEMMA BumpMonotone ==
  ASSUME NEW u \in Versions, NEW v \in Versions, ~Less(v, u), NEW n \in 1..3
  PROVE  ~Less(BumpNative(v, n), BumpNative(u, n))
<1>1. CASE n = 1  BY <1>1 DEF Versions, Less, BumpNative
<1>2. CASE n = 2  BY <1>2 DEF Versions, Less, BumpNative
<1>3. CASE n = 3  BY <1>3 DEF Versions, Less, BumpNative
<1> QED BY <1>1, <1>2, <1>3

\* Nothing that is bumped below 1.0.0 gets past it.
LEMMA BumpStable ==
  ASSUME NEW v \in Versions, Less(v, Stable), NEW n \in 1..3
  PROVE  ~Less(Stable, BumpNative(v, n))
<1>1. CASE n = 1  BY <1>1 DEF Versions, Less, BumpNative, Stable
<1>2. CASE n = 2  BY <1>2 DEF Versions, Less, BumpNative, Stable
<1>3. CASE n = 3  BY <1>3 DEF Versions, Less, BumpNative, Stable
<1> QED BY <1>1, <1>2, <1>3

\* 1.0.0 is above exactly the versions that are unstable.
LEMMA StableIs ==
  /\ Stable \in Versions /\ NoVersion \in Versions
  /\ \A v \in Versions : Less(v, Stable) <=> Unstable(v)
BY DEF Versions, Less, Stable, Unstable, NoVersion

\* What a choice that is not refused is like: current is the version in the tree,
\* floor the highest withdrawn one.
Fits(current, floor, breaking, version, fallback) ==
  /\ Less(current, fallback) /\ Less(floor, fallback) /\ ~Less(version, fallback)
  /\ breaking => ~Less(fallback, BumpNative(current, BreakingLevel(current)))

\* A package that is only validated anew, at the version it has.
Revalidated(ctx, q, p) ==
  p \notin q.force /\ (p \in q.mechanical \/ UnchangedContent(ctx.tree, ctx.base, p))

\* A choice that is not refused leaves a version alone or raises it past the version and
\* the floor of its package, and past the breaking bump if the change breaks.
LEMMA ChoiceFits ==
  ASSUME NEW ctx, NEW request, NEW q, NEW p,
         ctx.tree.version[p] \in Versions, ctx.floor[p] \in Versions,
         request.analysis[p] \in Analyses
  PROVE  LET c       == Choice(ctx, request, q, p)
             current == ctx.tree.version[p]
         IN  /\ c.version \in Versions /\ c.fallback \in Versions /\ c.level \in 0..3
             /\ c.stability \in {"none", "eligible"}
             /\ ~c.refused =>
                  IF c.level = 0
                  THEN c.version = current /\ c.fallback = current /\ Revalidated(ctx, q, p)
                  ELSE Fits(current, ctx.floor[p], request.analysis[p].breaking,
                            c.version, c.fallback)
<1> DEFINE current == ctx.tree.version[p]
           a       == request.analysis[p]
           floor   == ctx.floor[p]
           c       == Choice(ctx, request, q, p)
           revalid == Revalidated(ctx, q, p)
           base    == Later(current, floor)
           minimum == BumpNative(base, a.level)
           explicit == a.target # NoVersion
           target  == IF revalid THEN current ELSE IF explicit THEN a.target ELSE minimum
           promote == Unstable(current) /\ ~revalid /\ ~a.breaking /\ p \in Contracted
           final   == IF promote THEN Stable ELSE target
<1>1. /\ a.level \in 1..3 /\ a.breaking \in BOOLEAN /\ a.target \in Versions
      /\ current \in Versions /\ floor \in Versions
  BY DEF Analyses
<1>2. /\ c.version = final /\ c.fallback = target
      /\ c.level = IF revalid THEN 0 ELSE a.level
      /\ c.stability = IF promote THEN "eligible" ELSE "none"
  BY DEF Choice, Revalidated
<1>3. ~c.refused =>
        /\ a.breaking => a.level = BreakingLevel(current)
        /\ explicit /\ Unstable(current) => Unstable(a.target)
        /\ explicit /\ ~revalid => Less(base, a.target) /\ ~Less(a.target, minimum)
        /\ ~revalid => Less(floor, final)
  BY DEF Choice, Revalidated
<1> HIDE DEF c, revalid
<1>4. base \in Versions /\ ~Less(base, current) /\ ~Less(base, floor) /\ base \in {current, floor}
  BY <1>1, LaterIs
<1>5. minimum \in Versions /\ Less(base, minimum)
  BY <1>1, <1>4, BumpGrows
<1>6. target \in Versions /\ final \in Versions
  BY <1>1, <1>5, StableIs
<1> HIDE DEF current, a, floor, base, minimum
<1>7. ASSUME ~c.refused, ~revalid
      PROVE  Fits(current, floor, a.breaking, final, target)
  <2>1. Less(base, target) /\ ~Less(target, minimum)
    BY <1>1, <1>3, <1>5, <1>7, LessOrder
  <2>2. Less(current, target) /\ Less(floor, target)
    BY <1>1, <1>4, <1>6, <2>1, LessOrder
  <2>3. ~Less(final, target)
    <3>1. CASE ~promote
      BY <1>6, <3>1, LessOrder
    <3>2. CASE promote /\ explicit
      <4>1. Less(target, Stable)
        BY <1>1, <1>3, <1>7, <3>2, StableIs
      <4> QED BY <1>6, <3>2, <4>1, StableIs, LessOrder
    <3>3. CASE promote /\ ~explicit
      <4>1. Less(floor, Stable) /\ Less(current, Stable)
        BY <1>1, <1>3, <1>7, <3>3, StableIs
      <4>2. Less(base, Stable)
        BY <1>4, <4>1
      <4>3. ~Less(Stable, BumpNative(base, a.level))
        BY <1>1, <1>4, <4>2, BumpStable
      <4> QED BY <1>7, <3>3, <4>3 DEF minimum
    <3> QED BY <3>1, <3>2, <3>3
  <2>4. ASSUME a.breaking
        PROVE  ~Less(target, BumpNative(current, BreakingLevel(current)))
    <3>1. a.level = BreakingLevel(current)
      BY <1>3, <1>7, <2>4
    <3>2. ~Less(minimum, BumpNative(current, a.level))
      BY <1>1, <1>4, BumpMonotone DEF minimum
    <3>3. BumpNative(current, a.level) \in Versions
      BY <1>1, BumpGrows
    <3>4. ~Less(target, BumpNative(current, a.level))
      BY <1>5, <1>6, <2>1, <3>2, <3>3, LessOrder
    <3> QED BY <3>1, <3>4
  <2> HIDE DEF target, final
  <2> QED BY <2>2, <2>3, <2>4 DEF Fits
<1>8. ASSUME revalid PROVE final = current /\ target = current
  BY <1>8
<1>9. /\ c.version \in Versions /\ c.fallback \in Versions /\ c.level \in 0..3
      /\ c.stability \in {"none", "eligible"}
  <2> HIDE DEF target, final
  <2> QED BY <1>1, <1>2, <1>6
<1>10. ~c.refused => IF c.level = 0 THEN c.version = current /\ c.fallback = current /\ revalid
                     ELSE Fits(current, floor, a.breaking, c.version, c.fallback)
  <2> HIDE DEF target, final
  <2> QED BY <1>1, <1>2, <1>7, <1>8
<1> QED BY <1>9, <1>10 DEF c, current, a, floor, revalid

-----------------------------------------------------------------------------
(* The rounds of a develop. *)

\* The types of the arguments of a develop, and of its plan.
Contexts == [tree : Trees, base : Trees, floor : [Packages -> Versions], lost : SUBSET Packages]

Tasks == [scope : SUBSET Packages, impacts : SUBSET Edges, analysis : [Packages -> Analyses]]

Plans == [affected : SUBSET Packages, direct : SUBSET Packages, force : SUBSET Packages,
          mechanical : SUBSET Packages, version : [Packages -> Versions],
          fallback : [Packages -> Versions], level : [Packages -> 0..3],
          stability : [Packages -> {"none", "eligible", "passed", "remains"}],
          stable : BOOLEAN, error : {"none", "nothing", "refused", "outside scope", "diverged"}]

\* The fields of a context.
LEMMA ContextParts ==
  ASSUME NEW ctx \in Contexts
  PROVE  /\ ctx.tree \in Trees /\ ctx.base \in Trees /\ ctx.floor \in [Packages -> Versions]
         /\ ctx.lost \in SUBSET Packages
BY DEF Contexts

\* The fields of a request.
LEMMA TaskParts ==
  ASSUME NEW request \in Tasks
  PROVE  /\ request.scope \in SUBSET Packages /\ request.impacts \in SUBSET Edges
         /\ request.analysis \in [Packages -> Analyses]
BY DEF Tasks

\* The fields of a plan.
LEMMA PlanParts ==
  ASSUME NEW q \in Plans
  PROVE  /\ q.affected \in SUBSET Packages /\ q.direct \in SUBSET Packages
         /\ q.force \in SUBSET Packages /\ q.mechanical \in SUBSET Packages
         /\ q.version \in [Packages -> Versions] /\ q.fallback \in [Packages -> Versions]
         /\ q.level \in [Packages -> 0..3]
         /\ q.stability \in [Packages -> {"none", "eligible", "passed", "remains"}]
         /\ q.stable \in BOOLEAN
         /\ q.error \in {"none", "nothing", "refused", "outside scope", "diverged"}
         /\ q = [affected |-> q.affected, direct |-> q.direct, force |-> q.force,
                 mechanical |-> q.mechanical, version |-> q.version, fallback |-> q.fallback,
                 level |-> q.level, stability |-> q.stability, stable |-> q.stable,
                 error |-> q.error]
BY DEF Plans

\* Every package stays at the version it has or is given one that fits.
Fitting(ctx, request, q) ==
  \A p \in Packages :
    IF q.level[p] = 0
    THEN q.version[p] = ctx.tree.version[p] /\ q.fallback[p] = ctx.tree.version[p]
    ELSE p \in q.affected /\ Fits(ctx.tree.version[p], ctx.floor[p], request.analysis[p].breaking,
                                  q.version[p], q.fallback[p])

\* The owners of the requirements a plan rewrites.
OwnersOf(t, q) == RequirementOwners(t, Render(t, q.affected, q.version))

\* The packages whose version a plan moves, and those that are closed and drawn in
\* because the plan moves a version they are built with.
Moved(t, q) == {p \in Packages : q.version[p] # t.version[p]}

Drawn(t, q, p) == Recorded(t, p) /\ DependencyScope[p] \cap Moved(t, q) # {}

\* What the last round leaves.
Settled(ctx, q) ==
  /\ ~CannotFollow(ctx.tree, q.affected, q.version)
  /\ OwnersOf(ctx.tree, q) \subseteq q.force \cap q.affected
  /\ \A p \in q.affected : q.level[p] = 0 => Revalidated(ctx, q, p)
  /\ ctx.tree.inherited \subseteq q.affected
  /\ \A p \in Packages : Drawn(ctx.tree, q, p) => p \in q.affected

\* What holds of a plan in every round: where it comes from, and that no package taken in
\* mechanically was affected at first.
Planned(ctx, request, first, direct, q) ==
  /\ q \in Plans /\ q.direct = direct /\ first \cup direct \subseteq q.affected
  /\ q.mechanical \cap first = {} /\ q.error # "diverged"
  /\ q.error = "none" => Fitting(ctx, request, q) /\ q.force \subseteq q.affected
  /\ q.error = "none" /\ q.stable => Settled(ctx, q)

\* The choices of a round.
ChoicesOf(ctx, request, q) == [p \in q.affected |-> Choice(ctx, request, q, p)]

\* A round gives the affected packages the versions that were chosen, and no others.
LEMMA ChosenParts ==
  ASSUME NEW ctx \in Contexts, NEW request \in Tasks, NEW q \in Plans
  PROVE  LET new == Chosen(request, q, ChoicesOf(ctx, request, q))
             c(p) == Choice(ctx, request, q, p)
         IN  /\ new \in Plans
             /\ new.affected = q.affected /\ new.direct = q.direct /\ new.force = q.force
             /\ new.mechanical = q.mechanical /\ new.stable = q.stable
             /\ \A p \in Packages :
                  /\ new.version[p] = IF p \in q.affected THEN c(p).version ELSE q.version[p]
                  /\ new.fallback[p] = IF p \in q.affected THEN c(p).fallback ELSE q.fallback[p]
                  /\ new.level[p] = IF p \in q.affected THEN c(p).level ELSE q.level[p]
             /\ new.error # "diverged"
             /\ new.error = "none" => q.affected \subseteq request.scope
                                    /\ \A p \in q.affected : ~c(p).refused
<1> DEFINE c(p) == Choice(ctx, request, q, p)
           choice == ChoicesOf(ctx, request, q)
           new == Chosen(request, q, choice)
           field(name) == [p \in Packages |-> IF p \in q.affected THEN choice[p][name] ELSE q[name][p]]
           err == CASE ~(q.affected \subseteq request.scope) -> "outside scope"
                    [] \E p \in q.affected : choice[p].refused -> "refused"
                    [] OTHER -> "none"
<1>1. \A p \in q.affected : choice[p] = c(p)
  BY DEF ChoicesOf
<1>2. \A p \in q.affected :
        /\ c(p).version \in Versions /\ c(p).fallback \in Versions /\ c(p).level \in 0..3
        /\ c(p).stability \in {"none", "eligible"}
  <2> TAKE p \in q.affected
  <2> HIDE DEF c
  <2>0. p \in Packages
    BY PlanParts
  <2>1. ctx.tree.version[p] \in Versions /\ ctx.floor[p] \in Versions
    BY <2>0, ContextParts, TreeParts
  <2>2. request.analysis[p] \in Analyses
    BY <2>0, TaskParts
  <2> USE DEF c
  <2> QED BY <2>1, <2>2, ChoiceFits
<1>3. new = [affected |-> q.affected, direct |-> q.direct, force |-> q.force,
             mechanical |-> q.mechanical, version |-> field("version"),
             fallback |-> field("fallback"), level |-> field("level"),
             stability |-> field("stability"), stable |-> q.stable, error |-> err]
  <2> DEFINE q1 == [q EXCEPT !.error = err]
             q2 == [q1 EXCEPT !.version = field("version")]
             q3 == [q2 EXCEPT !.fallback = field("fallback")]
             q4 == [q3 EXCEPT !.level = field("level")]
             q5 == [q4 EXCEPT !.stability = field("stability")]
  <2>0. new = q5
    BY DEF Chosen
  <2> HIDE DEF choice, field, err, new
  <2>1. q = [affected |-> q.affected, direct |-> q.direct, force |-> q.force,
             mechanical |-> q.mechanical, version |-> q.version, fallback |-> q.fallback,
             level |-> q.level, stability |-> q.stability, stable |-> q.stable,
             error |-> q.error]
    BY PlanParts
  <2>2. q1 = [affected |-> q.affected, direct |-> q.direct, force |-> q.force,
              mechanical |-> q.mechanical, version |-> q.version, fallback |-> q.fallback,
              level |-> q.level, stability |-> q.stability, stable |-> q.stable,
              error |-> err]
    BY <2>1
  <2> HIDE DEF q1
  <2>3. q2 = [affected |-> q.affected, direct |-> q.direct, force |-> q.force,
              mechanical |-> q.mechanical, version |-> field("version"),
              fallback |-> q.fallback, level |-> q.level, stability |-> q.stability,
              stable |-> q.stable, error |-> err]
    BY <2>2
  <2> HIDE DEF q2
  <2>4. q3 = [affected |-> q.affected, direct |-> q.direct, force |-> q.force,
              mechanical |-> q.mechanical, version |-> field("version"),
              fallback |-> field("fallback"), level |-> q.level, stability |-> q.stability,
              stable |-> q.stable, error |-> err]
    BY <2>3
  <2> HIDE DEF q3
  <2>5. q4 = [affected |-> q.affected, direct |-> q.direct, force |-> q.force,
              mechanical |-> q.mechanical, version |-> field("version"),
              fallback |-> field("fallback"), level |-> field("level"),
              stability |-> q.stability, stable |-> q.stable, error |-> err]
    BY <2>4
  <2> HIDE DEF q4
  <2>6. q5 = [affected |-> q.affected, direct |-> q.direct, force |-> q.force,
              mechanical |-> q.mechanical, version |-> field("version"),
              fallback |-> field("fallback"), level |-> field("level"),
              stability |-> field("stability"), stable |-> q.stable, error |-> err]
    BY <2>5
  <2> HIDE DEF q5
  <2> QED BY <2>0, <2>6
<1>4. /\ field("version") \in [Packages -> Versions] /\ field("fallback") \in [Packages -> Versions]
      /\ field("level") \in [Packages -> 0..3]
      /\ field("stability") \in [Packages -> {"none", "eligible", "passed", "remains"}]
  <2> HIDE DEF choice, c
  <2>1. q.version \in [Packages -> Versions] /\ q.fallback \in [Packages -> Versions]
        /\ q.level \in [Packages -> 0..3]
        /\ q.stability \in [Packages -> {"none", "eligible", "passed", "remains"}]
    BY PlanParts
  <2> QED BY <1>1, <1>2, <2>1
<1>5. /\ err \in {"none", "refused", "outside scope"}
      /\ err = "none" => q.affected \subseteq request.scope /\ \A p \in q.affected : ~c(p).refused
  <2> HIDE DEF choice, c
  <2> QED BY <1>1
<1>6. \A p \in Packages :
         /\ field("version")[p] = IF p \in q.affected THEN c(p).version ELSE q.version[p]
         /\ field("fallback")[p] = IF p \in q.affected THEN c(p).fallback ELSE q.fallback[p]
         /\ field("level")[p] = IF p \in q.affected THEN c(p).level ELSE q.level[p]
  <2> HIDE DEF choice, c
  <2> QED BY <1>1
<1> HIDE DEF choice, c, field, err, new
<1>7. new \in Plans
  BY <1>3, <1>4, <1>5, PlanParts DEF Plans
<1>8. /\ new.affected = q.affected /\ new.direct = q.direct /\ new.force = q.force
      /\ new.mechanical = q.mechanical /\ new.stable = q.stable /\ new.error = err
      /\ new.version = field("version") /\ new.fallback = field("fallback")
      /\ new.level = field("level")
  BY <1>3
<1>9. ASSUME NEW p \in Packages
      PROVE  /\ new.version[p] = IF p \in q.affected THEN c(p).version ELSE q.version[p]
             /\ new.fallback[p] = IF p \in q.affected THEN c(p).fallback ELSE q.fallback[p]
             /\ new.level[p] = IF p \in q.affected THEN c(p).level ELSE q.level[p]
  BY <1>6, <1>8
<1>10. /\ new.error # "diverged"
       /\ new.error = "none" => q.affected \subseteq request.scope /\ \A p \in q.affected : ~c(p).refused
  BY <1>5, <1>8
<1> QED BY <1>7, <1>8, <1>9, <1>10 DEF new, c, choice

\* Rendering only adds packages to a plan, and comes to rest when it adds none.
LEMMA RenderedParts ==
  ASSUME NEW t \in Trees, NEW q \in Plans, NEW owners \in SUBSET Packages
  PROVE  LET new == Rendered(t, q, owners)
         IN  /\ new \in Plans
             /\ new.direct = q.direct /\ q.affected \subseteq new.affected
             /\ new.force = q.force \cup owners /\ new.version = q.version
             /\ new.fallback = q.fallback /\ new.level = q.level
             /\ q.mechanical \subseteq new.mechanical
             /\ (new.mechanical \ q.mechanical) \cap q.affected = {}
             /\ new.error = "none" => q.error = "none" /\ ~CannotFollow(t, q.affected, q.version)
             /\ new.error # "diverged" \/ q.error = "diverged"
             /\ new.stable <=> new.affected = q.affected /\ owners \subseteq q.force
             /\ owners \cup t.inherited \cup Moved(t, q) \subseteq new.affected
             /\ \A p \in Packages : Drawn(t, q, p) => p \in new.affected
             /\ \A p \in new.affected :
                   \/ p \in q.affected \cup owners
                   \/ Drawn(t, q, p)
                   \/ p \in new.mechanical \cap (t.inherited \cup Moved(t, q))
<1> DEFINE changed == {p \in Packages : q.version[p] # t.version[p]}
           written == (owners \cup t.inherited \cup changed) \ (q.affected \cup owners)
           locked  == {p \in Packages : Recorded(t, p) /\ DependencyScope[p] \cap changed # {}}
           next    == q.affected \cup owners \cup written \cup locked
           err     == IF q.error = "none" /\ CannotFollow(t, q.affected, q.version)
                      THEN "refused" ELSE q.error
           forced  == q.force \cup owners
           known   == q.mechanical \cup written
           rests   == Rests(q, next, owners)
           new     == Rendered(t, q, owners)
<1>1. new = [affected |-> next, direct |-> q.direct, force |-> forced,
             mechanical |-> known, version |-> q.version,
             fallback |-> q.fallback, level |-> q.level, stability |-> q.stability,
             stable |-> rests, error |-> err]
  <2> DEFINE q1 == [q EXCEPT !.error = err]
             q2 == [q1 EXCEPT !.force = forced]
             q3 == [q2 EXCEPT !.mechanical = known]
             q4 == [q3 EXCEPT !.affected = next]
             q5 == [q4 EXCEPT !.stable = rests]
  <2>0. new = q5
    BY DEF Rendered
  <2> HIDE DEF next, written, err, forced, known, rests, new
  <2>1. q = [affected |-> q.affected, direct |-> q.direct, force |-> q.force,
             mechanical |-> q.mechanical, version |-> q.version, fallback |-> q.fallback,
             level |-> q.level, stability |-> q.stability, stable |-> q.stable,
             error |-> q.error]
    BY PlanParts
  <2>2. q1 = [affected |-> q.affected, direct |-> q.direct, force |-> q.force,
              mechanical |-> q.mechanical, version |-> q.version, fallback |-> q.fallback,
              level |-> q.level, stability |-> q.stability, stable |-> q.stable,
              error |-> err]
    BY <2>1
  <2> HIDE DEF q1
  <2>3. q2 = [affected |-> q.affected, direct |-> q.direct, force |-> forced,
              mechanical |-> q.mechanical, version |-> q.version, fallback |-> q.fallback,
              level |-> q.level, stability |-> q.stability, stable |-> q.stable,
              error |-> err]
    BY <2>2
  <2> HIDE DEF q2
  <2>4. q3 = [affected |-> q.affected, direct |-> q.direct, force |-> forced,
              mechanical |-> known, version |-> q.version,
              fallback |-> q.fallback, level |-> q.level, stability |-> q.stability,
              stable |-> q.stable, error |-> err]
    BY <2>3
  <2> HIDE DEF q3
  <2>5. q4 = [affected |-> next, direct |-> q.direct, force |-> forced,
              mechanical |-> known, version |-> q.version,
              fallback |-> q.fallback, level |-> q.level, stability |-> q.stability,
              stable |-> q.stable, error |-> err]
    BY <2>4
  <2> HIDE DEF q4
  <2>6. q5 = [affected |-> next, direct |-> q.direct, force |-> forced,
              mechanical |-> known, version |-> q.version,
              fallback |-> q.fallback, level |-> q.level, stability |-> q.stability,
              stable |-> rests, error |-> err]
    BY <2>5
  <2> HIDE DEF q5
  <2> QED BY <2>0, <2>6
<1>2. changed \subseteq Packages /\ locked \subseteq Packages /\ t.inherited \subseteq Packages
  BY TreeParts
<1>10. changed = Moved(t, q) /\ \A p \in Packages : p \in locked <=> Drawn(t, q, p)
  BY DEF Moved, Drawn
<1> HIDE DEF changed, locked
<1>3. next \in SUBSET Packages /\ written \in SUBSET Packages /\ written \cap q.affected = {}
      /\ q.affected \subseteq next /\ owners \subseteq next
  BY <1>2, PlanParts
<1>11. owners \cup t.inherited \cup changed \subseteq next /\ locked \subseteq next
  OBVIOUS
<1>12. \A p \in next : \/ p \in q.affected \cup owners \cup locked
                        \/ p \in written \cap (t.inherited \cup changed)
  OBVIOUS
<1> HIDE DEF next, written
<1>4. Rests(q, next, owners) <=> next = q.affected /\ owners \subseteq q.force
  BY DEF Rests
<1>5. Rests(q, next, owners) \in BOOLEAN
  BY DEF Rests
<1>6. err \in {"none", "nothing", "refused", "outside scope", "diverged"}
      /\ (err = "none" => q.error = "none" /\ ~CannotFollow(t, q.affected, q.version))
      /\ (err # "diverged" \/ q.error = "diverged")
  BY PlanParts
<1> HIDE DEF err, new
<1>7. new \in Plans
  BY <1>1, <1>3, <1>5, <1>6, PlanParts DEF Plans
<1>8. /\ new.affected = next /\ new.direct = q.direct /\ new.force = q.force \cup owners
      /\ new.mechanical = q.mechanical \cup written /\ new.version = q.version
      /\ new.fallback = q.fallback /\ new.level = q.level
      /\ new.stable = Rests(q, next, owners) /\ new.error = err
  BY <1>1
<1>9. (new.mechanical \ q.mechanical) \cap q.affected = {}
  BY <1>3, <1>8
<1>13. new.stable <=> new.affected = q.affected /\ owners \subseteq q.force
  BY <1>3, <1>4, <1>8
<1>14. /\ owners \cup t.inherited \cup Moved(t, q) \subseteq new.affected
       /\ \A p \in Packages : Drawn(t, q, p) => p \in new.affected
  BY <1>8, <1>10, <1>11
<1>15. \A p \in new.affected :
          \/ p \in q.affected \cup owners
          \/ Drawn(t, q, p)
          \/ p \in new.mechanical \cap (t.inherited \cup Moved(t, q))
  BY <1>3, <1>8, <1>10, <1>12
<1> QED BY <1>3, <1>6, <1>7, <1>8, <1>9, <1>13, <1>14, <1>15 DEF new

\* The owners of rewritten requirements are packages.
LEMMA OwnersTyped ==
  \A t, req : RequirementOwners(t, req) \in SUBSET Packages
BY EdgeEnds DEF RequirementOwners

\* A round keeps a plan sound, and one that comes to rest settles it.
LEMMA RoundPlanned ==
  ASSUME NEW ctx \in Contexts, NEW request \in Tasks, NEW first, NEW direct, NEW q,
         Planned(ctx, request, first, direct, q), q.error = "none"
  PROVE  Planned(ctx, request, first, direct, Round(ctx, request, q))
<1> DEFINE t   == ctx.tree
           ch  == Chosen(request, q, ChoicesOf(ctx, request, q))
           owners == OwnersOf(t, ch)
           new == Rendered(t, ch, owners)
           c(p) == Choice(ctx, request, q, p)
<1>1. /\ q \in Plans /\ q.direct = direct /\ first \cup direct \subseteq q.affected
      /\ q.mechanical \cap first = {}
  BY DEF Planned
<1>2. q.affected \in SUBSET Packages /\ t \in Trees
  BY <1>1, PlanParts, ContextParts
<1>3. /\ ch \in Plans /\ ch.affected = q.affected /\ ch.direct = q.direct /\ ch.force = q.force
      /\ ch.mechanical = q.mechanical
      /\ \A p \in Packages :
            /\ ch.version[p] = IF p \in q.affected THEN c(p).version ELSE q.version[p]
            /\ ch.fallback[p] = IF p \in q.affected THEN c(p).fallback ELSE q.fallback[p]
            /\ ch.level[p] = IF p \in q.affected THEN c(p).level ELSE q.level[p]
      /\ ch.error # "diverged"
      /\ ch.error = "none" => \A p \in q.affected : ~c(p).refused
  BY <1>1, ChosenParts
<1>4. Round(ctx, request, q) = new
  BY <1>3 DEF Round, ChoicesOf, OwnersOf
<1>5. owners \in SUBSET Packages
  BY OwnersTyped DEF OwnersOf
<1> HIDE DEF ch, owners, t
<1>6. /\ new \in Plans
      /\ new.direct = ch.direct /\ ch.affected \subseteq new.affected
      /\ new.force = ch.force \cup owners /\ new.version = ch.version
      /\ new.fallback = ch.fallback /\ new.level = ch.level
      /\ ch.mechanical \subseteq new.mechanical
      /\ (new.mechanical \ ch.mechanical) \cap ch.affected = {}
      /\ new.error = "none" => ch.error = "none" /\ ~CannotFollow(t, ch.affected, ch.version)
      /\ new.error # "diverged" \/ ch.error = "diverged"
      /\ new.stable => new.affected = ch.affected /\ owners \subseteq ch.force
      /\ owners \cup t.inherited \subseteq new.affected
      /\ \A p \in Packages : Drawn(t, ch, p) => p \in new.affected
  BY <1>2, <1>3, <1>5, RenderedParts
<1> HIDE DEF new
<1>7. ASSUME NEW p \in q.affected, ~c(p).refused
      PROVE  IF c(p).level = 0
             THEN c(p).version = t.version[p] /\ c(p).fallback = t.version[p] /\ Revalidated(ctx, q, p)
             ELSE Fits(t.version[p], ctx.floor[p], request.analysis[p].breaking,
                       c(p).version, c(p).fallback)
  <2>1. p \in Packages
    BY <1>2
  <2>2. /\ ctx.tree.version[p] \in Versions /\ ctx.floor[p] \in Versions
        /\ request.analysis[p] \in Analyses
    BY <2>1, ContextParts, TaskParts, TreeParts
  <2> QED BY <2>2, <1>7, ChoiceFits DEF t
<1> HIDE DEF c
<1>8. ASSUME new.error = "none" PROVE Fitting(ctx, request, new)
  <2>1. \A p \in q.affected : ~c(p).refused
    BY <1>3, <1>6, <1>8
  <2>2. ASSUME NEW p \in Packages
        PROVE  IF new.level[p] = 0
               THEN new.version[p] = t.version[p] /\ new.fallback[p] = t.version[p]
               ELSE p \in new.affected /\ Fits(t.version[p], ctx.floor[p],
                        request.analysis[p].breaking, new.version[p], new.fallback[p])
    <3>1. CASE p \in q.affected
      BY <3>1, <2>1, <1>3, <1>6, <1>7
    <3>2. CASE p \notin q.affected
      <4>1. Fitting(ctx, request, q)
        BY <1>8 DEF Planned
      <4>2. q.level[p] = 0 /\ q.version[p] = t.version[p] /\ q.fallback[p] = t.version[p]
        BY <3>2, <4>1 DEF Fitting, t
      <4> QED BY <3>2, <4>2, <1>3, <1>6
    <3> QED BY <3>1, <3>2
  <2> QED BY <2>2 DEF Fitting, t
<1>9. ASSUME new.error = "none", new.stable PROVE Settled(ctx, new)
  <2>1. ~CannotFollow(t, new.affected, new.version)
    BY <1>6, <1>9
  <2>2. OwnersOf(t, new) = owners /\ owners \subseteq new.force \cap new.affected
    <3>1. new.affected = ch.affected /\ new.version = ch.version
      BY <1>6, <1>9
    <3>2. OwnersOf(t, new) = owners
      BY <3>1 DEF OwnersOf, owners
    <3>3. owners \subseteq new.force \cap new.affected
      BY <1>6, <1>9
    <3> QED BY <3>2, <3>3
  <2>3. ASSUME NEW p \in new.affected, new.level[p] = 0 PROVE Revalidated(ctx, new, p)
    <3>1. p \in q.affected /\ p \in Packages /\ new.force = q.force
      BY <1>2, <1>3, <1>6, <1>9
    <3>2. ~c(p).refused /\ c(p).level = 0
      BY <3>1, <2>3, <1>3, <1>6, <1>9
    <3>3. Revalidated(ctx, q, p)
      BY <3>1, <3>2, <1>7
    <3>4. q.mechanical \subseteq new.mechanical
      BY <1>3, <1>6
    <3> QED BY <3>1, <3>3, <3>4 DEF Revalidated
  <2>4. Moved(t, new) = Moved(t, ch)
    BY <1>6 DEF Moved
  <2>5. t.inherited \subseteq new.affected /\ \A p \in Packages : Drawn(t, new, p) => p \in new.affected
    BY <1>6, <2>4 DEF Drawn
  <2> QED BY <2>1, <2>2, <2>3, <2>5 DEF Settled, t
<1>10. new.mechanical \cap first = {} /\ new.error # "diverged"
  BY <1>1, <1>3, <1>6
<1>11. new.error = "none" => new.force \subseteq new.affected
  <2>1. q.force \subseteq q.affected
    BY DEF Planned
  <2> QED BY <2>1, <1>3, <1>6
<1> QED BY <1>1, <1>3, <1>4, <1>6, <1>8, <1>9, <1>10, <1>11 DEF Planned
-----------------------------------------------------------------------------
(* A prepared plan. *)

\* How Prepare goes from round to round.
Prepared(r, ctx, request, start, k) ==
  [n \in 0..k |->
     IF n = 0 THEN start
     ELSE LET q == r[n - 1]
          IN  IF q.stable \/ q.error # "none" THEN q ELSE Round(ctx, request, q)]

\* The chain of k steps from a start; F gives each step.
Iterated(r, start, F, k) == [n \in 0..k |-> IF n = 0 THEN start ELSE F[n][r[n - 1]]]

\* Steps that stay in a set have a chain in it.
LEMMA ChainExists ==
  ASSUME NEW X, NEW start \in X, NEW F \in [Nat -> [X -> X]], NEW k \in Nat
  PROVE  \E r \in [0..k -> X] : r = Iterated(r, start, F, k)
<1> DEFINE T == {n \in Nat : \E r \in [0..n -> X] : r = Iterated(r, start, F, n)}
<1>1. 0 \in T
  <2> DEFINE r == [i \in 0..0 |-> start]
  <2>1. r \in [0..0 -> X] /\ r = Iterated(r, start, F, 0)
    BY DEF Iterated
  <2> QED BY <2>1
<1>2. ASSUME NEW n \in Nat, n \in T PROVE n + 1 \in T
  <2>1. PICK f \in [0..n -> X] : f = Iterated(f, start, F, n)
    BY <1>2
  <2> DEFINE g == [i \in 0..(n + 1) |-> IF i = n + 1 THEN F[n + 1][f[n]] ELSE f[i]]
  <2>2. ASSUME NEW i \in 0..(n + 1)
        PROVE  g[i] = (IF i = 0 THEN start ELSE F[i][g[i - 1]]) /\ g[i] \in X
    <3>1. CASE i = n + 1
      <4>1. g[i] = F[i][f[n]] /\ g[i - 1] = f[n] /\ i # 0 /\ i \in Nat /\ f[n] \in X
        BY <3>1
      <4> HIDE DEF g
      <4> QED BY <4>1
    <3>2. CASE i \in 0..n
      <4>1. i # n + 1 /\ (i # 0 => i - 1 \in 0..n /\ i - 1 # n + 1)
        BY <3>2
      <4>2. g[i] = f[i] /\ (i # 0 => g[i - 1] = f[i - 1]) /\ f[i] \in X
        BY <3>2, <4>1
      <4>3. f[i] = IF i = 0 THEN start ELSE F[i][f[i - 1]]
        BY <3>2, <2>1 DEF Iterated
      <4> HIDE DEF g
      <4> QED BY <4>2, <4>3
    <3> QED BY <3>1, <3>2
  <2>3. g = [i \in 0..(n + 1) |-> g[i]]
    OBVIOUS
  <2> HIDE DEF g
  <2>4. g = Iterated(g, start, F, n + 1)
    BY <2>2, <2>3 DEF Iterated
  <2>5. g \in [0..(n + 1) -> X]
    BY <2>2, <2>3
  <2> QED BY <2>4, <2>5
<1> HIDE DEF T
<1>3. k \in T
  BY <1>1, <1>2, Induction
<1> QED BY <1>3 DEF T

\* What Prepare does in one more round, and the plans it goes through.
NextRound(ctx, request, q) == IF q.stable \/ q.error # "none" THEN q ELSE Round(ctx, request, q)

RoundsOf(ctx, request, start, k) == CHOOSE r : r = Prepared(r, ctx, request, start, k)

\* A set of plans that the rounds stay in.
StaysIn(ctx, request, X) == \A q \in X : NextRound(ctx, request, q) \in X

\* A chain of rounds within a set of plans.
ChainIn(r, ctx, request, start, k, X) ==
  /\ r[0] = start
  /\ \A n \in 0..k : r[n] \in X
  /\ \A n \in 0..(k - 1) : r[n + 1] = NextRound(ctx, request, r[n])

\* The plans that Prepare goes through are a chain in any set that its rounds stay in.
LEMMA PreparedChain ==
  ASSUME NEW ctx, NEW request, NEW k \in Nat, NEW X, NEW start \in X,
         StaysIn(ctx, request, X)
  PROVE  ChainIn(RoundsOf(ctx, request, start, k), ctx, request, start, k, X)
<1> DEFINE r == RoundsOf(ctx, request, start, k)
           step(q) == NextRound(ctx, request, q)
           F == [n \in Nat |-> [q \in X |-> step(q)]]
<1>1. r = Prepared(r, ctx, request, start, k)
  <2>1. F \in [Nat -> [X -> X]]
    BY DEF StaysIn
  <2> HIDE DEF F
  <2>2. PICK f \in [0..k -> X] : f = Iterated(f, start, F, k)
    BY <2>1, ChainExists
  <2>3. ASSUME NEW n \in 0..k, n # 0 PROVE F[n][f[n - 1]] = step(f[n - 1])
    <3>1. n \in Nat /\ n - 1 \in 0..k
      BY <2>3
    <3> QED BY <3>1 DEF F
  <2> HIDE DEF step
  <2>4. f = [n \in 0..k |-> IF n = 0 THEN start ELSE step(f[n - 1])]
    BY <2>2, <2>3 DEF Iterated
  <2>5. f = Prepared(f, ctx, request, start, k)
    BY <2>4 DEF Prepared, step, NextRound
  <2> QED BY <2>5 DEF RoundsOf
<1> HIDE DEF r
<1>2. r[0] = start
  BY <1>1 DEF Prepared
<1>3. ASSUME NEW n \in 0..(k - 1) PROVE r[n + 1] = step(r[n])
  <2>1. n + 1 \in 0..k /\ n + 1 # 0 /\ (n + 1) - 1 = n
    OBVIOUS
  <2> QED BY <1>1, <2>1 DEF Prepared, step, NextRound
<1> DEFINE T == {n \in 0..k : r[n] \in X}
<1>4. 0 \in T /\ \A n \in 0..(k - 1) : n \in T => n + 1 \in T
  BY <1>2, <1>3 DEF StaysIn
<1> HIDE DEF T
<1>5. 0..k \subseteq T
  BY <1>4, InductionTo
<1> QED BY <1>2, <1>3, <1>5 DEF T, r, ChainIn

\* The plans that hold up in every round, as a set.
PlansOf(ctx, request, first, direct) ==
  {q \in Plans : Planned(ctx, request, first, direct, q)}

\* The rounds that Prepare goes through all keep the plan sound.
LEMMA RoundsKeep ==
  ASSUME NEW ctx \in Contexts, NEW request \in Tasks, NEW first, NEW direct
  PROVE  StaysIn(ctx, request, PlansOf(ctx, request, first, direct))
<1> SUFFICES ASSUME NEW q \in Plans, Planned(ctx, request, first, direct, q),
                    ~(q.stable \/ q.error # "none")
             PROVE  /\ Planned(ctx, request, first, direct, Round(ctx, request, q))
                    /\ Round(ctx, request, q) \in Plans
  BY DEF StaysIn, NextRound, PlansOf
<1>1. Planned(ctx, request, first, direct, Round(ctx, request, q))
  BY RoundPlanned
<1> QED BY <1>1 DEF Planned

\* The direct changes of a request.
DirectOf(ctx, request, first) == DirectChanges(ctx.tree, ctx.base, first, request.impacts)

\* The packages whose own content changed change directly.
LEMMA DirectHolds ==
  ASSUME NEW ctx, NEW request \in Tasks, NEW first \in SUBSET Packages
  PROVE  /\ DirectOf(ctx, request, first) \in SUBSET Packages
         /\ \A p \in first : ~UnchangedContent(ctx.tree, ctx.base, p)
                => p \in DirectOf(ctx, request, first)
<1> DEFINE S == {p \in first : ~UnchangedContent(ctx.tree, ctx.base, p)}
           joined(U) == {p \in {e[1] : e \in request.impacts} :
                            \A e \in request.impacts : e[1] = p => e[2] \in U}
           step == [U \in SUBSET Packages |-> joined(U)]
<1>1. \A U : joined(U) \in SUBSET Packages
  BY TaskParts, EdgeEnds
<1> HIDE DEF joined
<1>2. step \in [SUBSET Packages -> SUBSET Packages]
  BY <1>1
<1>3. S \in SUBSET Packages
  OBVIOUS
<1>4. DirectOf(ctx, request, first) = Reach(S, step)
  BY DEF DirectOf, DirectChanges, joined
<1> HIDE DEF step
<1>5. S \subseteq Reach(S, step) /\ Reach(S, step) \in SUBSET Packages
  BY <1>2, <1>3, ReachHolds
<1> QED BY <1>4, <1>5

\* What Prepare starts from.
Starting(ctx, request, first) ==
  LET t        == ctx.tree
      direct   == DirectOf(ctx, request, first)
      impacted == {e[1] : e \in request.impacts}
  IN  [affected |-> first \cup direct, direct |-> direct, force |-> impacted,
       mechanical |-> {}, version |-> t.version, fallback |-> t.version,
       level |-> [p \in Packages |-> 0], stability |-> [p \in Packages |-> "none"],
       stable |-> FALSE,
       error |-> IF first = {} THEN "nothing"
                 ELSE IF impacted \subseteq direct THEN "none" ELSE "refused"]

\* The plan that Prepare starts from.
LEMMA StartPlanned ==
  ASSUME NEW ctx \in Contexts, NEW request \in Tasks, NEW first \in SUBSET Packages
  PROVE  Planned(ctx, request, first, DirectOf(ctx, request, first), Starting(ctx, request, first))
<1> DEFINE direct == DirectOf(ctx, request, first)
           impacted == {e[1] : e \in request.impacts}
           q == Starting(ctx, request, first)
           err == IF first = {} THEN "nothing"
                  ELSE IF impacted \subseteq direct THEN "none" ELSE "refused"
           levels == [p \in Packages |-> 0]
           checks == [p \in Packages |-> "none"]
<1>1. direct \in SUBSET Packages
  BY DirectHolds
<1>2. impacted \in SUBSET Packages
  BY TaskParts, EdgeEnds
<1>3. ctx.tree.version \in [Packages -> Versions]
  BY ContextParts, TreeParts
<1>4. err \in {"none", "nothing", "refused"}
  OBVIOUS
<1>5. levels \in [Packages -> 0..3] /\ checks \in [Packages -> {"none", "eligible", "passed", "remains"}]
  OBVIOUS
<1>6. q = [affected |-> first \cup direct, direct |-> direct, force |-> impacted,
           mechanical |-> {}, version |-> ctx.tree.version, fallback |-> ctx.tree.version,
           level |-> levels, stability |-> checks, stable |-> FALSE, error |-> err]
  BY DEF Starting
<1>7. \A p \in Packages : levels[p] = 0
  OBVIOUS
<1> HIDE DEF q, direct, impacted, err, levels, checks
<1>8. q \in Plans
  <2>1. first \cup direct \in SUBSET Packages /\ {} \in SUBSET Packages /\ FALSE \in BOOLEAN
    BY <1>1
  <2> QED BY <1>1, <1>2, <1>3, <1>4, <1>5, <1>6, <2>1 DEF Plans
<1>9. /\ q.affected = first \cup direct /\ q.direct = direct /\ q.mechanical = {}
      /\ q.version = ctx.tree.version /\ q.fallback = ctx.tree.version /\ q.level = levels
      /\ ~q.stable /\ q.error # "diverged" /\ (q.error = "none" => q.force \subseteq q.affected)
  <2>1. /\ q.affected = first \cup direct /\ q.direct = direct /\ q.mechanical = {}
        /\ q.version = ctx.tree.version /\ q.fallback = ctx.tree.version /\ q.level = levels
        /\ ~q.stable /\ q.error = err /\ q.force = impacted
    BY <1>6
  <2>2. err = "none" => impacted \subseteq direct
    BY DEF err
  <2> QED BY <2>1, <2>2, <1>4
<1>10. Fitting(ctx, request, q)
  BY <1>7, <1>9 DEF Fitting
<1> QED BY <1>8, <1>9, <1>10 DEF Planned, q, direct

\* A plan that Prepare does not refuse has come to rest inside the scope.
LEMMA PrepareSettles ==
  ASSUME NEW ctx \in Contexts, NEW request \in Tasks, NEW first \in SUBSET Packages,
         Prepare(ctx, request, first).error = "none"
  PROVE  LET q == Prepare(ctx, request, first)
         IN  /\ Planned(ctx, request, first, DirectOf(ctx, request, first), q)
             /\ Fitting(ctx, request, q) /\ Settled(ctx, q)
             /\ q.affected \subseteq request.scope
<1> DEFINE start == Starting(ctx, request, first)
           k == Rounds + 2
           X == PlansOf(ctx, request, first, DirectOf(ctx, request, first))
           last == RoundsOf(ctx, request, start, k)[k]
           q == Prepare(ctx, request, first)
<1>1. k \in Nat
  BY RoundsType
<1>2. Planned(ctx, request, first, DirectOf(ctx, request, first), last)
  <2>1. Planned(ctx, request, first, DirectOf(ctx, request, first), start)
    <3> HIDE DEF start
    <3> QED BY StartPlanned DEF start
  <2>2. start \in X
    BY <2>1 DEF PlansOf, Planned
  <2> HIDE DEF start, k
  <2>3. StaysIn(ctx, request, X)
    BY RoundsKeep
  <2> HIDE DEF X
  <2>4. ChainIn(RoundsOf(ctx, request, start, k), ctx, request, start, k, X)
    BY <1>1, <2>2, <2>3, PreparedChain
  <2> QED BY <1>1, <2>4 DEF ChainIn, X, PlansOf
<1>3. q = IF last.error = "none" /\ ~last.stable THEN [last EXCEPT !.error = "diverged"]
          ELSE IF last.error = "none" /\ ~(last.affected \subseteq request.scope)
               THEN [last EXCEPT !.error = "outside scope"]
          ELSE last
  BY DEF Prepare, RoundsOf, Prepared, Starting, DirectOf, Rounds
<1> HIDE DEF last, q
<1>4. last \in Plans
  BY <1>2 DEF Planned
<1>5. /\ [last EXCEPT !.error = "diverged"].error = "diverged"
      /\ [last EXCEPT !.error = "outside scope"].error = "outside scope"
  BY <1>4 DEF Plans
<1>6. q.error = "none"
  BY DEF q
<1>7. q = last /\ last.stable /\ last.error = "none" /\ last.affected \subseteq request.scope
  <2>1. ~(last.error = "none" /\ ~last.stable)
    BY <1>3, <1>5, <1>6
  <2>2. ~(last.error = "none" /\ ~(last.affected \subseteq request.scope))
    BY <1>3, <1>5, <1>6, <2>1
  <2> QED BY <1>3, <1>6, <2>1, <2>2
<1> QED BY <1>2, <1>7 DEF Planned, q

-----------------------------------------------------------------------------
(* The rounds come to rest. *)

\* Every requirement accepts its target.
Met(t) == \A e \in Edges : Accepts(t.req[e], t.version[e[2]])

\* A choice depends on the plan only in whether its package is validated anew, and then
\* the version stays.
LEMMA ChoiceDepends ==
  ASSUME NEW ctx, NEW request, NEW one, NEW two, NEW p,
         Revalidated(ctx, one, p) <=> Revalidated(ctx, two, p)
  PROVE  /\ Choice(ctx, request, one, p) = Choice(ctx, request, two, p)
         /\ Revalidated(ctx, one, p) => Choice(ctx, request, one, p).version = ctx.tree.version[p]
<1> DEFINE
      one1 == p \notin one.force /\ (p \in one.mechanical \/ UnchangedContent(ctx.tree, ctx.base, p))
      two1 == p \notin two.force /\ (p \in two.mechanical \/ UnchangedContent(ctx.tree, ctx.base, p))
<1>1. (one1 /\ two1) \/ (~one1 /\ ~two1)
  BY DEF Revalidated
<1>2. Choice(ctx, request, one, p) = Choice(ctx, request, two, p)
  <2>1. CASE one1 /\ two1  BY <2>1 DEF Choice
  <2>2. CASE ~one1 /\ ~two1  BY <2>2 DEF Choice
  <2> QED BY <1>1, <2>1, <2>2
<1>3. ASSUME one1 PROVE Choice(ctx, request, one, p).version = ctx.tree.version[p]
  BY <1>3 DEF Choice
<1> QED BY <1>2, <1>3 DEF Revalidated

\* What a round leaves: the choices, and after them what they reach.
LEMMA RoundParts ==
  ASSUME NEW ctx \in Contexts, NEW request \in Tasks, NEW q \in Plans,
         Round(ctx, request, q).error = "none"
  PROVE  LET t == ctx.tree
             new == Round(ctx, request, q)
             owners == RequirementOwners(t, Render(t, q.affected, new.version))
         IN  /\ new \in Plans /\ q.affected \subseteq new.affected
             /\ q.affected \subseteq request.scope
             /\ new.force = q.force \cup owners /\ q.mechanical \subseteq new.mechanical
             /\ (new.mechanical \ q.mechanical) \cap q.affected = {}
             /\ \A p \in Packages :
                  new.version[p] = IF p \in q.affected THEN Choice(ctx, request, q, p).version
                                   ELSE q.version[p]
             /\ new.stable <=> new.affected = q.affected /\ owners \subseteq q.force
             /\ owners \cup t.inherited \cup Moved(t, new) \subseteq new.affected
             /\ \A p \in Packages : Drawn(t, new, p) => p \in new.affected
             /\ \A p \in new.affected :
                   \/ p \in q.affected \cup owners
                   \/ Drawn(t, new, p)
                   \/ p \in new.mechanical \cap (t.inherited \cup Moved(t, new))
<1> DEFINE t   == ctx.tree
           ch  == Chosen(request, q, ChoicesOf(ctx, request, q))
           who == OwnersOf(t, ch)
           new == Round(ctx, request, q)
           c(p) == Choice(ctx, request, q, p)
<1>1. t \in Trees
  BY ContextParts
<1>2. /\ ch \in Plans /\ ch.affected = q.affected /\ ch.force = q.force
      /\ ch.mechanical = q.mechanical
      /\ \A p \in Packages :
            ch.version[p] = IF p \in q.affected THEN c(p).version ELSE q.version[p]
      /\ ch.error = "none" => q.affected \subseteq request.scope
  BY ChosenParts
<1>3. new = Rendered(t, ch, who)
  BY <1>2 DEF Round, ChoicesOf, OwnersOf
<1>4. who \in SUBSET Packages
  BY OwnersTyped DEF OwnersOf
<1> HIDE DEF ch, who, t, new
<1>5. /\ new \in Plans
      /\ ch.affected \subseteq new.affected
      /\ new.force = ch.force \cup who /\ new.version = ch.version
      /\ ch.mechanical \subseteq new.mechanical
      /\ (new.mechanical \ ch.mechanical) \cap ch.affected = {}
      /\ new.error = "none" => ch.error = "none"
      /\ new.stable <=> new.affected = ch.affected /\ who \subseteq ch.force
      /\ who \cup t.inherited \cup Moved(t, ch) \subseteq new.affected
      /\ \A p \in Packages : Drawn(t, ch, p) => p \in new.affected
      /\ \A p \in new.affected :
            \/ p \in ch.affected \cup who
            \/ Drawn(t, ch, p)
            \/ p \in new.mechanical \cap (t.inherited \cup Moved(t, ch))
  BY <1>1, <1>2, <1>3, <1>4, RenderedParts
<1>6. Moved(t, new) = Moved(t, ch) /\ \A p : Drawn(t, new, p) <=> Drawn(t, ch, p)
  BY <1>5 DEF Moved, Drawn
<1>7. who = RequirementOwners(t, Render(t, q.affected, new.version))
  BY <1>2, <1>5 DEF who, OwnersOf
<1>8. new.error = "none"
  BY DEF new
<1> HIDE DEF c
<1>9. \A p \in Packages : new.version[p] = IF p \in q.affected THEN c(p).version ELSE q.version[p]
  BY <1>2, <1>5
<1>10. new.stable <=> new.affected = q.affected /\ who \subseteq q.force
  BY <1>2, <1>5
<1>11. /\ new \in Plans /\ q.affected \subseteq new.affected /\ q.affected \subseteq request.scope
       /\ new.force = q.force \cup who /\ q.mechanical \subseteq new.mechanical
       /\ (new.mechanical \ q.mechanical) \cap q.affected = {}
       /\ who \cup t.inherited \cup Moved(t, new) \subseteq new.affected
  BY <1>2, <1>5, <1>6, <1>8
<1>12. /\ \A p \in Packages : Drawn(t, new, p) => p \in new.affected
       /\ \A p \in new.affected :
             \/ p \in q.affected \cup who
             \/ Drawn(t, new, p)
             \/ p \in new.mechanical \cap (t.inherited \cup Moved(t, new))
  BY <1>2, <1>5, <1>6
<1> QED BY <1>7, <1>9, <1>10, <1>11, <1>12 DEF new, c, t

\* A round that forces no further package is followed by one that adds none: all that it
\* took in is validated anew, so the versions, and with them the requirements, stay.
LEMMA RoundRests ==
  ASSUME NEW ctx \in Contexts, NEW request \in Tasks, NEW direct, NEW q,
         Planned(ctx, request, InitiallyAffected(ctx, request.scope), direct, q),
         q.error = "none", Met(ctx.tree),
         Round(ctx, request, q).error = "none", Round(ctx, request, q).force = q.force,
         Round(ctx, request, Round(ctx, request, q)).error = "none"
  PROVE  Round(ctx, request, Round(ctx, request, q)).stable
<1> DEFINE t   == ctx.tree
           one == Round(ctx, request, q)
           two == Round(ctx, request, one)
           owners1 == RequirementOwners(t, Render(t, q.affected, one.version))
           owners2 == RequirementOwners(t, Render(t, one.affected, two.version))
           c(r, p) == Choice(ctx, request, r, p)
<1>1. /\ q \in Plans /\ InitiallyAffected(ctx, request.scope) \subseteq q.affected
      /\ Fitting(ctx, request, q) /\ q.force \subseteq q.affected
  BY DEF Planned
<1>2. /\ one \in Plans /\ q.affected \subseteq one.affected
      /\ one.force = q.force \cup owners1 /\ q.mechanical \subseteq one.mechanical
      /\ (one.mechanical \ q.mechanical) \cap q.affected = {}
      /\ \A p \in Packages :
            one.version[p] = IF p \in q.affected THEN c(q, p).version ELSE q.version[p]
      /\ owners1 \cup t.inherited \cup Moved(t, one) \subseteq one.affected
      /\ \A p \in Packages : Drawn(t, one, p) => p \in one.affected
      /\ \A p \in one.affected :
            \/ p \in q.affected \cup owners1
            \/ Drawn(t, one, p)
            \/ p \in one.mechanical \cap (t.inherited \cup Moved(t, one))
  BY <1>1, RoundParts
<1> HIDE DEF one
<1>3. /\ two \in Plans /\ one.affected \subseteq request.scope
      /\ \A p \in Packages :
            two.version[p] = IF p \in one.affected THEN c(one, p).version ELSE one.version[p]
      /\ two.stable <=> two.affected = one.affected /\ owners2 \subseteq one.force
      /\ one.affected \subseteq two.affected
      /\ \A p \in two.affected :
            \/ p \in one.affected \cup owners2
            \/ Drawn(t, two, p)
            \/ p \in two.mechanical \cap (t.inherited \cup Moved(t, two))
  BY <1>2, RoundParts DEF one
<1> HIDE DEF two, c
<1>4. one.force = q.force /\ owners1 \subseteq q.force
  BY <1>2 DEF one
<1>5. ASSUME NEW p \in q.affected PROVE c(one, p) = c(q, p)
  <2>1. p \in one.mechanical <=> p \in q.mechanical
    BY <1>2
  <2>2. Revalidated(ctx, one, p) <=> Revalidated(ctx, q, p)
    BY <1>4, <2>1 DEF Revalidated
  <2> QED BY <2>2, ChoiceDepends DEF c
<1>6. ASSUME NEW p \in one.affected \ q.affected
      PROVE  p \in Packages /\ Revalidated(ctx, one, p)
  <2>1. p \in Packages /\ p \in request.scope
    BY <1>2, <1>3, PlanParts
  <2>2. p \notin one.force /\ p \notin owners1
    BY <1>1, <1>4
  <2>3. p \notin InitiallyAffected(ctx, request.scope)
    BY <1>1
  <2>4. CASE p \in one.mechanical
    BY <2>1, <2>2, <2>4 DEF Revalidated
  <2>5. CASE Drawn(t, one, p)
    <3>1. Recorded(t, p)
      BY <2>5 DEF Drawn
    <3>2. Latest(t, p).print = Fingerprint(t, p)
      BY <2>1, <2>3, <3>1 DEF InitiallyAffected, Pending
    <3>3. UnchangedContent(t, ctx.base, p)
      BY <3>1, <3>2 DEF UnchangedContent, Fingerprint
    <3> QED BY <2>1, <2>2, <3>3 DEF Revalidated
  <2> QED BY <1>2, <2>1, <2>2, <2>4, <2>5
<1>7. ASSUME NEW p \in Packages
      PROVE  /\ two.version[p] = one.version[p]
             /\ p \notin q.affected => one.version[p] = t.version[p]
  <2>1. CASE p \in q.affected
    BY <1>2, <1>3, <1>5, <2>1
  <2>2. CASE p \notin q.affected
    <3>1. one.version[p] = t.version[p]
      BY <1>1, <1>2, <2>2 DEF Fitting
    <3>2. CASE p \in one.affected
      <4>1. c(one, p).version = t.version[p]
        BY <1>6, <2>2, <3>2, ChoiceDepends DEF c
      <4> QED BY <1>3, <3>1, <3>2, <4>1
    <3>3. CASE p \notin one.affected
      BY <1>3, <3>1, <3>3
    <3> QED BY <3>1, <3>2, <3>3
  <2> QED BY <2>1, <2>2
<1>8. Render(t, one.affected, two.version) = Render(t, q.affected, one.version)
  <2>1. ASSUME NEW e \in Edges
        PROVE  Render(t, one.affected, two.version)[e] = Render(t, q.affected, one.version)[e]
    <3>1. e[2] \in Packages /\ Accepts(t.req[e], t.version[e[2]])
      BY EdgeEnds DEF Met
    <3>2. two.version[e[2]] = one.version[e[2]]
      BY <1>7, <3>1
    <3>3. CASE e[2] \in q.affected
      BY <1>2, <3>2, <3>3 DEF Render
    <3>4. CASE e[2] \notin q.affected
      BY <1>7, <3>1, <3>2, <3>4 DEF Render
    <3> QED BY <3>3, <3>4
  <2> QED BY <2>1 DEF Render
<1>9. owners2 = owners1
  BY <1>8
<1>10. Moved(t, two) = Moved(t, one) /\ \A p : Drawn(t, two, p) <=> Drawn(t, one, p)
  BY <1>7 DEF Moved, Drawn
<1>11. two.affected \subseteq one.affected
  <2> SUFFICES ASSUME NEW p \in two.affected PROVE p \in one.affected
    OBVIOUS
  <2>1. p \in Packages
    BY <1>3, PlanParts
  <2> QED BY <1>2, <1>3, <1>9, <1>10, <2>1
<1> QED BY <1>3, <1>4, <1>9, <1>11 DEF two, one

\* A plan that no further round changes.
Done(q) == q.stable \/ q.error # "none"

\* The rounds come to rest: each but the last two forces a further package.
LEMMA RoundsRest ==
  ASSUME NEW ctx \in Contexts, NEW request \in Tasks, Met(ctx.tree), NEW direct, NEW start,
         Planned(ctx, request, InitiallyAffected(ctx, request.scope), direct, start)
  PROVE  LET last == RoundsOf(ctx, request, start, Rounds + 2)[Rounds + 2]
         IN  Planned(ctx, request, InitiallyAffected(ctx, request.scope), direct, last) /\ Done(last)
<1> DEFINE k == Rounds + 2
           first == InitiallyAffected(ctx, request.scope)
           X == PlansOf(ctx, request, first, direct)
           r == RoundsOf(ctx, request, start, k)
           size(n) == Cardinality(r[n].force)
           calm(n) == ~Done(r[n]) /\ r[n + 1] = Round(ctx, request, r[n]) /\ r[n + 1].force = r[n].force
           T == {n \in 0..k : \/ Done(r[n])
                              \/ size(n) >= n
                              \/ n > 0 /\ size(n) >= n - 1 /\ calm(n - 1)}
<1>1. k \in Nat /\ Rounds \in Nat
  BY RoundsType
<1>2. start \in X
  BY DEF PlansOf, Planned
<1>3. StaysIn(ctx, request, X)
  BY RoundsKeep
<1>4. /\ r[0] = start /\ \A n \in 0..k : r[n] \in X
      /\ \A n \in 0..(k - 1) : r[n + 1] = NextRound(ctx, request, r[n])
  <2> HIDE DEF k, X
  <2>1. ChainIn(r, ctx, request, start, k, X)
    BY <1>1, <1>2, <1>3, PreparedChain
  <2> QED BY <2>1 DEF ChainIn
<1> HIDE DEF r
<1>5. \A n \in 0..k : r[n] \in Plans /\ Planned(ctx, request, first, direct, r[n])
  BY <1>4 DEF PlansOf
<1>6. ASSUME NEW n \in 0..k PROVE size(n) \in Nat /\ size(n) <= Rounds /\ IsFiniteSet(r[n].force)
  <2>1. r[n].force \in SUBSET Packages
    BY <1>5, PlanParts
  <2>2. IsFiniteSet(r[n].force) /\ Cardinality(r[n].force) <= Cardinality(Packages)
    BY <2>1, PackagesAssumption, FS_Subset
  <2> QED BY <2>2, FS_CardinalityType DEF Rounds
<1>7. 0 \in T
  BY <1>1, <1>6
<1>8. ASSUME NEW n \in 0..(k - 1), n \in T PROVE n + 1 \in T
  <2>1. n \in 0..k /\ n + 1 \in 0..k /\ (n + 1) - 1 = n /\ n + 1 > 0
    BY <1>1
  <2>2. CASE Done(r[n])
    <3>1. r[n + 1] = r[n]
      BY <1>4, <2>2 DEF NextRound, Done
    <3> QED BY <2>1, <2>2, <3>1
  <2>3. CASE ~Done(r[n])
    <3> DEFINE q == r[n]
               one == r[n + 1]
    <3>1. one = Round(ctx, request, q) /\ q.error = "none"
      BY <1>4, <2>3 DEF NextRound, Done
    <3>2. SUFFICES ASSUME one.error = "none", ~one.stable PROVE n + 1 \in T
      BY <2>1 DEF Done
    <3>3. q.force \subseteq one.force
      <4>1. q \in Plans
        BY <1>5, <2>1
      <4> QED BY <3>1, <3>2, <4>1, RoundParts
    <3>4. CASE size(n) >= n
      <4>1. CASE one.force = q.force
        <5>1. size(n + 1) >= n /\ calm(n)
          BY <2>3, <3>1, <3>4, <4>1
        <5>2. size(n + 1) >= (n + 1) - 1 /\ calm((n + 1) - 1)
          BY <2>1, <5>1
        <5> HIDE DEF size, calm
        <5> QED BY <2>1, <5>2
      <4>2. CASE one.force # q.force
        <5>1. size(n) <= size(n + 1) /\ size(n) # size(n + 1)
          BY <1>6, <2>1, <3>3, <4>2, FS_Subset
        <5>2. size(n + 1) >= n + 1
          BY <1>6, <2>1, <3>4, <5>1
        <5> HIDE DEF size, calm
        <5> QED BY <2>1, <5>2
      <4> QED BY <4>1, <4>2
    <3>5. CASE n > 0 /\ calm(n - 1)
      <4>1. n - 1 \in 0..k /\ (n - 1) + 1 = n
        <5> HIDE DEF size, calm
        <5> QED BY <1>1, <2>1, <3>5
      <4>2. /\ Planned(ctx, request, first, direct, r[n - 1]) /\ r[n - 1].error = "none"
            /\ r[n] = Round(ctx, request, r[n - 1]) /\ r[n].force = r[n - 1].force
        BY <1>5, <3>5, <4>1 DEF Done
      <4>3. one.stable
        BY <3>1, <3>2, <4>2, RoundRests
      <4> QED BY <3>2, <4>3
    <3>6. size(n) >= n \/ (n > 0 /\ calm(n - 1))
      BY <1>8, <2>3
    <3> QED BY <3>4, <3>5, <3>6
  <2> QED BY <2>2, <2>3
<1>9. k \in T
  <2> HIDE DEF T, k
  <2>1. 0..k \subseteq T
    BY <1>1, <1>7, <1>8, InductionTo
  <2> QED BY <1>1, <2>1
<1>10. Done(r[k])
  <2>1. k \in 0..k /\ size(k) <= Rounds /\ size(k) \in Nat
    BY <1>1, <1>6
  <2>2. ~(size(k) >= k) /\ ~(size(k) >= k - 1)
    BY <1>1, <2>1
  <2> HIDE DEF size, calm, k
  <2> QED BY <1>9, <2>2
<1> QED BY <1>1, <1>5, <1>10 DEF r

\* A develop never gives up its plan for want of rounds.
LEMMA PrepareRests ==
  ASSUME NEW ctx \in Contexts, NEW request \in Tasks, Met(ctx.tree),
         InitiallyAffected(ctx, request.scope) \in SUBSET Packages
  PROVE  Prepare(ctx, request, InitiallyAffected(ctx, request.scope)).error # "diverged"
<1> DEFINE first == InitiallyAffected(ctx, request.scope)
           start == Starting(ctx, request, first)
           k == Rounds + 2
           last == RoundsOf(ctx, request, start, k)[k]
           q == Prepare(ctx, request, first)
<1>1. Planned(ctx, request, first, DirectOf(ctx, request, first), start)
  <2> HIDE DEF first, start
  <2> QED BY StartPlanned DEF first, start
<1>2. Planned(ctx, request, first, DirectOf(ctx, request, first), last) /\ Done(last)
  BY <1>1, RoundsRest
<1>3. q = IF last.error = "none" /\ ~last.stable THEN [last EXCEPT !.error = "diverged"]
          ELSE IF last.error = "none" /\ ~(last.affected \subseteq request.scope)
               THEN [last EXCEPT !.error = "outside scope"]
          ELSE last
  BY DEF Prepare, Prepared, RoundsOf, Starting, DirectOf, Rounds
<1> HIDE DEF last, q
<1>4. last \in Plans /\ last.error # "diverged"
  BY <1>2 DEF Planned
<1>5. [last EXCEPT !.error = "outside scope"].error = "outside scope"
  BY <1>4 DEF Plans
<1>6. q.error \in {last.error, "outside scope"}
  BY <1>2, <1>3, <1>5 DEF Done
<1> QED BY <1>4, <1>6 DEF q

-----------------------------------------------------------------------------
(* Requirements that follow a plan, and the checks of its candidate. *)

\* A requirement that accepts the version a package has and the one it was to
\* get accepts all between them: whatever lowers a plan rewrites no more.
LEMMA Lowering ==
  ASSUME NEW t \in Trees, Met(t), NEW A \in SUBSET Packages,
         NEW f \in [Packages -> Versions], NEW g \in [Packages -> Versions],
         \A p \in Packages : ~Less(f[p], t.version[p]) /\ ~Less(g[p], f[p]),
         ~CannotFollow(t, A, g)
  PROVE  /\ ~CannotFollow(t, A, f)
         /\ RequirementOwners(t, Render(t, A, f)) \subseteq RequirementOwners(t, Render(t, A, g))
<1>1. ASSUME NEW e \in Edges, e[2] \in A, ~Accepts(t.req[e], f[e[2]])
      PROVE  ~Accepts(t.req[e], g[e[2]])
  <2>1. /\ e[2] \in Packages /\ t.req[e] \in Requirement /\ t.version[e[2]] \in Versions
        /\ f[e[2]] \in Versions /\ g[e[2]] \in Versions
    BY EdgeEnds, TreeParts
  <2>2. Accepts(t.req[e], t.version[e[2]])
    BY DEF Met
  <2> QED BY <1>1, <2>1, <2>2, AcceptsBetween
<1>2. ~CannotFollow(t, A, f)
  BY <1>1 DEF CannotFollow
<1>3. ASSUME NEW e \in Edges, Render(t, A, f)[e] # t.req[e]
      PROVE  Render(t, A, g)[e] # t.req[e]
  <2>1. e[2] \in A /\ ~Accepts(t.req[e], f[e[2]])
    BY <1>3 DEF Render
  <2>2. ~Accepts(t.req[e], g[e[2]]) /\ Rewritable(t.req[e])
    BY <1>1, <2>1 DEF CannotFollow
  <2>3. t.req[e] \in Requirement /\ g[e[2]] \in Versions
    BY EdgeEnds, TreeParts
  <2>4. Accepts(UpdatedRequirement(t.req[e], g[e[2]]), g[e[2]])
    BY <2>2, <2>3, RewrittenAccepts
  <2>5. Render(t, A, g)[e] = UpdatedRequirement(t.req[e], g[e[2]])
    BY <2>1, <2>2 DEF Render
  <2> QED BY <2>2, <2>4, <2>5
<1>4. RequirementOwners(t, Render(t, A, f)) \subseteq RequirementOwners(t, Render(t, A, g))
  BY <1>3 DEF RequirementOwners
<1> QED BY <1>2, <1>4

\* What stays true of a settled plan while its checks take versions back.
Kept(ctx, request, affected, direct, q) ==
  /\ q \in Plans /\ q.affected = affected /\ q.direct = direct
  /\ Fitting(ctx, request, q)
  /\ ~CannotFollow(ctx.tree, affected, q.version)
  /\ OwnersOf(ctx.tree, q) \subseteq affected
  /\ \A p \in affected : q.level[p] = 0 =>
        UnchangedContent(ctx.tree, ctx.base, p) /\ p \notin OwnersOf(ctx.tree, q)
  /\ ctx.tree.inherited \subseteq affected
  /\ \A p \in Packages : Drawn(ctx.tree, q, p) => p \in affected

\* A sound plan lowers no version.
LEMMA SoundRises ==
  ASSUME NEW ctx \in Contexts, NEW request \in Tasks, NEW q \in Plans, Fitting(ctx, request, q),
         NEW p \in Packages
  PROVE  /\ ~Less(q.version[p], ctx.tree.version[p]) /\ ~Less(q.version[p], q.fallback[p])
         /\ ~Less(q.fallback[p], ctx.tree.version[p])
         /\ q.version[p] \in Versions /\ q.fallback[p] \in Versions /\ ctx.tree.version[p] \in Versions
<1>1. q.version[p] \in Versions /\ q.fallback[p] \in Versions
  BY PlanParts
<1>2. ctx.tree.version[p] \in Versions
  BY ContextParts, TreeParts
<1>3. CASE q.level[p] = 0
  BY <1>1, <1>2, <1>3, LessOrder DEF Fitting
<1>4. CASE q.level[p] # 0
  <2>1. Less(ctx.tree.version[p], q.fallback[p]) /\ ~Less(q.version[p], q.fallback[p])
    BY <1>4 DEF Fitting, Fits
  <2> QED BY <1>1, <1>2, <2>1, LessOrder
<1> QED BY <1>1, <1>2, <1>3, <1>4

\* A plan that lowers versions of another keeps what holds of it.
LEMMA LoweredKeeps ==
  ASSUME NEW ctx \in Contexts, Met(ctx.tree), NEW request \in Tasks, NEW affected, NEW direct,
         NEW q, Kept(ctx, request, affected, direct, q),
         NEW n \in Plans, n.affected = q.affected, n.direct = q.direct, Fitting(ctx, request, n),
         \A p \in Packages : ~Less(q.version[p], n.version[p]),
         \A p \in affected : n.level[p] = 0 =>
            \/ q.level[p] = 0
            \/ UnchangedContent(ctx.tree, ctx.base, p) /\ p \notin OwnersOf(ctx.tree, q)
  PROVE  Kept(ctx, request, affected, direct, n)
<1> DEFINE t == ctx.tree
<1>1. q \in Plans /\ q.affected = affected /\ ~CannotFollow(t, affected, q.version)
  BY DEF Kept
<1>2. t \in Trees /\ affected \in SUBSET Packages /\ q.version \in [Packages -> Versions]
      /\ n.version \in [Packages -> Versions]
  BY <1>1, ContextParts, PlanParts
<1>3. \A p \in Packages : ~Less(n.version[p], t.version[p])
  BY SoundRises
<1>4. ~CannotFollow(t, affected, n.version) /\ OwnersOf(t, n) \subseteq OwnersOf(t, q)
  BY <1>1, <1>2, <1>3, Lowering DEF OwnersOf
<1>5. Moved(t, n) \subseteq Moved(t, q)
  <2>1. ASSUME NEW p \in Packages, q.version[p] = t.version[p] PROVE n.version[p] = t.version[p]
    <3>1. ~Less(t.version[p], n.version[p]) /\ ~Less(n.version[p], t.version[p])
      BY <1>3, <2>1
    <3>2. n.version[p] \in Versions /\ t.version[p] \in Versions
      BY <1>2, TreeParts
    <3> QED BY <3>1, <3>2, LessOrder
  <2> QED BY <2>1 DEF Moved
<1>6. \A p \in Packages : Drawn(t, n, p) => p \in affected
  BY <1>5 DEF Kept, Drawn
<1> QED BY <1>1, <1>4, <1>6 DEF Kept

\* The callers that keep their version after all, and the plan without them.
Dropped(t, q, first) ==
  {p \in first.affected \ first.direct :
     q.version[p] # t.version[p]
     /\ p \notin RequirementOwners(t, Render(t, first.affected, q.version))}

KeepStep(t, first, q) ==
  LET drop == Dropped(t, q, first)
      back(f, g) == [p \in Packages |-> IF p \in drop THEN g[p] ELSE f[p]]
  IN  [q EXCEPT !.version = back(@, t.version), !.fallback = back(@, t.version),
                !.level = back(@, [p \in drop |-> 0])]

\* One round of KeepCallers.
LEMMA KeepStepKeeps ==
  ASSUME NEW ctx \in Contexts, Met(ctx.tree), NEW request \in Tasks, NEW affected, NEW direct,
         NEW first, first.affected = affected, first.direct = direct,
         NEW q, Kept(ctx, request, affected, direct, q),
         \A p \in affected \ direct : UnchangedContent(ctx.tree, ctx.base, p)
  PROVE  Kept(ctx, request, affected, direct, KeepStep(ctx.tree, first, q))
<1> DEFINE t    == ctx.tree
           drop == Dropped(t, q, first)
           v    == [p \in Packages |-> IF p \in drop THEN t.version[p] ELSE q.version[p]]
           fb   == [p \in Packages |-> IF p \in drop THEN t.version[p] ELSE q.fallback[p]]
           lv   == [p \in Packages |-> IF p \in drop THEN [x \in drop |-> 0][p] ELSE q.level[p]]
           new  == KeepStep(t, first, q)
<1>1. q \in Plans /\ q.affected = affected /\ q.direct = direct /\ Fitting(ctx, request, q)
  BY DEF Kept
<1>2. \A p \in drop : /\ p \in affected /\ p \notin OwnersOf(t, q)
                      /\ UnchangedContent(ctx.tree, ctx.base, p)
  BY <1>1 DEF Dropped, OwnersOf
<1>3. t.version \in [Packages -> Versions]
  BY ContextParts, TreeParts
<1>4. \A p \in drop : [x \in drop |-> 0][p] = 0
  OBVIOUS
<1>5. new = [affected |-> q.affected, direct |-> q.direct, force |-> q.force,
            mechanical |-> q.mechanical, version |-> v, fallback |-> fb, level |-> lv,
            stability |-> q.stability, stable |-> q.stable, error |-> q.error]
  <2> DEFINE q1 == [q EXCEPT !.version = v]
             q2 == [q1 EXCEPT !.fallback = fb]
             q3 == [q2 EXCEPT !.level = lv]
  <2>0. new = q3
    BY DEF KeepStep, drop
  <2> HIDE DEF new, v, fb, lv
  <2>1. q = [affected |-> q.affected, direct |-> q.direct, force |-> q.force,
              mechanical |-> q.mechanical, version |-> q.version, fallback |-> q.fallback,
              level |-> q.level, stability |-> q.stability, stable |-> q.stable,
              error |-> q.error]
    BY <1>1, PlanParts
  <2>2. q1 = [affected |-> q.affected, direct |-> q.direct, force |-> q.force,
              mechanical |-> q.mechanical, version |-> v, fallback |-> q.fallback,
              level |-> q.level, stability |-> q.stability, stable |-> q.stable,
              error |-> q.error]
    BY <2>1
  <2> HIDE DEF q1
  <2>3. q2 = [affected |-> q.affected, direct |-> q.direct, force |-> q.force,
              mechanical |-> q.mechanical, version |-> v, fallback |-> fb,
              level |-> q.level, stability |-> q.stability, stable |-> q.stable,
              error |-> q.error]
    BY <2>2
  <2> HIDE DEF q2
  <2>4. q3 = [affected |-> q.affected, direct |-> q.direct, force |-> q.force,
              mechanical |-> q.mechanical, version |-> v, fallback |-> fb, level |-> lv,
              stability |-> q.stability, stable |-> q.stable, error |-> q.error]
    BY <2>3
  <2> HIDE DEF q3
  <2> QED BY <2>0, <2>4
<1> HIDE DEF drop, t
<1>6. v \in [Packages -> Versions] /\ fb \in [Packages -> Versions] /\ lv \in [Packages -> 0..3]
  <2>1. /\ q.version \in [Packages -> Versions] /\ q.fallback \in [Packages -> Versions]
        /\ q.level \in [Packages -> 0..3]
    BY <1>1, PlanParts
  <2> QED BY <1>3, <1>4, <2>1
<1>7. \A p \in Packages :
        /\ v[p] = IF p \in drop THEN t.version[p] ELSE q.version[p]
        /\ fb[p] = IF p \in drop THEN t.version[p] ELSE q.fallback[p]
        /\ lv[p] = IF p \in drop THEN 0 ELSE q.level[p]
  BY <1>4
<1> HIDE DEF v, fb, lv, new
<1>8. new \in Plans
  BY <1>1, <1>5, <1>6, PlanParts DEF Plans
<1>9. /\ new.affected = q.affected /\ new.direct = q.direct
      /\ new.version = v /\ new.fallback = fb /\ new.level = lv
  BY <1>5
<1>10. Fitting(ctx, request, new)
  BY <1>1, <1>7, <1>9 DEF Fitting, t
<1>11. ASSUME NEW p \in Packages PROVE ~Less(q.version[p], new.version[p])
  <2>1. /\ q.version[p] \in Versions /\ ~Less(q.version[p], t.version[p])
    BY <1>1, SoundRises DEF t
  <2> QED BY <2>1, <1>7, <1>9, LessOrder
<1>12. ASSUME NEW p \in affected, new.level[p] = 0
       PROVE  q.level[p] = 0 \/ (UnchangedContent(t, ctx.base, p) /\ p \notin OwnersOf(t, q))
  <2>1. p \in Packages
    BY <1>1, PlanParts
  <2> QED BY <2>1, <1>2, <1>7, <1>9, <1>12 DEF t
<1> QED BY <1>8, <1>9, <1>10, <1>11, <1>12, LoweredKeeps DEF t, new

\* How KeepCallers goes from one set of callers to the next.
KeptChain(r, t, first, k) ==
  [n \in 0..k |-> IF n = 0 THEN first ELSE KeepStep(t, first, r[n - 1])]

\* KeepCallers, all its rounds.
LEMMA KeepCallersKeeps ==
  ASSUME NEW ctx \in Contexts, Met(ctx.tree), NEW request \in Tasks, NEW affected, NEW direct,
         NEW q, Kept(ctx, request, affected, direct, q),
         \A p \in affected \ direct : UnchangedContent(ctx.tree, ctx.base, p)
  PROVE  Kept(ctx, request, affected, direct, KeepCallers(ctx.tree, q))
<1> DEFINE t == ctx.tree
           k == Rounds + 1
           r == CHOOSE f : f = KeptChain(f, t, q, k)
           X == {x \in Plans : Kept(ctx, request, affected, direct, x)}
           F == [n \in Nat |-> [x \in X |-> KeepStep(t, q, x)]]
<1>1. k \in Nat
  BY RoundsType
<1>2. q \in X /\ q.affected = affected /\ q.direct = direct
  BY DEF Kept
<1>3. ASSUME NEW x \in X PROVE KeepStep(t, q, x) \in X
  <2>1. Kept(ctx, request, affected, direct, KeepStep(t, q, x))
    BY <1>2, KeepStepKeeps
  <2>2. KeepStep(t, q, x) \in Plans
    BY <2>1 DEF Kept
  <2> QED BY <2>1, <2>2
<1>4. KeepCallers(t, q) = r[k]
  BY DEF KeepCallers, KeptChain, KeepStep, Dropped, Rounds
<1> HIDE DEF X, t, k
<1>5. r = KeptChain(r, t, q, k)
  <2>1. F \in [Nat -> [X -> X]]
    BY <1>3
  <2> HIDE DEF F
  <2>2. PICK f \in [0..k -> X] : f = Iterated(f, q, F, k)
    BY <1>1, <1>2, <2>1, ChainExists
  <2>3. ASSUME NEW n \in 0..k, n # 0 PROVE F[n][f[n - 1]] = KeepStep(t, q, f[n - 1])
    <3>1. n \in Nat /\ n - 1 \in 0..k
      BY <1>1, <2>3
    <3> QED BY <3>1 DEF F
  <2>4. f = KeptChain(f, t, q, k)
    BY <2>2, <2>3 DEF Iterated, KeptChain
  <2> QED BY <2>4
<1> HIDE DEF r
<1>6. r[0] = q
  BY <1>1, <1>5 DEF KeptChain
<1>7. ASSUME NEW n \in 0..(k - 1) PROVE r[n + 1] = KeepStep(t, q, r[n])
  <2>1. n + 1 \in 0..k /\ n + 1 # 0 /\ (n + 1) - 1 = n
    BY <1>1
  <2> QED BY <1>5, <2>1 DEF KeptChain
<1> DEFINE T == {n \in 0..k : r[n] \in X}
<1>8. 0 \in T /\ \A n \in 0..(k - 1) : n \in T => n + 1 \in T
  BY <1>1, <1>2, <1>3, <1>6, <1>7
<1> HIDE DEF T
<1>9. k \in T
  BY <1>1, <1>8, InductionTo
<1> QED BY <1>4, <1>9 DEF T, X, t

\* The packages whose checks fail, without the callers that follow.
Failed(q, failing) ==
  [q EXCEPT
      !.version   = [p \in Packages |-> IF p \in failing THEN q.fallback[p] ELSE @[p]],
      !.stability = [p \in Packages |-> IF p \in failing THEN "remains" ELSE @[p]]]

\* Packages that fail their checks fall back to versions that are closed the same way.
LEMMA FallBackKeeps ==
  ASSUME NEW ctx \in Contexts, Met(ctx.tree), NEW request \in Tasks, NEW affected, NEW direct,
         NEW q, Kept(ctx, request, affected, direct, q), NEW failing,
         \A p \in affected \ direct : UnchangedContent(ctx.tree, ctx.base, p)
  PROVE  Kept(ctx, request, affected, direct, FallBack(ctx.tree, q, failing))
<1> DEFINE v  == [p \in Packages |-> IF p \in failing THEN q.fallback[p] ELSE q.version[p]]
           st == [p \in Packages |-> IF p \in failing THEN "remains" ELSE q.stability[p]]
           n  == Failed(q, failing)
<1>1. q \in Plans /\ q.affected = affected /\ q.direct = direct /\ Fitting(ctx, request, q)
  BY DEF Kept
<1>2. n = [affected |-> q.affected, direct |-> q.direct, force |-> q.force,
          mechanical |-> q.mechanical, version |-> v, fallback |-> q.fallback,
          level |-> q.level, stability |-> st, stable |-> q.stable, error |-> q.error]
  <2> DEFINE q1 == [q EXCEPT !.version = v]
             q2 == [q1 EXCEPT !.stability = st]
  <2>0. n = q2
    BY DEF Failed
  <2> HIDE DEF n, v, st
  <2>1. q = [affected |-> q.affected, direct |-> q.direct, force |-> q.force,
              mechanical |-> q.mechanical, version |-> q.version, fallback |-> q.fallback,
              level |-> q.level, stability |-> q.stability, stable |-> q.stable,
              error |-> q.error]
    BY <1>1, PlanParts
  <2>2. q1 = [affected |-> q.affected, direct |-> q.direct, force |-> q.force,
              mechanical |-> q.mechanical, version |-> v, fallback |-> q.fallback,
              level |-> q.level, stability |-> q.stability, stable |-> q.stable,
              error |-> q.error]
    BY <2>1
  <2> HIDE DEF q1
  <2>3. q2 = [affected |-> q.affected, direct |-> q.direct, force |-> q.force,
              mechanical |-> q.mechanical, version |-> v, fallback |-> q.fallback,
              level |-> q.level, stability |-> st, stable |-> q.stable, error |-> q.error]
    BY <2>2
  <2> HIDE DEF q2
  <2> QED BY <2>0, <2>3
<1>3. v \in [Packages -> Versions] /\ st \in [Packages -> {"none", "eligible", "passed", "remains"}]
  <2>1. /\ q.version \in [Packages -> Versions] /\ q.fallback \in [Packages -> Versions]
        /\ q.stability \in [Packages -> {"none", "eligible", "passed", "remains"}]
    BY <1>1, PlanParts
  <2> QED BY <2>1
<1>4. \A p \in Packages : v[p] = IF p \in failing THEN q.fallback[p] ELSE q.version[p]
  OBVIOUS
<1> HIDE DEF v, st, n
<1>5. n \in Plans
  BY <1>1, <1>2, <1>3, PlanParts DEF Plans
<1>6. /\ n.affected = q.affected /\ n.direct = q.direct
      /\ n.version = v /\ n.fallback = q.fallback /\ n.level = q.level
  BY <1>2
<1>7. ASSUME NEW p \in Packages PROVE ~Less(q.version[p], n.version[p])
  BY <1>1, <1>4, <1>6, SoundRises, LessOrder
<1>8. Fitting(ctx, request, n)
  <2> SUFFICES ASSUME NEW p \in Packages
      PROVE IF n.level[p] = 0
            THEN n.version[p] = ctx.tree.version[p] /\ n.fallback[p] = ctx.tree.version[p]
            ELSE p \in n.affected /\ Fits(ctx.tree.version[p], ctx.floor[p],
                    request.analysis[p].breaking, n.version[p], n.fallback[p])
    BY DEF Fitting
  <2>1. q.fallback[p] \in Versions
    BY <1>1, SoundRises
  <2>2. n.version[p] = q.fallback[p] \/ n.version[p] = q.version[p]
    BY <1>4, <1>6
  <2> QED BY <1>1, <1>6, <2>1, <2>2, LessOrder DEF Fitting, Fits
<1>9. Kept(ctx, request, affected, direct, n)
  BY <1>1, <1>5, <1>6, <1>7, <1>8, LoweredKeeps
<1> QED BY <1>9, KeepCallersKeeps DEF FallBack, n, Failed

\* How Checked goes from one round of checks to the next.
CheckStep(t, failures, n, q) ==
  LET failing == failures[n] \cap Graduating(q)
  IN  IF failing = {} THEN q ELSE FallBack(t, q, failing)

CheckChain(r, t, start, failures, k) ==
  [n \in 0..k |-> IF n = 0 THEN start ELSE CheckStep(t, failures, n, r[n - 1])]

\* The checks of the final candidate, round after round.
LEMMA CheckedKeeps ==
  ASSUME NEW ctx \in Contexts, Met(ctx.tree), NEW request \in Tasks, NEW affected, NEW direct,
         NEW start, Kept(ctx, request, affected, direct, start), NEW failures,
         Len(failures) \in Nat,
         \A p \in affected \ direct : UnchangedContent(ctx.tree, ctx.base, p)
  PROVE  Kept(ctx, request, affected, direct, Checked(ctx.tree, start, failures))
<1> DEFINE t == ctx.tree
           k == Len(failures)
           r == CHOOSE f : f = CheckChain(f, t, start, failures, k)
           X == {x \in Plans : Kept(ctx, request, affected, direct, x)}
           F == [n \in Nat |-> [x \in X |-> CheckStep(t, failures, n, x)]]
           q == r[k]
           st == [p \in Packages |-> IF p \in Graduating(q) THEN "passed" ELSE q.stability[p]]
           n == Checked(t, start, failures)
<1>1. start \in X
  BY DEF Kept
<1>2. ASSUME NEW i, NEW x \in X PROVE CheckStep(t, failures, i, x) \in X
  <2>1. \A failing : Kept(ctx, request, affected, direct, FallBack(t, x, failing))
    BY FallBackKeeps
  <2>2. \A failing : FallBack(t, x, failing) \in Plans
    BY <2>1 DEF Kept
  <2> QED BY <2>1, <2>2 DEF CheckStep
<1>3. n = [q EXCEPT !.stability = st]
  BY DEF Checked, CheckChain, CheckStep
<1> HIDE DEF X, t, k, st, n
<1>4. r = CheckChain(r, t, start, failures, k)
  <2>1. F \in [Nat -> [X -> X]]
    BY <1>2
  <2> HIDE DEF F
  <2>5. k \in Nat
    BY DEF k
  <2>6. \E f \in [0..k -> X] : f = Iterated(f, start, F, k)
    <3> HIDE DEF r, q
    <3> QED BY <1>1, <2>1, <2>5, ChainExists, Z3
  <2>2. PICK f \in [0..k -> X] : f = Iterated(f, start, F, k)
    BY <2>6
  <2>3. ASSUME NEW i \in 0..k, i # 0 PROVE F[i][f[i - 1]] = CheckStep(t, failures, i, f[i - 1])
    <3>1. i \in Nat /\ i - 1 \in 0..k
      BY <2>3 DEF k
    <3> QED BY <3>1 DEF F
  <2>4. f = CheckChain(f, t, start, failures, k)
    BY <2>2, <2>3 DEF Iterated, CheckChain
  <2> QED BY <2>4
<1> HIDE DEF r
<1>5. r[0] = start
  BY <1>4 DEF CheckChain, k
<1>6. ASSUME NEW i \in 0..(k - 1) PROVE r[i + 1] = CheckStep(t, failures, i + 1, r[i])
  <2>1. i + 1 \in 0..k /\ i + 1 # 0 /\ (i + 1) - 1 = i
    BY DEF k
  <2> QED BY <1>4, <2>1 DEF CheckChain
<1> DEFINE T == {i \in 0..k : r[i] \in X}
<1>7. 0 \in T /\ \A i \in 0..(k - 1) : i \in T => i + 1 \in T
  BY <1>1, <1>2, <1>5, <1>6 DEF k
<1> HIDE DEF T
<1>8. k \in T
  <2>1. k \in Nat
    BY DEF k
  <2>2. 0..k \subseteq T
    BY <2>1, <1>7, InductionTo
  <2> QED BY <2>1, <2>2
<1>9. Kept(ctx, request, affected, direct, q) /\ q \in Plans
  BY <1>8 DEF T, X
<1> HIDE DEF q
<1>10. st \in [Packages -> {"none", "eligible", "passed", "remains"}]
  BY <1>9, PlanParts DEF st
<1>11. n = [affected |-> q.affected, direct |-> q.direct, force |-> q.force,
           mechanical |-> q.mechanical, version |-> q.version, fallback |-> q.fallback,
           level |-> q.level, stability |-> st, stable |-> q.stable, error |-> q.error]
  <2>1. q = [affected |-> q.affected, direct |-> q.direct, force |-> q.force,
             mechanical |-> q.mechanical, version |-> q.version, fallback |-> q.fallback,
             level |-> q.level, stability |-> q.stability, stable |-> q.stable,
             error |-> q.error]
    BY <1>9, PlanParts
  <2> QED BY <1>3, <2>1
<1>12. n \in Plans
  BY <1>9, <1>10, <1>11, PlanParts DEF Plans
<1>13. /\ n.affected = q.affected /\ n.direct = q.direct /\ n.version = q.version
       /\ n.fallback = q.fallback /\ n.level = q.level
  BY <1>11
<1>14. /\ Fitting(ctx, request, n) /\ OwnersOf(t, n) = OwnersOf(t, q)
       /\ \A p : Drawn(t, n, p) <=> Drawn(t, q, p)
  BY <1>9, <1>13 DEF Kept, Fitting, OwnersOf, Drawn, Moved
<1> QED BY <1>9, <1>12, <1>13, <1>14 DEF Kept, n, t

-----------------------------------------------------------------------------
(* Ledgers. *)

\* The places of the entries of a package, and the last of them.
EntriesOf(led, p) == {i \in 1..Len(led) : led[i].id = p}

IsLast(led, p, i) == i \in EntriesOf(led, p) /\ \A j \in EntriesOf(led, p) : j <= i

\* A package with an entry has a last one.
LEMMA LastExists ==
  ASSUME NEW led \in Seq(Entries), NEW p, EntriesOf(led, p) # {}
  PROVE  \E i : IsLast(led, p, i)
<1> DEFINE T == {Len(led) - i : i \in EntriesOf(led, p)}
<1>1. T \subseteq Nat /\ T # {}
  BY DEF EntriesOf
<1>2. PICK n \in T : \A m \in T : n <= m
  BY <1>1, LeastNumber
<1>3. PICK i \in EntriesOf(led, p) : n = Len(led) - i
  BY <1>2
<1>4. \A j \in EntriesOf(led, p) : Len(led) - i <= Len(led) - j
  BY <1>2, <1>3
<1>5. \A j \in EntriesOf(led, p) : j <= i
  BY <1>4 DEF EntriesOf
<1> QED BY <1>3, <1>5 DEF IsLast

\* Latest is the last entry of a package.
LEMMA LatestIs ==
  ASSUME NEW t, t.ledger \in Seq(Entries), NEW p, NEW i, IsLast(t.ledger, p, i)
  PROVE  Latest(t, p) = t.ledger[i] /\ Recorded(t, p)
<1> DEFINE led == t.ledger
           Q(k) == led[k].id = p /\ \A j \in (k + 1)..Len(led) : led[j].id # p
<1>1. led \in Seq(Entries) /\ IsLast(led, p, i) /\ DOMAIN led = 1..Len(led)
  OBVIOUS
<1>2. Latest(t, p) = led[CHOOSE k \in DOMAIN led : Q(k)]
  BY DEF Latest
<1> HIDE DEF led
<1>3. i \in 1..Len(led) /\ Q(i)
  BY <1>1 DEF IsLast, EntriesOf
<1>4. ASSUME NEW k \in 1..Len(led), Q(k) PROVE k = i
  <2>1. k <= i
    BY <1>1, <1>4 DEF IsLast, EntriesOf
  <2>2. ~(k < i)
    BY <1>1, <1>3, <1>4
  <2> QED BY <1>3, <2>1, <2>2
<1>5. (CHOOSE k \in DOMAIN led : Q(k)) = i
  <2> HIDE DEF Q
  <2> QED BY <1>1, <1>3, <1>4
<1>6. Recorded(t, p)
  BY <1>1, <1>3 DEF Recorded, led
<1> QED BY <1>2, <1>5, <1>6 DEF led

\* A package is recorded when it has an entry.
LEMMA RecordedIs ==
  ASSUME NEW t, t.ledger \in Seq(Entries), NEW p
  PROVE  Recorded(t, p) <=> EntriesOf(t.ledger, p) # {}
BY DEF Recorded, EntriesOf

\* The latest entry is one of the ledger, of the package asked for.
LEMMA LatestTyped ==
  ASSUME NEW t, t.ledger \in Seq(Entries), NEW p, Recorded(t, p)
  PROVE  /\ Latest(t, p) \in Entries /\ Latest(t, p).id = p
         /\ \E i \in 1..Len(t.ledger) : Latest(t, p) = t.ledger[i] /\ IsLast(t.ledger, p, i)
<1>1. PICK i : IsLast(t.ledger, p, i)
  BY RecordedIs, LastExists
<1>2. i \in 1..Len(t.ledger) /\ t.ledger[i].id = p
  BY <1>1 DEF IsLast, EntriesOf
<1>3. t.ledger[i] \in Entries /\ i \in 1..Len(t.ledger)
  BY <1>2
<1>4. Latest(t, p) = t.ledger[i]
  BY <1>1, LatestIs
<1> QED BY <1>1, <1>2, <1>3, <1>4

\* What a longer ledger says of a package none of its new entries is about.
LEMMA LatestKept ==
  ASSUME NEW s, NEW t, s.ledger \in Seq(Entries), t.ledger \in Seq(Entries),
         Extends(t.ledger, s.ledger), NEW p,
         \A i \in (Len(s.ledger) + 1)..Len(t.ledger) : t.ledger[i].id # p
  PROVE  /\ Recorded(t, p) <=> Recorded(s, p)
         /\ Recorded(s, p) => Latest(t, p) = Latest(s, p)
<1> DEFINE old == s.ledger
           led == t.ledger
<1>1. /\ old \in Seq(Entries) /\ led \in Seq(Entries) /\ Len(led) >= Len(old)
      /\ Len(old) \in Nat /\ Len(led) \in Nat
  BY DEF Extends
<1>2. \A i \in 1..Len(old) : led[i] = old[i]
  <2>1. SubSeq(led, 1, Len(old)) = old
    BY DEF Extends
  <2>2. \A i \in 1..Len(old) : SubSeq(led, 1, Len(old))[i] = led[i]
    BY <1>1
  <2> QED BY <2>1, <2>2
<1>3. \A i \in (Len(old) + 1)..Len(led) : led[i].id # p
  OBVIOUS
<1> HIDE DEF old, led
<1>4. EntriesOf(led, p) = EntriesOf(old, p)
  BY <1>1, <1>2, <1>3 DEF EntriesOf
<1>5. Recorded(t, p) <=> Recorded(s, p)
  BY <1>4, RecordedIs DEF old, led
<1>6. ASSUME Recorded(s, p) PROVE Latest(t, p) = Latest(s, p)
  <2>1. PICK i \in 1..Len(old) : Latest(s, p) = old[i] /\ IsLast(old, p, i)
    BY <1>6, LatestTyped DEF old
  <2>2. IsLast(led, p, i)
    BY <1>4, <2>1 DEF IsLast
  <2>3. Latest(t, p) = led[i]
    BY <2>2, LatestIs DEF led
  <2> QED BY <1>2, <2>1, <2>3
<1> QED BY <1>5, <1>6

\* A ledger extends another when it begins with it.
LEMMA ExtendsIs ==
  ASSUME NEW old \in Seq(Entries), NEW led \in Seq(Entries)
  PROVE  /\ Extends(led, old) <=> Len(led) >= Len(old) /\ \A i \in 1..Len(old) : led[i] = old[i]
         /\ Extends(old, old)
<1>1. ASSUME NEW b \in Seq(Entries), Len(led) >= Len(b) /\ \A i \in 1..Len(b) : led[i] = b[i]
      PROVE  SubSeq(led, 1, Len(b)) = b
  <2>1. Len(b) \in Nat /\ Len(led) \in Nat
    OBVIOUS
  <2>2. SubSeq(led, 1, Len(b)) = [i \in 1..Len(b) |-> led[i]]
    BY <2>1
  <2>3. b = [i \in 1..Len(b) |-> b[i]]
    OBVIOUS
  <2> QED BY <1>1, <2>2, <2>3
<1>2. ASSUME Extends(led, old) PROVE \A i \in 1..Len(old) : led[i] = old[i]
  <2>1. SubSeq(led, 1, Len(old)) = old /\ Len(led) >= Len(old)
    BY <1>2 DEF Extends
  <2>2. \A i \in 1..Len(old) : SubSeq(led, 1, Len(old))[i] = led[i]
    BY <2>1
  <2> QED BY <2>1, <2>2
<1>3. Extends(old, old)
  BY DEF Extends
<1> QED BY <1>1, <1>2, <1>3 DEF Extends

-----------------------------------------------------------------------------
(* The tree a develop leaves. *)

\* The types of what is recorded of a package.
LEMMA FingerprintTyped ==
  ASSUME NEW t \in Trees, NEW p \in Packages
  PROVE  Content(t, p) \in Manifests /\ Fingerprint(t, p) \in Prints
<1>1. ASSUME NEW q \in Packages PROVE Content(t, q) \in Manifests
  <2> DEFINE F == {f \in Edges : f[1] = q}
             r == [e \in F |-> t.req[e]]
  <2>1. F \in SUBSET Edges
    OBVIOUS
  <2>2. r \in [F -> Requirement]
    <3>1. \A e \in F : t.req[e] \in Requirement
      BY TreeParts
    <3> HIDE DEF F
    <3> QED BY <3>1
  <2>3. r \in UNION {[G -> Requirement] : G \in SUBSET Edges}
    <3> HIDE DEF F, r
    <3> QED BY <2>1, <2>2
  <2>4. t.content[q] \in Nat /\ t.version[q] \in Versions /\ (q \notin t.inherited) \in BOOLEAN
    BY TreeParts
  <2>5. Content(t, q) = [files |-> t.content[q], version |-> t.version[q],
                         literal |-> q \notin t.inherited, requires |-> r]
    BY DEF Content
  <2> HIDE DEF r
  <2> QED BY <2>3, <2>4, <2>5 DEF Manifests
<1> DEFINE S == DependencyScope[p]
           d == [q \in S |-> Content(t, q)]
           b == Build(t, p)
<1>2. S \in SUBSET Packages
  BY ScopeHolds
<1>3. d \in UNION {[X -> Manifests] : X \in SUBSET Packages}
  <2>1. \A q \in S : Content(t, q) \in Manifests
    BY <1>1, <1>2
  <2> HIDE DEF S
  <2>2. d \in [S -> Manifests]
    BY <2>1
  <2> HIDE DEF d
  <2> QED BY <1>2, <2>2
<1>4. b \in UNION {[X -> Versions \X Nat] : X \in SUBSET Packages}
  <2>1. \A q \in S : <<t.version[q], t.lock[q]>> \in Versions \X Nat
    BY <1>2, TreeParts
  <2>2. b = [q \in S |-> <<t.version[q], t.lock[q]>>]
    BY DEF Build
  <2> HIDE DEF S, b
  <2>3. b \in [S -> Versions \X Nat]
    BY <2>1, <2>2
  <2> QED BY <1>2, <2>3
<1>5. Fingerprint(t, p) = [content |-> Content(t, p), dependencies |-> d, build |-> b]
  BY DEF Fingerprint
<1>6. Content(t, p) \in Manifests
  BY <1>1
<1> HIDE DEF d, b
<1> QED BY <1>3, <1>4, <1>5, <1>6 DEF Prints

\* The tree a plan is closed with, and the entry of a package it closes.
CandidateOf(t, q) ==
  [t EXCEPT !.version = q.version, !.req = Render(t, q.affected, q.version), !.inherited = {}]

EntryOf(ctx, request, q, p) ==
  [id |-> p,
   before |-> IF Recorded(ctx.tree, p) THEN Latest(ctx.tree, p).after ELSE ctx.base.version[p],
   after |-> q.version[p], print |-> Fingerprint(CandidateOf(ctx.tree, q), p),
   level |-> q.level[p], breaking |-> request.analysis[p].breaking,
   impacted |-> \E e \in request.impacts : e[1] = p,
   stability |-> q.stability[p]]

\* The candidate has the versions of the plan, and rewrites requirements of the owners only.
LEMMA CandidateTyped ==
  ASSUME NEW t \in Trees, NEW q \in Plans, ~CannotFollow(t, q.affected, q.version)
  PROVE  LET c == CandidateOf(t, q)
         IN  /\ c \in Trees
             /\ c.version = q.version /\ c.req = Render(t, q.affected, q.version)
             /\ c.inherited = {} /\ c.content = t.content /\ c.lock = t.lock
             /\ c.other = t.other /\ c.product = t.product /\ c.ledger = t.ledger
             /\ \A e \in Edges : c.req[e] = t.req[e] \/ e[1] \in OwnersOf(t, q)
<1> DEFINE c == CandidateOf(t, q)
           req == Render(t, q.affected, q.version)
<1>1. q.version \in [Packages -> Versions] /\ q.affected \in SUBSET Packages
  BY PlanParts
<1>2. req \in [Edges -> Requirement]
  <2>1. ASSUME NEW e \in Edges
        PROVE (IF e[2] \in q.affected /\ ~Accepts(t.req[e], q.version[e[2]])
               THEN UpdatedRequirement(t.req[e], q.version[e[2]]) ELSE t.req[e]) \in Requirement
    <3>1. t.req[e] \in Requirement /\ e[2] \in Packages /\ q.version[e[2]] \in Versions
      BY <1>1, TreeParts, EdgeEnds
    <3>2. e[2] \in q.affected /\ ~Accepts(t.req[e], q.version[e[2]]) => Rewritable(t.req[e])
      BY DEF CannotFollow
    <3> QED BY <3>1, <3>2, RewrittenAccepts
  <2> QED BY <2>1 DEF Render
<1>3. \A e \in Edges : req[e] = t.req[e] \/ e[1] \in OwnersOf(t, q)
  BY DEF OwnersOf, RequirementOwners
<1> HIDE DEF req
<1>4. /\ c.version = q.version /\ c.req = req
      /\ c.inherited = {} /\ c.content = t.content /\ c.lock = t.lock
      /\ c.other = t.other /\ c.product = t.product /\ c.ledger = t.ledger
  BY DEF CandidateOf, Trees, req
<1>5. c = [t EXCEPT !.version = q.version, !.req = req, !.inherited = {}]
  BY DEF CandidateOf, req
<1>6. {} \in SUBSET Packages
  OBVIOUS
<1>7. c \in Trees
  BY <1>1, <1>2, <1>5, <1>6 DEF Trees
<1> QED BY <1>3, <1>4, <1>7 DEF req

\* Every requirement accepts the candidate's versions.
LEMMA CandidateMet ==
  ASSUME NEW ctx \in Contexts, Met(ctx.tree), NEW request \in Tasks, NEW affected, NEW direct,
         NEW q, Kept(ctx, request, affected, direct, q)
  PROVE  Met(CandidateOf(ctx.tree, q))
<1> DEFINE t == ctx.tree
           c == CandidateOf(t, q)
<1>1. /\ q \in Plans /\ q.affected = affected /\ Fitting(ctx, request, q)
      /\ ~CannotFollow(t, q.affected, q.version) /\ t \in Trees
  BY ContextParts DEF Kept
<1>2. c.version = q.version /\ c.req = Render(t, q.affected, q.version)
  BY <1>1, CandidateTyped
<1> HIDE DEF c
<1>3. ASSUME NEW e \in Edges PROVE Accepts(c.req[e], c.version[e[2]])
  <2>1. e[2] \in Packages /\ t.req[e] \in Requirement /\ q.version[e[2]] \in Versions
    <3>1. e[2] \in Packages
      BY EdgeEnds
    <3>2. t.req[e] \in Requirement
      BY <1>1, TreeParts
    <3>3. q.version[e[2]] \in Versions
      BY <1>1, <3>1, PlanParts
    <3> QED BY <3>1, <3>2, <3>3
  <2>2. CASE e[2] \in q.affected /\ ~Accepts(t.req[e], q.version[e[2]])
    <3>1. Rewritable(t.req[e])
      BY <1>1, <2>2 DEF CannotFollow
    <3>2. c.req[e] = UpdatedRequirement(t.req[e], q.version[e[2]])
      BY <1>2, <2>2 DEF Render
    <3> QED BY <1>2, <2>1, <3>1, <3>2, RewrittenAccepts
  <2>3. CASE e[2] \in q.affected /\ Accepts(t.req[e], q.version[e[2]])
    BY <1>2, <2>3 DEF Render
  <2>4. CASE e[2] \notin q.affected
    <3>1. q.version[e[2]] = t.version[e[2]]
      BY <1>1, <2>1, <2>4 DEF Fitting
    <3>2. c.req[e] = t.req[e]
      BY <1>2, <2>4 DEF Render
    <3> QED BY <1>2, <3>1, <3>2 DEF Met
  <2> QED BY <2>2, <2>3, <2>4
<1> QED BY <1>3 DEF Met, c

\* The order in which Closed records the affected packages.
Listing(A, s) == s \in [1..Cardinality(A) -> A] /\ \A p \in A : \E i \in DOMAIN s : s[i] = p

\* A set of packages can be listed, because it is finite.
LEMMA ListingExists ==
  ASSUME NEW A \in SUBSET Packages
  PROVE  Cardinality(A) \in Nat /\ \E s : Listing(A, s)
<1>1. IsFiniteSet(A)
  BY PackagesAssumption, FS_Subset
<1>2. Cardinality(A) \in Nat /\ \E f : f \in Bijection(1..Cardinality(A), A)
  BY <1>1, FS_CardinalityType DEF ExistsBijection
<1>3. PICK f : f \in Bijection(1..Cardinality(A), A)
  BY <1>2
<1>4. f \in [1..Cardinality(A) -> A] /\ \A p \in A : \E i \in 1..Cardinality(A) : f[i] = p
  BY <1>3 DEF Bijection, Injection, Surjection, IsInjective
<1>5. Listing(A, f)
  BY <1>4 DEF Listing
<1> QED BY <1>2, <1>5

\* The type of a new entry.
LEMMA EntryTyped ==
  ASSUME NEW ctx \in Contexts, NEW request \in Tasks, NEW q \in Plans,
         ~CannotFollow(ctx.tree, q.affected, q.version), NEW p \in Packages
  PROVE  EntryOf(ctx, request, q, p) \in Entries
<1> DEFINE e == EntryOf(ctx, request, q, p)
           b == IF Recorded(ctx.tree, p) THEN Latest(ctx.tree, p).after ELSE ctx.base.version[p]
           f == Fingerprint(CandidateOf(ctx.tree, q), p)
           i == \E x \in request.impacts : x[1] = p
<1>1. b \in Versions
  <2>1. ctx.tree.ledger \in Seq(Entries) /\ ctx.base.version[p] \in Versions
    BY ContextParts, TreeParts
  <2>2. Recorded(ctx.tree, p) => Latest(ctx.tree, p) \in Entries
    BY <2>1, LatestTyped
  <2>3. \A x \in Entries : x.after \in Versions
    BY DEF Entries
  <2> QED BY <2>1, <2>2, <2>3
<1>2. f \in Prints
  <2>1. CandidateOf(ctx.tree, q) \in Trees
    BY ContextParts, CandidateTyped
  <2> QED BY <2>1, FingerprintTyped
<1>3. i \in BOOLEAN
  OBVIOUS
<1>4. request.analysis[p] \in Analyses
  BY TaskParts
<1>5. request.analysis[p].breaking \in BOOLEAN
  BY <1>4 DEF Analyses
<1>6. /\ q.version[p] \in Versions /\ q.level[p] \in 0..3
      /\ q.stability[p] \in {"none", "eligible", "passed", "remains"}
  BY PlanParts
<1>7. e = [id |-> p, before |-> b, after |-> q.version[p], print |-> f, level |-> q.level[p],
           breaking |-> request.analysis[p].breaking, impacted |-> i, stability |-> q.stability[p]]
  BY DEF EntryOf
<1> HIDE DEF e, b, f, i
<1>8. e \in Entries
  BY <1>1, <1>2, <1>3, <1>5, <1>6, <1>7 DEF Entries
<1> QED BY <1>8 DEF e

\* What a develop leaves: the candidate, with one new entry for every affected package.
LEMMA ClosedIs ==
  ASSUME NEW ctx \in Contexts, NEW request \in Tasks, NEW q \in Plans,
         ~CannotFollow(ctx.tree, q.affected, q.version)
  PROVE  LET c   == Closed(ctx, request, q)
             d   == CandidateOf(ctx.tree, q)
             old == ctx.tree.ledger
         IN  /\ c \in Trees
             /\ c.version = d.version /\ c.req = d.req /\ c.inherited = d.inherited
             /\ c.content = d.content /\ c.lock = d.lock /\ c.other = d.other
             /\ c.product = d.product
             /\ Extends(c.ledger, old)
             /\ \A i \in (Len(old) + 1)..Len(c.ledger) :
                   \E p \in q.affected : c.ledger[i] = EntryOf(ctx, request, q, p)
             /\ \A p \in q.affected :
                   \E i \in (Len(old) + 1)..Len(c.ledger) : c.ledger[i] = EntryOf(ctx, request, q, p)
             /\ \A i, j \in (Len(old) + 1)..Len(c.ledger) :
                   c.ledger[i].id = c.ledger[j].id => i = j
<1> DEFINE d   == CandidateOf(ctx.tree, q)
           old == ctx.tree.ledger
           A   == q.affected
           n   == Cardinality(A)
           s   == CHOOSE x \in [1..n -> A] : \A p \in A : \E i \in DOMAIN x : x[i] = p
           new == [i \in 1..n |-> EntryOf(ctx, request, q, s[i])]
           led == old \o new
           c   == Closed(ctx, request, q)
<1>1. A \in SUBSET Packages /\ old \in Seq(Entries) /\ d \in Trees /\ d.ledger = old
  BY PlanParts, ContextParts, TreeParts, CandidateTyped
<1>2. n \in Nat /\ s \in [1..n -> A] /\ \A p \in A : \E i \in 1..n : s[i] = p
  <2> HIDE DEF A, n
  <2>1. Cardinality(A) \in Nat /\ \E x : Listing(A, x)
    BY <1>1, ListingExists
  <2>2. \E x \in [1..n -> A] : \A p \in A : \E i \in DOMAIN x : x[i] = p
    BY <2>1 DEF Listing, n
  <2>3. s \in [1..n -> A] /\ \A p \in A : \E i \in DOMAIN s : s[i] = p
    BY <2>2
  <2> QED BY <2>1, <2>3 DEF n
<1>13. \A i, j \in 1..n : s[i] = s[j] => i = j
  <2>1. s \in Surjection(1..n, A)
    BY <1>2 DEF Surjection
  <2>2. IsFiniteSet(1..n) /\ Cardinality(1..n) = n
    BY <1>2, FS_Interval
  <2> HIDE DEF s
  <2>3. s \in Injection(1..n, A)
    BY <2>1, <2>2, FS_SurjSameCardinalityImpliesInj
  <2> QED BY <2>3 DEF Injection, IsInjective
<1>3. c = [d EXCEPT !.ledger = @ \o [i \in DOMAIN s |-> EntryOf(ctx, request, q, s[i])]]
  BY DEF Closed, CandidateOf, EntryOf, Printed
<1>4. DOMAIN s = 1..n
  BY <1>2
<1> HIDE DEF d, old, A, n, s, c
<1>5. c = [d EXCEPT !.ledger = led]
  BY <1>1, <1>3, <1>4
<1>6. \A p \in A : EntryOf(ctx, request, q, p) \in Entries
  BY <1>1, EntryTyped
<1>7. new \in Seq(Entries) /\ Len(new) = n /\ \A i \in 1..n : new[i] = EntryOf(ctx, request, q, s[i])
  <2>1. new \in [1..n -> Entries]
    BY <1>2, <1>6
  <2> QED BY <1>2, <2>1
<1> HIDE DEF new
<1>8. /\ led \in Seq(Entries) /\ Len(led) = Len(old) + n /\ Len(old) \in Nat
      /\ \A i \in 1..Len(old) : led[i] = old[i]
      /\ \A i \in 1..n : led[Len(old) + i] = new[i]
  <2>1. old \in Seq(Entries) /\ new \in Seq(Entries) /\ Len(new) = n
    BY <1>1, <1>7
  <2>2. led \in Seq(Entries) /\ Len(led) = Len(old) + n /\ Len(old) \in Nat
    BY <2>1
  <2>3. \A i \in 1..Len(led) : led[i] = IF i <= Len(old) THEN old[i] ELSE new[i - Len(old)]
    BY <2>1
  <2> HIDE DEF led
  <2>4. ASSUME NEW i \in 1..n PROVE led[Len(old) + i] = new[i]
    <3>1. Len(old) + i \in 1..Len(led) /\ ~(Len(old) + i <= Len(old)) /\ (Len(old) + i) - Len(old) = i
      BY <1>2, <2>2
    <3> QED BY <2>3, <3>1
  <2>5. ASSUME NEW i \in 1..Len(old) PROVE led[i] = old[i]
    <3>1. i \in 1..Len(led) /\ i <= Len(old)
      BY <1>2, <2>2
    <3> QED BY <2>3, <3>1
  <2> QED BY <2>2, <2>4, <2>5
<1> HIDE DEF led
<1>9. /\ c \in Trees /\ c.ledger = led
      /\ c.version = d.version /\ c.req = d.req /\ c.inherited = d.inherited
      /\ c.content = d.content /\ c.lock = d.lock /\ c.other = d.other
      /\ c.product = d.product
  BY <1>1, <1>5, <1>8 DEF Trees
<1>10. Extends(c.ledger, old)
  BY <1>1, <1>2, <1>8, <1>9, ExtendsIs
<1>11. ASSUME NEW i \in (Len(old) + 1)..Len(c.ledger)
       PROVE  \E p \in A : c.ledger[i] = EntryOf(ctx, request, q, p)
  <2>1. i - Len(old) \in 1..n /\ Len(old) + (i - Len(old)) = i
    BY <1>2, <1>8, <1>9
  <2>2. c.ledger[i] = EntryOf(ctx, request, q, s[i - Len(old)]) /\ s[i - Len(old)] \in A
    BY <2>1, <1>2, <1>7, <1>8, <1>9
  <2> QED BY <2>2
<1>12. ASSUME NEW p \in A
       PROVE  \E i \in (Len(old) + 1)..Len(c.ledger) : c.ledger[i] = EntryOf(ctx, request, q, p)
  <2>1. PICK i \in 1..n : s[i] = p
    BY <1>2
  <2>2. Len(old) + i \in (Len(old) + 1)..Len(c.ledger)
    BY <1>2, <1>8, <1>9
  <2>3. c.ledger[Len(old) + i] = EntryOf(ctx, request, q, p)
    BY <2>1, <1>7, <1>8, <1>9
  <2> QED BY <2>2, <2>3
<1>14. ASSUME NEW i \in (Len(old) + 1)..Len(c.ledger), NEW j \in (Len(old) + 1)..Len(c.ledger),
              c.ledger[i].id = c.ledger[j].id
       PROVE  i = j
  <2>1. /\ i - Len(old) \in 1..n /\ Len(old) + (i - Len(old)) = i
        /\ j - Len(old) \in 1..n /\ Len(old) + (j - Len(old)) = j
    BY <1>2, <1>8, <1>9
  <2>2. /\ c.ledger[i] = EntryOf(ctx, request, q, s[i - Len(old)])
        /\ c.ledger[j] = EntryOf(ctx, request, q, s[j - Len(old)])
    BY <2>1, <1>2, <1>7, <1>8, <1>9
  <2>3. \A p : EntryOf(ctx, request, q, p).id = p
    BY DEF EntryOf
  <2>4. i - Len(old) = j - Len(old)
    BY <1>13, <1>14, <2>1, <2>2, <2>3
  <2> QED BY <1>2, <1>8, <2>1, <2>4
<1> QED BY <1>9, <1>10, <1>11, <1>12, <1>14 DEF c, d, old, A

\* What the new ledger says of each package.
LEMMA ClosedLatest ==
  ASSUME NEW ctx \in Contexts, NEW request \in Tasks, NEW q \in Plans,
         ~CannotFollow(ctx.tree, q.affected, q.version), NEW p \in Packages
  PROVE  LET c == Closed(ctx, request, q)
         IN  /\ p \in q.affected =>
                  Recorded(c, p) /\ Latest(c, p) = EntryOf(ctx, request, q, p)
             /\ p \notin q.affected =>
                  /\ Recorded(c, p) <=> Recorded(ctx.tree, p)
                  /\ Recorded(c, p) => Latest(c, p) = Latest(ctx.tree, p)
<1> DEFINE c   == Closed(ctx, request, q)
           t   == ctx.tree
           old == t.ledger
           E(x) == EntryOf(ctx, request, q, x)
<1>1. /\ c \in Trees /\ Extends(c.ledger, old)
      /\ \A i \in (Len(old) + 1)..Len(c.ledger) : \E x \in q.affected : c.ledger[i] = E(x)
      /\ \A x \in q.affected : \E i \in (Len(old) + 1)..Len(c.ledger) : c.ledger[i] = E(x)
  BY ClosedIs
<1>2. c.ledger \in Seq(Entries) /\ old \in Seq(Entries)
  BY <1>1, ContextParts, TreeParts
<1>3. \A x : E(x).id = x
  BY DEF EntryOf
<1> HIDE DEF c, E, t
<1>4. ASSUME p \in q.affected PROVE Recorded(c, p) /\ Latest(c, p) = E(p)
  <2>1. PICK i \in (Len(old) + 1)..Len(c.ledger) : c.ledger[i] = E(p)
    BY <1>1, <1>4
  <2>2. i \in EntriesOf(c.ledger, p)
    BY <1>2, <1>3, <2>1 DEF EntriesOf
  <2>3. Recorded(c, p)
    BY <1>2, <2>2, RecordedIs
  <2>4. PICK j \in 1..Len(c.ledger) : Latest(c, p) = c.ledger[j] /\ IsLast(c.ledger, p, j)
    BY <1>2, <2>3, LatestTyped
  <2>5. j >= i /\ c.ledger[j].id = p
    BY <2>2, <2>4 DEF IsLast, EntriesOf
  <2>6. j \in (Len(old) + 1)..Len(c.ledger)
    BY <1>2, <2>1, <2>4, <2>5
  <2>7. c.ledger[j] = E(p)
    BY <1>1, <1>3, <2>5, <2>6
  <2> QED BY <2>3, <2>4, <2>7
<1>5. ASSUME p \notin q.affected
      PROVE  /\ Recorded(c, p) <=> Recorded(t, p)
             /\ Recorded(c, p) => Latest(c, p) = Latest(t, p)
  <2>1. \A i \in (Len(old) + 1)..Len(c.ledger) : c.ledger[i].id # p
    BY <1>1, <1>3, <1>5
  <2> QED BY <1>1, <1>2, <2>1, LatestKept
<1> QED BY <1>4, <1>5 DEF c, E, t

-----------------------------------------------------------------------------
(* What is true of a tree and the release it builds on. *)

\* The versions are those of the last entries, or still the ones of the base.
VersionsRecorded(t, b) ==
  \A p \in Packages :
     t.version[p] = IF Recorded(t, p) THEN Latest(t, p).after ELSE b.version[p]

\* An entry since the base: its versions lie between that of the base and that of the tree,
\* and a breaking one makes the breaking bump.
Rises(t, b, e) ==
  /\ ~Less(e.before, b.version[e.id]) /\ ~Less(t.version[e.id], e.after)
  /\ ~Less(e.after, e.before)
  /\ e.breaking /\ e.level > 0 => ~Less(e.after, BumpNative(e.before, BreakingLevel(e.before)))

\* The ledger accounts for all that happened to the versions since the base.
Tracked(t, b) ==
  /\ t.product = b.product
  /\ Extends(t.ledger, b.ledger)
  /\ VersionsRecorded(t, b)
  /\ \A p \in Packages : ~Less(t.version[p], b.version[p])
  /\ \A i \in (Len(b.ledger) + 1)..Len(t.ledger) : Rises(t, b, t.ledger[i])

\* Every package is as its last entry says.
Validated(t) ==
  \A p \in Packages : Recorded(t, p) =>
     Latest(t, p).after = t.version[p] /\ Latest(t, p).print = Fingerprint(t, p)

\* What a package was closed or published with.
ClosedContent(t, b, p) == IF Recorded(t, p) THEN Latest(t, p).print.content ELSE Content(b, p)

\* Two manifests with the same files and requirements.
Alike(one, two) == one.files = two.files /\ one.requires = two.requires

\* The formal releases of a history.
FormalIn(h) == {i \in DOMAIN h : h[i].withdrawn = 0}

\* A version that a formal release has given to a package stands for what the
\* package was closed with.
NumbersKept(h, t, b) ==
  \A i \in FormalIn(h) : \A p \in Packages : h[i].tree.version[p] = t.version[p] =>
     Alike(Content(h[i].tree, p), ClosedContent(t, b, p))

\* No formal release is above the floor and the base.
Floored(h, floor, b) ==
  \A i \in FormalIn(h) : \A p \in Packages :
     ~Less(Later(floor[p], b.version[p]), h[i].tree.version[p])

-----------------------------------------------------------------------------
(* develop keeps it. *)

\* Extends is transitive.
LEMMA ExtendsChain ==
  ASSUME NEW a \in Seq(Entries), NEW b \in Seq(Entries), NEW c \in Seq(Entries),
         Extends(c, b), Extends(b, a)
  PROVE  Extends(c, a)
<1>1. Len(c) >= Len(b) /\ \A i \in 1..Len(b) : c[i] = b[i]
  BY ExtendsIs
<1>2. Len(b) >= Len(a) /\ \A i \in 1..Len(a) : b[i] = a[i]
  BY ExtendsIs
<1>3. Len(a) \in Nat /\ Len(b) \in Nat /\ Len(c) \in Nat
  OBVIOUS
<1>4. Len(c) >= Len(a)
  BY <1>1, <1>2, <1>3
<1>5. ASSUME NEW i \in 1..Len(a) PROVE c[i] = a[i]
  <2>1. i \in 1..Len(b)
    BY <1>2, <1>3
  <2> QED BY <1>1, <1>2, <2>1
<1> QED BY <1>4, <1>5, ExtendsIs

\* A new entry goes on from the version of its package and rises as its level says.
LEMMA EntryFits ==
  ASSUME NEW ctx \in Contexts, NEW request \in Tasks, NEW q \in Plans, Fitting(ctx, request, q),
         Tracked(ctx.tree, ctx.base), NEW p \in Packages
  PROVE  LET e == EntryOf(ctx, request, q, p)
         IN  /\ e.id = p /\ e.before = ctx.tree.version[p] /\ e.after = q.version[p]
             /\ e.level = q.level[p]
             /\ ~Less(e.after, e.before)
             /\ e.breaking /\ e.level > 0 =>
                   ~Less(e.after, BumpNative(e.before, BreakingLevel(e.before)))
<1> DEFINE e == EntryOf(ctx, request, q, p)
           t == ctx.tree
<1>1. /\ e.id = p /\ e.after = q.version[p] /\ e.level = q.level[p]
      /\ e.breaking = request.analysis[p].breaking
      /\ e.before = IF Recorded(t, p) THEN Latest(t, p).after ELSE ctx.base.version[p]
  BY DEF EntryOf
<1>2. e.before = t.version[p]
  BY <1>1 DEF Tracked, VersionsRecorded
<1> HIDE DEF e
<1>3. /\ ~Less(q.version[p], t.version[p]) /\ ~Less(q.version[p], q.fallback[p])
      /\ q.version[p] \in Versions /\ q.fallback[p] \in Versions /\ t.version[p] \in Versions
  BY SoundRises
<1>4. ASSUME e.breaking, e.level > 0
      PROVE  ~Less(e.after, BumpNative(e.before, BreakingLevel(e.before)))
  <2>1. q.level[p] # 0
    BY <1>1, <1>4
  <2>2. ~Less(q.fallback[p], BumpNative(t.version[p], BreakingLevel(t.version[p])))
    BY <1>1, <1>4, <2>1 DEF Fitting, Fits
  <2>3. BreakingLevel(t.version[p]) \in 1..3
    BY DEF BreakingLevel
  <2>4. BumpNative(t.version[p], BreakingLevel(t.version[p])) \in Versions
    BY <1>3, <2>3, BumpGrows
  <2> QED BY <1>1, <1>2, <1>3, <2>2, <2>4, LessOrder
<1> QED BY <1>1, <1>2, <1>3, <1>4 DEF e

\* A develop leaves a tree that is tracked by its ledger.
LEMMA DevelopTracks ==
  ASSUME NEW ctx \in Contexts, NEW request \in Tasks, NEW affected, NEW direct, NEW q,
         Kept(ctx, request, affected, direct, q), Tracked(ctx.tree, ctx.base)
  PROVE  Tracked(Closed(ctx, request, q), ctx.base)
<1> DEFINE t   == ctx.tree
           b   == ctx.base
           c   == Closed(ctx, request, q)
           old == t.ledger
           E(p) == EntryOf(ctx, request, q, p)
<1>1. /\ q \in Plans /\ q.affected = affected /\ Fitting(ctx, request, q)
      /\ ~CannotFollow(t, q.affected, q.version) /\ t \in Trees /\ b \in Trees
  BY ContextParts DEF Kept
<1>2. /\ c \in Trees /\ c.version = q.version /\ c.product = t.product
      /\ Extends(c.ledger, old)
      /\ \A i \in (Len(old) + 1)..Len(c.ledger) : \E p \in q.affected : c.ledger[i] = E(p)
  BY <1>1, ClosedIs, CandidateTyped
<1>3. \A p \in Packages :
         /\ p \in q.affected => Recorded(c, p) /\ Latest(c, p) = E(p)
         /\ p \notin q.affected => /\ Recorded(c, p) <=> Recorded(t, p)
                                   /\ Recorded(c, p) => Latest(c, p) = Latest(t, p)
  BY <1>1, ClosedLatest
<1>4. \A p \in Packages :
         /\ E(p).id = p /\ E(p).before = t.version[p] /\ E(p).after = q.version[p]
         /\ ~Less(E(p).after, E(p).before)
         /\ E(p).breaking /\ E(p).level > 0 =>
               ~Less(E(p).after, BumpNative(E(p).before, BreakingLevel(E(p).before)))
  BY <1>1, EntryFits
<1>5. \A p \in Packages : /\ ~Less(q.version[p], t.version[p])
                          /\ q.version[p] \in Versions /\ t.version[p] \in Versions
  BY <1>1, SoundRises
<1>6. /\ old \in Seq(Entries) /\ b.ledger \in Seq(Entries) /\ c.ledger \in Seq(Entries)
      /\ b.version \in [Packages -> Versions]
  BY <1>1, <1>2, TreeParts
<1>7. /\ t.product = b.product /\ Extends(old, b.ledger) /\ VersionsRecorded(t, b)
      /\ \A p \in Packages : ~Less(t.version[p], b.version[p])
      /\ \A i \in (Len(b.ledger) + 1)..Len(old) : Rises(t, b, old[i])
  BY DEF Tracked
<1> HIDE DEF c, E, t, b
<1>8. Extends(c.ledger, b.ledger)
  BY <1>2, <1>6, <1>7, ExtendsChain
<1>9. VersionsRecorded(c, b)
  <2> SUFFICES ASSUME NEW p \in Packages
               PROVE  c.version[p] = IF Recorded(c, p) THEN Latest(c, p).after ELSE b.version[p]
    BY DEF VersionsRecorded
  <2>1. CASE p \in q.affected
    BY <2>1, <1>2, <1>3, <1>4
  <2>2. CASE p \notin q.affected
    <3>1. q.version[p] = t.version[p]
      BY <1>1, <2>2 DEF Fitting, t
    <3>2. t.version[p] = IF Recorded(t, p) THEN Latest(t, p).after ELSE b.version[p]
      BY <1>7 DEF VersionsRecorded
    <3> QED BY <2>2, <3>1, <3>2, <1>2, <1>3
  <2> QED BY <2>1, <2>2
<1>10. ASSUME NEW p \in Packages PROVE ~Less(c.version[p], b.version[p])
  BY <1>2, <1>5, <1>6, <1>7, LessOrder
<1>11. ASSUME NEW i \in (Len(b.ledger) + 1)..Len(c.ledger) PROVE Rises(c, b, c.ledger[i])
  <2>0. Len(old) \in Nat /\ Len(b.ledger) \in Nat /\ Len(c.ledger) \in Nat
    BY <1>6
  <2>1. CASE i <= Len(old)
    <3>1. i \in 1..Len(old) /\ i \in (Len(b.ledger) + 1)..Len(old)
      BY <2>0, <2>1
    <3>2. c.ledger[i] = old[i] /\ old[i] \in Entries
      BY <1>2, <1>6, <3>1, ExtendsIs
    <3> DEFINE e == old[i]
    <3>3. e.id \in Packages /\ e.after \in Versions
      BY <3>2 DEF Entries
    <3>4. Rises(t, b, e)
      BY <1>7, <3>1
    <3> HIDE DEF e
    <3>5. ~Less(c.version[e.id], e.after)
      <4>1. ~Less(t.version[e.id], e.after)
        BY <3>4 DEF Rises
      <4> QED BY <1>2, <1>5, <3>3, <4>1, LessOrder
    <3>6. Rises(c, b, e)
      BY <3>4, <3>5 DEF Rises
    <3> QED BY <3>2, <3>6 DEF e
  <2>2. CASE ~(i <= Len(old))
    <3>1. i \in (Len(old) + 1)..Len(c.ledger)
      BY <2>0, <2>2
    <3>2. PICK p \in q.affected : c.ledger[i] = E(p)
      BY <1>2, <3>1
    <3>3. p \in Packages
      BY <1>1, PlanParts
    <3>4. ~Less(E(p).before, b.version[E(p).id])
      BY <3>3, <1>4, <1>7
    <3>5. ~Less(c.version[E(p).id], E(p).after)
      BY <3>3, <1>2, <1>4, <1>5, LessOrder
    <3>6. Rises(c, b, E(p))
      BY <3>3, <3>4, <3>5, <1>4 DEF Rises
    <3> QED BY <3>2, <3>6
  <2> QED BY <2>1, <2>2
<1> QED BY <1>2, <1>7, <1>8, <1>9, <1>10, <1>11 DEF Tracked, c, b

\* A develop that raises a version gives a number no formal release has given; one that
\* keeps a version finds the content the number stands for.
LEMMA DevelopNumbers ==
  ASSUME NEW ctx \in Contexts, NEW request \in Tasks, NEW affected, NEW direct, NEW q,
         Kept(ctx, request, affected, direct, q), Tracked(ctx.tree, ctx.base),
         NEW h \in Seq(Releases), NumbersKept(h, ctx.tree, ctx.base), Floored(h, ctx.floor, ctx.base)
  PROVE  NumbersKept(h, Closed(ctx, request, q), ctx.base)
<1> DEFINE t   == ctx.tree
           b   == ctx.base
           c   == Closed(ctx, request, q)
           d   == CandidateOf(t, q)
<1>1. /\ q \in Plans /\ q.affected = affected /\ Fitting(ctx, request, q)
      /\ ~CannotFollow(t, q.affected, q.version) /\ t \in Trees /\ b \in Trees
      /\ ctx.floor \in [Packages -> Versions]
      /\ \A p \in affected : q.level[p] = 0 =>
            UnchangedContent(t, b, p) /\ p \notin OwnersOf(t, q)
  BY ContextParts DEF Kept
<1>2. c \in Trees /\ c.version = q.version
  BY <1>1, ClosedIs, CandidateTyped
<1>3. d \in Trees /\ d.content = t.content
      /\ \A e \in Edges : d.req[e] = t.req[e] \/ e[1] \in OwnersOf(t, q)
  BY <1>1, CandidateTyped
<1> SUFFICES ASSUME NEW i \in FormalIn(h), NEW p \in Packages,
                    h[i].tree.version[p] = c.version[p]
             PROVE  Alike(Content(h[i].tree, p), ClosedContent(c, b, p))
  BY DEF NumbersKept
<1>4. /\ p \in q.affected => Recorded(c, p) /\ Latest(c, p) = EntryOf(ctx, request, q, p)
      /\ p \notin q.affected => /\ Recorded(c, p) <=> Recorded(t, p)
                                /\ Recorded(c, p) => Latest(c, p) = Latest(t, p)
  BY <1>1, ClosedLatest
<1>5. /\ i \in 1..Len(h) /\ h[i].tree.version[p] \in Versions
      /\ q.version[p] \in Versions /\ q.fallback[p] \in Versions /\ t.version[p] \in Versions
      /\ b.version[p] \in Versions /\ ctx.floor[p] \in Versions
  <2>1. i \in 1..Len(h)
    BY DEF FormalIn
  <2>2. h[i].tree.version[p] \in Versions
    BY <2>1, ReleaseParts, TreeParts
  <2>3. t.version[p] \in Versions /\ b.version[p] \in Versions /\ ctx.floor[p] \in Versions
    BY <1>1, TreeParts
  <2> QED BY <1>1, <2>1, <2>2, <2>3, PlanParts
<1>6. EntryOf(ctx, request, q, p).print.content = Content(d, p)
  BY DEF EntryOf, Fingerprint
<1> HIDE DEF c, d, t, b
<1>7. CASE p \in q.affected /\ q.level[p] # 0
  <2>1. /\ Less(t.version[p], q.fallback[p]) /\ Less(ctx.floor[p], q.fallback[p])
        /\ ~Less(q.version[p], q.fallback[p])
    BY <1>1, <1>7 DEF Fitting, Fits, t
  <2>2. ~Less(t.version[p], b.version[p])
    BY DEF Tracked, t, b
  <2>3. Less(b.version[p], q.version[p]) /\ Less(ctx.floor[p], q.version[p])
    BY <1>5, <2>1, <2>2, LessOrder
  <2>4. ~Less(Later(ctx.floor[p], b.version[p]), h[i].tree.version[p])
    BY DEF Floored, b
  <2>5. Later(ctx.floor[p], b.version[p]) \in {ctx.floor[p], b.version[p]}
    BY <1>5, LaterIs
  <2> QED BY <1>2, <2>3, <2>4, <2>5
<1>8. CASE p \in q.affected /\ q.level[p] = 0
  <2>1. q.version[p] = t.version[p]
    BY <1>1, <1>8 DEF Fitting, t
  <2>2. Alike(Content(h[i].tree, p), ClosedContent(t, b, p))
    BY <1>2, <2>1 DEF NumbersKept, t, b
  <2>3. UnchangedContent(t, b, p) /\ p \notin OwnersOf(t, q)
    BY <1>1, <1>8
  <2>4. Content(t, p) = ClosedContent(t, b, p)
    BY <2>3 DEF UnchangedContent, ClosedContent
  <2>5. Alike(Content(t, p), Content(d, p))
    <3>1. \A e \in {f \in Edges : f[1] = p} : t.req[e] = d.req[e]
      BY <1>3, <2>3
    <3> QED BY <1>3, <3>1 DEF Alike, Content
  <2>6. ClosedContent(c, b, p) = Content(d, p)
    BY <1>4, <1>6, <1>8 DEF ClosedContent
  <2> QED BY <2>2, <2>4, <2>5, <2>6 DEF Alike
<1>9. CASE p \notin q.affected
  <2>1. q.version[p] = t.version[p]
    BY <1>1, <1>9 DEF Fitting, t
  <2>2. Alike(Content(h[i].tree, p), ClosedContent(t, b, p))
    BY <1>2, <2>1 DEF NumbersKept, t, b
  <2>3. ClosedContent(c, b, p) = ClosedContent(t, b, p)
    BY <1>4, <1>9 DEF ClosedContent
  <2> QED BY <2>2, <2>3
<1> QED BY <1>7, <1>8, <1>9

-----------------------------------------------------------------------------
(* What a release or a develop finds changed. *)

\* The packages that differ from the release built upon.
Changed(t, b) ==
  {p \in Packages : Content(t, p) # Content(b, p)} \cup Delivers
    \cup {e.id : e \in EntriesSince(t, b)} \cup {p \in Packages : Build(t, p) # Build(b, p)}

\* The scope of a release: what changed, and all that depends on it.
LEMMA ChangedTyped ==
  ASSUME NEW t \in Trees, NEW b \in Trees
  PROVE  /\ Changed(t, b) \in SUBSET Packages
         /\ ReleaseScope(t, b) = Consumers(Changed(t, b))
         /\ ReleaseScope(t, b) \in SUBSET Packages /\ Changed(t, b) \subseteq ReleaseScope(t, b)
         /\ \A i \in (Len(b.ledger) + 1)..Len(t.ledger) : t.ledger[i].id \in Changed(t, b)
<1>1. t.ledger \in Seq(Entries) /\ b.ledger \in Seq(Entries)
  BY TreeParts
<1>2. \A i \in (Len(b.ledger) + 1)..Len(t.ledger) : t.ledger[i] \in Entries
  BY <1>1
<1>3. {e.id : e \in EntriesSince(t, b)} \subseteq Packages
  BY <1>2 DEF EntriesSince, Entries
<1>4. Changed(t, b) \in SUBSET Packages
  BY <1>3, PolicyAssumption DEF Changed
<1>5. ReleaseScope(t, b) = Consumers(Changed(t, b))
  BY DEF ReleaseScope, Changed
<1>6. \A i \in (Len(b.ledger) + 1)..Len(t.ledger) : t.ledger[i].id \in Changed(t, b)
  BY DEF Changed, EntriesSince
<1> QED BY <1>4, <1>5, <1>6, ScopeHolds

\* A package of the scope that develop does not start from is as it was closed.
LEMMA ScopeUnchanged ==
  ASSUME NEW ctx \in Contexts, NEW scope \in SUBSET Packages, NEW p \in scope,
         p \notin InitiallyAffected(ctx, scope)
  PROVE  UnchangedContent(ctx.tree, ctx.base, p)
<1> DEFINE t == ctx.tree
           b == ctx.base
<1>1. t \in Trees /\ b \in Trees /\ p \in Packages
  BY ContextParts
<1>2. p \notin Pending(t, b, scope)
  BY DEF InitiallyAffected
<1> HIDE DEF t, b
<1>3. CASE Recorded(t, p)
  <2>1. Latest(t, p).print = Fingerprint(t, p)
    BY <1>2, <1>3 DEF Pending
  <2>2. Latest(t, p).print.content = Content(t, p)
    BY <2>1 DEF Fingerprint
  <2> QED BY <1>3, <2>2 DEF UnchangedContent, t, b
<1>4. CASE ~Recorded(t, p)
  <2>1. p \notin ReleaseScope(t, b)
    BY <1>2, <1>4 DEF Pending
  <2>2. p \notin Changed(t, b)
    BY <1>1, <2>1, ChangedTyped
  <2>3. Content(t, p) = Content(b, p)
    BY <1>1, <2>2 DEF Changed
  <2> QED BY <1>4, <2>3 DEF UnchangedContent, t, b
<1> QED BY <1>3, <1>4

\* A prepared plan is one that its checks keep.
LEMMA PreparedKept ==
  ASSUME NEW ctx \in Contexts, NEW request \in Tasks, NEW first,
         first = InitiallyAffected(ctx, request.scope), first \in SUBSET Packages,
         Prepare(ctx, request, first).error = "none"
  PROVE  LET q == Prepare(ctx, request, first)
         IN  /\ Kept(ctx, request, q.affected, q.direct, q)
             /\ \A p \in q.affected \ q.direct : UnchangedContent(ctx.tree, ctx.base, p)
<1> DEFINE q == Prepare(ctx, request, first)
           t == ctx.tree
           direct == DirectOf(ctx, request, first)
<1>1. /\ Planned(ctx, request, first, direct, q) /\ Fitting(ctx, request, q) /\ Settled(ctx, q)
      /\ q.affected \subseteq request.scope
  BY PrepareSettles
<1>2. q \in Plans /\ q.direct = direct /\ first \subseteq q.affected /\ q.mechanical \cap first = {}
  BY <1>1 DEF Planned
<1>3. request.scope \in SUBSET Packages
  BY TaskParts
<1> HIDE DEF q
<1>4. /\ ~CannotFollow(t, q.affected, q.version)
      /\ OwnersOf(t, q) \subseteq q.force \cap q.affected
      /\ \A p \in q.affected : q.level[p] = 0 => Revalidated(ctx, q, p)
      /\ t.inherited \subseteq q.affected
      /\ \A p \in Packages : Drawn(t, q, p) => p \in q.affected
  BY <1>1 DEF Settled
<1>5. ASSUME NEW p \in q.affected, p \notin first PROVE UnchangedContent(t, ctx.base, p)
  <2>1. p \in request.scope
    BY <1>1
  <2> QED BY <1>3, <1>5, <2>1, ScopeUnchanged
<1>6. ASSUME NEW p \in q.affected, q.level[p] = 0
      PROVE  UnchangedContent(t, ctx.base, p) /\ p \notin OwnersOf(t, q)
  <2>1. Revalidated(ctx, q, p)
    BY <1>4, <1>6
  <2>2. p \notin q.force /\ (p \in q.mechanical \/ UnchangedContent(t, ctx.base, p))
    BY <2>1 DEF Revalidated
  <2>3. p \in q.mechanical => p \notin first
    BY <1>2
  <2> QED BY <1>4, <1>5, <2>2, <2>3
<1>7. ASSUME NEW p \in q.affected \ q.direct PROVE UnchangedContent(t, ctx.base, p)
  <2>1. CASE p \notin first
    BY <2>1, <1>5
  <2>2. CASE p \in first
    BY <2>2, <1>2, <1>7, DirectHolds
  <2> QED BY <2>1, <2>2
<1>8. Kept(ctx, request, q.affected, q.direct, q)
  BY <1>1, <1>2, <1>4, <1>6 DEF Kept
<1> QED BY <1>7, <1>8 DEF q

\* Outside of the scope of a release everything is as it was closed, or as before.
LEMMA OutsideStays ==
  ASSUME NEW t \in Trees, NEW b \in Trees, Extends(t.ledger, b.ledger), Validated(b),
         NEW p \in Packages, p \notin ReleaseScope(t, b)
  PROVE  /\ Fingerprint(t, p) = Fingerprint(b, p) /\ Content(t, p) = Content(b, p)
         /\ Recorded(t, p) => Latest(t, p).print = Fingerprint(t, p)
<1> DEFINE scope == ReleaseScope(t, b)
           S == Changed(t, b)
<1>1. S \in SUBSET Packages /\ scope = Consumers(S) /\ S \subseteq scope
      /\ \A i \in (Len(b.ledger) + 1)..Len(t.ledger) : t.ledger[i].id \in S
  BY ChangedTyped
<1>2. t.ledger \in Seq(Entries) /\ b.ledger \in Seq(Entries)
  BY TreeParts
<1>3. p \notin scope
  OBVIOUS
<1> HIDE DEF S, scope
<1>4. \A q \in DependencyScope[p] : q \in Packages /\ q \notin S
  BY <1>1, <1>3, DependentsConsume, ScopeHolds
<1>5. p \notin S
  BY <1>1, <1>3
<1>6. \A q \in DependencyScope[p] : Content(t, q) = Content(b, q)
  BY <1>4 DEF S, Changed
<1>7. Content(t, p) = Content(b, p) /\ Build(t, p) = Build(b, p)
  BY <1>5 DEF S, Changed
<1>8. [q \in DependencyScope[p] |-> Content(t, q)] = [q \in DependencyScope[p] |-> Content(b, q)]
  BY <1>6
<1>9. Fingerprint(t, p) = Fingerprint(b, p)
  BY <1>7, <1>8 DEF Fingerprint
<1>10. \A i \in (Len(b.ledger) + 1)..Len(t.ledger) : t.ledger[i].id # p
  BY <1>1, <1>5
<1>11. /\ Recorded(t, p) <=> Recorded(b, p)
       /\ Recorded(b, p) => Latest(t, p) = Latest(b, p)
  BY <1>2, <1>10, LatestKept
<1>12. Recorded(t, p) => Latest(t, p).print = Fingerprint(t, p)
  BY <1>9, <1>11 DEF Validated
<1> QED BY <1>7, <1>9, <1>12

\* What a release finds closed is as it was closed, and the rest is as it was.
LEMMA GateFinds ==
  ASSUME NEW t \in Trees, NEW b \in Trees, Extends(t.ledger, b.ledger), Validated(b),
         Pending(t, b, ReleaseScope(t, b)) = {}, NEW p \in Packages
  PROVE  /\ IF Recorded(t, p) THEN Latest(t, p).print = Fingerprint(t, p)
            ELSE Fingerprint(t, p) = Fingerprint(b, p)
         /\ ClosedContent(t, b, p) = Content(t, p)
<1>1. Recorded(t, p) => Latest(t, p).print = Fingerprint(t, p)
  BY OutsideStays DEF Pending
<1>2. ~Recorded(t, p) => p \notin ReleaseScope(t, b)
  BY DEF Pending
<1>3. ~Recorded(t, p) => Fingerprint(t, p) = Fingerprint(b, p) /\ Content(t, p) = Content(b, p)
  BY <1>2, OutsideStays
<1>4. Recorded(t, p) => Latest(t, p).print.content = Content(t, p)
  BY <1>1 DEF Fingerprint
<1> QED BY <1>1, <1>3, <1>4 DEF ClosedContent

-----------------------------------------------------------------------------
(* The ledger that a develop leaves. *)

\* A plan that gives a package a level gives it a higher version.
LEMMA LevelRaises ==
  ASSUME NEW ctx \in Contexts, NEW request \in Tasks, NEW q \in Plans, Fitting(ctx, request, q),
         NEW p \in Packages, q.level[p] # 0
  PROVE  /\ Less(ctx.tree.version[p], q.version[p]) /\ Less(ctx.floor[p], q.version[p])
         /\ q.version[p] # ctx.tree.version[p]
<1>1. /\ Less(ctx.tree.version[p], q.fallback[p]) /\ Less(ctx.floor[p], q.fallback[p])
      /\ ~Less(q.version[p], q.fallback[p])
  BY DEF Fitting, Fits
<1>2. /\ q.version[p] \in Versions /\ q.fallback[p] \in Versions /\ ctx.tree.version[p] \in Versions
      /\ ctx.floor[p] \in Versions
  BY ContextParts, SoundRises
<1> QED BY <1>1, <1>2, LessOrder

\* The ledger of a closed plan parses: its new entries are of different packages, and each
\* goes on from the last version on record.
LEMMA ClosedParses ==
  ASSUME NEW ctx \in Contexts, NEW request \in Tasks, NEW q \in Plans, Fitting(ctx, request, q),
         ~CannotFollow(ctx.tree, q.affected, q.version), Tracked(ctx.tree, ctx.base),
         LedgerParses(ctx.tree.ledger)
  PROVE  LedgerParses(Closed(ctx, request, q).ledger)
<1> DEFINE t   == ctx.tree
           old == t.ledger
           led == Closed(ctx, request, q).ledger
           E(p) == EntryOf(ctx, request, q, p)
<1>1. /\ Closed(ctx, request, q) \in Trees /\ Extends(led, old)
      /\ \A i \in (Len(old) + 1)..Len(led) : \E p \in q.affected : led[i] = E(p)
      /\ \A i, j \in (Len(old) + 1)..Len(led) : led[i].id = led[j].id => i = j
  BY ClosedIs
<1>2. led \in Seq(Entries) /\ old \in Seq(Entries)
  BY <1>1, ContextParts, TreeParts
<1>3. \A i \in 1..Len(old) : led[i] = old[i]
  BY <1>1, <1>2, ExtendsIs
<1>4. q.affected \in SUBSET Packages
  BY PlanParts
<1>5. \A p \in Packages : /\ E(p).id = p /\ E(p).before = t.version[p]
                          /\ E(p).after = q.version[p] /\ E(p).level = q.level[p]
                          /\ ~Less(E(p).after, E(p).before)
  BY EntryFits
<1>6. Len(old) \in Nat /\ Len(led) \in Nat /\ DOMAIN led = 1..Len(led) /\ DOMAIN old = 1..Len(old)
  BY <1>2
<1> HIDE DEF E, led
<1>7. SUFFICES ASSUME NEW i \in 1..Len(led)
               PROVE  /\ ~Less(led[i].after, led[i].before)
                      /\ led[i].after = led[i].before => led[i].level = 0
                      /\ \A j \in 1..(i - 1) :
                            (led[j].id = led[i].id /\ \A k \in (j + 1)..(i - 1) : led[k].id # led[i].id)
                              => led[j].after = led[i].before
  BY <1>6 DEF LedgerParses, led
<1>8. CASE i \in 1..Len(old)
  <2>1. \A j \in 1..(i - 1) : j \in 1..Len(old) /\ \A k \in (j + 1)..(i - 1) : k \in 1..Len(old)
    BY <1>6, <1>8
  <2>2. /\ ~Less(old[i].after, old[i].before)
        /\ old[i].after = old[i].before => old[i].level = 0
        /\ \A j \in 1..(i - 1) :
              (old[j].id = old[i].id /\ \A k \in (j + 1)..(i - 1) : old[k].id # old[i].id)
                => old[j].after = old[i].before
    BY <1>6, <1>8 DEF LedgerParses
  <2>3. \A j \in 1..(i - 1) : led[j] = old[j] /\ \A k \in (j + 1)..(i - 1) : led[k] = old[k]
    BY <1>3, <2>1
  <2> QED BY <1>3, <1>8, <2>2, <2>3
<1>9. CASE i \in (Len(old) + 1)..Len(led)
  <2>1. PICK p \in q.affected : led[i] = E(p)
    BY <1>1, <1>9 DEF led
  <2>2. /\ p \in Packages /\ led[i].id = p /\ led[i].before = t.version[p]
        /\ led[i].after = q.version[p] /\ led[i].level = q.level[p]
        /\ ~Less(led[i].after, led[i].before)
    BY <1>4, <1>5, <2>1
  <2>3. led[i].after = led[i].before => led[i].level = 0
    BY <2>2, LevelRaises
  <2>4. ASSUME NEW j \in 1..(i - 1), led[j].id = p, \A k \in (j + 1)..(i - 1) : led[k].id # p
        PROVE  led[j].after = t.version[p]
    <3>1. j \in 1..Len(old)
      <4>1. j # i /\ j \in 1..Len(led)
        BY <1>6, <1>9
      <4>2. j \notin (Len(old) + 1)..Len(led)
        BY <1>1, <1>9, <2>2, <2>4, <4>1 DEF led
      <4> QED BY <1>6, <4>1, <4>2
    <3>2. IsLast(old, p, j)
      <4>1. j \in EntriesOf(old, p)
        BY <1>3, <2>4, <3>1 DEF EntriesOf
      <4>2. ASSUME NEW k \in EntriesOf(old, p) PROVE k <= j
        <5>1. k \in 1..Len(old) /\ led[k].id = p
          BY <1>3, <4>2 DEF EntriesOf
        <5>2. k \notin (j + 1)..(i - 1)
          BY <2>4, <5>1
        <5> QED BY <1>6, <1>9, <5>1, <5>2
      <4> QED BY <4>1, <4>2 DEF IsLast
    <3>3. Latest(t, p) = old[j] /\ Recorded(t, p)
      BY <1>2, <3>2, LatestIs
    <3>4. t.version[p] = Latest(t, p).after
      BY <2>2, <3>3 DEF Tracked, VersionsRecorded
    <3> QED BY <1>3, <3>1, <3>3, <3>4
  <2> QED BY <2>2, <2>3, <2>4
<1> QED BY <1>6, <1>8, <1>9

-----------------------------------------------------------------------------
(* Sets that hold what depends on them. *)

\* A set that a step does not leave.
Holds(W, step) == \A U \in SUBSET Packages : U \subseteq W => step[U] \subseteq W

\* What Reach finds lies in any set that its step stays in.
LEMMA ReachWithin ==
  ASSUME NEW S \in SUBSET Packages, NEW step \in [SUBSET Packages -> SUBSET Packages],
         NEW W, S \subseteq W,
         Holds(W, step)
  PROVE  Reach(S, step) \subseteq W
<1>1. PICK g \in [0..Rounds -> SUBSET Packages] :
         /\ g[0] = S /\ g[Rounds] = Reach(S, step)
         /\ \A n \in 0..(Rounds - 1) : g[n + 1] = g[n] \cup step[g[n]]
  BY ReachChain
<1> DEFINE T == {n \in 0..Rounds : g[n] \subseteq W}
<1>2. 0 \in T
  BY <1>1, RoundsType
<1>3. ASSUME NEW n \in 0..(Rounds - 1), n \in T PROVE n + 1 \in T
  <2>1. g[n] \in SUBSET Packages /\ n + 1 \in 0..Rounds
    BY <1>3, RoundsType
  <2>2. step[g[n]] \subseteq W
    BY <1>3, <2>1 DEF Holds
  <2> QED BY <1>1, <1>3, <2>1, <2>2
<1> HIDE DEF T
<1>4. 0..Rounds \subseteq T
  BY <1>2, <1>3, RoundsType, InductionTo
<1> QED BY <1>1, <1>4, RoundsType DEF T

\* Reach goes on until its step adds nothing: it has one round for each package.
LEMMA ReachCloses ==
  ASSUME NEW S \in SUBSET Packages, NEW step \in [SUBSET Packages -> SUBSET Packages]
  PROVE  step[Reach(S, step)] \subseteq Reach(S, step)
<1>1. PICK g \in [0..Rounds -> SUBSET Packages] :
         /\ g[0] = S /\ g[Rounds] = Reach(S, step)
         /\ \A n \in 0..(Rounds - 1) : g[n + 1] = g[n] \cup step[g[n]]
  BY ReachChain
<1> DEFINE T == {n \in 0..Rounds : Cardinality(g[n]) >= n \/ step[g[n]] \subseteq g[n]}
<1>2. \A n \in 0..Rounds : IsFiniteSet(g[n]) /\ Cardinality(g[n]) \in Nat
  BY PackagesAssumption, FS_Subset, FS_CardinalityType
<1>3. 0 \in T
  BY <1>2, RoundsType
<1>4. ASSUME NEW n \in 0..(Rounds - 1), n \in T PROVE n + 1 \in T
  <2>1. n \in 0..Rounds /\ n + 1 \in 0..Rounds /\ g[n + 1] = g[n] \cup step[g[n]]
    BY <1>1, RoundsType
  <2>2. CASE step[g[n]] \subseteq g[n]
    <3>1. g[n + 1] = g[n]
      BY <2>1, <2>2
    <3> QED BY <2>1, <2>2, <3>1
  <2>3. CASE ~(step[g[n]] \subseteq g[n])
    <3>1. g[n] \subseteq g[n + 1] /\ g[n] # g[n + 1]
      BY <2>1, <2>3
    <3>2. Cardinality(g[n]) <= Cardinality(g[n + 1]) /\ Cardinality(g[n]) # Cardinality(g[n + 1])
      BY <1>2, <2>1, <3>1, FS_Subset
    <3>3. Cardinality(g[n]) >= n
      BY <1>4, <2>3
    <3>4. Cardinality(g[n + 1]) >= n + 1
      <4>1. n \in Nat /\ Cardinality(g[n]) \in Nat /\ Cardinality(g[n + 1]) \in Nat
        <5> HIDE DEF T
        <5>1. Cardinality(g[n]) \in Nat /\ Cardinality(g[n + 1]) \in Nat
          BY <1>2, <2>1
        <5> QED BY <5>1, RoundsType
      <4> QED BY <4>1, <3>2, <3>3
    <3> QED BY <2>1, <3>4
  <2> QED BY <2>2, <2>3
<1> HIDE DEF T
<1>5. Rounds \in T /\ Rounds \in 0..Rounds
  <2>1. 0..Rounds \subseteq T
    BY <1>3, <1>4, RoundsType, InductionTo
  <2> QED BY <2>1, RoundsType
<1>6. CASE step[g[Rounds]] \subseteq g[Rounds]
  BY <1>1, <1>6
<1>7. CASE Cardinality(g[Rounds]) >= Rounds
  <2>1. g[Rounds] \in SUBSET Packages
    BY <1>5
  <2>2. /\ Cardinality(g[Rounds]) <= Cardinality(Packages)
        /\ Cardinality(g[Rounds]) = Cardinality(Packages) => g[Rounds] = Packages
    BY <2>1, PackagesAssumption, FS_Subset
  <2>3. g[Rounds] = Packages
    BY <1>2, <1>5, <1>7, <2>2, RoundsType DEF Rounds
  <2> QED BY <1>1, <2>1, <2>3
<1> QED BY <1>5, <1>6, <1>7 DEF T

\* Going along the edges from less leads to less.
LEMMA EdgesMonotone ==
  \A S, U : S \subseteq U => Targets(S) \subseteq Targets(U) /\ Owners(S) \subseteq Owners(U)
BY DEF Targets, Owners

\* What a package depends on is closed under the edges and holds all that any of it
\* depends on.
LEMMA ScopeCloses ==
  ASSUME NEW p \in Packages
  PROVE  /\ Targets(DependencyScope[p]) \subseteq DependencyScope[p]
         /\ \A q \in DependencyScope[p] : DependencyScope[q] \subseteq DependencyScope[p]
<1> DEFINE step == [S \in SUBSET Packages |-> Targets(S)]
<1>1. step \in [SUBSET Packages -> SUBSET Packages]
  BY EdgeEnds
<1>2. \A q \in Packages : DependencyScope[q] = Reach({q}, step)
  BY DEF DependencyScope, Targets
<1>3. \A U \in SUBSET Packages : step[U] = Targets(U)
  OBVIOUS
<1> HIDE DEF step
<1>4. DependencyScope[p] \in SUBSET Packages
  BY ScopeHolds
<1>5. {p} \in SUBSET Packages
  OBVIOUS
<1>6. step[Reach({p}, step)] \subseteq Reach({p}, step)
  BY <1>1, <1>5, ReachCloses
<1>7. Targets(DependencyScope[p]) \subseteq DependencyScope[p]
  BY <1>2, <1>3, <1>4, <1>6
<1>8. ASSUME NEW q \in DependencyScope[p] PROVE DependencyScope[q] \subseteq DependencyScope[p]
  <2>1. {q} \in SUBSET Packages /\ q \in Packages /\ {q} \subseteq DependencyScope[p]
    BY <1>4
  <2>2. Holds(DependencyScope[p], step)
    BY <1>3, <1>7, EdgesMonotone DEF Holds
  <2>3. Reach({q}, step) \subseteq DependencyScope[p]
    BY <1>1, <2>1, <2>2, ReachWithin
  <2> QED BY <1>2, <2>1, <2>3
<1> QED BY <1>7, <1>8

\* The consumers of a set are closed against the edges, and lie in any closed set.
LEMMA ConsumersClose ==
  ASSUME NEW S \in SUBSET Packages
  PROVE  /\ Owners(Consumers(S)) \subseteq Consumers(S)
         /\ \A W : S \subseteq W /\ Owners(W) \subseteq W => Consumers(S) \subseteq W
<1> DEFINE step == [U \in SUBSET Packages |-> Owners(U)]
<1>1. step \in [SUBSET Packages -> SUBSET Packages]
  BY EdgeEnds
<1>2. Consumers(S) = Reach(S, step) /\ Consumers(S) \in SUBSET Packages
  BY ScopeHolds DEF Consumers, Owners
<1>3. \A U \in SUBSET Packages : step[U] = Owners(U)
  OBVIOUS
<1> HIDE DEF step
<1>4. step[Reach(S, step)] \subseteq Reach(S, step)
  BY <1>1, ReachCloses
<1>5. ASSUME NEW W, S \subseteq W, Owners(W) \subseteq W PROVE Consumers(S) \subseteq W
  <2>1. Holds(W, step)
    <3>1. ASSUME NEW U \in SUBSET Packages, U \subseteq W PROVE Owners(U) \subseteq W
      BY <1>5, <3>1, EdgesMonotone
    <3> QED BY <1>3, <3>1 DEF Holds
  <2> QED BY <1>1, <1>2, <1>5, <2>1, ReachWithin
<1> QED BY <1>2, <1>3, <1>4, <1>5

\* A closed set holds every package that depends on a member.
LEMMA ClosedHolds ==
  ASSUME NEW W \in SUBSET Packages, Owners(W) \subseteq W,
         NEW p \in Packages, NEW q \in DependencyScope[p], q \in W
  PROVE  p \in W
<1>1. p \in Consumers(W)
  BY DependentsConsume
<1> QED BY <1>1, ConsumersClose

-----------------------------------------------------------------------------
(* What a develop reaches. *)

\* The packages that depend on one whose version is inherited.
Heirs(t) == {p \in Packages : DependencyScope[p] \cap t.inherited # {}}

\* A develop stays within the scope of a release, but for those.
Reached(t, b) == ReleaseScope(t, b) \cup Heirs(t)

\* That is a closed set.
LEMMA ReachedCloses ==
  ASSUME NEW t \in Trees, NEW b \in Trees
  PROVE  /\ Reached(t, b) \in SUBSET Packages /\ Owners(Reached(t, b)) \subseteq Reached(t, b)
         /\ t.inherited \subseteq Reached(t, b)
<1>1. /\ Changed(t, b) \in SUBSET Packages /\ ReleaseScope(t, b) = Consumers(Changed(t, b))
      /\ ReleaseScope(t, b) \in SUBSET Packages
  BY ChangedTyped
<1>2. Owners(ReleaseScope(t, b)) \subseteq ReleaseScope(t, b)
  BY <1>1, ConsumersClose
<1>3. ASSUME NEW e \in Edges, e[2] \in Heirs(t) PROVE e[1] \in Heirs(t)
  <2>1. e[1] \in Packages /\ e[2] \in Packages
    BY EdgeEnds
  <2>2. e[1] \in DependencyScope[e[1]] /\ Targets(DependencyScope[e[1]]) \subseteq DependencyScope[e[1]]
    BY <2>1, ScopeHolds, ScopeCloses
  <2>3. e[2] \in DependencyScope[e[1]]
    BY <2>2 DEF Targets
  <2>4. DependencyScope[e[2]] \subseteq DependencyScope[e[1]]
    BY <2>1, <2>3, ScopeCloses
  <2> QED BY <1>3, <2>1, <2>4 DEF Heirs
<1>4. Owners(Reached(t, b)) \subseteq Reached(t, b)
  BY <1>2, <1>3 DEF Owners, Reached
<1>5. t.inherited \subseteq Heirs(t)
  BY TreeParts, ScopeHolds DEF Heirs
<1> QED BY <1>1, <1>4, <1>5 DEF Reached, Heirs

\* What a develop starts from lies within the scope of a release.
LEMMA FirstReached ==
  ASSUME NEW ctx \in Contexts, NEW scope \in SUBSET Packages,
         Extends(ctx.tree.ledger, ctx.base.ledger), Validated(ctx.base), ctx.lost \subseteq Delivers
  PROVE  InitiallyAffected(ctx, scope) \subseteq ReleaseScope(ctx.tree, ctx.base)
<1> DEFINE t == ctx.tree
           b == ctx.base
<1> SUFFICES ASSUME NEW p \in InitiallyAffected(ctx, scope), p \notin ReleaseScope(t, b) PROVE FALSE
  OBVIOUS
<1>1. t \in Trees /\ b \in Trees
  BY ContextParts
<1>2. Delivers \subseteq ReleaseScope(t, b)
  BY <1>1, ChangedTyped DEF Changed
<1>3. p \in scope /\ p \in Packages
  BY DEF InitiallyAffected, Pending
<1>4. p \notin ctx.lost
  BY <1>2
<1>5. p \in Pending(t, b, scope)
  BY <1>4 DEF InitiallyAffected
<1>6. IF Recorded(t, p) THEN Latest(t, p).print # Fingerprint(t, p) ELSE p \in ReleaseScope(t, b)
  BY <1>5 DEF Pending
<1>7. Recorded(t, p) => Latest(t, p).print = Fingerprint(t, p)
  BY <1>1, <1>3, OutsideStays
<1> QED BY <1>6, <1>7

\* Direct changes follow the edges.
LEMMA DirectWithin ==
  ASSUME NEW ctx, NEW request \in Tasks, NEW first \in SUBSET Packages,
         NEW W \in SUBSET Packages, first \subseteq W, Owners(W) \subseteq W
  PROVE  DirectOf(ctx, request, first) \subseteq W
<1> DEFINE S == {p \in first : ~UnchangedContent(ctx.tree, ctx.base, p)}
           joined(U) == {p \in {e[1] : e \in request.impacts} :
                            \A e \in request.impacts : e[1] = p => e[2] \in U}
           step == [U \in SUBSET Packages |-> joined(U)]
<1>1. \A U : joined(U) \in SUBSET Packages
  BY TaskParts, EdgeEnds
<1>2. \A U : U \subseteq W => joined(U) \subseteq W
  BY TaskParts DEF Owners
<1> HIDE DEF joined
<1>3. step \in [SUBSET Packages -> SUBSET Packages]
  BY <1>1
<1>4. S \in SUBSET Packages /\ S \subseteq W
  OBVIOUS
<1>5. DirectOf(ctx, request, first) = Reach(S, step)
  BY DEF DirectOf, DirectChanges, joined
<1>6. Holds(W, step)
  BY <1>2 DEF Holds
<1> HIDE DEF step, S
<1> QED BY <1>3, <1>4, <1>5, <1>6, ReachWithin

\* A round takes in packages of a closed set only, if the set holds those whose version
\* is inherited.
LEMMA RoundWithin ==
  ASSUME NEW ctx \in Contexts, NEW request \in Tasks, NEW first, NEW direct, NEW q,
         Planned(ctx, request, first, direct, q), q.error = "none",
         Round(ctx, request, q).error = "none",
         NEW W \in SUBSET Packages, Owners(W) \subseteq W, ctx.tree.inherited \subseteq W,
         q.affected \subseteq W
  PROVE  Round(ctx, request, q).affected \subseteq W
<1> DEFINE t   == ctx.tree
           new == Round(ctx, request, q)
           owners == RequirementOwners(t, Render(t, q.affected, new.version))
<1>1. q \in Plans /\ Fitting(ctx, request, q)
  BY DEF Planned
<1>2. /\ new \in Plans
      /\ \A p \in Packages :
            new.version[p] = IF p \in q.affected THEN Choice(ctx, request, q, p).version
                             ELSE q.version[p]
      /\ \A p \in new.affected :
            \/ p \in q.affected \cup owners
            \/ Drawn(t, new, p)
            \/ p \in new.mechanical \cap (t.inherited \cup Moved(t, new))
  BY <1>1, RoundParts
<1> HIDE DEF new
<1>3. Moved(t, new) \subseteq q.affected
  <2>1. ASSUME NEW p \in Packages, p \notin q.affected PROVE new.version[p] = t.version[p]
    BY <1>1, <1>2, <2>1 DEF Fitting
  <2> QED BY <2>1 DEF Moved
<1>4. owners \subseteq Owners(q.affected)
  <2>1. ASSUME NEW e \in Edges, Render(t, q.affected, new.version)[e] # t.req[e]
        PROVE  e[2] \in q.affected
    BY <2>1 DEF Render
  <2> QED BY <2>1 DEF RequirementOwners, Owners
<1>5. owners \subseteq W
  BY <1>4, EdgesMonotone
<1>6. ASSUME NEW p \in new.affected PROVE p \in W
  <2>1. p \in Packages
    BY <1>2, PlanParts
  <2>2. ASSUME Drawn(t, new, p) PROVE p \in W
    <3>1. PICK x \in DependencyScope[p] : x \in Moved(t, new)
      BY <2>2 DEF Drawn
    <3> QED BY <1>3, <2>1, <3>1, ClosedHolds
  <2> QED BY <1>2, <1>3, <1>5, <2>2
<1> QED BY <1>6 DEF new

\* So does a plan.
LEMMA PrepareWithin ==
  ASSUME NEW ctx \in Contexts, NEW request \in Tasks, NEW first \in SUBSET Packages,
         Prepare(ctx, request, first).error = "none",
         NEW W \in SUBSET Packages, Owners(W) \subseteq W, ctx.tree.inherited \subseteq W,
         first \subseteq W
  PROVE  Prepare(ctx, request, first).affected \subseteq W
<1> DEFINE start == Starting(ctx, request, first)
           direct == DirectOf(ctx, request, first)
           k == Rounds + 2
           X == {q \in PlansOf(ctx, request, first, direct) : q.error = "none" => q.affected \subseteq W}
           last == RoundsOf(ctx, request, start, k)[k]
           q == Prepare(ctx, request, first)
<1>1. k \in Nat
  BY RoundsType
<1>2. start \in X
  <2>1. Planned(ctx, request, first, direct, start)
    <3> HIDE DEF start
    <3> QED BY StartPlanned DEF start
  <2>2. start.affected = first \cup direct
    BY DEF Starting
  <2>3. direct \subseteq W
    BY DirectWithin
  <2> HIDE DEF start, direct
  <2> QED BY <2>1, <2>2, <2>3 DEF PlansOf, Planned
<1>3. StaysIn(ctx, request, X)
  <2> SUFFICES ASSUME NEW x \in X PROVE NextRound(ctx, request, x) \in X
    BY DEF StaysIn
  <2>1. NextRound(ctx, request, x) \in PlansOf(ctx, request, first, direct)
    BY RoundsKeep DEF StaysIn
  <2>2. ASSUME NextRound(ctx, request, x).error = "none"
        PROVE  NextRound(ctx, request, x).affected \subseteq W
    <3>1. CASE x.stable \/ x.error # "none"
      BY <2>2, <3>1 DEF NextRound
    <3>2. CASE ~(x.stable \/ x.error # "none")
      <4>1. NextRound(ctx, request, x) = Round(ctx, request, x)
        BY <3>2 DEF NextRound
      <4>2. Planned(ctx, request, first, direct, x) /\ x.error = "none" /\ x.affected \subseteq W
        BY <3>2 DEF PlansOf
      <4> QED BY <2>2, <4>1, <4>2, RoundWithin
    <3> QED BY <3>1, <3>2
  <2> QED BY <2>1, <2>2
<1>4. last \in X
  <2> HIDE DEF start, k, X
  <2>1. ChainIn(RoundsOf(ctx, request, start, k), ctx, request, start, k, X)
    BY <1>1, <1>2, <1>3, PreparedChain
  <2> QED BY <1>1, <2>1 DEF ChainIn
<1>5. q = IF last.error = "none" /\ ~last.stable THEN [last EXCEPT !.error = "diverged"]
          ELSE IF last.error = "none" /\ ~(last.affected \subseteq request.scope)
               THEN [last EXCEPT !.error = "outside scope"]
          ELSE last
  BY DEF Prepare, RoundsOf, Prepared, Starting, DirectOf, Rounds
<1>6. last \in Plans /\ (last.error = "none" => last.affected \subseteq W)
  BY <1>4 DEF PlansOf
<1> HIDE DEF last, q
<1>7. /\ [last EXCEPT !.error = "diverged"].error = "diverged"
      /\ [last EXCEPT !.error = "outside scope"].error = "outside scope"
  BY <1>6 DEF Plans
<1>8. q.error = "none"
  BY DEF q
<1>9. q = last
  BY <1>5, <1>7, <1>8
<1> QED BY <1>6, <1>8, <1>9 DEF q

-----------------------------------------------------------------------------
(* What a develop leaves to do. *)

\* What a kept plan changes, it affects: versions, requirements and inherited versions.
LEMMA MovedAffected ==
  ASSUME NEW ctx \in Contexts, NEW request \in Tasks, NEW affected, NEW direct, NEW q,
         Kept(ctx, request, affected, direct, q)
  PROVE  /\ q \in Plans /\ q.affected = affected /\ affected \in SUBSET Packages
         /\ ~CannotFollow(ctx.tree, q.affected, q.version)
         /\ Moved(ctx.tree, q) \cup ctx.tree.inherited \subseteq affected
         /\ OwnersOf(ctx.tree, q) \subseteq Moved(ctx.tree, q)
         /\ \A p \in Packages : Drawn(ctx.tree, q, p) => p \in affected
<1> DEFINE t == ctx.tree
<1>1. /\ q \in Plans /\ q.affected = affected /\ Fitting(ctx, request, q)
      /\ ~CannotFollow(t, affected, q.version) /\ OwnersOf(t, q) \subseteq affected
      /\ \A p \in affected : q.level[p] = 0 => p \notin OwnersOf(t, q)
      /\ t.inherited \subseteq affected
      /\ \A p \in Packages : Drawn(t, q, p) => p \in affected
  BY DEF Kept
<1>2. affected \in SUBSET Packages
  BY <1>1, PlanParts
<1>3. Moved(t, q) \subseteq affected
  BY <1>1 DEF Moved, Fitting
<1>4. OwnersOf(t, q) \subseteq Moved(t, q)
  BY <1>1, <1>2, LevelRaises DEF Moved
<1> QED BY <1>1, <1>2, <1>3, <1>4

\* What a closed plan leaves as it was.
LEMMA ClosedLeaves ==
  ASSUME NEW ctx \in Contexts, NEW request \in Tasks, NEW affected, NEW direct, NEW q,
         Kept(ctx, request, affected, direct, q), NEW p \in Packages
  PROVE  LET t == ctx.tree
             c == Closed(ctx, request, q)
         IN  /\ p \notin Moved(t, q) \cup t.inherited => Content(c, p) = Content(t, p)
             /\ DependencyScope[p] \cap Moved(t, q) = {} => Build(c, p) = Build(t, p)
             /\ DependencyScope[p] \cap (Moved(t, q) \cup t.inherited) = {} =>
                   Fingerprint(c, p) = Fingerprint(t, p)
<1> DEFINE t == ctx.tree
           c == Closed(ctx, request, q)
           d == CandidateOf(t, q)
<1>1. /\ q \in Plans /\ ~CannotFollow(t, q.affected, q.version)
      /\ OwnersOf(t, q) \subseteq Moved(t, q)
  BY MovedAffected
<1>2. t \in Trees
  BY ContextParts
<1>3. /\ d.version = q.version /\ d.inherited = {} /\ d.content = t.content /\ d.lock = t.lock
      /\ \A e \in Edges : d.req[e] = t.req[e] \/ e[1] \in OwnersOf(t, q)
  BY <1>1, <1>2, CandidateTyped
<1>4. /\ c.version = q.version /\ c.req = d.req /\ c.inherited = {}
      /\ c.content = t.content /\ c.lock = t.lock
  BY <1>1, <1>3, ClosedIs
<1> HIDE DEF c, d
<1>5. \A x \in Packages : x \notin Moved(t, q) => c.version[x] = t.version[x]
  BY <1>4 DEF Moved
<1>6. ASSUME NEW x \in Packages, x \notin Moved(t, q), x \notin t.inherited
      PROVE  Content(c, x) = Content(t, x)
  <2>1. \A e \in {f \in Edges : f[1] = x} : c.req[e] = t.req[e]
    BY <1>1, <1>3, <1>4, <1>6
  <2>2. [e \in {f \in Edges : f[1] = x} |-> c.req[e]] = [e \in {f \in Edges : f[1] = x} |-> t.req[e]]
    BY <2>1
  <2>3. (x \notin c.inherited) = (x \notin t.inherited)
    BY <1>4, <1>6
  <2> QED BY <1>4, <1>5, <1>6, <2>2, <2>3 DEF Content
<1>7. DependencyScope[p] \subseteq Packages /\ p \in DependencyScope[p]
  BY ScopeHolds
<1>8. ASSUME DependencyScope[p] \cap Moved(t, q) = {} PROVE Build(c, p) = Build(t, p)
  <2>1. \A x \in DependencyScope[p] : c.version[x] = t.version[x] /\ c.lock[x] = t.lock[x]
    BY <1>4, <1>5, <1>7, <1>8
  <2> QED BY <2>1 DEF Build
<1>9. ASSUME DependencyScope[p] \cap (Moved(t, q) \cup t.inherited) = {}
      PROVE  Fingerprint(c, p) = Fingerprint(t, p)
  <2>1. \A x \in DependencyScope[p] : Content(c, x) = Content(t, x)
    BY <1>6, <1>7, <1>9
  <2>2. [x \in DependencyScope[p] |-> Content(c, x)] = [x \in DependencyScope[p] |-> Content(t, x)]
    BY <2>1
  <2>3. Build(c, p) = Build(t, p) /\ Content(c, p) = Content(t, p)
    BY <1>7, <1>8, <1>9, <2>1
  <2> QED BY <2>2, <2>3 DEF Fingerprint
<1> QED BY <1>6, <1>8, <1>9 DEF t, c

\* A closed plan brings nothing else into the scope of a release.
LEMMA ScopeStays ==
  ASSUME NEW ctx \in Contexts, NEW request \in Tasks, NEW affected, NEW direct, NEW q,
         Kept(ctx, request, affected, direct, q), Extends(ctx.tree.ledger, ctx.base.ledger),
         affected \subseteq Reached(ctx.tree, ctx.base)
  PROVE  ReleaseScope(Closed(ctx, request, q), ctx.base) \subseteq Reached(ctx.tree, ctx.base)
<1> DEFINE t == ctx.tree
           b == ctx.base
           c == Closed(ctx, request, q)
           W == Reached(t, b)
<1>1. /\ q \in Plans /\ q.affected = affected /\ affected \in SUBSET Packages
      /\ ~CannotFollow(t, q.affected, q.version)
      /\ Moved(t, q) \cup t.inherited \subseteq affected
  BY MovedAffected
<1>2. t \in Trees /\ b \in Trees
  BY ContextParts
<1>3. /\ c \in Trees /\ Extends(c.ledger, t.ledger)
      /\ \A i \in (Len(t.ledger) + 1)..Len(c.ledger) :
            \E p \in q.affected : c.ledger[i] = EntryOf(ctx, request, q, p)
  BY <1>1, ClosedIs
<1>4. c.ledger \in Seq(Entries) /\ t.ledger \in Seq(Entries) /\ b.ledger \in Seq(Entries)
  BY <1>2, <1>3, TreeParts
<1>5. W \in SUBSET Packages /\ Owners(W) \subseteq W
  BY <1>2, ReachedCloses
<1>6. Changed(t, b) \subseteq W /\ \A i \in (Len(b.ledger) + 1)..Len(t.ledger) : t.ledger[i].id \in W
  BY <1>2, ChangedTyped DEF Reached
<1>7. ASSUME NEW p \in Packages
      PROVE  /\ p \notin Moved(t, q) \cup t.inherited => Content(c, p) = Content(t, p)
             /\ DependencyScope[p] \cap Moved(t, q) = {} => Build(c, p) = Build(t, p)
  BY ClosedLeaves
<1>8. \A p : EntryOf(ctx, request, q, p).id = p
  BY DEF EntryOf
<1> HIDE DEF c, W
<1>9. ASSUME NEW p \in Packages, Content(c, p) # Content(b, p) PROVE p \in W
  <2>1. CASE p \in Moved(t, q) \cup t.inherited
    BY <1>1, <2>1 DEF W
  <2>2. CASE p \notin Moved(t, q) \cup t.inherited
    BY <1>6, <1>7, <1>9, <2>2 DEF Changed
  <2> QED BY <2>1, <2>2
<1>10. ASSUME NEW p \in Packages, Build(c, p) # Build(b, p) PROVE p \in W
  <2>1. CASE DependencyScope[p] \cap Moved(t, q) = {}
    BY <1>6, <1>7, <1>10, <2>1 DEF Changed
  <2>2. CASE DependencyScope[p] \cap Moved(t, q) # {}
    <3>1. PICK x \in DependencyScope[p] : x \in Moved(t, q)
      BY <2>2
    <3>2. x \in W
      BY <1>1, <3>1 DEF W
    <3> QED BY <1>5, <3>1, <3>2, ClosedHolds
  <2> QED BY <2>1, <2>2
<1>11. ASSUME NEW e \in EntriesSince(c, b) PROVE e.id \in W
  <2>1. PICK i \in (Len(b.ledger) + 1)..Len(c.ledger) : e = c.ledger[i]
    BY DEF EntriesSince
  <2>2. /\ Len(t.ledger) >= Len(b.ledger) /\ Len(c.ledger) >= Len(t.ledger)
        /\ \A j \in 1..Len(t.ledger) : c.ledger[j] = t.ledger[j]
        /\ Len(b.ledger) \in Nat /\ Len(t.ledger) \in Nat /\ Len(c.ledger) \in Nat
    BY <1>3, <1>4, ExtendsIs
  <2>3. CASE i \in 1..Len(t.ledger)
    <3>1. i \in (Len(b.ledger) + 1)..Len(t.ledger) /\ e = t.ledger[i]
      BY <2>1, <2>2, <2>3
    <3> QED BY <1>6, <3>1
  <2>4. CASE i \in (Len(t.ledger) + 1)..Len(c.ledger)
    <3>1. PICK p \in q.affected : e = EntryOf(ctx, request, q, p)
      BY <1>3, <2>1, <2>4
    <3> QED BY <1>1, <1>8, <3>1 DEF W
  <2> QED BY <2>1, <2>2, <2>3, <2>4
<1>12. Delivers \subseteq W
  BY <1>6 DEF Changed
<1>13. Changed(c, b) \subseteq W
  BY <1>9, <1>10, <1>11, <1>12 DEF Changed
<1>14. Changed(c, b) \in SUBSET Packages /\ ReleaseScope(c, b) = Consumers(Changed(c, b))
  BY <1>2, <1>3, ChangedTyped DEF c
<1> QED BY <1>5, <1>13, <1>14, ConsumersClose DEF c, W

\* The packages that depend on another whose version is inherited.
Following(t) == {p \in Packages : (DependencyScope[p] \ {p}) \cap t.inherited # {}}

\* A closed plan leaves nothing of its scope pending or short of an artifact, but for those.
LEMMA ClosingLeaves ==
  ASSUME NEW ctx \in Contexts, NEW request \in Tasks, NEW affected, NEW direct, NEW q,
         Kept(ctx, request, affected, direct, q), Extends(ctx.tree.ledger, ctx.base.ledger),
         InitiallyAffected(ctx, request.scope) \subseteq affected,
         affected \subseteq Reached(ctx.tree, ctx.base),
         NEW closed, closed.tree = Closed(ctx, request, q), closed.base = ctx.base,
         closed.lost = ctx.lost \ affected
  PROVE  InitiallyAffected(closed, request.scope) \subseteq Following(ctx.tree)
<1> DEFINE t == ctx.tree
           b == ctx.base
           c == Closed(ctx, request, q)
           scope == request.scope
<1> SUFFICES ASSUME NEW p \in InitiallyAffected(closed, scope), p \notin Following(t) PROVE FALSE
  OBVIOUS
<1>1. /\ q \in Plans /\ q.affected = affected /\ affected \in SUBSET Packages
      /\ ~CannotFollow(t, q.affected, q.version)
      /\ Moved(t, q) \cup t.inherited \subseteq affected
      /\ \A x \in Packages : Drawn(t, q, x) => x \in affected
  BY MovedAffected
<1>2. p \in scope /\ p \in Packages
  BY TaskParts DEF InitiallyAffected, Pending
<1>3. /\ p \in affected =>
            Recorded(c, p) /\ Latest(c, p) = EntryOf(ctx, request, q, p)
      /\ p \notin affected =>
            /\ Recorded(c, p) <=> Recorded(t, p)
            /\ Recorded(c, p) => Latest(c, p) = Latest(t, p)
  BY <1>1, <1>2, ClosedLatest
<1>4. /\ c.version = CandidateOf(t, q).version /\ c.req = CandidateOf(t, q).req
      /\ c.inherited = CandidateOf(t, q).inherited /\ c.content = CandidateOf(t, q).content
      /\ c.lock = CandidateOf(t, q).lock
  BY <1>1, ClosedIs
<1>5. DependencyScope[p] \cap (Moved(t, q) \cup t.inherited) = {} => Fingerprint(c, p) = Fingerprint(t, p)
  BY <1>2, ClosedLeaves
<1>6. ReleaseScope(c, b) \subseteq Reached(t, b)
  BY ScopeStays
<1>7. p \in Pending(c, b, scope) \/ (Recorded(c, p) /\ p \in ctx.lost /\ p \notin affected)
  BY DEF InitiallyAffected
<1> HIDE DEF c
<1>8. CASE p \in affected
  <2>1. Latest(c, p).print = Fingerprint(CandidateOf(t, q), p)
    BY <1>3, <1>8 DEF EntryOf
  <2>2. Fingerprint(CandidateOf(t, q), p) = Fingerprint(c, p)
    BY <1>4 DEF Fingerprint, Content, Build
  <2> QED BY <1>3, <1>7, <1>8, <2>1, <2>2 DEF Pending
<1>9. CASE p \notin affected
  <2>1. p \notin InitiallyAffected(ctx, scope)
    BY <1>9
  <2>2. DependencyScope[p] \cap t.inherited = {}
    <3>1. p \notin t.inherited
      BY <1>1, <1>9
    <3> QED BY <1>2, <3>1 DEF Following
  <2>3. CASE Recorded(t, p)
    <3>1. p \notin ctx.lost /\ Latest(t, p).print = Fingerprint(t, p)
      BY <1>2, <2>1, <2>3 DEF InitiallyAffected, Pending
    <3>2. DependencyScope[p] \cap Moved(t, q) = {}
      BY <1>1, <1>2, <1>9, <2>3 DEF Drawn
    <3>3. Fingerprint(c, p) = Fingerprint(t, p)
      BY <1>5, <2>2, <3>2
    <3>4. Recorded(c, p) /\ Latest(c, p).print = Fingerprint(c, p)
      BY <1>3, <1>9, <2>3, <3>1, <3>3
    <3> QED BY <1>7, <3>1, <3>4 DEF Pending
  <2>4. CASE ~Recorded(t, p)
    <3>1. p \notin ReleaseScope(t, b)
      BY <1>2, <2>1, <2>4 DEF InitiallyAffected, Pending
    <3>2. ~Recorded(c, p) /\ p \in ReleaseScope(c, b)
      BY <1>3, <1>7, <1>9, <2>4 DEF Pending
    <3>3. p \in Heirs(t)
      BY <1>6, <3>1, <3>2 DEF Reached
    <3> QED BY <2>2, <3>3 DEF Heirs
  <2> QED BY <2>3, <2>4
<1> QED BY <1>8, <1>9

-----------------------------------------------------------------------------
(* What a closed plan leaves opens the gate of a release. *)

\* The entries since the base that give a new version give one above the floor.
AboveFloor(t, b, floor) ==
  \A e \in EntriesSince(t, b) : e.before # e.after => Less(floor[e.id], e.after)

\* The ledger parses, and no version is inherited that was not at first.
Closing(t) == LedgerParses(t.ledger) /\ t.inherited \subseteq FirstInherited

\* A closed plan gives new versions above the floor.
LEMMA ClosedAbove ==
  ASSUME NEW ctx \in Contexts, NEW request \in Tasks, NEW affected, NEW direct, NEW q,
         Kept(ctx, request, affected, direct, q), Tracked(ctx.tree, ctx.base),
         AboveFloor(ctx.tree, ctx.base, ctx.floor)
  PROVE  AboveFloor(Closed(ctx, request, q), ctx.base, ctx.floor)
<1> DEFINE t == ctx.tree
           b == ctx.base
           c == Closed(ctx, request, q)
<1>1. /\ q \in Plans /\ q.affected \in SUBSET Packages /\ Fitting(ctx, request, q)
      /\ ~CannotFollow(t, q.affected, q.version)
  BY MovedAffected DEF Kept
<1>2. t \in Trees /\ b \in Trees
  BY ContextParts
<1>3. /\ c \in Trees /\ Extends(c.ledger, t.ledger)
      /\ \A i \in (Len(t.ledger) + 1)..Len(c.ledger) :
            \E p \in q.affected : c.ledger[i] = EntryOf(ctx, request, q, p)
  BY <1>1, ClosedIs
<1>4. c.ledger \in Seq(Entries) /\ t.ledger \in Seq(Entries) /\ b.ledger \in Seq(Entries)
  BY <1>2, <1>3, TreeParts
<1>5. Extends(t.ledger, b.ledger)
  BY DEF Tracked
<1>6. \A p \in Packages : /\ EntryOf(ctx, request, q, p).id = p
                          /\ EntryOf(ctx, request, q, p).before = t.version[p]
                          /\ EntryOf(ctx, request, q, p).after = q.version[p]
  BY <1>1, EntryFits
<1> HIDE DEF c
<1> SUFFICES ASSUME NEW e \in EntriesSince(c, b), e.before # e.after
             PROVE  Less(ctx.floor[e.id], e.after)
  BY DEF AboveFloor, c
<1>7. PICK i \in (Len(b.ledger) + 1)..Len(c.ledger) : e = c.ledger[i]
  BY DEF EntriesSince
<1>8. /\ Len(t.ledger) >= Len(b.ledger) /\ Len(c.ledger) >= Len(t.ledger)
      /\ \A j \in 1..Len(t.ledger) : c.ledger[j] = t.ledger[j]
      /\ Len(b.ledger) \in Nat /\ Len(t.ledger) \in Nat /\ Len(c.ledger) \in Nat
  BY <1>3, <1>4, <1>5, ExtendsIs
<1>9. CASE i \in 1..Len(t.ledger)
  <2>1. i \in (Len(b.ledger) + 1)..Len(t.ledger) /\ e = t.ledger[i]
    BY <1>7, <1>8, <1>9
  <2>2. e \in EntriesSince(t, b)
    BY <2>1 DEF EntriesSince
  <2> QED BY <2>2 DEF AboveFloor
<1>10. CASE i \in (Len(t.ledger) + 1)..Len(c.ledger)
  <2>1. PICK p \in q.affected : e = EntryOf(ctx, request, q, p)
    BY <1>3, <1>7, <1>10
  <2>2. p \in Packages /\ e.id = p /\ e.before = t.version[p] /\ e.after = q.version[p]
    BY <1>1, <1>6, <2>1
  <2>3. q.level[p] # 0
    BY <1>1, <2>2 DEF Fitting
  <2> QED BY <1>1, <2>2, <2>3, LevelRaises
<1> QED BY <1>7, <1>8, <1>9, <1>10

\* A checkout with nothing left to close passes the gate of a release.
LEMMA GateOpens ==
  ASSUME NEW x, x.tree \in Trees, x.base \in Trees, Extends(x.tree.ledger, x.base.ledger),
         AboveFloor(x.tree, x.base, x.floor), InitiallyAffected(x, Packages) = {}
  PROVE  ReleaseGate(x)
<1> DEFINE scope == ReleaseScope(x.tree, x.base)
<1>1. scope \in SUBSET Packages
  BY ChangedTyped
<1>2. Pending(x.tree, x.base, Packages) = {}
  BY DEF InitiallyAffected
<1> HIDE DEF scope
<1>3. Pending(x.tree, x.base, scope) = {}
  BY <1>1, <1>2 DEF Pending
<1>4. ASSUME NEW p \in scope PROVE Recorded(x.tree, p)
  BY <1>1, <1>2 DEF Pending, scope
<1>5. scope \cap x.lost = {}
  BY <1>1, <1>4 DEF InitiallyAffected
<1> QED BY <1>3, <1>5 DEF ReleaseGate, AboveFloor, scope

-----------------------------------------------------------------------------
(* The invariant. *)

\* The release that the checkout builds on.
Base == history[Len(history)].tree

\* A withdrawal restores the tree of a formal release.
Linked(h) ==
  \A i \in DOMAIN h : h[i].withdrawn # 0 =>
     h[i].restored \in FormalIn(h) /\ h[i].tree = h[h[i].restored].tree

\* An audit that succeeds has seen every formal release, and none is above its product
\* version or above its floor and the base.
AuditKept(h) ==
  Audit(h).ok =>
     /\ Audit(h).formal = FormalIn(h)
     /\ \A i \in FormalIn(h) : ~Less(Audit(h).product, h[i].tree.product)
     /\ Floored(h, Audit(h).floor, h[Len(h)].tree)

\* Two releases do not give the same number to different things.
OnceIn(one, two) ==
  /\ one.product # two.product
  /\ \A p \in Packages : one.version[p] = two.version[p] =>
        /\ one.content[p] = two.content[p]
        /\ \A e \in Edges : e[1] = p => one.req[e] = two.req[e]

\* Breaking changes between a release and the one before show in the numbers.
BreaksVisibly(old, new) ==
  \A e \in EntriesSince(new, old) : e.breaking =>
     /\ e.level > 0 => ~Compatible(old.version[e.id], new.version[e.id])
     /\ ~Compatible(old.product, new.product)

\* Every package of a release is as it was closed, or as before.
ValidOver(old, new) ==
  \A p \in Packages : IF Recorded(new, p) THEN Latest(new, p).print = Fingerprint(new, p)
                      ELSE Fingerprint(new, p) = Fingerprint(old, p)

\* What holds of the checkout.
TreeKept == Met(tree) /\ Tracked(tree, Base) /\ NumbersKept(history, tree, Base)

\* What holds of the history.
HistoryKept ==
  /\ Linked(history) /\ AuditKept(history)
  /\ \A i \in DOMAIN history : Met(history[i].tree) /\ Validated(history[i].tree)
  /\ \A i, j \in FormalIn(history) : i < j => OnceIn(history[i].tree, history[j].tree)
  /\ \A j \in FormalIn(history) \ {1} :
        /\ BreaksVisibly(history[j - 1].tree, history[j].tree)
        /\ ValidOver(history[j - 1].tree, history[j].tree)

\* The inductive invariant.  The properties speak of published trees only; what makes the
\* next release keep them is what holds of the checkout and of the audit.
ReleaseInv == ReleaseTypeOK /\ TreeKept /\ HistoryKept

\* The invariant implies the four properties.
LEMMA InvPromises ==
  ReleaseInv => PublishedOnce /\ BreakingIsVisible /\ ReleasedIsValidated /\ RequirementsHold
<1> SUFFICES ASSUME ReleaseInv
             PROVE  PublishedOnce /\ BreakingIsVisible /\ ReleasedIsValidated /\ RequirementsHold
  OBVIOUS
<1>1. Formal = FormalIn(history)
  BY DEF Formal, FormalIn
<1>2. PublishedOnce
  BY <1>1 DEF PublishedOnce, ReleaseInv, HistoryKept, OnceIn
<1>3. BreakingIsVisible
  BY <1>1 DEF BreakingIsVisible, ReleaseInv, HistoryKept, BreaksVisibly
<1>4. ReleasedIsValidated
  BY <1>1 DEF ReleasedIsValidated, ReleaseInv, HistoryKept, ValidOver
<1>5. RequirementsHold
  BY DEF RequirementsHold, ReleaseInv, TreeKept, Met
<1> QED BY <1>2, <1>3, <1>4, <1>5

-----------------------------------------------------------------------------
(* At first. *)

\* The first tree meets its requirements and has no entry.
LEMMA FirstTreeIs ==
  /\ FirstTree \in Trees /\ Met(FirstTree) /\ FirstTree.ledger = <<>>
  /\ \A p : ~Recorded(FirstTree, p)
<1>1. <<>> \in Seq(Entries) /\ [p \in Packages |-> 0] \in [Packages -> Nat]
  OBVIOUS
<1>2. FirstTree \in Trees
  BY <1>1, StartAssumption, RequiresAssumption DEF FirstTree, Trees
<1>3. Met(FirstTree)
  BY RequiresAssumption DEF Met, FirstTree
<1>4. FirstTree.ledger = <<>>
  BY DEF FirstTree
<1>5. \A p : ~Recorded(FirstTree, p)
  BY <1>4 DEF Recorded
<1> QED BY <1>2, <1>3, <1>4, <1>5

\* The invariant holds at first.
LEMMA FirstInv ==
  ReleaseInit => ReleaseInv
<1> SUFFICES ASSUME ReleaseInit PROVE ReleaseInv
  OBVIOUS
<1> DEFINE x == [tree |-> FirstTree, restored |-> 0, withdrawn |-> 0]
           h == <<x>>
           t == FirstTree
<1>1. /\ tree = t /\ lost = {} /\ history = h /\ receipt = Idle /\ changes = 0
  BY DEF ReleaseInit
<1>2. x \in Releases /\ x.tree = t /\ x.withdrawn = 0
  BY FirstTreeIs DEF Releases
<1> HIDE DEF x
<1>3. h \in Seq(Releases) /\ h # <<>> /\ Len(h) = 1 /\ h[1] = x /\ DOMAIN h = {1}
  BY <1>2
<1> HIDE DEF h
<1>4. FormalIn(h) = {1}
  BY <1>2, <1>3 DEF FormalIn
<1>5. t \in Trees /\ t.version \in [Packages -> Versions] /\ t.product \in Versions /\ Met(t)
      /\ \A p : ~Recorded(t, p)
  BY FirstTreeIs, TreeParts
<1>6. t.ledger = <<>> /\ t.ledger \in Seq(Entries) /\ Len(t.ledger) = 0
  BY FirstTreeIs, TreeParts
<1> HIDE DEF t
<1>7. ReleaseTypeOK
  <2>1. {} \subseteq Delivers /\ 0 \in 0..MaxChanges
    BY StartAssumption
  <2>2. Idle \in [status : {"none", "closed", "diverged", "rolled back"}, scope : SUBSET Packages]
    BY DEF Idle
  <2> QED BY <1>1, <1>3, <1>5, <2>1, <2>2 DEF ReleaseTypeOK
<1>8. Tracked(t, t)
  <2>1. Extends(t.ledger, t.ledger)
    BY <1>6, ExtendsIs
  <2>2. \A p \in Packages : ~Less(t.version[p], t.version[p])
    BY <1>5, LessOrder
  <2>3. VersionsRecorded(t, t)
    BY <1>5 DEF VersionsRecorded
  <2>4. (Len(t.ledger) + 1)..Len(t.ledger) = {}
    BY <1>6
  <2> QED BY <2>1, <2>2, <2>3, <2>4 DEF Tracked
<1>9. NumbersKept(h, t, t)
  BY <1>2, <1>3, <1>4, <1>5 DEF NumbersKept, ClosedContent, Alike
<1>10. Validated(t)
  BY <1>5 DEF Validated
<1>11. AuditKept(h)
  <2>1. Audit(h) = AuditStart(h)
    BY <1>3, AuditChain
  <2>2. /\ Audit(h).formal = {1} /\ Audit(h).product = t.product
        /\ \A p \in Packages : Audit(h).floor[p] = NoVersion
    BY <2>1, <1>2, <1>3 DEF AuditStart
  <2>3. ~Less(t.product, t.product)
    BY <1>5, LessOrder
  <2>4. \A p \in Packages : ~Less(Later(NoVersion, t.version[p]), t.version[p])
    BY <1>5, LaterIs, StableIs
  <2>5. Floored(h, Audit(h).floor, t)
    BY <2>2, <2>4, <1>2, <1>3, <1>4 DEF Floored
  <2> QED BY <2>2, <2>3, <2>5, <1>2, <1>3, <1>4 DEF AuditKept
<1>12. Linked(h)
  BY <1>2, <1>3 DEF Linked
<1>13. TreeKept
  BY <1>1, <1>2, <1>3, <1>5, <1>8, <1>9 DEF TreeKept, Base
<1>14. HistoryKept
  BY <1>1, <1>2, <1>3, <1>4, <1>5, <1>10, <1>11, <1>12 DEF HistoryKept
<1> QED BY <1>7, <1>13, <1>14 DEF ReleaseInv

-----------------------------------------------------------------------------
(* Edits. *)

\* An edit leaves versions, requirements and ledger alone.
Touched(t, u) ==
  /\ u \in Trees /\ u.version = t.version /\ u.req = t.req /\ u.product = t.product
  /\ u.ledger = t.ledger

\* Trees with the same ledger have the same entries.
LEMMA SameLedger ==
  ASSUME NEW t, NEW u, u.ledger = t.ledger
  PROVE  \A p : (Recorded(u, p) <=> Recorded(t, p)) /\ Latest(u, p) = Latest(t, p)
BY DEF Recorded, Latest

\* Such an edit keeps what is true of a tree.
LEMMA TouchedKeeps ==
  ASSUME NEW t, NEW u, Touched(t, u), NEW b, NEW h
  PROVE  /\ Met(t) => Met(u)
         /\ Tracked(t, b) => Tracked(u, b)
         /\ NumbersKept(h, t, b) => NumbersKept(h, u, b)
<1>1. /\ u.version = t.version /\ u.req = t.req /\ u.product = t.product /\ u.ledger = t.ledger
      /\ \A p : (Recorded(u, p) <=> Recorded(t, p)) /\ Latest(u, p) = Latest(t, p)
  BY SameLedger DEF Touched
<1>2. Met(t) => Met(u)
  BY <1>1 DEF Met
<1>3. Tracked(t, b) => Tracked(u, b)
  BY <1>1 DEF Tracked, VersionsRecorded, Rises
<1>4. NumbersKept(h, t, b) => NumbersKept(h, u, b)
  BY <1>1 DEF NumbersKept, ClosedContent
<1> QED BY <1>2, <1>3, <1>4

\* Such an edit keeps the invariant.
LEMMA EditKeeps ==
  ASSUME ReleaseInv, Edited, Touched(tree, tree'), lost' \subseteq Delivers
  PROVE  ReleaseInv'
<1>1. /\ history' = history /\ receipt' = Idle /\ changes' = changes + 1 /\ changes < MaxChanges
  BY DEF Edited
<1>2. HistoryKept'
  BY <1>1 DEF ReleaseInv, HistoryKept
<1>3. TreeKept'
  BY <1>1, TouchedKeeps DEF ReleaseInv, TreeKept, Base
<1>4. ReleaseTypeOK'
  <2>1. Idle \in [status : {"none", "closed", "diverged", "rolled back"}, scope : SUBSET Packages]
    BY DEF Idle
  <2>2. changes' \in 0..MaxChanges
    <3>1. MaxChanges \in Nat
      BY StartAssumption
    <3>2. changes \in 0..MaxChanges
      BY DEF ReleaseInv, ReleaseTypeOK
    <3> QED BY <1>1, <3>1, <3>2
  <2> QED BY <1>1, <2>1, <2>2 DEF ReleaseInv, ReleaseTypeOK, Touched
<1> QED BY <1>2, <1>3, <1>4 DEF ReleaseInv

\* The context of a command, and the release it builds on.
LEMMA ContextIs ==
  ASSUME ReleaseTypeOK
  PROVE  /\ Context \in Contexts
         /\ Context.tree = tree /\ Context.base = Base /\ Context.floor = Audit(history).floor
         /\ Context.lost = lost
         /\ Base \in Trees /\ tree \in Trees /\ Len(history) \in Nat \ {0}
         /\ Boundary(history) = Base /\ Audit(history) \in Audits
<1>1. /\ history \in Seq(Releases) /\ history # <<>> /\ tree \in Trees /\ lost \subseteq Delivers
  BY DEF ReleaseTypeOK
<1>2. Within(Audit(history), Len(history)) /\ Boundary(history) = Base
  BY <1>1, AuditWithin DEF Base
<1>3. Audit(history) \in Audits
  BY <1>2 DEF Within
<1>4. Len(history) \in Nat \ {0} /\ Len(history) \in 1..Len(history)
  BY <1>1
<1>5. Base \in Trees
  BY <1>1, <1>4, ReleaseParts DEF Base
<1>6. Audit(history).floor \in [Packages -> Versions]
  BY <1>3 DEF Audits
<1>7. lost \in SUBSET Packages
  BY <1>1, PolicyAssumption
<1>8. /\ Context.tree = tree /\ Context.base = Base /\ Context.floor = Audit(history).floor
      /\ Context.lost = lost
  BY <1>2 DEF Context
<1>9. Context \in Contexts
  BY <1>1, <1>2, <1>5, <1>6, <1>7 DEF Context, Contexts
<1> QED BY <1>1, <1>2, <1>3, <1>4, <1>5, <1>8, <1>9

\* Each of the four edits.
LEMMA EditsKeep ==
  ASSUME ReleaseInv,
         EditOther \/ \E p \in Packages : EditContent(p) \/ UpdateLock(p) \/ LoseArtifact(p)
  PROVE  ReleaseInv'
<1>1. tree \in Trees /\ lost \subseteq Delivers /\ changes \in Nat /\ ReleaseTypeOK
  <2>1. MaxChanges \in Nat
    BY StartAssumption
  <2>2. tree \in Trees /\ lost \subseteq Delivers /\ changes \in 0..MaxChanges /\ ReleaseTypeOK
    BY DEF ReleaseInv, ReleaseTypeOK
  <2> QED BY <2>1, <2>2
<1>2. /\ tree.content \in [Packages -> Nat] /\ tree.lock \in [Packages -> Nat]
      /\ Boundary(history).content \in [Packages -> Nat]
  BY <1>1, ContextIs, TreeParts
<1>3. ASSUME NEW p \in Packages, EditContent(p) PROVE ReleaseInv'
  <2>1. PICK c \in {changes + 1, Boundary(history).content[p]} :
           tree' = [tree EXCEPT !.content[p] = c]
    BY <1>3 DEF EditContent
  <2> DEFINE f == [tree.content EXCEPT ![p] = c]
  <2>2. c \in Nat
    BY <1>1, <1>2, <2>1
  <2>3. f \in [Packages -> Nat]
    BY <1>2, <2>2
  <2>4. tree' = [tree EXCEPT !.content = f]
    BY <2>1
  <2> HIDE DEF f
  <2>5. Touched(tree, tree')
    BY <1>1, <2>3, <2>4 DEF Touched, Trees
  <2> QED BY <1>1, <1>3, <2>5, EditKeeps DEF EditContent
<1>4. ASSUME NEW p \in Packages, UpdateLock(p) PROVE ReleaseInv'
  <2> DEFINE f == [tree.lock EXCEPT ![p] = changes + 1]
  <2>1. f \in [Packages -> Nat]
    BY <1>1, <1>2
  <2>2. tree' = [tree EXCEPT !.lock = f]
    BY <1>4 DEF UpdateLock
  <2> HIDE DEF f
  <2>3. Touched(tree, tree')
    BY <1>1, <2>1, <2>2 DEF Touched, Trees
  <2> QED BY <1>1, <1>4, <2>3, EditKeeps DEF UpdateLock
<1>5. ASSUME EditOther PROVE ReleaseInv'
  <2>1. tree' = [tree EXCEPT !.other = changes + 1] /\ changes + 1 \in Nat
    BY <1>1, <1>5 DEF EditOther
  <2>2. Touched(tree, tree')
    BY <1>1, <2>1 DEF Touched, Trees
  <2> QED BY <1>1, <1>5, <2>2, EditKeeps DEF EditOther
<1>6. ASSUME NEW p \in Packages, LoseArtifact(p) PROVE ReleaseInv'
  <2>1. Touched(tree, tree')
    BY <1>1, <1>6 DEF LoseArtifact, Touched
  <2> QED BY <1>1, <1>6, <2>1, EditKeeps DEF LoseArtifact
<1> QED BY <1>3, <1>4, <1>5, <1>6

-----------------------------------------------------------------------------
(* develop. *)

\* The type of a request.
LEMMA RequestsTyped ==
  ASSUME NEW scope \in Scopes, NEW first, NEW request \in Requests(scope, first)
  PROVE  request \in Tasks /\ request.scope = scope /\ scope \in SUBSET Packages
<1>1. scope \in SUBSET Packages
  <2>1. ASSUME NEW S \in SUBSET Packages PROVE TaskScope(S) \in SUBSET Packages
    <3>1. Consumers(S) \in SUBSET Packages
      BY ScopeHolds
    <3>2. \A p \in Consumers(S) : DependencyScope[p] \in SUBSET Packages
      BY <3>1, ScopeHolds
    <3> QED BY <3>2 DEF TaskScope
  <2> QED BY <2>1 DEF Scopes
<1> DEFINE reach == Consumers(first) \cup tree.inherited
<1>2. PICK impacts \in SUBSET Edges, chosen \in [reach -> Answers] :
         request = [scope |-> scope, impacts |-> impacts,
                    analysis |-> [p \in Packages |-> IF p \in reach THEN chosen[p] ELSE Absent]]
  BY DEF Requests
<1>3. Absent \in Analyses
  BY StableIs DEF Absent, Analyses
<1> DEFINE a == [p \in Packages |-> IF p \in reach THEN chosen[p] ELSE Absent]
<1>4. a \in [Packages -> Analyses]
  <2> HIDE DEF reach
  <2> QED BY <1>3, AnswersAssumption
<1>5. request = [scope |-> scope, impacts |-> impacts, analysis |-> a]
  BY <1>2
<1> HIDE DEF a
<1> QED BY <1>1, <1>4, <1>5 DEF Tasks

\* A develop that gives up keeps the invariant.
LEMMA ReportKeeps ==
  ASSUME ReleaseInv, NEW status \in {"rolled back", "diverged"}, Reports(status)
  PROVE  ReleaseInv'
<1>1. /\ tree' = tree /\ lost' = lost /\ history' = history /\ changes' = changes
      /\ receipt' = [status |-> status, scope |-> {}]
  BY DEF Reports
<1>2. receipt' \in [status : {"none", "closed", "diverged", "rolled back"}, scope : SUBSET Packages]
  BY <1>1
<1> QED BY <1>1, <1>2 DEF ReleaseInv, ReleaseTypeOK, TreeKept, HistoryKept, Base

\* A develop that closes a plan keeps the invariant.
LEMMA ClosesKeeps ==
  ASSUME ReleaseInv, Audit(history).ok, NEW request \in Tasks, NEW affected, NEW direct, NEW q,
         Kept(Context, request, affected, direct, q), Closes(Context, request, q)
  PROVE  ReleaseInv'
<1> DEFINE ctx == Context
           c   == Closed(ctx, request, q)
<1>1. ReleaseTypeOK /\ Met(tree) /\ Tracked(tree, Base) /\ NumbersKept(history, tree, Base)
      /\ AuditKept(history)
  BY DEF ReleaseInv, TreeKept, HistoryKept
<1>2. /\ ctx \in Contexts /\ ctx.tree = tree /\ ctx.base = Base
      /\ ctx.floor = Audit(history).floor /\ history \in Seq(Releases)
  BY <1>1, ContextIs DEF ReleaseTypeOK
<1>3. CASE ~LedgerParses(c.ledger)
  <2>1. Reports("rolled back")
    BY <1>3 DEF Closes
  <2> QED BY <2>1, ReportKeeps
<1>4. CASE LedgerParses(c.ledger)
  <2>1. /\ tree' = c /\ lost' \subseteq lost /\ history' = history /\ changes' = changes
        /\ receipt' = [status |-> "closed", scope |-> request.scope]
    BY <1>4 DEF Closes
  <2> HIDE DEF ctx
  <2>2. q \in Plans /\ ~CannotFollow(ctx.tree, q.affected, q.version)
    BY DEF Kept, ctx
  <2>3. /\ c \in Trees /\ c.version = CandidateOf(ctx.tree, q).version
        /\ c.req = CandidateOf(ctx.tree, q).req
    BY <1>2, <2>2, ClosedIs
  <2>4. Met(CandidateOf(ctx.tree, q))
    BY <1>1, <1>2, CandidateMet DEF ctx
  <2>5. Met(c)
    BY <2>3, <2>4 DEF Met
  <2>6. Tracked(c, Base)
    BY <1>1, <1>2, DevelopTracks DEF ctx
  <2>7. Floored(history, ctx.floor, ctx.base)
    BY <1>1, <1>2 DEF AuditKept, Base
  <2>8. NumbersKept(history, c, Base)
    BY <1>1, <1>2, <2>7, DevelopNumbers DEF ctx
  <2> HIDE DEF c
  <2>9. TreeKept'
    BY <2>1, <2>5, <2>6, <2>8 DEF TreeKept, Base
  <2>10. HistoryKept'
    BY <2>1 DEF ReleaseInv, HistoryKept
  <2>11. ReleaseTypeOK'
    <3>1. receipt' \in [status : {"none", "closed", "diverged", "rolled back"}, scope : SUBSET Packages]
      BY <2>1, TaskParts
    <3> QED BY <1>1, <2>1, <2>3, <3>1 DEF ReleaseTypeOK
  <2> QED BY <2>9, <2>10, <2>11 DEF ReleaseInv
<1> QED BY <1>3, <1>4

\* Develop keeps the invariant: its plan is prepared, then checked, then closed.
LEMMA DevelopKeeps ==
  ASSUME ReleaseInv, NEW scope \in Scopes, Develop(scope)
  PROVE  ReleaseInv'
<1> DEFINE ctx   == Context
           first == InitiallyAffected(ctx, scope)
<1>1. PICK request \in Requests(scope, first) :
         LET pl == Prepare(ctx, request, first)
         IN  /\ pl.error \in {"none", "diverged"}
             /\ IF pl.error = "diverged" THEN Reports(pl.error)
                ELSE \E failures \in Failures : Closes(ctx, request, Checked(tree, pl, failures))
  BY DEF Develop
<1>2. Audit(history).ok
  BY DEF Develop
<1>3. request \in Tasks /\ request.scope = scope /\ scope \in SUBSET Packages
  BY RequestsTyped
<1>4. ReleaseTypeOK /\ Met(tree) /\ ctx \in Contexts /\ ctx.tree = tree
  BY ContextIs DEF ReleaseInv, TreeKept
<1>5. first \in SUBSET Packages
  BY <1>3 DEF InitiallyAffected, Pending
<1> DEFINE pl == Prepare(ctx, request, first)
<1>6. CASE pl.error = "diverged"
  BY <1>1, <1>6, ReportKeeps
<1>7. CASE pl.error # "diverged"
  <2>1. PICK failures \in Failures : Closes(ctx, request, Checked(tree, pl, failures))
    BY <1>1, <1>7
  <2>2. pl.error = "none"
    BY <1>1, <1>7
  <2>3. /\ Kept(ctx, request, pl.affected, pl.direct, pl)
        /\ \A p \in pl.affected \ pl.direct : UnchangedContent(ctx.tree, ctx.base, p)
    <3> HIDE DEF ctx
    <3>1. first = InitiallyAffected(ctx, request.scope)
      BY <1>3
    <3> HIDE DEF first
    <3> QED BY <1>3, <1>4, <1>5, <2>2, <3>1, PreparedKept
  <2>4. Len(failures) \in Nat
    BY <2>1 DEF Failures
  <2> HIDE DEF pl
  <2>5. Kept(ctx, request, pl.affected, pl.direct, Checked(tree, pl, failures))
    <3> HIDE DEF ctx
    <3> QED BY <1>3, <1>4, <2>3, <2>4, CheckedKeeps
  <2> QED BY <1>2, <1>3, <2>1, <2>5, ClosesKeeps
<1> QED BY <1>6, <1>7

-----------------------------------------------------------------------------
(* Releases and withdrawals. *)

\* What a floor and a version are not below, they are not below when the version rises.
LEMMA LaterRises ==
  ASSUME NEW f \in Versions, NEW u \in Versions, NEW v \in Versions, NEW w \in Versions,
         ~Less(v, u), ~Less(Later(f, u), w)
  PROVE  ~Less(Later(f, v), w)
<1>1. /\ Later(f, u) \in {f, u} /\ Later(f, v) \in Versions /\ Later(f, u) \in Versions
      /\ ~Less(Later(f, v), f) /\ ~Less(Later(f, v), v)
  BY LaterIs
<1>2. ~Less(Later(f, v), u)
  BY <1>1, LessOrder
<1>3. ~Less(Later(f, v), Later(f, u))
  BY <1>1, <1>2
<1> QED BY <1>1, <1>3, LessOrder

\* A tree as its entries say is one to build on.
LEMMA ValidatedIs ==
  ASSUME NEW t \in Trees, Validated(t)
  PROVE  /\ Tracked(t, t)
         /\ \A p \in Packages : ClosedContent(t, t, p) = Content(t, p)
<1>1. t.version \in [Packages -> Versions] /\ t.ledger \in Seq(Entries)
  BY TreeParts
<1>2. Extends(t.ledger, t.ledger)
  BY <1>1, ExtendsIs
<1>3. \A p \in Packages : ~Less(t.version[p], t.version[p])
  BY <1>1, LessOrder
<1>4. VersionsRecorded(t, t)
  BY DEF VersionsRecorded, Validated
<1>5. (Len(t.ledger) + 1)..Len(t.ledger) = {}
  BY <1>1
<1>6. ASSUME NEW p \in Packages PROVE ClosedContent(t, t, p) = Content(t, p)
  <2>1. Recorded(t, p) => Latest(t, p).print = Fingerprint(t, p)
    BY DEF Validated
  <2>2. Fingerprint(t, p).content = Content(t, p)
    BY DEF Fingerprint
  <2> QED BY <2>1, <2>2 DEF ClosedContent
<1> QED BY <1>2, <1>3, <1>4, <1>5, <1>6 DEF Tracked

\* A history with one commit more.
LEMMA AppendIs ==
  ASSUME NEW h \in Seq(Releases), h # <<>>, NEW x \in Releases
  PROVE  LET g == Append(h, x)
             n == Len(h)
         IN  /\ g \in Seq(Releases) /\ g # <<>> /\ Len(g) = n + 1 /\ n \in Nat \ {0}
             /\ g[n + 1] = x /\ \A i \in 1..n : g[i] = h[i]
             /\ DOMAIN g = 1..(n + 1) /\ DOMAIN h = 1..n /\ FormalIn(h) \subseteq 1..n
             /\ x.withdrawn = 0 => FormalIn(g) = FormalIn(h) \cup {n + 1}
             /\ x.withdrawn # 0 => FormalIn(g) = FormalIn(h)
<1> DEFINE g == Append(h, x)
           n == Len(h)
<1>1. /\ g \in Seq(Releases) /\ g # <<>> /\ Len(g) = n + 1 /\ n \in Nat \ {0}
      /\ g[n + 1] = x /\ \A i \in 1..n : g[i] = h[i]
      /\ DOMAIN g = 1..(n + 1) /\ DOMAIN h = 1..n
  OBVIOUS
<1> HIDE DEF g
<1>2. FormalIn(h) \subseteq 1..n
  BY <1>1 DEF FormalIn
<1>3. 1..(n + 1) = (1..n) \cup {n + 1}
  BY <1>1
<1>4. x.withdrawn = 0 => FormalIn(g) = FormalIn(h) \cup {n + 1}
  BY <1>1, <1>3 DEF FormalIn
<1>5. x.withdrawn # 0 => FormalIn(g) = FormalIn(h)
  BY <1>1, <1>3 DEF FormalIn
<1> QED BY <1>1, <1>2, <1>4, <1>5 DEF g

\* Two trees that own the same files and requirements at a version agree on them.
LEMMA AlikeIs ==
  ASSUME NEW one, NEW two, NEW p
  PROVE  Alike(Content(one, p), Content(two, p)) <=>
            /\ one.content[p] = two.content[p]
            /\ \A e \in Edges : e[1] = p => one.req[e] = two.req[e]
<1> DEFINE F == {f \in Edges : f[1] = p}
           r == [e \in F |-> one.req[e]]
           s == [e \in F |-> two.req[e]]
<1>1. /\ Content(one, p).files = one.content[p] /\ Content(one, p).requires = r
      /\ Content(two, p).files = two.content[p] /\ Content(two, p).requires = s
  BY DEF Content
<1>2. r = s <=> \A e \in F : one.req[e] = two.req[e]
  <2>1. ASSUME r = s, NEW e \in F PROVE one.req[e] = two.req[e]
    <3>1. r[e] = one.req[e] /\ s[e] = two.req[e]
      OBVIOUS
    <3> HIDE DEF r, s
    <3> QED BY <2>1, <3>1
  <2> QED BY <2>1
<1> QED BY <1>1, <1>2 DEF Alike

\* A commit that leaves the checkout at its tree.
LEMMA CommitKeeps ==
  ASSUME ReleaseInv, NEW x \in Releases,
         history' = Append(history, x), tree' = x.tree, receipt' = Idle, changes' = changes,
         lost' \subseteq Delivers,
         Met(x.tree), Validated(x.tree), AuditKept(Append(history, x)),
         NumbersKept(Append(history, x), x.tree, x.tree),
         x.withdrawn # 0 => x.restored \in FormalIn(history) /\ x.tree = history[x.restored].tree,
         x.withdrawn = 0 => /\ \A i \in FormalIn(history) : OnceIn(history[i].tree, x.tree)
                            /\ BreaksVisibly(Base, x.tree) /\ ValidOver(Base, x.tree)
  PROVE  ReleaseInv'
<1> DEFINE h == history
           g == Append(h, x)
           n == Len(h)
<1>1. ReleaseTypeOK /\ HistoryKept /\ history \in Seq(Releases) /\ history # <<>>
  BY DEF ReleaseInv, ReleaseTypeOK
<1>2. /\ g \in Seq(Releases) /\ g # <<>> /\ Len(g) = n + 1 /\ n \in Nat \ {0}
      /\ g[n + 1] = x /\ \A i \in 1..n : g[i] = h[i]
      /\ DOMAIN g = 1..(n + 1) /\ DOMAIN h = 1..n /\ FormalIn(h) \subseteq 1..n
      /\ x.withdrawn = 0 => FormalIn(g) = FormalIn(h) \cup {n + 1}
      /\ x.withdrawn # 0 => FormalIn(g) = FormalIn(h)
  BY <1>1, AppendIs
<1>3. x.tree \in Trees
  BY DEF Releases
<1>4. /\ Linked(h) /\ \A i \in DOMAIN h : Met(h[i].tree) /\ Validated(h[i].tree)
      /\ \A i, j \in FormalIn(h) : i < j => OnceIn(h[i].tree, h[j].tree)
      /\ \A j \in FormalIn(h) \ {1} :
            BreaksVisibly(h[j - 1].tree, h[j].tree) /\ ValidOver(h[j - 1].tree, h[j].tree)
  BY <1>1 DEF HistoryKept
<1>5. Base = h[n].tree
  BY DEF Base
<1>6. history' = g /\ AuditKept(g) /\ NumbersKept(g, x.tree, x.tree)
  OBVIOUS
<1> HIDE DEF g, n
<1>7. ASSUME NEW i \in 1..(n + 1), i # n + 1 PROVE i \in 1..n
  BY <1>2, <1>7
<1>8. Linked(g)
  <2> SUFFICES ASSUME NEW i \in 1..(n + 1), g[i].withdrawn # 0
               PROVE  g[i].restored \in FormalIn(g) /\ g[i].tree = g[g[i].restored].tree
    BY <1>2 DEF Linked
  <2>1. CASE i = n + 1
    <3>1. x.restored \in FormalIn(h) /\ x.tree = h[x.restored].tree
      BY <1>2, <2>1
    <3>2. g[x.restored] = h[x.restored] /\ x.restored \in FormalIn(g)
      BY <1>2, <3>1
    <3> QED BY <1>2, <2>1, <3>1, <3>2
  <2>2. CASE i # n + 1
    <3>1. i \in 1..n /\ g[i] = h[i]
      BY <1>2, <1>7, <2>2
    <3>2. h[i].restored \in FormalIn(h) /\ h[i].tree = h[h[i].restored].tree
      BY <1>2, <1>4, <3>1 DEF Linked
    <3>3. g[h[i].restored] = h[h[i].restored] /\ h[i].restored \in FormalIn(g)
      BY <1>2, <3>2
    <3> QED BY <3>1, <3>2, <3>3
  <2> QED BY <2>1, <2>2
<1>9. ASSUME NEW i \in 1..(n + 1) PROVE Met(g[i].tree) /\ Validated(g[i].tree)
  BY <1>2, <1>4, <1>7
<1>10. ASSUME NEW i \in FormalIn(g), NEW j \in FormalIn(g), i < j
       PROVE  OnceIn(g[i].tree, g[j].tree)
  <2>1. i \in 1..(n + 1) /\ j \in 1..(n + 1)
    BY <1>2 DEF FormalIn
  <2>2. i # n + 1 /\ i \in 1..n
    BY <1>2, <1>10, <2>1
  <2>3. i \in FormalIn(h) /\ g[i] = h[i]
    BY <1>2, <2>2
  <2>4. CASE j = n + 1
    <3>1. x.withdrawn = 0
      BY <1>2, <2>4 DEF FormalIn
    <3> QED BY <1>2, <2>3, <2>4, <3>1
  <2>5. CASE j # n + 1
    <3>1. j \in FormalIn(h) /\ g[j] = h[j]
      BY <1>2, <1>7, <2>1, <2>5
    <3> QED BY <1>4, <1>10, <2>3, <3>1
  <2> QED BY <2>4, <2>5
<1>11. ASSUME NEW j \in FormalIn(g) \ {1}
       PROVE  BreaksVisibly(g[j - 1].tree, g[j].tree) /\ ValidOver(g[j - 1].tree, g[j].tree)
  <2>1. j \in 1..(n + 1)
    BY <1>2 DEF FormalIn
  <2>2. CASE j = n + 1
    <3>1. x.withdrawn = 0
      BY <1>2, <2>2 DEF FormalIn
    <3>2. j - 1 = n /\ n \in 1..n
      BY <1>2, <2>2
    <3>3. g[j - 1].tree = Base /\ g[j] = x
      BY <1>2, <1>5, <2>2, <3>2
    <3> QED BY <3>1, <3>3
  <2>3. CASE j # n + 1
    <3>1. j \in FormalIn(h) \ {1} /\ g[j] = h[j]
      BY <1>2, <1>7, <2>1, <2>3
    <3>2. j - 1 \in 1..n
      BY <1>2, <2>1, <2>3
    <3> QED BY <1>2, <1>4, <3>1, <3>2
  <2> QED BY <2>2, <2>3
<1>12. HistoryKept'
  BY <1>2, <1>6, <1>8, <1>9, <1>10, <1>11 DEF HistoryKept
<1>13. TreeKept'
  <2>1. Base' = x.tree
    BY <1>2, <1>6 DEF Base
  <2>2. Tracked(x.tree, x.tree)
    BY <1>3, ValidatedIs
  <2> QED BY <1>6, <2>1, <2>2 DEF TreeKept
<1>14. ReleaseTypeOK'
  <2>1. Idle \in [status : {"none", "closed", "diverged", "rolled back"}, scope : SUBSET Packages]
    BY DEF Idle
  <2> QED BY <1>1, <1>2, <1>3, <1>6, <2>1 DEF ReleaseTypeOK
<1> QED BY <1>12, <1>13, <1>14 DEF ReleaseInv

\* What a release adds.
LEMMA ProductRises ==
  ASSUME ReleaseInv, NEW a \in ProductAnswers, NEW entries, ~ProductRefused(a, entries)
  PROVE  LET v == ProductVersion(a)
         IN  /\ v \in Versions /\ Less(tree.product, v) /\ Less(Audit(history).product, v)
             /\ (\E e \in entries : e.breaking) => ~Compatible(tree.product, v)
<1> DEFINE old == tree.product
           pub == Audit(history).product
           b   == Later(old, pub)
           v   == ProductVersion(a)
<1>1. a.level \in 1..3 /\ a.target \in Versions
  BY AnswersAssumption DEF Analyses
<1>2. old \in Versions /\ pub \in Versions
  <2>1. tree \in Trees /\ Audit(history) \in Audits
    BY ContextIs DEF ReleaseInv
  <2> QED BY <2>1, TreeParts DEF Audits
<1>3. v = IF a.target # NoVersion THEN a.target ELSE BumpNative(b, a.level)
  BY DEF ProductVersion
<1>4. Less(b, v) /\ ~Less(v, BumpNative(b, a.level))
  BY DEF ProductRefused
<1>5. (\E e \in entries : e.breaking) => a.level = BreakingLevel(old)
  BY DEF ProductRefused
<1> HIDE DEF old, pub, v, b
<1>6. b \in Versions /\ ~Less(b, old) /\ ~Less(b, pub)
  BY <1>2, LaterIs DEF b
<1>7. BumpNative(b, a.level) \in Versions
  BY <1>1, <1>6, BumpGrows
<1>8. v \in Versions
  BY <1>1, <1>3, <1>7
<1>9. Less(old, v) /\ Less(pub, v)
  BY <1>2, <1>4, <1>6, <1>8, LessOrder
<1>10. ASSUME \E e \in entries : e.breaking PROVE ~Compatible(old, v)
  <2>1. ~Less(old, old)
    BY <1>2, LessOrder
  <2>2. ~Less(v, BumpNative(b, BreakingLevel(old)))
    BY <1>4, <1>5, <1>10
  <2> QED BY <1>2, <1>6, <1>8, <2>1, <2>2, BreakingLeaves
<1> QED BY <1>8, <1>9, <1>10 DEF old, pub, v

\* A breaking entry since the release a tree builds on leaves the caret range of the
\* version that release has.
LEMMA EntriesRise ==
  ASSUME NEW t \in Trees, NEW b \in Trees, Tracked(t, b), NEW e \in EntriesSince(t, b),
         e.breaking, e.level > 0
  PROVE  ~Compatible(b.version[e.id], t.version[e.id])
<1>1. t.ledger \in Seq(Entries) /\ b.ledger \in Seq(Entries)
  BY TreeParts
<1>2. PICK i \in (Len(b.ledger) + 1)..Len(t.ledger) : e = t.ledger[i]
  BY DEF EntriesSince
<1>3. i \in 1..Len(t.ledger)
  BY <1>1
<1>4. e \in Entries
  BY <1>1, <1>2, <1>3
<1>5. e.id \in Packages /\ e.before \in Versions /\ e.after \in Versions
  BY <1>4 DEF Entries
<1>6. b.version[e.id] \in Versions /\ t.version[e.id] \in Versions
  BY <1>5, TreeParts
<1>7. Rises(t, b, e)
  BY <1>2 DEF Tracked
<1>8. /\ ~Less(e.before, b.version[e.id]) /\ ~Less(t.version[e.id], e.after)
      /\ ~Less(e.after, BumpNative(e.before, BreakingLevel(e.before)))
  BY <1>7 DEF Rises
<1>9. BumpNative(e.before, BreakingLevel(e.before)) \in Versions
  <2>1. BreakingLevel(e.before) \in 1..3
    BY DEF BreakingLevel
  <2> QED BY <1>5, <2>1, BumpGrows
<1>10. ~Less(t.version[e.id], BumpNative(e.before, BreakingLevel(e.before)))
  BY <1>5, <1>6, <1>8, <1>9, LessOrder
<1>11. ~Less(e.before, e.before)
  BY <1>5, LessOrder
<1> QED BY <1>5, <1>6, <1>8, <1>10, <1>11, BreakingLeaves

\* A formal release.
LEMMA ReleaseKeeps ==
  ASSUME ReleaseInv, Release
  PROVE  ReleaseInv'
<1>1. PICK a \in ProductAnswers :
         /\ ~ProductRefused(a, EntriesSince(tree, Base))
         /\ tree' = [tree EXCEPT !.product = ProductVersion(a)]
  BY ContextIs DEF Release, ReleaseInv
<1> DEFINE v == ProductVersion(a)
           t == tree'
           x == [tree |-> tree', restored |-> 0, withdrawn |-> 0]
           h == history
           g == Append(history, x)
           n == Len(history)
<1>2. /\ ReleaseTypeOK /\ Met(tree) /\ Tracked(tree, Base) /\ NumbersKept(h, tree, Base)
      /\ AuditKept(h) /\ \A i \in DOMAIN h : Validated(h[i].tree)
  BY DEF ReleaseInv, TreeKept, HistoryKept
<1>3. /\ Audit(h).ok /\ ReleaseGate(Context) /\ history' = g /\ receipt' = Idle
      /\ lost' = lost /\ changes' = changes
  BY DEF Release
<1>4. /\ Base \in Trees /\ tree \in Trees /\ Audit(h) \in Audits /\ n \in Nat \ {0}
      /\ Context.tree = tree /\ Context.base = Base
      /\ h \in Seq(Releases) /\ h # <<>> /\ lost \subseteq Delivers
  BY <1>2, ContextIs DEF ReleaseTypeOK
<1>5. /\ v \in Versions /\ Less(tree.product, v) /\ Less(Audit(h).product, v)
      /\ (\E e \in EntriesSince(tree, Base) : e.breaking) => ~Compatible(tree.product, v)
  BY <1>1, ProductRises
<1>6. /\ tree.product \in Versions /\ Audit(h).product \in Versions
      /\ Audit(h).floor \in [Packages -> Versions] /\ Base.version \in [Packages -> Versions]
      /\ tree.version \in [Packages -> Versions] /\ tree.product = Base.product
  BY <1>2, <1>4, TreeParts DEF Audits, Tracked
<1>7. t \in Trees /\ t.product = v
  BY <1>1, <1>4, <1>5 DEF Trees
<1>8. /\ t.version = tree.version /\ t.content = tree.content /\ t.req = tree.req
      /\ t.lock = tree.lock /\ t.inherited = tree.inherited /\ t.ledger = tree.ledger
  BY <1>1, <1>4 DEF Trees
<1>9. x \in Releases /\ x.tree = t /\ x.withdrawn = 0
  BY <1>7 DEF Releases
<1> HIDE DEF v, t, x
<1>10. /\ \A p : (Recorded(t, p) <=> Recorded(tree, p)) /\ Latest(t, p) = Latest(tree, p)
       /\ \A p : Content(t, p) = Content(tree, p)
       /\ \A p : Build(t, p) = Build(tree, p)
       /\ EntriesSince(t, Base) = EntriesSince(tree, Base)
  BY <1>8, SameLedger DEF Content, Build, EntriesSince
<1>11. \A p : Fingerprint(t, p) = Fingerprint(tree, p)
  BY <1>10 DEF Fingerprint
<1>12. ASSUME NEW p \in Packages
       PROVE  /\ IF Recorded(tree, p) THEN Latest(tree, p).print = Fingerprint(tree, p)
                 ELSE Fingerprint(tree, p) = Fingerprint(Base, p)
              /\ ClosedContent(tree, Base, p) = Content(tree, p)
  <2>1. Validated(Base)
    BY <1>2, <1>4 DEF Base
  <2>2. Pending(tree, Base, ReleaseScope(tree, Base)) = {} /\ Extends(tree.ledger, Base.ledger)
    BY <1>3, <1>4 DEF ReleaseGate
  <2> QED BY <1>4, <2>1, <2>2, GateFinds
<1>13. Met(t)
  BY <1>2, <1>8 DEF Met
<1>14. ValidOver(Base, t)
  BY <1>10, <1>11, <1>12 DEF ValidOver
<1>15. Validated(t)
  <2>1. \A p \in Packages : Recorded(tree, p) => Latest(tree, p).after = tree.version[p]
    BY <1>2 DEF Tracked, VersionsRecorded
  <2> QED BY <1>8, <1>10, <1>11, <1>12, <2>1 DEF Validated
<1>16. BreaksVisibly(Base, t)
  <2> SUFFICES ASSUME NEW e \in EntriesSince(tree, Base), e.breaking
               PROVE  /\ e.level > 0 => ~Compatible(Base.version[e.id], t.version[e.id])
                      /\ ~Compatible(Base.product, t.product)
    BY <1>10 DEF BreaksVisibly
  <2>1. e.level > 0 => ~Compatible(Base.version[e.id], t.version[e.id])
    BY <1>2, <1>4, <1>8, EntriesRise
  <2>2. ~Compatible(Base.product, t.product)
    BY <1>5, <1>6, <1>7
  <2> QED BY <2>1, <2>2
<1>17. ASSUME NEW i \in FormalIn(h)
       PROVE  /\ h[i].tree \in Trees /\ ~Less(Audit(h).product, h[i].tree.product)
              /\ \A p \in Packages : h[i].tree.version[p] = t.version[p] =>
                    Alike(Content(h[i].tree, p), Content(t, p))
  <2>1. i \in 1..n
    BY <1>4 DEF FormalIn
  <2>2. h[i].tree \in Trees
    BY <1>4, <2>1, ReleaseParts
  <2>3. ~Less(Audit(h).product, h[i].tree.product)
    BY <1>2, <1>3 DEF AuditKept
  <2>4. \A p \in Packages : h[i].tree.version[p] = t.version[p] =>
           Alike(Content(h[i].tree, p), Content(t, p))
    BY <1>2, <1>8, <1>10, <1>12 DEF NumbersKept
  <2> QED BY <2>2, <2>3, <2>4
<1>18. ASSUME NEW i \in FormalIn(h) PROVE OnceIn(h[i].tree, t)
  <2>1. h[i].tree.product # t.product
    <3>1. h[i].tree.product \in Versions
      BY <1>17, TreeParts
    <3> QED BY <1>5, <1>6, <1>7, <1>17, <3>1
  <2>2. ASSUME NEW p \in Packages, h[i].tree.version[p] = t.version[p]
        PROVE  /\ h[i].tree.content[p] = t.content[p]
               /\ \A e \in Edges : e[1] = p => h[i].tree.req[e] = t.req[e]
    BY <1>17, <2>2, AlikeIs
  <2> QED BY <2>1, <2>2 DEF OnceIn
<1>19. /\ g \in Seq(Releases) /\ Len(g) = n + 1 /\ g[n + 1] = x /\ \A i \in 1..n : g[i] = h[i]
       /\ FormalIn(h) \subseteq 1..n /\ FormalIn(g) = FormalIn(h) \cup {n + 1}
       /\ Audit(g) = AuditStep(g, n + 1, Audit(h))
  BY <1>4, <1>9, AppendIs, AuditAppend
<1> HIDE DEF g
<1>20. NumbersKept(g, t, t)
  <2> SUFFICES ASSUME NEW i \in FormalIn(g), NEW p \in Packages,
                      g[i].tree.version[p] = t.version[p]
               PROVE  Alike(Content(g[i].tree, p), ClosedContent(t, t, p))
    BY DEF NumbersKept
  <2>1. ClosedContent(t, t, p) = Content(t, p)
    BY <1>7, <1>15, ValidatedIs
  <2>2. CASE i = n + 1
    BY <1>9, <1>19, <2>1, <2>2 DEF Alike
  <2>3. CASE i \in FormalIn(h)
    BY <1>17, <1>19, <2>1, <2>3
  <2> QED BY <1>19, <2>2, <2>3
<1>21. AuditKept(g)
  <2>1. ~Less(g[n + 1].tree.product, g[(n + 1) - 1].tree.product)
    <3>1. g[(n + 1) - 1].tree = Base
      BY <1>4, <1>19 DEF Base
    <3> QED BY <1>5, <1>6, <1>7, <1>9, <1>19, <3>1, LessOrder
  <2>2. /\ Audit(g).formal = Audit(h).formal \cup {n + 1}
        /\ Audit(g).product = g[n + 1].tree.product /\ Audit(g).floor = Audit(h).floor
    BY <1>4, <1>19, <2>1, StepFields
  <2>3. Audit(g).formal = FormalIn(g) /\ Audit(g).product = v
    BY <1>2, <1>3, <1>7, <1>9, <1>19, <2>2 DEF AuditKept
  <2>4. ASSUME NEW i \in FormalIn(g) PROVE ~Less(v, g[i].tree.product)
    <3>1. CASE i = n + 1
      BY <1>5, <1>7, <1>9, <1>19, <3>1, LessOrder
    <3>2. CASE i \in FormalIn(h)
      <4>1. h[i].tree.product \in Versions
        BY <1>17, <3>2, TreeParts
      <4> QED BY <1>5, <1>6, <1>17, <1>19, <3>2, <4>1, LessOrder
    <3> QED BY <1>19, <3>1, <3>2
  <2>5. ASSUME NEW i \in FormalIn(g), NEW p \in Packages
        PROVE  ~Less(Later(Audit(h).floor[p], t.version[p]), g[i].tree.version[p])
    <3>1. Audit(h).floor[p] \in Versions /\ t.version[p] \in Versions /\ Base.version[p] \in Versions
      BY <1>6, <1>8
    <3>2. CASE i = n + 1
      BY <1>9, <1>19, <3>1, <3>2, LaterIs
    <3>3. CASE i \in FormalIn(h)
      <4>1. h[i].tree.version[p] \in Versions
        BY <1>17, <3>3, TreeParts
      <4>2. ~Less(t.version[p], Base.version[p])
        BY <1>2, <1>8 DEF Tracked
      <4>3. ~Less(Later(Audit(h).floor[p], Base.version[p]), h[i].tree.version[p])
        BY <1>2, <1>3, <3>3 DEF AuditKept, Floored, Base
      <4> QED BY <1>19, <3>1, <3>3, <4>1, <4>2, <4>3, LaterRises
    <3> QED BY <1>19, <3>2, <3>3
  <2>6. g[Len(g)].tree = t
    BY <1>9, <1>19
  <2> QED BY <2>2, <2>3, <2>4, <2>5, <2>6 DEF AuditKept, Floored
<1>22. history' = Append(history, x) /\ AuditKept(Append(history, x))
       /\ NumbersKept(Append(history, x), x.tree, x.tree)
  BY <1>3, <1>9, <1>20, <1>21 DEF g
<1>23. tree' = x.tree
  BY <1>9 DEF t
<1>24. Met(x.tree) /\ Validated(x.tree) /\ BreaksVisibly(Base, x.tree) /\ ValidOver(Base, x.tree)
       /\ \A i \in FormalIn(history) : OnceIn(history[i].tree, x.tree)
  BY <1>9, <1>13, <1>14, <1>15, <1>16, <1>18
<1> QED BY <1>3, <1>4, <1>9, <1>22, <1>23, <1>24, CommitKeeps

\* A withdrawal.
LEMMA WithdrawKeeps ==
  ASSUME ReleaseInv, NEW r \in DOMAIN history, Withdraw(r)
  PROVE  ReleaseInv'
<1> DEFINE h == history
           n == Len(history)
           t == history[r].tree
           f == InForce(history)
           x == [tree |-> t, restored |-> r, withdrawn |-> f]
           g == Append(history, x)
<1>1. /\ ReleaseTypeOK /\ Linked(h) /\ AuditKept(h) /\ Tracked(tree, Base)
      /\ \A i \in DOMAIN h : Met(h[i].tree) /\ Validated(h[i].tree)
      /\ \A i, j \in FormalIn(h) : i < j => OnceIn(h[i].tree, h[j].tree)
  BY DEF ReleaseInv, TreeKept, HistoryKept
<1>2. /\ h \in Seq(Releases) /\ h # <<>> /\ n \in Nat \ {0} /\ lost \subseteq Delivers
      /\ Base \in Trees /\ Audit(h) \in Audits /\ DOMAIN h = 1..n
  <2>1. h \in Seq(Releases) /\ h # <<>> /\ lost \subseteq Delivers
    BY <1>1 DEF ReleaseTypeOK
  <2>2. Base \in Trees /\ Audit(h) \in Audits /\ n \in Nat \ {0}
    BY <1>1, ContextIs
  <2> QED BY <2>1, <2>2
<1>3. /\ history' = g /\ tree' = t /\ receipt' = Idle /\ changes' = changes
      /\ lost' \subseteq Delivers /\ h[r].withdrawn = 0 /\ r < f
  BY <1>2 DEF Withdraw
<1>4. f \in FormalIn(h) /\ h[f].tree = Base
  <2>1. n \in DOMAIN h
    BY <1>2
  <2>2. CASE h[n].withdrawn = 0
    BY <2>1, <2>2 DEF InForce, FormalIn, Base
  <2>3. CASE h[n].withdrawn # 0
    BY <1>1, <2>1, <2>3 DEF InForce, Linked, Base
  <2> QED BY <2>2, <2>3
<1>5. r \in FormalIn(h) /\ r \in 1..n /\ f \in 1..n
  BY <1>2, <1>3, <1>4 DEF FormalIn
<1>6. t \in Trees /\ Met(t) /\ Validated(t)
  BY <1>1, <1>2, <1>5, ReleaseParts
<1>7. x \in Releases /\ x.tree = t /\ x.restored = r /\ x.withdrawn = f /\ f # 0
  <2> HIDE DEF f, t
  <2>1. f \in Nat /\ f # 0 /\ r \in Nat
    BY <1>5
  <2> QED BY <1>6, <2>1 DEF Releases
<1> HIDE DEF x, f, t
<1>8. /\ g \in Seq(Releases) /\ Len(g) = n + 1 /\ g[n + 1] = x /\ \A i \in 1..n : g[i] = h[i]
      /\ FormalIn(h) \subseteq 1..n /\ FormalIn(g) = FormalIn(h)
      /\ Audit(g) = AuditStep(g, n + 1, Audit(h))
  BY <1>2, <1>7, AppendIs, AuditAppend
<1> HIDE DEF g
<1>9. ASSUME NEW i \in FormalIn(h), NEW p \in Packages, h[i].tree.version[p] = t.version[p]
      PROVE  Alike(Content(h[i].tree, p), Content(t, p))
  <2>1. t = h[r].tree /\ i \in 1..n
    BY <1>8 DEF t
  <2>2. CASE i = r
    BY <2>1, <2>2 DEF Alike
  <2>3. CASE i < r
    <3>1. OnceIn(h[i].tree, t)
      BY <1>1, <1>5, <2>1, <2>3
    <3>2. /\ h[i].tree.content[p] = t.content[p]
          /\ \A e \in Edges : e[1] = p => h[i].tree.req[e] = t.req[e]
      BY <1>9, <3>1 DEF OnceIn
    <3> QED BY <3>2, AlikeIs
  <2>4. CASE r < i
    <3>1. OnceIn(t, h[i].tree)
      BY <1>1, <1>5, <2>1, <2>4
    <3>2. /\ h[i].tree.content[p] = t.content[p]
          /\ \A e \in Edges : e[1] = p => h[i].tree.req[e] = t.req[e]
      BY <1>9, <3>1 DEF OnceIn
    <3> QED BY <3>2, AlikeIs
  <2>5. i = r \/ i < r \/ r < i
    BY <1>5, <2>1
  <2> QED BY <2>2, <2>3, <2>4, <2>5
<1>10. NumbersKept(g, t, t)
  <2>1. \A p \in Packages : ClosedContent(t, t, p) = Content(t, p)
    BY <1>6, ValidatedIs
  <2>2. \A i \in FormalIn(h) : g[i] = h[i]
    BY <1>8
  <2> QED BY <1>8, <1>9, <2>1, <2>2 DEF NumbersKept
<1>11. AuditKept(g)
  <2> SUFFICES ASSUME Audit(g).ok PROVE
         /\ Audit(g).formal = FormalIn(g)
         /\ \A i \in FormalIn(g) : ~Less(Audit(g).product, g[i].tree.product)
         /\ Floored(g, Audit(g).floor, g[Len(g)].tree)
    BY DEF AuditKept
  <2>1. g[n + 1].tree = t /\ g[(n + 1) - 1].tree = Base /\ g[n + 1].withdrawn = f
        /\ g[f].tree = Base /\ \A i \in FormalIn(h) : g[i] = h[i]
    BY <1>2, <1>4, <1>5, <1>7, <1>8 DEF Base
  <2>2. CASE Less(t.product, Base.product)
    <3> DEFINE audit == Audit(h)
               new   == AuditStep(g, n + 1, audit)
    <3>8. audit \in Audits /\ Less(g[n + 1].tree.product, g[(n + 1) - 1].tree.product)
      BY <1>2, <2>1, <2>2
    <3>9. /\ new.ok = (audit.ok /\ Restores(g, n + 1, audit))
          /\ new.formal = audit.formal /\ new.product = audit.product
          /\ new.floor = IF g[n + 1].withdrawn \in audit.formal
                         THEN Raised(audit.floor, g[g[n + 1].withdrawn].tree)
                         ELSE audit.floor
      <4> HIDE DEF audit
      <4> QED BY <3>8, StepFields
    <3>1. /\ Audit(g).ok = (Audit(h).ok /\ Restores(g, n + 1, Audit(h)))
          /\ Audit(g).formal = Audit(h).formal /\ Audit(g).product = Audit(h).product
          /\ Audit(g).floor = IF f \in Audit(h).formal THEN Raised(Audit(h).floor, Base)
                              ELSE Audit(h).floor
      BY <1>8, <2>1, <3>9
    <3> HIDE DEF audit, new
    <3>2. /\ Audit(h).ok /\ Audit(h).formal = FormalIn(h)
          /\ \A i \in FormalIn(h) : ~Less(Audit(h).product, h[i].tree.product)
          /\ Floored(h, Audit(h).floor, Base)
      BY <1>1, <3>1 DEF AuditKept, Base
    <3>3. Audit(h).floor \in [Packages -> Versions]
      BY <1>2 DEF Audits
    <3>4. /\ Audit(g).floor \in [Packages -> Versions]
          /\ \A p \in Packages : Audit(g).floor[p] = Later(Audit(h).floor[p], Base.version[p])
      BY <1>2, <1>4, <3>1, <3>2, <3>3, RaisedTyped
    <3>5. ASSUME NEW i \in FormalIn(h), NEW p \in Packages
          PROVE  ~Less(Later(Audit(g).floor[p], t.version[p]), h[i].tree.version[p])
      <4>1. /\ Audit(g).floor[p] \in Versions /\ t.version[p] \in Versions
            /\ h[i].tree.version[p] \in Versions
        BY <1>2, <1>6, <1>8, <3>4, ReleaseParts, TreeParts
      <4>2. ~Less(Audit(g).floor[p], h[i].tree.version[p])
        BY <3>2, <3>4 DEF Floored
      <4>3. /\ Later(Audit(g).floor[p], t.version[p]) \in Versions
            /\ ~Less(Later(Audit(g).floor[p], t.version[p]), Audit(g).floor[p])
        BY <4>1, LaterIs
      <4> QED BY <4>1, <4>2, <4>3, LessOrder
    <3>6. Floored(g, Audit(g).floor, g[Len(g)].tree)
      BY <1>8, <2>1, <3>5 DEF Floored
    <3> QED BY <1>8, <2>1, <3>1, <3>2, <3>6
  <2>3. CASE ~Less(t.product, Base.product)
    <3> DEFINE audit == Audit(h)
    <3>8. audit \in Audits /\ ~Less(g[n + 1].tree.product, g[(n + 1) - 1].tree.product)
      BY <1>2, <2>1, <2>3
    <3>9. AuditStep(g, n + 1, audit).ok = (audit.ok /\ Less(audit.product, g[n + 1].tree.product))
      <4> HIDE DEF audit
      <4> QED BY <3>8, StepFields
    <3>1. Audit(g).ok = (Audit(h).ok /\ Less(Audit(h).product, t.product))
      BY <1>8, <2>1, <3>9
    <3> HIDE DEF audit
    <3>2. ~Less(Audit(h).product, t.product)
      BY <1>1, <1>5, <3>1 DEF AuditKept, t
    <3> QED BY <3>1, <3>2
  <2> QED BY <2>2, <2>3
<1>12. history' = Append(history, x) /\ AuditKept(Append(history, x))
       /\ NumbersKept(Append(history, x), x.tree, x.tree)
  BY <1>3, <1>7, <1>10, <1>11 DEF g
<1>13. tree' = x.tree /\ Met(x.tree) /\ Validated(x.tree)
       /\ x.restored \in FormalIn(history) /\ x.tree = history[x.restored].tree
  BY <1>3, <1>5, <1>6, <1>7 DEF t
<1> QED BY <1>3, <1>7, <1>12, <1>13, CommitKeeps

-----------------------------------------------------------------------------
(* Every step. *)

\* Every step keeps the invariant.
LEMMA NextKeeps ==
  ASSUME ReleaseInv, [ReleaseNext]_releaseVars
  PROVE  ReleaseInv'
<1>1. ASSUME NEW p \in Packages, EditContent(p) \/ UpdateLock(p) \/ LoseArtifact(p)
      PROVE  ReleaseInv'
  BY <1>1, EditsKeep
<1>2. CASE EditOther
  BY <1>2, EditsKeep
<1>3. ASSUME NEW scope \in Scopes, Develop(scope) PROVE ReleaseInv'
  BY <1>3, DevelopKeeps
<1>4. CASE Release
  BY <1>4, ReleaseKeeps
<1>5. ASSUME NEW r \in DOMAIN history, Withdraw(r) PROVE ReleaseInv'
  BY <1>5, WithdrawKeeps
<1>6. CASE UNCHANGED releaseVars
  BY <1>6 DEF releaseVars, ReleaseInv, ReleaseTypeOK, TreeKept, HistoryKept, Base
<1> QED BY <1>1, <1>2, <1>3, <1>4, <1>5, <1>6 DEF ReleaseNext

-----------------------------------------------------------------------------
(* The closing of a scope. *)

\* With ReleaseInv, inductive: what the next develop needs of the checkout, and what the
\* last one left.
ClosingInv ==
  /\ Closing(tree) /\ \A i \in DOMAIN history : Closing(history[i].tree)
  /\ AboveFloor(tree, Base, Audit(history).floor)
  /\ DevelopsSettle /\ ScopesClose

\* The invariant of the closing holds at first.
LEMMA FirstCloses ==
  ReleaseInit => ClosingInv
<1> SUFFICES ASSUME ReleaseInit PROVE ClosingInv
  OBVIOUS
<1>1. /\ tree = FirstTree /\ receipt = Idle
      /\ history = <<[tree |-> FirstTree, restored |-> 0, withdrawn |-> 0]>>
  BY DEF ReleaseInit
<1>2. Len(history) = 1 /\ DOMAIN history = {1} /\ history[1].tree = FirstTree
  BY <1>1
<1>3. FirstTree.ledger = <<>> /\ FirstTree.inherited = FirstInherited
  BY FirstTreeIs DEF FirstTree
<1>4. Closing(FirstTree)
  BY <1>3 DEF Closing, LedgerParses
<1>5. EntriesSince(FirstTree, FirstTree) = {}
  <2>1. Len(FirstTree.ledger) = 0
    BY <1>3
  <2>2. (Len(FirstTree.ledger) + 1)..Len(FirstTree.ledger) = {}
    BY <2>1
  <2> QED BY <2>2 DEF EntriesSince
<1>6. AboveFloor(tree, Base, Audit(history).floor)
  BY <1>1, <1>2, <1>5 DEF AboveFloor, Base
<1>7. DevelopsSettle /\ ScopesClose
  BY <1>1 DEF DevelopsSettle, ScopesClose, Idle
<1> QED BY <1>1, <1>2, <1>4, <1>6, <1>7 DEF ClosingInv

\* An edit keeps it: it leaves the ledger and the inherited versions alone.
LEMMA QuietCloses ==
  ASSUME ClosingInv, history' = history, receipt' = Idle,
         tree'.ledger = tree.ledger, tree'.inherited = tree.inherited
  PROVE  ClosingInv'
<1>1. Closing(tree') /\ \A i \in DOMAIN history' : Closing(history'[i].tree)
  BY DEF ClosingInv, Closing
<1>2. EntriesSince(tree', Base) = EntriesSince(tree, Base)
  BY DEF EntriesSince
<1>3. AboveFloor(tree, Base, Audit(history).floor)'
  BY <1>2 DEF ClosingInv, AboveFloor, Base
<1>4. DevelopsSettle' /\ ScopesClose'
  BY DEF DevelopsSettle, ScopesClose, Idle
<1> QED BY <1>1, <1>3, <1>4 DEF ClosingInv

\* A commit keeps it: nothing is recorded since.
LEMMA CommitCloses ==
  ASSUME ReleaseInv, ClosingInv, NEW x \in Releases, history' = Append(history, x),
         tree' = x.tree, receipt' = Idle, Closing(x.tree)
  PROVE  ClosingInv'
<1>1. history \in Seq(Releases) /\ history # <<>>
  BY DEF ReleaseInv, ReleaseTypeOK
<1> DEFINE g == Append(history, x)
           n == Len(history)
<1>2. /\ Len(g) = n + 1 /\ n \in Nat /\ g[n + 1] = x /\ \A i \in 1..n : g[i] = history[i]
      /\ DOMAIN g = 1..(n + 1) /\ DOMAIN history = 1..n
  BY <1>1, AppendIs
<1> HIDE DEF g
<1>3. history' = g
  BY DEF g
<1>4. \A i \in DOMAIN g : Closing(g[i].tree)
  <2> SUFFICES ASSUME NEW i \in DOMAIN g PROVE Closing(g[i].tree)
    OBVIOUS
  <2>1. CASE i = n + 1
    BY <1>2, <2>1
  <2>2. CASE i \in 1..n
    BY <1>2, <2>2 DEF ClosingInv
  <2> QED BY <1>2, <2>1, <2>2
<1>5. EntriesSince(x.tree, x.tree) = {}
  <2>1. x.tree.ledger \in Seq(Entries)
    BY TreeParts DEF Releases
  <2>2. (Len(x.tree.ledger) + 1)..Len(x.tree.ledger) = {}
    BY <2>1
  <2> QED BY <2>2 DEF EntriesSince
<1>6. AboveFloor(tree, Base, Audit(history).floor)'
  BY <1>2, <1>3, <1>5 DEF AboveFloor, Base
<1>7. DevelopsSettle' /\ ScopesClose'
  BY DEF DevelopsSettle, ScopesClose, Idle
<1> QED BY <1>3, <1>4, <1>6, <1>7 DEF ClosingInv

\* A develop that closes a checked plan keeps it.
LEMMA PlanCloses ==
  ASSUME ReleaseInv, ClosingInv, NEW request \in Tasks, NEW affected, NEW direct, NEW q,
         Kept(Context, request, affected, direct, q),
         InitiallyAffected(Context, request.scope) \subseteq affected,
         affected \subseteq Reached(tree, Base), Closes(Context, request, q)
  PROVE  ClosingInv'
<1> DEFINE ctx == Context
           c   == Closed(ctx, request, q)
           closed == [tree |-> c, base |-> Base, floor |-> Audit(history).floor,
                      lost |-> lost \ affected]
           left == InitiallyAffected(closed, request.scope)
<1>1. /\ ReleaseTypeOK /\ Tracked(tree, Base) /\ Closing(tree)
      /\ \A i \in DOMAIN history : Closing(history[i].tree)
      /\ AboveFloor(tree, Base, Audit(history).floor)
  BY DEF ReleaseInv, TreeKept, ClosingInv
<1>2. /\ ctx \in Contexts /\ ctx.tree = tree /\ ctx.base = Base
      /\ ctx.floor = Audit(history).floor /\ ctx.lost = lost
      /\ Boundary(history) = Base /\ Base \in Trees
  BY <1>1, ContextIs
<1> HIDE DEF ctx
<1>3. /\ q \in Plans /\ q.affected = affected /\ Fitting(ctx, request, q)
      /\ ~CannotFollow(ctx.tree, q.affected, q.version)
  BY DEF Kept, ctx
<1>4. LedgerParses(c.ledger)
  BY <1>1, <1>2, <1>3, ClosedParses DEF Closing
<1>5. /\ tree' = c /\ lost' = lost \ affected /\ history' = history
      /\ receipt' = [status |-> "closed", scope |-> request.scope]
  BY <1>3, <1>4 DEF Closes, ctx
<1>6. c \in Trees /\ c.inherited = {} /\ Extends(c.ledger, ctx.tree.ledger)
  <2>1. CandidateOf(ctx.tree, q).inherited = {}
    BY <1>2, <1>3, CandidateTyped, ContextParts
  <2> HIDE DEF c
  <2> QED BY <1>2, <1>3, <2>1, ClosedIs DEF c
<1>7. Closing(c)
  BY <1>4, <1>6 DEF Closing
<1>8. AboveFloor(c, Base, Audit(history).floor)
  BY <1>1, <1>2, ClosedAbove DEF ctx
<1>9. Extends(tree.ledger, Base.ledger)
  BY <1>1 DEF Tracked
<1>10. left \subseteq Following(tree)
  <2>1. /\ closed.tree = Closed(ctx, request, q) /\ closed.base = ctx.base
        /\ closed.lost = ctx.lost \ affected
    BY <1>2
  <2> HIDE DEF closed
  <2> QED BY <1>2, <1>9, <2>1, ClosingLeaves DEF ctx
<1>11. Following(tree) \subseteq Followers
  BY <1>1 DEF Following, Followers, Closing
<1>12. Extends(c.ledger, Base.ledger)
  <2>1. /\ c.ledger \in Seq(Entries) /\ tree.ledger \in Seq(Entries)
        /\ Base.ledger \in Seq(Entries)
    BY <1>1, <1>2, <1>6, TreeParts DEF ReleaseTypeOK
  <2> QED BY <1>2, <1>6, <1>9, <2>1, ExtendsChain
<1>13. ASSUME request.scope = Packages, left = {} PROVE ReleaseGate(closed)
  <2>1. /\ closed.tree \in Trees /\ closed.base \in Trees
        /\ Extends(closed.tree.ledger, closed.base.ledger)
        /\ AboveFloor(closed.tree, closed.base, closed.floor)
    BY <1>2, <1>6, <1>8, <1>12
  <2> HIDE DEF closed
  <2> QED BY <1>13, <2>1, GateOpens
<1>14. Context' = closed
  BY <1>2, <1>5 DEF Context
<1> HIDE DEF closed, c
<1>15. ScopesClose'
  BY <1>5, <1>10, <1>11, <1>13, <1>14 DEF ScopesClose
<1>16. DevelopsSettle'
  BY <1>5 DEF DevelopsSettle
<1>17. AboveFloor(tree, Base, Audit(history).floor)'
  BY <1>5, <1>8 DEF Base
<1> QED BY <1>1, <1>5, <1>7, <1>15, <1>16, <1>17 DEF ClosingInv

\* Develop keeps it: its rounds come to rest, and what they plan stays within reach.
LEMMA DevelopCloseKeeps ==
  ASSUME ReleaseInv, ClosingInv, NEW scope \in Scopes, Develop(scope)
  PROVE  ClosingInv'
<1> DEFINE ctx   == Context
           first == InitiallyAffected(ctx, scope)
<1>1. PICK request \in Requests(scope, first) :
         LET pl == Prepare(ctx, request, first)
         IN  /\ pl.error \in {"none", "diverged"}
             /\ IF pl.error = "diverged" THEN Reports(pl.error)
                ELSE \E failures \in Failures : Closes(ctx, request, Checked(tree, pl, failures))
  BY DEF Develop
<1>2. request \in Tasks /\ request.scope = scope /\ scope \in SUBSET Packages
  BY RequestsTyped
<1>3. /\ ReleaseTypeOK /\ Met(tree) /\ ctx \in Contexts /\ ctx.tree = tree /\ ctx.base = Base
      /\ ctx.lost = lost /\ Tracked(tree, Base)
  BY ContextIs DEF ReleaseInv, TreeKept
<1>4. first \in SUBSET Packages
  BY <1>2 DEF InitiallyAffected, Pending
<1> DEFINE pl == Prepare(ctx, request, first)
<1> HIDE DEF ctx
<1>5. first = InitiallyAffected(ctx, request.scope)
  BY <1>2
<1> HIDE DEF first
<1>6. pl.error # "diverged"
  BY <1>2, <1>3, <1>4, <1>5, PrepareRests
<1>7. pl.error = "none"
  BY <1>1, <1>6 DEF ctx, first
<1>8. PICK failures \in Failures : Closes(ctx, request, Checked(tree, pl, failures))
  BY <1>1, <1>6
<1>9. /\ Kept(ctx, request, pl.affected, pl.direct, pl)
      /\ \A p \in pl.affected \ pl.direct : UnchangedContent(ctx.tree, ctx.base, p)
  BY <1>2, <1>3, <1>4, <1>5, <1>7, PreparedKept
<1>10. first \subseteq pl.affected
  <2>1. Planned(ctx, request, first, DirectOf(ctx, request, first), pl)
    BY <1>2, <1>3, <1>4, <1>7, PrepareSettles
  <2> QED BY <2>1 DEF Planned
<1>11. first \subseteq Reached(tree, Base)
  <2>1. Extends(tree.ledger, Base.ledger)
    BY <1>3 DEF Tracked
  <2>2. Validated(Base)
    <3>1. Len(history) \in DOMAIN history
      <4>1. history \in Seq(Releases) /\ history # <<>>
        BY <1>3 DEF ReleaseTypeOK
      <4> QED BY <4>1
    <3> QED BY <3>1 DEF ReleaseInv, HistoryKept, Base
  <2>3. lost \subseteq Delivers
    BY <1>3 DEF ReleaseTypeOK
  <2>4. first \subseteq ReleaseScope(ctx.tree, ctx.base)
    BY <1>2, <1>3, <2>1, <2>2, <2>3, FirstReached DEF first
  <2> QED BY <1>3, <2>4 DEF Reached
<1>12. pl.affected \subseteq Reached(tree, Base)
  <2> DEFINE W == Reached(tree, Base)
  <2>1. /\ W \in SUBSET Packages /\ Owners(W) \subseteq W /\ tree.inherited \subseteq W
    BY <1>3, ReachedCloses, ContextParts
  <2> HIDE DEF W
  <2>2. first \subseteq W
    BY <1>11 DEF W
  <2> QED BY <1>2, <1>3, <1>4, <1>7, <2>1, <2>2, PrepareWithin DEF W
<1> HIDE DEF pl
<1>13. Len(failures) \in Nat
  BY <1>8 DEF Failures
<1>14. Kept(ctx, request, pl.affected, pl.direct, Checked(tree, pl, failures))
  BY <1>2, <1>3, <1>9, <1>13, CheckedKeeps
<1> QED BY <1>2, <1>5, <1>8, <1>10, <1>12, <1>14, PlanCloses DEF ctx

\* Every step keeps it.
LEMMA NextCloses ==
  ASSUME ReleaseInv, ClosingInv, [ReleaseNext]_releaseVars
  PROVE  ClosingInv'
<1>1. tree \in Trees
  BY DEF ReleaseInv, ReleaseTypeOK
<1>2. ASSUME NEW p \in Packages, EditContent(p) PROVE ClosingInv'
  <2>1. tree'.ledger = tree.ledger /\ tree'.inherited = tree.inherited
    BY <1>1, <1>2 DEF EditContent, Trees
  <2> QED BY <1>2, <2>1, QuietCloses DEF EditContent, Edited
<1>3. ASSUME NEW p \in Packages, UpdateLock(p) PROVE ClosingInv'
  <2>1. tree'.ledger = tree.ledger /\ tree'.inherited = tree.inherited
    BY <1>1, <1>3 DEF UpdateLock, Trees
  <2> QED BY <1>3, <2>1, QuietCloses DEF UpdateLock, Edited
<1>4. ASSUME NEW p \in Packages, LoseArtifact(p) PROVE ClosingInv'
  BY <1>4, QuietCloses DEF LoseArtifact, Edited
<1>5. CASE EditOther
  <2>1. tree'.ledger = tree.ledger /\ tree'.inherited = tree.inherited
    BY <1>1, <1>5 DEF EditOther, Trees
  <2> QED BY <1>5, <2>1, QuietCloses DEF EditOther, Edited
<1>6. ASSUME NEW scope \in Scopes, Develop(scope) PROVE ClosingInv'
  BY <1>6, DevelopCloseKeeps
<1>7. CASE Release
  <2> DEFINE x == [tree |-> tree', restored |-> 0, withdrawn |-> 0]
  <2>1. PICK v : tree' = [tree EXCEPT !.product = v]
    BY <1>7 DEF Release
  <2>2. tree' \in Trees
    <3>1. ReleaseInv'
      BY <1>7, ReleaseKeeps
    <3> QED BY <3>1 DEF ReleaseInv, ReleaseTypeOK
  <2>3. x \in Releases /\ x.tree = tree'
    BY <2>2 DEF Releases
  <2>4. tree'.ledger = tree.ledger /\ tree'.inherited = tree.inherited
    BY <1>1, <2>1 DEF Trees
  <2>5. Closing(tree')
    BY <2>4 DEF ClosingInv, Closing
  <2>6. history' = Append(history, x) /\ receipt' = Idle
    BY <1>7 DEF Release
  <2> HIDE DEF x
  <2> QED BY <2>3, <2>5, <2>6, CommitCloses
<1>8. ASSUME NEW r \in DOMAIN history, Withdraw(r) PROVE ClosingInv'
  <2> DEFINE x == [tree |-> history[r].tree, restored |-> r, withdrawn |-> InForce(history)]
  <2>1. history' = Append(history, x) /\ tree' = x.tree /\ receipt' = Idle
    BY <1>8 DEF Withdraw
  <2>2. x \in Releases
    <3>1. history \in Seq(Releases) /\ history # <<>>
      BY DEF ReleaseInv, ReleaseTypeOK
    <3>2. Len(history) \in Nat \ {0} /\ DOMAIN history = 1..Len(history)
      BY <3>1
    <3>3. r \in 1..Len(history) /\ Len(history) \in 1..Len(history)
      BY <3>2
    <3>4. history[r].tree \in Trees /\ history[Len(history)].restored \in Nat
      BY <3>1, <3>3, ReleaseParts
    <3>5. r \in Nat /\ InForce(history) \in Nat
      BY <3>2, <3>3, <3>4 DEF InForce
    <3> QED BY <3>4, <3>5 DEF Releases
  <2>3. Closing(x.tree)
    BY DEF ClosingInv
  <2> HIDE DEF x
  <2> QED BY <2>1, <2>2, <2>3, CommitCloses
<1>9. CASE UNCHANGED releaseVars
  BY <1>9 DEF releaseVars, ClosingInv, Base, DevelopsSettle, ScopesClose, Context
<1> QED BY <1>2, <1>3, <1>4, <1>5, <1>6, <1>7, <1>8, <1>9 DEF ReleaseNext

-----------------------------------------------------------------------------
(* The theorems. *)

\* In every state a checkout and its history can reach, ReleaseInv holds.
THEOREM ReleaseInvariant == ReleaseSpec => []ReleaseInv
<1> QED BY FirstInv, NextKeeps, PTL DEF ReleaseSpec

\* The variables keep their types.
THEOREM ReleaseTypeCorrect == ReleaseSpec => []ReleaseTypeOK
<1>1. ReleaseInv => ReleaseTypeOK
  BY DEF ReleaseInv
<1> QED BY <1>1, ReleaseInvariant, PTL

\* No two formal releases, withdrawn ones included, share a product version, and a
\* package version stands for one content and one set of requirements in all of them
\* (plan.rs and withdrawal.rs: the audit and its floor).
THEOREM NumbersPublishedOnce == ReleaseSpec => []PublishedOnce
<1> QED BY InvPromises, ReleaseInvariant, PTL

\* A breaking change leaves the caret range of the version published before it, for the
\* package and for the product (development.rs: choose; plan.rs: product_version).
THEOREM BreaksAreVisible == ReleaseSpec => []BreakingIsVisible
<1> QED BY InvPromises, ReleaseInvariant, PTL

\* A release publishes every package as it was closed, or as the release before had it
\* (plan.rs: the release gate).
THEOREM ReleasesAreValidated == ReleaseSpec => []ReleasedIsValidated
<1> QED BY InvPromises, ReleaseInvariant, PTL

\* No edit, develop, release or withdrawal leaves a requirement that its target does not
\* meet (rust.rs and development.rs: render).
THEOREM RequirementsAreMet == ReleaseSpec => []RequirementsHold
<1> QED BY InvPromises, ReleaseInvariant, PTL

\* Every develop comes to rest and closes its scope at once; only what depends on a
\* package that inherited its version may take another (development.rs: prepare, close;
\* plan.rs: the release gate).
THEOREM DevelopsClose == ReleaseSpec => []DevelopCloses
<1>1. ReleaseInv /\ ClosingInv => DevelopCloses
  BY InvPromises DEF DevelopCloses, ClosingInv
<1> QED BY <1>1, FirstCloses, NextCloses, ReleaseInvariant, PTL DEF ReleaseSpec

=============================================================================
