--------------------------- MODULE MemoryFilesProofs ---------------------------
(***************************************************************************)
(* Safety of what keeps the files of the Codex home, for every set of      *)
(* writers, commands, sessions, repositories, alerts and any bounds: the   *)
(* snapshot that the receipt names is whole, no edit is lost when the      *)
(* memories are replaced, the legacy state is migrated once and whole,     *)
(* what runs with an approval is set up, and an alert is shown once.       *)
(*                                                                         *)
(* Each module has an inductive invariant that says why, and a behaviour   *)
(* of MemoryFiles is one of each of them.                                  *)
(***************************************************************************)
EXTENDS MemoryFiles, TLAPS

-----------------------------------------------------------------------------
(* The baseline: where the snapshot is that the receipt names. *)

\* A snapshot is trusted where it stands, or there is no receipt yet.
Trusted(d) == receipt # {} => Matches(d)

\* What every step of record_synced and recover_baseline starts from.
RecordPcs == {"copy", "copying", "retire", "install", "receipt"}
Settled == pc \in {"held", "copy", "copying", "retire"} => Trusted(current) /\ previous = {}
Prepared ==
  /\ pc \in RecordPcs => made \in Snapshots
  /\ then = "copy" /\ pc \in {"recover", "drop", "undo"} => made \in Snapshots
  /\ pc \in {"retire", "install"} => fresh = Whole(made)
  /\ pc = "install" => current = {}
  /\ pc = "receipt" => current = Whole(made)
Trusts ==
  /\ pc = "drop" => Matches(current)
  /\ pc = "undo" => Matches(previous)
BaselineInv == TypeOK /\ Recoverable /\ Settled /\ Prepared /\ Trusts

\* Nothing, or one of a set, is optional.
LEMMA OptionalFacts ==
  ASSUME NEW S
  PROVE  {} \in Optional(S) /\ \A x \in S : {x} \in Optional(S)
BY DEF Optional

\* Directories built by the steps are well typed.
LEMMA DirectoryTypes ==
  \A n \in Snapshots : /\ Whole(n) \in Optional(Directories) /\ Part(n) \in Optional(Directories)
                       /\ {n} \in Optional(Snapshots) /\ Whole(n) # {}
<1> SUFFICES ASSUME NEW n \in Snapshots
             PROVE  /\ Whole(n) \in Optional(Directories) /\ Part(n) \in Optional(Directories)
                    /\ {n} \in Optional(Snapshots) /\ Whole(n) # {}
  OBVIOUS
<1>1. <<n, TRUE>> \in Directories /\ <<n, FALSE>> \in Directories
  BY DEF Directories
<1>2. Whole(n) = {<<n, TRUE>>} /\ Part(n) = {<<n, FALSE>>}
  BY DEF Whole, Part
<1>. QED BY <1>1, <1>2, OptionalFacts

\* Every step leaves the snapshot that the receipt names whole, wherever it is.
LEMMA StepBaseline == BaselineInv /\ [Next]_vars => BaselineInv'
<1> SUFFICES ASSUME BaselineInv, [Next]_vars PROVE BaselineInv'
  OBVIOUS
<1> USE DEF BaselineInv, Goto
<1>a. {} \in Optional(Directories)
  BY OptionalFacts
<1>b. MaxSnapshots \in Nat /\ MaxFaults \in Nat
  BY BoundsAssumption
<1>d. made \in Nat /\ faults \in Nat
  BY <1>b DEF TypeOK
<1>c. \A n \in receipt : n \in Snapshots
  BY DEF TypeOK, Optional
<1>1. CASE Reconcile
  BY <1>a, <1>b, <1>c, <1>1, DirectoryTypes DEF Reconcile,
     disk, Return, TypeOK, Recoverable, Settled, Prepared, Trusts, Trusted, Matches, RecordPcs,
     Snapshots
<1>2. CASE NothingLeft
  BY <1>a, <1>b, <1>c, <1>2, DirectoryTypes DEF NothingLeft,
     disk, Return, TypeOK, Recoverable, Settled, Prepared, Trusts, Trusted, Matches, RecordPcs,
     Snapshots
<1>3. CASE NewIsTrusted
  BY <1>a, <1>b, <1>c, <1>3, DirectoryTypes DEF NewIsTrusted,
     disk, Return, TypeOK, Recoverable, Settled, Prepared, Trusts, Trusted, Matches, RecordPcs,
     Snapshots
<1>4. CASE OldIsTrusted
  BY <1>a, <1>b, <1>c, <1>4, DirectoryTypes DEF OldIsTrusted,
     disk, Return, TypeOK, Recoverable, Settled, Prepared, Trusts, Trusted, Matches, RecordPcs,
     Snapshots
<1>5. CASE NoneIsTrusted
  BY <1>a, <1>b, <1>c, <1>5, DirectoryTypes DEF NoneIsTrusted,
     disk, Return, TypeOK, Recoverable, Settled, Prepared, Trusts, Trusted, Matches, RecordPcs,
     Snapshots
<1>6. CASE PutBack
  BY <1>a, <1>b, <1>c, <1>6, DirectoryTypes DEF PutBack,
     disk, Return, TypeOK, Recoverable, Settled, Prepared, Trusts, Trusted, Matches, RecordPcs,
     Snapshots
<1>7. CASE Drop
  BY <1>a, <1>b, <1>c, <1>7, DirectoryTypes DEF Drop,
     disk, Return, TypeOK, Recoverable, Settled, Prepared, Trusts, Trusted, Matches, RecordPcs,
     Snapshots
<1>8. CASE Record
  <2>a. made < MaxSnapshots /\ made' = made + 1
    BY <1>8 DEF Record
  <2>0. made \in Nat /\ made < MaxSnapshots /\ made' = made + 1
    BY <1>d, <2>a
  <2>1. made' \in Snapshots /\ made' \in 0..MaxSnapshots
    BY <1>b, <2>0 DEF Snapshots
  <2>2. TypeOK'
    BY <1>8, <2>1 DEF Record, disk, TypeOK
  <2>3. Recoverable' /\ Settled' /\ Prepared' /\ Trusts'
    BY <1>8, <2>1
    DEF Record, disk, Recoverable, Settled, Prepared, Trusts, Trusted, Matches, RecordPcs
  <2>. QED BY <2>2, <2>3
<1>9. CASE Finish
  BY <1>a, <1>b, <1>c, <1>9, DirectoryTypes DEF Finish,
     disk, Return, TypeOK, Recoverable, Settled, Prepared, Trusts, Trusted, Matches, RecordPcs,
     Snapshots
<1>10. CASE Copy
  BY <1>a, <1>b, <1>c, <1>10, DirectoryTypes DEF Copy,
     disk, Return, TypeOK, Recoverable, Settled, Prepared, Trusts, Trusted, Matches, RecordPcs,
     Snapshots
<1>11. CASE Copied
  BY <1>a, <1>b, <1>c, <1>11, DirectoryTypes DEF Copied,
     disk, Return, TypeOK, Recoverable, Settled, Prepared, Trusts, Trusted, Matches, RecordPcs,
     Snapshots
<1>12. CASE Retire
  BY <1>a, <1>b, <1>c, <1>12, DirectoryTypes DEF Retire,
     disk, Return, TypeOK, Recoverable, Settled, Prepared, Trusts, Trusted, Matches, RecordPcs,
     Snapshots
<1>13. CASE Install
  BY <1>a, <1>b, <1>c, <1>13, DirectoryTypes DEF Install,
     disk, Return, TypeOK, Recoverable, Settled, Prepared, Trusts, Trusted, Matches, RecordPcs,
     Snapshots
<1>14. CASE WriteReceipt
  BY <1>a, <1>b, <1>c, <1>14, DirectoryTypes DEF WriteReceipt,
     disk, Return, TypeOK, Recoverable, Settled, Prepared, Trusts, Trusted, Matches, RecordPcs,
     Snapshots
<1>15. CASE ReceiptFails
  BY <1>a, <1>b, <1>c, <1>15, DirectoryTypes DEF ReceiptFails,
     disk, Return, TypeOK, Recoverable, Settled, Prepared, Trusts, Trusted, Matches, RecordPcs,
     Snapshots
<1>16. CASE PutBackFails
  <2>a. faults' = faults + 1
    BY <1>16 DEF PutBackFails
  <2>0. faults \in Nat /\ faults' = faults + 1
    BY <1>d, <2>a
  <2>1. faults' \in Nat /\ pc' = "idle" /\ UNCHANGED <<previous, fresh, receipt, then, made>>
    BY <1>16, <2>0 DEF PutBackFails
  <2>2. current' \in Optional(Directories) /\ aside' \in Optional(Directories)
    BY <1>a, <1>16 DEF PutBackFails, TypeOK
  <2>3. Matches(previous)
    BY <1>16 DEF PutBackFails, Trusts
  <2>4. TypeOK'
    BY <2>1, <2>2 DEF TypeOK
  <2>5. Recoverable' /\ Settled' /\ Prepared' /\ Trusts'
    BY <2>1, <2>3 DEF Recoverable, Settled, Prepared, Trusts, Matches, RecordPcs
  <2>. QED BY <2>4, <2>5
<1>17. CASE Interrupted
  <2>0. faults \in Nat /\ faults' = faults + 1
    BY <1>17 DEF Interrupted, TypeOK
  <2>1. faults' \in Nat /\ pc' = "idle" /\ UNCHANGED <<disk, then, made>>
    BY <1>17, <2>0 DEF Interrupted
  <2>2. TypeOK'
    BY <2>1 DEF disk, TypeOK
  <2>3. Recoverable' /\ Settled' /\ Prepared' /\ Trusts'
    BY <2>1 DEF disk, Recoverable, Settled, Prepared, Trusts, Matches, RecordPcs
  <2>. QED BY <2>2, <2>3
<1>18. CASE UNCHANGED vars
  BY <1>a, <1>b, <1>c, <1>18, DirectoryTypes DEF vars,
     disk, Return, TypeOK, Recoverable, Settled, Prepared, Trusts, Trusted, Matches, RecordPcs,
     Snapshots
<1>. QED BY <1>1, <1>2, <1>3, <1>4, <1>5, <1>6, <1>7, <1>8, <1>9, <1>10, <1>11, <1>12,
     <1>13, <1>14, <1>15, <1>16, <1>17, <1>18
     DEF Next, Recover, RecordSynced, Faults

\* The baseline begins in its invariant.
LEMMA InitBaseline == Init => BaselineInv
BY OptionalFacts, BoundsAssumption
DEF Init, BaselineInv, TypeOK, Recoverable, Settled, Prepared, Trusts, Trusted, Matches,
    RecordPcs

\* The directories and the receipt are well typed.
THEOREM BaselineTyped == Spec => []TypeOK
<1>1. BaselineInv => TypeOK
  BY DEF BaselineInv
<1>. QED BY <1>1, InitBaseline, StepBaseline, PTL DEF Spec

\* Wherever an update is interrupted, and however often, the snapshot the receipt
\* names is complete on disk.
THEOREM AlwaysRecoverable == Spec => []Recoverable
<1>1. BaselineInv => Recoverable
  BY DEF BaselineInv
<1>. QED BY <1>1, InitBaseline, StepBaseline, PTL DEF Spec

\* A reconciliation only compares with the snapshot the receipt names.
THEOREM AlwaysTrusted == Spec => []HeldIsTrusted
<1>1. BaselineInv => HeldIsTrusted
  BY DEF BaselineInv, Settled, Trusted, HeldIsTrusted
<1>. QED BY <1>1, InitBaseline, StepBaseline, PTL DEF Spec

-----------------------------------------------------------------------------
(* The replacement of the memories. *)

\* A directory is in place, set aside or in preparation; the one in preparation is nobody's
\* until it is installed.
Kept == live \cup kept
Made == 0..Replace!Used
Preparing == {"verify", "carry", "reverify", "move", "moved", "undo", "install"}
Apart ==
  /\ Kept \subseteq Made /\ stage \subseteq Made /\ old \subseteq kept
  /\ rpc \in Preparing => stage \cap Kept = {}
OpenIsKept == \A w \in Writers : open[w] \subseteq Kept
ReplaceShape ==
  /\ content \in [Replace!Ids -> Replace!Directory] /\ DOMAIN open = Writers
  /\ runs \in 0..MaxRuns /\ redits \in 0..ReplaceEdits
\* No directory with an edit in it ever goes, so none of the edits does.
EditsKept == Replace!AllEdits \subseteq Replace!In(Kept)
ReplaceInv == ReplaceShape /\ Apart /\ OpenIsKept /\ EditsKept

\* A write adds its edit to one directory and takes nothing from any.
LEMMA WriteStaysIn ==
  ASSUME ReplaceAssumption, ReplaceShape, NEW d \in Replace!Ids, Replace!Write(d), runs' = runs
  PROVE  /\ content' \in [Replace!Ids -> Replace!Directory] /\ redits' \in 0..ReplaceEdits
         /\ \A e \in Replace!Ids : /\ content[e].files \subseteq content'[e].files
                                  /\ content[e].index \subseteq content'[e].index
         /\ redits' = redits + 1
         /\ redits' \in content'[d].files \cup content'[d].index
<1> USE DEF ReplaceShape, ReplaceAssumption, Replace!Write
<1>1. redits' = redits + 1 /\ redits' \in 0..ReplaceEdits /\ redits' \in Replace!Edits
  BY DEF Replace!Edits
<1>2. content[d].files \subseteq Replace!Edits /\ content[d].index \subseteq Replace!Edits
  BY DEF Replace!Directory
<1>3. CASE content' = [content EXCEPT ![d].files = content[d].files \cup {redits'}]
  BY <1>1, <1>2, <1>3 DEF Replace!Directory
<1>4. CASE content' = [content EXCEPT ![d].index = content[d].index \cup {redits'}]
  BY <1>1, <1>2, <1>4 DEF Replace!Directory
<1> QED
  BY <1>1, <1>3, <1>4

\* As long as the directories with edits stay, the edits do.
LEMMA KeptStay ==
  ASSUME EditsKept, Kept \subseteq Kept', redits' = redits,
         \A d \in Kept : content'[d] = content[d]
  PROVE  EditsKept'
<1>1. Replace!In(Kept) \subseteq Replace!In(Kept)'
  BY DEF Replace!In
<1> QED
  BY <1>1 DEF EditsKept, Replace!AllEdits

\* A write goes into a directory that stays.
LEMMA WriteIsKept ==
  ASSUME ReplaceAssumption, ReplaceShape, EditsKept, Apart,
         NEW d \in Kept, Replace!Write(d), runs' = runs, Kept' = Kept
  PROVE  EditsKept'
<1>1. Kept \subseteq Replace!Ids
  BY DEF Apart, Made, Replace!Used, Replace!Ids, ReplaceShape, ReplaceAssumption
<1>2. /\ redits' \in Replace!In(Kept)'
      /\ Replace!In(Kept) \subseteq Replace!In(Kept)'
      /\ redits' = redits + 1
  BY <1>1, WriteStaysIn DEF Replace!In
<1>3. Replace!AllEdits' \subseteq Replace!AllEdits \cup {redits'}
  BY <1>2 DEF Replace!AllEdits, ReplaceShape
<1> QED
  BY <1>2, <1>3 DEF EditsKept

\* Every step keeps the types.
LEMMA StepDirectories ==
  ASSUME ReplaceShape, Apart, OpenIsKept, [Replace!Next]_(Replace!vars)
  PROVE  ReplaceShape'
<1> USE ReplaceAssumption
    DEF Replace!Goto, Replace!End, Replace!Report, Replace!disk, Replace!run,
        Replace!history, Replace!bounds, ReplaceShape, Replace!Ids, Replace!Directory,
        Replace!Edits, Replace!Used, Replace!New
<1>1. CASE Replace!Begin
  BY <1>1 DEF Replace!Begin
<1>2. CASE Replace!Verify
  BY <1>2 DEF Replace!Verify
<1>3. CASE Replace!Carry
  <2>1. live \subseteq Replace!Ids
    BY DEF Apart, Kept, Made
  <2>2. Replace!Index(live) \subseteq Replace!Edits
    BY <2>1 DEF Replace!Index
  <2> QED
    BY <1>3, <2>2 DEF Replace!Carry
<1>4. CASE Replace!Reverify
  BY <1>4 DEF Replace!Reverify
<1>5. CASE Replace!Move
  BY <1>5 DEF Replace!Move
<1>6. CASE Replace!Moved
  BY <1>6 DEF Replace!Moved
<1>7. CASE Replace!Undo
  BY <1>7 DEF Replace!Undo
<1>8. CASE Replace!Install
  BY <1>8 DEF Replace!Install
<1>9. CASE Replace!Recheck
  BY <1>9 DEF Replace!Recheck
<1>10. CASE Replace!InstallFails
  BY <1>10 DEF Replace!InstallFails
<1>11. CASE Replace!StepFails
  BY <1>11 DEF Replace!StepFails
<1>12. CASE Replace!Crash
  BY <1>12 DEF Replace!Crash
<1>13. ASSUME NEW w \in Writers, Replace!Open(w) PROVE ReplaceShape'
  BY <1>13 DEF Replace!Open
<1>14. ASSUME NEW w \in Writers, Replace!WriteOpen(w) PROVE ReplaceShape'
  <2>1. open[w] \subseteq Replace!Ids
    BY DEF OpenIsKept, Apart, Kept, Made
  <2>2. PICK d \in open[w] : Replace!Write(d)
    BY <1>14 DEF Replace!WriteOpen
  <2>3. content' \in [Replace!Ids -> Replace!Directory] /\ redits' \in 0..ReplaceEdits
    BY <1>14, <2>1, <2>2, WriteStaysIn DEF Replace!WriteOpen
  <2> QED
    BY <1>14, <2>3 DEF Replace!WriteOpen
<1>15. CASE Replace!WritePath
  <2>1. live \subseteq Replace!Ids
    BY DEF Apart, Kept, Made
  <2>2. PICK d \in live : Replace!Write(d)
    BY <1>15 DEF Replace!WritePath
  <2>3. content' \in [Replace!Ids -> Replace!Directory] /\ redits' \in 0..ReplaceEdits
    BY <1>15, <2>1, <2>2, WriteStaysIn DEF Replace!WritePath
  <2> QED
    BY <1>15, <2>3 DEF Replace!WritePath
<1>16. CASE Replace!Recreate
  BY <1>16 DEF Replace!Recreate
<1>17. CASE UNCHANGED Replace!vars
  BY <1>17 DEF Replace!vars
<1> QED
  BY <1>1, <1>2, <1>3, <1>4, <1>5, <1>6, <1>7, <1>8, <1>9, <1>10, <1>11, <1>12, <1>13,
    <1>14, <1>15, <1>16, <1>17 DEF Replace!Next, Replace!Replace, Replace!Faults,
    Replace!Native

\* What is prepared, in place or set aside is made once, and apart.
LEMMA StepApart ==
  ASSUME ReplaceShape, Apart, [Replace!Next]_(Replace!vars)
  PROVE  Apart'
<1> USE ReplaceAssumption
    DEF Replace!Goto, Replace!End, Replace!Report, Replace!disk, Replace!run,
        Replace!history, Replace!bounds, ReplaceShape, Apart, Kept, Made, Preparing,
        Replace!Used
<1>1. CASE Replace!Begin
  BY <1>1 DEF Replace!Begin
<1>2. CASE Replace!Verify
  BY <1>2 DEF Replace!Verify
<1>3. CASE Replace!Carry
  BY <1>3 DEF Replace!Carry
<1>4. CASE Replace!Reverify
  BY <1>4 DEF Replace!Reverify
<1>5. CASE Replace!Move
  BY <1>5 DEF Replace!Move
<1>6. CASE Replace!Moved
  BY <1>6 DEF Replace!Moved
<1>7. CASE Replace!Undo
  BY <1>7 DEF Replace!Undo
<1>8. CASE Replace!Install
  BY <1>8 DEF Replace!Install
<1>9. CASE Replace!Recheck
  BY <1>9 DEF Replace!Recheck
<1>10. CASE Replace!InstallFails
  BY <1>10 DEF Replace!InstallFails
<1>11. CASE Replace!StepFails
  BY <1>11 DEF Replace!StepFails
<1>12. CASE Replace!Crash
  BY <1>12 DEF Replace!Crash
<1>13. ASSUME NEW w \in Writers, Replace!Open(w) PROVE Apart'
  BY <1>13 DEF Replace!Open
<1>14. ASSUME NEW w \in Writers, Replace!WriteOpen(w) PROVE Apart'
  BY <1>14 DEF Replace!WriteOpen, Replace!Write
<1>15. CASE Replace!WritePath
  BY <1>15 DEF Replace!WritePath, Replace!Write
<1>16. CASE Replace!Recreate
  BY <1>16 DEF Replace!Recreate
<1>17. CASE UNCHANGED Replace!vars
  BY <1>17 DEF Replace!vars
<1> QED
  BY <1>1, <1>2, <1>3, <1>4, <1>5, <1>6, <1>7, <1>8, <1>9, <1>10, <1>11, <1>12, <1>13,
    <1>14, <1>15, <1>16, <1>17 DEF Replace!Next, Replace!Replace, Replace!Faults,
    Replace!Native

\* An open file is in a directory that is in place or was set aside.
LEMMA StepOpen ==
  ASSUME ReplaceShape, Apart, OpenIsKept, [Replace!Next]_(Replace!vars)
  PROVE  OpenIsKept'
<1> USE ReplaceAssumption
    DEF Replace!Goto, Replace!End, Replace!Report, Replace!disk, Replace!run,
        Replace!history, Replace!bounds, ReplaceShape, OpenIsKept, Kept
<1>1. CASE Replace!Begin
  BY <1>1 DEF Replace!Begin
<1>2. CASE Replace!Verify
  BY <1>2 DEF Replace!Verify
<1>3. CASE Replace!Carry
  BY <1>3 DEF Replace!Carry
<1>4. CASE Replace!Reverify
  BY <1>4 DEF Replace!Reverify
<1>5. CASE Replace!Move
  BY <1>5 DEF Replace!Move
<1>6. CASE Replace!Moved
  BY <1>6 DEF Replace!Moved
<1>7. CASE Replace!Undo
  BY <1>7 DEF Replace!Undo, Apart
<1>8. CASE Replace!Install
  BY <1>8 DEF Replace!Install
<1>9. CASE Replace!Recheck
  BY <1>9 DEF Replace!Recheck
<1>10. CASE Replace!InstallFails
  BY <1>10 DEF Replace!InstallFails
<1>11. CASE Replace!StepFails
  BY <1>11 DEF Replace!StepFails
<1>12. CASE Replace!Crash
  BY <1>12 DEF Replace!Crash
<1>13. ASSUME NEW w \in Writers, Replace!Open(w) PROVE OpenIsKept'
  BY <1>13 DEF Replace!Open
<1>14. ASSUME NEW w \in Writers, Replace!WriteOpen(w) PROVE OpenIsKept'
  BY <1>14 DEF Replace!WriteOpen, Replace!Write
<1>15. CASE Replace!WritePath
  BY <1>15 DEF Replace!WritePath, Replace!Write
<1>16. CASE Replace!Recreate
  BY <1>16 DEF Replace!Recreate
<1>17. CASE UNCHANGED Replace!vars
  BY <1>17 DEF Replace!vars
<1> QED
  BY <1>1, <1>2, <1>3, <1>4, <1>5, <1>6, <1>7, <1>8, <1>9, <1>10, <1>11, <1>12, <1>13,
    <1>14, <1>15, <1>16, <1>17 DEF Replace!Next, Replace!Replace, Replace!Faults,
    Replace!Native

\* No step takes away a directory with an edit in it.
LEMMA StepEdits ==
  ASSUME ReplaceShape, Apart, OpenIsKept, EditsKept, [Replace!Next]_(Replace!vars)
  PROVE  EditsKept'
<1> USE ReplaceAssumption
    DEF Replace!Goto, Replace!End, Replace!Report, Replace!disk, Replace!run,
        Replace!history, Replace!bounds, Kept
<1>1. CASE Replace!Begin
  <2>1. Kept \subseteq Kept' /\ redits' = redits
    BY <1>1 DEF Replace!Begin
  <2>2. \A d \in Kept : content'[d] = content[d]
    BY <1>1 DEF Replace!Begin, ReplaceShape, Apart, Made, Replace!Used
  <2> QED
    BY <2>1, <2>2, KeptStay
<1>2. CASE Replace!Verify
  <2>1. Kept \subseteq Kept' /\ redits' = redits /\ content' = content
    BY <1>2 DEF Replace!Verify
  <2> QED
    BY <2>1, KeptStay
<1>3. CASE Replace!Carry
  <2>1. Kept \subseteq Kept' /\ redits' = redits
    BY <1>3 DEF Replace!Carry
  <2>2. \A d \in Kept : content'[d] = content[d]
    BY <1>3 DEF Replace!Carry, ReplaceShape, Apart, Made, Preparing, Replace!Ids, Replace!Used
  <2> QED
    BY <2>1, <2>2, KeptStay
<1>4. CASE Replace!Reverify
  <2>1. Kept \subseteq Kept' /\ redits' = redits /\ content' = content
    BY <1>4 DEF Replace!Reverify
  <2> QED
    BY <2>1, KeptStay
<1>5. CASE Replace!Move
  <2>1. Kept \subseteq Kept' /\ redits' = redits /\ content' = content
    BY <1>5 DEF Replace!Move
  <2> QED
    BY <2>1, KeptStay
<1>6. CASE Replace!Moved
  <2>1. Kept \subseteq Kept' /\ redits' = redits /\ content' = content
    BY <1>6 DEF Replace!Moved
  <2> QED
    BY <2>1, KeptStay
<1>7. CASE Replace!Undo
  <2>1. Kept \subseteq Kept' /\ redits' = redits /\ content' = content
    BY <1>7 DEF Replace!Undo, Apart
  <2> QED
    BY <2>1, KeptStay
<1>8. CASE Replace!Install
  <2>1. Kept \subseteq Kept' /\ redits' = redits /\ content' = content
    BY <1>8 DEF Replace!Install
  <2> QED
    BY <2>1, KeptStay
<1>9. CASE Replace!Recheck
  <2>1. Kept \subseteq Kept' /\ redits' = redits /\ content' = content
    BY <1>9 DEF Replace!Recheck
  <2> QED
    BY <2>1, KeptStay
<1>10. CASE Replace!InstallFails
  <2>1. Kept \subseteq Kept' /\ redits' = redits /\ content' = content
    BY <1>10 DEF Replace!InstallFails
  <2> QED
    BY <2>1, KeptStay
<1>11. CASE Replace!StepFails
  <2>1. Kept \subseteq Kept' /\ redits' = redits /\ content' = content
    BY <1>11 DEF Replace!StepFails
  <2> QED
    BY <2>1, KeptStay
<1>12. CASE Replace!Crash
  <2>1. Kept \subseteq Kept' /\ redits' = redits /\ content' = content
    BY <1>12 DEF Replace!Crash
  <2> QED
    BY <2>1, KeptStay
<1>13. ASSUME NEW w \in Writers, Replace!Open(w) PROVE EditsKept'
  <2>1. Kept \subseteq Kept' /\ redits' = redits /\ content' = content
    BY <1>13 DEF Replace!Open
  <2> QED
    BY <2>1, KeptStay
<1>14. ASSUME NEW w \in Writers, Replace!WriteOpen(w) PROVE EditsKept'
  <2>1. PICK d \in open[w] : Replace!Write(d)
    BY <1>14 DEF Replace!WriteOpen
  <2>2. Kept' = Kept /\ d \in Kept /\ runs' = runs
    BY <1>14, <2>1 DEF Replace!WriteOpen, Kept, OpenIsKept
  <2> QED
    BY <2>1, <2>2, WriteIsKept
<1>15. CASE Replace!WritePath
  <2>1. PICK d \in live : Replace!Write(d)
    BY <1>15 DEF Replace!WritePath
  <2>2. Kept' = Kept /\ d \in Kept /\ runs' = runs
    BY <1>15, <2>1 DEF Replace!WritePath, Kept, OpenIsKept
  <2> QED
    BY <2>1, <2>2, WriteIsKept
<1>16. CASE Replace!Recreate
  <2>1. /\ Kept \subseteq Kept' /\ redits' = redits + 1
        /\ \A d \in Kept : content'[d] = content[d]
    BY <1>16 DEF Replace!Recreate, ReplaceShape, Apart, Made, Replace!Used
  <2>2. redits' \in Replace!In(Kept)'
    BY <1>16 DEF Replace!Recreate, ReplaceShape, Replace!In, Replace!Used, Replace!New,
       Replace!Ids
  <2>3. Replace!In(Kept) \subseteq Replace!In(Kept)'
    BY <2>1 DEF Replace!In
  <2>4. Replace!AllEdits' \subseteq Replace!AllEdits \cup {redits'}
    BY <2>1 DEF Replace!AllEdits, ReplaceShape
  <2> QED
    BY <2>2, <2>3, <2>4 DEF EditsKept
<1>17. CASE UNCHANGED Replace!vars
  BY <1>17 DEF Replace!vars, EditsKept, Replace!AllEdits, Replace!In
<1> QED
  BY <1>1, <1>2, <1>3, <1>4, <1>5, <1>6, <1>7, <1>8, <1>9, <1>10, <1>11, <1>12, <1>13,
    <1>14, <1>15, <1>16, <1>17 DEF Replace!Next, Replace!Replace, Replace!Faults,
    Replace!Native

\* The replacement begins in its invariant.
LEMMA InitReplace == Replace!Init => ReplaceInv
<1> SUFFICES ASSUME Replace!Init PROVE ReplaceInv
  OBVIOUS
<1> USE ReplaceAssumption DEF Replace!Init
<1>1. ReplaceShape
  BY DEF ReplaceShape, Replace!Directory, Replace!New
<1>2. Apart /\ OpenIsKept
  BY DEF Apart, OpenIsKept, Kept, Made, Preparing, Replace!Used
<1>3. EditsKept
  BY DEF EditsKept, Replace!AllEdits
<1> QED
  BY <1>1, <1>2, <1>3 DEF ReplaceInv

\* The invariant of the replacement holds throughout.
THEOREM ReplaceSafe == Replace!Spec => []ReplaceInv
<1>1. ReplaceInv /\ [Replace!Next]_(Replace!vars) => ReplaceInv'
  BY StepDirectories, StepApart, StepOpen, StepEdits DEF ReplaceInv
<1> QED
  BY InitReplace, <1>1, PTL DEF Replace!Spec

\* There is one directory at a time in every role.
ReplaceRoles ==
  /\ live \in Replace!Optional(Replace!Ids) /\ kept \subseteq Replace!Ids
  /\ live \cap kept = {}
  /\ open \in [Writers -> Replace!Optional(Replace!Ids)]
  /\ stage \in Replace!Optional(Replace!Ids) /\ old \in Replace!Optional(kept)
  /\ rpc \in {"idle", "verify", "carry", "reverify", "move", "moved", "undo", "install",
              "recheck"}
  /\ rresult \in {"none", "ok", "error"}
\* What is captured, carried over and reported are edits.
ReplaceEditsOf ==
  /\ cap \in Replace!Optional(SUBSET Replace!Edits) /\ index \in SUBSET Replace!Edits
  /\ handed \subseteq Replace!Edits /\ rtold \subseteq Replace!Edits
  /\ late \subseteq Replace!Edits /\ rfaults \in Nat

\* Nothing, or one of a set, is optional.
LEMMA OptionalReplace ==
  ASSUME NEW S
  PROVE  /\ {} \in Replace!Optional(S) /\ \A x \in S : {x} \in Replace!Optional(S)
         /\ \A T \in Replace!Optional(S) : T \subseteq S /\ T \in Replace!Optional(T)
         /\ \A T : \A L \in Replace!Optional(T) : T \subseteq S => L \in Replace!Optional(S)
  BY DEF Replace!Optional

\* What the directories of a set hold are edits.
LEMMA HeldAreEdits ==
  ASSUME ReplaceShape, NEW D \in SUBSET Replace!Ids
  PROVE  /\ Replace!In(D) \subseteq Replace!Edits /\ Replace!Index(D) \subseteq Replace!Edits
         /\ Replace!Files(D) \subseteq SUBSET Replace!Edits
<1>1. \A d \in D : /\ content[d].files \subseteq Replace!Edits
                   /\ content[d].index \subseteq Replace!Edits
  BY DEF ReplaceShape, Replace!Directory
<1> QED
  BY <1>1 DEF Replace!In, Replace!Index, Replace!Files

\* Every step leaves one directory in every role.
LEMMA StepRoles ==
  ASSUME ReplaceShape, Apart, ReplaceRoles, [Replace!Next]_(Replace!vars)
  PROVE  ReplaceRoles'
<1> USE OptionalReplace DEF Replace!Goto, Replace!End, Replace!Report, Replace!disk, Replace!run,
        Replace!history, Replace!bounds, ReplaceRoles
<1>1. CASE Replace!Begin
  <2>1. Replace!Used + 1 \in Replace!Ids
    BY <1>1, ReplaceAssumption DEF Replace!Begin, Replace!Used, Replace!Ids, ReplaceShape
  <2> QED
    BY <1>1, <2>1 DEF Replace!Begin
<1>2. CASE Replace!Verify
  BY <1>2 DEF Replace!Verify
<1>3. CASE Replace!Carry
  BY <1>3 DEF Replace!Carry
<1>4. CASE Replace!Reverify
  BY <1>4 DEF Replace!Reverify
<1>5. CASE Replace!Move
  BY <1>5 DEF Replace!Move
<1>6. CASE Replace!Moved
  BY <1>6 DEF Replace!Moved
<1>7. CASE Replace!Undo
  BY <1>7 DEF Replace!Undo
<1>8. CASE Replace!Install
  BY <1>8 DEF Replace!Install, Apart, Kept, Preparing
<1>9. CASE Replace!Recheck
  BY <1>9 DEF Replace!Recheck
<1>10. CASE Replace!InstallFails
  BY <1>10 DEF Replace!InstallFails
<1>11. CASE Replace!StepFails
  BY <1>11 DEF Replace!StepFails
<1>12. CASE Replace!Crash
  BY <1>12 DEF Replace!Crash
<1>13. ASSUME NEW w \in Writers, Replace!Open(w) PROVE ReplaceRoles'
  BY <1>13 DEF Replace!Open
<1>14. ASSUME NEW w \in Writers, Replace!WriteOpen(w) PROVE ReplaceRoles'
  BY <1>14 DEF Replace!WriteOpen
<1>15. CASE Replace!WritePath
  BY <1>15 DEF Replace!WritePath
<1>16. CASE Replace!Recreate
  <2>1. Replace!Used + 1 \in Replace!Ids /\ Replace!Used + 1 \notin kept
    BY <1>16, ReplaceAssumption DEF Replace!Recreate, Replace!Used, Replace!Ids, ReplaceShape,
      Apart, Kept, Made
  <2> QED
    BY <1>16, <2>1 DEF Replace!Recreate
<1>17. CASE UNCHANGED Replace!vars
  BY <1>17 DEF Replace!vars
<1> QED
  BY <1>1, <1>2, <1>3, <1>4, <1>5, <1>6, <1>7, <1>8, <1>9, <1>10, <1>11, <1>12, <1>13,
    <1>14, <1>15, <1>16, <1>17 DEF Replace!Next, Replace!Replace, Replace!Faults,
    Replace!Native

\* Every step captures, carries over and reports edits.
LEMMA StepEditsOf ==
  ASSUME ReplaceShape, ReplaceRoles, ReplaceEditsOf, [Replace!Next]_(Replace!vars)
  PROVE  ReplaceEditsOf'
<1> USE DEF Replace!Goto, Replace!End, Replace!Report, Replace!disk, Replace!run,
        Replace!history, Replace!bounds, ReplaceEditsOf
<1>a. /\ Replace!In(old) \subseteq Replace!Edits /\ Replace!Index(live) \subseteq Replace!Edits
      /\ Replace!Files(live) \in Replace!Optional(SUBSET Replace!Edits)
  <2>1. old \subseteq Replace!Ids /\ live \subseteq Replace!Ids
    BY OptionalReplace DEF ReplaceRoles
  <2>2. Replace!Files(live) \in Replace!Optional(Replace!Files(live))
    BY DEF Replace!Files, Replace!Optional, ReplaceRoles
  <2> QED
    BY <2>1, <2>2, HeldAreEdits, OptionalReplace
<1>1. CASE Replace!Begin
  <2>1. UNION cap' \subseteq Replace!Edits /\ cap' \in Replace!Optional(SUBSET Replace!Edits)
    BY <1>1, <1>a, OptionalReplace DEF Replace!Begin
  <2> QED
    BY <1>1, <2>1 DEF Replace!Begin
<1>2. CASE Replace!Verify
  BY <1>2 DEF Replace!Verify
<1>3. CASE Replace!Carry
  BY <1>3, <1>a DEF Replace!Carry
<1>4. CASE Replace!Reverify
  BY <1>4 DEF Replace!Reverify
<1>5. CASE Replace!Move
  BY <1>5 DEF Replace!Move
<1>6. CASE Replace!Moved
  <2>1. rtold' = rtold \/ rtold' = rtold \cup Replace!In(old)
    BY <1>6 DEF Replace!Moved
  <2> QED
    BY <1>6, <2>1, <1>a DEF Replace!Moved
<1>7. CASE Replace!Undo
  <2>1. rtold' = rtold \/ rtold' = rtold \cup Replace!In(old)
    BY <1>7 DEF Replace!Undo
  <2> QED
    BY <1>7, <2>1, <1>a DEF Replace!Undo
<1>8. CASE Replace!Install
  <2>1. rtold' = rtold \/ rtold' = rtold \cup Replace!In(old)
    BY <1>8 DEF Replace!Install
  <2> QED
    BY <1>8, <2>1, <1>a DEF Replace!Install
<1>9. CASE Replace!Recheck
  <2>1. rtold' = rtold \/ rtold' = rtold \cup Replace!In(old)
    BY <1>9 DEF Replace!Recheck
  <2> QED
    BY <1>9, <2>1, <1>a DEF Replace!Recheck
<1>10. CASE Replace!InstallFails
  <2>1. rtold' = rtold \/ rtold' = rtold \cup Replace!In(old)
    BY <1>10 DEF Replace!InstallFails
  <2> QED
    BY <1>10, <2>1, <1>a DEF Replace!InstallFails
<1>11. CASE Replace!StepFails
  <2>1. rtold' = rtold \/ rtold' = rtold \cup Replace!In(old)
    BY <1>11 DEF Replace!StepFails
  <2> QED
    BY <1>11, <2>1, <1>a DEF Replace!StepFails
<1>12. CASE Replace!Crash
  BY <1>12 DEF Replace!Crash
<1>13. ASSUME NEW w \in Writers, Replace!Open(w) PROVE ReplaceEditsOf'
  BY <1>13 DEF Replace!Open
<1>14. ASSUME NEW w \in Writers, Replace!WriteOpen(w) PROVE ReplaceEditsOf'
  <2>1. redits' \in Replace!Edits
    BY <1>14, ReplaceAssumption DEF Replace!WriteOpen, Replace!Write, Replace!Edits, ReplaceShape
  <2>2. late' = late \/ late' = late \cup {redits'}
    BY <1>14 DEF Replace!WriteOpen
  <2>3. UNCHANGED <<cap, index, handed, rtold, rfaults>>
    BY <1>14 DEF Replace!WriteOpen
  <2> QED
    BY <2>1, <2>2, <2>3
<1>15. CASE Replace!WritePath
  BY <1>15 DEF Replace!WritePath
<1>16. CASE Replace!Recreate
  BY <1>16 DEF Replace!Recreate
<1>17. CASE UNCHANGED Replace!vars
  BY <1>17 DEF Replace!vars
<1> QED
  BY <1>1, <1>2, <1>3, <1>4, <1>5, <1>6, <1>7, <1>8, <1>9, <1>10, <1>11, <1>12, <1>13,
    <1>14, <1>15, <1>16, <1>17 DEF Replace!Next, Replace!Replace, Replace!Faults,
    Replace!Native

\* The replacement begins in its types.
LEMMA InitReplaceTypes == Replace!Init => ReplaceRoles /\ ReplaceEditsOf
<1> SUFFICES ASSUME Replace!Init PROVE ReplaceRoles /\ ReplaceEditsOf
  OBVIOUS
<1> USE ReplaceAssumption, OptionalReplace DEF Replace!Init
<1>1. 0 \in Replace!Ids
  BY DEF Replace!Ids
<1> QED
  BY <1>1 DEF ReplaceRoles, ReplaceEditsOf

\* The directories, the run and what it has captured and reported keep their types.
THEOREM ReplaceTyped == Replace!Spec => []Replace!TypeOK
<1> DEFINE I == ReplaceInv /\ ReplaceRoles /\ ReplaceEditsOf
<1>1. I /\ [Replace!Next]_(Replace!vars) => I'
  BY StepDirectories, StepApart, StepOpen, StepEdits, StepRoles, StepEditsOf DEF ReplaceInv
<1>2. I => Replace!TypeOK
  BY DEF ReplaceInv, ReplaceShape, ReplaceRoles, ReplaceEditsOf, Replace!TypeOK
<1>3. Replace!Init => I
  BY InitReplace, InitReplaceTypes
<1> HIDE DEF I
<1> QED
  BY <1>1, <1>2, <1>3, PTL DEF Replace!Spec

-----------------------------------------------------------------------------
(* The migration. *)

\* One command migrates at a time, and none goes on before one has completed it.
Migrating ==
  {"enter", "remote", "baseline", "receipt", "conflict", "active", "demand", "marker"}
Moving == Migrating \ {"enter"}
OneMigrates ==
  \A c \in Commands : /\ mpc[c] \in Migrating => mlock = {c}
                      /\ mpc[c] \in Moving => ~marker
                      /\ mpc[c] = "active" => active = {}
                      /\ mpc[c] \in {"run", "clear"} => marker
NothingYet == ~marker => closed = {} /\ served = {}

\* What every step of the migration leaves done.
HasBaseline == legacy.baseline = "whole" => snapshot # {}
HasConflict == legacy.conflict = "whole" =>
                 Migration!ConflictCame \/ "own" \in active \cup closed
HasDemand == legacy.demand => "legacy" \in demand \cup served
SoFar(c) ==
  /\ mpc[c] = "active" => evidence
  /\ mpc[c] \in {"receipt", "conflict", "active", "demand", "marker"} => HasBaseline
  /\ mpc[c] \in {"demand", "marker"} => HasConflict
  /\ mpc[c] = "marker" => HasDemand
StepsDone == \A c \in Commands : SoFar(c)
MigrationShape ==
  /\ DOMAIN mpc = Commands /\ marker \in BOOLEAN
  /\ active \in {{}, {"legacy"}, {"own"}}
MigrationInv ==
  MigrationShape /\ OneMigrates /\ NothingYet /\ StepsDone /\ Migration!MigratesOnce

\* The lock and the marker leave one command at a time in the migration.
LEMMA StepOne ==
  ASSUME MigrationShape, OneMigrates, NothingYet, [Migration!Next]_(Migration!vars)
  PROVE  (MigrationShape /\ OneMigrates /\ NothingYet)'
<1> USE DEF Migration!Goto, Migration!Leave, Migration!disk, Migration!history,
        Migration!bounds, MigrationShape, OneMigrates, NothingYet, Migrating, Moving
<1>1. ASSUME NEW c \in Commands, Migration!Enter(c)
      PROVE  (MigrationShape /\ OneMigrates /\ NothingYet)'
  BY <1>1 DEF Migration!Enter
<1>2. ASSUME NEW c \in Commands, Migration!CheckMarker(c)
      PROVE  (MigrationShape /\ OneMigrates /\ NothingYet)'
  BY <1>2 DEF Migration!CheckMarker
<1>3. ASSUME NEW c \in Commands, Migration!MigrateRemote(c)
      PROVE  (MigrationShape /\ OneMigrates /\ NothingYet)'
  BY <1>3 DEF Migration!MigrateRemote
<1>4. ASSUME NEW c \in Commands, Migration!MigrateSnapshot(c)
      PROVE  (MigrationShape /\ OneMigrates /\ NothingYet)'
  BY <1>4 DEF Migration!MigrateSnapshot
<1>5. ASSUME NEW c \in Commands, Migration!MigrateReceipt(c)
      PROVE  (MigrationShape /\ OneMigrates /\ NothingYet)'
  BY <1>5 DEF Migration!MigrateReceipt
<1>6. ASSUME NEW c \in Commands, Migration!MigrateEvidence(c)
      PROVE  (MigrationShape /\ OneMigrates /\ NothingYet)'
  BY <1>6 DEF Migration!MigrateEvidence
<1>7. ASSUME NEW c \in Commands, Migration!MigrateActive(c)
      PROVE  (MigrationShape /\ OneMigrates /\ NothingYet)'
  BY <1>7 DEF Migration!MigrateActive
<1>8. ASSUME NEW c \in Commands, Migration!MigratePending(c)
      PROVE  (MigrationShape /\ OneMigrates /\ NothingYet)'
  BY <1>8 DEF Migration!MigratePending
<1>9. ASSUME NEW c \in Commands, Migration!WriteMarker(c)
      PROVE  (MigrationShape /\ OneMigrates /\ NothingYet)'
  BY <1>9 DEF Migration!WriteMarker
<1>10. ASSUME NEW c \in Commands, Migration!Reconcile(c)
      PROVE  (MigrationShape /\ OneMigrates /\ NothingYet)'
  BY <1>10 DEF Migration!Reconcile, Migration!Authorized
<1>11. ASSUME NEW c \in Commands, Migration!Resolve(c)
      PROVE  (MigrationShape /\ OneMigrates /\ NothingYet)'
  BY <1>11 DEF Migration!Resolve, Migration!Authorized
<1>12. ASSUME NEW c \in Commands, Migration!ClearConflict(c)
      PROVE  (MigrationShape /\ OneMigrates /\ NothingYet)'
  BY <1>12 DEF Migration!ClearConflict
<1>13. ASSUME NEW c \in Commands, Migration!Other(c)
      PROVE  (MigrationShape /\ OneMigrates /\ NothingYet)'
  BY <1>13 DEF Migration!Other, Migration!Authorized
<1>14. ASSUME NEW c \in Commands, Migration!Interrupted(c)
      PROVE  (MigrationShape /\ OneMigrates /\ NothingYet)'
  BY <1>14 DEF Migration!Interrupted
<1>15. CASE Migration!Decide
  BY <1>15 DEF Migration!Decide
<1>16. CASE UNCHANGED Migration!vars
  BY <1>16 DEF Migration!vars
<1> QED
  BY <1>1, <1>2, <1>3, <1>4, <1>5, <1>6, <1>7, <1>8, <1>9, <1>10, <1>11, <1>12, <1>13,
    <1>14, <1>15, <1>16 DEF Migration!Next, Migration!Migrate, Migration!Run

\* A step of the migration leaves done what the steps before it did.
LEMMA StepDone ==
  ASSUME MigrationShape, OneMigrates, NothingYet, StepsDone, Migration!ConflictComesFirst,
         [Migration!Next]_(Migration!vars)
  PROVE  StepsDone'
<1> USE DEF Migration!Goto, Migration!Leave, Migration!disk, Migration!history,
        Migration!bounds, MigrationShape, OneMigrates, NothingYet, Migrating, Moving,
        StepsDone, SoFar, HasBaseline, HasConflict, HasDemand, Migration!ConflictCame,
        Migration!ConflictComesFirst
<1>1. ASSUME NEW c \in Commands, Migration!Enter(c) PROVE StepsDone'
  BY <1>1 DEF Migration!Enter
<1>2. ASSUME NEW c \in Commands, Migration!CheckMarker(c) PROVE StepsDone'
  BY <1>2 DEF Migration!CheckMarker
<1>3. ASSUME NEW c \in Commands, Migration!MigrateRemote(c) PROVE StepsDone'
  BY <1>3 DEF Migration!MigrateRemote
<1>4. ASSUME NEW c \in Commands, Migration!MigrateSnapshot(c) PROVE StepsDone'
  BY <1>4 DEF Migration!MigrateSnapshot
<1>5. ASSUME NEW c \in Commands, Migration!MigrateReceipt(c) PROVE StepsDone'
  BY <1>5 DEF Migration!MigrateReceipt
<1>6. ASSUME NEW c \in Commands, Migration!MigrateEvidence(c) PROVE StepsDone'
  BY <1>6 DEF Migration!MigrateEvidence
<1>7. ASSUME NEW c \in Commands, Migration!MigrateActive(c) PROVE StepsDone'
  BY <1>7 DEF Migration!MigrateActive
<1>8. ASSUME NEW c \in Commands, Migration!MigratePending(c) PROVE StepsDone'
  BY <1>8 DEF Migration!MigratePending
<1>9. ASSUME NEW c \in Commands, Migration!WriteMarker(c) PROVE StepsDone'
  BY <1>9 DEF Migration!WriteMarker
<1>10. ASSUME NEW c \in Commands, Migration!Reconcile(c) PROVE StepsDone'
  BY <1>10 DEF Migration!Reconcile
<1>11. ASSUME NEW c \in Commands, Migration!Resolve(c) PROVE StepsDone'
  BY <1>11 DEF Migration!Resolve
<1>12. ASSUME NEW c \in Commands, Migration!ClearConflict(c) PROVE StepsDone'
  BY <1>12 DEF Migration!ClearConflict
<1>13. ASSUME NEW c \in Commands, Migration!Other(c) PROVE StepsDone'
  BY <1>13 DEF Migration!Other
<1>14. ASSUME NEW c \in Commands, Migration!Interrupted(c) PROVE StepsDone'
  BY <1>14 DEF Migration!Interrupted
<1>15. CASE Migration!Decide
  BY <1>15 DEF Migration!Decide
<1>16. CASE UNCHANGED Migration!vars
  BY <1>16 DEF Migration!vars
<1> QED
  BY <1>1, <1>2, <1>3, <1>4, <1>5, <1>6, <1>7, <1>8, <1>9, <1>10, <1>11, <1>12, <1>13,
    <1>14, <1>15, <1>16 DEF Migration!Next, Migration!Migrate, Migration!Run

\* So the marker is written once all of it is done, and nothing is migrated after it.
LEMMA StepMigrated ==
  ASSUME MigrationInv, [Migration!Next]_(Migration!vars)
  PROVE  Migration!MigratesOnce'
<1> USE DEF Migration!Goto, Migration!Leave, Migration!disk, Migration!history,
        Migration!bounds, MigrationInv, MigrationShape, OneMigrates, NothingYet, Migrating,
        Moving, StepsDone, SoFar, HasBaseline, HasConflict, HasDemand, Migration!MigratesOnce,
        Migration!NothingLeftBehind, Migration!ConflictCame, Migration!ConflictComesFirst
<1>1. ASSUME NEW c \in Commands, Migration!Enter(c) PROVE Migration!MigratesOnce'
  BY <1>1 DEF Migration!Enter
<1>2. ASSUME NEW c \in Commands, Migration!CheckMarker(c) PROVE Migration!MigratesOnce'
  BY <1>2 DEF Migration!CheckMarker
<1>3. ASSUME NEW c \in Commands, Migration!MigrateRemote(c) PROVE Migration!MigratesOnce'
  BY <1>3 DEF Migration!MigrateRemote
<1>4. ASSUME NEW c \in Commands, Migration!MigrateSnapshot(c) PROVE Migration!MigratesOnce'
  BY <1>4 DEF Migration!MigrateSnapshot
<1>5. ASSUME NEW c \in Commands, Migration!MigrateReceipt(c) PROVE Migration!MigratesOnce'
  BY <1>5 DEF Migration!MigrateReceipt
<1>6. ASSUME NEW c \in Commands, Migration!MigrateEvidence(c) PROVE Migration!MigratesOnce'
  BY <1>6 DEF Migration!MigrateEvidence
<1>7. ASSUME NEW c \in Commands, Migration!MigrateActive(c) PROVE Migration!MigratesOnce'
  BY <1>7 DEF Migration!MigrateActive
<1>8. ASSUME NEW c \in Commands, Migration!MigratePending(c) PROVE Migration!MigratesOnce'
  BY <1>8 DEF Migration!MigratePending
<1>9. ASSUME NEW c \in Commands, Migration!WriteMarker(c) PROVE Migration!MigratesOnce'
  BY <1>9 DEF Migration!WriteMarker
<1>10. ASSUME NEW c \in Commands, Migration!Reconcile(c) PROVE Migration!MigratesOnce'
  BY <1>10 DEF Migration!Reconcile
<1>11. ASSUME NEW c \in Commands, Migration!Resolve(c) PROVE Migration!MigratesOnce'
  BY <1>11 DEF Migration!Resolve
<1>12. ASSUME NEW c \in Commands, Migration!ClearConflict(c) PROVE Migration!MigratesOnce'
  BY <1>12 DEF Migration!ClearConflict
<1>13. ASSUME NEW c \in Commands, Migration!Other(c) PROVE Migration!MigratesOnce'
  BY <1>13 DEF Migration!Other
<1>14. ASSUME NEW c \in Commands, Migration!Interrupted(c) PROVE Migration!MigratesOnce'
  BY <1>14 DEF Migration!Interrupted
<1>15. CASE Migration!Decide
  BY <1>15 DEF Migration!Decide
<1>16. CASE UNCHANGED Migration!vars
  BY <1>16 DEF Migration!vars
<1> QED
  BY <1>1, <1>2, <1>3, <1>4, <1>5, <1>6, <1>7, <1>8, <1>9, <1>10, <1>11, <1>12, <1>13,
    <1>14, <1>15, <1>16 DEF Migration!Next, Migration!Migrate, Migration!Run

\* The migration begins in its invariant.
LEMMA InitMigration == Migration!Init => MigrationInv
  BY DEF Migration!Init, MigrationInv, MigrationShape, OneMigrates, NothingYet, StepsDone,
     SoFar, Migrating, Moving, Migration!MigratesOnce, Migration!NothingLeftBehind,
     Migration!ConflictComesFirst, Migration!Optional, Migration!Origins

\* The invariant of the migration holds throughout.
THEOREM MigrationSafe == Migration!Spec => []MigrationInv
<1>1. MigrationInv /\ [Migration!Next]_(Migration!vars) => MigrationInv'
  BY StepOne, StepDone, StepMigrated DEF MigrationInv, Migration!MigratesOnce
<1> QED
  BY InitMigration, <1>1, PTL DEF Migration!Spec

\* Every step keeps the types of the migration.
LEMMA StepMigrationTypes ==
  ASSUME Migration!TypeOK, [Migration!Next]_(Migration!vars)
  PROVE  Migration!TypeOK'
<1> USE DecisionsAssumption
    DEF Migration!Goto, Migration!Leave, Migration!disk, Migration!history,
        Migration!bounds, Migration!TypeOK, Migration!Optional, Migration!Origins
<1>1. ASSUME NEW c \in Commands, Migration!Enter(c) PROVE Migration!TypeOK'
  BY <1>1 DEF Migration!Enter
<1>2. ASSUME NEW c \in Commands, Migration!CheckMarker(c) PROVE Migration!TypeOK'
  BY <1>2 DEF Migration!CheckMarker
<1>3. ASSUME NEW c \in Commands, Migration!MigrateRemote(c) PROVE Migration!TypeOK'
  BY <1>3 DEF Migration!MigrateRemote
<1>4. ASSUME NEW c \in Commands, Migration!MigrateSnapshot(c) PROVE Migration!TypeOK'
  BY <1>4 DEF Migration!MigrateSnapshot
<1>5. ASSUME NEW c \in Commands, Migration!MigrateReceipt(c) PROVE Migration!TypeOK'
  BY <1>5 DEF Migration!MigrateReceipt
<1>6. ASSUME NEW c \in Commands, Migration!MigrateEvidence(c) PROVE Migration!TypeOK'
  BY <1>6 DEF Migration!MigrateEvidence
<1>7. ASSUME NEW c \in Commands, Migration!MigrateActive(c) PROVE Migration!TypeOK'
  BY <1>7 DEF Migration!MigrateActive
<1>8. ASSUME NEW c \in Commands, Migration!MigratePending(c) PROVE Migration!TypeOK'
  BY <1>8 DEF Migration!MigratePending
<1>9. ASSUME NEW c \in Commands, Migration!WriteMarker(c) PROVE Migration!TypeOK'
  BY <1>9 DEF Migration!WriteMarker
<1>10. ASSUME NEW c \in Commands, Migration!Reconcile(c) PROVE Migration!TypeOK'
  <2>1. /\ snapshot' \in {snapshot, {"own"}} /\ mreceipt' \in {mreceipt, {"own"}}
        /\ active' \in {active, {"own"}} /\ closed' \in {closed, closed \cup active}
        /\ demand' \in {demand, {}} /\ served' \in {served, served \cup demand}
    BY ONLY <1>10 DEF Migration!Reconcile
  <2>2. UNCHANGED <<legacy, mledger, mremote, evidence, marker, mlock, approval, marked,
                    decisions, mfaults>>
    BY ONLY <1>10 DEF Migration!Reconcile, Migration!bounds
  <2>3. \E p \in {"idle", "clear"} : mpc' = [mpc EXCEPT ![c] = p]
    BY ONLY <1>10 DEF Migration!Reconcile, Migration!Goto
  <2>4. active \subseteq Migration!Origins
    BY DEF Migration!TypeOK
  <2> QED
    BY <2>1, <2>2, <2>3, <2>4
<1>11. ASSUME NEW c \in Commands, Migration!Resolve(c) PROVE Migration!TypeOK'
  BY <1>11 DEF Migration!Resolve
<1>12. ASSUME NEW c \in Commands, Migration!ClearConflict(c) PROVE Migration!TypeOK'
  BY <1>12 DEF Migration!ClearConflict
<1>13. ASSUME NEW c \in Commands, Migration!Other(c) PROVE Migration!TypeOK'
  <2>1. demand' \in {demand, demand \cup {"own"}} /\ marked' \in {marked, TRUE}
    BY ONLY <1>13 DEF Migration!Other
  <2>2. UNCHANGED <<legacy, mledger, mremote, snapshot, mreceipt, evidence, active, marker,
                    mlock, approval, closed, served, decisions, mfaults>>
    BY ONLY <1>13 DEF Migration!Other, Migration!history, Migration!bounds
  <2>3. mpc' = [mpc EXCEPT ![c] = "idle"]
    BY ONLY <1>13 DEF Migration!Other, Migration!Goto
  <2> QED
    BY <2>1, <2>2, <2>3
<1>14. ASSUME NEW c \in Commands, Migration!Interrupted(c) PROVE Migration!TypeOK'
  BY <1>14 DEF Migration!Interrupted
<1>15. CASE Migration!Decide
  BY <1>15 DEF Migration!Decide
<1>16. CASE UNCHANGED Migration!vars
  BY <1>16 DEF Migration!vars
<1> QED
  BY <1>1, <1>2, <1>3, <1>4, <1>5, <1>6, <1>7, <1>8, <1>9, <1>10, <1>11, <1>12, <1>13,
    <1>14, <1>15, <1>16 DEF Migration!Next, Migration!Migrate, Migration!Run

\* The migration begins in its types.
LEMMA InitMigrationTypes == Migration!Init => Migration!TypeOK
<1> SUFFICES ASSUME Migration!Init PROVE Migration!TypeOK
  OBVIOUS
<1> USE DecisionsAssumption DEF Migration!Init
<1>1. mremote \in Migration!Optional(Remotes)
  BY DEF Migration!Optional
<1>2. /\ snapshot \in Migration!Optional(Migration!Origins)
      /\ mreceipt \in Migration!Optional(Migration!Origins)
      /\ active \in Migration!Optional(Migration!Origins)
  BY DEF Migration!Optional, Migration!Origins
<1>3. /\ mlock \in Migration!Optional(Commands)
      /\ approval \in Migration!Optional(Remotes)
  BY DEF Migration!Optional
<1>4. demand \subseteq Migration!Origins /\ served \subseteq Migration!Origins
  BY DEF Migration!Origins
<1>5. decisions \in 0..MaxDecisions /\ mfaults \in 0..MigrationFaults
  OBVIOUS
<1> QED
  BY <1>1, <1>2, <1>3, <1>4, <1>5 DEF Migration!TypeOK

\* What is moved, and the commands that move it, keep their types.
THEOREM MigrationTyped == Migration!Spec => []Migration!TypeOK
<1>1. Migration!TypeOK /\ [Migration!Next]_(Migration!vars) => Migration!TypeOK'
  BY StepMigrationTypes
<1> QED
  BY InitMigrationTypes, <1>1, PTL DEF Migration!Spec

-----------------------------------------------------------------------------
(* The setup. *)

\* On and in place, in the files or in what the setup puts back.
On(c) == c.is = "on"
InPlace(h) == h.is = "current"
Ready == On(config) /\ InPlace(hooks)
ReadyBefore == On(before.config) /\ InPlace(before.hooks)

ConfigShape ==
  /\ DOMAIN cpc = Config!Procs /\ DOMAIN seen = Config!Procs
  /\ asked \in Config!Optional(Repositories)
  /\ remote \in Config!Optional(Repositories) /\ before.remote \in Config!Optional(Repositories)
  /\ undone \in BOOLEAN /\ changed \in BOOLEAN

\* An approval means that everything is ready.
ApprovedIsReady == ledger \in Repositories /\ ~undone => Ready
\* A setup that puts back an approval puts back what was ready, and has undone nothing.
PutsBackReady == cpc["setup"] # "idle" /\ before.ledger \in Repositories /\ ~undone
                   => ReadyBefore /\ Ready
\* While it runs nobody else approves.
NoOtherApproval == cpc["setup"] # "idle" => ledger \in {before.ledger, "declined"}
\* What a setup has passed is ready, unless somebody has changed it again.
PassedIsReady ==
  /\ cpc["setup"] \in {"hooks", "compare", "merge", "remote", "consent"} /\ ~changed
       => On(config)
  /\ cpc["setup"] \in {"remote", "consent"} /\ ~changed => InPlace(hooks)
ConfigInv == /\ ConfigShape /\ ApprovedIsReady /\ PutsBackReady /\ NoOtherApproval
             /\ PassedIsReady

\* An edit that turns memories off or changes the handlers is marked; any other
\* leaves what is ready.
LEMMA EditIsSeen ==
  ASSUME ConfigShape, Config!Edit
  PROVE  /\ cpc' = cpc /\ before' = before /\ ledger' = ledger /\ remote' = remote
         /\ changed' \in BOOLEAN /\ undone' \in BOOLEAN
         /\ \/ changed' /\ undone'
            \/ /\ changed' = changed /\ undone' = undone
               /\ On(config) => On(config')
               /\ InPlace(hooks) => InPlace(hooks')
<1> USE DEF ConfigShape
<1>1. ASSUME NEW on \in Config!Switch, config'.is = on, hooks' = hooks,
             changed' = (changed \/ on = "off"), undone' = (undone \/ on = "off")
      PROVE  \/ changed' /\ undone'
             \/ /\ changed' = changed /\ undone' = undone
                /\ On(config) => On(config')
                /\ InPlace(hooks) => InPlace(hooks')
  <2>1. CASE on = "off"
    BY <1>1, <2>1
  <2>2. CASE on = "on"
    BY <1>1, <2>2 DEF On
  <2> QED
    BY <2>1, <2>2 DEF Config!Switch
<1>2. ASSUME NEW h, hooks'.is = h, config' = config,
             changed' = (changed \/ h # hooks.is), undone' = (undone \/ h # hooks.is)
      PROVE  \/ changed' /\ undone'
             \/ /\ changed' = changed /\ undone' = undone
                /\ On(config) => On(config')
                /\ InPlace(hooks) => InPlace(hooks')
  <2>1. CASE h = hooks.is
    BY <1>2, <2>1 DEF InPlace
  <2>2. CASE h # hooks.is
    BY <1>2, <2>2
  <2> QED
    BY <2>1, <2>2
<1>3. cpc' = cpc /\ before' = before /\ ledger' = ledger /\ remote' = remote
  BY DEF Config!Edit, Config!process
<1>4. changed' \in BOOLEAN /\ undone' \in BOOLEAN
  BY DEF Config!Edit
<1> QED
  BY <1>1, <1>2, <1>3, <1>4 DEF Config!Edit

\* Every step keeps the types.
LEMMA StepShape ==
  ASSUME ConfigShape, [Config!Next]_(Config!vars)
  PROVE  ConfigShape'
<1> USE RepositoriesAssumption
    DEF Config!Goto, Config!As, Config!files, Config!process, Config!history,
        Config!bounds, Config!Procs, ConfigShape, Config!Optional
<1>1. ASSUME NEW r \in Repositories, Config!Setup(r) PROVE ConfigShape'
  BY <1>1 DEF Config!Setup, Config!Now
<1>2. CASE Config!Enable
  BY <1>2 DEF Config!Enable, Config!Look
<1>3. CASE Config!Enabled
  BY <1>3 DEF Config!Enabled
<1>4. CASE Config!WriteRemote
  BY <1>4 DEF Config!WriteRemote
<1>5. CASE Config!Approve
  BY <1>5 DEF Config!Approve
<1>6. CASE Config!UndoLedger
  BY <1>6 DEF Config!UndoLedger
<1>7. CASE Config!UndoRemote
  BY <1>7 DEF Config!UndoRemote
<1>8. CASE Config!UndoHooks
  BY <1>8 DEF Config!UndoHooks
<1>9. CASE Config!UndoConfig
  BY <1>9 DEF Config!UndoConfig
<1>10. CASE Config!Repair
  BY <1>10 DEF Config!Repair
<1>11. ASSUME NEW p \in Config!Procs, Config!ReadHooks(p) PROVE ConfigShape'
  BY <1>11 DEF Config!ReadHooks, Config!Look, Config!Fail, Config!HooksDone
<1>12. ASSUME NEW p \in Config!Procs, Config!CompareHooks(p) PROVE ConfigShape'
  BY <1>12 DEF Config!CompareHooks, Config!Fail
<1>13. ASSUME NEW p \in Config!Procs, Config!Merge(p) PROVE ConfigShape'
  BY <1>13 DEF Config!Merge, Config!HooksDone
<1>14. CASE Config!Decline
  BY <1>14 DEF Config!Decline
<1>15. CASE Config!Edit
  BY <1>15 DEF Config!Edit
<1>16. ASSUME NEW p \in Config!Procs, Config!StepFails(p) PROVE ConfigShape'
  BY <1>16 DEF Config!StepFails, Config!Fail
<1>17. CASE Config!UndoFails
  BY <1>17 DEF Config!UndoFails
<1>18. CASE Config!Crash
  BY <1>18 DEF Config!Crash
<1>19. CASE UNCHANGED Config!vars
  BY <1>19 DEF Config!vars
<1> QED
  BY <1>1, <1>2, <1>3, <1>4, <1>5, <1>6, <1>7, <1>8, <1>9, <1>10, <1>11, <1>12, <1>13,
    <1>14, <1>15, <1>16, <1>17, <1>18, <1>19 DEF Config!Next, Config!Configure,
    Config!Undo, Config!MergeHooks

\* While a setup runs only it approves; others decline.
LEMMA StepOthers ==
  ASSUME ConfigShape, NoOtherApproval, [Config!Next]_(Config!vars)
  PROVE  NoOtherApproval'
<1> USE RepositoriesAssumption
    DEF Config!Goto, Config!As, Config!files, Config!process, Config!history,
        Config!bounds, Config!Procs, ConfigShape, NoOtherApproval
<1>1. ASSUME NEW r \in Repositories, Config!Setup(r) PROVE NoOtherApproval'
  BY <1>1 DEF Config!Setup, Config!Now
<1>2. CASE Config!Enable
  BY <1>2 DEF Config!Enable, Config!Look
<1>3. CASE Config!Enabled
  BY <1>3 DEF Config!Enabled
<1>4. CASE Config!WriteRemote
  BY <1>4 DEF Config!WriteRemote
<1>5. CASE Config!Approve
  BY <1>5 DEF Config!Approve
<1>6. CASE Config!UndoLedger
  BY <1>6 DEF Config!UndoLedger
<1>7. CASE Config!UndoRemote
  BY <1>7 DEF Config!UndoRemote
<1>8. CASE Config!UndoHooks
  BY <1>8 DEF Config!UndoHooks
<1>9. CASE Config!UndoConfig
  BY <1>9 DEF Config!UndoConfig
<1>10. CASE Config!Repair
  BY <1>10 DEF Config!Repair
<1>11. ASSUME NEW p \in Config!Procs, Config!ReadHooks(p) PROVE NoOtherApproval'
  BY <1>11 DEF Config!ReadHooks, Config!Look, Config!Fail, Config!HooksDone
<1>12. ASSUME NEW p \in Config!Procs, Config!CompareHooks(p) PROVE NoOtherApproval'
  BY <1>12 DEF Config!CompareHooks, Config!Fail
<1>13. ASSUME NEW p \in Config!Procs, Config!Merge(p) PROVE NoOtherApproval'
  BY <1>13 DEF Config!Merge, Config!HooksDone
<1>14. CASE Config!Decline
  BY <1>14 DEF Config!Decline
<1>15. CASE Config!Edit
  BY <1>15 DEF Config!Edit
<1>16. ASSUME NEW p \in Config!Procs, Config!StepFails(p) PROVE NoOtherApproval'
  BY <1>16 DEF Config!StepFails, Config!Fail
<1>17. CASE Config!UndoFails
  BY <1>17 DEF Config!UndoFails
<1>18. CASE Config!Crash
  BY <1>18 DEF Config!Crash
<1>19. CASE UNCHANGED Config!vars
  BY <1>19 DEF Config!vars
<1> QED
  BY <1>1, <1>2, <1>3, <1>4, <1>5, <1>6, <1>7, <1>8, <1>9, <1>10, <1>11, <1>12, <1>13,
    <1>14, <1>15, <1>16, <1>17, <1>18, <1>19 DEF Config!Next, Config!Configure,
    Config!Undo, Config!MergeHooks

\* Each step of the setup leaves its file ready.
LEMMA StepPassed ==
  ASSUME ConfigShape, PassedIsReady, [Config!Next]_(Config!vars)
  PROVE  PassedIsReady'
<1> USE RepositoriesAssumption
    DEF Config!Goto, Config!As, Config!files, Config!process, Config!history,
        Config!bounds, Config!Procs, ConfigShape, PassedIsReady, On, InPlace
<1>1. ASSUME NEW r \in Repositories, Config!Setup(r) PROVE PassedIsReady'
  BY <1>1 DEF Config!Setup, Config!Now
<1>2. CASE Config!Enable
  BY <1>2 DEF Config!Enable, Config!Look
<1>3. CASE Config!Enabled
  BY <1>3 DEF Config!Enabled
<1>4. CASE Config!WriteRemote
  BY <1>4 DEF Config!WriteRemote
<1>5. CASE Config!Approve
  BY <1>5 DEF Config!Approve
<1>6. CASE Config!UndoLedger
  BY <1>6 DEF Config!UndoLedger
<1>7. CASE Config!UndoRemote
  BY <1>7 DEF Config!UndoRemote
<1>8. CASE Config!UndoHooks
  BY <1>8 DEF Config!UndoHooks
<1>9. CASE Config!UndoConfig
  BY <1>9 DEF Config!UndoConfig
<1>10. CASE Config!Repair
  BY <1>10 DEF Config!Repair
<1>11. ASSUME NEW p \in Config!Procs, Config!ReadHooks(p) PROVE PassedIsReady'
  BY <1>11 DEF Config!ReadHooks, Config!Look, Config!Fail, Config!HooksDone
<1>12. ASSUME NEW p \in Config!Procs, Config!CompareHooks(p) PROVE PassedIsReady'
  BY <1>12 DEF Config!CompareHooks, Config!Fail
<1>13. ASSUME NEW p \in Config!Procs, Config!Merge(p) PROVE PassedIsReady'
  BY <1>13 DEF Config!Merge, Config!HooksDone
<1>14. CASE Config!Decline
  BY <1>14 DEF Config!Decline
<1>15. CASE Config!Edit
  BY <1>15, EditIsSeen
<1>16. ASSUME NEW p \in Config!Procs, Config!StepFails(p) PROVE PassedIsReady'
  BY <1>16 DEF Config!StepFails, Config!Fail
<1>17. CASE Config!UndoFails
  BY <1>17 DEF Config!UndoFails
<1>18. CASE Config!Crash
  BY <1>18 DEF Config!Crash
<1>19. CASE UNCHANGED Config!vars
  BY <1>19 DEF Config!vars
<1> QED
  BY <1>1, <1>2, <1>3, <1>4, <1>5, <1>6, <1>7, <1>8, <1>9, <1>10, <1>11, <1>12, <1>13,
    <1>14, <1>15, <1>16, <1>17, <1>18, <1>19 DEF Config!Next, Config!Configure,
    Config!Undo, Config!MergeHooks

\* So what is approved is ready, and what a rollback puts back too.
LEMMA StepReady ==
  ASSUME ConfigInv, [Config!Next]_(Config!vars)
  PROVE  (ApprovedIsReady /\ PutsBackReady)'
<1> USE RepositoriesAssumption
    DEF Config!Goto, Config!As, Config!files, Config!process, Config!history,
        Config!bounds, Config!Procs, ConfigInv, ConfigShape, ApprovedIsReady, PutsBackReady,
        NoOtherApproval, PassedIsReady, On, InPlace, Ready, ReadyBefore
<1>1. ASSUME NEW r \in Repositories, Config!Setup(r)
      PROVE  (ApprovedIsReady /\ PutsBackReady)'
  BY <1>1 DEF Config!Setup, Config!Now
<1>2. CASE Config!Enable
  BY <1>2 DEF Config!Enable, Config!Look
<1>3. CASE Config!Enabled
  BY <1>3 DEF Config!Enabled
<1>4. CASE Config!WriteRemote
  BY <1>4 DEF Config!WriteRemote
<1>5. CASE Config!Approve
  BY <1>5 DEF Config!Approve, Config!Optional
<1>6. CASE Config!UndoLedger
  BY <1>6 DEF Config!UndoLedger
<1>7. CASE Config!UndoRemote
  BY <1>7 DEF Config!UndoRemote
<1>8. CASE Config!UndoHooks
  BY <1>8 DEF Config!UndoHooks
<1>9. CASE Config!UndoConfig
  BY <1>9 DEF Config!UndoConfig
<1>10. CASE Config!Repair
  BY <1>10 DEF Config!Repair
<1>11. ASSUME NEW p \in Config!Procs, Config!ReadHooks(p)
      PROVE  (ApprovedIsReady /\ PutsBackReady)'
  BY <1>11 DEF Config!ReadHooks, Config!Look, Config!Fail, Config!HooksDone
<1>12. ASSUME NEW p \in Config!Procs, Config!CompareHooks(p)
      PROVE  (ApprovedIsReady /\ PutsBackReady)'
  BY <1>12 DEF Config!CompareHooks, Config!Fail
<1>13. ASSUME NEW p \in Config!Procs, Config!Merge(p)
      PROVE  (ApprovedIsReady /\ PutsBackReady)'
  BY <1>13 DEF Config!Merge, Config!HooksDone
<1>14. CASE Config!Decline
  BY <1>14 DEF Config!Decline
<1>15. CASE Config!Edit
  BY <1>15, EditIsSeen
<1>16. ASSUME NEW p \in Config!Procs, Config!StepFails(p)
      PROVE  (ApprovedIsReady /\ PutsBackReady)'
  BY <1>16 DEF Config!StepFails, Config!Fail
<1>17. CASE Config!UndoFails
  BY <1>17 DEF Config!UndoFails
<1>18. CASE Config!Crash
  BY <1>18 DEF Config!Crash
<1>19. CASE UNCHANGED Config!vars
  BY <1>19 DEF Config!vars
<1> QED
  BY <1>1, <1>2, <1>3, <1>4, <1>5, <1>6, <1>7, <1>8, <1>9, <1>10, <1>11, <1>12, <1>13,
    <1>14, <1>15, <1>16, <1>17, <1>18, <1>19 DEF Config!Next, Config!Configure,
    Config!Undo, Config!MergeHooks

\* The setup begins in its invariant.
LEMMA InitConfig == Config!Init => ConfigInv
<1> SUFFICES ASSUME Config!Init PROVE ConfigInv
  OBVIOUS
<1> USE RepositoriesAssumption DEF Config!Init, Config!Now
<1>1. ConfigShape
  BY DEF ConfigShape, Config!Optional, Config!Procs
<1>2. ApprovedIsReady /\ PutsBackReady /\ NoOtherApproval /\ PassedIsReady
  BY DEF ApprovedIsReady, PutsBackReady, NoOtherApproval, PassedIsReady, Config!Procs
<1> QED
  BY <1>1, <1>2 DEF ConfigInv

\* The invariant of the setup holds throughout.
THEOREM ConfigSafe == Config!Spec => []ConfigInv
<1>1. ConfigInv /\ [Config!Next]_(Config!vars) => ConfigInv'
  BY StepShape, StepOthers, StepPassed, StepReady DEF ConfigInv
<1> QED
  BY InitConfig, <1>1, PTL DEF Config!Spec

\* What is authorized is approved for the repository it uses.
LEMMA AuthorizedIsReady == ConfigInv => Config!AuthorizedIsSetUp
<1> SUFFICES ASSUME ConfigInv, remote = {ledger}, ~undone
             PROVE  config.is = "on" /\ hooks.is = "current"
  BY DEF Config!AuthorizedIsSetUp, Config!Authorized
<1>1. ledger \in Repositories
  BY DEF ConfigInv, ConfigShape, Config!Optional
<1> QED
  BY <1>1 DEF ConfigInv, ApprovedIsReady, Ready, On, InPlace

\* Where the processes are, and who has the lock.
RepairPcs == {"idle", "hooks", "compare", "merge"}
SetupPcs == RepairPcs \cup {"enable", "enabling", "remote", "consent", "undo ledger",
                            "undo remote", "undo hooks", "undo config"}
ConfigControl ==
  /\ DOMAIN cpc = Config!Procs
  /\ cpc["setup"] \in SetupPcs /\ cpc["repair"] \in RepairPcs
  /\ clock \in Config!Optional(Config!Procs)
  /\ result \in {"none", "configured", "rolled back", "incomplete"}
  /\ changed \in BOOLEAN /\ undone \in BOOLEAN
\* What is in the files, what was read of them and what is written back.
ConfigFiles ==
  /\ config \in Config!File(Config!Switch) /\ hooks \in Config!File(Config!Handlers)
  /\ remote \in Config!Optional(Repositories) /\ ledger \in Config!Consents
  /\ asked \in Config!Optional(Repositories)
  /\ before \in [config : Config!File(Config!Switch), hooks : Config!File(Config!Handlers),
                 remote : Config!Optional(Repositories), ledger : Config!Consents]
  /\ DOMAIN seen = Config!Procs
  /\ cpc["setup"] = "enabling" => seen["setup"] \in Config!File(Config!Switch)
  /\ \A p \in Config!Procs : cpc[p] \in {"compare", "merge"} =>
       seen[p] \in Config!File(Config!Handlers)
ConfigCounts ==
  /\ raced \in [Config!Procs -> SUBSET Config!Edits]
  /\ setups \in 0..MaxSetups /\ edits \in 0..ConfigEdits /\ cfaults \in 0..ConfigFaults

\* Nothing, or one of a set, is optional.
LEMMA OptionalConfig ==
  ASSUME NEW S
  PROVE  /\ {} \in Config!Optional(S) /\ \A x \in S : {x} \in Config!Optional(S)
         /\ \A T \in Config!Optional(S) : T \subseteq S /\ \A x : T \ {x} \in Config!Optional(S)
  BY DEF Config!Optional

\* Every step keeps the types of the control.
LEMMA StepConfigControl ==
  ASSUME ConfigControl, [Config!Next]_(Config!vars)
  PROVE  ConfigControl'
<1> USE OptionalConfig DEF Config!Goto, Config!files, Config!process, Config!history,
        Config!bounds, Config!Procs, ConfigControl, SetupPcs, RepairPcs
<1>1. ASSUME NEW r \in Repositories, Config!Setup(r) PROVE ConfigControl'
  BY <1>1 DEF Config!Setup, Config!Now
<1>2. CASE Config!Enable
  BY <1>2 DEF Config!Enable, Config!Look
<1>3. CASE Config!Enabled
  BY <1>3 DEF Config!Enabled
<1>4. CASE Config!WriteRemote
  BY <1>4 DEF Config!WriteRemote
<1>5. CASE Config!Approve
  BY <1>5 DEF Config!Approve
<1>6. CASE Config!UndoLedger
  BY <1>6 DEF Config!UndoLedger
<1>7. CASE Config!UndoRemote
  BY <1>7 DEF Config!UndoRemote
<1>8. CASE Config!UndoHooks
  BY <1>8 DEF Config!UndoHooks
<1>9. CASE Config!UndoConfig
  BY <1>9 DEF Config!UndoConfig
<1>10. CASE Config!Repair
  BY <1>10 DEF Config!Repair
<1>11. ASSUME NEW p \in Config!Procs, Config!ReadHooks(p) PROVE ConfigControl'
  <2>0. DOMAIN cpc = Config!Procs /\ clock \in Config!Optional(Config!Procs)
    BY DEF ConfigControl
  <2>1. \E l \in {"undo ledger", "remote", "compare", "merge", "idle"} :
          /\ cpc' = [cpc EXCEPT ![p] = l]
          /\ p = "repair" => l \in {"idle", "compare", "merge"}
    BY ONLY <1>11, p \in Config!Procs DEF Config!ReadHooks, Config!Look, Config!HooksDone,
         Config!Fail, Config!Goto, Config!Procs
  <2>2. clock' \in {clock, {p}, clock \ {p}} /\ UNCHANGED <<result, changed, undone>>
    BY ONLY <1>11 DEF Config!ReadHooks, Config!Look, Config!HooksDone,
         Config!Fail, Config!Goto, Config!history
  <2>3. clock' \in Config!Optional(Config!Procs)
    BY ONLY <2>0, <2>2, p \in Config!Procs, OptionalConfig
  <2>4. DOMAIN cpc' = Config!Procs
    BY <2>1
  <2>5. cpc'["setup"] \in SetupPcs
    <3>1. cpc'["setup"] \in {cpc["setup"], "undo ledger", "remote", "compare", "merge", "idle"}
      BY ONLY <2>0, <2>1 DEF Config!Procs
    <3> QED
      BY ONLY <3>1, ConfigControl DEF ConfigControl, SetupPcs, RepairPcs
  <2>6. cpc'["repair"] \in RepairPcs
    BY <2>1
  <2> QED
    BY <2>2, <2>3, <2>4, <2>5, <2>6
<1>12. ASSUME NEW p \in Config!Procs, Config!CompareHooks(p) PROVE ConfigControl'
  <2>0. DOMAIN cpc = Config!Procs /\ clock \in Config!Optional(Config!Procs)
    BY DEF ConfigControl
  <2>1. \E l \in {"undo ledger", "remote", "compare", "merge", "idle"} :
          /\ cpc' = [cpc EXCEPT ![p] = l]
          /\ p = "repair" => l \in {"idle", "compare", "merge"}
    BY ONLY <1>12, p \in Config!Procs DEF Config!CompareHooks, Config!Fail, Config!Goto,
         Config!Procs
  <2>2. clock' \in {clock, {p}, clock \ {p}} /\ UNCHANGED <<result, changed, undone>>
    BY ONLY <1>12 DEF Config!CompareHooks, Config!Fail, Config!Goto, Config!history
  <2>3. clock' \in Config!Optional(Config!Procs)
    BY ONLY <2>0, <2>2, p \in Config!Procs, OptionalConfig
  <2>4. DOMAIN cpc' = Config!Procs
    BY <2>1
  <2>5. cpc'["setup"] \in SetupPcs
    <3>1. cpc'["setup"] \in {cpc["setup"], "undo ledger", "remote", "compare", "merge", "idle"}
      BY ONLY <2>0, <2>1 DEF Config!Procs
    <3> QED
      BY ONLY <3>1, ConfigControl DEF ConfigControl, SetupPcs, RepairPcs
  <2>6. cpc'["repair"] \in RepairPcs
    BY <2>1
  <2> QED
    BY <2>2, <2>3, <2>4, <2>5, <2>6
<1>13. ASSUME NEW p \in Config!Procs, Config!Merge(p) PROVE ConfigControl'
  BY <1>13 DEF Config!Merge, Config!HooksDone
<1>14. CASE Config!Decline
  BY <1>14 DEF Config!Decline
<1>15. CASE Config!Edit
  BY <1>15 DEF Config!Edit
<1>16. ASSUME NEW p \in Config!Procs, Config!StepFails(p) PROVE ConfigControl'
  BY <1>16 DEF Config!StepFails, Config!Fail
<1>17. CASE Config!UndoFails
  BY <1>17 DEF Config!UndoFails
<1>18. CASE Config!Crash
  BY <1>18 DEF Config!Crash
<1>19. CASE UNCHANGED Config!vars
  BY <1>19 DEF Config!vars
<1> QED
  BY <1>1, <1>2, <1>3, <1>4, <1>5, <1>6, <1>7, <1>8, <1>9, <1>10, <1>11, <1>12, <1>13,
    <1>14, <1>15, <1>16, <1>17, <1>18, <1>19 DEF Config!Next, Config!Configure,
    Config!Undo, Config!MergeHooks

\* Every step keeps the types of the files.
LEMMA StepConfigFiles ==
  ASSUME ConfigControl, ConfigFiles, ConfigCounts, [Config!Next]_(Config!vars)
  PROVE  ConfigFiles'
<1> USE DEF Config!Goto, Config!files, Config!process, Config!history,
        Config!bounds,
        Config!Procs, ConfigControl, ConfigFiles
<1>a. ASSUME NEW V, NEW f \in Config!File(V), NEW v \in V
      PROVE  Config!As(f, v) \in Config!File(V)
  BY DEF Config!As, Config!File
<1>1. ASSUME NEW r \in Repositories, Config!Setup(r) PROVE ConfigFiles'
  BY <1>1, OptionalConfig DEF Config!Setup, Config!Now
<1>2. CASE Config!Enable
  BY <1>2 DEF Config!Enable, Config!Look
<1>3. CASE Config!Enabled
  BY <1>3, <1>a DEF Config!Enabled, Config!Switch
<1>4. CASE Config!WriteRemote
  BY <1>4 DEF Config!WriteRemote
<1>5. CASE Config!Approve
  <2>1. ledger' \in Config!Consents
    BY <1>5, OptionalConfig DEF Config!Approve, Config!Consents
  <2> QED
    BY <1>5, <2>1 DEF Config!Approve
<1>6. CASE Config!UndoLedger
  BY <1>6 DEF Config!UndoLedger
<1>7. CASE Config!UndoRemote
  BY <1>7 DEF Config!UndoRemote
<1>8. CASE Config!UndoHooks
  BY <1>8 DEF Config!UndoHooks
<1>9. CASE Config!UndoConfig
  BY <1>9 DEF Config!UndoConfig
<1>10. CASE Config!Repair
  BY <1>10 DEF Config!Repair
<1>11. ASSUME NEW p \in Config!Procs, Config!ReadHooks(p) PROVE ConfigFiles'
  BY <1>11 DEF Config!ReadHooks, Config!Look, Config!Fail, Config!HooksDone
<1>12. ASSUME NEW p \in Config!Procs, Config!CompareHooks(p) PROVE ConfigFiles'
  BY <1>12 DEF Config!CompareHooks, Config!Fail
<1>13. ASSUME NEW p \in Config!Procs, Config!Merge(p) PROVE ConfigFiles'
  BY <1>13, <1>a DEF Config!Merge, Config!HooksDone, Config!Handlers
<1>14. CASE Config!Decline
  BY <1>14 DEF Config!Decline, Config!Consents
<1>15. CASE Config!Edit
  <2>0. edits' \in Config!Edits
    <3>1. ConfigEdits \in Nat /\ edits \in 0..ConfigEdits
      BY DecisionsAssumption DEF ConfigCounts
    <3>2. edits < ConfigEdits /\ edits' = edits + 1
      BY ONLY <1>15 DEF Config!Edit
    <3> QED
      BY ONLY <3>1, <3>2 DEF Config!Edits
  <2>a. config \in Config!File(Config!Switch) /\ hooks \in Config!File(Config!Handlers)
    OBVIOUS
  <2>1. config' \in Config!File(Config!Switch)
    BY ONLY <1>15, <2>0, <2>a DEF Config!Edit, Config!File
  <2>2. hooks' \in Config!File(Config!Handlers)
    BY ONLY <1>15, <2>0, <2>a DEF Config!Edit, Config!File, Config!Handlers
  <2> QED
    BY <1>15, <2>1, <2>2 DEF Config!Edit
<1>16. ASSUME NEW p \in Config!Procs, Config!StepFails(p) PROVE ConfigFiles'
  BY <1>16 DEF Config!StepFails, Config!Fail
<1>17. CASE Config!UndoFails
  BY <1>17 DEF Config!UndoFails
<1>18. CASE Config!Crash
  BY <1>18 DEF Config!Crash
<1>19. CASE UNCHANGED Config!vars
  BY <1>19 DEF Config!vars
<1> QED
  BY <1>1, <1>2, <1>3, <1>4, <1>5, <1>6, <1>7, <1>8, <1>9, <1>10, <1>11, <1>12, <1>13,
    <1>14, <1>15, <1>16, <1>17, <1>18, <1>19 DEF Config!Next, Config!Configure,
    Config!Undo, Config!MergeHooks

\* Every step keeps the types of the history and the bounds.
LEMMA StepConfigCounts ==
  ASSUME ConfigCounts, [Config!Next]_(Config!vars)
  PROVE  ConfigCounts'
<1> USE DEF Config!history, Config!bounds, ConfigCounts
<1>a. MaxSetups \in Nat /\ ConfigEdits \in Nat /\ ConfigFaults \in Nat
  BY DecisionsAssumption
<1>1. ASSUME NEW r \in Repositories, Config!Setup(r) PROVE ConfigCounts'
  BY <1>1, <1>a DEF Config!Setup
<1>2. CASE Config!Enable
  BY <1>2 DEF Config!Enable, Config!Look
<1>3. CASE Config!Enabled
  BY <1>3 DEF Config!Enabled
<1>4. CASE Config!WriteRemote
  BY <1>4 DEF Config!WriteRemote
<1>5. CASE Config!Approve
  BY <1>5 DEF Config!Approve
<1>6. CASE Config!UndoLedger
  BY <1>6 DEF Config!UndoLedger
<1>7. CASE Config!UndoRemote
  BY <1>7 DEF Config!UndoRemote
<1>8. CASE Config!UndoHooks
  BY <1>8 DEF Config!UndoHooks
<1>9. CASE Config!UndoConfig
  BY <1>9 DEF Config!UndoConfig
<1>10. CASE Config!Repair
  BY <1>10 DEF Config!Repair
<1>11. ASSUME NEW p \in Config!Procs, Config!ReadHooks(p) PROVE ConfigCounts'
  BY <1>11 DEF Config!ReadHooks, Config!Look, Config!Fail, Config!HooksDone
<1>12. ASSUME NEW p \in Config!Procs, Config!CompareHooks(p) PROVE ConfigCounts'
  BY <1>12 DEF Config!CompareHooks, Config!Fail
<1>13. ASSUME NEW p \in Config!Procs, Config!Merge(p) PROVE ConfigCounts'
  BY <1>13 DEF Config!Merge, Config!HooksDone
<1>14. CASE Config!Decline
  BY <1>14 DEF Config!Decline
<1>15. CASE Config!Edit
  <2>1. edits' \in Config!Edits /\ edits' \in 0..ConfigEdits
    BY <1>15, <1>a DEF Config!Edit, Config!Edits
  <2>2. raced' \in [Config!Procs -> SUBSET Config!Edits]
    BY <1>15, <2>1 DEF Config!Edit
  <2> QED
    BY <1>15, <2>1, <2>2 DEF Config!Edit
<1>16. ASSUME NEW p \in Config!Procs, Config!StepFails(p) PROVE ConfigCounts'
  <2>1. cfaults' \in 0..ConfigFaults
    <3>1. cfaults \in 0..ConfigFaults
      OBVIOUS
    <3>2. cfaults < ConfigFaults /\ cfaults' = cfaults + 1
      BY ONLY <1>16 DEF Config!StepFails
    <3> QED
      BY ONLY <1>a, <3>1, <3>2
  <2>2. UNCHANGED <<raced, setups, edits>>
    BY <1>16 DEF Config!StepFails
  <2> QED
    BY <2>1, <2>2
<1>17. CASE Config!UndoFails
  <2>1. cfaults' \in 0..ConfigFaults
    <3>1. cfaults \in 0..ConfigFaults
      OBVIOUS
    <3>2. cfaults < ConfigFaults /\ cfaults' = cfaults + 1
      BY ONLY <1>17 DEF Config!UndoFails
    <3> QED
      BY ONLY <1>a, <3>1, <3>2
  <2>2. UNCHANGED <<raced, setups, edits>>
    BY <1>17 DEF Config!UndoFails
  <2> QED
    BY <2>1, <2>2
<1>18. CASE Config!Crash
  BY <1>18, <1>a DEF Config!Crash
<1>19. CASE UNCHANGED Config!vars
  BY <1>19 DEF Config!vars
<1> QED
  BY <1>1, <1>2, <1>3, <1>4, <1>5, <1>6, <1>7, <1>8, <1>9, <1>10, <1>11, <1>12, <1>13,
    <1>14, <1>15, <1>16, <1>17, <1>18, <1>19 DEF Config!Next, Config!Configure,
    Config!Undo, Config!MergeHooks

\* The setup begins in its types.
LEMMA InitConfigTypes == Config!Init => ConfigControl /\ ConfigFiles /\ ConfigCounts
<1> SUFFICES ASSUME Config!Init PROVE ConfigControl /\ ConfigFiles /\ ConfigCounts
  OBVIOUS
<1> USE DEF Config!Init
<1>1. ConfigControl
  BY OptionalConfig DEF ConfigControl, SetupPcs, RepairPcs, Config!Procs
<1>2. config \in Config!File(Config!Switch) /\ hooks \in Config!File(Config!Handlers)
  BY DEF Config!File
<1>3. ConfigFiles
  <2>1. remote \in Config!Optional(Repositories) /\ asked \in Config!Optional(Repositories)
        /\ ledger \in Config!Consents
    BY OptionalConfig DEF Config!Consents
  <2>2. before \in [config : Config!File(Config!Switch), hooks : Config!File(Config!Handlers),
                    remote : Config!Optional(Repositories), ledger : Config!Consents]
    BY <1>2, <2>1 DEF Config!Now
  <2>3. DOMAIN seen = Config!Procs /\ \A p \in Config!Procs : cpc[p] = "idle"
    OBVIOUS
  <2> QED
    BY <1>2, <2>1, <2>2, <2>3 DEF ConfigFiles, Config!Procs
<1>4. ConfigCounts
  BY DecisionsAssumption DEF ConfigCounts
<1> QED
  BY <1>1, <1>3, <1>4

\* The files, the hooks, the consent and the processes of the setup keep their types.
THEOREM ConfigTyped == Config!Spec => []Config!TypeOK
<1> DEFINE I == ConfigControl /\ ConfigFiles /\ ConfigCounts
<1>1. I /\ [Config!Next]_(Config!vars) => I'
  BY StepConfigControl, StepConfigFiles, StepConfigCounts
<1>2. I => Config!TypeOK
  BY DEF ConfigControl, SetupPcs, RepairPcs, ConfigFiles, ConfigCounts,
     Config!TypeOK
<1> HIDE DEF I
<1>3. Config!Init => I
  BY InitConfigTypes DEF I
<1> QED
  BY <1>1, <1>2, <1>3, PTL DEF Config!Spec

-----------------------------------------------------------------------------
(* Alerts. *)

\* What was shown last is in the receipt, or something new has been told since.
LastIsEmitted == last \in {{}, emitted}
\* Who shows an alert holds the lock, and it is not the one that was shown last.
ShowsAnother ==
  \A s \in Sessions : /\ hpc[s] \in {"notice", "emit"} => alert[s] # {}
                      /\ hpc[s] = "emit" => hlock = {s} /\ last # alert[s]
HealthShape == /\ DOMAIN hpc = Reporters \cup Sessions /\ DOMAIN alert = Sessions
               /\ DOMAIN prior = Sessions
\* There is one alert at a time.
OneAtATime == /\ last \in Health!Optional(Health!Ids) /\ conflict \in Health!Optional(Conflicts)
              /\ \A s \in Sessions : alert[s] \in Health!Optional(Health!Ids)
HealthInv == HealthShape /\ OneAtATime /\ LastIsEmitted /\ ShowsAnother /\ Health!ShownOnce

\* Every step keeps the types, and there is one alert at a time.
LEMMA StepOneAlert ==
  ASSUME HealthShape, OneAtATime, [Health!Next]_(Health!vars)
  PROVE  (HealthShape /\ OneAtATime)'
<1> USE DEF Health!Goto, Health!files, Health!session, Health!history, Health!bounds,
        HealthShape, OneAtATime
<1>1. ASSUME NEW r \in Reporters, Health!Reconciled(r) PROVE (HealthShape /\ OneAtATime)'
  BY <1>1 DEF Health!Reconciled, Health!Optional, Health!Ids
<1>2. ASSUME NEW r \in Reporters, Health!Report(r) PROVE (HealthShape /\ OneAtATime)'
  BY <1>2 DEF Health!Report
<1>3. ASSUME NEW r \in Reporters, Health!Clear(r) PROVE (HealthShape /\ OneAtATime)'
  BY <1>3 DEF Health!Clear, Health!Optional, Health!Ids
<1>4. ASSUME NEW s \in Sessions, Health!Start(s) PROVE (HealthShape /\ OneAtATime)'
  <2>1. HealthShape'
    BY <1>4 DEF Health!Start
  <2>2. Health!Active \in Health!Optional(Health!Ids)
    BY DEF Health!Active, Health!Optional, Health!Ids
  <2> QED
    BY <1>4, <2>1, <2>2 DEF Health!Start
<1>5. ASSUME NEW s \in Sessions, Health!EmitBusy(s) PROVE (HealthShape /\ OneAtATime)'
  BY <1>5 DEF Health!EmitBusy
<1>6. ASSUME NEW s \in Sessions, Health!LookLocked(s) PROVE (HealthShape /\ OneAtATime)'
  BY <1>6 DEF Health!LookLocked, Health!Look
<1>7. ASSUME NEW s \in Sessions, Health!Emit(s) PROVE (HealthShape /\ OneAtATime)'
  BY <1>7 DEF Health!Emit
<1>8. ASSUME NEW a \in Health!Ids, Health!Acknowledge(a) PROVE (HealthShape /\ OneAtATime)'
  BY <1>8 DEF Health!Acknowledge, Health!Optional, Health!Ids
<1>9. CASE UNCHANGED Health!vars
  BY <1>9 DEF Health!vars
<1> QED
  BY <1>1, <1>2, <1>3, <1>4, <1>5, <1>6, <1>7, <1>8, <1>9 DEF Health!Next,
    Health!ReporterStep, Health!SessionStep

\* What is shown is read from the receipt under the lock that its writer holds.
LEMMA StepAlerts ==
  ASSUME HealthShape, OneAtATime, LastIsEmitted, ShowsAnother, Health!ShownOnce,
         [Health!Next]_(Health!vars)
  PROVE  (LastIsEmitted /\ ShowsAnother /\ Health!ShownOnce)'
<1> USE DEF Health!Goto, Health!files, Health!session, Health!history, Health!bounds,
        HealthShape, LastIsEmitted, ShowsAnother, Health!ShownOnce
<1>1. ASSUME NEW r \in Reporters, Health!Reconciled(r)
      PROVE  (LastIsEmitted /\ ShowsAnother /\ Health!ShownOnce)'
  BY <1>1 DEF Health!Reconciled
<1>2. ASSUME NEW r \in Reporters, Health!Report(r)
      PROVE  (LastIsEmitted /\ ShowsAnother /\ Health!ShownOnce)'
  BY <1>2 DEF Health!Report
<1>3. ASSUME NEW r \in Reporters, Health!Clear(r)
      PROVE  (LastIsEmitted /\ ShowsAnother /\ Health!ShownOnce)'
  BY <1>3 DEF Health!Clear
<1>4. ASSUME NEW s \in Sessions, Health!Start(s)
      PROVE  (LastIsEmitted /\ ShowsAnother /\ Health!ShownOnce)'
  BY <1>4 DEF Health!Start
<1>5. ASSUME NEW s \in Sessions, Health!EmitBusy(s)
      PROVE  (LastIsEmitted /\ ShowsAnother /\ Health!ShownOnce)'
  BY <1>5 DEF Health!EmitBusy
<1>6. ASSUME NEW s \in Sessions, Health!LookLocked(s)
      PROVE  (LastIsEmitted /\ ShowsAnother /\ Health!ShownOnce)'
  BY <1>6 DEF Health!LookLocked, Health!Look
<1>7. ASSUME NEW s \in Sessions, Health!Emit(s)
      PROVE  (LastIsEmitted /\ ShowsAnother /\ Health!ShownOnce)'
  BY <1>7 DEF Health!Emit
<1>8. ASSUME NEW a \in Health!Ids, Health!Acknowledge(a)
      PROVE  (LastIsEmitted /\ ShowsAnother /\ Health!ShownOnce)'
  <2>1. last' \in {{}, last} /\ last' \in {{}, emitted'} /\ hpc' = hpc /\ alert' = alert
    BY <1>8 DEF Health!Acknowledge, OneAtATime, Health!Optional
  <2>2. hlock' = hlock /\ repeated' = repeated
    BY <1>8 DEF Health!Acknowledge
  <2> QED
    BY <2>1, <2>2
<1>9. CASE UNCHANGED Health!vars
  BY <1>9 DEF Health!vars
<1> QED
  BY <1>1, <1>2, <1>3, <1>4, <1>5, <1>6, <1>7, <1>8, <1>9 DEF Health!Next,
    Health!ReporterStep, Health!SessionStep

\* The alerts begin in their invariant.
LEMMA InitHealth == Health!Init => HealthInv
  BY DEF Health!Init, HealthInv, HealthShape, OneAtATime, LastIsEmitted, ShowsAnother,
     Health!ShownOnce, Health!Optional, Health!Procs

\* The invariant of the alerts holds throughout.
THEOREM HealthSafe == Health!Spec => []HealthInv
<1>1. HealthInv /\ [Health!Next]_(Health!vars) => HealthInv'
  BY StepOneAlert, StepAlerts DEF HealthInv
<1> QED
  BY InitHealth, <1>1, PTL DEF Health!Spec

\* Every step keeps the types of the alerts.
LEMMA StepHealthTypes ==
  ASSUME Health!TypeOK, [Health!Next]_(Health!vars)
  PROVE  Health!TypeOK'
<1> USE DEF Health!Goto, Health!files, Health!session, Health!history, Health!bounds,
        Health!TypeOK, Health!Ids, Health!Procs
<1>a. Health!Active \in Health!Optional(Health!Ids)
  BY DEF Health!Active, Health!Optional
<1>b. /\ {} \in Health!Optional(Health!Ids)
      /\ \A a \in Health!Ids : {a} \in Health!Optional(Health!Ids)
      /\ {} \in Health!Optional(Conflicts)
      /\ \A k \in Conflicts : {k} \in Health!Optional(Conflicts)
      /\ \A s \in Sessions : {s} \in Health!Optional(Sessions)
      /\ {} \in Health!Optional(Sessions)
      /\ \A S \in Health!Optional(Health!Ids) : S \subseteq Health!Ids
  BY DEF Health!Optional
<1>1. ASSUME NEW r \in Reporters, Health!Reconciled(r) PROVE Health!TypeOK'
  BY <1>1, <1>b DEF Health!Reconciled
<1>2. ASSUME NEW r \in Reporters, Health!Report(r) PROVE Health!TypeOK'
  BY <1>2, <1>b DEF Health!Report
<1>3. ASSUME NEW r \in Reporters, Health!Clear(r) PROVE Health!TypeOK'
  BY <1>3, <1>b DEF Health!Clear
<1>4. ASSUME NEW s \in Sessions, Health!Start(s) PROVE Health!TypeOK'
  BY <1>4, <1>a DEF Health!Start
<1>5. ASSUME NEW s \in Sessions, Health!EmitBusy(s) PROVE Health!TypeOK'
  BY <1>5 DEF Health!EmitBusy
<1>6. ASSUME NEW s \in Sessions, Health!LookLocked(s) PROVE Health!TypeOK'
  BY <1>6, <1>b DEF Health!LookLocked, Health!Look
<1>7. ASSUME NEW s \in Sessions, Health!Emit(s) PROVE Health!TypeOK'
  BY <1>7, <1>b DEF Health!Emit
<1>8. ASSUME NEW a \in Health!Ids, Health!Acknowledge(a) PROVE Health!TypeOK'
  <2>1. last' \in Health!Optional(Health!Ids)
    BY <1>8 DEF Health!Acknowledge, Health!Optional
  <2> QED
    BY <1>8, <1>b, <2>1 DEF Health!Acknowledge
<1>9. CASE UNCHANGED Health!vars
  BY <1>9 DEF Health!vars
<1> QED
  BY <1>1, <1>2, <1>3, <1>4, <1>5, <1>6, <1>7, <1>8, <1>9 DEF Health!Next,
    Health!ReporterStep, Health!SessionStep
\* The alerts begin in their types.
LEMMA InitHealthTypes == Health!Init => Health!TypeOK
<1> SUFFICES ASSUME Health!Init PROVE Health!TypeOK
  OBVIOUS
<1> USE DEF Health!Init
<1>1. /\ {} \in Health!Optional(Conflicts) /\ {} \in Health!Optional(Sessions)
      /\ {} \in Health!Optional(Health!Ids)
  BY DEF Health!Optional
<1>2. prior \in [Sessions -> Health!Optional(Health!Ids) \X Health!Optional(Health!Ids)]
  BY <1>1
<1> QED
  BY <1>1, <1>2 DEF Health!TypeOK, Health!Procs

\* Reports, alerts and the sessions that show them keep their types.
THEOREM HealthTyped == Health!Spec => []Health!TypeOK
<1>1. Health!TypeOK /\ [Health!Next]_(Health!vars) => Health!TypeOK'
  BY StepHealthTypes
<1> QED
  BY InitHealthTypes, <1>1, PTL DEF Health!Spec

-----------------------------------------------------------------------------
(* The system. *)

\* A behaviour of the system is one of every module.
LEMMA IsReplace == AllSpec => Replace!Spec
<1>1. [AllNext]_all => [Replace!Next]_(Replace!vars)
  BY DEF AllNext, all, replaceVars, Replace!vars, Replace!disk, Replace!run,
     Replace!history, Replace!bounds
<1> QED
  BY <1>1, PTL DEF AllSpec, AllInit, Replace!Spec
LEMMA IsMigration == AllSpec => Migration!Spec
<1>1. [AllNext]_all => [Migration!Next]_(Migration!vars)
  BY DEF AllNext, all, migrationVars, Migration!vars, Migration!disk, Migration!history,
     Migration!bounds
<1> QED
  BY <1>1, PTL DEF AllSpec, AllInit, Migration!Spec
LEMMA IsConfig == AllSpec => Config!Spec
<1>1. [AllNext]_all => [Config!Next]_(Config!vars)
  BY DEF AllNext, all, configVars, Config!vars, Config!files, Config!process,
     Config!history, Config!bounds
<1> QED
  BY <1>1, PTL DEF AllSpec, AllInit, Config!Spec
LEMMA IsHealth == AllSpec => Health!Spec
<1>1. [AllNext]_all => [Health!Next]_(Health!vars)
  BY DEF AllNext, all, healthVars, Health!vars, Health!files, Health!session,
     Health!history, Health!bounds
<1> QED
  BY <1>1, PTL DEF AllSpec, AllInit, Health!Spec

\* No edit of the native writer is lost, wherever a replacement of the memories stops and
\* whether the writer goes through the path or through a file it had opened before.
THEOREM EditsStay == AllSpec => []NoEditLost
<1>1. ReplaceInv => NoEditLost
  BY DEF ReplaceInv, EditsKept, Kept, NoEditLost, Replace!NoEditLost
<1> QED
  BY IsReplace, ReplaceSafe, <1>1, PTL

\* However commands are interrupted and repeated: once the migration is marked as done,
\* baseline, conflict and demand of the legacy state came over or gave way to those of this
\* program; a conflict that was closed does not come back from there, whether its user
\* resolved it or a later reconciliation removed or replaced it; and demand recorded here
\* is not replaced.
THEOREM MigratesSafely == AllSpec => []MigratesOnce
<1>1. MigrationInv => MigratesOnce
  BY DEF MigrationInv, MigratesOnce
<1> QED
  BY IsMigration, MigrationSafe, <1>1, PTL

\* Wherever setups, rollbacks, repairs and refusals stop, what runs with an approval has
\* the memories on and the handlers in place, unless somebody has changed them since.
THEOREM ApprovedIsSetUp == AllSpec => []AuthorizedIsSetUp
<1>1. ConfigInv => AuthorizedIsSetUp
  BY AuthorizedIsReady DEF AuthorizedIsSetUp
<1> QED
  BY IsConfig, ConfigSafe, <1>1, PTL

\* Sessions that look at the same alert, while reports come and the user acknowledges
\* without the lock, show it once.
THEOREM AlertsOnce == AllSpec => []ShownOnce
<1>1. HealthInv => ShownOnce
  BY DEF HealthInv, ShownOnce
<1> QED
  BY IsHealth, HealthSafe, <1>1, PTL

\* The files, the processes and what is remembered of them keep their types.
THEOREM FilesTyped ==
  AllSpec => [](Replace!TypeOK /\ Migration!TypeOK /\ Config!TypeOK /\ Health!TypeOK)
BY IsReplace, ReplaceTyped, IsMigration, MigrationTyped, IsConfig, ConfigTyped, IsHealth,
   HealthTyped, PTL
=============================================================================
