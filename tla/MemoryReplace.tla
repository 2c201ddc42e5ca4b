---------------------------- MODULE MemoryReplace ----------------------------
(***************************************************************************)
(* Replacing the memories directory by a snapshot while the native writer, *)
(* which takes no lock, goes on writing: through the path of the directory,*)
(* or through a file it opened before the directory was moved.             *)
(* Source: restore_snapshot in source/memory/src/remote.rs, and            *)
(* replace_memories_if_unchanged, verify_local_unchanged and               *)
(* capture_local_only_files in source/memory/src/lib.rs.                   *)
(*                                                                         *)
(* Module MemorySync takes the whole replacement as one step.  A directory *)
(* holds the edits of its synchronized files and of its index: the three   *)
(* files that stay on this computer.                                       *)
(***************************************************************************)
EXTENDS Naturals

CONSTANTS MaxEdits,   \* bound: edits by the native writer
          MaxRuns,    \* bound: reconciliations that replace the directory
          MaxFaults,  \* bound: crashes and failing file operations
          Writers     \* native writers with a file open

VARIABLES live,      \* the directory at memories, or none
          content,   \* of every directory there ever was
          kept,      \* the directories moved aside as before-sync
          open,      \* writer -> the directory its open file is in
          pc,
          cap,       \* what the run captured: no directory, or its files
          index,     \* the index files it carries over
          stage,     \* the directory it prepares
          old,       \* the directory it moved aside
          result,
          handed,    \* history: edits that runs captured, for the caller to merge
          told,      \* history: edits that runs reported as set aside
          late,      \* history: edits into a directory moved aside, after its last check
          runs, edits, faults

disk == <<live, content, kept, open>>
run == <<pc, cap, index, stage, old, result>>
history == <<handed, told, late>>
bounds == <<runs, edits, faults>>
vars == <<disk, run, history, bounds>>

Edits == 1..MaxEdits
Directory == [files : SUBSET Edits, index : SUBSET Edits]
Ids == 0..(MaxRuns + MaxEdits)
Optional(S) == {{}} \cup {{x} : x \in S}

TypeOK ==
  /\ live \in Optional(Ids) /\ kept \subseteq Ids /\ live \cap kept = {}
  /\ content \in [Ids -> Directory] /\ open \in [Writers -> Optional(Ids)]
  /\ pc \in {"idle", "verify", "carry", "reverify", "move", "moved", "undo", "install",
             "recheck"}
  /\ cap \in Optional(SUBSET Edits) /\ index \in SUBSET Edits
  /\ stage \in Optional(Ids) /\ old \in Optional(kept)
  /\ result \in {"none", "ok", "error"}
  /\ handed \subseteq Edits /\ told \subseteq Edits /\ late \subseteq Edits
  /\ runs \in 0..MaxRuns /\ edits \in 0..MaxEdits /\ faults \in Nat

New(f, i) == [files |-> f, index |-> i]
Init ==
  /\ live = {0} /\ content = [d \in Ids |-> New({}, {})] /\ kept = {}
  /\ open = [w \in Writers |-> {}]
  /\ pc = "idle" /\ cap = {} /\ index = {} /\ stage = {} /\ old = {} /\ result = "none"
  /\ handed = {} /\ told = {} /\ late = {} /\ runs = 0 /\ edits = 0 /\ faults = 0

Used == runs + edits   \* every run and every edit makes at most one directory
Files(D) == {content[d].files : d \in D}
Index(D) == UNION {content[d].index : d \in D}
Goto(p) == pc' = p /\ UNCHANGED result
End(r) == pc' = "idle" /\ result' = r
In(D) == UNION {content[d].files \cup content[d].index : d \in D}

\* The error names the directory that was moved aside.
Report == End("error") /\ told' = told \cup In(old)

-----------------------------------------------------------------------------
(* The replacement. *)

\* The caller has captured the directory it decides upon: what it captured is part
\* of the snapshot it installs.
Begin ==
  /\ pc = "idle" /\ runs < MaxRuns
  /\ runs' = runs + 1 /\ pc' = "verify" /\ result' = "none"
  /\ cap' = Files(live) /\ handed' = handed \cup UNION cap'
  /\ stage' = {Used + 1} /\ content' = [content EXCEPT ![Used + 1] = New({}, {})]
  /\ index' = {} /\ old' = {}
  /\ UNCHANGED <<live, kept, open, told, late, edits, faults>>

\* verify_local_unchanged: the captured files, or still no directory.
Verify ==
  /\ pc = "verify"
  /\ IF Files(live) = cap THEN Goto("carry") ELSE End("error")
  /\ UNCHANGED <<disk, cap, index, stage, old, history, bounds>>

Carry ==
  /\ pc = "carry"
  /\ index' = Index(live)
  /\ content' = [d \in Ids |-> IF d \in stage THEN New({}, index') ELSE content[d]]
  /\ Goto("reverify")
  /\ UNCHANGED <<live, kept, open, cap, stage, old, history, bounds>>

Reverify ==
  /\ pc = "reverify"
  /\ IF Index(live) # index THEN End("error") ELSE Goto(IF cap = {} THEN "install" ELSE "move")
  /\ UNCHANGED <<disk, cap, index, stage, old, history, bounds>>

Move ==
  /\ pc = "move"
  /\ old' = live /\ kept' = kept \cup live /\ live' = {}
  /\ Goto("moved")
  /\ UNCHANGED <<content, open, cap, index, stage, history, bounds>>

\* The directory that was moved is compared, not the one that was looked at before.
AsCaptured(D) == Files(D) = cap /\ Index(D) = index
Moved ==
  /\ pc = "moved"
  /\ \/ AsCaptured(old) /\ Goto("install") /\ UNCHANGED told
     \/ ~AsCaptured(old) /\ live = {} /\ Goto("undo") /\ UNCHANGED told
     \/ ~AsCaptured(old) /\ live # {} /\ Report
  /\ UNCHANGED <<disk, cap, index, stage, old, handed, late, bounds>>

\* The rename back fails when the directory is there again.
Undo ==
  /\ pc = "undo"
  /\ IF live = {} THEN live' = old /\ kept' = kept \ old ELSE UNCHANGED <<live, kept>>
  /\ old' = {}
  /\ Report
  /\ UNCHANGED <<content, open, cap, index, stage, handed, late, bounds>>

\* Broken variant: a directory that is there meanwhile is overwritten.
InstallAnyway ==
  /\ pc = "install"
  /\ live' = stage /\ Goto("recheck")
  /\ UNCHANGED <<content, kept, open, cap, index, stage, old, history, bounds>>
\* A directory that another writer made meanwhile is never overwritten.
Install ==
  /\ pc = "install"
  /\ IF live = {} THEN live' = stage /\ Goto("recheck") /\ UNCHANGED told
                  ELSE Report /\ UNCHANGED live
  /\ UNCHANGED <<content, kept, open, cap, index, stage, old, handed, late, bounds>>

\* A file open in the old directory may have been written to: the run says so.
Recheck ==
  /\ pc = "recheck"
  /\ IF old = {} \/ AsCaptured(old) THEN End("ok") /\ UNCHANGED told ELSE Report
  /\ UNCHANGED <<disk, cap, index, stage, old, handed, late, bounds>>

\* The snapshot cannot be installed: the old directory returns.
InstallFails ==
  /\ pc = "install" /\ faults < MaxFaults /\ faults' = faults + 1
  /\ IF old # {} /\ live = {} THEN Goto("undo") /\ UNCHANGED told ELSE Report
  /\ UNCHANGED <<disk, cap, index, stage, old, handed, late, runs, edits>>

StepFails ==
  /\ pc \in {"verify", "carry", "reverify", "move", "recheck"}
  /\ faults < MaxFaults /\ faults' = faults + 1
  /\ Report
  /\ UNCHANGED <<disk, cap, index, stage, old, handed, late, runs, edits>>

\* The process dies, or the rename back fails.
Crash ==
  /\ pc # "idle" /\ faults < MaxFaults /\ faults' = faults + 1
  /\ End("none")
  /\ UNCHANGED <<disk, cap, index, stage, old, history, runs, edits>>

-----------------------------------------------------------------------------
(* The native writer. *)

Write(d) ==
  /\ edits < MaxEdits /\ edits' = edits + 1
  /\ \/ content' = [content EXCEPT ![d].files = @ \cup {edits'}]
     \/ content' = [content EXCEPT ![d].index = @ \cup {edits'}]

Open(w) ==
  /\ open[w] = {} /\ open' = [open EXCEPT ![w] = live]
  /\ UNCHANGED <<live, content, kept, run, history, bounds>>

\* Through the open file, wherever its directory is now.
WriteOpen(w) ==
  /\ \E d \in open[w] :
       /\ Write(d)
       /\ late' = IF d \in kept /\ (pc = "idle" \/ d \notin old) THEN late \cup {edits'} ELSE late
  /\ open' = [open EXCEPT ![w] = {}]
  /\ UNCHANGED <<live, kept, run, handed, told, runs, faults>>

\* Through the path.
WritePath ==
  /\ \E d \in live : Write(d)
  /\ UNCHANGED <<live, kept, open, run, history, runs, faults>>

\* The directory is gone: the writer makes it again.
Recreate ==
  /\ live = {} /\ edits < MaxEdits /\ edits' = edits + 1
  /\ live' = {Used + 1}
  /\ content' = [content EXCEPT ![Used + 1] = New({edits'}, {})]
  /\ UNCHANGED <<kept, open, run, history, runs, faults>>

Replace ==
  \/ Begin \/ Verify \/ Carry \/ Reverify \/ Move \/ Moved \/ Undo \/ Install \/ Recheck
Faults == InstallFails \/ StepFails \/ Crash
Native == (\E w \in Writers : Open(w) \/ WriteOpen(w)) \/ WritePath \/ Recreate
Next == Replace \/ Faults \/ Native
Spec == Init /\ [][Next]_vars

-----------------------------------------------------------------------------
(* Properties. *)

\* No edit is lost: it is in the memories directory or in one that was moved aside and
\* kept, or the run had captured it.
AllEdits == 1..edits
NoEditLost == AllEdits \subseteq In(live \cup kept) \cup handed

\* A run that reports success has set nothing aside without a word: every edit is in
\* the memories directory, or was captured, or reported by an earlier run, but for
\* those that reached a moved directory after its last check.
NothingSetAside == result = "ok" => AllEdits \subseteq In(live) \cup handed \cup told \cup late
=============================================================================
