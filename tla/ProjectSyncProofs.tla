-------------------------- MODULE ProjectSyncProofs --------------------------
(***************************************************************************)
(* Proofs about ProjectSync, for any number of commands, paths, versions,  *)
(* edits and faults: type correctness, that edits survive, that a rollback *)
(* restores what it reports, and that no path falls behind the stamp.      *)
(***************************************************************************)
EXTENDS ProjectSync, TLAPS

USE PathsAssumption, BoundsAssumption

Actions(p) == Run(p) \/ StepFails(p) \/ RestoreFails(p) \/ Crash(p)

-----------------------------------------------------------------------------
(* Type correctness. *)

\* What the steps of a command do to the loop they are in.
Labels == {"idle", "shown", "lock", "check", "write", "put", "delete", "remove", "stamp",
           "putstamp", "final", "undo", "restore"}
LEMMA ExitTypes ==
  ASSUME TypeOK, NEW p \in Procs, Exit(p)
  PROVE  /\ pc' \in [Procs -> Labels]
         /\ target' \in [Procs -> Contents] /\ plan' \in [Procs -> [Paths -> Contents]]
         /\ todo' \in [Procs -> SUBSET Paths] /\ at' \in [Procs -> Paths]
         /\ done' \in [Procs -> SUBSET Paths] /\ errs' \in [Procs -> SUBSET Paths]
<1>1. Gone \in Contents /\ [q \in Paths |-> Gone] \in [Paths -> Contents]
  BY DEF Gone, Contents
<1>2. pc' \in [Procs -> Labels]
  BY DEF Exit, Goto, TypeOK, Labels
<1>3. target' \in [Procs -> Contents]
  BY <1>1 DEF Exit, TypeOK
<1>4. plan' \in [Procs -> [Paths -> Contents]]
  BY <1>1 DEF Exit, TypeOK
<1>5. todo' \in [Procs -> SUBSET Paths] /\ at' \in [Procs -> Paths]
  BY DEF Exit, TypeOK
<1>6. done' \in [Procs -> SUBSET Paths] /\ errs' \in [Procs -> SUBSET Paths]
  BY DEF Exit, TypeOK
<1>. QED BY <1>2, <1>3, <1>4, <1>5, <1>6

LEMMA FailTypes ==
  ASSUME TypeOK, NEW p \in Procs, Fail(p)
  PROVE  todo' \in [Procs -> SUBSET Paths] /\ pc' \in [Procs -> Labels]
<1>1. Writes(p) \cup Deletes(p) \cup {Stamp} \in SUBSET Paths
  BY DEF Writes, Deletes
<1>. QED BY <1>1 DEF Fail, Goto, TypeOK, Labels

LEMMA PassTypes ==
  ASSUME TypeOK, NEW p \in Procs, NEW q \in Paths, NEW r \in SUBSET Paths, Pass(p, q, r)
  PROVE  /\ pc' \in [Procs -> Labels]
         /\ todo' \in [Procs -> SUBSET Paths] /\ errs' \in [Procs -> SUBSET Paths]
<1>1. todo[p] \ {q} \in SUBSET Paths /\ errs[p] \cup r \in SUBSET Paths
  BY DEF TypeOK
<1>. QED BY <1>1 DEF Pass, Goto, TypeOK, Labels

\* The end of a transaction, as far as its types go.
LEMMA EndTypes ==
  ASSUME TypeOK, NEW p \in Procs, NEW r \in {"none", "applied", "rolledback", "incomplete"},
         End(p, r), UNCHANGED <<file, ghosts, bounds>>
  PROVE  TypeOK'
<1>1. errs[p] \subseteq Paths
  BY DEF TypeOK
<1>2. told' \subseteq Paths /\ result' \in {"none", "applied", "rolledback", "incomplete"}
  BY <1>1 DEF End, TypeOK
<1>3. lock' \subseteq Procs /\ (\A x, y \in lock' : x = y)
  BY DEF End, TypeOK
<1>4. /\ file' \in [Paths -> Contents]
      /\ raced' \subseteq Edits /\ cut' \in BOOLEAN /\ edits' \in 0..MaxEdits /\ faults' \in Nat
  BY DEF TypeOK, ghosts, bounds
<1>. QED BY <1>2, <1>3, <1>4, ExitTypes DEF TypeOK, End, Labels

LEMMA WantedType ==
  ASSUME TypeOK, NEW p \in Procs, NEW q \in Paths
  PROVE  Wanted(p, q) \in Contents
BY DEF TypeOK, Wanted, Want, Gone, Contents

LEMMA Updated ==
  ASSUME NEW S, NEW T, NEW f \in [S -> T], NEW x, NEW y \in T
  PROVE  [f EXCEPT ![x] = y] \in [S -> T]
OBVIOUS

LEMMA ChangeTypes ==
  ASSUME TypeOK, NEW p \in Procs, NEW l \in Labels, Change(p, l)
  PROVE  /\ file' \in [Paths -> Contents] /\ pc' \in [Procs -> Labels]
         /\ done' \in [Procs -> SUBSET Paths] /\ todo' \in [Procs -> SUBSET Paths]
<1> DEFINE q == at[p]  w == Wanted(p, q)  d == done[p] \cup {q}  t == todo[p] \ {q}
<1>1. q \in Paths
  BY DEF TypeOK
<1>2. w \in Contents
  BY <1>1, WantedType
<1>3. d \in SUBSET Paths /\ t \in SUBSET Paths
  BY <1>1 DEF TypeOK
<1>4. /\ file' = [file EXCEPT ![q] = w] /\ done' = [done EXCEPT ![p] = d]
      /\ todo' = [todo EXCEPT ![p] = t] /\ pc' = [pc EXCEPT ![p] = l]
  BY DEF Change, Goto
<1>5. /\ file \in [Paths -> Contents] /\ pc \in [Procs -> Labels]
      /\ done \in [Procs -> SUBSET Paths] /\ todo \in [Procs -> SUBSET Paths]
  BY DEF TypeOK, Labels
<1> HIDE DEF q, w, d, t
<1>. QED BY <1>1, <1>2, <1>3, <1>4, <1>5, Updated

LEMMA GotoType ==
  ASSUME NEW p \in Procs, NEW l \in Labels, pc \in [Procs -> Labels], Goto(p, l)
  PROVE  pc' \in [Procs -> Labels]
BY DEF Goto

LEMMA InitType == Init => TypeOK
<1> SUFFICES ASSUME Init PROVE TypeOK
  OBVIOUS
<1>1. Gone \in Contents /\ 1 \in Contents
  BY DEF Gone, Contents
<1>2. file \in [Paths -> Contents]
  BY <1>1 DEF Init
<1>3. plan \in [Procs -> [Paths -> Contents]] /\ target \in [Procs -> Contents]
  BY <1>1 DEF Init
<1>4. pc \in [Procs -> Labels] /\ result \in {"none", "applied", "rolledback", "incomplete"}
  BY DEF Init, Labels
<1>5. /\ todo \in [Procs -> SUBSET Paths] /\ at \in [Procs -> Paths]
      /\ done \in [Procs -> SUBSET Paths] /\ errs \in [Procs -> SUBSET Paths]
  BY DEF Init
<1>6. lock = {} /\ told = {} /\ raced = {} /\ edits = 0 /\ faults = 0
  BY DEF Init
<1>9. cut \in BOOLEAN
  BY DEF Init
<1>7. lock \subseteq Procs /\ (\A x, y \in lock : x = y) /\ told \subseteq Paths
  BY <1>6
<1>8. raced \subseteq Edits /\ edits \in 0..MaxEdits /\ faults \in Nat
  BY <1>6
<1>. QED BY <1>2, <1>3, <1>4, <1>5, <1>7, <1>8, <1>9 DEF TypeOK, Labels

LEMMA NextType == TypeOK /\ [Next]_vars => TypeOK'
<1> SUFFICES ASSUME TypeOK, [Next]_vars PROVE TypeOK'
  OBVIOUS
<1> USE DEF TypeOK
<1>1. ASSUME NEW p \in Procs, NEW v \in Products, Show(p, v) PROVE TypeOK'
  <2>1. v \in Contents
    BY DEF Products, Contents
  <2>. QED BY <1>1, <2>1 DEF Show, Goto, loop, reports, ghosts, bounds
<1>2. ASSUME NEW p \in Procs, Apply(p) PROVE TypeOK'
  BY <1>2, ExitTypes DEF Apply, Labels, Goto, wish, loop, reports, ghosts, bounds
<1>3. ASSUME NEW p \in Procs, Acquire(p) PROVE TypeOK'
  <2>1. CASE lock' = {p} /\ Goto(p, "check") /\ UNCHANGED <<wish, loop>>
    BY <1>3, <2>1 DEF Acquire, Goto, wish, loop, reports, ghosts, bounds
  <2>2. CASE Exit(p) /\ UNCHANGED lock
    BY <1>3, <2>2, ExitTypes DEF Acquire, Labels, reports, ghosts, bounds
  <2>. QED BY <1>3, <2>1, <2>2 DEF Acquire
<1>4. ASSUME NEW p \in Procs, Prepare(p) PROVE TypeOK'
  <2>1. CASE Goto(p, "write") /\ todo' = [todo EXCEPT ![p] = Writes(p) \ {Stamp}]
             /\ UNCHANGED <<lock, wish, at, done, errs, reports>>
    <3>1. Writes(p) \ {Stamp} \in SUBSET Paths
      BY DEF Writes
    <3>2. pc' \in [Procs -> Labels] /\ todo' \in [Procs -> SUBSET Paths]
      <4>1. pc' \in [Procs -> Labels]
        BY <2>1, GotoType DEF Labels
      <4>. QED BY <2>1, <3>1, <4>1
    <3>3. UNCHANGED <<file, ghosts, bounds>>
      BY <1>4 DEF Prepare
    <3>. QED BY <2>1, <3>2, <3>3 DEF Labels, wish, reports, ghosts, bounds
  <2>2. CASE End(p, "applied") \/ End(p, "none")
    BY <1>4, <2>2, EndTypes DEF Prepare
  <2>. QED BY <1>4, <2>1, <2>2 DEF Prepare
<1>5. ASSUME NEW p \in Procs, Write(p) \/ Delete(p) \/ WriteStamp(p) PROVE TypeOK'
  <2>1. PICK q \in Paths : Look(p, q, "put") \/ Look(p, q, "remove") \/ Look(p, q, "putstamp")
    BY <1>5 DEF Write, Delete, WriteStamp, First
  <2>2. UNCHANGED <<file, lock, wish, done, errs, reports, ghosts, bounds>>
    BY <1>5 DEF Write, Delete, WriteStamp
  <2>3. at' \in [Procs -> Paths]
    BY <2>1 DEF Look
  <2>4. pc' \in [Procs -> Labels] /\ todo' \in [Procs -> SUBSET Paths]
    <3>1. CASE Fail(p)
      BY <3>1, FailTypes
    <3>2. CASE (Goto(p, "put") \/ Goto(p, "remove") \/ Goto(p, "putstamp")) /\ UNCHANGED todo
      <4>1. {"put", "remove", "putstamp"} \subseteq Labels /\ pc \in [Procs -> Labels]
        BY DEF Labels
      <4>2. pc' \in [Procs -> Labels]
        BY <3>2, <4>1, GotoType
      <4>. QED BY <3>2, <4>2
    <3>. QED BY <2>1, <3>1, <3>2 DEF Look
  <2>. QED BY <2>2, <2>3, <2>4 DEF Labels, wish, reports, ghosts, bounds
<1>6. ASSUME NEW p \in Procs, Put(p) \/ Remove(p) \/ PutStamp(p) PROVE TypeOK'
  <2>1. Change(p, "write") \/ Change(p, "delete") \/ Change(p, "final")
    BY <1>6 DEF Put, Remove, PutStamp
  <2>2. UNCHANGED <<lock, wish, at, errs, reports, ghosts, bounds>>
    BY <1>6 DEF Put, Remove, PutStamp
  <2>. QED BY <2>1, <2>2, ChangeTypes DEF Labels, wish, reports, ghosts, bounds
<1>7. ASSUME NEW p \in Procs, Written(p) \/ Deleted(p) PROVE TypeOK'
  <2>1. Deletes(p) \in SUBSET Paths
    BY DEF Deletes
  <2>2. pc' \in [Procs -> Labels] /\ todo' \in [Procs -> SUBSET Paths]
    <3>1. CASE Fail(p)
      BY <3>1, FailTypes
    <3>2. CASE (Goto(p, "delete") /\ todo' = [todo EXCEPT ![p] = Deletes(p)])
               \/ (Goto(p, "stamp") /\ UNCHANGED todo)
      <4>1. {"delete", "stamp"} \subseteq Labels /\ pc \in [Procs -> Labels]
        BY DEF Labels
      <4>2. pc' \in [Procs -> Labels]
        BY <3>2, <4>1, GotoType
      <4>3. todo' \in [Procs -> SUBSET Paths]
        BY <2>1, <3>2
      <4>. QED BY <4>2, <4>3
    <3>. QED BY <1>7, <3>1, <3>2 DEF Written, Deleted
  <2>3. UNCHANGED <<file, lock, wish, at, done, errs, reports, ghosts, bounds>>
    BY <1>7 DEF Written, Deleted
  <2>. QED BY <2>2, <2>3 DEF Labels, wish, reports, ghosts, bounds
<1>8. ASSUME NEW p \in Procs, Finish(p) PROVE TypeOK'
  <2>1. CASE End(p, "applied")
    BY <1>8, <2>1, EndTypes DEF Finish
  <2>2. CASE Fail(p) /\ UNCHANGED <<lock, wish, at, done, errs, reports>>
    BY <1>8, <2>2, FailTypes DEF Finish, Labels, wish, reports, ghosts, bounds
  <2>. QED BY <1>8, <2>1, <2>2 DEF Finish
<1>9. ASSUME NEW p \in Procs, Undo(p) PROVE TypeOK'
  <2>1. PICK q \in Paths :
          /\ at' = [at EXCEPT ![p] = q]
          /\ Pass(p, q, {}) \/ Pass(p, q, {q}) \/ (Goto(p, "restore") /\ UNCHANGED <<todo, errs>>)
    BY <1>9 DEF Undo, Last
  <2>2. at' \in [Procs -> Paths]
    BY <2>1
  <2>3. pc' \in [Procs -> Labels] /\ todo' \in [Procs -> SUBSET Paths] /\ errs' \in [Procs -> SUBSET Paths]
    <3>1. CASE Goto(p, "restore") /\ UNCHANGED <<todo, errs>>
      <4>1. pc' \in [Procs -> Labels]
        BY <3>1, GotoType DEF Labels
      <4>. QED BY <3>1, <4>1
    <3>. QED BY <2>1, <3>1, PassTypes
  <2>4. UNCHANGED <<file, lock, wish, done, reports, ghosts, bounds>>
    BY <1>9 DEF Undo
  <2>. QED BY <2>2, <2>3, <2>4 DEF Labels, wish, reports, ghosts, bounds
<1>10. ASSUME NEW p \in Procs, Restore(p) PROVE TypeOK'
  BY <1>10 DEF Restore, Pass, Goto, wish, reports, ghosts, bounds
<1>11. ASSUME NEW p \in Procs, Undone(p) PROVE TypeOK'
  <2>1. PICK r \in {"rolledback", "incomplete"} : End(p, r)
    BY <1>11 DEF Undone
  <2>. QED BY <1>11, <2>1, EndTypes DEF Undone
<1>12. ASSUME NEW p \in Procs, StepFails(p) PROVE TypeOK'
  BY <1>12, FailTypes DEF Labels, StepFails, Fault, wish, reports, ghosts
<1>13. ASSUME NEW p \in Procs, RestoreFails(p) PROVE TypeOK'
  BY <1>13 DEF RestoreFails, Fault, Pass, Goto, wish, reports, ghosts
<1>14. ASSUME NEW p \in Procs, Crash(p) PROVE TypeOK'
  BY <1>14, ExitTypes DEF Labels, Crash, Fault, reports
<1>15. ASSUME NEW q \in Paths, Edit(q) PROVE TypeOK'
  <2>1. edits' \in 1..MaxEdits /\ MaxVersion + edits' \in Edits /\ MaxVersion + edits' \in Contents
    BY <1>15 DEF Edit, Edits, Contents
  <2>. QED BY <1>15, <2>1 DEF Edit, wish, loop, reports
<1>16. CASE UNCHANGED vars
  BY <1>16 DEF vars, wish, loop, reports, ghosts, bounds
<1>. QED
  BY <1>1, <1>2, <1>3, <1>4, <1>5, <1>6, <1>7, <1>8, <1>9, <1>10, <1>11, <1>12, <1>13,
     <1>14, <1>15, <1>16 DEF Next, Run

\* The state of the project and its commands is well typed.
THEOREM TypeCorrect == Spec => []TypeOK
BY InitType, NextType, PTL DEF Spec

-----------------------------------------------------------------------------
(* Edits survive. *)

\* A command in its transaction holds the lock, so that no other one changes a file;
\* what it is about to replace is what it looked at, or raced.
Transacting(p) == pc[p] \notin {"idle", "shown", "lock"}
Locked == \A p \in Procs : Transacting(p) => p \in lock
Installs == \A p \in Procs : target[p] \in 0..MaxVersion
StampInHand == \A p \in Procs : pc[p] = "putstamp" => at[p] = Stamp
Seen == \A p \in Procs : pc[p] \in {"put", "remove", "putstamp"} =>
          file[at[p]] = plan[p][at[p]] \/ file[at[p]] \in raced
Back == \A p \in Procs : pc[p] = "restore" => file[at[p]] \notin Edits \/ file[at[p]] \in raced
IInv == TypeOK /\ Locked /\ Installs /\ StampInHand /\ Seen /\ Back

LEMMA WantedIsNoEdit ==
  ASSUME TypeOK, Installs, NEW p \in Procs, NEW q \in Paths
  PROVE  Wanted(p, q) \notin Edits
BY DEF TypeOK, Installs, Wanted, Want, Gone, Edits

\* What a step of a command leaves alone in the others.
Others(p) ==
  \A r \in Procs \ {p} : /\ pc'[r] = pc[r] /\ target'[r] = target[r] /\ plan'[r] = plan[r]
                         /\ at'[r] = at[r]
LEMMA OthersStay ==
  ASSUME TypeOK, NEW p \in Procs, Actions(p) \/ \E v \in Products : Show(p, v)
  PROVE  Others(p)
<1>1. CASE Run(p)
  BY <1>1 DEF Run, Apply, Acquire, Prepare, Write, Put, Written, Delete, Remove, Deleted,
     WriteStamp, PutStamp, Finish, Undo, Restore, Undone, Look, Change, Fail, Pass, End, Exit,
     Goto, Others, TypeOK, wish, loop
<1>2. CASE StepFails(p) \/ RestoreFails(p) \/ Crash(p) \/ \E v \in Products : Show(p, v)
  BY <1>2 DEF StepFails, RestoreFails, Crash, Show, Pass, Exit, Fail, Goto, Others, TypeOK, wish, loop
<1>. QED BY <1>1, <1>2 DEF Actions

\* Where a step of a command that leaves the files alone takes it.
Own(p) ==
  /\ (pc'[p] \notin {"idle", "shown", "lock"}) => p \in lock'
  /\ target'[p] \in 0..MaxVersion
  /\ pc'[p] = "putstamp" => at'[p] = Stamp
  /\ pc'[p] \in {"put", "remove", "putstamp"} => file[at'[p]] = plan'[p][at'[p]]
  /\ pc'[p] = "restore" => file[at'[p]] \notin Edits
Locks(p) == lock' = lock \/ lock' = lock \ {p} \/ (lock = {} /\ lock' = {p})

LEMMA Framed ==
  ASSUME IInv, NEW p \in Procs, TypeOK', Others(p), Own(p), Locks(p), UNCHANGED <<file, raced>>
  PROVE  IInv'
<1>1. Locked'
  BY DEF IInv, Locked, Transacting, Others, Own, Locks
<1>2. Installs' /\ StampInHand'
  BY DEF IInv, Installs, StampInHand, Others, Own
<1>3. Seen' /\ Back'
  BY DEF IInv, Seen, Back, Others, Own
<1>. QED BY <1>1, <1>2, <1>3 DEF IInv

LEMMA ExitOwn ==
  ASSUME TypeOK, NEW p \in Procs, Exit(p)
  PROVE  pc'[p] = "idle" /\ target'[p] \in 0..MaxVersion
BY DEF TypeOK, Exit, Goto, Gone

\* The steps that leave every file alone.
Quiet(p) ==
  \/ Apply(p) \/ Acquire(p) \/ Prepare(p) \/ Write(p) \/ Written(p) \/ Delete(p) \/ Deleted(p)
  \/ WriteStamp(p) \/ Finish(p) \/ Undo(p) \/ Undone(p)
  \/ StepFails(p) \/ RestoreFails(p) \/ Crash(p) \/ \E v \in Products : Show(p, v)

LEMMA EndOwn ==
  ASSUME IInv, NEW p \in Procs, NEW r, End(p, r)
  PROVE  Own(p) /\ Locks(p)
BY ExitOwn DEF End, Own, Locks, IInv, TypeOK

LEMMA FailOwn ==
  ASSUME IInv, NEW p \in Procs, Fail(p), target' = target, lock' = lock, Transacting(p)
  PROVE  Own(p) /\ Locks(p)
<1>1. pc'[p] = "undo" /\ p \in lock'
  BY DEF Fail, Goto, IInv, TypeOK, Locked
<1>. QED BY <1>1 DEF Own, Locks, IInv, Installs

LEMMA LookOwn ==
  ASSUME IInv, NEW p \in Procs, NEW q \in Paths, NEW l \in {"put", "remove", "putstamp"},
         Look(p, q, l), l = "putstamp" => q = Stamp,
         target' = target, plan' = plan, lock' = lock, Transacting(p)
  PROVE  Own(p) /\ Locks(p)
<1>1. CASE Fail(p)
  BY <1>1, FailOwn
<1>2. CASE Goto(p, l) /\ file[q] = plan[p][q]
  <2>1. pc'[p] = l /\ at'[p] = q /\ p \in lock'
    BY <1>2 DEF Look, Goto, IInv, TypeOK, Locked
  <2>. QED BY <2>1, <1>2 DEF Own, Locks, IInv, Installs
<1>. QED BY <1>1, <1>2 DEF Look

LEMMA PassOwn ==
  ASSUME IInv, NEW p \in Procs, NEW q, NEW r, Pass(p, q, r),
         target' = target, lock' = lock, Transacting(p)
  PROVE  Own(p) /\ Locks(p)
<1>1. pc'[p] = "undo" /\ p \in lock'
  BY DEF Pass, Goto, IInv, TypeOK, Locked
<1>. QED BY <1>1 DEF Own, Locks, IInv, Installs

LEMMA QuietOwn ==
  ASSUME IInv, NEW p \in Procs, Quiet(p)
  PROVE  Own(p) /\ Locks(p) /\ UNCHANGED <<file, raced>>
<1>0. UNCHANGED <<file, raced>>
  BY DEF Quiet, Apply, Acquire, Prepare, Write, Written, Delete, Deleted, WriteStamp, Finish,
     Undo, Undone, StepFails, RestoreFails, Crash, Show, ghosts
<1> SUFFICES Own(p) /\ Locks(p)
  BY <1>0
<1>1. ASSUME NEW v \in Products, Show(p, v) PROVE Own(p) /\ Locks(p)
  BY <1>1 DEF Show, Goto, Own, Locks, Products, IInv, TypeOK
<1>2. CASE Apply(p)
  BY <1>2, ExitOwn DEF Apply, Goto, Own, Locks, Installs, wish, IInv, TypeOK
<1>3. CASE Acquire(p)
  BY <1>3, ExitOwn DEF Acquire, Goto, Own, Locks, Installs, wish, IInv, TypeOK
<1>4. CASE Prepare(p)
  <2>1. CASE Goto(p, "write") /\ UNCHANGED <<lock, wish>>
    BY <2>1, <1>4 DEF Prepare, Goto, Own, Locks, Locked, Transacting, Installs, wish, IInv, TypeOK
  <2>2. CASE End(p, "applied")
    BY <2>2, EndOwn
  <2>3. CASE End(p, "none")
    BY <2>3, EndOwn
  <2>. QED BY <2>1, <2>2, <2>3, <1>4 DEF Prepare
<1>5. CASE Write(p)
  <2>1. PICK q \in Paths : Look(p, q, "put")
    BY <1>5 DEF Write, First, IInv, TypeOK
  <2>. QED BY <1>5, <2>1, LookOwn DEF Write, Transacting, wish
<1>6. CASE Delete(p)
  <2>1. PICK q \in Paths : Look(p, q, "remove")
    BY <1>6 DEF Delete, IInv, TypeOK
  <2>. QED BY <1>6, <2>1, LookOwn DEF Delete, Transacting, wish
<1>7. CASE WriteStamp(p)
  BY <1>7, LookOwn DEF WriteStamp, Transacting, wish
<1>8. CASE Written(p) \/ Deleted(p)
  <2>1. CASE Fail(p)
    BY <1>8, <2>1, FailOwn DEF Written, Deleted, Transacting, wish
  <2>2. CASE Goto(p, "delete") \/ Goto(p, "stamp")
    BY <1>8, <2>2 DEF Written, Deleted, Goto, Own, Locks, Locked, Transacting, Installs, wish,
       IInv, TypeOK
  <2>. QED BY <1>8, <2>1, <2>2 DEF Written, Deleted
<1>9. CASE Finish(p)
  <2>1. CASE End(p, "applied")
    BY <2>1, EndOwn
  <2>. QED BY <2>1, <1>9, FailOwn DEF Finish, Transacting, wish
<1>10. CASE Undo(p)
  <2>1. UNCHANGED <<lock, target, plan>> /\ Transacting(p)
    BY <1>10 DEF Undo, Transacting, wish
  <2>2. PICK q \in Paths :
          /\ at' = [at EXCEPT ![p] = q]
          /\ Pass(p, q, {}) \/ Pass(p, q, {q}) \/ (Goto(p, "restore") /\ file[q] = Wanted(p, q))
    BY <1>10 DEF Undo, Last, IInv, TypeOK
  <2>3. CASE Goto(p, "restore") /\ file[q] = Wanted(p, q)
    <3>1. file[q] \notin Edits
      BY <2>3, WantedIsNoEdit DEF IInv
    <3>2. pc'[p] = "restore" /\ at'[p] = q /\ p \in lock'
      BY <2>1, <2>2, <2>3 DEF Goto, IInv, TypeOK, Locked
    <3>. QED BY <2>1, <3>1, <3>2 DEF Own, Locks, IInv, Installs
  <2>. QED BY <2>1, <2>2, <2>3, PassOwn
<1>11. CASE Undone(p)
  BY <1>11, EndOwn DEF Undone
<1>12. CASE StepFails(p)
  BY <1>12, FailOwn DEF StepFails, Transacting, wish
<1>13. CASE RestoreFails(p)
  BY <1>13, PassOwn DEF RestoreFails, Transacting, wish
<1>14. CASE Crash(p)
  BY <1>14, ExitOwn DEF Crash, Own, Locks, IInv, TypeOK
<1>. QED
  BY <1>1, <1>2, <1>3, <1>4, <1>5, <1>6, <1>7, <1>8, <1>9, <1>10, <1>11, <1>12, <1>13,
     <1>14 DEF Quiet

\* The steps that replace the path in hand: nobody else has one in hand.
Replaces(p) == Put(p) \/ Remove(p) \/ PutStamp(p) \/ Restore(p)
LEMMA Alone ==
  ASSUME IInv, NEW p \in Procs, NEW r \in Procs, Transacting(p), Transacting(r)
  PROVE  p = r
BY DEF IInv, TypeOK, Locked

LEMMA ReplacesKeeps ==
  ASSUME IInv, NEW p \in Procs, Replaces(p), TypeOK', Others(p)
  PROVE  IInv'
<1>1. /\ pc'[p] \in {"write", "delete", "final", "undo"} /\ Transacting(p)
      /\ UNCHANGED <<lock, target, plan, raced>>
  BY DEF Replaces, Put, Remove, PutStamp, Restore, Change, Pass, Goto, Transacting, wish, ghosts,
     IInv, TypeOK
<1>2. p \in lock /\ \A r \in Procs \ {p} : ~Transacting(r)
  BY <1>1, Alone DEF IInv, Locked
<1>3. \A r \in Procs \ {p} : pc'[r] \in {"idle", "shown", "lock"}
  BY <1>2 DEF Others, Transacting
<1>4. Locked'
  BY <1>1, <1>2, <1>3 DEF Locked, Transacting
<1>5. Installs'
  BY <1>1 DEF IInv, Installs
<1>6. StampInHand' /\ Seen' /\ Back'
  BY <1>1, <1>3 DEF StampInHand, Seen, Back
<1>. QED BY <1>4, <1>5, <1>6 DEF IInv

LEMMA EditKeeps ==
  ASSUME IInv, NEW q \in Paths, Edit(q), TypeOK'
  PROVE  IInv'
<1>1. UNCHANGED <<lock, pc, target, plan, at>> /\ q # Stamp
  BY DEF Edit, wish, loop
<1>2. Locked' /\ Installs' /\ StampInHand'
  BY <1>1 DEF IInv, Locked, Transacting, Installs, StampInHand
<1>3. raced \subseteq raced' /\ \A x \in Paths \ {q} : file'[x] = file[x]
  BY DEF Edit, IInv, TypeOK
<1>4. ASSUME NEW p \in Procs, pc[p] \in {"put", "remove", "restore"}, at[p] = q
      PROVE  file'[q] \in raced'
  BY <1>4 DEF Edit, IInv, TypeOK
<1>5. ASSUME NEW p \in Procs, at[p] # q PROVE file'[at[p]] = file[at[p]]
  BY <1>3, <1>5 DEF IInv, TypeOK
<1>6. Seen'
  <2> SUFFICES ASSUME NEW p \in Procs, pc[p] \in {"put", "remove", "putstamp"}
               PROVE  file'[at[p]] = plan[p][at[p]] \/ file'[at[p]] \in raced'
    BY <1>1 DEF Seen
  <2>1. CASE at[p] # q
    BY <1>3, <1>5, <2>1 DEF IInv, Seen
  <2>2. CASE at[p] = q
    BY <1>1, <1>4, <2>2 DEF IInv, StampInHand
  <2>. QED BY <2>1, <2>2
<1>7. Back'
  <2> SUFFICES ASSUME NEW p \in Procs, pc[p] = "restore"
               PROVE  file'[at[p]] \notin Edits \/ file'[at[p]] \in raced'
    BY <1>1 DEF Back
  <2>1. CASE at[p] # q
    BY <1>3, <1>5, <2>1 DEF IInv, Back
  <2>. QED BY <1>4, <2>1
<1>. QED BY <1>2, <1>6, <1>7 DEF IInv

LEMMA Cases ==
  ASSUME Next
  PROVE  \/ \E p \in Procs : (Quiet(p) \/ Replaces(p)) /\ (Actions(p) \/ \E v \in Products : Show(p, v))
         \/ \E q \in Paths : Edit(q)
BY DEF Next, Actions, Run, Quiet, Replaces

LEMMA InitIInv == Init => IInv
<1> SUFFICES ASSUME Init PROVE IInv
  OBVIOUS
<1>1. TypeOK
  BY InitType
<1>. QED
  BY <1>1 DEF Init, IInv, Locked, Transacting, Installs, StampInHand, Seen, Back, Gone

LEMMA NextIInv == IInv /\ [Next]_vars => IInv'
<1> SUFFICES ASSUME IInv, [Next]_vars PROVE IInv'
  OBVIOUS
<1>1. TypeOK'
  BY NextType DEF IInv
<1>2. ASSUME NEW p \in Procs, Quiet(p), Actions(p) \/ \E v \in Products : Show(p, v) PROVE IInv'
  BY <1>1, <1>2, OthersStay, QuietOwn, Framed DEF IInv
<1>3. ASSUME NEW p \in Procs, Replaces(p), Actions(p) \/ \E v \in Products : Show(p, v) PROVE IInv'
  BY <1>1, <1>3, OthersStay, ReplacesKeeps DEF IInv
<1>4. ASSUME NEW q \in Paths, Edit(q) PROVE IInv'
  BY <1>1, <1>4, EditKeeps
<1>5. CASE UNCHANGED vars
  BY <1>1, <1>5 DEF vars, wish, loop, reports, ghosts, bounds, IInv, Locked, Transacting, Installs,
     StampInHand, Seen, Back
<1>. QED BY <1>2, <1>3, <1>4, <1>5, Cases

\* An edit that a step of a command replaces.
ReplacesAnEdit(q) == file[q] \in Edits /\ file'[q] # file[q] /\ edits' = edits
Allowed(q) == file[q] \in raced \/ \E p \in lock : plan[p][q] = file[q]

LEMMA ReplacesAllowed ==
  ASSUME IInv, NEW p \in Procs, Replaces(p), NEW q \in Paths, ReplacesAnEdit(q)
  PROVE  Allowed(q)
<1>1. q = at[p]
  BY DEF Replaces, Put, Remove, PutStamp, Restore, Change, ReplacesAnEdit, IInv, TypeOK
<1>2. p \in lock
  BY DEF Replaces, Put, Remove, PutStamp, Restore, IInv, Locked, Transacting
<1>3. CASE pc[p] = "restore"
  BY <1>1, <1>3 DEF IInv, Back, ReplacesAnEdit, Allowed
<1>4. CASE pc[p] \in {"put", "remove", "putstamp"}
  BY <1>1, <1>2, <1>4 DEF IInv, Seen, Allowed
<1>. QED BY <1>3, <1>4 DEF Replaces, Put, Remove, PutStamp, Restore

\* A command replaces an edit only when the confirmed plan had read it, or when the
\* edit slipped in between the last look at the file and its replacement.
THEOREM EditsAlwaysSurvive == Spec => EditsSurvive
<1>1. IInv /\ [Next]_vars =>
        [\A q \in Paths : file[q] \in Edits /\ file'[q] # file[q] /\ edits' = edits =>
           \/ file[q] \in raced
           \/ \E p \in lock : plan[p][q] = file[q]]_vars
  <2> SUFFICES ASSUME IInv, Next, NEW q \in Paths, ReplacesAnEdit(q) PROVE Allowed(q)
    BY DEF ReplacesAnEdit, Allowed
  <2>1. ASSUME NEW p \in Procs, Quiet(p) PROVE FALSE
    BY <2>1, QuietOwn DEF ReplacesAnEdit
  <2>2. ASSUME NEW x \in Paths, Edit(x) PROVE FALSE
    BY <2>2 DEF Edit, ReplacesAnEdit, IInv, TypeOK
  <2>. QED BY <2>1, <2>2, Cases, ReplacesAllowed
<1>. QED BY <1>1, InitIInv, NextIInv, PTL DEF Spec, EditsSurvive

-----------------------------------------------------------------------------
(* The rollback, and the version in the stamp.  What a command in its      *)
(* transaction knows of every file: who its content is from, and, further    *)
(* on, that everything but the stamp is installed.                           *)

Working(p) == pc[p] \in {"write", "put", "delete", "remove", "stamp", "putstamp", "final",
                         "undo", "restore"}
Forward(p) == pc[p] \in {"check", "write", "put", "delete", "remove", "stamp", "putstamp", "final"}

Chosen(p) == pc[p] # "idle" => target[p] \in Products /\ plan[p][Stamp] \in 0..target[p]
Accounted(p) == Working(p) =>
  \A q \in Paths : file[q] \in {plan[p][q], Wanted(p, q)} \cup Edits
Returned(p) == pc[p] \in {"undo", "restore"} =>
  \A q \in Paths : q \in todo[p] \cup errs[p] \/ file[q] \in {plan[p][q]} \cup Edits
StampWaits(p) ==
  /\ pc[p] \in {"write", "put", "delete", "remove", "stamp", "putstamp"} => file[Stamp] = plan[p][Stamp]
  /\ pc[p] \in {"write", "put"} => Stamp \notin todo[p]
  /\ pc[p] = "put" => at[p] # Stamp
Retiring(p) ==
  /\ pc[p] \in {"delete", "remove"} =>
       todo[p] \subseteq Retired /\ \A q \in Retired : q \in todo[p] \/ file[q] \in {Gone} \cup Edits
  /\ pc[p] = "remove" => at[p] \in Retired
Complete(p) ==
  /\ pc[p] \in {"stamp", "putstamp", "final"} =>
       \A q \in Paths \ {Stamp} : file[q] \in {Wanted(p, q)} \cup Edits
  /\ pc[p] = "final" => file[Stamp] = target[p]
Knows(p) == Chosen(p) /\ Accounted(p) /\ Returned(p) /\ StampWaits(p) /\ Retiring(p) /\ Complete(p)

Held == \A p \in lock : Transacting(p)
StampIsVersion == file[Stamp] \in 0..MaxVersion
KInv == IInv /\ Held /\ StampIsVersion /\ \A p \in Procs : Knows(p)

\* What a step of a command leaves alone in the others, the loop included.
Apart(p) ==
  \A r \in Procs \ {p} : /\ pc'[r] = pc[r] /\ target'[r] = target[r] /\ plan'[r] = plan[r]
                         /\ todo'[r] = todo[r] /\ at'[r] = at[r] /\ errs'[r] = errs[r]
LEMMA OthersApart ==
  ASSUME TypeOK, NEW p \in Procs, Actions(p) \/ \E v \in Products : Show(p, v)
  PROVE  Apart(p)
<1>1. CASE Run(p)
  BY <1>1 DEF Run, Apply, Acquire, Prepare, Write, Put, Written, Delete, Remove, Deleted,
     WriteStamp, PutStamp, Finish, Undo, Restore, Undone, Look, Change, Fail, Pass, End, Exit,
     Goto, Apart, TypeOK, wish, loop
<1>2. CASE StepFails(p) \/ RestoreFails(p) \/ Crash(p) \/ \E v \in Products : Show(p, v)
  BY <1>2 DEF StepFails, RestoreFails, Crash, Show, Pass, Exit, Fail, Goto, Apart, TypeOK, wish, loop
<1>. QED BY <1>1, <1>2 DEF Actions

\* A command outside its transaction knows nothing that depends on a file.
LEMMA OutsideKnows ==
  ASSUME NEW r \in Procs, Knows(r), file' = file \/ ~Transacting(r),
         pc'[r] = pc[r], target'[r] = target[r], plan'[r] = plan[r],
         todo'[r] = todo[r], at'[r] = at[r], errs'[r] = errs[r]
  PROVE  Knows(r)'
<1>1. CASE file' = file
  BY <1>1 DEF Knows, Chosen, Accounted, Returned, StampWaits, Retiring, Complete, Working, Wanted
<1>2. CASE ~Transacting(r)
  BY <1>2 DEF Knows, Chosen, Accounted, Returned, StampWaits, Retiring, Complete, Working, Transacting
<1>. QED BY <1>1, <1>2

\* Where its steps take what a command knows.
LEMMA ExitKnows ==
  ASSUME TypeOK, NEW p \in Procs, Exit(p)
  PROVE  Knows(p)' /\ pc'[p] = "idle"
<1>1. pc'[p] = "idle"
  BY DEF Exit, Goto, TypeOK
<1>. QED BY <1>1 DEF Knows, Chosen, Accounted, Returned, StampWaits, Retiring, Complete, Working

LEMMA FailKnows ==
  ASSUME KInv, NEW p \in Procs, Fail(p), Working(p), UNCHANGED <<file, target, plan, errs>>
  PROVE  Knows(p)' /\ pc'[p] = "undo"
<1>1. pc'[p] = "undo" /\ todo'[p] = Writes(p) \cup Deletes(p) \cup {Stamp}
  BY DEF Fail, Goto, KInv, IInv, TypeOK
<1>2. Knows(p)
  BY DEF KInv
<1>3. Accounted(p)'
  BY <1>2 DEF Knows, Accounted, Wanted
<1>4. Returned(p)'
  <2> SUFFICES ASSUME NEW q \in Paths, q \notin todo'[p]
               PROVE  file[q] \in {plan[p][q]} \cup Edits
    BY DEF Returned
  <2>1. file[q] \in {plan[p][q], Wanted(p, q)} \cup Edits
    BY <1>2 DEF Knows, Accounted
  <2>2. CASE q \in Retired
    BY <1>1, <2>1, <2>2 DEF Deletes, Wanted, Want
  <2>3. CASE q \notin Retired
    BY <1>1, <2>1, <2>3 DEF Writes, Wanted, Want
  <2>. QED BY <2>2, <2>3
<1>5. Chosen(p)'
  BY <1>1, <1>2 DEF Knows, Chosen, Working
<1>. QED BY <1>1, <1>3, <1>4, <1>5 DEF Knows, StampWaits, Retiring, Complete

LEMMA LookKnows ==
  ASSUME KInv, NEW p \in Procs, NEW q \in Paths, NEW l \in {"put", "remove", "putstamp"}, Look(p, q, l),
         Working(p), UNCHANGED <<file, target, plan, errs>>,
         \/ l = "put" /\ pc[p] = "write" /\ q # Stamp
         \/ l = "remove" /\ pc[p] = "delete" /\ q \in Retired
         \/ l = "putstamp" /\ pc[p] = "stamp"
  PROVE  Knows(p)' /\ pc'[p] \in {l, "undo"}
<1>1. CASE Fail(p)
  BY <1>1, FailKnows
<1>2. CASE Goto(p, l) /\ UNCHANGED todo
  <2>1. pc'[p] = l /\ at'[p] = q /\ Knows(p)
    BY <1>2 DEF Look, Goto, KInv, IInv, TypeOK
  <2>2. Chosen(p)' /\ Accounted(p)' /\ Returned(p)'
    BY <1>2, <2>1 DEF Knows, Chosen, Accounted, Returned, Working, Wanted
  <2>3. StampWaits(p)' /\ Retiring(p)' /\ Complete(p)'
    BY <1>2, <2>1 DEF Knows, StampWaits, Retiring, Complete, Wanted
  <2>. QED BY <2>1, <2>2, <2>3 DEF Knows
<1>. QED BY <1>1, <1>2 DEF Look

\* The file in hand gets what the version wants of it.
LEMMA ChangeKnows ==
  ASSUME KInv, NEW p \in Procs, NEW l, Change(p, l), UNCHANGED <<target, plan, errs>>,
         \/ l = "write" /\ pc[p] = "put"
         \/ l = "delete" /\ pc[p] = "remove"
         \/ l = "final" /\ pc[p] = "putstamp"
  PROVE  Knows(p)' /\ pc'[p] = l
<1>1. /\ pc'[p] = l /\ todo'[p] = todo[p] \ {at[p]} /\ at[p] \in Paths /\ Knows(p)
      /\ file'[at[p]] = Wanted(p, at[p]) /\ \A q \in Paths \ {at[p]} : file'[q] = file[q]
  BY DEF Change, Goto, KInv, IInv, TypeOK
<1>2. \A q \in Paths : Wanted(p, q)' = Wanted(p, q)
  BY DEF Wanted
<1>3. pc[p] = "putstamp" => at[p] = Stamp
  BY DEF KInv, IInv, StampInHand
<1>4. Chosen(p)' /\ Accounted(p)' /\ Returned(p)'
  BY <1>1, <1>2 DEF Knows, Chosen, Accounted, Returned, Working
<1>5. StampWaits(p)'
  BY <1>1 DEF Knows, StampWaits, Retiring
<1>6. Retiring(p)'
  <2> SUFFICES ASSUME l = "delete" PROVE Retiring(p)'
    BY <1>1 DEF Retiring
  <2>1. at[p] \in Retired /\ Wanted(p, at[p]) = Gone
    BY DEF Wanted, Want, Knows, Retiring, KInv
  <2>. QED BY <1>1, <2>1 DEF Knows, Retiring
<1>7. Complete(p)'
  BY <1>1, <1>2, <1>3 DEF Knows, Complete, Wanted, Want
<1>. QED BY <1>1, <1>4, <1>5, <1>6, <1>7 DEF Knows

\* A path is passed over, or has been restored.
LEMMA PassKnows ==
  ASSUME KInv, NEW p \in Procs, NEW q \in Paths, NEW r, Pass(p, q, r), pc[p] \in {"undo", "restore"},
         UNCHANGED <<target, plan>>, \A x \in Paths \ {q} : file'[x] = file[x],
         file'[q] \in {file[q], plan[p][q]}, q \in r \/ file'[q] = plan[p][q]
  PROVE  Knows(p)' /\ pc'[p] = "undo"
<1>1. /\ pc'[p] = "undo" /\ todo'[p] = todo[p] \ {q} /\ errs'[p] = errs[p] \cup r /\ Knows(p)
  BY DEF Pass, Goto, KInv, IInv, TypeOK
<1>2. \A x \in Paths : Wanted(p, x)' = Wanted(p, x)
  BY DEF Wanted
<1>3. Chosen(p)' /\ Accounted(p)' /\ Returned(p)'
  BY <1>1, <1>2 DEF Knows, Chosen, Accounted, Returned, Working
<1>. QED BY <1>1, <1>3 DEF Knows, StampWaits, Retiring, Complete

LEMMA StepKnows ==
  ASSUME KInv, NEW p \in Procs, Actions(p) \/ \E v \in Products : Show(p, v)
  PROVE  Knows(p)'
<1>a. TypeOK /\ Knows(p) /\ StampInHand
  BY DEF KInv, IInv
<1>1. ASSUME NEW v \in Products, Show(p, v) PROVE Knows(p)'
  <2>1. pc'[p] = "shown" /\ target'[p] = v /\ plan'[p] = file /\ file[Stamp] \in 0..v
    BY <1>a, <1>1 DEF Show, Goto, TypeOK, KInv, StampIsVersion, Products
  <2>. QED BY <2>1 DEF Knows, Chosen, Accounted, Returned, StampWaits, Retiring, Complete, Working
<1>2. CASE Apply(p) \/ Acquire(p)
  <2>1. CASE Exit(p)
    BY <1>a, <2>1, ExitKnows
  <2>2. CASE (Goto(p, "lock") \/ Goto(p, "check")) /\ UNCHANGED <<target, plan>> /\ pc[p] # "idle"
    <3>1. pc'[p] \in {"lock", "check"}
      BY <1>a, <2>2 DEF Goto, TypeOK
    <3>. QED BY <1>a, <2>2, <3>1 DEF Knows, Chosen, Accounted, Returned, StampWaits, Retiring, Complete, Working
  <2>. QED BY <1>2, <2>1, <2>2 DEF Apply, Acquire, wish
<1>3. CASE Prepare(p)
  <2>1. CASE End(p, "applied") \/ End(p, "none")
    BY <1>a, <2>1, ExitKnows DEF End
  <2>2. CASE /\ file = plan[p] /\ Goto(p, "write") /\ todo' = [todo EXCEPT ![p] = Writes(p) \ {Stamp}]
             /\ UNCHANGED wish
    <3>1. /\ pc'[p] = "write" /\ todo'[p] = Writes(p) \ {Stamp} /\ pc[p] # "idle"
          /\ UNCHANGED <<file, target, plan>>
      BY <1>3, <1>a, <2>2 DEF Prepare, Goto, TypeOK, wish
    <3>. QED BY <1>a, <2>2, <3>1 DEF Knows, Chosen, Accounted, Returned, StampWaits, Retiring, Complete, Working
  <2>. QED BY <1>3, <2>1, <2>2 DEF Prepare
<1>4. CASE Write(p)
  <2>1. PICK q \in First(todo[p]) : Look(p, q, "put")
    BY <1>4 DEF Write
  <2>2. q \in Paths /\ q # Stamp
    BY <1>4, <1>a, <2>1 DEF Write, First, TypeOK, Knows, StampWaits
  <2>. QED BY <1>4, <2>1, <2>2, LookKnows DEF Write, Working, wish
<1>5. CASE Put(p)
  BY <1>5, ChangeKnows DEF Put, wish
<1>6. CASE Written(p)
  <2>1. CASE Fail(p)
    BY <1>6, <2>1, FailKnows DEF Written, Working, wish
  <2>2. CASE Goto(p, "delete") /\ todo' = [todo EXCEPT ![p] = Deletes(p)]
    <3>1. /\ pc'[p] = "delete" /\ todo'[p] = Deletes(p) /\ pc[p] = "write"
          /\ UNCHANGED <<file, target, plan, errs>>
      BY <1>6, <1>a, <2>2 DEF Written, Goto, TypeOK, wish
    <3>2. \A q \in Retired : q \in Deletes(p) \/ file[q] \in {Gone} \cup Edits
      BY <1>a, <3>1 DEF Deletes, Knows, Accounted, Working, Wanted, Want
    <3>. QED BY <1>a, <3>1, <3>2 DEF Knows, Chosen, Accounted, Returned, StampWaits, Retiring, Complete, Working, Deletes, Wanted
  <2>. QED BY <1>6, <2>1, <2>2 DEF Written
<1>7. CASE Delete(p)
  <2>1. PICK q \in todo[p] : Look(p, q, "remove")
    BY <1>7 DEF Delete
  <2>2. q \in Paths /\ q \in Retired
    BY <1>7, <1>a, <2>1 DEF Delete, Knows, Retiring
  <2>. QED BY <1>7, <2>1, <2>2, LookKnows DEF Delete, Working, wish
<1>8. CASE Remove(p)
  BY <1>8, ChangeKnows DEF Remove, wish
<1>9. CASE Deleted(p)
  <2>1. CASE Fail(p)
    BY <1>9, <2>1, FailKnows DEF Deleted, Working, wish
  <2>2. CASE Holds(p, Paths \ (Retired \cup {Stamp})) /\ Goto(p, "stamp")
    <3>1. pc'[p] = "stamp" /\ pc[p] = "delete" /\ todo[p] = {} /\ UNCHANGED <<file, target, plan, errs>>
      BY <1>9, <1>a, <2>2 DEF Deleted, Goto, TypeOK, wish
    <3>2. \A q \in Paths \ {Stamp} : file[q] \in {Wanted(p, q)} \cup Edits
      <4> SUFFICES ASSUME NEW q \in Paths \ {Stamp} PROVE file[q] \in {Wanted(p, q)} \cup Edits
        OBVIOUS
      <4>1. CASE q \in Retired
        BY <1>a, <3>1, <4>1 DEF Knows, Retiring, Wanted, Want
      <4>2. CASE q \notin Retired
        BY <2>2, <4>2 DEF Holds
      <4>. QED BY <4>1, <4>2
    <3>. QED BY <1>a, <3>1, <3>2 DEF Knows, Chosen, Accounted, Returned, StampWaits, Retiring, Complete, Working, Wanted
  <2>. QED BY <1>9, <2>1, <2>2 DEF Deleted
<1>10. CASE WriteStamp(p)
  BY <1>10, LookKnows DEF WriteStamp, Working, wish
<1>11. CASE PutStamp(p)
  BY <1>11, ChangeKnows DEF PutStamp, wish
<1>12. CASE Finish(p)
  <2>1. CASE End(p, "applied")
    BY <1>a, <2>1, ExitKnows DEF End
  <2>. QED BY <1>12, <2>1, FailKnows DEF Finish, Working, wish
<1>13. CASE Undo(p)
  <2>1. PICK q \in Last(todo[p]) :
          /\ at' = [at EXCEPT ![p] = q]
          /\ \/ file[q] = plan[p][q] /\ Pass(p, q, {})
             \/ Goto(p, "restore") /\ UNCHANGED <<todo, errs>>
             \/ Pass(p, q, {q})
    BY <1>13 DEF Undo
  <2>2. q \in Paths /\ pc[p] = "undo" /\ UNCHANGED <<file, target, plan>>
    BY <1>13, <1>a, <2>1 DEF Undo, Last, TypeOK, wish
  <2>3. CASE Goto(p, "restore") /\ UNCHANGED <<todo, errs>>
    <3>1. pc'[p] = "restore"
      BY <1>a, <2>3 DEF Goto, TypeOK
    <3>. QED BY <1>a, <2>2, <2>3, <3>1 DEF Knows, Chosen, Accounted, Returned, StampWaits, Retiring, Complete, Working, Wanted
  <2>. QED BY <2>1, <2>2, <2>3, PassKnows
<1>14. CASE Restore(p)
  <2>1. /\ at[p] \in Paths /\ file'[at[p]] = plan[p][at[p]] /\ \A x \in Paths \ {at[p]} : file'[x] = file[x]
    BY <1>14, <1>a DEF Restore, TypeOK
  <2>. QED BY <1>14, <2>1, PassKnows DEF Restore, wish
<1>15. CASE Undone(p)
  BY <1>15, <1>a, ExitKnows DEF Undone, End
<1>16. CASE StepFails(p)
  BY <1>16, FailKnows DEF StepFails, Working, wish
<1>17. CASE RestoreFails(p)
  <2>1. at[p] \in Paths
    BY <1>a DEF TypeOK
  <2>. QED BY <1>17, <2>1, PassKnows DEF RestoreFails, wish
<1>18. CASE Crash(p)
  BY <1>18, <1>a, ExitKnows DEF Crash
<1>. QED
  BY <1>1, <1>2, <1>3, <1>4, <1>5, <1>6, <1>7, <1>8, <1>9, <1>10, <1>11, <1>12, <1>13,
     <1>14, <1>15, <1>16, <1>17, <1>18 DEF Actions, Run

\* Only a command in its transaction changes a file, and only an edit or a path that it
\* has in hand.
LEMMA EditKnows ==
  ASSUME KInv, NEW x \in Paths, Edit(x)
  PROVE  Held' /\ StampIsVersion' /\ \A p \in Procs : Knows(p)'
<1>1. /\ UNCHANGED <<lock, pc, target, plan, todo, at, errs>> /\ x # Stamp
      /\ file'[x] \in Edits /\ \A q \in Paths \ {x} : file'[q] = file[q]
  <2>1. edits' \in 1..MaxEdits /\ MaxVersion + edits' \in Edits
    BY DEF Edit, Edits, KInv, IInv, TypeOK
  <2>. QED BY <2>1 DEF Edit, wish, loop, KInv, IInv, TypeOK
<1>2. Held' /\ StampIsVersion'
  BY <1>1 DEF KInv, Held, StampIsVersion, Transacting
<1>3. ASSUME NEW p \in Procs PROVE Knows(p)'
  <2>1. Knows(p) /\ \A q \in Paths : Wanted(p, q)' = Wanted(p, q)
    BY <1>1 DEF KInv, Wanted
  <2>2. Chosen(p)' /\ Accounted(p)' /\ Returned(p)'
    BY <1>1, <2>1 DEF Knows, Chosen, Accounted, Returned, Working
  <2>3. StampWaits(p)' /\ Retiring(p)' /\ Complete(p)'
    BY <1>1, <2>1 DEF Knows, StampWaits, Retiring, Complete
  <2>. QED BY <2>2, <2>3 DEF Knows
<1>. QED BY <1>2, <1>3

\* Who holds the lock transacts.
LEMMA StepHeld ==
  ASSUME KInv, NEW p \in Procs, Actions(p) \/ \E v \in Products : Show(p, v)
  PROVE  Held'
<1>a. TypeOK /\ Held /\ Locked
  BY DEF KInv, IInv
<1>1. Apart(p)
  BY <1>a, OthersApart
<1>2. lock' \subseteq lock \cup {p}
  BY DEF Actions, Run, Apply, Acquire, Prepare, Write, Put, Written, Delete, Remove, Deleted,
     WriteStamp, PutStamp, Finish, Undo, Restore, Undone, StepFails, RestoreFails, Crash, Show, End
<1>3. p \in lock' => pc'[p] \notin {"idle", "shown", "lock"}
  <2>1. CASE ~Transacting(p)
    <3>1. p \notin lock /\ pc[p] \in {"idle", "shown", "lock"}
      BY <1>a, <2>1 DEF Held, Transacting
    <3>2. p \in lock' => Acquire(p) /\ Goto(p, "check")
      BY <3>1 DEF Actions, Run, Apply, Acquire, Prepare, Write, Put, Written, Delete, Remove, Deleted,
         WriteStamp, PutStamp, Finish, Undo, Restore, Undone, StepFails, RestoreFails, Crash, Show, End
    <3>. QED BY <1>a, <3>2 DEF Goto, TypeOK
  <2>2. CASE Transacting(p)
    <3>1. CASE lock' = lock \ {p}
      BY <3>1
    <3>2. CASE lock' # lock \ {p}
      BY <1>a, <2>2, <3>2 DEF Transacting, Actions, Run, Apply, Acquire, Prepare, Write, Put, Written,
         Delete, Remove, Deleted, WriteStamp, PutStamp, Finish, Undo, Restore, Undone, StepFails,
         RestoreFails, Crash, Show, End, Look, Fail, Change, Pass, Goto, TypeOK
    <3>. QED BY <3>1, <3>2
  <2>. QED BY <2>1, <2>2
<1>. QED BY <1>a, <1>1, <1>2, <1>3 DEF Held, Transacting, Apart, TypeOK


\* The steps that do not replace the path in hand leave every file alone.
LEMMA FilesStay ==
  ASSUME KInv, NEW p \in Procs, Actions(p) \/ \E v \in Products : Show(p, v)
  PROVE  file' = file \/ (Replaces(p) /\ Transacting(p))
BY DEF Actions, Run, Apply, Acquire, Prepare, Write, Put, Written, Delete, Remove, Deleted,
   WriteStamp, PutStamp, Finish, Undo, Restore, Undone, StepFails, RestoreFails, Crash, Show,
   Replaces, Transacting

LEMMA StampStays ==
  ASSUME KInv, NEW p \in Procs, Actions(p) \/ \E v \in Products : Show(p, v)
  PROVE  StampIsVersion'
<1>1. CASE file' = file
  BY <1>1 DEF KInv, StampIsVersion
<1>2. CASE Replaces(p) /\ Transacting(p)
  <2>1. pc[p] # "idle"
    BY <1>2 DEF Transacting
  <2>2. target[p] \in 2..MaxVersion /\ plan[p][Stamp] \in 0..MaxVersion
    BY <2>1 DEF KInv, Knows, Chosen, Products
  <2>3. Wanted(p, Stamp) \in 0..MaxVersion
    BY <2>2 DEF Wanted, Want, Gone
  <2>4. file'[Stamp] \in {file[Stamp], Wanted(p, Stamp), plan[p][Stamp]}
    BY <1>2 DEF Replaces, Put, Remove, PutStamp, Restore, Change, KInv, IInv, TypeOK
  <2>. QED BY <2>2, <2>3, <2>4 DEF KInv, StampIsVersion
<1>. QED BY <1>1, <1>2, FilesStay

LEMMA InitKInv == Init => KInv
<1> SUFFICES ASSUME Init PROVE KInv
  OBVIOUS
<1>1. IInv /\ \A p \in Procs : pc[p] = "idle"
  BY InitIInv DEF Init
<1>2. Held /\ StampIsVersion
  BY DEF Init, Held, StampIsVersion, Gone
<1>3. \A p \in Procs : Knows(p)
  BY <1>1 DEF Knows, Chosen, Accounted, Returned, StampWaits, Retiring, Complete, Working
<1>. QED BY <1>1, <1>2, <1>3 DEF KInv

LEMMA NextKInv == KInv /\ [Next]_vars => KInv'
<1> SUFFICES ASSUME KInv, [Next]_vars PROVE KInv'
  OBVIOUS
<1>1. IInv'
  BY NextIInv DEF KInv
<1>2. ASSUME NEW p \in Procs, Actions(p) \/ \E v \in Products : Show(p, v)
      PROVE  KInv'
  <2>1. Held' /\ StampIsVersion' /\ Knows(p)'
    BY <1>2, StepHeld, StampStays, StepKnows
  <2>2. ASSUME NEW r \in Procs \ {p} PROVE Knows(r)'
    <3>1. Apart(p)
      BY <1>2, OthersApart DEF KInv, IInv
    <3>2. file' = file \/ ~Transacting(r)
      BY <1>2, FilesStay, Alone DEF KInv
    <3>. QED BY <3>1, <3>2, OutsideKnows DEF Apart, KInv
  <2>. QED BY <1>1, <2>1, <2>2 DEF KInv
<1>3. ASSUME NEW q \in Paths, Edit(q) PROVE KInv'
  BY <1>1, <1>3, EditKnows DEF KInv
<1>4. CASE UNCHANGED vars
  <2>1. Held' /\ StampIsVersion'
    BY <1>4 DEF vars, KInv, Held, StampIsVersion, Transacting
  <2>2. \A r \in Procs : Knows(r)'
    BY <1>4, OutsideKnows DEF vars, wish, loop, KInv
  <2>. QED BY <1>1, <2>1, <2>2 DEF KInv
<1>. QED BY <1>2, <1>3, <1>4 DEF Next, Actions

\* A transaction reported as rolled back leaves every path as its plan read it, or to
\* somebody who edited it since: however it failed, for any number of commands, paths,
\* edits and faults.
THEOREM RollbacksRestore == Spec => RollbackRestores
<1>1. KInv /\ [Next]_vars =>
        [\A p \in Procs : Undone(p) /\ result' = "rolledback" =>
           \A q \in Paths : file[q] = plan[p][q] \/ file[q] \in Edits]_vars
  <2> SUFFICES ASSUME KInv, NEW p \in Procs, Undone(p), result' = "rolledback", NEW q \in Paths
               PROVE  file[q] = plan[p][q] \/ file[q] \in Edits
    OBVIOUS
  <2>1. pc[p] = "undo" /\ todo[p] = {} /\ errs[p] = {}
    BY DEF Undone, End
  <2>. QED BY <2>1 DEF KInv, Knows, Returned
<1>. QED BY <1>1, InitKInv, NextKInv, PTL DEF Spec, RollbackRestores

-----------------------------------------------------------------------------
(* No path falls behind the stamp: what a transaction leaves, wherever it is *)
(* cut while it goes forward, is no worse than what its plan had read.       *)

BehindIn(f, q) ==
  IF q \in Retired THEN f[q] \in Versions /\ f[Stamp] > 1
                   ELSE f[q] < f[Stamp]
Sound(f) == Stamp \notin told => \A q \in Paths \ told : ~BehindIn(f, q)
FileSound == lock = {} \/ (\E p \in Procs : Forward(p)) => Sound(file)
PlanSound == \A p \in Procs : Working(p) => Sound(plan[p])
UpgradeInv == ~cut => FileSound /\ PlanSound

\* Everything of a version, or edited, with that version in the stamp.
LEMMA InstalledSound ==
  ASSUME NEW g, NEW v \in Products, g[Stamp] = v,
         \A q \in Paths \ {Stamp} : g[q] \in {Want(v, q)} \cup Edits
  PROVE  \A q \in Paths : ~BehindIn(g, q)
<1> SUFFICES ASSUME NEW q \in Paths PROVE ~BehindIn(g, q)
  OBVIOUS
<1>1. v \in 2..MaxVersion
  BY DEF Products
<1>2. CASE q = Stamp
  BY <1>1, <1>2 DEF BehindIn
<1>3. CASE q # Stamp /\ g[q] = Want(v, q)
  BY <1>1, <1>3 DEF BehindIn, Want, Gone, Versions
<1>4. CASE q # Stamp /\ g[q] \in Edits
  BY <1>1, <1>4 DEF BehindIn, Edits, Versions
<1>. QED BY <1>2, <1>3, <1>4

\* A transaction that goes forward leaves a sound project at every step.
LEMMA ForwardSound ==
  KInv /\ PlanSound => \A p \in Procs : Forward(p) /\ pc[p] # "check" => Sound(file)
<1> SUFFICES ASSUME KInv, NEW p \in Procs, Forward(p), pc[p] # "check", PlanSound
             PROVE  Sound(file)
  OBVIOUS
<1>1. Knows(p) /\ Working(p) /\ pc[p] # "idle"
  BY DEF KInv, Forward, Working
<1>2. target[p] \in Products /\ plan[p][Stamp] \in 0..target[p] /\ Sound(plan[p])
  BY <1>1 DEF Knows, Chosen, PlanSound
<1>3. CASE pc[p] # "final"
  <2>1. file[Stamp] = plan[p][Stamp]
    BY <1>1, <1>3 DEF Knows, StampWaits, Forward
  <2>2. \A q \in Paths : file[q] \in {plan[p][q], Want(target[p], q)} \cup Edits
    BY <1>1 DEF Knows, Accounted, Wanted
  <2> SUFFICES ASSUME Stamp \notin told, NEW q \in Paths \ told PROVE ~BehindIn(file, q)
    BY DEF Sound
  <2>3. ~BehindIn(plan[p], q)
    BY <1>2 DEF Sound
  <2>4. plan[p][Stamp] \in 0..MaxVersion /\ target[p] \in 2..MaxVersion
    BY <1>2 DEF Products
  <2>5. CASE file[q] = plan[p][q]
    BY <2>1, <2>3, <2>5 DEF BehindIn
  <2>6. CASE file[q] = Want(target[p], q)
    BY <1>2, <2>1, <2>4, <2>6 DEF BehindIn, Want, Gone, Versions
  <2>7. CASE file[q] \in Edits
    BY <2>1, <2>4, <2>7 DEF BehindIn, Edits, Versions
  <2>. QED BY <2>2, <2>5, <2>6, <2>7
<1>4. CASE pc[p] = "final"
  <2>1. file[Stamp] = target[p] /\ \A q \in Paths \ {Stamp} : file[q] \in {Want(target[p], q)} \cup Edits
    BY <1>1, <1>4 DEF Knows, Complete, Wanted
  <2>2. \A q \in Paths : ~BehindIn(file, q)
    BY <1>2, <2>1, InstalledSound
  <2>. QED BY <2>2 DEF Sound
<1>. QED BY <1>3, <1>4


LEMMA EditSound ==
  ASSUME KInv, NEW x \in Paths, Edit(x), Sound(file)
  PROVE  Sound(file)'
<1>1. /\ told' = told /\ x # Stamp /\ file'[x] \in Edits /\ \A q \in Paths \ {x} : file'[q] = file[q]
  <2>1. edits' \in 1..MaxEdits /\ MaxVersion + edits' \in Edits
    BY DEF Edit, Edits, KInv, IInv, TypeOK
  <2>. QED BY <2>1 DEF Edit, reports, KInv, IInv, TypeOK
<1>2. file[Stamp] \in 0..MaxVersion /\ file'[Stamp] = file[Stamp]
  BY <1>1 DEF KInv, StampIsVersion
<1> SUFFICES ASSUME Stamp \notin told, NEW q \in Paths \ told PROVE ~BehindIn(file', q)
  BY <1>1 DEF Sound, BehindIn
<1>3. ~BehindIn(file, q)
  BY DEF Sound
<1>4. CASE q = x
  BY <1>1, <1>2, <1>4 DEF BehindIn, Edits, Versions
<1>5. CASE q # x
  BY <1>1, <1>2, <1>3, <1>5 DEF BehindIn
<1>. QED BY <1>4, <1>5

\* How a step of a command treats the lock, the reports and its own plan.
LEMMA OutsideStep ==
  ASSUME KInv, NEW p \in Procs, Actions(p) \/ \E v \in Products : Show(p, v), ~Transacting(p)
  PROVE  /\ UNCHANGED <<file, told>>
         /\ \/ lock' = lock /\ pc'[p] \in {"idle", "shown", "lock"}
            \/ lock = {} /\ lock' = {p} /\ pc'[p] = "check"
<1>1. pc[p] \in {"idle", "shown", "lock"} /\ p \notin lock /\ TypeOK
  BY DEF Transacting, KInv, Held, IInv
<1>2. lock \ {p} = lock
  BY <1>1
<1>3. ASSUME NEW v \in Products, Show(p, v)
      PROVE  UNCHANGED <<file, told, lock>> /\ pc'[p] = "shown"
  BY <1>1, <1>3 DEF Show, Goto, TypeOK, reports
<1>4. CASE Apply(p)
  BY <1>1, <1>4 DEF Apply, Goto, Exit, TypeOK, reports
<1>5. CASE Acquire(p)
  BY <1>1, <1>5 DEF Acquire, Goto, Exit, TypeOK, reports
<1>6. CASE Crash(p)
  BY <1>1, <1>2, <1>6 DEF Crash, Goto, Exit, TypeOK, reports
<1>. QED
  BY <1>1, <1>3, <1>4, <1>5, <1>6 DEF Actions, Run, Prepare, Write, Put, Written, Delete, Remove,
     Deleted, WriteStamp, PutStamp, Finish, Undo, Restore, Undone, StepFails, RestoreFails

LEMMA InsideStep ==
  ASSUME KInv, NEW p \in Procs, Actions(p) \/ \E v \in Products : Show(p, v), Transacting(p)
  PROVE  \/ /\ UNCHANGED <<lock, told, plan>> /\ Working(p)'
            /\ Working(p) \/ (pc[p] = "check" /\ file = plan[p])
         \/ Crash(p)
         \/ (Prepare(p) \/ Finish(p) \/ Undone(p)) /\ \E r \in {"none", "applied", "rolledback", "incomplete"} : End(p, r)
<1>1. TypeOK /\ pc[p] \notin {"idle", "shown", "lock"}
  BY DEF Transacting, KInv, IInv
<1>2. CASE Prepare(p)
  BY <1>1, <1>2 DEF Prepare, Goto, TypeOK, Working, wish, reports
<1>3. CASE Write(p) \/ Delete(p) \/ WriteStamp(p)
  BY <1>1, <1>3 DEF Write, Delete, WriteStamp, Look, Fail, Goto, TypeOK, Working, wish, reports
<1>4. CASE Put(p) \/ Remove(p) \/ PutStamp(p)
  BY <1>1, <1>4 DEF Put, Remove, PutStamp, Change, Goto, TypeOK, Working, wish, reports
<1>5. CASE Written(p) \/ Deleted(p) \/ StepFails(p)
  BY <1>1, <1>5 DEF Written, Deleted, StepFails, Fail, Goto, TypeOK, Working, wish, reports
<1>6. CASE Finish(p)
  BY <1>1, <1>6 DEF Finish, Fail, Goto, TypeOK, Working, wish, reports
<1>7. CASE Undo(p) \/ Restore(p) \/ RestoreFails(p)
  BY <1>1, <1>7 DEF Undo, Restore, RestoreFails, Pass, Goto, TypeOK, Working, wish, reports
<1>8. CASE Undone(p)
  BY <1>8 DEF Undone
<1>. QED
  BY <1>1, <1>2, <1>3, <1>4, <1>5, <1>6, <1>7, <1>8 DEF Actions, Run, Apply, Acquire, Show

\* The end of a transaction: applied, refused, rolled back or reported.
LEMMA EndSound ==
  ASSUME KInv, FileSound, PlanSound, NEW p \in Procs, Prepare(p) \/ Finish(p) \/ Undone(p),
         NEW r \in {"none", "applied", "rolledback", "incomplete"}, End(p, r)
  PROVE  Sound(file)'
<1>a. TypeOK /\ Knows(p) /\ file' = file
  BY DEF KInv, IInv, Prepare, Finish, Undone
<1>1. CASE Prepare(p)
  <2>0. pc[p] = "check" /\ pc'[p] = "idle"
    BY <1>a, <1>1 DEF Prepare, End, Exit, Goto, TypeOK
  <2>1. CASE r = "applied"
    <3>1. file = plan[p] /\ Writes(p) = {} /\ Deletes(p) = {}
      BY <1>1, <1>a, <2>0, <2>1 DEF Prepare, End, Goto, TypeOK
    <3>2. file[Stamp] = target[p] /\ \A q \in Paths \ {Stamp} : file[q] \in {Want(target[p], q)} \cup Edits
      BY <3>1 DEF Writes, Deletes, Want
    <3>3. target[p] \in Products
      BY <1>a, <2>0 DEF Knows, Chosen
    <3>4. \A q \in Paths : ~BehindIn(file, q)
      BY <3>2, <3>3, InstalledSound
    <3>. QED BY <1>a, <3>4 DEF Sound, BehindIn
  <2>2. CASE r = "none"
    <3>1. told' = told
      BY <2>2 DEF End
    <3>2. Sound(file)
      BY <2>0 DEF FileSound, Forward
    <3>. QED BY <1>a, <3>1, <3>2 DEF Sound, BehindIn
  <2>3. CASE r \in {"rolledback", "incomplete"}
    BY <1>1, <1>a, <2>0, <2>3 DEF Prepare, End, Goto, TypeOK
  <2>. QED BY <2>1, <2>2, <2>3
<1>2. CASE Finish(p)
  <2>1. file[Stamp] = target[p] /\ \A q \in Paths \ {Stamp} : file[q] \in {Want(target[p], q)} \cup Edits
    BY <1>2, <1>a DEF Finish, Knows, Complete, Wanted
  <2>2. target[p] \in Products
    BY <1>2, <1>a DEF Finish, Knows, Chosen
  <2>3. \A q \in Paths : ~BehindIn(file, q)
    BY <2>1, <2>2, InstalledSound
  <2>. QED BY <1>a, <2>3 DEF Sound, BehindIn
<1>3. CASE Undone(p)
  <2>1. /\ \A q \in Paths : q \in errs[p] \/ file[q] \in {plan[p][q]} \cup Edits
        /\ told \subseteq told'
        /\ (told' = told /\ errs[p] = {}) \/ (told' = told \cup errs[p])
        /\ Sound(plan[p]) /\ plan[p][Stamp] \in 0..MaxVersion
    <3>1. pc[p] = "undo" /\ todo[p] = {} /\ End(p, IF errs[p] = {} THEN "rolledback" ELSE "incomplete")
      BY <1>3 DEF Undone
    <3>2. Sound(plan[p])
      BY <3>1 DEF PlanSound, Working
    <3>3. plan[p][Stamp] \in 0..MaxVersion
      BY <1>a, <3>1 DEF Knows, Chosen, Products
    <3>. QED BY <1>a, <3>1, <3>2, <3>3 DEF Knows, Returned, End
  <2>2. file[Stamp] \in 0..MaxVersion
    BY DEF KInv, StampIsVersion
  <2> SUFFICES ASSUME Stamp \notin told', NEW q \in Paths \ told' PROVE ~BehindIn(file, q)
    BY <1>a DEF Sound, BehindIn
  <2>3. Stamp \notin errs[p] /\ q \notin errs[p] /\ ~BehindIn(plan[p], q)
    BY <2>1 DEF Sound
  <2>4. file[Stamp] = plan[p][Stamp]
    BY <2>1, <2>2, <2>3 DEF Edits
  <2>5. CASE file[q] = plan[p][q]
    BY <2>3, <2>4, <2>5 DEF BehindIn
  <2>6. CASE file[q] \in Edits
    BY <2>2, <2>6 DEF BehindIn, Edits, Versions
  <2>. QED BY <2>1, <2>3, <2>5, <2>6
<1>. QED BY <1>1, <1>2, <1>3

LEMMA NextUpgrade == KInv /\ UpgradeInv /\ [Next]_vars => UpgradeInv'
<1>0. (KInv /\ PlanSound => \A p \in Procs : Forward(p) /\ pc[p] # "check" => Sound(file))'
  BY ForwardSound, PTL
<1> SUFFICES ASSUME KInv, UpgradeInv, [Next]_vars, ~cut'
             PROVE  FileSound' /\ PlanSound'
  BY DEF UpgradeInv
<1>a. KInv' /\ TypeOK
  BY NextKInv DEF KInv, IInv
<1>b. ~cut
  BY DEF Next, Run, Apply, Acquire, Prepare, Write, Put, Written, Delete, Remove, Deleted, WriteStamp,
     PutStamp, Finish, Undo, Restore, Undone, StepFails, RestoreFails, Crash, Show, Edit, ghosts, vars
<1>c. FileSound /\ PlanSound
  BY <1>b DEF UpgradeInv
<1>1. ASSUME NEW x \in Paths, Edit(x) PROVE FileSound' /\ PlanSound'
  <2>1. UNCHANGED <<lock, pc, plan, told>>
    BY <1>1 DEF Edit, wish, reports
  <2>2. PlanSound'
    BY <1>c, <2>1 DEF PlanSound, Working, Sound, BehindIn, FileSound
  <2>3. FileSound'
    BY <1>1, <1>c, <2>1, EditSound DEF FileSound, Forward
  <2>. QED BY <2>2, <2>3
<1>2. CASE UNCHANGED vars
  BY <1>2, <1>c DEF vars, wish, reports, FileSound, PlanSound, Sound, BehindIn, Forward, Working
<1>3. ASSUME NEW p \in Procs, Actions(p) \/ \E v \in Products : Show(p, v)
      PROVE  FileSound' /\ PlanSound'
  <2>1. Apart(p)
    BY <1>3, <1>a, OthersApart
  <2>2. CASE ~Transacting(p)
    <3>1. /\ UNCHANGED <<file, told>>
          /\ \/ lock' = lock /\ pc'[p] \in {"idle", "shown", "lock"}
             \/ lock = {} /\ lock' = {p} /\ pc'[p] = "check"
      BY <1>3, <2>2, OutsideStep
    <3>2. PlanSound'
      BY <1>c, <2>1, <3>1 DEF PlanSound, Working, Sound, BehindIn, Apart
    <3>3. FileSound'
      BY <1>c, <2>1, <3>1 DEF FileSound, Forward, Sound, BehindIn, Apart
    <3>. QED BY <3>2, <3>3
  <2>3. CASE Transacting(p)
    <3>1. p \in lock /\ lock = {p} /\ \A r \in Procs \ {p} : ~Transacting(r)
      BY <1>a, <2>3, Alone DEF KInv, IInv, Locked, TypeOK
    <3>2. \A r \in Procs \ {p} : ~Working(r)' /\ ~Forward(r)'
      BY <2>1, <3>1 DEF Apart, Transacting, Working, Forward
    <3>3. ASSUME lock' = {}, pc'[p] = "idle", Sound(file)' PROVE FileSound' /\ PlanSound'
      <4>1. \A r \in Procs : ~Working(r)'
        BY <3>2, <3>3 DEF Working
      <4>. QED BY <3>3, <4>1 DEF FileSound, PlanSound
    <3>4. CASE Crash(p)
      <4>1. lock' = {} /\ pc'[p] = "idle" /\ UNCHANGED <<file, told>> /\ pc[p] \notin {"undo", "restore"}
        BY <1>a, <1>b, <3>1, <3>4 DEF Crash, Exit, Goto, TypeOK, reports
      <4>2. Forward(p)
        BY <1>a, <2>3, <4>1 DEF Transacting, Forward, TypeOK
      <4>3. Sound(file)'
        BY <1>c, <4>1, <4>2 DEF FileSound, Sound, BehindIn
      <4>. QED BY <3>3, <4>1, <4>3
    <3>5. CASE (Prepare(p) \/ Finish(p) \/ Undone(p)) /\ \E r \in {"none", "applied", "rolledback", "incomplete"} : End(p, r)
      <4>1. Sound(file)'
        BY <1>c, <3>5, EndSound
      <4>2. lock' = {} /\ pc'[p] = "idle"
        BY <1>a, <3>1, <3>5 DEF End, Exit, Goto, TypeOK
      <4>. QED BY <3>3, <4>1, <4>2
    <3>6. CASE /\ UNCHANGED <<lock, told, plan>> /\ Working(p)'
               /\ Working(p) \/ (pc[p] = "check" /\ file = plan[p])
      <4>1. Sound(plan[p])
        BY <1>c, <3>6 DEF PlanSound, FileSound, Forward
      <4>2. PlanSound'
        BY <3>2, <3>6, <4>1 DEF PlanSound, Sound, BehindIn
      <4>3. \A r \in Procs : Forward(r)' => Sound(file)'
        BY <1>0, <1>a, <3>2, <3>6, <4>2 DEF Working
      <4>. QED BY <3>1, <3>6, <4>2, <4>3 DEF FileSound
    <3>. QED BY <1>3, <2>3, <3>4, <3>5, <3>6, InsideStep
  <2>. QED BY <2>2, <2>3
<1>. QED BY <1>1, <1>2, <1>3 DEF Next, Actions

\* While nothing runs, no path is behind the version in the stamp, unless a rollback was
\* cut short by a crash, or said that it could not restore the path: for any number of
\* commands, paths, versions, edits and faults.
THEOREM NoUpgradeIsFalse == Spec => []UncutNoFalseUpgrade
<1>1. Init => KInv /\ UpgradeInv
  <2> SUFFICES ASSUME Init PROVE KInv /\ UpgradeInv
    OBVIOUS
  <2>1. file[Stamp] \in {0, 1} /\ \A q \in Paths : file[q] = file[Stamp]
    BY DEF Init, Gone
  <2>2. Sound(file)
    BY <2>1 DEF Sound, BehindIn
  <2>3. PlanSound
    BY DEF Init, PlanSound, Working
  <2>. QED BY <2>2, <2>3, InitKInv DEF UpgradeInv, FileSound
<1>2. KInv /\ UpgradeInv /\ [Next]_vars => KInv' /\ UpgradeInv'
  BY NextKInv, NextUpgrade
<1>3. UpgradeInv => UncutNoFalseUpgrade
  BY DEF UpgradeInv, FileSound, Sound, BehindIn, UncutNoFalseUpgrade, NoFalseUpgrade, Behind
<1>. QED BY <1>1, <1>2, <1>3, PTL DEF Spec
=============================================================================
