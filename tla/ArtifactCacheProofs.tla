--------------------------- MODULE ArtifactCacheProofs ---------------------------
(***************************************************************************)
(* Safety of the artifact cache for every set of preparations, artifacts,  *)
(* assets, names of operations, capacity and number of faults: its types,  *)
(* its capacity, and what makes room for another entry.                    *)
(*                                                                         *)
(* The lock leaves one preparation at work.  What it is about to make has  *)
(* its unit of the capacity, and its recency is above all others, so that  *)
(* recencies are in the order of the uses.  What is counted of an asset is *)
(* what is shown: an entry that a touch hides has been seen before.        *)
(***************************************************************************)
EXTENDS ArtifactCache, FiniteSetTheorems, TLAPS

-----------------------------------------------------------------------------
(* Types. *)

\* What fills a place that is not in use is of its type.
LEMMA SomeTyped == SomeKey \in Keys /\ SomeNonce \in Nonces
<1>1. Nonces # {}
  BY NoncesAssumption, BoundsAssumption, FS_EmptySet
<1> QED
  BY <1>1, KeysAssumption DEF SomeKey, SomeNonce

\* Leaving, claiming a journal, cleaning up and going on keep the types.
LEMMA LeaveTyped ==
  ASSUME TypeOK, NEW p \in Procs, NEW o \in {"none", "ready", "refused"}, Leave(p, o)
  PROVE  /\ lock' \subseteq lock /\ pc' \in [Procs -> Labels]
         /\ wish' \in [Procs -> SUBSET Keys] /\ pending' \in [Procs -> SUBSET Keys]
         /\ todo' \in [Procs -> SUBSET Nonces] /\ key' \in [Procs -> Keys]
         /\ op' \in [Procs -> Nonces] /\ next' \in [Procs -> Nat]
         /\ doing' \in [Procs -> {"stage", "retired", "touch"}]
         /\ protected' \in [Procs -> SUBSET Keys]
         /\ outcome' \in [Procs -> {"none", "ready", "refused"}]
  BY SomeTyped DEF Leave, Goto, TypeOK, Labels
\* A claim keeps the types.
LEMMA ClaimTyped ==
  ASSUME TypeOK, NEW p \in Procs, NEW k \in Keys, NEW o \in {"stage", "retired", "touch"},
         Claim(p, k, o)
  PROVE  /\ journal' \in [Nonces -> {"none", "torn", "stage", "retired", "touch"}]
         /\ doing' \in [Procs -> {"stage", "retired", "touch"}]
         /\ subject' \in [Nonces -> Keys] /\ op' \in [Procs -> Nonces]
         /\ odd' \subseteq Nonces /\ pc' \in [Procs -> Labels] /\ place' = place
  BY DEF Claim, First, Free, Goto, TypeOK, Labels
\* Cleaning up keeps the types.
LEMMA CleanTyped ==
  ASSUME TypeOK, NEW n \in Nonces, CleanStep(n) \/ DropJournal(n)
  PROVE  /\ journal' \in [Nonces -> {"none", "torn", "stage", "retired", "touch"}]
         /\ subject' \in [Nonces -> Keys] /\ place' \in [Nonces -> {"none", "part", "full"}]
         /\ temp' \subseteq Keys
<1>1. CASE CleanStep(n)
  BY <1>1 DEF CleanStep, TypeOK
<1>2. CASE DropJournal(n)
  BY <1>2, SomeTyped DEF DropJournal, Forget, TypeOK
<1> QED
  BY <1>1, <1>2
\* What follows an operation keeps the types.
LEMMA DoneTyped ==
  ASSUME TypeOK, NEW p \in Procs, NEW ok \in BOOLEAN, Done(p, ok)
  PROVE  /\ pc' \in [Procs -> Labels] /\ pending' \in [Procs -> SUBSET Keys]
         /\ protected' \in [Procs -> SUBSET Keys]
  BY DEF Done, Goto, TypeOK, Labels

\* Every step keeps the types.
LEMMA CacheTypes ==
  ASSUME TypeOK, [Next]_vars
  PROVE  TypeOK'
<1> USE SomeTyped
    DEF Goto, entries, ops, hand, work, ghosts, bounds, TypeOK, Labels
<1>1. ASSUME NEW p \in Procs, Start(p) PROVE TypeOK'
  BY <1>1 DEF Start
<1>2. ASSUME NEW p \in Procs, Create(p) PROVE TypeOK'
  <2>1. CASE Leave(p, "refused")
    BY <1>2, <2>1, LeaveTyped DEF Create
  <2>2. CASE ~Leave(p, "refused")
    BY <1>2, <2>2 DEF Create
  <2> QED
    BY <2>1, <2>2
<1>3. ASSUME NEW p \in Procs, WriteOwner(p) PROVE TypeOK'
  BY <1>3 DEF WriteOwner
<1>4. ASSUME NEW p \in Procs, Acquire(p) PROVE TypeOK'
  <2>1. CASE Leave(p, "refused") /\ UNCHANGED uses
    BY <1>4, <2>1, LeaveTyped DEF Acquire
  <2>2. CASE lock' = {p} /\ Enter(p)
    <3>1. uses' \in Nat /\ wish' \in [Procs -> SUBSET Keys]
      <4>1. PICK W \in SUBSET Keys : uses + Cardinality(W) <= MaxUses
                                     /\ uses' = uses + Cardinality(W)
                                     /\ wish' = [wish EXCEPT ![p] = W]
        BY <2>2 DEF Enter, Wants
      <4>2. Cardinality(W) \in Nat
        BY KeysAssumption, FS_Subset, FS_CardinalityType
      <4> QED
        BY <4>1, <4>2
    <3>2. todo' \in [Procs -> SUBSET Nonces] /\ pc' \in [Procs -> Labels]
      BY <2>2 DEF Enter
    <3> QED
      BY <1>4, <2>2, <3>1, <3>2 DEF Acquire, Enter
  <2> QED
    BY <1>4, <2>1, <2>2 DEF Acquire
<1>5. ASSUME NEW p \in Procs, Recover(p) PROVE TypeOK'
  <2>1. todo' \in [Procs -> SUBSET Nonces] /\ op' \in [Procs -> Nonces]
    BY <1>5 DEF Recover
  <2>2. pc' \in [Procs -> Labels]
    BY <1>5 DEF Recover
  <2> QED
    BY <1>5, <2>1, <2>2 DEF Recover
<1>6. ASSUME NEW p \in Procs, Mend(p) PROVE TypeOK'
  <2>1. op[p] \in Nonces
    OBVIOUS
  <2>2. pc' \in [Procs -> Labels]
    BY <1>6 DEF Mend
  <2> QED
    BY <1>6, <2>1, <2>2, CleanTyped DEF Mend
<1>7. ASSUME NEW p \in Procs, Sync(p) PROVE TypeOK'
  BY <1>7 DEF Sync, Begins
<1>8. ASSUME NEW p \in Procs, Finish(p) PROVE TypeOK'
  <2>1. pc' \in [Procs -> Labels] /\ pending' \in [Procs -> SUBSET Keys]
        /\ protected' \in [Procs -> SUBSET Keys]
    BY <1>8, DoneTyped DEF Finish
  <2>2. /\ journal' \in [Nonces -> {"none", "torn", "stage", "retired", "touch"}]
        /\ subject' \in [Nonces -> Keys] /\ place' \in [Nonces -> {"none", "part", "full"}]
        /\ temp' \subseteq Keys
    BY <1>8, CleanTyped DEF Finish
  <2> QED
    BY <1>8, <2>1, <2>2 DEF Finish
<1>9. ASSUME NEW p \in Procs, Load(p) PROVE TypeOK'
  <2>1. PICK k \in First(wish[p]) :
          /\ wish' = [wish EXCEPT ![p] = wish[p] \ {k}] /\ key' = [key EXCEPT ![p] = k]
          /\ \/ k \in Owned \ bad /\ Number(p) /\ Claim(p, k, "touch") /\ UNCHANGED pending
             \/ Miss(p, k) /\ UNCHANGED <<pc, ops, op, doing, next, blind>>
    BY <1>9 DEF Load
  <2>2. k \in Keys
    BY <2>1 DEF First
  <2>3. CASE Number(p) /\ Claim(p, k, "touch") /\ UNCHANGED pending
    <3>1. next' \in [Procs -> Nat] /\ blind' \in BOOLEAN
      BY <2>3 DEF Number
    <3> QED
      BY <1>9, <2>1, <2>2, <2>3, <3>1, ClaimTyped DEF Load
  <2>4. CASE Miss(p, k) /\ UNCHANGED <<pc, ops, op, doing, next, blind>>
    BY <1>9, <2>1, <2>2, <2>4 DEF Load, Miss
  <2> QED
    BY <2>1, <2>3, <2>4
<1>10. ASSUME NEW p \in Procs, Temp(p) PROVE TypeOK'
  BY <1>10 DEF Temp
<1>11. ASSUME NEW p \in Procs, Replace(p) PROVE TypeOK'
  BY <1>11 DEF Replace, Uses
<1>12. ASSUME NEW p \in Procs, Loaded(p) PROVE TypeOK'
  BY <1>12 DEF Loaded
<1>13. ASSUME NEW p \in Procs, Store(p) PROVE TypeOK'
  <2>1. PICK k \in Keys :
          /\ key' = [key EXCEPT ![p] = k]
          /\ \/ k \notin stored /\ Goto(p, "number") /\ UNCHANGED <<ops, op, doing, pending>>
             \/ Claim(p, k, "retired") /\ UNCHANGED pending
             \/ Fails(p, k) /\ UNCHANGED <<ops, op, doing>>
    BY <1>13 DEF Store, First
  <2>2. CASE Claim(p, k, "retired") /\ UNCHANGED pending
    BY <1>13, <2>1, <2>2, ClaimTyped DEF Store
  <2>3. CASE Goto(p, "number") /\ UNCHANGED <<ops, op, doing, pending>>
    BY <1>13, <2>1, <2>3 DEF Store
  <2>4. CASE Fails(p, k) /\ UNCHANGED <<ops, op, doing>>
    BY <1>13, <2>1, <2>4 DEF Store, Fails
  <2> QED
    BY <2>1, <2>2, <2>3, <2>4
<1>14. ASSUME NEW p \in Procs, Numbered(p) PROVE TypeOK'
  BY <1>14 DEF Numbered, Number
<1>15. ASSUME NEW p \in Procs, Reserve(p) PROVE TypeOK'
  <2>1. CASE \E e \in Keys, o \in {"stage", "retired"} : Claim(p, e, o) /\ UNCHANGED pending
    BY <1>15, <2>1, ClaimTyped DEF Reserve
  <2>2. CASE Fails(p, key[p]) /\ UNCHANGED <<ops, op, doing>>
    BY <1>15, <2>2 DEF Reserve, Fails
  <2> QED
    BY <1>15, <2>1, <2>2 DEF Reserve, Oldest, Evictable, Owned
<1>16. ASSUME NEW p \in Procs, Rename(p) PROVE TypeOK'
  BY <1>16 DEF Rename, Owned
<1>17. ASSUME NEW p \in Procs, Mkdir(p) PROVE TypeOK'
  BY <1>17 DEF Mkdir
<1>18. ASSUME NEW p \in Procs, WriteFiles(p) PROVE TypeOK'
  BY <1>18 DEF WriteFiles
<1>19. ASSUME NEW p \in Procs, Publish(p) PROVE TypeOK'
  BY <1>19 DEF Publish, Uses
<1>20. ASSUME NEW p \in Procs, Close(p) PROVE TypeOK'
  BY <1>20 DEF Close, Leave
<1>21. ASSUME NEW p \in Procs, FinishFails(p) PROVE TypeOK'
  <2>1. pc' \in [Procs -> Labels] /\ pending' \in [Procs -> SUBSET Keys]
        /\ protected' \in [Procs -> SUBSET Keys]
    BY <1>21, DoneTyped DEF FinishFails
  <2> QED
    BY <1>21, <2>1 DEF FinishFails, Calm, Fault
<1>22. ASSUME NEW p \in Procs, RenameFails(p) PROVE TypeOK'
  BY <1>22 DEF RenameFails, Forget, Fails, Calm, Fault
<1>23. ASSUME NEW p \in Procs, StepFails(p) PROVE TypeOK'
  <2>1. pc' \in [Procs -> Labels] /\ pending' \in [Procs -> SUBSET Keys]
        /\ protected' \in [Procs -> SUBSET Keys]
    BY <1>23, DoneTyped DEF StepFails
  <2> QED
    BY <1>23, <2>1 DEF StepFails, Calm, Fault
<1>24. ASSUME NEW p \in Procs, Crash(p) PROVE TypeOK'
  BY <1>24 DEF Crash, Leave, Fault
<1>25. ASSUME NEW k \in Keys, Tamper(k) PROVE TypeOK'
  BY <1>25 DEF Tamper, Fault
<1>26. CASE UNCHANGED vars
  BY <1>26 DEF vars
<1> QED
  BY <1>1, <1>2, <1>3, <1>4, <1>5, <1>6, <1>7, <1>8, <1>9, <1>10, <1>11, <1>12, <1>13,
    <1>14, <1>15, <1>16, <1>17, <1>18, <1>19, <1>20, <1>21, <1>22, <1>23, <1>24, <1>25,
    <1>26 DEF Next, Run

-----------------------------------------------------------------------------
(* The lock. *)

Inside == Labels \ {"idle", "create", "owner", "lock"}
\* Whoever is past the lock holds it.
LockShape == DOMAIN pc = Procs /\ lock \subseteq Procs
LockInv ==
  \A p \in Procs : /\ pc[p] \in Inside => lock = {p}
                   /\ pc[p] \notin Inside => p \notin lock

\* The lock is taken when it is free and left on the way out.
LEMMA StepLock ==
  ASSUME LockShape, LockInv, [Next]_vars
  PROVE  LockInv'
<1> USE DEF Goto, entries, ops, hand, work, ghosts, bounds, LockShape, LockInv, Inside, Labels
<1>1. ASSUME NEW p \in Procs, Start(p) PROVE LockInv'
  BY <1>1 DEF Start
<1>2. ASSUME NEW p \in Procs, Create(p) PROVE LockInv'
  BY <1>2 DEF Create, Leave
<1>3. ASSUME NEW p \in Procs, WriteOwner(p) PROVE LockInv'
  BY <1>3 DEF WriteOwner
<1>4. ASSUME NEW p \in Procs, Acquire(p) PROVE LockInv'
  BY <1>4 DEF Acquire, Enter, Wants, Leave
<1>5. ASSUME NEW p \in Procs, Recover(p) PROVE LockInv'
  BY <1>5 DEF Recover
<1>6. ASSUME NEW p \in Procs, Mend(p) PROVE LockInv'
  BY <1>6 DEF Mend, CleanStep, DropJournal, Forget
<1>7. ASSUME NEW p \in Procs, Sync(p) PROVE LockInv'
  BY <1>7 DEF Sync, Begins
<1>8. ASSUME NEW p \in Procs, Finish(p) PROVE LockInv'
  BY <1>8 DEF Finish, CleanStep, DropJournal, Forget, Done
<1>9. ASSUME NEW p \in Procs, Load(p) PROVE LockInv'
  BY <1>9 DEF Load, Number, Claim, Miss, First, Free
<1>10. ASSUME NEW p \in Procs, Temp(p) PROVE LockInv'
  BY <1>10 DEF Temp
<1>11. ASSUME NEW p \in Procs, Replace(p) PROVE LockInv'
  BY <1>11 DEF Replace, Uses
<1>12. ASSUME NEW p \in Procs, Loaded(p) PROVE LockInv'
  BY <1>12 DEF Loaded
<1>13. ASSUME NEW p \in Procs, Store(p) PROVE LockInv'
  BY <1>13 DEF Store, Claim, Fails, First, Free
<1>14. ASSUME NEW p \in Procs, Numbered(p) PROVE LockInv'
  BY <1>14 DEF Numbered, Number
<1>15. ASSUME NEW p \in Procs, Reserve(p) PROVE LockInv'
  BY <1>15 DEF Reserve, Claim, Fails, First, Free, Oldest, Evictable
<1>16. ASSUME NEW p \in Procs, Rename(p) PROVE LockInv'
  BY <1>16 DEF Rename
<1>17. ASSUME NEW p \in Procs, Mkdir(p) PROVE LockInv'
  BY <1>17 DEF Mkdir
<1>18. ASSUME NEW p \in Procs, WriteFiles(p) PROVE LockInv'
  BY <1>18 DEF WriteFiles
<1>19. ASSUME NEW p \in Procs, Publish(p) PROVE LockInv'
  BY <1>19 DEF Publish, Uses
<1>20. ASSUME NEW p \in Procs, Close(p) PROVE LockInv'
  BY <1>20 DEF Close, Leave
<1>21. ASSUME NEW p \in Procs, FinishFails(p) PROVE LockInv'
  BY <1>21 DEF FinishFails, Done, Calm, Fault
<1>22. ASSUME NEW p \in Procs, RenameFails(p) PROVE LockInv'
  BY <1>22 DEF RenameFails, Forget, Fails, Calm, Fault
<1>23. ASSUME NEW p \in Procs, StepFails(p) PROVE LockInv'
  BY <1>23 DEF StepFails, Done, Calm, Fault
<1>24. ASSUME NEW p \in Procs, Crash(p) PROVE LockInv'
  BY <1>24 DEF Crash, Leave, Fault
<1>25. ASSUME NEW k \in Keys, Tamper(k) PROVE LockInv'
  BY <1>25 DEF Tamper
<1>26. CASE UNCHANGED vars
  BY <1>26 DEF vars
<1> QED
  BY <1>1, <1>2, <1>3, <1>4, <1>5, <1>6, <1>7, <1>8, <1>9, <1>10, <1>11, <1>12, <1>13,
    <1>14, <1>15, <1>16, <1>17, <1>18, <1>19, <1>20, <1>21, <1>22, <1>23, <1>24, <1>25,
    <1>26 DEF Next, Run

\* So who is past the lock is there alone.
LEMMA Alone ==
  ASSUME LockInv, NEW p \in Procs, pc[p] \in Inside
  PROVE  \A r \in Procs : r # p => pc[r] \notin Inside
  BY DEF LockInv

-----------------------------------------------------------------------------
(* The capacity. *)

\* What is in hand, and the directories there are.
HandShape ==
  /\ DOMAIN pc = Procs /\ op \in [Procs -> Nonces] /\ key \in [Procs -> Keys]
  /\ doing \in [Procs -> {"stage", "retired", "touch"}] /\ subject \in [Nonces -> Keys]
  /\ place \in [Nonces -> {"none", "part", "full"}] /\ stored \subseteq Keys
  /\ next \in [Procs -> Nat] /\ protected \in [Procs -> SUBSET Keys]

Places == {n \in Nonces : place[n] # "none"}
\* What is about to go is there, and what is being made has its directory.
Victim ==
  \A p \in Procs : pc[p] = "rename" \/ (pc[p] = "sync" /\ doing[p] = "retired")
                     => subject[op[p]] \in stored
Made == \A p \in Procs : pc[p] \in {"write", "publish"} => place[op[p]] # "none"
\* The place of what is about to be made is free.
RoomLeft ==
  \A p \in Procs : pc[p] = "mkdir" \/ (pc[p] = "sync" /\ doing[p] = "stage")
                     => Units + 1 <= MaxUnits
Finite == IsFiniteSet(stored) /\ IsFiniteSet(Places)
CapacityInv == Finite /\ Units <= MaxUnits /\ Victim /\ Made /\ RoomLeft

\* What loading, storing and making room may do, with what follows a claim left out.
LEMMA ClaimIs ==
  ASSUME HandShape, NEW p \in Procs, NEW k, NEW o, Claim(p, k, o)
  PROVE  /\ pc' = [pc EXCEPT ![p] = "sync"] /\ doing' = [doing EXCEPT ![p] = o]
         /\ subject'[op'[p]] = k /\ place' = place
<1>1. PICK n \in First(Free) :
        /\ doing' = [doing EXCEPT ![p] = o] /\ subject' = [subject EXCEPT ![n] = k]
        /\ op' = [op EXCEPT ![p] = n] /\ Goto(p, "sync") /\ place' = place
  BY DEF Claim
<1>2. n \in Nonces
  BY DEF First, Free
<1> QED
  BY <1>1, <1>2 DEF Goto, HandShape
\* An entry is missed, or a touch of it begins.
LEMMA LoadIs ==
  ASSUME HandShape, NEW p \in Procs, Load(p)
  PROVE  /\ UNCHANGED <<entries, protected, turn, clock>> /\ place' = place
         /\ \/ pc' = pc /\ UNCHANGED <<doing, next, blind>>
            \/ /\ Number(p) /\ pc' = [pc EXCEPT ![p] = "sync"]
               /\ doing' = [doing EXCEPT ![p] = "touch"]
<1>1. PICK k :
        \/ Number(p) /\ Claim(p, k, "touch")
        \/ UNCHANGED <<pc, ops, op, doing, next, blind>>
  BY DEF Load
<1>2. UNCHANGED <<entries, protected, turn, clock>>
  BY DEF Load
<1>3. CASE Number(p) /\ Claim(p, k, "touch")
  BY <1>2, <1>3, ClaimIs
<1> QED
  BY <1>1, <1>2, <1>3 DEF ops
\* An entry is numbered, what is in its way goes first, or it fails.
LEMMA StoreIs ==
  ASSUME HandShape, NEW p \in Procs, Store(p)
  PROVE  /\ UNCHANGED <<entries, next, protected, turn, clock, blind>> /\ place' = place
         /\ \/ pc' = [pc EXCEPT ![p] = "number"] /\ UNCHANGED doing
            \/ /\ pc' = [pc EXCEPT ![p] = "sync"] /\ doing' = [doing EXCEPT ![p] = "retired"]
               /\ subject'[op'[p]] = key'[p]
            \/ pc' = [pc EXCEPT ![p] = "store"] /\ UNCHANGED doing
<1>1. PICK k \in First(pending[p]) :
        /\ key' = [key EXCEPT ![p] = k]
        /\ \/ Goto(p, "number") /\ UNCHANGED <<ops, op, doing>>
           \/ Claim(p, k, "retired")
           \/ Fails(p, k) /\ UNCHANGED <<ops, op, doing>>
  BY DEF Store
<1>2. UNCHANGED <<entries, next, protected, turn, clock, blind>>
  BY DEF Store, ghosts
<1>3. CASE Claim(p, k, "retired")
  BY <1>1, <1>2, <1>3, ClaimIs DEF HandShape
<1> QED
  BY <1>1, <1>2, <1>3 DEF ops, Goto, Fails
\* There is room, or what was used longest ago goes, or the store fails.
LEMMA ReserveIs ==
  ASSUME HandShape, NEW p \in Procs, Reserve(p)
  PROVE  /\ UNCHANGED <<entries, key, next, protected, ghosts>> /\ place' = place
         /\ \/ /\ Room(key[p]) /\ pc' = [pc EXCEPT ![p] = "sync"]
               /\ doing' = [doing EXCEPT ![p] = "stage"]
            \/ /\ pc' = [pc EXCEPT ![p] = "sync"] /\ doing' = [doing EXCEPT ![p] = "retired"]
               /\ subject'[op'[p]] \in Oldest(Evictable(p, key[p]))
            \/ pc' = [pc EXCEPT ![p] = "store"] /\ UNCHANGED doing
<1>1. UNCHANGED <<entries, key, next, protected, ghosts>>
  BY DEF Reserve
<1>2. CASE Room(key[p]) /\ Claim(p, key[p], "stage")
  BY <1>1, <1>2, ClaimIs
<1>3. ASSUME NEW e \in Oldest(Evictable(p, key[p])), Claim(p, e, "retired")
      PROVE  /\ pc' = [pc EXCEPT ![p] = "sync"] /\ doing' = [doing EXCEPT ![p] = "retired"]
             /\ subject'[op'[p]] \in Oldest(Evictable(p, key[p])) /\ place' = place
  BY <1>3, ClaimIs
<1>4. CASE Fails(p, key[p]) /\ UNCHANGED <<ops, op, doing>>
  BY <1>1, <1>4 DEF Fails, Goto, ops
<1> QED
  BY <1>1, <1>2, <1>3, <1>4 DEF Reserve

\* Steps that change what is stored, or the directories of operations; no other does.
EntryStep(p) ==
  Replace(p) \/ Rename(p) \/ Mkdir(p) \/ WriteFiles(p) \/ Publish(p)
SameEntries ==
  /\ UNCHANGED <<stored, used, turn, clock>> /\ foreign \subseteq foreign'
  /\ Places' \subseteq Places

\* Steps of an operation.  In any other, who is at one stays at it.
Working ==
  {"sync", "temp", "replace", "rename", "mkdir", "write", "publish", "finish", "reserve"}
WorkStep(p) ==
  \/ Sync(p) \/ Finish(p) \/ Load(p) \/ Temp(p) \/ Replace(p) \/ Store(p) \/ Numbered(p)
  \/ Reserve(p) \/ Rename(p) \/ Mkdir(p) \/ WriteFiles(p) \/ Publish(p)
Still(r) ==
  /\ pc'[r] = pc[r] /\ key'[r] = key[r] /\ doing'[r] = doing[r] /\ next'[r] = next[r]
  /\ protected'[r] = protected[r] /\ op'[r] = op[r] /\ subject'[op'[r]] = subject[op[r]]
  /\ UNCHANGED <<stored, used, temp, place, turn>> /\ foreign \subseteq foreign'
OthersAreStill == \A r \in Procs : pc'[r] \in Working => Still(r)

\* The rest changes no entries, and leaves who is at work where it is.
LEMMA EntriesMove ==
  ASSUME HandShape, [Next]_vars
  PROVE  (\E q \in Procs : EntryStep(q)) \/ SameEntries
<1> USE DEF Goto, entries, ops, hand, work, ghosts, bounds, HandShape, SameEntries, Places,
       EntryStep
<1>1. ASSUME NEW p \in Procs, Start(p)
      PROVE (\E q \in Procs : EntryStep(q)) \/ SameEntries
  BY <1>1 DEF Start
<1>2. ASSUME NEW p \in Procs, Create(p)
      PROVE (\E q \in Procs : EntryStep(q)) \/ SameEntries
  BY <1>2 DEF Create, Leave
<1>3. ASSUME NEW p \in Procs, WriteOwner(p)
      PROVE (\E q \in Procs : EntryStep(q)) \/ SameEntries
  BY <1>3 DEF WriteOwner
<1>4. ASSUME NEW p \in Procs, Acquire(p)
      PROVE (\E q \in Procs : EntryStep(q)) \/ SameEntries
  BY <1>4 DEF Acquire, Enter, Wants, Leave
<1>5. ASSUME NEW p \in Procs, Recover(p)
      PROVE (\E q \in Procs : EntryStep(q)) \/ SameEntries
  BY <1>5 DEF Recover
<1>6. ASSUME NEW p \in Procs, Mend(p) PROVE (\E q \in Procs : EntryStep(q)) \/ SameEntries
  BY <1>6 DEF Mend, CleanStep, DropJournal, Forget
<1>7. ASSUME NEW p \in Procs, Sync(p) PROVE (\E q \in Procs : EntryStep(q)) \/ SameEntries
  BY <1>7 DEF Sync, Begins
<1>8. ASSUME NEW p \in Procs, Finish(p)
      PROVE (\E q \in Procs : EntryStep(q)) \/ SameEntries
  BY <1>8 DEF Finish, CleanStep, DropJournal, Forget, Done
<1>9. ASSUME NEW p \in Procs, Load(p) PROVE (\E q \in Procs : EntryStep(q)) \/ SameEntries
  BY <1>9, LoadIs DEF ghosts
<1>10. ASSUME NEW p \in Procs, Temp(p)
       PROVE (\E q \in Procs : EntryStep(q)) \/ SameEntries
  BY <1>10 DEF Temp
<1>11. ASSUME NEW p \in Procs, Replace(p)
       PROVE (\E q \in Procs : EntryStep(q)) \/ SameEntries
  BY <1>11
<1>12. ASSUME NEW p \in Procs, Loaded(p)
       PROVE (\E q \in Procs : EntryStep(q)) \/ SameEntries
  BY <1>12 DEF Loaded
<1>13. ASSUME NEW p \in Procs, Store(p)
       PROVE (\E q \in Procs : EntryStep(q)) \/ SameEntries
  BY <1>13, StoreIs DEF ghosts
<1>14. ASSUME NEW p \in Procs, Numbered(p)
       PROVE (\E q \in Procs : EntryStep(q)) \/ SameEntries
  BY <1>14 DEF Numbered, Number
<1>15. ASSUME NEW p \in Procs, Reserve(p)
       PROVE (\E q \in Procs : EntryStep(q)) \/ SameEntries
  BY <1>15, ReserveIs DEF ghosts
<1>16. ASSUME NEW p \in Procs, Rename(p)
       PROVE (\E q \in Procs : EntryStep(q)) \/ SameEntries
  BY <1>16
<1>17. ASSUME NEW p \in Procs, Mkdir(p)
       PROVE (\E q \in Procs : EntryStep(q)) \/ SameEntries
  BY <1>17
<1>18. ASSUME NEW p \in Procs, WriteFiles(p)
       PROVE (\E q \in Procs : EntryStep(q)) \/ SameEntries
  BY <1>18
<1>19. ASSUME NEW p \in Procs, Publish(p)
       PROVE (\E q \in Procs : EntryStep(q)) \/ SameEntries
  BY <1>19
<1>20. ASSUME NEW p \in Procs, Close(p)
       PROVE (\E q \in Procs : EntryStep(q)) \/ SameEntries
  BY <1>20 DEF Close, Leave
<1>21. ASSUME NEW p \in Procs, FinishFails(p)
       PROVE (\E q \in Procs : EntryStep(q)) \/ SameEntries
  BY <1>21 DEF FinishFails, Done, Calm, Fault
<1>22. ASSUME NEW p \in Procs, RenameFails(p)
       PROVE (\E q \in Procs : EntryStep(q)) \/ SameEntries
  BY <1>22 DEF RenameFails, Forget, Fails, Calm, Fault
<1>23. ASSUME NEW p \in Procs, StepFails(p)
       PROVE (\E q \in Procs : EntryStep(q)) \/ SameEntries
  BY <1>23 DEF StepFails, Done, Calm, Fault
<1>24. ASSUME NEW p \in Procs, Crash(p)
       PROVE (\E q \in Procs : EntryStep(q)) \/ SameEntries
  BY <1>24 DEF Crash, Leave, Fault
<1>25. ASSUME NEW k \in Keys, Tamper(k)
       PROVE (\E q \in Procs : EntryStep(q)) \/ SameEntries
  BY <1>25 DEF Tamper, Fault
<1>26. CASE UNCHANGED vars
  BY <1>26 DEF vars
<1> QED
  BY <1>1, <1>2, <1>3, <1>4, <1>5, <1>6, <1>7, <1>8, <1>9, <1>10, <1>11, <1>12, <1>13,
    <1>14, <1>15, <1>16, <1>17, <1>18, <1>19, <1>20, <1>21, <1>22, <1>23, <1>24, <1>25,
    <1>26 DEF Next, Run

\* Who is at work stays where it is in a step of another.
LEMMA OthersStill ==
  ASSUME HandShape, LockInv, [Next]_vars
  PROVE  (\E q \in Procs : WorkStep(q)) \/ OthersAreStill
<1> USE DEF Goto, entries, ops, hand, work, ghosts, bounds, HandShape, LockInv, Inside,
        Labels, OthersAreStill, Still, Working, WorkStep
<1>1. ASSUME NEW p \in Procs, Start(p)
      PROVE (\E q \in Procs : WorkStep(q)) \/ OthersAreStill
  BY <1>1 DEF Start
<1>2. ASSUME NEW p \in Procs, Create(p)
      PROVE (\E q \in Procs : WorkStep(q)) \/ OthersAreStill
  BY <1>2 DEF Create, Leave
<1>3. ASSUME NEW p \in Procs, WriteOwner(p)
      PROVE (\E q \in Procs : WorkStep(q)) \/ OthersAreStill
  BY <1>3 DEF WriteOwner
<1>4. ASSUME NEW p \in Procs, Acquire(p)
      PROVE (\E q \in Procs : WorkStep(q)) \/ OthersAreStill
  BY <1>4 DEF Acquire, Enter, Wants, Leave
<1>5. ASSUME NEW p \in Procs, Recover(p)
      PROVE (\E q \in Procs : WorkStep(q)) \/ OthersAreStill
  BY <1>5 DEF Recover
<1>6. ASSUME NEW p \in Procs, Mend(p)
      PROVE (\E q \in Procs : WorkStep(q)) \/ OthersAreStill
  <2>1. pc[p] = "mend" /\ pc'[p] \in {"mend", "recover"}
    BY <1>6 DEF Mend
  <2>2. \A r \in Procs : r # p => pc'[r] = pc[r]
    BY ONLY <1>6, HandShape DEF Mend, HandShape, Goto
  <2>3. \A r \in Procs : r # p => pc[r] \notin Inside
    <3>1. pc[p] \in Inside
      BY ONLY <2>1 DEF Inside, Labels
    <3> QED
      BY ONLY <3>1, LockInv, Alone
  <2> QED
    BY <2>1, <2>2, <2>3
<1>7. ASSUME NEW p \in Procs, Sync(p)
      PROVE (\E q \in Procs : WorkStep(q)) \/ OthersAreStill
  BY <1>7
<1>8. ASSUME NEW p \in Procs, Finish(p)
      PROVE (\E q \in Procs : WorkStep(q)) \/ OthersAreStill
  BY <1>8
<1>9. ASSUME NEW p \in Procs, Load(p)
      PROVE (\E q \in Procs : WorkStep(q)) \/ OthersAreStill
  BY <1>9
<1>10. ASSUME NEW p \in Procs, Temp(p)
       PROVE (\E q \in Procs : WorkStep(q)) \/ OthersAreStill
  BY <1>10
<1>11. ASSUME NEW p \in Procs, Replace(p)
       PROVE (\E q \in Procs : WorkStep(q)) \/ OthersAreStill
  BY <1>11
<1>12. ASSUME NEW p \in Procs, Loaded(p)
       PROVE (\E q \in Procs : WorkStep(q)) \/ OthersAreStill
  BY <1>12 DEF Loaded
<1>13. ASSUME NEW p \in Procs, Store(p)
       PROVE (\E q \in Procs : WorkStep(q)) \/ OthersAreStill
  BY <1>13
<1>14. ASSUME NEW p \in Procs, Numbered(p)
       PROVE (\E q \in Procs : WorkStep(q)) \/ OthersAreStill
  BY <1>14
<1>15. ASSUME NEW p \in Procs, Reserve(p)
       PROVE (\E q \in Procs : WorkStep(q)) \/ OthersAreStill
  BY <1>15
<1>16. ASSUME NEW p \in Procs, Rename(p)
       PROVE (\E q \in Procs : WorkStep(q)) \/ OthersAreStill
  BY <1>16
<1>17. ASSUME NEW p \in Procs, Mkdir(p)
       PROVE (\E q \in Procs : WorkStep(q)) \/ OthersAreStill
  BY <1>17
<1>18. ASSUME NEW p \in Procs, WriteFiles(p)
       PROVE (\E q \in Procs : WorkStep(q)) \/ OthersAreStill
  BY <1>18
<1>19. ASSUME NEW p \in Procs, Publish(p)
       PROVE (\E q \in Procs : WorkStep(q)) \/ OthersAreStill
  BY <1>19
<1>20. ASSUME NEW p \in Procs, Close(p)
       PROVE (\E q \in Procs : WorkStep(q)) \/ OthersAreStill
  <2>1. \A r \in Procs : r # p => pc'[r] = pc[r] /\ pc[r] \notin Inside
    <3>1. pc[p] \in Inside
      BY ONLY <1>20 DEF Close, Inside, Labels
    <3>2. \A r \in Procs : r # p => pc'[r] = pc[r]
      BY ONLY <1>20, HandShape DEF Close, Leave, Goto, HandShape
    <3> QED
      BY ONLY <3>1, <3>2, LockInv, Alone
  <2>2. pc'[p] \notin Working
    BY <1>20 DEF Close, Leave
  <2> QED
    BY <2>1, <2>2
<1>21. ASSUME NEW p \in Procs, FinishFails(p)
       PROVE (\E q \in Procs : WorkStep(q)) \/ OthersAreStill
  BY <1>21 DEF FinishFails, Done, Calm, Fault
<1>22. ASSUME NEW p \in Procs, RenameFails(p)
       PROVE (\E q \in Procs : WorkStep(q)) \/ OthersAreStill
  <2>1. \A r \in Procs : r # p => pc'[r] = pc[r] /\ pc[r] \notin Inside
    <3>1. pc[p] \in Inside
      BY ONLY <1>22 DEF RenameFails, Inside, Labels
    <3>2. \A r \in Procs : r # p => pc'[r] = pc[r]
      BY ONLY <1>22, HandShape DEF RenameFails, Fails, Goto, HandShape
    <3> QED
      BY ONLY <3>1, <3>2, LockInv, Alone
  <2>2. pc'[p] \notin Working
    BY <1>22 DEF RenameFails, Fails
  <2> QED
    BY <2>1, <2>2
<1>23. ASSUME NEW p \in Procs, StepFails(p)
       PROVE (\E q \in Procs : WorkStep(q)) \/ OthersAreStill
  BY <1>23 DEF StepFails, Done, Calm, Fault
<1>24. ASSUME NEW p \in Procs, Crash(p)
       PROVE (\E q \in Procs : WorkStep(q)) \/ OthersAreStill
  BY <1>24 DEF Crash, Leave, Fault
<1>25. ASSUME NEW k \in Keys, Tamper(k)
       PROVE (\E q \in Procs : WorkStep(q)) \/ OthersAreStill
  BY <1>25 DEF Tamper, Fault
<1>26. CASE UNCHANGED vars
  BY <1>26 DEF vars
<1> QED
  BY <1>1, <1>2, <1>3, <1>4, <1>5, <1>6, <1>7, <1>8, <1>9, <1>10, <1>11, <1>12, <1>13,
    <1>14, <1>15, <1>16, <1>17, <1>18, <1>19, <1>20, <1>21, <1>22, <1>23, <1>24, <1>25,
    <1>26 DEF Next, Run

\* What the directories count, one more and one less.
LEMMA UnitsAre ==
  ASSUME Finite
  PROVE  /\ Cardinality(stored) \in Nat /\ Cardinality(Places) \in Nat
         /\ Units = Cardinality(stored) + Cardinality(Places)
  BY FS_CardinalityType DEF Finite, Units, Places
\* When nothing is added, they count no more.
LEMMA FewerUnits ==
  ASSUME Finite, stored' \subseteq stored, Places' \subseteq Places
  PROVE  Finite' /\ Units' \in Nat /\ Units \in Nat /\ Units' <= Units
<1>1. /\ IsFiniteSet(stored') /\ Cardinality(stored') <= Cardinality(stored)
      /\ IsFiniteSet(Places') /\ Cardinality(Places') <= Cardinality(Places)
  BY FS_Subset DEF Finite
<1>2. Cardinality(stored') \in Nat /\ Cardinality(Places') \in Nat
  BY <1>1, FS_CardinalityType
<1>3. Units' = Cardinality(stored') + Cardinality(Places')
  BY DEF Units, Places
<1> QED
  BY <1>1, <1>2, <1>3, UnitsAre DEF Finite
\* A directory adds one place at most.
LEMMA OneMorePlace ==
  ASSUME Finite, NEW n, Places' \subseteq Places \cup {n}
  PROVE  /\ IsFiniteSet(Places') /\ Cardinality(Places') \in Nat
         /\ Cardinality(Places') <= Cardinality(Places) + 1
<1>0. IsFiniteSet(Places) /\ Cardinality(Places) \in Nat
  BY UnitsAre DEF Finite
<1>1. /\ IsFiniteSet(Places \cup {n})
      /\ Cardinality(Places \cup {n}) <= Cardinality(Places) + 1
  BY <1>0, FS_AddElement
<1>2. IsFiniteSet(Places') /\ Cardinality(Places') <= Cardinality(Places \cup {n})
  BY <1>1, FS_Subset
<1>3. Cardinality(Places') \in Nat /\ Cardinality(Places \cup {n}) \in Nat
  BY <1>1, <1>2, FS_CardinalityType
<1> QED
  BY <1>1, <1>2, <1>3, UnitsAre
\* A directory adds one unit at most.
LEMMA MoreUnits ==
  ASSUME Finite, NEW n, stored' = stored, Places' \subseteq Places \cup {n}
  PROVE  Finite' /\ Units' \in Nat /\ Units' <= Units + 1
<1>1. Units' = Cardinality(stored) + Cardinality(Places')
  BY DEF Units, Places
<1>2. IsFiniteSet(Places') /\ Cardinality(Places') \in Nat
      /\ Cardinality(Places') <= Cardinality(Places) + 1
  BY OneMorePlace
<1> QED
  BY <1>1, <1>2, UnitsAre DEF Finite
\* A removal moves its unit.
LEMMA MovedUnits ==
  ASSUME Finite, NEW v \in stored, stored' = stored \ {v},
         NEW n, Places' \subseteq Places \cup {n}
  PROVE  Finite' /\ Units' \in Nat /\ Units' <= Units
<1>1. IsFiniteSet(stored') /\ Cardinality(stored') = Cardinality(stored) - 1
  BY FS_RemoveElement DEF Finite
<1>2. Cardinality(stored') \in Nat
  BY <1>1, FS_CardinalityType
<1>3. Units' = Cardinality(stored') + Cardinality(Places')
  BY DEF Units, Places
<1>4. IsFiniteSet(Places') /\ Cardinality(Places') \in Nat
      /\ Cardinality(Places') <= Cardinality(Places) + 1
  BY OneMorePlace
<1>5. IsFiniteSet(stored') /\ Cardinality(stored) \in Nat /\ Cardinality(Places) \in Nat
      /\ Units = Cardinality(stored) + Cardinality(Places)
  BY <1>1, UnitsAre
<1> QED
  BY <1>1, <1>2, <1>3, <1>4, <1>5 DEF Finite
\* So does a publication.
LEMMA PublishedUnits ==
  ASSUME Finite, NEW k, stored' = stored \cup {k},
         NEW n \in Places, Places' = Places \ {n}
  PROVE  Finite' /\ Units' \in Nat /\ Units' <= Units
<1>1. /\ IsFiniteSet(stored') /\ Cardinality(stored') <= Cardinality(stored) + 1
      /\ IsFiniteSet(Places') /\ Cardinality(Places') = Cardinality(Places) - 1
  BY FS_AddElement, FS_RemoveElement, UnitsAre DEF Finite
<1>2. Cardinality(stored') \in Nat /\ Cardinality(Places') \in Nat
  BY <1>1, FS_CardinalityType
<1> QED
  BY <1>1, <1>2, UnitsAre DEF Finite, Units, Places

\* What a removal is about and what is written stay where they are until it is done.
LEMMA StepVictim ==
  ASSUME HandShape, LockInv, Victim, Made, [Next]_vars
  PROVE  (Victim /\ Made)'
<1> USE DEF Goto, entries, ops, hand, work, ghosts, bounds, HandShape, LockInv, Victim, Made,
        Inside, Labels
<1>1. ASSUME NEW p \in Procs, Start(p) PROVE (Victim /\ Made)'
  BY <1>1 DEF Start
<1>2. ASSUME NEW p \in Procs, Create(p) PROVE (Victim /\ Made)'
  BY <1>2 DEF Create, Leave
<1>3. ASSUME NEW p \in Procs, WriteOwner(p) PROVE (Victim /\ Made)'
  BY <1>3 DEF WriteOwner
<1>4. ASSUME NEW p \in Procs, Acquire(p) PROVE (Victim /\ Made)'
  BY <1>4 DEF Acquire, Enter, Wants, Leave
<1>5. ASSUME NEW p \in Procs, Recover(p) PROVE (Victim /\ Made)'
  BY <1>5 DEF Recover
<1>6. ASSUME NEW p \in Procs, Mend(p) PROVE (Victim /\ Made)'
  <2>1. /\ pc'[p] \in {"mend", "recover"}
        /\ \A r \in Procs : r # p => pc'[r] = pc[r]
    BY <1>6 DEF Mend
  <2>2. \A r \in Procs : r # p => pc[r] \notin Inside
    <3>1. pc[p] \in Inside
      BY ONLY <1>6 DEF Mend, Inside, Labels
    <3> QED
      BY ONLY <3>1, LockInv, Alone
  <2> QED
    BY <2>1, <2>2
<1>7. ASSUME NEW p \in Procs, Sync(p) PROVE (Victim /\ Made)'
  BY <1>7 DEF Sync, Begins
<1>8. ASSUME NEW p \in Procs, Finish(p) PROVE (Victim /\ Made)'
  <2>1. /\ pc'[p] \in {"finish", "abort", "load", "store", "number", "reserve"}
        /\ \A r \in Procs : r # p => pc'[r] = pc[r]
    BY <1>8 DEF Finish, Done
  <2>2. \A r \in Procs : r # p => pc[r] \notin Inside
    <3>1. pc[p] \in Inside
      BY ONLY <1>8 DEF Finish, Inside, Labels
    <3> QED
      BY ONLY <3>1, LockInv, Alone
  <2> QED
    BY <2>1, <2>2
<1>9. ASSUME NEW p \in Procs, Load(p) PROVE (Victim /\ Made)'
  BY <1>9 DEF Load, Number, Claim, Miss, First, Free, Owned
<1>10. ASSUME NEW p \in Procs, Temp(p) PROVE (Victim /\ Made)'
  BY <1>10 DEF Temp
<1>11. ASSUME NEW p \in Procs, Replace(p) PROVE (Victim /\ Made)'
  BY <1>11 DEF Replace, Uses
<1>12. ASSUME NEW p \in Procs, Loaded(p) PROVE (Victim /\ Made)'
  BY <1>12 DEF Loaded
<1>13. ASSUME NEW p \in Procs, Store(p) PROVE (Victim /\ Made)'
  BY <1>13 DEF Store, Claim, Fails, First, Free, Owned
<1>14. ASSUME NEW p \in Procs, Numbered(p) PROVE (Victim /\ Made)'
  BY <1>14 DEF Numbered, Number
<1>15. ASSUME NEW p \in Procs, Reserve(p) PROVE (Victim /\ Made)'
  <2>2. \A r \in Procs : r # p => pc[r] \notin Inside
    <3>1. pc[p] \in Inside
      BY ONLY <1>15 DEF Reserve, Inside, Labels
    <3> QED
      BY ONLY <3>1, LockInv, Alone
  <2>3. CASE Claim(p, key[p], "stage")
    BY <2>2, <2>3 DEF Claim
  <2>4. CASE \E e \in stored : Claim(p, e, "retired")
    BY <2>2, <2>4, <1>15 DEF Claim, First, Free, Reserve
  <2>5. CASE Fails(p, key[p])
    BY <2>2, <2>5, <1>15 DEF Fails
  <2> QED
    BY <1>15, <2>3, <2>4, <2>5 DEF Reserve, Oldest, Evictable, Owned
<1>16. ASSUME NEW p \in Procs, Rename(p) PROVE (Victim /\ Made)'
  BY <1>16 DEF Rename
<1>17. ASSUME NEW p \in Procs, Mkdir(p) PROVE (Victim /\ Made)'
  BY <1>17 DEF Mkdir
<1>18. ASSUME NEW p \in Procs, WriteFiles(p) PROVE (Victim /\ Made)'
  BY <1>18 DEF WriteFiles
<1>19. ASSUME NEW p \in Procs, Publish(p) PROVE (Victim /\ Made)'
  <2>1. /\ pc'[p] \in {"finish"}
        /\ \A r \in Procs : r # p => pc'[r] = pc[r]
    BY <1>19 DEF Publish
  <2>2. \A r \in Procs : r # p => pc[r] \notin Inside
    <3>1. pc[p] \in Inside
      BY ONLY <1>19 DEF Publish, Inside, Labels
    <3> QED
      BY ONLY <3>1, LockInv, Alone
  <2> QED
    BY <2>1, <2>2
<1>20. ASSUME NEW p \in Procs, Close(p) PROVE (Victim /\ Made)'
  BY <1>20 DEF Close, Leave
<1>21. ASSUME NEW p \in Procs, FinishFails(p) PROVE (Victim /\ Made)'
  BY <1>21 DEF FinishFails, Done, Calm, Fault
<1>22. ASSUME NEW p \in Procs, RenameFails(p) PROVE (Victim /\ Made)'
  <2>1. /\ pc[p] = "rename" /\ pc'[p] = "store"
        /\ \A r \in Procs : r # p => pc'[r] = pc[r]
    BY <1>22 DEF RenameFails, Fails
  <2>2. \A r \in Procs : r # p => pc[r] \notin Inside
    <3>1. pc[p] \in Inside
      BY ONLY <2>1 DEF Inside, Labels
    <3> QED
      BY ONLY <3>1, LockInv, Alone
  <2> QED
    BY <2>1, <2>2
<1>23. ASSUME NEW p \in Procs, StepFails(p) PROVE (Victim /\ Made)'
  BY <1>23 DEF StepFails, Done, Calm, Fault
<1>24. ASSUME NEW p \in Procs, Crash(p) PROVE (Victim /\ Made)'
  BY <1>24 DEF Crash, Leave, Fault
<1>25. ASSUME NEW k \in Keys, Tamper(k) PROVE (Victim /\ Made)'
  BY <1>25 DEF Tamper, Fault
<1>26. CASE UNCHANGED vars
  BY <1>26 DEF vars
<1> QED
  BY <1>1, <1>2, <1>3, <1>4, <1>5, <1>6, <1>7, <1>8, <1>9, <1>10, <1>11, <1>12, <1>13,
    <1>14, <1>15, <1>16, <1>17, <1>18, <1>19, <1>20, <1>21, <1>22, <1>23, <1>24, <1>25,
    <1>26 DEF Next, Run

\* The capacity is kept: a removal moves a unit, a publication gives one back, and a new
\* directory has its own.
LEMMA StepUnits ==
  ASSUME HandShape, CapacityInv, [Next]_vars
  PROVE  (Finite /\ Units <= MaxUnits)'
<1> USE BoundsAssumption, UnitsAre
    DEF Goto, entries, ops, hand, work, ghosts, bounds, HandShape, CapacityInv, Places
<1>1. ASSUME NEW p \in Procs, Replace(p) PROVE (Finite /\ Units <= MaxUnits)'
  <2>1. stored' = stored /\ place' = place
    BY <1>1 DEF Replace
  <2> QED
    BY <2>1, FewerUnits
<1>2. ASSUME NEW p \in Procs, Rename(p) PROVE (Finite /\ Units <= MaxUnits)'
  <2>1. PICK v \in stored : stored' = stored \ {v}
    BY <1>2 DEF Rename, Victim
  <2>2. Places' \subseteq Places \cup {op[p]}
    BY <1>2 DEF Rename
  <2>3. Finite' /\ Units' <= Units /\ Units' \in Nat
    BY ONLY <2>1, <2>2, MovedUnits, CapacityInv DEF CapacityInv
  <2> QED
    BY <2>3
<1>3. ASSUME NEW p \in Procs, Mkdir(p) PROVE (Finite /\ Units <= MaxUnits)'
  <2>1. stored' = stored /\ Places' \subseteq Places \cup {op[p]}
    BY <1>3 DEF Mkdir
  <2>2. Units + 1 <= MaxUnits
    BY <1>3 DEF Mkdir, RoomLeft
  <2>3. Finite' /\ Units' <= Units + 1 /\ Units' \in Nat
    BY ONLY <2>1, MoreUnits, CapacityInv DEF CapacityInv
  <2> QED
    BY <2>2, <2>3
<1>4. ASSUME NEW p \in Procs, WriteFiles(p) PROVE (Finite /\ Units <= MaxUnits)'
  <2>1. stored' = stored /\ Places' = Places
    BY <1>4 DEF WriteFiles, Made
  <2> QED
    BY <2>1, FewerUnits
<1>5. ASSUME NEW p \in Procs, Publish(p) PROVE (Finite /\ Units <= MaxUnits)'
  <2>1. stored' = stored \cup {key[p]} /\ op[p] \in Places /\ Places' = Places \ {op[p]}
    BY <1>5 DEF Publish, Made
  <2>2. Finite' /\ Units' \in Nat /\ Units' <= Units
    BY ONLY <2>1, PublishedUnits, CapacityInv DEF CapacityInv
  <2> QED
    BY <2>2
<1>6. CASE SameEntries
  BY <1>6, FewerUnits DEF SameEntries
<1> QED
  BY <1>1, <1>2, <1>3, <1>4, <1>5, <1>6, EntriesMove DEF EntryStep

\* Room that was found is there until it is used, for the lock keeps others out.
LEMMA StepRoomLeft ==
  ASSUME HandShape, LockInv, CapacityInv, [Next]_vars
  PROVE  RoomLeft'
<1>0. RoomLeft
  BY DEF CapacityInv
<1> USE <1>0 DEF Goto, entries, ops, hand, work, ghosts, bounds, HandShape, LockInv, RoomLeft,
        Inside, Labels
<1>1. ASSUME NEW p \in Procs, Sync(p) PROVE RoomLeft'
  <2>1. stored' = stored /\ place' = place
    BY <1>1 DEF Sync, Begins
  <2>2. Units' = Units
    BY <2>1 DEF Units
  <2> QED
    BY <2>1, <2>2, <1>1 DEF Sync, Begins
<1>2. ASSUME NEW p \in Procs, Finish(p) PROVE RoomLeft'
  <2>1. pc'[p] \in {"finish", "abort", "load", "store", "number", "reserve"}
    BY <1>2 DEF Finish, Done
  <2>2. \A r \in Procs : r # p => pc'[r] = pc[r] /\ pc[r] \notin Inside
    <3>1. pc[p] \in Inside
      BY ONLY <1>2 DEF Finish, Inside, Labels
    <3>2. \A r \in Procs : r # p => pc'[r] = pc[r]
      BY ONLY <1>2, HandShape DEF Finish, Done, Goto, HandShape
    <3> QED
      BY ONLY <3>1, <3>2, LockInv, Alone
  <2> QED
    BY <2>1, <2>2
<1>3. ASSUME NEW p \in Procs, Load(p) PROVE RoomLeft'
  <2>1. stored' = stored /\ place' = place
    BY <1>3 DEF Load, Number, Claim, Miss, First, Free, Owned
  <2>2. Units' = Units
    BY <2>1 DEF Units
  <2> QED
    BY <2>1, <2>2, <1>3 DEF Load, Number, Claim, Miss, First, Free, Owned
<1>4. ASSUME NEW p \in Procs, Temp(p) PROVE RoomLeft'
  <2>1. stored' = stored /\ place' = place
    BY <1>4 DEF Temp
  <2>2. Units' = Units
    BY <2>1 DEF Units
  <2> QED
    BY <2>1, <2>2, <1>4 DEF Temp
<1>5. ASSUME NEW p \in Procs, Replace(p) PROVE RoomLeft'
  <2>1. stored' = stored /\ place' = place
    BY <1>5 DEF Replace, Uses
  <2>2. Units' = Units
    BY <2>1 DEF Units
  <2> QED
    BY <2>1, <2>2, <1>5 DEF Replace, Uses
<1>6. ASSUME NEW p \in Procs, Store(p) PROVE RoomLeft'
  <2>1. stored' = stored /\ place' = place
    BY <1>6 DEF Store, Claim, Fails, First, Free, Owned
  <2>2. Units' = Units
    BY <2>1 DEF Units
  <2> QED
    BY <2>1, <2>2, <1>6 DEF Store, Claim, Fails, First, Free, Owned
<1>7. ASSUME NEW p \in Procs, Numbered(p) PROVE RoomLeft'
  <2>1. stored' = stored /\ place' = place
    BY <1>7 DEF Numbered, Number
  <2>2. Units' = Units
    BY <2>1 DEF Units
  <2> QED
    BY <2>1, <2>2, <1>7 DEF Numbered, Number
<1>8. ASSUME NEW p \in Procs, Reserve(p) PROVE RoomLeft'
  <2>1. stored' = stored /\ place' = place
    BY <1>8 DEF Reserve, Claim, Fails
  <2>2. Units' = Units
    BY <2>1 DEF Units
  <2>3. \A r \in Procs : r # p => pc'[r] = pc[r] /\ pc[r] \notin Inside
    <3>1. pc[p] \in Inside
      BY ONLY <1>8 DEF Reserve, Inside, Labels
    <3>2. \A r \in Procs : r # p => pc'[r] = pc[r]
      BY ONLY ReserveIs, <1>8, HandShape DEF HandShape
    <3> QED
      BY ONLY <3>1, <3>2, LockInv, Alone
  <2>4. CASE Room(key[p]) /\ Claim(p, key[p], "stage")
    BY <2>2, <2>3, <2>4, BoundsAssumption, UnitsAre DEF Room, Full, CapacityInv
  <2>5. CASE \E e \in stored : Claim(p, e, "retired")
    BY <2>3, <2>5 DEF Claim
  <2>6. CASE Fails(p, key[p])
    BY <2>3, <2>6 DEF Fails
  <2> QED
    BY <1>8, <2>4, <2>5, <2>6 DEF Reserve, Oldest, Evictable, Owned
<1>9. ASSUME NEW p \in Procs, Rename(p) PROVE RoomLeft'
  <2>1. pc'[p] \in {"finish"}
    BY <1>9 DEF Rename
  <2>2. \A r \in Procs : r # p => pc'[r] = pc[r] /\ pc[r] \notin Inside
    <3>1. pc[p] \in Inside
      BY ONLY <1>9 DEF Rename, Inside, Labels
    <3>2. \A r \in Procs : r # p => pc'[r] = pc[r]
      BY ONLY <1>9, HandShape DEF Rename, Goto, HandShape
    <3> QED
      BY ONLY <3>1, <3>2, LockInv, Alone
  <2> QED
    BY <2>1, <2>2
<1>10. ASSUME NEW p \in Procs, Mkdir(p) PROVE RoomLeft'
  <2>1. pc'[p] \in {"write"}
    BY <1>10 DEF Mkdir
  <2>2. \A r \in Procs : r # p => pc'[r] = pc[r] /\ pc[r] \notin Inside
    <3>1. pc[p] \in Inside
      BY ONLY <1>10 DEF Mkdir, Inside, Labels
    <3>2. \A r \in Procs : r # p => pc'[r] = pc[r]
      BY ONLY <1>10, HandShape DEF Mkdir, Goto, HandShape
    <3> QED
      BY ONLY <3>1, <3>2, LockInv, Alone
  <2> QED
    BY <2>1, <2>2
<1>11. ASSUME NEW p \in Procs, WriteFiles(p) PROVE RoomLeft'
  <2>1. pc'[p] \in {"publish"}
    BY <1>11 DEF WriteFiles
  <2>2. \A r \in Procs : r # p => pc'[r] = pc[r] /\ pc[r] \notin Inside
    <3>1. pc[p] \in Inside
      BY ONLY <1>11 DEF WriteFiles, Inside, Labels
    <3>2. \A r \in Procs : r # p => pc'[r] = pc[r]
      BY ONLY <1>11, HandShape DEF WriteFiles, Goto, HandShape
    <3> QED
      BY ONLY <3>1, <3>2, LockInv, Alone
  <2> QED
    BY <2>1, <2>2
<1>12. ASSUME NEW p \in Procs, Publish(p) PROVE RoomLeft'
  <2>1. pc'[p] \in {"finish"}
    BY <1>12 DEF Publish
  <2>2. \A r \in Procs : r # p => pc'[r] = pc[r] /\ pc[r] \notin Inside
    <3>1. pc[p] \in Inside
      BY ONLY <1>12 DEF Publish, Inside, Labels
    <3>2. \A r \in Procs : r # p => pc'[r] = pc[r]
      BY ONLY <1>12, HandShape DEF Publish, Goto, HandShape
    <3> QED
      BY ONLY <3>1, <3>2, LockInv, Alone
  <2> QED
    BY <2>1, <2>2
<1>13. CASE OthersAreStill
  <2> SUFFICES ASSUME NEW r \in Procs,
                      (pc[r] = "mkdir" \/ (pc[r] = "sync" /\ doing[r] = "stage"))'
               PROVE  (Units + 1 <= MaxUnits)'
    OBVIOUS
  <2>1. Still(r)
    BY <1>13 DEF OthersAreStill, Working
  <2> QED
    BY <2>1 DEF Still, Units
<1> QED
  BY <1>1, <1>2, <1>3, <1>4, <1>5, <1>6, <1>7, <1>8, <1>9, <1>10, <1>11, <1>12, <1>13,
    OthersStill DEF WorkStep

-----------------------------------------------------------------------------
(* The entries of one asset. *)

\* Where a preparation is that makes an entry, and from choosing its recency on.
Making(p) ==
  pc[p] \in {"mkdir", "write", "publish"} \/ (pc[p] = "sync" /\ doing[p] = "stage")
Evicting(p) ==
  /\ pc[p] = "rename" \/ (pc[p] = "sync" /\ doing[p] = "retired")
  /\ subject[op[p]] # key[p]
Evicted(p) == pc[p] = "finish" /\ doing[p] = "retired" /\ subject[op[p]] # key[p]
Storing(p) == pc[p] = "reserve" \/ Making(p) \/ Evicting(p) \/ Evicted(p)
Touching(p) == pc[p] \in {"temp", "replace"} \/ (pc[p] = "sync" /\ doing[p] = "touch")

\* The kind of an operation says where its steps are.
Kinds ==
  \A p \in Procs : /\ pc[p] \in {"mkdir", "write", "publish"} => doing[p] = "stage"
                   /\ pc[p] \in {"temp", "replace"} => doing[p] = "touch"
                   /\ pc[p] = "rename" => doing[p] = "retired"

\* Entries without an unknown file; of those a touch hides one for a time.
Shown(k) == {e \in stored \ foreign : Id[e] = Id[k]}
NoneHidden == \A p \in Procs : Storing(p) => temp \cap stored = {}
FewShown == \A k \in Keys : Cardinality(Shown(k)) <= Keep
RoomOfAsset == \A p \in Procs : Making(p) => Cardinality(Shown(key[p])) < Keep
KeepInv == Kinds /\ (~blind => NoneHidden /\ FewShown /\ RoomOfAsset)

\* A step of an operation is reached only in an operation of its kind.
LEMMA StepKinds ==
  ASSUME HandShape, LockInv, Kinds, [Next]_vars
  PROVE  Kinds'
<1> USE DEF Goto, entries, ops, hand, work, ghosts, bounds, HandShape, LockInv, Kinds, Inside,
        Labels
<1>1. ASSUME NEW p \in Procs, Start(p) PROVE Kinds'
  BY <1>1 DEF Start
<1>2. ASSUME NEW p \in Procs, Create(p) PROVE Kinds'
  BY <1>2 DEF Create, Leave
<1>3. ASSUME NEW p \in Procs, WriteOwner(p) PROVE Kinds'
  BY <1>3 DEF WriteOwner
<1>4. ASSUME NEW p \in Procs, Acquire(p) PROVE Kinds'
  BY <1>4 DEF Acquire, Enter, Wants, Leave
<1>5. ASSUME NEW p \in Procs, Recover(p) PROVE Kinds'
  BY <1>5 DEF Recover
<1>6. ASSUME NEW p \in Procs, Mend(p) PROVE Kinds'
  BY <1>6 DEF Mend, CleanStep, DropJournal, Forget
<1>7. ASSUME NEW p \in Procs, Sync(p) PROVE Kinds'
  BY <1>7 DEF Sync, Begins
<1>8. ASSUME NEW p \in Procs, Finish(p) PROVE Kinds'
  BY <1>8 DEF Finish, CleanStep, DropJournal, Forget, Done
<1>9. ASSUME NEW p \in Procs, Load(p) PROVE Kinds'
  BY <1>9 DEF Load, Number, Claim, Miss, First, Free, Owned
<1>10. ASSUME NEW p \in Procs, Temp(p) PROVE Kinds'
  BY <1>10 DEF Temp
<1>11. ASSUME NEW p \in Procs, Replace(p) PROVE Kinds'
  BY <1>11 DEF Replace, Uses
<1>12. ASSUME NEW p \in Procs, Loaded(p) PROVE Kinds'
  BY <1>12 DEF Loaded
<1>13. ASSUME NEW p \in Procs, Store(p) PROVE Kinds'
  BY <1>13 DEF Store, Claim, Fails, First, Free, Owned
<1>14. ASSUME NEW p \in Procs, Numbered(p) PROVE Kinds'
  BY <1>14 DEF Numbered, Number
<1>15. ASSUME NEW p \in Procs, Reserve(p) PROVE Kinds'
  BY <1>15 DEF Reserve, Claim, Fails, First, Free, Oldest, Evictable, Owned
<1>16. ASSUME NEW p \in Procs, Rename(p) PROVE Kinds'
  BY <1>16 DEF Rename
<1>17. ASSUME NEW p \in Procs, Mkdir(p) PROVE Kinds'
  BY <1>17 DEF Mkdir
<1>18. ASSUME NEW p \in Procs, WriteFiles(p) PROVE Kinds'
  BY <1>18 DEF WriteFiles
<1>19. ASSUME NEW p \in Procs, Publish(p) PROVE Kinds'
  BY <1>19 DEF Publish, Uses
<1>20. ASSUME NEW p \in Procs, Close(p) PROVE Kinds'
  BY <1>20 DEF Close, Leave
<1>21. ASSUME NEW p \in Procs, FinishFails(p) PROVE Kinds'
  BY <1>21 DEF FinishFails, Done, Calm, Fault
<1>22. ASSUME NEW p \in Procs, RenameFails(p) PROVE Kinds'
  BY <1>22 DEF RenameFails, Forget, Fails, Calm, Fault
<1>23. ASSUME NEW p \in Procs, StepFails(p) PROVE Kinds'
  BY <1>23 DEF StepFails, Done, Calm, Fault
<1>24. ASSUME NEW p \in Procs, Crash(p) PROVE Kinds'
  BY <1>24 DEF Crash, Leave, Fault
<1>25. ASSUME NEW k \in Keys, Tamper(k) PROVE Kinds'
  BY <1>25 DEF Tamper, Fault
<1>26. CASE UNCHANGED vars
  BY <1>26 DEF vars
<1> QED
  BY <1>1, <1>2, <1>3, <1>4, <1>5, <1>6, <1>7, <1>8, <1>9, <1>10, <1>11, <1>12, <1>13,
    <1>14, <1>15, <1>16, <1>17, <1>18, <1>19, <1>20, <1>21, <1>22, <1>23, <1>24, <1>25,
    <1>26 DEF Next, Run

\* What was chosen blindly stays so.
LEMMA BlindStays ==
  ASSUME blind \in BOOLEAN, [Next]_vars, ~blind'
  PROVE  ~blind
<1> USE DEF Goto, entries, ops, hand, work, ghosts, bounds
<1>1. ASSUME NEW p \in Procs, Start(p) PROVE ~blind
  BY <1>1 DEF Start
<1>2. ASSUME NEW p \in Procs, Create(p) PROVE ~blind
  BY <1>2 DEF Create, Leave
<1>3. ASSUME NEW p \in Procs, WriteOwner(p) PROVE ~blind
  BY <1>3 DEF WriteOwner
<1>4. ASSUME NEW p \in Procs, Acquire(p) PROVE ~blind
  BY <1>4 DEF Acquire, Enter, Wants, Leave
<1>5. ASSUME NEW p \in Procs, Recover(p) PROVE ~blind
  BY <1>5 DEF Recover
<1>6. ASSUME NEW p \in Procs, Mend(p) PROVE ~blind
  BY <1>6 DEF Mend, CleanStep, DropJournal, Forget
<1>7. ASSUME NEW p \in Procs, Sync(p) PROVE ~blind
  BY <1>7 DEF Sync, Begins
<1>8. ASSUME NEW p \in Procs, Finish(p) PROVE ~blind
  BY <1>8 DEF Finish, CleanStep, DropJournal, Forget, Done
<1>9. ASSUME NEW p \in Procs, Load(p) PROVE ~blind
  BY <1>9 DEF Load, Number, Claim, Miss, First, Free, Owned
<1>10. ASSUME NEW p \in Procs, Temp(p) PROVE ~blind
  BY <1>10 DEF Temp
<1>11. ASSUME NEW p \in Procs, Replace(p) PROVE ~blind
  BY <1>11 DEF Replace, Uses
<1>12. ASSUME NEW p \in Procs, Loaded(p) PROVE ~blind
  BY <1>12 DEF Loaded
<1>13. ASSUME NEW p \in Procs, Store(p) PROVE ~blind
  BY <1>13 DEF Store, Claim, Fails, First, Free, Owned
<1>14. ASSUME NEW p \in Procs, Numbered(p) PROVE ~blind
  BY <1>14 DEF Numbered, Number
<1>15. ASSUME NEW p \in Procs, Reserve(p) PROVE ~blind
  BY <1>15 DEF Reserve, Claim, Fails, First, Free, Oldest, Evictable, Owned
<1>16. ASSUME NEW p \in Procs, Rename(p) PROVE ~blind
  BY <1>16 DEF Rename
<1>17. ASSUME NEW p \in Procs, Mkdir(p) PROVE ~blind
  BY <1>17 DEF Mkdir
<1>18. ASSUME NEW p \in Procs, WriteFiles(p) PROVE ~blind
  BY <1>18 DEF WriteFiles
<1>19. ASSUME NEW p \in Procs, Publish(p) PROVE ~blind
  BY <1>19 DEF Publish, Uses
<1>20. ASSUME NEW p \in Procs, Close(p) PROVE ~blind
  BY <1>20 DEF Close, Leave
<1>21. ASSUME NEW p \in Procs, FinishFails(p) PROVE ~blind
  BY <1>21 DEF FinishFails, Done, Calm, Fault
<1>22. ASSUME NEW p \in Procs, RenameFails(p) PROVE ~blind
  BY <1>22 DEF RenameFails, Forget, Fails, Calm, Fault
<1>23. ASSUME NEW p \in Procs, StepFails(p) PROVE ~blind
  BY <1>23 DEF StepFails, Done, Calm, Fault
<1>24. ASSUME NEW p \in Procs, Crash(p) PROVE ~blind
  BY <1>24 DEF Crash, Leave, Fault
<1>25. ASSUME NEW k \in Keys, Tamper(k) PROVE ~blind
  BY <1>25 DEF Tamper, Fault
<1>26. CASE UNCHANGED vars
  BY <1>26 DEF vars
<1> QED
  BY <1>1, <1>2, <1>3, <1>4, <1>5, <1>6, <1>7, <1>8, <1>9, <1>10, <1>11, <1>12, <1>13,
    <1>14, <1>15, <1>16, <1>17, <1>18, <1>19, <1>20, <1>21, <1>22, <1>23, <1>24, <1>25,
    <1>26 DEF Next, Run

\* Nothing is hidden from the recency of an entry on until it is published.
LEMMA StepNoneHidden ==
  ASSUME HandShape, blind \in BOOLEAN, LockInv, Kinds, NoneHidden, [Next]_vars, ~blind'
  PROVE  NoneHidden'
<1> USE DEF Goto, entries, ops, hand, work, ghosts, bounds, HandShape, LockInv, NoneHidden,
        Inside, Labels, Storing, Making, Evicting, Evicted
<1>1. ASSUME NEW p \in Procs, Sync(p) PROVE NoneHidden'
  BY <1>1 DEF Sync, Begins
<1>2. ASSUME NEW p \in Procs, Finish(p) PROVE NoneHidden'
  <2>0. stored' = stored /\ temp' \subseteq temp /\ UNCHANGED <<key, op, doing>>
    BY ONLY <1>2 DEF Finish, CleanStep, DropJournal, hand
  <2>1. \A r \in Procs : r # p => pc'[r] = pc[r] /\ pc[r] \notin Inside
    <3>1. pc[p] \in Inside
      BY ONLY <1>2 DEF Finish, Inside, Labels
    <3>2. \A r \in Procs : r # p => pc'[r] = pc[r]
      BY ONLY <1>2, HandShape DEF Finish, Done, Goto, HandShape
    <3> QED
      BY ONLY <3>1, <3>2, LockInv, Alone
  <2>2. CASE UNCHANGED <<pc, subject>>
    BY <2>0, <2>1, <2>2
  <2>3. CASE Done(p, FALSE)
    <3>1. pc'[p] \in {"load", "store"}
      BY <2>3, <1>2 DEF Done, Finish
    <3> QED
      BY <2>0, <2>1, <3>1
  <2>4. CASE pc[p] = "finish" /\ Done(p, TRUE)
    <3>1. pc'[p] \in {"load", "store", "number"} \/ (pc'[p] = "reserve" /\ Evicted(p))
      BY <2>4, <1>2 DEF Done, Finish
    <3> QED
      BY <2>0, <2>1, <3>1
  <2> QED
    BY <1>2, <2>2, <2>3, <2>4 DEF Finish, CleanStep, DropJournal
<1>3. ASSUME NEW p \in Procs, Load(p) PROVE NoneHidden'
  <2>1. pc[p] = "load"
    BY <1>3 DEF Load
  <2>2. \A r \in Procs : r # p => pc[r] \notin Inside
    <3>1. pc[p] \in Inside
      BY ONLY <2>1 DEF Inside, Labels
    <3> QED
      BY ONLY <3>1, LockInv, Alone
  <2>3. /\ \A r \in Procs : r # p => pc'[r] = pc[r]
        /\ pc'[p] = "load" \/ (pc'[p] = "sync" /\ doing'[p] = "touch")
    BY ONLY LoadIs, <1>3, <2>1, HandShape DEF HandShape
  <2> QED
    BY <2>2, <2>3
<1>4. ASSUME NEW p \in Procs, Temp(p) PROVE NoneHidden'
  <2>1. \A r \in Procs : r # p => pc'[r] = pc[r] /\ pc[r] \notin Inside
    <3>1. pc[p] \in Inside
      BY ONLY <1>4 DEF Temp, Inside, Labels
    <3>2. \A r \in Procs : r # p => pc'[r] = pc[r]
      BY ONLY <1>4, HandShape DEF Temp, Goto, HandShape
    <3> QED
      BY ONLY <3>1, <3>2, LockInv, Alone
  <2>2. pc'[p] \in {"replace"}
    BY <1>4 DEF Temp
  <2> QED
    BY <2>1, <2>2
<1>5. ASSUME NEW p \in Procs, Replace(p) PROVE NoneHidden'
  <2>1. \A r \in Procs : r # p => pc'[r] = pc[r] /\ pc[r] \notin Inside
    <3>1. pc[p] \in Inside
      BY ONLY <1>5 DEF Replace, Inside, Labels
    <3>2. \A r \in Procs : r # p => pc'[r] = pc[r]
      BY ONLY <1>5, HandShape DEF Replace, Goto, HandShape
    <3> QED
      BY ONLY <3>1, <3>2, LockInv, Alone
  <2>2. pc'[p] = "finish" /\ doing'[p] = "touch"
    BY <1>5 DEF Replace, Uses, Kinds
  <2> QED
    BY <2>1, <2>2
<1>6. ASSUME NEW p \in Procs, Store(p) PROVE NoneHidden'
  <2>1. \A r \in Procs : r # p => pc[r] \notin Inside
    <3>1. pc[p] \in Inside
      BY ONLY <1>6 DEF Store, Inside, Labels
    <3> QED
      BY ONLY <3>1, LockInv, Alone
  <2>2. /\ \A r \in Procs : r # p => pc'[r] = pc[r]
        /\ \/ pc'[p] \in {"number", "store"}
           \/ pc'[p] = "sync" /\ doing'[p] = "retired" /\ subject'[op'[p]] = key'[p]
    BY ONLY StoreIs, <1>6, HandShape DEF HandShape
  <2> QED
    BY <2>1, <2>2
<1>7. ASSUME NEW p \in Procs, Numbered(p) PROVE NoneHidden'
  <2>1. \A r \in Procs : r # p => pc'[r] = pc[r] /\ pc[r] \notin Inside
    <3>1. pc[p] \in Inside
      BY ONLY <1>7 DEF Numbered, Inside, Labels
    <3>2. \A r \in Procs : r # p => pc'[r] = pc[r]
      BY ONLY <1>7, HandShape DEF Numbered, Goto, HandShape
    <3> QED
      BY ONLY <3>1, <3>2, LockInv, Alone
  <2>2. temp' = temp /\ stored' = stored /\ temp \cap stored = {}
    BY <1>7 DEF Numbered, Number, Owned
  <2> QED
    BY <2>1, <2>2
<1>8. ASSUME NEW p \in Procs, Reserve(p) PROVE NoneHidden'
  <2>1. \A r \in Procs : r # p => pc[r] \notin Inside
    <3>1. pc[p] \in Inside
      BY ONLY <1>8 DEF Reserve, Inside, Labels
    <3> QED
      BY ONLY <3>1, LockInv, Alone
  <2>2. \A r \in Procs : r # p => pc'[r] = pc[r]
    BY ONLY ReserveIs, <1>8, HandShape DEF HandShape
  <2>3. temp' = temp /\ stored' = stored /\ temp \cap stored = {}
    BY ReserveIs, <1>8 DEF Reserve
  <2> QED
    BY <2>1, <2>2, <2>3
<1>9. ASSUME NEW p \in Procs, Rename(p) PROVE NoneHidden'
  BY <1>9 DEF Rename
<1>10. ASSUME NEW p \in Procs, Mkdir(p) PROVE NoneHidden'
  BY <1>10 DEF Mkdir
<1>11. ASSUME NEW p \in Procs, WriteFiles(p) PROVE NoneHidden'
  BY <1>11 DEF WriteFiles
<1>12. ASSUME NEW p \in Procs, Publish(p) PROVE NoneHidden'
  <2>1. \A r \in Procs : r # p => pc'[r] = pc[r] /\ pc[r] \notin Inside
    <3>1. pc[p] \in Inside
      BY ONLY <1>12 DEF Publish, Inside, Labels
    <3>2. \A r \in Procs : r # p => pc'[r] = pc[r]
      BY ONLY <1>12, HandShape DEF Publish, Goto, HandShape
    <3> QED
      BY ONLY <3>1, <3>2, LockInv, Alone
  <2>2. pc'[p] = "finish" /\ doing'[p] = "stage"
    BY <1>12 DEF Publish, Uses, Kinds
  <2> QED
    BY <2>1, <2>2
<1>13. CASE OthersAreStill
  <2> SUFFICES ASSUME NEW r \in Procs, Storing(r)' PROVE (temp \cap stored = {})'
    OBVIOUS
  <2>1. Still(r)
    BY <1>13 DEF OthersAreStill, Working
  <2> QED
    BY <2>1 DEF Still
<1> QED
  BY <1>1, <1>2, <1>3, <1>4, <1>5, <1>6, <1>7, <1>8, <1>9, <1>10, <1>11, <1>12, <1>13,
    OthersStill DEF WorkStep

\* The entries of an asset that are shown: when there are no more, and one more.
LEMMA FewerShown ==
  ASSUME stored \subseteq Keys, stored' \ foreign' \subseteq stored \ foreign, NEW k
  PROVE  /\ Cardinality(Shown(k)) \in Nat /\ Cardinality(Shown(k)') \in Nat
         /\ Cardinality(Shown(k)') <= Cardinality(Shown(k))
<1>1. IsFiniteSet(Shown(k))
  BY KeysAssumption, FS_Subset DEF Shown
<1>2. Shown(k)' \subseteq Shown(k)
  BY DEF Shown
<1> QED
  BY <1>1, <1>2, FS_Subset, FS_CardinalityType
\* An entry adds one to those of its asset, and none to others.
LEMMA OneMoreShown ==
  ASSUME stored \subseteq Keys, NEW e, stored' = stored \cup {e}, foreign' = foreign, NEW k
  PROVE  /\ Cardinality(Shown(k)) \in Nat /\ Cardinality(Shown(k)') \in Nat
         /\ Cardinality(Shown(k)') <= Cardinality(Shown(k)) + 1
         /\ Id[e] # Id[k] => Shown(k)' = Shown(k)
<1>0. IsFiniteSet(Shown(k))
  BY KeysAssumption, FS_Subset DEF Shown
<1>1. IsFiniteSet(Shown(k)) /\ Cardinality(Shown(k)) \in Nat
  BY <1>0, FS_CardinalityType
<1>2. /\ IsFiniteSet(Shown(k) \cup {e})
      /\ Cardinality(Shown(k) \cup {e}) <= Cardinality(Shown(k)) + 1
  BY <1>1, FS_AddElement
<1>3. Shown(k)' \subseteq Shown(k) \cup {e}
  BY DEF Shown
<1>4. IsFiniteSet(Shown(k)') /\ Cardinality(Shown(k)') <= Cardinality(Shown(k) \cup {e})
  BY <1>2, <1>3, FS_Subset
<1>5. /\ Cardinality(Shown(k)) \in Nat /\ Cardinality(Shown(k)') \in Nat
      /\ Cardinality(Shown(k) \cup {e}) \in Nat
  BY <1>1, <1>2, <1>4, FS_CardinalityType
<1>6. Id[e] # Id[k] => Shown(k)' = Shown(k)
  BY DEF Shown
<1> QED
  BY <1>2, <1>4, <1>5, <1>6
\* When a touch hides none of them, these are the entries that count.
LEMMA SameAreShown ==
  ASSUME temp \cap stored = {}, NEW k
  PROVE  Same(k) = Shown(k)
  BY DEF Same, Shown, Owned

\* Only a publication adds an entry to an asset, and there was room for it.
LEMMA StepFewShown ==
  ASSUME HandShape, FewShown, RoomOfAsset, [Next]_vars
  PROVE  FewShown'
<1> USE BoundsAssumption
    DEF Goto, entries, ops, hand, work, ghosts, bounds, HandShape, FewShown
<1>1. ASSUME NEW p \in Procs, Replace(p) PROVE FewShown'
  <2>1. stored' \ foreign' \subseteq stored \ foreign
    BY <1>1 DEF Replace
  <2> QED
    BY <2>1, FewerShown
<1>2. ASSUME NEW p \in Procs, Rename(p) PROVE FewShown'
  <2>1. stored' \ foreign' \subseteq stored \ foreign
    BY <1>2 DEF Rename
  <2> QED
    BY <2>1, FewerShown
<1>3. ASSUME NEW p \in Procs, Mkdir(p) PROVE FewShown'
  <2>1. stored' \ foreign' \subseteq stored \ foreign
    BY <1>3 DEF Mkdir
  <2> QED
    BY <2>1, FewerShown
<1>4. ASSUME NEW p \in Procs, WriteFiles(p) PROVE FewShown'
  <2>1. stored' \ foreign' \subseteq stored \ foreign
    BY <1>4 DEF WriteFiles
  <2> QED
    BY <2>1, FewerShown
<1>5. ASSUME NEW p \in Procs, Publish(p) PROVE FewShown'
  <2>1. Cardinality(Shown(key[p])) < Keep
    BY <1>5 DEF Publish, RoomOfAsset, Making
  <2>2. stored' = stored \cup {key[p]} /\ foreign' = foreign
    BY <1>5 DEF Publish
  <2> SUFFICES ASSUME NEW k \in Keys PROVE Cardinality(Shown(k)') <= Keep
    OBVIOUS
  <2>3. CASE Id[key[p]] = Id[k]
    <3>1. Shown(k) = Shown(key[p])
      BY <2>3 DEF Shown
    <3> QED
      BY <2>1, <2>2, <3>1, OneMoreShown
  <2>4. CASE Id[key[p]] # Id[k]
    BY <2>2, <2>4, OneMoreShown
  <2> QED
    BY <2>3, <2>4
<1>6. CASE SameEntries
  <2>1. stored' \ foreign' \subseteq stored \ foreign
    BY <1>6 DEF SameEntries
  <2> QED
    BY <2>1, FewerShown
<1> QED
  BY <1>1, <1>2, <1>3, <1>4, <1>5, <1>6, EntriesMove DEF EntryStep

\* Room that was found for an asset is there until it is used.
LEMMA StepRoomOfAsset ==
  ASSUME HandShape, LockInv, NoneHidden, RoomOfAsset, [Next]_vars
  PROVE  RoomOfAsset'
<1> USE BoundsAssumption
    DEF Goto, entries, ops, hand, work, ghosts, bounds, HandShape, LockInv, RoomOfAsset,
        Making, Inside, Labels
<1>1. ASSUME NEW p \in Procs, Sync(p) PROVE RoomOfAsset'
  <2>1. stored' \ foreign' \subseteq stored \ foreign
    BY <1>1 DEF Sync, Begins
  <2>2. \A r \in Procs : Making(r)' => Making(r) /\ key'[r] = key[r]
    BY <1>1 DEF Sync, Begins
  <2> QED
    BY <2>1, <2>2, FewerShown
<1>2. ASSUME NEW p \in Procs, Finish(p) PROVE RoomOfAsset'
  <2>1. \A r \in Procs : r # p => pc'[r] = pc[r] /\ pc[r] \notin Inside
    <3>1. pc[p] \in Inside
      BY ONLY <1>2 DEF Finish, Inside, Labels
    <3>2. \A r \in Procs : r # p => pc'[r] = pc[r]
      BY ONLY <1>2, HandShape DEF Finish, Done, Goto, HandShape
    <3> QED
      BY ONLY <3>1, <3>2, LockInv, Alone
  <2>2. pc'[p] \in {"finish", "abort", "load", "store", "number", "reserve"}
    BY <1>2 DEF Finish, Done
  <2> QED
    BY <2>1, <2>2
<1>3. ASSUME NEW p \in Procs, Load(p) PROVE RoomOfAsset'
  <2>1. pc[p] = "load"
    BY <1>3 DEF Load
  <2>2. \A r \in Procs : r # p => pc[r] \notin Inside
    <3>1. pc[p] \in Inside
      BY ONLY <2>1 DEF Inside, Labels
    <3> QED
      BY ONLY <3>1, LockInv, Alone
  <2>3. /\ \A r \in Procs : r # p => pc'[r] = pc[r]
        /\ pc'[p] = "load" \/ (pc'[p] = "sync" /\ doing'[p] = "touch")
    BY ONLY LoadIs, <1>3, <2>1, HandShape DEF HandShape
  <2> QED
    BY <2>2, <2>3
<1>4. ASSUME NEW p \in Procs, Temp(p) PROVE RoomOfAsset'
  <2>1. stored' \ foreign' \subseteq stored \ foreign
    BY <1>4 DEF Temp
  <2>2. \A r \in Procs : Making(r)' => Making(r) /\ key'[r] = key[r]
    BY <1>4 DEF Temp
  <2> QED
    BY <2>1, <2>2, FewerShown
<1>5. ASSUME NEW p \in Procs, Replace(p) PROVE RoomOfAsset'
  <2>1. stored' \ foreign' \subseteq stored \ foreign
    BY <1>5 DEF Replace, Uses
  <2>2. \A r \in Procs : Making(r)' => Making(r) /\ key'[r] = key[r]
    BY <1>5 DEF Replace, Uses
  <2> QED
    BY <2>1, <2>2, FewerShown
<1>6. ASSUME NEW p \in Procs, Store(p) PROVE RoomOfAsset'
  <2>1. \A r \in Procs : r # p => pc[r] \notin Inside
    <3>1. pc[p] \in Inside
      BY ONLY <1>6 DEF Store, Inside, Labels
    <3> QED
      BY ONLY <3>1, LockInv, Alone
  <2>2. /\ \A r \in Procs : r # p => pc'[r] = pc[r]
        /\ \/ pc'[p] \in {"number", "store"}
           \/ pc'[p] = "sync" /\ doing'[p] = "retired"
    BY ONLY StoreIs, <1>6, HandShape DEF HandShape
  <2> QED
    BY <2>1, <2>2
<1>7. ASSUME NEW p \in Procs, Numbered(p) PROVE RoomOfAsset'
  <2>1. stored' \ foreign' \subseteq stored \ foreign
    BY <1>7 DEF Numbered, Number
  <2>2. \A r \in Procs : Making(r)' => Making(r) /\ key'[r] = key[r]
    BY <1>7 DEF Numbered, Number
  <2> QED
    BY <2>1, <2>2, FewerShown
<1>8. ASSUME NEW p \in Procs, Reserve(p) PROVE RoomOfAsset'
  <2>1. \A r \in Procs : r # p => pc[r] \notin Inside
    <3>1. pc[p] \in Inside
      BY ONLY <1>8 DEF Reserve, Inside, Labels
    <3> QED
      BY ONLY <3>1, LockInv, Alone
  <2>2. /\ \A r \in Procs : r # p => pc'[r] = pc[r]
        /\ \/ pc'[p] = "sync" /\ doing'[p] = "stage" /\ Room(key[p])
           \/ pc'[p] = "sync" /\ doing'[p] = "retired"
           \/ pc'[p] = "store"
        /\ key' = key
    BY ONLY ReserveIs, <1>8, HandShape DEF HandShape
  <2>3. stored' = stored /\ foreign' = foreign
    BY ReserveIs, <1>8 DEF entries
  <2>4. temp \cap stored = {}
    BY <1>8 DEF Reserve, NoneHidden, Storing
  <2>5. Room(key[p]) => Cardinality(Shown(key[p])) < Keep
    BY <2>4, SameAreShown DEF Room
  <2>6. ASSUME Making(p)' PROVE Cardinality(Shown(key[p])) < Keep
    BY <2>2, <2>5, <2>6
  <2>7. \A k : Shown(k)' = Shown(k)
    BY <2>3 DEF Shown
  <2> QED
    BY <2>1, <2>2, <2>6, <2>7
<1>9. ASSUME NEW p \in Procs, Rename(p) PROVE RoomOfAsset'
  <2>1. stored' \ foreign' \subseteq stored \ foreign
    BY <1>9 DEF Rename
  <2>2. \A r \in Procs : Making(r)' => Making(r) /\ key'[r] = key[r]
    BY <1>9 DEF Rename
  <2> QED
    BY <2>1, <2>2, FewerShown
<1>10. ASSUME NEW p \in Procs, Mkdir(p) PROVE RoomOfAsset'
  <2>1. stored' \ foreign' \subseteq stored \ foreign
    BY <1>10 DEF Mkdir
  <2>2. \A r \in Procs : Making(r)' => Making(r) /\ key'[r] = key[r]
    BY <1>10 DEF Mkdir
  <2> QED
    BY <2>1, <2>2, FewerShown
<1>11. ASSUME NEW p \in Procs, WriteFiles(p) PROVE RoomOfAsset'
  <2>1. stored' \ foreign' \subseteq stored \ foreign
    BY <1>11 DEF WriteFiles
  <2>2. \A r \in Procs : Making(r)' => Making(r) /\ key'[r] = key[r]
    BY <1>11 DEF WriteFiles
  <2> QED
    BY <2>1, <2>2, FewerShown
<1>12. ASSUME NEW p \in Procs, Publish(p) PROVE RoomOfAsset'
  <2>1. pc'[p] = "finish" /\ \A r \in Procs : r # p => pc'[r] = pc[r] /\ pc[r] \notin Inside
    BY <1>12 DEF Publish
  <2> QED
    BY <2>1
<1>13. CASE OthersAreStill
  <2> SUFFICES ASSUME NEW r \in Procs, Making(r)'
               PROVE  (Cardinality(Shown(key[r])) < Keep)'
    OBVIOUS
  <2>1. Still(r)
    BY <1>13 DEF OthersAreStill, Working
  <2>2. stored' \ foreign' \subseteq stored \ foreign
    BY <2>1 DEF Still
  <2> QED
    BY <2>1, <2>2, FewerShown DEF Still
<1> QED
  BY <1>1, <1>2, <1>3, <1>4, <1>5, <1>6, <1>7, <1>8, <1>9, <1>10, <1>11, <1>12, <1>13,
    OthersStill DEF WorkStep

-----------------------------------------------------------------------------
(* The order of uses. *)

\* A recency in hand is above all others, so recencies are in the order of the uses.
TurnsPast == \A k \in Keys : turn[k] <= clock
Above(p) == Storing(p) \/ Touching(p)
NextAbove == \A p \in Procs : Above(p) => \A k \in stored : used[k] < next[p]
Ordered == \A a, b \in stored : a # b /\ used[a] <= used[b] => turn[a] < turn[b]
EvictsLast ==
  \A p \in Procs : Evicting(p) =>
    LET v == subject[op[p]] IN
    /\ v \notin protected[p]
    /\ \A e \in Owned \ (protected[p] \cup {v}) :
         Full \/ Id[e] = Id[v] => turn[v] < turn[e]
OrderInv == TurnsPast /\ (~blind => NextAbove /\ Ordered /\ EvictsLast)

\* The recency that is chosen with nothing hidden is above all others.
LEMMA NumberIs ==
  ASSUME HandShape, next \in [Procs -> Nat], NEW p \in Procs, Number(p), ~blind'
  PROVE  /\ stored = Owned /\ ~blind /\ \A k \in stored : used[k] < next'[p]
         /\ \A r \in Procs : r # p => next'[r] = next[r]
<1>1. stored = Owned /\ ~blind
  BY DEF Number
<1>2. PICK u : IsNext(u) /\ next' = [next EXCEPT ![p] = u]
  BY DEF Number
<1>3. next'[p] = u /\ \A r \in Procs : r # p => next'[r] = next[r]
  BY <1>2
<1>4. \A k \in stored : used[k] < u
  BY <1>1, <1>2 DEF IsNext
<1> QED
  BY <1>1, <1>3, <1>4

\* A use comes after those before it.
LEMMA StepTurnsPast ==
  ASSUME HandShape, turn \in [Keys -> Nat], clock \in Nat, TurnsPast, [Next]_vars
  PROVE  TurnsPast'
<1> USE DEF Goto, entries, ops, hand, work, ghosts, bounds, HandShape, TurnsPast
<1>1. ASSUME NEW p \in Procs, Replace(p) PROVE TurnsPast'
  <2>1. clock' = clock + 1 /\ turn' = [turn EXCEPT ![key[p]] = clock + 1]
    BY <1>1 DEF Replace, Uses
  <2> QED
    BY <2>1
<1>2. ASSUME NEW p \in Procs, Rename(p) PROVE TurnsPast'
  BY <1>2 DEF Rename
<1>3. ASSUME NEW p \in Procs, Mkdir(p) PROVE TurnsPast'
  BY <1>3 DEF Mkdir
<1>4. ASSUME NEW p \in Procs, WriteFiles(p) PROVE TurnsPast'
  BY <1>4 DEF WriteFiles
<1>5. ASSUME NEW p \in Procs, Publish(p) PROVE TurnsPast'
  <2>1. clock' = clock + 1 /\ turn' = [turn EXCEPT ![key[p]] = clock + 1]
    BY <1>5 DEF Publish, Uses
  <2> QED
    BY <2>1
<1>6. CASE SameEntries
  BY <1>6 DEF SameEntries
<1> QED
  BY <1>1, <1>2, <1>3, <1>4, <1>5, <1>6, EntriesMove DEF EntryStep

\* A recency stays above all others until it is written.
LEMMA StepNextAbove ==
  ASSUME HandShape, used \in [Keys -> Nat], blind \in BOOLEAN, LockInv, Kinds, NextAbove,
         [Next]_vars, ~blind'
  PROVE  NextAbove'
<1> USE DEF Goto, entries, ops, hand, work, ghosts, bounds, HandShape, LockInv, NextAbove,
        Above, Inside, Labels, Storing, Making, Evicting, Evicted, Touching
<1>1. ASSUME NEW p \in Procs, Sync(p) PROVE NextAbove'
  <2>1. stored' \subseteq stored /\ \A k \in stored' : used'[k] = used[k]
    BY <1>1 DEF Sync, Begins
  <2>2. \A r \in Procs : Above(r)' => Above(r) /\ next'[r] = next[r]
    BY <1>1 DEF Sync, Begins
  <2> QED
    BY <2>1, <2>2
<1>2. ASSUME NEW p \in Procs, Finish(p) PROVE NextAbove'
  <2>0. UNCHANGED <<stored, used, key, op, doing, next>>
    BY ONLY <1>2 DEF Finish, hand
  <2>1. /\ \A r \in Procs : r # p => pc'[r] = pc[r] /\ pc[r] \notin Inside
        /\ UNCHANGED <<stored, used, key, op, doing, next>>
    <3>1. pc[p] \in {"finish", "abort"}
      BY ONLY <1>2 DEF Finish
    <3>2. \A r \in Procs : r # p => pc'[r] = pc[r]
      BY ONLY <1>2, HandShape DEF Finish, Done, HandShape, Goto
    <3>3. pc[p] \in Inside
      BY ONLY <3>1 DEF Inside, Labels
    <3>4. \A r \in Procs : r # p => pc[r] \notin Inside
      BY ONLY <3>3, LockInv, Alone
    <3> QED
      BY ONLY <2>0, <3>2, <3>4
  <2>2. CASE UNCHANGED <<pc, subject>>
    BY <2>1, <2>2
  <2>3. CASE Done(p, FALSE)
    <3>1. pc'[p] \in {"load", "store"}
      BY <2>3, <1>2 DEF Done, Finish
    <3> QED
      BY <2>1, <3>1
  <2>4. CASE pc[p] = "finish" /\ Done(p, TRUE)
    <3>1. pc'[p] \in {"load", "store", "number"} \/ (pc'[p] = "reserve" /\ Evicted(p))
      BY <2>4, <1>2 DEF Done, Finish
    <3> QED
      BY <2>1, <3>1
  <2> QED
    BY <1>2, <2>2, <2>3, <2>4 DEF Finish, CleanStep, DropJournal
<1>3. ASSUME NEW p \in Procs, Load(p) PROVE NextAbove'
  <2>1. pc[p] = "load"
    BY <1>3 DEF Load
  <2>2. \A r \in Procs : r # p => pc[r] \notin Inside
    <3>1. pc[p] \in Inside
      BY ONLY <2>1 DEF Inside, Labels
    <3> QED
      BY ONLY <3>1, LockInv, Alone
  <2>3. /\ \A r \in Procs : r # p => pc'[r] = pc[r]
        /\ pc'[p] = "load" \/ Number(p)
    BY ONLY LoadIs, <1>3, <2>1, HandShape DEF HandShape
  <2>4. UNCHANGED <<stored, used>>
    BY LoadIs, <1>3 DEF entries
  <2>5. Number(p) => \A k \in stored : used[k] < next'[p]
    BY NumberIs
  <2> QED
    BY <2>2, <2>3, <2>4, <2>5
<1>4. ASSUME NEW p \in Procs, Temp(p) PROVE NextAbove'
  <2>1. stored' \subseteq stored /\ \A k \in stored' : used'[k] = used[k]
    BY <1>4 DEF Temp
  <2>2. \A r \in Procs : Above(r)' => Above(r) /\ next'[r] = next[r]
    BY <1>4 DEF Temp
  <2> QED
    BY <2>1, <2>2
<1>5. ASSUME NEW p \in Procs, Replace(p) PROVE NextAbove'
  <2>1. \A r \in Procs : r # p => pc'[r] = pc[r] /\ pc[r] \notin Inside
    <3>1. pc[p] \in Inside
      BY ONLY <1>5 DEF Replace, Inside, Labels
    <3>2. \A r \in Procs : r # p => pc'[r] = pc[r]
      BY ONLY <1>5, HandShape DEF Replace, Goto, HandShape
    <3> QED
      BY ONLY <3>1, <3>2, LockInv, Alone
  <2>2. pc'[p] = "finish" /\ doing'[p] = "touch"
    BY <1>5 DEF Replace, Kinds
  <2> QED
    BY <2>1, <2>2
<1>6. ASSUME NEW p \in Procs, Store(p) PROVE NextAbove'
  <2>0. pc[p] = "store"
    BY ONLY <1>6 DEF Store
  <2>1. \A r \in Procs : r # p => pc[r] \notin Inside
    <3>1. pc[p] \in Inside
      BY ONLY <2>0 DEF Inside, Labels
    <3> QED
      BY ONLY <3>1, LockInv, Alone
  <2>2. /\ \A r \in Procs : r # p => pc'[r] = pc[r]
        /\ \/ pc'[p] \in {"number", "store"}
           \/ pc'[p] = "sync" /\ doing'[p] = "retired" /\ subject'[op'[p]] = key'[p]
    BY ONLY StoreIs, <1>6, HandShape DEF HandShape
  <2> QED
    BY <2>1, <2>2
<1>7. ASSUME NEW p \in Procs, Numbered(p) PROVE NextAbove'
  <2>1. \A r \in Procs : r # p => pc'[r] = pc[r] /\ pc[r] \notin Inside
    <3>1. pc[p] \in Inside
      BY ONLY <1>7 DEF Numbered, Inside, Labels
    <3>2. \A r \in Procs : r # p => pc'[r] = pc[r]
      BY ONLY <1>7, HandShape DEF Numbered, Goto, HandShape
    <3> QED
      BY ONLY <3>1, <3>2, LockInv, Alone
  <2>2. Number(p) /\ UNCHANGED <<stored, used>>
    BY <1>7 DEF Numbered
  <2>3. Number(p) => \A k \in stored : used[k] < next'[p]
    BY NumberIs
  <2> QED
    BY <2>1, <2>2, <2>3
<1>8. ASSUME NEW p \in Procs, Reserve(p) PROVE NextAbove'
  <2>1. \A r \in Procs : r # p => pc[r] \notin Inside
    <3>1. pc[p] \in Inside
      BY ONLY <1>8 DEF Reserve, Inside, Labels
    <3> QED
      BY ONLY <3>1, LockInv, Alone
  <2>2. \A r \in Procs : r # p => pc'[r] = pc[r]
    BY ONLY ReserveIs, <1>8, HandShape DEF HandShape
  <2>3. UNCHANGED <<stored, used, next>>
    BY ReserveIs, <1>8 DEF entries
  <2>4. Above(p)
    BY <1>8 DEF Reserve
  <2> QED
    BY <2>1, <2>2, <2>3, <2>4
<1>9. ASSUME NEW p \in Procs, Rename(p) PROVE NextAbove'
  <2>1. stored' \subseteq stored /\ \A k \in stored' : used'[k] = used[k]
    BY <1>9 DEF Rename
  <2>2. \A r \in Procs : Above(r)' => Above(r) /\ next'[r] = next[r]
    BY <1>9 DEF Rename
  <2> QED
    BY <2>1, <2>2
<1>10. ASSUME NEW p \in Procs, Mkdir(p) PROVE NextAbove'
  <2>1. stored' \subseteq stored /\ \A k \in stored' : used'[k] = used[k]
    BY <1>10 DEF Mkdir
  <2>2. \A r \in Procs : Above(r)' => Above(r) /\ next'[r] = next[r]
    BY <1>10 DEF Mkdir
  <2> QED
    BY <2>1, <2>2
<1>11. ASSUME NEW p \in Procs, WriteFiles(p) PROVE NextAbove'
  <2>1. stored' \subseteq stored /\ \A k \in stored' : used'[k] = used[k]
    BY <1>11 DEF WriteFiles
  <2>2. \A r \in Procs : Above(r)' => Above(r) /\ next'[r] = next[r]
    BY <1>11 DEF WriteFiles
  <2> QED
    BY <2>1, <2>2
<1>12. ASSUME NEW p \in Procs, Publish(p) PROVE NextAbove'
  <2>1. \A r \in Procs : r # p => pc'[r] = pc[r] /\ pc[r] \notin Inside
    <3>1. pc[p] \in Inside
      BY ONLY <1>12 DEF Publish, Inside, Labels
    <3>2. \A r \in Procs : r # p => pc'[r] = pc[r]
      BY ONLY <1>12, HandShape DEF Publish, Goto, HandShape
    <3> QED
      BY ONLY <3>1, <3>2, LockInv, Alone
  <2>2. pc'[p] = "finish" /\ doing'[p] = "stage"
    BY <1>12 DEF Publish, Kinds
  <2> QED
    BY <2>1, <2>2
<1>13. CASE OthersAreStill
  <2> SUFFICES ASSUME NEW r \in Procs, Above(r)' PROVE (\A k \in stored : used[k] < next[r])'
    OBVIOUS
  <2>1. Still(r)
    BY <1>13 DEF OthersAreStill, Working
  <2> QED
    BY <2>1 DEF Still
<1> QED
  BY <1>1, <1>2, <1>3, <1>4, <1>5, <1>6, <1>7, <1>8, <1>9, <1>10, <1>11, <1>12, <1>13,
    OthersStill DEF WorkStep

\* A use above all others comes last in both orders.
LEMMA UsesKeepOrder ==
  ASSUME HandShape, used \in [Keys -> Nat], turn \in [Keys -> Nat], next \in [Procs -> Nat],
         clock \in Nat, TurnsPast, Ordered, NEW p \in Procs, Uses(p),
         stored' \subseteq stored \cup {key[p]}, \A k \in stored : used[k] < next[p]
  PROVE  Ordered'
<1>1. /\ used' = [used EXCEPT ![key[p]] = next[p]]
      /\ turn' = [turn EXCEPT ![key[p]] = clock + 1]
  BY DEF Uses
<1>2. key[p] \in Keys /\ next[p] \in Nat /\ stored \subseteq Keys
  BY DEF HandShape
<1> SUFFICES ASSUME NEW a \in stored', NEW b \in stored', a # b, used'[a] <= used'[b]
             PROVE  turn'[a] < turn'[b]
  BY DEF Ordered
<1>3. CASE b = key[p]
  BY <1>1, <1>2, <1>3 DEF TurnsPast
<1>4. CASE a = key[p]
  BY <1>1, <1>2, <1>4
<1>5. CASE a # key[p] /\ b # key[p]
  BY <1>1, <1>2, <1>5 DEF Ordered
<1> QED
  BY <1>3, <1>4, <1>5

\* What is evicted is last in the order of uses, of all that count.
LEMMA OldestIsLast ==
  ASSUME HandShape, used \in [Keys -> Nat], Ordered, NEW p \in Procs,
         NEW v \in Oldest(Evictable(p, key[p])), NEW e \in Owned \ (protected[p] \cup {v}),
         Full \/ Id[e] = Id[v]
  PROVE  turn[v] < turn[e]
<1>1. v \in Owned /\ v \in Evictable(p, key[p])
  BY DEF Oldest, Evictable
<1>2. e \in Evictable(p, key[p])
  BY <1>1 DEF Evictable, Same
<1> QED
  BY <1>1, <1>2 DEF Oldest, Ordered, Owned

\* Recencies stay in the order of the uses.
LEMMA StepOrdered ==
  ASSUME HandShape, used \in [Keys -> Nat], turn \in [Keys -> Nat], clock \in Nat, TurnsPast,
         NextAbove, Ordered, [Next]_vars
  PROVE  Ordered'
<1> USE DEF Goto, entries, ops, hand, work, ghosts, bounds, HandShape, Ordered
<1>1. ASSUME NEW p \in Procs, Replace(p) PROVE Ordered'
  <2>1. \A k \in stored : used[k] < next[p]
    BY <1>1 DEF Replace, NextAbove, Above, Touching
  <2> QED
    BY <1>1, <2>1, UsesKeepOrder DEF Replace
<1>2. ASSUME NEW p \in Procs, Rename(p) PROVE Ordered'
  <2>1. stored' \subseteq stored /\ \A k \in stored' : used'[k] = used[k] /\ turn'[k] = turn[k]
    BY <1>2 DEF Rename
  <2> QED
    BY <2>1
<1>3. ASSUME NEW p \in Procs, Mkdir(p) PROVE Ordered'
  <2>1. stored' \subseteq stored /\ \A k \in stored' : used'[k] = used[k] /\ turn'[k] = turn[k]
    BY <1>3 DEF Mkdir
  <2> QED
    BY <2>1
<1>4. ASSUME NEW p \in Procs, WriteFiles(p) PROVE Ordered'
  <2>1. stored' \subseteq stored /\ \A k \in stored' : used'[k] = used[k] /\ turn'[k] = turn[k]
    BY <1>4 DEF WriteFiles
  <2> QED
    BY <2>1
<1>5. ASSUME NEW p \in Procs, Publish(p) PROVE Ordered'
  <2>1. \A k \in stored : used[k] < next[p]
    BY <1>5 DEF Publish, NextAbove, Above, Storing, Making
  <2> QED
    BY <1>5, <2>1, UsesKeepOrder DEF Publish
<1>6. CASE SameEntries
  BY <1>6 DEF SameEntries
<1> QED
  BY <1>1, <1>2, <1>3, <1>4, <1>5, <1>6, EntriesMove DEF EntryStep

\* What is chosen to go is what was used longest ago, until it goes.
LEMMA StepEvictsLast ==
  ASSUME HandShape, used \in [Keys -> Nat], LockInv, Kinds, Ordered, EvictsLast, [Next]_vars
  PROVE  EvictsLast'
<1> USE DEF Goto, entries, ops, hand, work, ghosts, bounds, HandShape, LockInv, EvictsLast,
        Evicting, Inside, Labels
<1>1. ASSUME NEW p \in Procs, Sync(p) PROVE EvictsLast'
  <2>1. stored' = stored /\ place' = place /\ Owned' \subseteq Owned /\ turn' = turn
    BY <1>1 DEF Sync, Begins, Owned
  <2>2. Full' = Full
    BY <2>1 DEF Full, Units
  <2>3. \A r \in Procs : Evicting(r)' => /\ Evicting(r) /\ protected'[r] = protected[r]
                                      /\ subject'[op'[r]] = subject[op[r]]
    BY <1>1 DEF Sync, Begins
  <2> QED
    BY <2>1, <2>2, <2>3
<1>2. ASSUME NEW p \in Procs, Finish(p) PROVE EvictsLast'
  <2>1. pc[p] \in {"finish", "abort"}
    BY ONLY <1>2 DEF Finish
  <2>2. /\ pc'[p] \in {"finish", "abort", "load", "store", "number", "reserve"}
        /\ \A r \in Procs : r # p => pc'[r] = pc[r]
    BY ONLY <1>2, HandShape DEF Finish, Done, HandShape, Goto
  <2>3. \A r \in Procs : r # p => pc[r] \notin Inside
    <3>1. pc[p] \in Inside
      BY ONLY <2>1 DEF Inside, Labels
    <3> QED
      BY ONLY <3>1, LockInv, Alone
  <2> QED
    BY <2>2, <2>3
<1>3. ASSUME NEW p \in Procs, Load(p) PROVE EvictsLast'
  <2>1. pc[p] = "load"
    BY <1>3 DEF Load
  <2>2. \A r \in Procs : r # p => pc[r] \notin Inside
    <3>1. pc[p] \in Inside
      BY ONLY <2>1 DEF Inside, Labels
    <3> QED
      BY ONLY <3>1, LockInv, Alone
  <2>3. /\ \A r \in Procs : r # p => pc'[r] = pc[r]
        /\ pc'[p] = "load" \/ (pc'[p] = "sync" /\ doing'[p] = "touch")
    BY ONLY LoadIs, <1>3, <2>1, HandShape DEF HandShape
  <2> QED
    BY <2>2, <2>3
<1>4. ASSUME NEW p \in Procs, Temp(p) PROVE EvictsLast'
  <2>1. \A r \in Procs : r # p => pc'[r] = pc[r] /\ pc[r] \notin Inside
    <3>1. pc[p] \in Inside
      BY ONLY <1>4 DEF Temp, Inside, Labels
    <3>2. \A r \in Procs : r # p => pc'[r] = pc[r]
      BY ONLY <1>4, HandShape DEF Temp, Goto, HandShape
    <3> QED
      BY ONLY <3>1, <3>2, LockInv, Alone
  <2>2. pc'[p] \in {"replace"}
    BY <1>4 DEF Temp
  <2> QED
    BY <2>1, <2>2
<1>5. ASSUME NEW p \in Procs, Replace(p) PROVE EvictsLast'
  <2>1. \A r \in Procs : r # p => pc'[r] = pc[r] /\ pc[r] \notin Inside
    <3>1. pc[p] \in Inside
      BY ONLY <1>5 DEF Replace, Inside, Labels
    <3>2. \A r \in Procs : r # p => pc'[r] = pc[r]
      BY ONLY <1>5, HandShape DEF Replace, Goto, HandShape
    <3> QED
      BY ONLY <3>1, <3>2, LockInv, Alone
  <2>2. pc'[p] \in {"finish"}
    BY <1>5 DEF Replace
  <2> QED
    BY <2>1, <2>2
<1>6. ASSUME NEW p \in Procs, Store(p) PROVE EvictsLast'
  <2>0. pc[p] = "store"
    BY ONLY <1>6 DEF Store
  <2>1. \A r \in Procs : r # p => pc[r] \notin Inside
    <3>1. pc[p] \in Inside
      BY ONLY <2>0 DEF Inside, Labels
    <3> QED
      BY ONLY <3>1, LockInv, Alone
  <2>2. /\ \A r \in Procs : r # p => pc'[r] = pc[r]
        /\ \/ pc'[p] \in {"number", "store"}
           \/ pc'[p] = "sync" /\ doing'[p] = "retired" /\ subject'[op'[p]] = key'[p]
    BY ONLY StoreIs, <1>6, HandShape DEF HandShape
  <2> QED
    BY <2>1, <2>2
<1>7. ASSUME NEW p \in Procs, Numbered(p) PROVE EvictsLast'
  <2>1. \A r \in Procs : r # p => pc'[r] = pc[r] /\ pc[r] \notin Inside
    <3>1. pc[p] \in Inside
      BY ONLY <1>7 DEF Numbered, Inside, Labels
    <3>2. \A r \in Procs : r # p => pc'[r] = pc[r]
      BY ONLY <1>7, HandShape DEF Numbered, Goto, HandShape
    <3> QED
      BY ONLY <3>1, <3>2, LockInv, Alone
  <2>2. pc'[p] \in {"reserve"}
    BY <1>7 DEF Numbered
  <2> QED
    BY <2>1, <2>2
<1>8. ASSUME NEW p \in Procs, Reserve(p) PROVE EvictsLast'
  <2>1. \A r \in Procs : r # p => pc[r] \notin Inside
    <3>1. pc[p] \in Inside
      BY ONLY <1>8 DEF Reserve, Inside, Labels
    <3> QED
      BY ONLY <3>1, LockInv, Alone
  <2>2. /\ \A r \in Procs : r # p => pc'[r] = pc[r]
        /\ \/ pc'[p] = "sync" /\ doing'[p] = "stage"
           \/ pc'[p] = "store"
           \/ subject'[op'[p]] \in Oldest(Evictable(p, key[p]))
    BY ONLY ReserveIs, <1>8, HandShape DEF HandShape
  <2>3. stored' = stored /\ place' = place /\ Owned' = Owned /\ UNCHANGED <<turn, protected>>
    BY ReserveIs, <1>8 DEF Owned
  <2>4. Full' = Full
    BY <2>3 DEF Full, Units
  <2>5. ASSUME Evicting(p)'
        PROVE  /\ subject'[op'[p]] \in Oldest(Evictable(p, key[p]))
               /\ subject'[op'[p]] \notin protected[p]
    <3>1. subject'[op'[p]] \in Oldest(Evictable(p, key[p]))
      BY <2>2, <2>5
    <3> QED
      BY <3>1 DEF Oldest, Evictable
  <2>6. ASSUME Evicting(p)', NEW e \in Owned \ (protected[p] \cup {subject'[op'[p]]}),
               Full \/ Id[e] = Id[subject'[op'[p]]]
        PROVE  turn[subject'[op'[p]]] < turn[e]
    BY <2>5, <2>6, OldestIsLast
  <2>7. ASSUME NEW r \in Procs, Evicting(r)' PROVE r = p
    BY <2>1, <2>2, <2>7
  <2> QED
    BY <2>3, <2>4, <2>5, <2>6, <2>7
<1>9. ASSUME NEW p \in Procs, Rename(p) PROVE EvictsLast'
  <2>1. \A r \in Procs : r # p => pc'[r] = pc[r] /\ pc[r] \notin Inside
    <3>1. pc[p] \in Inside
      BY ONLY <1>9 DEF Rename, Inside, Labels
    <3>2. \A r \in Procs : r # p => pc'[r] = pc[r]
      BY ONLY <1>9, HandShape DEF Rename, Goto, HandShape
    <3> QED
      BY ONLY <3>1, <3>2, LockInv, Alone
  <2>2. pc'[p] \in {"finish"}
    BY <1>9 DEF Rename
  <2> QED
    BY <2>1, <2>2
<1>10. ASSUME NEW p \in Procs, Mkdir(p) PROVE EvictsLast'
  <2>1. \A r \in Procs : r # p => pc'[r] = pc[r] /\ pc[r] \notin Inside
    <3>1. pc[p] \in Inside
      BY ONLY <1>10 DEF Mkdir, Inside, Labels
    <3>2. \A r \in Procs : r # p => pc'[r] = pc[r]
      BY ONLY <1>10, HandShape DEF Mkdir, Goto, HandShape
    <3> QED
      BY ONLY <3>1, <3>2, LockInv, Alone
  <2>2. pc'[p] \in {"write"}
    BY <1>10 DEF Mkdir
  <2> QED
    BY <2>1, <2>2
<1>11. ASSUME NEW p \in Procs, WriteFiles(p) PROVE EvictsLast'
  <2>1. \A r \in Procs : r # p => pc'[r] = pc[r] /\ pc[r] \notin Inside
    <3>1. pc[p] \in Inside
      BY ONLY <1>11 DEF WriteFiles, Inside, Labels
    <3>2. \A r \in Procs : r # p => pc'[r] = pc[r]
      BY ONLY <1>11, HandShape DEF WriteFiles, Goto, HandShape
    <3> QED
      BY ONLY <3>1, <3>2, LockInv, Alone
  <2>2. pc'[p] \in {"publish"}
    BY <1>11 DEF WriteFiles
  <2> QED
    BY <2>1, <2>2
<1>12. ASSUME NEW p \in Procs, Publish(p) PROVE EvictsLast'
  <2>1. \A r \in Procs : r # p => pc'[r] = pc[r] /\ pc[r] \notin Inside
    <3>1. pc[p] \in Inside
      BY ONLY <1>12 DEF Publish, Inside, Labels
    <3>2. \A r \in Procs : r # p => pc'[r] = pc[r]
      BY ONLY <1>12, HandShape DEF Publish, Goto, HandShape
    <3> QED
      BY ONLY <3>1, <3>2, LockInv, Alone
  <2>2. pc'[p] \in {"finish"}
    BY <1>12 DEF Publish
  <2> QED
    BY <2>1, <2>2
<1>13. CASE OthersAreStill
  <2> SUFFICES
        ASSUME NEW r \in Procs, Evicting(r)'
        PROVE  LET v == subject'[op'[r]] IN
               /\ v \notin protected'[r]
               /\ \A e \in Owned' \ (protected'[r] \cup {v}) :
                    Full' \/ Id[e] = Id[v] => turn'[v] < turn'[e]
    OBVIOUS
  <2>1. Still(r)
    BY <1>13 DEF OthersAreStill, Working
  <2>2. Full' = Full /\ Owned' \subseteq Owned
    BY <2>1 DEF Still, Full, Units, Owned
  <2> QED
    BY <2>1, <2>2 DEF Still
<1> QED
  BY <1>1, <1>2, <1>3, <1>4, <1>5, <1>6, <1>7, <1>8, <1>9, <1>10, <1>11, <1>12, <1>13,
    OthersStill DEF WorkStep

-----------------------------------------------------------------------------
(* The cache. *)

CacheInv == TypeOK /\ LockInv /\ CapacityInv /\ KeepInv /\ OrderInv

\* The cache begins in its types.
LEMMA InitTyped == Init => TypeOK
<1> SUFFICES ASSUME Init PROVE TypeOK
  OBVIOUS
<1> USE SomeTyped, BoundsAssumption DEF Init
<1>1. /\ root \in {"absent", "bare", "owned"}
      /\ lock \subseteq Procs /\ (\A p, r \in lock : p = r)
      /\ stored \subseteq Keys /\ used \in [Keys -> Nat] /\ temp \subseteq Keys
      /\ foreign \subseteq Keys /\ bad \subseteq Keys
  OBVIOUS
<1>2. /\ journal \in [Nonces -> {"none", "torn", "stage", "retired", "touch"}]
      /\ subject \in [Nonces -> Keys] /\ doing \in [Procs -> {"stage", "retired", "touch"}]
      /\ place \in [Nonces -> {"none", "part", "full"}] /\ odd \subseteq Nonces
  OBVIOUS
<1>3. /\ pc \in [Procs -> Labels] /\ wish \in [Procs -> SUBSET Keys]
      /\ pending \in [Procs -> SUBSET Keys] /\ todo \in [Procs -> SUBSET Nonces]
      /\ key \in [Procs -> Keys] /\ op \in [Procs -> Nonces] /\ next \in [Procs -> Nat]
  BY DEF Labels
<1>4. /\ protected \in [Procs -> SUBSET Keys]
      /\ outcome \in [Procs -> {"none", "ready", "refused"}]
      /\ turn \in [Keys -> Nat] /\ clock \in Nat /\ blind \in BOOLEAN
      /\ uses \in Nat /\ faults \in Nat
  OBVIOUS
<1> QED
  BY <1>1, <1>2, <1>3, <1>4 DEF TypeOK
\* The cache begins in its invariant.
LEMMA InitCache == Init => CacheInv
<1> SUFFICES ASSUME Init PROVE CacheInv
  OBVIOUS
<1>1. stored = {} /\ Places = {} /\ {n \in Nonces : place[n] # "none"} = {}
  BY DEF Init, Places
<1>2. \A p \in Procs : pc[p] = "idle"
  BY DEF Init
<1>3. LockInv
  BY <1>2 DEF LockInv, Inside, Labels, Init
<1>4. Finite /\ Units = 0
  BY <1>1, FS_EmptySet DEF Finite, Units
<1>5. CapacityInv
  BY <1>2, <1>4, BoundsAssumption DEF CapacityInv, Victim, Made, RoomLeft
<1>6. Kinds /\ NoneHidden /\ RoomOfAsset /\ NextAbove /\ EvictsLast
  BY <1>2 DEF Kinds, NoneHidden, RoomOfAsset, NextAbove, Above, EvictsLast, Storing, Making,
     Evicting, Evicted, Touching
<1>7. \A k \in Keys : Shown(k) = {}
  BY <1>1 DEF Shown
<1>8. FewShown
  BY <1>7, FS_EmptySet, BoundsAssumption DEF FewShown
<1>9. TurnsPast /\ Ordered
  BY <1>1 DEF TurnsPast, Ordered, Init
<1> QED
  BY InitTyped, <1>3, <1>5, <1>6, <1>8, <1>9 DEF CacheInv, KeepInv, OrderInv

\* What some of the steps need of the types.
LEMMA Shapes == TypeOK => LockShape /\ HandShape
  BY DEF TypeOK, LockShape, HandShape
\* Every step keeps the capacity.
LEMMA StepCapacity ==
  ASSUME TypeOK, LockInv, CapacityInv, [Next]_vars
  PROVE  CapacityInv'
<1>1. HandShape
  BY Shapes
<1>2. (Finite /\ Units <= MaxUnits)'
  BY <1>1, StepUnits
<1>3. (Victim /\ Made)'
  BY <1>1, StepVictim DEF CapacityInv
<1>4. RoomLeft'
  BY <1>1, StepRoomLeft
<1> QED
  BY <1>2, <1>3, <1>4 DEF CapacityInv
\* Every step keeps to what is kept of an asset.
LEMMA StepKeep ==
  ASSUME TypeOK, LockInv, KeepInv, [Next]_vars
  PROVE  KeepInv'
<1>1. HandShape /\ blind \in BOOLEAN
  BY Shapes DEF TypeOK
<1>2. Kinds /\ Kinds'
  BY <1>1, StepKinds DEF KeepInv
<1>3. ASSUME ~blind' PROVE (NoneHidden /\ FewShown /\ RoomOfAsset)'
  <2>1. NoneHidden /\ FewShown /\ RoomOfAsset
    BY <1>1, <1>3, BlindStays DEF KeepInv
  <2>2. NoneHidden'
    BY <1>1, <1>2, <1>3, <2>1, StepNoneHidden
  <2>3. FewShown' /\ RoomOfAsset'
    BY <1>1, <2>1, StepFewShown, StepRoomOfAsset
  <2> QED
    BY <2>2, <2>3
<1> QED
  BY <1>2, <1>3 DEF KeepInv
\* Every step keeps the order of uses.
LEMMA StepOrder ==
  ASSUME TypeOK, LockInv, KeepInv, OrderInv, [Next]_vars
  PROVE  OrderInv'
<1>1. /\ HandShape /\ blind \in BOOLEAN /\ Kinds /\ used \in [Keys -> Nat]
      /\ turn \in [Keys -> Nat] /\ next \in [Procs -> Nat] /\ clock \in Nat
      /\ protected \in [Procs -> SUBSET Keys] /\ TurnsPast
  BY Shapes DEF TypeOK, KeepInv, OrderInv
<1>2. TurnsPast'
  BY <1>1, StepTurnsPast
<1>3. ASSUME ~blind' PROVE (NextAbove /\ Ordered /\ EvictsLast)'
  <2>1. NextAbove /\ Ordered /\ EvictsLast
    BY <1>1, <1>3, BlindStays DEF OrderInv
  <2>2. NextAbove'
    BY <1>1, <1>3, <2>1, StepNextAbove
  <2>3. Ordered'
    BY <1>1, <2>1, StepOrdered
  <2>4. EvictsLast'
    BY <1>1, <2>1, StepEvictsLast
  <2> QED
    BY <2>2, <2>3, <2>4
<1> QED
  BY <1>2, <1>3 DEF OrderInv

\* The invariant of the cache holds throughout.
THEOREM CacheSafe == Spec => []CacheInv
<1>1. CacheInv /\ [Next]_vars => CacheInv'
  <2> SUFFICES ASSUME CacheInv, [Next]_vars PROVE CacheInv'
    OBVIOUS
  <2>1. TypeOK /\ LockInv /\ CapacityInv /\ KeepInv /\ OrderInv
    BY DEF CacheInv
  <2>2. TypeOK'
    BY <2>1, CacheTypes
  <2>3. LockInv'
    BY <2>1, Shapes, StepLock
  <2> QED
    BY <2>1, <2>2, <2>3, StepCapacity, StepKeep, StepOrder DEF CacheInv
<1> QED
  BY InitCache, <1>1, PTL DEF Spec

\* Every state is of its type.
THEOREM TypeCorrect == Spec => []TypeOK
<1>1. CacheInv => TypeOK
  BY DEF CacheInv
<1> QED
  BY CacheSafe, <1>1, PTL

\* The capacity holds whatever dies, fails or is put into the cache, leftovers included; and
\* no asset has more entries than are kept, unless one was hidden when another was numbered.
THEOREM BoundAlwaysHolds == Spec => []BoundHolds
<1>1. ASSUME CacheInv PROVE BoundHolds
  <2>1. Units <= MaxUnits
    BY <1>1 DEF CacheInv, CapacityInv
  <2>2. ASSUME ~blind, NEW k \in Keys PROVE Cardinality(Same(k)) <= Keep
    <3>1. Cardinality(Shown(k)) <= Keep /\ stored \subseteq Keys
      BY <1>1, <2>2 DEF CacheInv, KeepInv, FewShown, TypeOK
    <3>2. IsFiniteSet(Shown(k)) /\ Same(k) \subseteq Shown(k)
      BY <3>1, KeysAssumption, FS_Subset DEF Shown, Same, Owned
    <3>3. /\ Cardinality(Same(k)) <= Cardinality(Shown(k)) /\ Cardinality(Same(k)) \in Nat
          /\ Cardinality(Shown(k)) \in Nat
      BY <3>2, FS_Subset, FS_CardinalityType
    <3> QED
      BY <3>1, <3>3, BoundsAssumption
  <2> QED
    BY <2>1, <2>2 DEF BoundHolds
<1> QED
  BY CacheSafe, <1>1, PTL

\* Entries leave the cache only in the renaming of a removal.
LEMMA OnlyRenameTakes ==
  ASSUME HandShape, [Next]_vars, ~(stored \subseteq stored')
  PROVE  \E p \in Procs : Rename(p)
<1>1. ASSUME NEW p \in Procs, EntryStep(p) PROVE Rename(p)
  BY <1>1 DEF EntryStep, Replace, Mkdir, WriteFiles, Publish, entries
<1> QED
  BY <1>1, EntriesMove DEF SameEntries

\* What makes room takes nothing that the session has loaded or stored itself, and of the
\* rest, those of the cache when it is full and those of the asset otherwise, what was used
\* longest ago, unless an entry was hidden when a recency was chosen.
THEOREM OldestGoesFirst == Spec => EvictsOldest
<1> DEFINE A == \A v \in stored \ stored' : blind \/ (\E p \in lock : v = key[p]) \/
                  (v \notin Leased /\ \A e \in Owned \ (Leased \cup {v}) :
                     Full \/ Id[e] = Id[v] => turn[v] < turn[e])
<1>1. ASSUME CacheInv, [Next]_vars, NEW v \in stored \ stored'
      PROVE  blind \/ (\E p \in lock : v = key[p]) \/
                  (v \notin Leased /\ \A e \in Owned \ (Leased \cup {v}) :
                     Full \/ Id[e] = Id[v] => turn[v] < turn[e])
  <2>1. PICK p \in Procs : Rename(p)
    BY <1>1, OnlyRenameTakes, Shapes DEF CacheInv
  <2>2. pc[p] = "rename" /\ v = subject[op[p]]
    BY <1>1, <2>1 DEF Rename
  <2>3. lock = {p}
    BY <1>1, <2>2 DEF CacheInv, LockInv, Inside, Labels
  <2>4. Leased = protected[p]
    BY <2>3 DEF Leased
  <2>5. CASE v = key[p]
    BY <2>3, <2>5
  <2>6. CASE v # key[p] /\ ~blind
    <3>1. Evicting(p) /\ EvictsLast
      BY <1>1, <2>2, <2>6 DEF Evicting, CacheInv, OrderInv
    <3> QED
      BY <2>2, <2>4, <3>1 DEF EvictsLast
  <2> QED
    BY <2>5, <2>6
<1>2. CacheInv /\ [Next]_vars => [A]_vars
  BY <1>1
<1> QED
  BY CacheSafe, <1>2, PTL DEF Spec, EvictsOldest
=============================================================================
