---------------------------- MODULE ArtifactCache ----------------------------
(***************************************************************************)
(* The cache of built artifacts of a project: sessions that hold its lock  *)
(* load and store entries, journal every change that takes several steps,  *)
(* evict within a capacity, and clean up after sessions that died.         *)
(* Source: source/core/src/artifact_cache.rs (Cache), and the release      *)
(* preparation that uses it in source/factory/src/git_sync_plan.rs.        *)
(*                                                                         *)
(* A key stands for an artifact built from given inputs.  A directory is   *)
(* one unit of capacity; journals and recency files are none.  Left out:   *)
(* the probe that runs a binary, compilation, readers without the lock.    *)
(***************************************************************************)
EXTENDS Naturals, FiniteSets

CONSTANTS Procs,      \* release preparations
          Keys,       \* artifacts, in the order in which contracts list them
          Id,         \* key -> the asset and platform it is an artifact of
          Keep,       \* entries kept of one asset
          MaxUnits,   \* capacity
          Nonces,     \* names of operations
          MaxUses,    \* bound: loads begun
          MaxFaults   \* bound: crashes, failing file operations, changes by others

ASSUME KeysAssumption == Keys \subseteq Nat /\ Keys # {} /\ IsFiniteSet(Keys)
ASSUME NoncesAssumption == Nonces \subseteq Nat /\ Cardinality(Nonces) > MaxFaults
ASSUME BoundsAssumption ==
  /\ Keep \in Nat \ {0} /\ MaxUnits \in Nat
  /\ MaxUses \in Nat /\ MaxFaults \in Nat

VARIABLES root,     \* the directory of the cache: absent, bare (no owner.json), owned
          lock,     \* the holder of cache.lock, if any
          stored,   \* keys that have a directory
          used,     \* recency in entry.json
          temp,     \* keys whose directory holds the temporary file of a touch
          foreign,  \* keys whose directory holds an unknown file
          bad,      \* keys whose bytes changed
          journal,  \* operation -> none, torn, or what it says: stage, retired, touch
          subject,  \* operation -> the key it is about
          place,    \* operation -> its directory: none, part, full
          odd,      \* operations whose directory holds an unknown file
          pc,
          wish,     \* artifacts to load
          pending,  \* artifacts to build and store
          todo,     \* journals the recovery has still to look at
          key, op, doing,  \* the artifact and the operation in hand, and its kind
          next,     \* the recency it will get
          protected,
          outcome,  \* of a preparation: none, ready, refused
          turn,     \* history: when an entry was last loaded or stored
          clock,    \* history: loads and stores so far
          blind,    \* history: a recency was chosen while an entry was hidden
          uses, faults

entries == <<stored, used, temp, foreign, bad>>
ops == <<journal, subject, place, odd>>
hand == <<key, op, doing, next>>
work == <<wish, pending, todo>>
ghosts == <<turn, clock, blind>>
bounds == <<uses, faults>>
vars == <<root, lock, entries, ops, pc, hand, work, protected, outcome, ghosts, bounds>>

Labels == {"idle", "create", "owner", "lock", "recover", "mend", "load", "store", "number",
           "reserve", "sync", "temp", "replace", "rename", "mkdir", "write", "publish", "finish",
           "abort"}
TypeOK ==
  /\ root \in {"absent", "bare", "owned"} /\ lock \subseteq Procs /\ (\A p, r \in lock : p = r)
  /\ stored \subseteq Keys /\ used \in [Keys -> Nat] /\ temp \subseteq Keys
  /\ foreign \subseteq Keys /\ bad \subseteq Keys
  /\ journal \in [Nonces -> {"none", "torn", "stage", "retired", "touch"}]
  /\ subject \in [Nonces -> Keys] /\ doing \in [Procs -> {"stage", "retired", "touch"}]
  /\ place \in [Nonces -> {"none", "part", "full"}] /\ odd \subseteq Nonces
  /\ pc \in [Procs -> Labels] /\ wish \in [Procs -> SUBSET Keys]
  /\ pending \in [Procs -> SUBSET Keys] /\ todo \in [Procs -> SUBSET Nonces]
  /\ key \in [Procs -> Keys] /\ op \in [Procs -> Nonces] /\ next \in [Procs -> Nat]
  /\ protected \in [Procs -> SUBSET Keys] /\ outcome \in [Procs -> {"none", "ready", "refused"}]
  /\ turn \in [Keys -> Nat] /\ clock \in Nat /\ blind \in BOOLEAN
  /\ uses \in Nat /\ faults \in Nat

\* What fills a place that is not in use.
SomeKey == CHOOSE k \in Keys : TRUE
SomeNonce == CHOOSE n \in Nonces : TRUE
Init ==
  /\ root = "absent" /\ lock = {}
  /\ stored = {} /\ used = [k \in Keys |-> 0] /\ temp = {} /\ foreign = {} /\ bad = {}
  /\ journal = [n \in Nonces |-> "none"] /\ doing = [p \in Procs |-> "stage"]
  /\ subject = [n \in Nonces |-> SomeKey] /\ place = [n \in Nonces |-> "none"] /\ odd = {}
  /\ pc = [p \in Procs |-> "idle"] /\ wish = [p \in Procs |-> {}]
  /\ pending = [p \in Procs |-> {}] /\ todo = [p \in Procs |-> {}]
  /\ key = [p \in Procs |-> SomeKey] /\ op = [p \in Procs |-> SomeNonce]
  /\ next = [p \in Procs |-> 0] /\ protected = [p \in Procs |-> {}]
  /\ outcome = [p \in Procs |-> "none"]
  /\ turn = [k \in Keys |-> 0] /\ clock = 0 /\ blind = FALSE
  /\ uses = 0 /\ faults = 0

\* owned(): a directory with exactly its three files.
Owned == stored \ (foreign \cup temp)
Units == Cardinality(stored) + Cardinality({n \in Nonces : place[n] # "none"})
Free == {n \in Nonces : journal[n] = "none" /\ place[n] = "none"}
First(S) == {n \in S : \A m \in S : n <= m}
Goto(p, l) == pc' = [pc EXCEPT ![p] = l]

\* Broken variant: the number of entries, which forgets what went.
CountsEntries(u) == u = Cardinality(Owned) + 1
\* next_used: one more than the greatest recency.
IsNext(u) ==
  /\ \A k \in Owned : used[k] < u
  /\ u = 1 \/ \E k \in Owned : u = used[k] + 1

-----------------------------------------------------------------------------
(* A preparation opens the cache. *)

Leave(p, o) ==
  /\ Goto(p, "idle") /\ outcome' = [outcome EXCEPT ![p] = o]
  /\ wish' = [wish EXCEPT ![p] = {}] /\ pending' = [pending EXCEPT ![p] = {}]
  /\ key' = [key EXCEPT ![p] = SomeKey] /\ op' = [op EXCEPT ![p] = SomeNonce]
  /\ doing' = [doing EXCEPT ![p] = "stage"] /\ next' = [next EXCEPT ![p] = 0]
  /\ todo' = [todo EXCEPT ![p] = {}] /\ protected' = [protected EXCEPT ![p] = {}]
  /\ lock' = lock \ {p}

\* open_directory: the directory and its owner.json.
Start(p) ==
  /\ pc[p] = "idle" /\ Goto(p, IF root = "absent" THEN "create" ELSE "lock")
  /\ outcome' = [outcome EXCEPT ![p] = "none"]
  /\ UNCHANGED <<root, lock, entries, ops, hand, work, protected, ghosts, bounds>>
Create(p) ==
  /\ pc[p] = "create"
  /\ \/ root = "absent" /\ root' = "bare" /\ Goto(p, "owner")
        /\ UNCHANGED <<lock, hand, work, protected, outcome>>
     \/ root # "absent" /\ Leave(p, "refused") /\ UNCHANGED root
  /\ UNCHANGED <<entries, ops, ghosts, bounds>>
WriteOwner(p) ==
  /\ pc[p] = "owner" /\ root' = "owned" /\ Goto(p, "lock")
  /\ UNCHANGED <<lock, entries, ops, hand, work, protected, outcome, ghosts, bounds>>

\* The artifacts of a group, at most one of an asset.  (They are known before; nothing
\* depends on them earlier.)
Wants(p) ==
  \E W \in SUBSET Keys :
    /\ \A a, b \in W : Id[a] = Id[b] => a = b
    /\ uses + Cardinality(W) <= MaxUses /\ uses' = uses + Cardinality(W)
    /\ wish' = [wish EXCEPT ![p] = W]
Enter(p) ==
  /\ Goto(p, "recover") /\ Wants(p)
  /\ todo' = [todo EXCEPT ![p] = {n \in Nonces : journal[n] # "none"}]
  /\ UNCHANGED <<hand, pending, protected, outcome>>
Acquire(p) ==
  /\ pc[p] = "lock"
  /\ \/ root = "owned" /\ lock = {} /\ lock' = {p} /\ Enter(p)
     \/ (root # "owned" \/ lock # {}) /\ Leave(p, "refused") /\ UNCHANGED uses
  /\ UNCHANGED <<root, entries, ops, ghosts, faults>>

-----------------------------------------------------------------------------
(* The journals of sessions that died. *)

\* Broken variant: the journal of a touch is taken for a torn one.
NamesDirectory(n) == journal[n] \in {"stage", "retired"}
\* recover: a torn journal has claimed nothing and stays.
Whole(n) == journal[n] \in {"stage", "retired", "touch"}
Recover(p) ==
  /\ pc[p] = "recover"
  /\ \/ \E n \in todo[p] :
          /\ todo' = [todo EXCEPT ![p] = @ \ {n}]
          /\ IF Whole(n) THEN Goto(p, "mend") /\ op' = [op EXCEPT ![p] = n]
                                     ELSE UNCHANGED <<pc, op>>
     \/ todo[p] = {} /\ Goto(p, "load") /\ UNCHANGED <<todo, op>>
  /\ UNCHANGED <<root, lock, entries, ops, wish, pending, key, doing, next, protected, outcome,
                 ghosts, bounds>>

\* finish_operation, one file operation at a time: the directory or the temporary file,
\* then the journal.  It gives up on unknown files, and on a touch whose entry is gone.
Stuck(n) ==
  \/ n \in odd /\ place[n] # "none"
  \/ journal[n] = "touch" /\ subject[n] \notin stored
Cleaned(n) == place[n] = "none" /\ ~(journal[n] = "touch" /\ subject[n] \in temp)
CleanStep(n) ==
  \/ /\ place[n] # "none" /\ ~Stuck(n)
     /\ place' = [place EXCEPT ![n] = IF @ = "full" THEN "part" ELSE "none"]
     /\ UNCHANGED <<temp, journal, subject>>
  \/ /\ journal[n] = "touch" /\ subject[n] \in temp /\ temp' = temp \ {subject[n]}
     /\ UNCHANGED <<place, journal, subject>>
Forget(n) ==
  journal' = [journal EXCEPT ![n] = "none"] /\ subject' = [subject EXCEPT ![n] = SomeKey]
DropJournal(n) ==
  Cleaned(n) /\ ~Stuck(n) /\ Forget(n) /\ UNCHANGED <<place, temp>>

Mend(p) ==
  /\ pc[p] = "mend"
  /\ \/ CleanStep(op[p]) /\ UNCHANGED pc
     \/ DropJournal(op[p]) /\ Goto(p, "recover")
     \/ Stuck(op[p]) /\ Goto(p, "recover") /\ UNCHANGED <<place, temp, journal, subject>>
  /\ UNCHANGED <<root, lock, stored, used, foreign, bad, odd, hand, work, protected,
                 outcome, ghosts, bounds>>

-----------------------------------------------------------------------------
(* Journaled operations. *)

\* operation(): the journal is created, then written and synced.
Claim(p, k, o) ==
  \E n \in First(Free) :
    /\ journal' = [journal EXCEPT ![n] = "torn"] /\ doing' = [doing EXCEPT ![p] = o]
    /\ subject' = [subject EXCEPT ![n] = k] /\ op' = [op EXCEPT ![p] = n]
    /\ odd' = odd \ {n} /\ Goto(p, "sync") /\ UNCHANGED place
Begins(p) ==
  CASE doing[p] = "touch" -> "temp" [] doing[p] = "retired" -> "rename" [] OTHER -> "mkdir"
Sync(p) ==
  /\ pc[p] = "sync" /\ journal' = [journal EXCEPT ![op[p]] = doing[p]] /\ Goto(p, Begins(p))
  /\ UNCHANGED <<root, lock, entries, subject, place, odd, hand, work, protected, outcome,
                 ghosts, bounds>>

\* What follows an operation in load or store.
Done(p, ok) ==
  LET k == key[p]
      o == doing[p] IN
  CASE o = "touch" ->
         /\ Goto(p, "load")
         /\ IF ok THEN protected' = [protected EXCEPT ![p] = @ \cup {k}] /\ UNCHANGED pending
                  ELSE pending' = [pending EXCEPT ![p] = @ \cup {k}] /\ UNCHANGED protected
    [] o = "retired" /\ ok ->
         /\ Goto(p, IF subject[op[p]] = k THEN "number" ELSE "reserve")
         /\ UNCHANGED <<pending, protected>>
    [] OTHER ->
         /\ Goto(p, "store") /\ pending' = [pending EXCEPT ![p] = @ \ {k}]
         /\ UNCHANGED protected

Finish(p) ==
  /\ pc[p] \in {"finish", "abort"}
  /\ \/ CleanStep(op[p]) /\ UNCHANGED <<pc, pending, protected>>
     \/ DropJournal(op[p]) /\ Done(p, pc[p] = "finish")
     \/ Stuck(op[p]) /\ Done(p, FALSE) /\ UNCHANGED <<place, temp, journal, subject>>
  /\ UNCHANGED <<root, lock, stored, used, foreign, bad, odd, hand, wish, todo,
                 outcome, ghosts, bounds>>

-----------------------------------------------------------------------------
(* Loading. *)

Miss(p, k) == pending' = [pending EXCEPT ![p] = @ \cup {k}]
Number(p) ==
  /\ \E u \in 1..(clock + 1) : IsNext(u) /\ next' = [next EXCEPT ![p] = u]
  /\ blind' = (blind \/ stored # Owned)

\* try_load: the entry is whole, its bytes match and its self-test passes, or it is missed.
Load(p) ==
  /\ pc[p] = "load"
  /\ \E k \in First(wish[p]) :
       /\ wish' = [wish EXCEPT ![p] = @ \ {k}] /\ key' = [key EXCEPT ![p] = k]
       /\ \/ /\ k \in Owned \ bad /\ Number(p) /\ Claim(p, k, "touch") /\ UNCHANGED pending
          \/ Miss(p, k) /\ UNCHANGED <<pc, ops, op, doing, next, blind>>
  /\ UNCHANGED <<root, lock, entries, todo, protected, outcome, turn, clock, bounds>>
Temp(p) ==
  /\ pc[p] = "temp" /\ temp' = temp \cup {key[p]} /\ Goto(p, "replace")
  /\ UNCHANGED <<root, lock, stored, used, foreign, bad, ops, hand, work, protected, outcome,
                 ghosts, bounds>>
Uses(p) ==
  /\ used' = [used EXCEPT ![key[p]] = next[p]]
  /\ clock' = clock + 1 /\ turn' = [turn EXCEPT ![key[p]] = clock']
Replace(p) ==
  /\ pc[p] = "replace" /\ Uses(p) /\ temp' = temp \ {key[p]} /\ Goto(p, "finish")
  /\ UNCHANGED <<root, lock, stored, foreign, bad, ops, hand, work, protected, outcome, blind,
                 bounds>>
Loaded(p) ==
  /\ pc[p] = "load" /\ wish[p] = {} /\ Goto(p, "store")
  /\ UNCHANGED <<root, lock, entries, ops, hand, work, protected, outcome, ghosts, bounds>>

-----------------------------------------------------------------------------
(* Storing. *)

Fails(p, k) == Goto(p, "store") /\ pending' = [pending EXCEPT ![p] = @ \ {k}]

\* store: an entry in the way is removed first, if it is ours.
Store(p) ==
  /\ pc[p] = "store"
  /\ \E k \in First(pending[p]) :
       /\ key' = [key EXCEPT ![p] = k]
       /\ \/ k \notin stored /\ Goto(p, "number") /\ UNCHANGED <<ops, op, doing, pending>>
          \/ k \in Owned \ protected[p] /\ Claim(p, k, "retired") /\ UNCHANGED pending
          \/ k \in stored \ (Owned \ protected[p]) /\ Fails(p, k) /\ UNCHANGED <<ops, op, doing>>
  /\ UNCHANGED <<root, lock, entries, next, wish, todo, protected, outcome, ghosts, bounds>>
Numbered(p) ==
  /\ pc[p] = "number" /\ Number(p) /\ Goto(p, "reserve")
  /\ UNCHANGED <<root, lock, entries, ops, key, op, doing, work, protected, outcome, turn, clock, bounds>>

\* reserve: evict what was used least recently until there is room.
Same(k) == {e \in Owned : Id[e] = Id[k]}
Full == Units + 1 > MaxUnits
Evictable(p, k) == {e \in Owned \ protected[p] : Full \/ e \in Same(k)}
Oldest(S) == {e \in S : \A d \in S : used[e] <= used[d]}
\* Broken variant: only directories that can be read as entries count.
RoomOfOwned(k) == Cardinality(Same(k)) < Keep /\ Cardinality(Owned) + 1 <= MaxUnits
Room(k) == Cardinality(Same(k)) < Keep /\ ~Full
Reserve(p) ==
  /\ pc[p] = "reserve"
  /\ LET k == key[p] IN
     \/ Room(k) /\ Claim(p, k, "stage") /\ UNCHANGED pending
     \/ ~Room(k) /\ \E e \in Oldest(Evictable(p, k)) : Claim(p, e, "retired") /\ UNCHANGED pending
     \/ ~Room(k) /\ Evictable(p, k) = {} /\ Fails(p, k) /\ UNCHANGED <<ops, op, doing>>
  /\ UNCHANGED <<root, lock, entries, key, next, wish, todo, protected, outcome, ghosts, bounds>>

\* remove: the whole directory moves out of its place.
Rename(p) ==
  /\ pc[p] = "rename"
  /\ LET v == subject[op[p]] IN
     /\ stored' = stored \ {v} /\ used' = [used EXCEPT ![v] = 0]
     /\ foreign' = foreign \ {v} /\ bad' = bad \ {v}
     /\ odd' = IF v \in foreign THEN odd \cup {op[p]} ELSE odd
  /\ place' = [place EXCEPT ![op[p]] = "full"] /\ Goto(p, "finish")
  /\ UNCHANGED <<root, lock, temp, journal, subject, hand, work, protected, outcome, ghosts,
                 bounds>>

Mkdir(p) ==
  /\ pc[p] = "mkdir" /\ place' = [place EXCEPT ![op[p]] = "part"] /\ Goto(p, "write")
  /\ UNCHANGED <<root, lock, entries, journal, subject, odd, hand, work, protected, outcome,
                 ghosts, bounds>>
WriteFiles(p) ==
  /\ pc[p] = "write" /\ place' = [place EXCEPT ![op[p]] = "full"] /\ Goto(p, "publish")
  /\ UNCHANGED <<root, lock, entries, journal, subject, odd, hand, work, protected, outcome,
                 ghosts, bounds>>
Publish(p) ==
  /\ pc[p] = "publish" /\ stored' = stored \cup {key[p]} /\ Uses(p)
  /\ place' = [place EXCEPT ![op[p]] = "none"] /\ Goto(p, "finish")
  /\ protected' = [protected EXCEPT ![p] = @ \cup {key[p]}]
  /\ UNCHANGED <<root, lock, temp, foreign, bad, journal, subject, odd, hand, work, outcome,
                 blind, bounds>>
Close(p) ==
  /\ pc[p] = "store" /\ pending[p] = {} /\ Leave(p, "ready")
  /\ UNCHANGED <<root, entries, ops, ghosts, bounds>>

-----------------------------------------------------------------------------
(* Faults and other programs. *)

Fault == faults < MaxFaults /\ faults' = faults + 1
Calm == UNCHANGED <<root, lock, stored, used, temp, foreign, bad, odd, hand, wish, todo,
                    outcome, ghosts, uses>>

\* A file cannot be removed: what is left stays with its journal.
FinishFails(p) ==
  /\ Fault
  /\ \/ pc[p] = "mend" /\ Goto(p, "recover") /\ UNCHANGED <<pending, protected>>
     \/ pc[p] \in {"finish", "abort"} /\ Done(p, FALSE)
  /\ UNCHANGED <<journal, subject, place>> /\ Calm
\* The rename of a removal fails: its journal goes and the store fails.
RenameFails(p) ==
  /\ Fault /\ pc[p] = "rename" /\ Forget(op[p])
  /\ Fails(p, key[p]) /\ UNCHANGED <<place, protected>> /\ Calm
\* A step of a stage, or the replacement of entry.json, fails and is undone; a temporary
\* file that cannot be written leaves its journal to the next session.
StepFails(p) ==
  /\ Fault
  /\ \/ pc[p] \in {"mkdir", "write", "publish", "replace"} /\ Goto(p, "abort")
        /\ UNCHANGED <<pending, protected>>
     \/ pc[p] = "temp" /\ Done(p, FALSE)
  /\ UNCHANGED <<journal, subject, place>> /\ Calm

Crash(p) ==
  /\ pc[p] # "idle" /\ Fault /\ Leave(p, "none")
  /\ UNCHANGED <<root, entries, ops, ghosts, uses>>

\* Somebody puts a file into an entry, or changes one.
Tamper(k) ==
  /\ Fault /\ k \in stored
  /\ \/ foreign' = foreign \cup {k} /\ UNCHANGED bad
     \/ bad' = bad \cup {k} /\ UNCHANGED foreign
  /\ UNCHANGED <<root, lock, stored, used, temp, ops, pc, hand, work, protected, outcome, ghosts,
                 uses>>

Run(p) ==
  \/ Create(p) \/ WriteOwner(p) \/ Acquire(p) \/ Recover(p) \/ Mend(p) \/ Sync(p) \/ Finish(p)
  \/ Load(p) \/ Temp(p) \/ Replace(p) \/ Loaded(p) \/ Store(p) \/ Numbered(p) \/ Reserve(p)
  \/ Rename(p) \/ Mkdir(p) \/ WriteFiles(p) \/ Publish(p) \/ Close(p)
Next ==
  \/ \E p \in Procs : Start(p) \/ Run(p) \/ FinishFails(p) \/ RenameFails(p) \/ StepFails(p)
                      \/ Crash(p)
  \/ \E k \in Keys : Tamper(k)
Spec == Init /\ [][Next]_vars

\* A preparation that runs goes on, and there will be others.
FairSpec == Spec /\ \A p \in Procs : WF_vars(Run(p)) /\ WF_vars(Start(p))

-----------------------------------------------------------------------------
(* Properties. *)

\* Entries, hidden ones and leftovers included, never outgrow the capacity, and no asset
\* has more entries than are kept unless one was hidden when another was stored.
BoundHolds ==
  /\ Units <= MaxUnits
  /\ ~blind => \A k \in Keys : Cardinality(Same(k)) <= Keep

\* A session that makes room evicts nothing that it has loaded or stored itself, and of the
\* rest what was loaded or stored longest ago, of all entries when the cache is full and of
\* those of the same asset otherwise.
Leased == UNION {protected[p] : p \in lock}
EvictsOldest ==
  [][\A v \in stored \ stored' : blind \/ (\E p \in lock : v = key[p]) \/
       (v \notin Leased /\ \A e \in Owned \ (Leased \cup {v}) :
          Full \/ Id[e] = Id[v] => turn[v] < turn[e])]_vars

\* What dead sessions left goes away once others open the cache, but for directories
\* into which somebody put a file.
GetsClean == <>[](temp = {} /\ \A n \in Nonces \ odd : place[n] = "none")

\* A preparation is not refused on account of its cache.
NeverRefused == \A p \in Procs : outcome[p] # "refused"
=============================================================================
