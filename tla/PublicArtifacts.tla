---------------------------- MODULE PublicArtifacts ----------------------------
(***************************************************************************)
(* The programs a product delivers to projects.  Preparing a product takes *)
(* each program from the cache of the user or builds it, and ends with a   *)
(* receipt that names the entries; installing a product into a project     *)
(* reads receipt and entries without a lock, builds nothing and fails      *)
(* closed.  Several preparations and installations run at a time while the *)
(* product is upgraded and the cache, which keeps few entries, evicts.     *)
(* Source: prepare_with_product_version, read and prune_receipts in        *)
(* source/workflow/src/public_artifacts.rs; generated_writes_internal in   *)
(* source/core/src/generated_assets.rs; open_shared, prepared_reference    *)
(* and read_prepared in source/core/src/artifact_cache.rs.                 *)
(*                                                                         *)
(* Two builds of the same inputs give different bytes.  The inside of a    *)
(* cache session is the module ArtifactCache; here a load is one step and  *)
(* a store two.  Left out: the capacity in bytes, the compiler environment *)
(* and the program an updater brings with it.                              *)
(***************************************************************************)
EXTENDS Naturals, Sequences, FiniteSets, SequencesExt

CONSTANTS Contracts,    \* releases of the product, numbers from 1
          Assets,       \* the programs, numbers in the order of the contract
          Input,        \* release -> program -> the sources it is built from
          Procs,        \* preparations and installations that run at a time
          Keep,         \* entries kept of one program
          KeepReceipts, \* receipts kept of other releases
          Builds,       \* bound: builds told apart at a time
          MaxUpgrades,  \* bound: changes of the product
          MaxFaults     \* bound: crashes, failing builds, damage to the cache

ASSUME NumbersAssumption == Assets \subseteq Nat /\ Contracts \subseteq Nat \ {0}
ASSUME KeepAssumption == Keep \in Nat \ {0} /\ KeepReceipts \in Nat

VARIABLES product,  \* the release in the product directory
          entry,    \* program and sources -> the build in the cache, if any
          recent,   \* the entries, least recently used first
          bad,      \* entries whose bytes were damaged
          ready,    \* release -> its receipt: program -> build, or no program
          written,  \* the receipts, oldest first
          lock,     \* the preparation that has the cache, if any
          pc, release, source,
          left,     \* programs still to be dealt with
          refs,     \* program -> the build taken, or what the receipt names
          seen,     \* the entry is as it was when its reading began
          bin,      \* the binary that was read
          got,      \* program -> binary and receipt read
          upgrades, faults

disk == <<product, entry, recent, bad, ready, written>>
proc == <<pc, release, source, left, refs, seen, bin, got>>
bounds == <<upgrades, faults>>
vars == <<disk, lock, proc, bounds>>

Keys == {<<a, Input[c][a]>> : c \in Contracts, a \in Assets}
Key(c, a) == <<a, Input[c][a]>>
Build == [id : Builds, of : Keys]
NoRefs == <<>>
None == 0
Steps == {"idle", "capture", "open", "take", "room", "publish", "receipt", "prune", "read",
          "entry", "binary", "rest", "done"}
TypeOK ==
  /\ product \in Contracts /\ DOMAIN entry \subseteq Keys
  /\ (\A k \in DOMAIN entry : entry[k] \in Build)
  /\ ToSet(recent) = DOMAIN entry /\ Len(recent) = Cardinality(DOMAIN entry)
  /\ bad \subseteq DOMAIN entry
  /\ DOMAIN ready \subseteq Contracts /\ ToSet(written) = DOMAIN ready
  /\ lock \subseteq Procs /\ Cardinality(lock) <= 1
  /\ \A p \in Procs : /\ pc[p] \in Steps /\ {release[p], source[p]} \subseteq Contracts \cup {None}
                      /\ left[p] \subseteq Assets /\ DOMAIN refs[p] \subseteq Assets
                      /\ seen[p] \in BOOLEAN /\ DOMAIN got[p] \subseteq Assets
  /\ upgrades \in 0..MaxUpgrades /\ faults \in 0..MaxFaults

Init ==
  /\ product \in Contracts /\ entry = <<>> /\ recent = <<>> /\ bad = {}
  /\ ready = <<>> /\ written = <<>> /\ lock = {}
  /\ pc = [p \in Procs |-> "idle"] /\ release = [p \in Procs |-> None] /\ source = release
  /\ left = [p \in Procs |-> {}] /\ refs = [p \in Procs |-> NoRefs]
  /\ seen = [p \in Procs |-> FALSE] /\ bin = [p \in Procs |-> {}]
  /\ got = [p \in Procs |-> <<>>]
  /\ upgrades = 0 /\ faults = 0

Goto(p, label) == pc' = [pc EXCEPT ![p] = label]
\* A run that ends gives the lock back and forgets what it had in hand.
Ends(p) ==
  /\ Goto(p, "idle") /\ lock' = lock \ {p}
  /\ release' = [release EXCEPT ![p] = None] /\ source' = [source EXCEPT ![p] = None]
  /\ left' = [left EXCEPT ![p] = {}] /\ refs' = [refs EXCEPT ![p] = NoRefs]
  /\ seen' = [seen EXCEPT ![p] = FALSE] /\ bin' = [bin EXCEPT ![p] = {}]
  /\ got' = [got EXCEPT ![p] = <<>>]
Current(p) == {a \in left[p] : \A b \in left[p] : a <= b}
Without(f, S) == [k \in DOMAIN f \ S |-> f[k]]
With(f, k, v) == [x \in DOMAIN f \cup {k} |-> IF x = k THEN v ELSE f[x]]
Renewed(s, x) == Append(SelectSeq(s, LAMBDA y : y # x), x)

-----------------------------------------------------------------------------
(* Preparing. *)

Prepare(p) ==
  /\ pc[p] = "idle" /\ Goto(p, "capture")
  /\ release' = [release EXCEPT ![p] = product] /\ left' = [left EXCEPT ![p] = Assets]
  /\ UNCHANGED <<disk, lock, source, refs, seen, bin, got, bounds>>

\* Broken variant: the copy is not compared with the contract.
MatchesAnything(p) == TRUE
\* The sources are copied, and the copy must be what the contract says.
Matches(p) == Input[product] = Input[release[p]]
Capture(p) ==
  /\ pc[p] = "capture"
  /\ IF Matches(p)
     THEN /\ source' = [source EXCEPT ![p] = product] /\ Goto(p, "open")
          /\ UNCHANGED <<lock, release, left, refs, seen, bin, got>>
     ELSE Ends(p)
  /\ UNCHANGED <<disk, bounds>>

\* open_shared waits for the lock, and not for ever.
Open(p) ==
  /\ pc[p] = "open"
  /\ \/ lock = {} /\ lock' = {p} /\ Goto(p, "take")
        /\ UNCHANGED <<release, source, left, refs, seen, bin, got>>
     \/ lock # {} /\ Ends(p)
  /\ UNCHANGED <<disk, bounds>>

\* Whoever reads an entry notices that it is written or used.
Disturb(S) ==
  seen' = [q \in Procs |->
             seen[q] /\ ~\E a \in Current(q) : Key(release[q], a) \in S]

\* Broken variant: a damaged entry is a hit.
HitAnyway(k) == k \in DOMAIN entry
Hit(k) == k \in DOMAIN entry /\ k \notin bad
Take(p) ==
  /\ pc[p] = "take"
  /\ \E a \in Current(p) : LET k == Key(release[p], a) IN
       IF Hit(k)
       THEN /\ recent' = Renewed(recent, k) /\ Disturb({k})
            /\ refs' = [refs EXCEPT ![p] = With(@, a, entry[k])]
            /\ left' = [left EXCEPT ![p] = @ \ {a}] /\ UNCHANGED pc
       ELSE Goto(p, "room") /\ UNCHANGED <<recent, seen, left, refs>>
  /\ UNCHANGED <<product, entry, bad, ready, written, lock, release, source, bin, got, bounds>>

\* After the build, what is in the way of the new entry goes: a damaged one with its
\* name, and of the same program what was used longest ago.
Siblings(k) == SelectSeq(recent, LAMBDA j : j[1] = k[1] /\ j # k)
InTheWay(k) ==
  LET n == Len(Siblings(k)) IN
  ({k} \cap DOMAIN entry) \cup {Siblings(k)[i] : i \in 1..(IF n < Keep THEN 0 ELSE n + 1 - Keep)}
Room(p) ==
  /\ pc[p] = "room"
  /\ \E a \in Current(p) : LET S == InTheWay(Key(release[p], a)) IN
       /\ entry' = Without(entry, S) /\ recent' = SelectSeq(recent, LAMBDA j : j \notin S)
       /\ bad' = bad \ S /\ Disturb(S)
  /\ Goto(p, "publish")
  /\ UNCHANGED <<product, ready, written, lock, release, source, left, refs, bin, got, bounds>>

InUse == {entry[k].id : k \in DOMAIN entry}
         \cup UNION {{ready[c][a].id : a \in DOMAIN ready[c]} : c \in DOMAIN ready}
         \cup UNION {{refs[p][a].id : a \in DOMAIN refs[p]} : p \in Procs}
         \cup UNION {{b.id : b \in bin[p]} : p \in Procs}
         \cup UNION {{b.id : b \in UNION {got[p][a] : a \in DOMAIN got[p]}} : p \in Procs}
Fresh == CHOOSE n \in Builds : n \notin InUse
Publish(p) ==
  /\ pc[p] = "publish" /\ ~(Builds \subseteq InUse)
  /\ \E a \in Current(p) :
       LET k == Key(release[p], a)
           b == [id |-> Fresh, of |-> Key(source[p], a)] IN
       /\ entry' = With(entry, k, b) /\ recent' = Append(recent, k)
       /\ refs' = [refs EXCEPT ![p] = With(@, a, b)] /\ left' = [left EXCEPT ![p] = @ \ {a}]
  /\ Goto(p, "take")
  /\ UNCHANGED <<product, bad, ready, written, lock, release, source, seen, bin, got, bounds>>

\* The lock is given back before the receipt is written.
Taken(p) ==
  /\ pc[p] = "take" /\ left[p] = {} /\ lock' = lock \ {p} /\ Goto(p, "receipt")
  /\ UNCHANGED <<disk, release, source, left, refs, seen, bin, got, bounds>>

WriteReceipt(p) ==
  /\ pc[p] = "receipt"
  /\ IF product # release[p]
     THEN Ends(p) /\ UNCHANGED <<ready, written>>
     ELSE /\ ready' = With(ready, release[p], refs[p])
          /\ written' = Renewed(written, release[p]) /\ Goto(p, "prune")
          /\ UNCHANGED <<lock, release, source, left, refs, seen, bin, got>>
  /\ UNCHANGED <<product, entry, recent, bad, bounds>>
Prune(p) ==
  /\ pc[p] = "prune"
  /\ LET others == SelectSeq(written, LAMBDA c : c # release[p])
         n == Len(others)
         old == {others[i] : i \in 1..(IF n < KeepReceipts THEN 0 ELSE n - KeepReceipts)} IN
     /\ ready' = Without(ready, old) /\ written' = SelectSeq(written, LAMBDA c : c \notin old)
  /\ Goto(p, "read")
  /\ UNCHANGED <<product, entry, recent, bad, lock, release, source, left, refs, seen, bin, got,
                 bounds>>

-----------------------------------------------------------------------------
(* Reading what was prepared, to install it or at the end of a preparation. *)

Install(p) ==
  /\ pc[p] = "idle" /\ Goto(p, "read")
  /\ release' = [release EXCEPT ![p] = product]
  /\ UNCHANGED <<disk, lock, source, left, refs, seen, bin, got, bounds>>

ReadReceipt(p) ==
  /\ pc[p] = "read"
  /\ IF release[p] \in DOMAIN ready
     THEN /\ refs' = [refs EXCEPT ![p] = ready[release[p]]]
          /\ left' = [left EXCEPT ![p] = Assets] /\ Goto(p, "entry")
          /\ UNCHANGED <<lock, release, source, seen, bin, got>>
     ELSE Ends(p)
  /\ UNCHANGED <<disk, bounds>>

\* What entry.json says of the build, and what the receipt says.
Is(k, b) == k \in DOMAIN entry /\ entry[k] = b
ReadEntry(p) ==
  /\ pc[p] = "entry"
  /\ \E a \in Current(p) :
       IF Is(Key(release[p], a), refs[p][a])
       THEN /\ seen' = [seen EXCEPT ![p] = TRUE] /\ Goto(p, "binary")
            /\ UNCHANGED <<lock, release, source, left, refs, bin, got>>
       ELSE Ends(p)
  /\ UNCHANGED <<disk, bounds>>
ReadBinary(p) ==
  /\ pc[p] = "binary"
  /\ \E a \in Current(p) : LET k == Key(release[p], a) IN
       IF k \in DOMAIN entry
       THEN /\ bin' = [bin EXCEPT ![p] = {entry[k]}] /\ Goto(p, "rest")
            /\ UNCHANGED <<lock, release, source, left, refs, seen, got>>
       ELSE Ends(p)
  /\ UNCHANGED <<disk, bounds>>
\* The receipt of the build; the hashes; everything is read once more.
ReadRest(p) ==
  /\ pc[p] = "rest"
  /\ \E a \in Current(p) : LET k == Key(release[p], a) IN
       IF Is(k, refs[p][a]) /\ bin[p] = {refs[p][a]} /\ seen[p] /\ k \notin bad
       THEN /\ got' = [got EXCEPT ![p] = With(@, a, bin[p] \cup {entry[k]})]
            /\ left' = [left EXCEPT ![p] = @ \ {a}] /\ seen' = [seen EXCEPT ![p] = FALSE]
            /\ bin' = [bin EXCEPT ![p] = {}] /\ Goto(p, "entry")
            /\ UNCHANGED <<lock, release, source, refs>>
       ELSE Ends(p)
  /\ UNCHANGED <<disk, bounds>>
ReadAll(p) ==
  /\ pc[p] = "entry" /\ left[p] = {}
  /\ IF release[p] \in DOMAIN ready /\ ready[release[p]] = refs[p]
     THEN Goto(p, "done") /\ UNCHANGED <<lock, release, source, left, refs, seen, bin, got>>
     ELSE Ends(p)
  /\ UNCHANGED <<disk, bounds>>

Done(p) ==
  /\ pc[p] = "done" /\ Ends(p) /\ UNCHANGED <<disk, bounds>>

-----------------------------------------------------------------------------
(* Others. *)

Fault == faults < MaxFaults /\ faults' = faults + 1 /\ UNCHANGED upgrades
Upgrade ==
  /\ upgrades < MaxUpgrades /\ upgrades' = upgrades + 1
  /\ product' \in Contracts \ {product}
  /\ UNCHANGED <<entry, recent, bad, ready, written, lock, proc, faults>>
Damage(k) ==
  /\ Fault /\ k \in DOMAIN entry \ bad /\ bad' = bad \cup {k}
  /\ UNCHANGED <<product, entry, recent, ready, written, lock, proc>>
\* A crash, or a build or a store that fails.
Stops(p) ==
  /\ Fault /\ pc[p] \notin {"idle", "done"} /\ Ends(p)
  /\ UNCHANGED disk

Step(p) ==
  \/ Capture(p) \/ Open(p) \/ Take(p) \/ Room(p) \/ Publish(p) \/ Taken(p) \/ WriteReceipt(p)
  \/ Prune(p) \/ ReadReceipt(p) \/ ReadEntry(p) \/ ReadBinary(p) \/ ReadRest(p) \/ ReadAll(p)
  \/ Done(p)
Next ==
  \/ \E p \in Procs : Prepare(p) \/ Install(p) \/ Step(p) \/ Stops(p)
  \/ Upgrade
  \/ \E k \in Keys : Damage(k)
Spec == Init /\ [][Next]_vars

\* A run goes on, and whoever wants the product prepares it again.
FairSpec ==
  Spec /\ \A p \in Procs : WF_vars(Step(p)) /\ SF_vars(Prepare(p))

-----------------------------------------------------------------------------
(* Properties. *)

\* Whatever is prepared, evicted, rebuilt, damaged or upgraded meanwhile, an installation
\* gets for every program of its release the binary and the receipt of one build, and that
\* build was made from the sources the release names.
OneBuild ==
  \A p \in Procs : pc[p] = "done" =>
    \A a \in Assets : \E b \in Build : got[p][a] = {b} /\ b.of = Key(release[p], a)

\* Once the product and the cache are left alone, preparations that overtake each other
\* come to agree: the receipt of the release names what the cache holds, for good.
Readable(c) == c \in DOMAIN ready /\ \A a \in Assets : Is(Key(c, a), ready[c][a]) /\ Key(c, a) \notin bad
StaysReadable == <>[]Readable(product)
=============================================================================
