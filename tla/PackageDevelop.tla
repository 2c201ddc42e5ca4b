--------------------------- MODULE PackageDevelop ---------------------------
(* The computation behind `develop` (lifecycle/src/release/schema4/          *)
(* development.rs): which packages an edit reaches, which versions close the *)
(* change, which requirements have to follow, and what falls back when a     *)
(* package that was to graduate fails its stability checks.                  *)
(*                                                                           *)
(* A tree is the part of a checkout that versions depend on.  Content is a   *)
(* number that an edit changes; a fingerprint is the record of the things    *)
(* the program hashes.  The packages and the dependencies between them are   *)
(* fixed: adding, moving, renaming and retiring packages is not modelled.    *)
EXTENDS SemVer, FiniteSets

CONSTANTS
    Packages,
    Edges,        \* <<owner, target>>: owner depends on target
    Contracted,   \* the packages with a stability contract
    Delivers      \* the packages that deliver release artifacts

ASSUME EdgesAssumption == Edges \subseteq {e \in Packages \X Packages : e[1] # e[2]}
ASSUME PackagesAssumption == IsFiniteSet(Packages)
ASSUME PolicyAssumption == Contracted \subseteq Packages /\ Delivers \subseteq Packages

\* S with everything step adds to it, one round after another.
Reach(S, step) ==
    LET grown[n \in 0..Cardinality(Packages)] ==
            IF n = 0 THEN S ELSE LET prior == grown[n - 1] IN prior \cup step[prior]
    IN  grown[Cardinality(Packages)]

DependencyScope ==
    [p \in Packages |->
        Reach({p}, [S \in SUBSET Packages |-> {e[2] : e \in {f \in Edges : f[1] \in S}}])]

Consumers(S) ==
    Reach(S, [T \in SUBSET Packages |-> {e[1] : e \in {f \in Edges : f[2] \in T}}])

\* What a task may touch: the packages asked for, all that depend on them, and
\* all that those need.  The other consumers of what they need stay outside.
TaskScope(requested) == UNION {DependencyScope[p] : p \in Consumers(requested)}

-----------------------------------------------------------------------------
(* Fingerprints and the ledger of closed packages.                           *)

\* The files a package owns: its sources and its manifest.
Content(t, p) ==
    [files |-> t.content[p], version |-> t.version[p], literal |-> p \notin t.inherited,
     requires |-> [e \in {f \in Edges : f[1] = p} |-> t.req[e]]]

\* What a package is built with: the versions and the part of Cargo.lock of all it
\* depends on.
Build(t, p) == [q \in DependencyScope[p] |-> <<t.version[q], t.lock[q]>>]

\* What is recorded of a closed package.
Fingerprint(t, p) ==
    [content      |-> Content(t, p),
     dependencies |-> [q \in DependencyScope[p] |-> Content(t, q)],
     build        |-> Build(t, p)]

Recorded(t, p) == \E i \in DOMAIN t.ledger : t.ledger[i].id = p

Latest(t, p) ==
    t.ledger[CHOOSE i \in DOMAIN t.ledger :
                 /\ t.ledger[i].id = p
                 /\ \A j \in (i + 1)..Len(t.ledger) : t.ledger[j].id # p]

\* A later ledger keeps a published one as its beginning.
Extends(ledger, published) ==
    Len(ledger) >= Len(published) /\ SubSeq(ledger, 1, Len(published)) = published

EntriesSince(t, base) == {t.ledger[i] : i \in (Len(base.ledger) + 1)..Len(t.ledger)}

\* The versions a ledger records of one package form a chain that only grows,
\* and stands still only in a revalidation.
LedgerParses(ledger) ==
    \A i \in DOMAIN ledger :
        LET e == ledger[i]
        IN  /\ ~Less(e.after, e.before)
            /\ e.after = e.before => e.level = 0
            /\ \A j \in 1..(i - 1) :
                   (ledger[j].id = e.id /\ \A k \in (j + 1)..(i - 1) : ledger[k].id # e.id)
                       => ledger[j].after = e.before

\* Broken variant: the scope without the packages that depend on a changed one.
ReleaseScopeOfChanges(t, base) ==
    {p \in Packages : Content(t, p) # Content(base, p)}
        \cup Delivers \cup {e.id : e \in EntriesSince(t, base)}

\* The packages a release of t has to find closed: changed since the release
\* it builds on, closed since then, or depending on one of those.
ReleaseScope(t, base) ==
    Consumers({p \in Packages : Content(t, p) # Content(base, p)}
              \cup Delivers
              \cup {e.id : e \in EntriesSince(t, base)}
              \cup {p \in Packages : Build(t, p) # Build(base, p)})

Pending(t, base, scope) ==
    LET concerned == ReleaseScope(t, base)
    IN  {p \in scope : IF Recorded(t, p) THEN Latest(t, p).print # Fingerprint(t, p)
                                         ELSE p \in concerned}

\* Nothing of the package itself changed since it was closed or published.
UnchangedContent(t, base, p) ==
    Content(t, p) = IF Recorded(t, p) THEN Latest(t, p).print.content ELSE Content(base, p)

\* The changed packages and those whose public interface follows a dependency
\* that is among them.
DirectChanges(t, base, affected, impacts) ==
    Reach({p \in affected : ~UnchangedContent(t, base, p)},
            [S \in SUBSET Packages |-> {p \in {e[1] : e \in impacts} :
                                           \A e \in impacts : e[1] = p => e[2] \in S}])

-----------------------------------------------------------------------------
(* One develop.  A request names its scope and carries the analysis of every *)
(* package (level, breaking or not, explicit target or NoVersion) and the    *)
(* edges along which an interface changes.  ctx is the tree, the release it  *)
(* builds on, the highest withdrawn version of each package and the lost     *)
(* artifacts.                                                                *)

InitiallyAffected(ctx, scope) ==
    Pending(ctx.tree, ctx.base, scope)
        \cup {p \in scope : Recorded(ctx.tree, p) /\ p \in ctx.lost}

\* Broken variant: a breaking change is a minor one, whatever the version.
BreakingIsMinor(version) == 2

\* The level that tells a breaking change of a version: minor during 0.x.
BreakingLevel(version) == IF Unstable(version) THEN 2 ELSE 3

\* The version of a package, with every reason to refuse it.
Choice(ctx, request, plan, p) ==
    LET current  == ctx.tree.version[p]
        a        == request.analysis[p]
        explicit == a.target # NoVersion
        revalidation == /\ p \notin plan.force
                        /\ p \in plan.mechanical \/ UnchangedContent(ctx.tree, ctx.base, p)
        floor    == ctx.floor[p]
        base     == Later(current, floor)
        minimum  == BumpNative(base, a.level)
        target   == IF revalidation THEN current ELSE IF explicit THEN a.target ELSE minimum
        promote  == Unstable(current) /\ ~revalidation /\ ~a.breaking /\ p \in Contracted
        final    == IF promote THEN Stable ELSE target
    IN  [version   |-> final,
         fallback  |-> target,
         level     |-> IF revalidation THEN 0 ELSE a.level,
         stability |-> IF promote THEN "eligible" ELSE "none",
         refused   |->
            \/ a.breaking /\ a.level # BreakingLevel(current)
            \/ explicit /\ Unstable(current) /\ ~Unstable(a.target)
            \/ explicit /\ revalidation
            \/ explicit /\ ~revalidation /\ (~Less(base, a.target) \/ Less(a.target, minimum))
            \/ Unstable(current) /\ ~promote /\ ~Unstable(target)
            \/ ~revalidation /\ ~Less(floor, final)]

\* The requirements that do not accept a planned version are rewritten.
Render(t, planned, version) ==
    [e \in Edges |-> IF e[2] \in planned /\ ~Accepts(t.req[e], version[e[2]])
                     THEN UpdatedRequirement(t.req[e], version[e[2]])
                     ELSE t.req[e]]

CannotFollow(t, planned, version) ==
    \E e \in Edges : /\ e[2] \in planned
                     /\ ~Accepts(t.req[e], version[e[2]])
                     /\ ~Rewritable(t.req[e])

RequirementOwners(t, req) == {e[1] : e \in {f \in Edges : req[f] # t.req[f]}}

\* A round that neither affects nor forces a further package is the last one.
Rests(plan, affected, owners) == affected = plan.affected /\ owners \subseteq plan.force

\* The choices of a round, unless one is refused.
Chosen(request, plan, choice) ==
    LET new(field) ==
            [p \in Packages |-> IF p \in plan.affected THEN choice[p][field] ELSE plan[field][p]]
    IN  [plan EXCEPT
            !.error     = CASE ~(plan.affected \subseteq request.scope) -> "outside scope"
                            [] \E p \in plan.affected : choice[p].refused -> "refused"
                            [] OTHER -> "none",
            !.version   = new("version"),
            !.fallback  = new("fallback"),
            !.level     = new("level"),
            !.stability = new("stability")]

\* The chosen versions are rendered, and the packages the result reaches are
\* taken in: owners of a rewritten requirement, packages whose inherited
\* version became a literal, and closed packages whose part of the lock changed.
Rendered(t, plan, owners) ==
    LET changed == {p \in Packages : plan.version[p] # t.version[p]}
        written == (owners \cup t.inherited \cup changed) \ (plan.affected \cup owners)
        locked  == {p \in Packages : Recorded(t, p) /\ DependencyScope[p] \cap changed # {}}
        next    == plan.affected \cup owners \cup written \cup locked
    IN  [plan EXCEPT
            !.error      = IF @ = "none" /\ CannotFollow(t, plan.affected, plan.version)
                           THEN "refused" ELSE @,
            !.force      = @ \cup owners,
            !.mechanical = @ \cup written,
            !.affected   = next,
            !.stable     = Rests(plan, next, owners)]

Round(ctx, request, plan) ==
    LET chosen == Chosen(request, plan, [p \in plan.affected |-> Choice(ctx, request, plan, p)])
        owners == RequirementOwners(ctx.tree, Render(ctx.tree, plan.affected, chosen.version))
    IN  Rendered(ctx.tree, chosen, owners)

\* One round more than there are packages, and then the plan is given up.
\* first are the packages affected initially.
Prepare(ctx, request, first) ==
    LET t        == ctx.tree
        direct   == DirectChanges(t, ctx.base, first, request.impacts)
        impacted == {e[1] : e \in request.impacts}
        start    == [affected |-> first \cup direct, direct |-> direct, force |-> impacted,
                     mechanical |-> {}, version |-> t.version, fallback |-> t.version,
                     level |-> [p \in Packages |-> 0],
                     stability |-> [p \in Packages |-> "none"],
                     stable |-> FALSE,
                     error |-> IF first = {} THEN "nothing"
                               ELSE IF impacted \subseteq direct THEN "none" ELSE "refused"]
        rounds[n \in 0..(Cardinality(Packages) + 2)] ==
            IF n = 0 THEN start
            ELSE LET plan == rounds[n - 1]
                 IN  IF plan.stable \/ plan.error # "none" THEN plan
                     ELSE Round(ctx, request, plan)
        last     == rounds[Cardinality(Packages) + 2]
    IN  IF last.error = "none" /\ ~last.stable THEN [last EXCEPT !.error = "diverged"]
        ELSE IF last.error = "none" /\ ~(last.affected \subseteq request.scope)
             THEN [last EXCEPT !.error = "outside scope"]
        ELSE last

-----------------------------------------------------------------------------
(* Stability checks of the final candidate.                                  *)

Graduating(plan) == {p \in plan.affected : plan.version[p] # plan.fallback[p]}

\* A caller that only followed a graduation keeps its version when its
\* requirement no longer changes.
KeepCallers(t, plan) ==
    LET kept[n \in 0..(Cardinality(Packages) + 1)] ==
            IF n = 0 THEN plan
            ELSE LET prior == kept[n - 1]
                     drop  == {p \in plan.affected \ plan.direct :
                                 /\ prior.version[p] # t.version[p]
                                 /\ p \notin RequirementOwners(t,
                                        Render(t, plan.affected, prior.version))}
                     back(f, g) == [p \in Packages |-> IF p \in drop THEN g[p] ELSE f[p]]
                 IN  [prior EXCEPT !.version  = back(@, t.version),
                                   !.fallback = back(@, t.version),
                                   !.level    = back(@, [p \in drop |-> 0])]
    IN  kept[Cardinality(Packages) + 1]

\* The packages whose checks fail go back to the version without graduation.
FallBack(t, plan, failing) ==
    KeepCallers(t,
        [plan EXCEPT
            !.version   = [p \in Packages |-> IF p \in failing THEN plan.fallback[p] ELSE @[p]],
            !.stability = [p \in Packages |-> IF p \in failing THEN "remains" ELSE @[p]]])

\* Every round of checks has its own failures; without one the plan is final.
Checked(t, plan, failures) ==
    LET after[n \in 0..Len(failures)] ==
            IF n = 0 THEN plan
            ELSE LET prior   == after[n - 1]
                     failing == failures[n] \cap Graduating(prior)
                 IN  IF failing = {} THEN prior ELSE FallBack(t, prior, failing)
        final == after[Len(failures)]
    IN  [final EXCEPT
            !.stability = [p \in Packages |-> IF p \in Graduating(final) THEN "passed" ELSE @[p]]]

\* Broken variant: the fingerprints that were captured before the candidate was written.
PrintedBefore(t, done, p) == Fingerprint(t, p)

\* The fingerprint an entry records is that of the final candidate.
Printed(t, done, p) == Fingerprint(done, p)

\* The tree with the final candidate in place and an entry for every affected
\* package.  Whether its interface was impacted is part of the entry's reason.
Closed(ctx, request, plan) ==
    LET t    == ctx.tree
        done == [t EXCEPT !.version = plan.version,
                          !.req = Render(t, plan.affected, plan.version),
                          !.inherited = {}]
        entry(p) ==
            [id |-> p,
             before |-> IF Recorded(t, p) THEN Latest(t, p).after ELSE ctx.base.version[p],
             after |-> plan.version[p], print |-> Printed(t, done, p),
             level |-> plan.level[p], breaking |-> request.analysis[p].breaking,
             impacted |-> \E e \in request.impacts : e[1] = p,
             stability |-> plan.stability[p]]
        order == CHOOSE s \in [1..Cardinality(plan.affected) -> plan.affected] :
                     \A p \in plan.affected : \E i \in DOMAIN s : s[i] = p
    IN  [done EXCEPT !.ledger = @ \o [i \in DOMAIN order |-> entry(order[i])]]
=============================================================================
