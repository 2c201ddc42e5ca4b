--------------------------- MODULE PackageRelease ---------------------------
(* The life of package versions: edits, develop, formal releases and their   *)
(* withdrawal (lifecycle/src/release/schema4: development.rs, plan.rs,       *)
(* withdrawal.rs).  One checkout is worked on by one user; every command is  *)
(* one step here, because DevelopTransaction and GitSync model what happens  *)
(* inside of the transaction and of the publication.                         *)
(*                                                                           *)
(* history holds the commits of the first-parent chain that change VERSION:  *)
(* formal releases, and rollbacks together with the withdrawal that declares *)
(* them.  The commits between them do not matter to these commands.          *)
EXTENDS PackageDevelop

CONSTANTS
    Requires,       \* the requirement on each edge, at first
    FirstVersion,   \* the versions of the packages, at first
    FirstProduct,   \* the version of the product, at first
    FirstInherited, \* the packages whose version is inherited, at first
    Answers,        \* the analyses a user may give of a package
    ProductAnswers, \* the analyses a user may give of the product
    Authored,       \* the packages whose content may change
    LockUsers,      \* the packages whose external dependencies may change
    Unreliable,     \* the packages whose stability checks may fail
    MaxChanges,     \* bound: edits of the checkout
    MaxHistory      \* bound: releases and withdrawals, the baseline included

Analyses == [level : 1..3, breaking : BOOLEAN, target : Versions]

ASSUME AnswersAssumption == Answers \subseteq Analyses /\ ProductAnswers \subseteq Analyses
ASSUME StartAssumption ==
    /\ FirstVersion \in [Packages -> Versions] /\ FirstProduct \in Versions
    /\ {FirstInherited, Authored, LockUsers, Unreliable} \subseteq SUBSET Packages
    /\ {MaxChanges, MaxHistory} \subseteq Nat
\* A dependency that does not accept its target is refused when the metadata are read.
ASSUME RequiresAssumption ==
    /\ Requires \in [Edges -> Requirement]
    /\ \A e \in Edges : Accepts(Requires[e], FirstVersion[e[2]])

VARIABLES
    tree,      \* the checkout
    lost,      \* packages whose generated artifacts are missing or changed
    history,   \* the commits that change VERSION
    receipt,   \* what the last command reported
    changes    \* edits so far

releaseVars == <<tree, lost, history, receipt, changes>>

Idle == [status |-> "none", scope |-> {}]

FirstTree ==
    [version |-> FirstVersion, content |-> [p \in Packages |-> 0], req |-> Requires,
     lock |-> [p \in Packages |-> 0], inherited |-> FirstInherited, other |-> 0,
     product |-> FirstProduct, ledger |-> <<>>]

-----------------------------------------------------------------------------
(* Types.                                                                    *)

Manifests == [files : Nat, version : Versions, literal : BOOLEAN,
              requires : UNION {[F -> Requirement] : F \in SUBSET Edges}]

Prints == [content : Manifests,
           dependencies : UNION {[S -> Manifests] : S \in SUBSET Packages},
           build : UNION {[S -> Versions \X Nat] : S \in SUBSET Packages}]

Entries == [id : Packages, before : Versions, after : Versions, print : Prints, level : 0..3,
            breaking : BOOLEAN, impacted : BOOLEAN,
            stability : {"none", "eligible", "passed", "remains"}]

Trees == [version : [Packages -> Versions], content : [Packages -> Nat],
          req : [Edges -> Requirement], lock : [Packages -> Nat],
          inherited : SUBSET Packages, other : Nat, product : Versions, ledger : Seq(Entries)]

\* A commit that changes VERSION: restored and withdrawn are 0 but for a withdrawal.
Releases == [tree : Trees, restored : Nat, withdrawn : Nat]

ReleaseTypeOK ==
    /\ tree \in Trees
    /\ lost \subseteq Delivers
    /\ history \in Seq(Releases) /\ history # <<>>
    /\ receipt \in [status : {"none", "closed", "diverged", "rolled back"}, scope : SUBSET Packages]
    /\ changes \in 0..MaxChanges

-----------------------------------------------------------------------------
ReleaseInit ==
    /\ tree = FirstTree
    /\ lost = {}
    /\ history = <<[tree |-> FirstTree, restored |-> 0, withdrawn |-> 0]>>
    /\ receipt = Idle
    /\ changes = 0

-----------------------------------------------------------------------------
(* The audit of the release history.                                         *)

AuditStart(h) ==
    [ok |-> TRUE, boundary |-> 1, formal |-> {1}, latest |-> 1, product |-> h[1].tree.product,
     floor |-> [p \in Packages |-> NoVersion]]

\* A withdrawal gives back the tree of an earlier formal release, file by
\* file, and names the release it withdraws.
Restores(h, i, audit) ==
    /\ h[i].withdrawn = audit.latest
    /\ h[audit.latest].tree.product = h[i - 1].tree.product
    /\ h[i].restored \in audit.formal
    /\ h[i].tree = h[h[i].restored].tree
    /\ Extends(h[h[i].withdrawn].tree.ledger, h[i].tree.ledger)

\* Broken variant: a withdrawal frees the versions of what it withdraws.
RaisedNever(floor, withdrawn) == floor

\* No version of a withdrawn release is free again.
Raised(floor, withdrawn) == [p \in Packages |-> Later(floor[p], withdrawn.version[p])]

\* VERSION goes down only in a declared withdrawal, which keeps the versions
\* of what it withdraws as a floor; it goes up only past all that was used.
AuditStep(h, i, audit) ==
    LET now == h[i].tree.product
    IN  IF Less(now, h[i - 1].tree.product)
        THEN [audit EXCEPT
                 !.ok       = @ /\ Restores(h, i, audit),
                 !.boundary = i,
                 !.floor    = IF h[i].withdrawn \in audit.formal
                              THEN Raised(@, h[h[i].withdrawn].tree)
                              ELSE @]
        ELSE [audit EXCEPT
                 !.ok       = @ /\ Less(audit.product, now),
                 !.boundary = i,
                 !.formal   = @ \cup {i},
                 !.latest   = i,
                 !.product  = now]

Audit(h) ==
    LET audit[i \in 1..Len(h)] == IF i = 1 THEN AuditStart(h) ELSE AuditStep(h, i, audit[i - 1])
    IN  audit[Len(h)]

Boundary(h) == h[Audit(h).boundary].tree

Context == [tree |-> tree, base |-> Boundary(history), floor |-> Audit(history).floor,
            lost |-> lost]

-----------------------------------------------------------------------------
(* What the user does to the checkout.                                       *)

Edited == changes < MaxChanges /\ changes' = changes + 1 /\ receipt' = Idle /\ UNCHANGED history

\* New content, or the published content back again.
EditContent(p) ==
    /\ Edited
    /\ p \in Authored
    /\ \E c \in {changes + 1, Boundary(history).content[p]} :
           /\ c # tree.content[p]
           /\ tree' = [tree EXCEPT !.content[p] = c]
    /\ UNCHANGED lost

\* A new external dependency in the part of Cargo.lock a package uses.
UpdateLock(p) ==
    /\ Edited
    /\ p \in LockUsers
    /\ tree' = [tree EXCEPT !.lock[p] = changes + 1]
    /\ UNCHANGED lost

\* A change of the product that no package owns.
EditOther ==
    /\ Edited
    /\ tree' = [tree EXCEPT !.other = changes + 1]
    /\ UNCHANGED lost

LoseArtifact(p) ==
    /\ Edited
    /\ p \in Delivers \ lost
    /\ lost' = lost \cup {p}
    /\ UNCHANGED tree

-----------------------------------------------------------------------------
(* develop.                                                                  *)

\* The analysis covers the packages that are affected in the end and no others;
\* this stands for the absent analysis of the others.
Absent == [level |-> 1, breaking |-> FALSE, target |-> NoVersion]

Scopes == {Packages} \cup {TaskScope(S) : S \in SUBSET Packages \ {{}}}

Requests(scope, first) ==
    LET reach == Consumers(first) \cup tree.inherited
    IN  {[scope |-> scope, impacts |-> impacts,
          analysis |-> [p \in Packages |-> IF p \in reach THEN chosen[p] ELSE Absent]] :
            impacts \in SUBSET Edges, chosen \in [reach -> Answers]}

\* The packages whose checks fail in the first round, if any do.
Failures == {<<F>> : F \in SUBSET Unreliable}

Reports(status) ==
    receipt' = [status |-> status, scope |-> {}] /\ UNCHANGED <<tree, lost, history, changes>>

\* The ledger is parsed once more before it replaces the one of the tree.
Closes(ctx, request, plan) ==
    LET closed == Closed(ctx, request, plan)
    IN  IF ~LedgerParses(closed.ledger) THEN Reports("rolled back")
        ELSE /\ tree' = closed
             /\ lost' = lost \ plan.affected
             /\ receipt' = [status |-> "closed", scope |-> request.scope]
             /\ UNCHANGED <<history, changes>>

\* A develop that closes its scope.  One that the analysis or the scope does
\* not allow leaves everything as it was and is not a step.
Develop(scope) ==
    LET ctx   == Context
        first == InitiallyAffected(ctx, scope)
    IN  /\ Audit(history).ok
        /\ first # {}
        /\ \E request \in Requests(scope, first) :
               LET plan == Prepare(ctx, request, first)
               IN  /\ \A p \in Packages \ plan.affected : request.analysis[p] = Absent
                   /\ plan.error \in {"none", "diverged"}
                   /\ IF plan.error = "diverged" THEN Reports(plan.error)
                      ELSE \E failures \in Failures :
                               Closes(ctx, request, Checked(tree, plan, failures))

-----------------------------------------------------------------------------
(* Formal releases and withdrawals.                                          *)

\* Anything but the ledger and VERSION differs from the release built upon.
Meaningful(t, base) ==
    \E field \in {"version", "content", "req", "lock", "inherited", "other"} :
        t[field] # base[field]

\* The packages a release concerns are closed, with the artifacts on record.
ReleaseGate(ctx) ==
    LET scope == ReleaseScope(ctx.tree, ctx.base)
    IN  /\ Extends(ctx.tree.ledger, ctx.base.ledger)
        /\ \A e \in EntriesSince(ctx.tree, ctx.base) :
               e.before # e.after => Less(ctx.floor[e.id], e.after)
        /\ Pending(ctx.tree, ctx.base, scope) = {}
        /\ scope \cap ctx.lost = {}

\* The level the entries since the last release ask of the product.
MinimumProductLevel(entries) ==
    LET asked == {1} \cup {IF e.breaking THEN BreakingLevel(tree.product) ELSE e.level : e \in entries}
    IN  CHOOSE n \in asked : \A m \in asked : m <= n

\* The version of the product under an analysis, and the reasons to refuse it.
ProductVersion(a) ==
    LET base == Later(tree.product, Audit(history).product)
    IN  IF a.target # NoVersion THEN a.target ELSE BumpNative(base, a.level)

ProductRefused(a, entries) ==
    LET base == Later(tree.product, Audit(history).product)
    IN  \/ a.breaking /\ a.level # BreakingLevel(tree.product)
        \/ ~a.breaking /\ \E e \in entries : e.breaking
        \/ a.level < MinimumProductLevel(entries)
        \/ ~Less(base, ProductVersion(a))
        \/ Less(ProductVersion(a), BumpNative(base, a.level))

Release ==
    LET ctx == Context
    IN  /\ Audit(history).ok
        /\ Len(history) < MaxHistory
        /\ Meaningful(tree, ctx.base)
        /\ ReleaseGate(ctx)
        /\ \E a \in ProductAnswers :
               /\ ~ProductRefused(a, EntriesSince(tree, ctx.base))
               /\ tree' = [tree EXCEPT !.product = ProductVersion(a)]
        /\ history' = Append(history, [tree |-> tree', restored |-> 0, withdrawn |-> 0])
        /\ receipt' = Idle
        /\ UNCHANGED <<lost, changes>>

\* The formal release whose tree the last commit of the history has.
InForce(h) == IF h[Len(h)].withdrawn = 0 THEN Len(h) ELSE h[Len(h)].restored

\* The user commits the tree of an earlier release and declares that it
\* withdraws the one in force.  Artifacts of later closures are of no use to it.
Withdraw(r) ==
    /\ Len(history) < MaxHistory
    /\ r < InForce(history)
    /\ history[r].withdrawn = 0
    /\ tree' = history[r].tree
    /\ lost' = lost \cup {p \in Delivers :
                             \E e \in EntriesSince(tree, history[r].tree) : e.id = p}
    /\ history' = Append(history, [tree |-> history[r].tree, restored |-> r,
                                   withdrawn |-> InForce(history)])
    /\ receipt' = Idle
    /\ UNCHANGED changes

ReleaseNext ==
    \/ \E p \in Packages : EditContent(p) \/ UpdateLock(p) \/ LoseArtifact(p)
    \/ EditOther
    \/ \E scope \in Scopes : Develop(scope)
    \/ Release
    \/ \E r \in 1..MaxHistory : r \in DOMAIN history /\ Withdraw(r)

ReleaseSpec == ReleaseInit /\ [][ReleaseNext]_releaseVars

-----------------------------------------------------------------------------
(* Properties.                                                               *)

Formal == {i \in DOMAIN history : history[i].withdrawn = 0}

\* A version number is published once.  Over all formal releases, withdrawn
\* ones included, two that give a package the same version give it the same
\* content and requirements, and no two give the product the same version.
PublishedOnce ==
    \A i, j \in Formal : i < j =>
        LET one == history[i].tree
            two == history[j].tree
        IN  /\ one.product # two.product
            /\ \A p \in Packages : one.version[p] = two.version[p] =>
                   /\ one.content[p] = two.content[p]
                   /\ \A e \in Edges : e[1] = p => one.req[e] = two.req[e]

\* A breaking change shows in the number: what accepts the version before it
\* under a caret requirement does not accept the version a release gives to
\* the package, nor the version it gives to the product.
BreakingIsVisible ==
    \A j \in Formal \ {1} :
        LET old == history[j - 1].tree
            new == history[j].tree
        IN  \A e \in EntriesSince(new, old) : e.breaking =>
                /\ e.level > 0 => ~Compatible(old.version[e.id], new.version[e.id])
                /\ ~Compatible(old.product, new.product)

\* What a release publishes was validated: each package is as its last entry
\* says, dependencies and lock included, or nothing it is built from differs
\* from the release before.
ReleasedIsValidated ==
    \A j \in Formal \ {1} : \A p \in Packages :
        LET new == history[j].tree
        IN  IF Recorded(new, p) THEN Latest(new, p).print = Fingerprint(new, p)
            ELSE Fingerprint(new, p) = Fingerprint(history[j - 1].tree, p)

RequirementsHold == \A e \in Edges : Accepts(tree.req[e], tree.version[e[2]])

\* The rounds of a develop always come to rest, and the ledger it leaves parses.
DevelopsSettle == receipt.status \notin {"diverged", "rolled back"}

\* The packages that depend on one whose version is inherited at first.
Followers == {p \in Packages : (DependencyScope[p] \ {p}) \cap FirstInherited # {}}

\* A develop closes all of its scope at once, for the next develop and for a release.
ScopesClose ==
    receipt.status = "closed" =>
        LET left == InitiallyAffected(Context, receipt.scope)
        IN  /\ left \subseteq Followers
            /\ receipt.scope = Packages /\ left = {} => ReleaseGate(Context)

\* The rounds of a develop always come to rest, and it closes all of its scope
\* at once: right after it nothing in the scope is pending or short of an
\* artifact, whatever versions, requirements and lock entries the develop
\* itself changed.  Neither it, of the whole repository or of a task, nor a
\* withdrawal leaves a requirement that does not accept its target.
\* Only a package that depends on one that inherited its version may take a
\* second develop: the first one writes that version as a literal, which brings
\* a dependant that has no entry yet into the scope of the next release.
DevelopCloses == RequirementsHold /\ DevelopsSettle /\ ScopesClose

\* Refuted by what the code does: a package that leaves 0.x has passed its
\* stability checks on the final candidate.
GraduationChecked ==
    \A i \in DOMAIN tree.ledger :
        LET e == tree.ledger[i]
        IN  Unstable(e.before) /\ ~Unstable(e.after) => e.stability = "passed"

\* Refuted by what the code does: whatever is pending can be closed by some
\* analysis, also after a withdrawal.
CanContinue ==
    LET first == InitiallyAffected(Context, Packages)
    IN  Audit(history).ok /\ first # {} =>
            \E request \in Requests(Packages, first) :
                Prepare(Context, request, first).error = "none"

\* Refuted by what the code does: the release that is in force after a
\* withdrawal can be withdrawn in its turn.
WithdrawalsAccepted == Audit(history).ok
=============================================================================
