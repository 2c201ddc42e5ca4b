# BridgeForgeCodex in TLA+

BridgeForgeCodex is a Rust program that keeps a Codex project template, its local
memories, its packages and its git history in order. It runs as many short processes:
lifecycle hooks, hidden workers and commands typed by a user or a model. They share
files, take few locks, die at any time, and run next to editors, native memory writers
and other computers that take no lock at all. That is where this program is hard to get
right and hard to test, and what these modules are about.

Maintained source is `src/source/**`; `src/.codex/hooks/source/**` is an identical
projection of it and is not modelled again. Paths below are relative to `src/source/`.

Check a module with `tlc -config <cfg> <MC module>`, its proofs with
`tlapm <Module>Proofs.tla`.

## 1. The system

### Components

| Component | State it keeps | Operations | Interacts with | Hard behaviour | Correct when |
|---|---|---|---|---|---|
| memory queue (`memory/src/worker.rs`, `cli/src/memory_commands.rs`) | `pending.json`, `worker.json`, `reconcile.lock` | record demand, reserve and spawn a worker, drain, recheck, reconcile or resolve by hand | hooks start it, it calls reconciliation | processes without a common lock, a start grace of 30 s, crashes | one worker drains; demand is cleared only when it is covered; demand is served and reservations end |
| memory reconciliation (`memory/src/remote.rs`, `lib.rs`) | memories tree, synced baseline and receipt, conflict evidence, a git branch | fetch, publish, restore, merge, record a conflict, resolve | other computers through the branch; native writers through the tree | pushes that race, edits after the capture, crash between push and record | nothing unknown is replaced, no edit is lost, the branch only grows, computers converge |
| baseline snapshot (`remote.rs` 437-560) | `last-synced-snapshot`, its old and new siblings, `last-synced.json` | record, recover | reconciliation | interruptions between renames | the snapshot the receipt names is whole and is the one compared with |
| memories directory (`lib.rs` 1180-1330) | the directory, siblings moved aside | replace if unchanged | reconciliation, writers with open files | writes through a handle after the move | no edit is lost; errors leave a directory |
| memory health and alerts (`lib.rs`) | `health.json`, `alert-state.json` | report, emit, acknowledge | queue, hooks | reports after the lock was released, an alert file with a lock for emissions only | a failure that lasts is shown, and shown once |
| managed memory configuration (`user_config.rs`, `ownership.rs`, `migration.rs`) | `config.toml`, `hooks.json`, `remote.txt`, consent; the state of an earlier program | set up, repair, decline, migrate | the user's editor, Codex | foreign edits, a rollback from what was read before, interrupted and repeated migrations | what runs with an approval is set up; the earlier state comes over once |
| development transaction (`lifecycle/src/release/schema4/development.rs`) | package files, ledger `package-closures.json`, `develop-transaction.json` | apply, validate, recover; fallback rounds | git synchronization reads the ledger | crash in any step, edits between steps, a rollback of a rollback | without a journal, versions and ledger agree; edits survive; a recovery settles |
| git synchronization (`workflow/src/git_sync.rs`) | worktree, index, stash, refs, `commit-guard.json` | integrate, write, stage, commit, compare, push, receipt | users, hooks, other computers, releases, development | no lock; every command may fail or race | only verified commits are pushed; "synced" means published |
| project synchronization (`workflow/src/project_sync.rs`, `skeleton/src/baseline.rs`) | managed files, version stamp, `project-sync.lock` | plan, confirm, apply, roll back | editors, generated assets | no journal; stamp last; confirmation is stale | edits survive, rollbacks restore, the stamp is not ahead of its files |
| generated asset installation (`project_sync.rs` 2102-2282, `core/src/generated_assets.rs`, `workflow/src/public_artifacts.rs`) | programs, receipts | build, prepare, install, relocate the legacy outputs | project synchronization, artifact cache | readers without a lock, a product that changes, deletion at the end of a transaction | an installation is of one build; the only copy is never deleted; repeated attempts succeed |
| artifact cache (`core/src/artifact_cache.rs`) | entries, journals, recency, `cache.lock` | open, load, store, evict, recover | release preparation | crash in any step, capacity, leases | leftovers are known, capacity and leases hold, recovery cleans |
| artifact cleanup (`core/src/artifact_cleanup.rs`, `workflow/src/artifact_cleanup.rs`) | `.build`, `.runtime` | plan, verify, delete | builds, transactions, their locks | a file that changes between plan and deletion, lock files in use | only what was planned goes; locks still exclude |
| artifact migration (`core/src/artifact_migration.rs`) | legacy directories | relocate, retire | asset installation | interrupted moves | owned content arrives |
| release planning and withdrawal (`lifecycle/src/release/**`) | package versions, requirements, the ledger, the history of releases | choose versions, fall back, close, release, withdraw | development, git synchronization | versions, requirements and fingerprints that depend on each other; long histories | versions are published once, breaking changes show, a release is validated, a step that succeeds closes |
| processes and high-cost runs (`core/src/process.rs`, `core/src/high_cost.rs`) | admission files | run, admit | checks, builds | timeouts | the admission bounds the runs |
| hooks (the `hooks` sources) | none of their own | classify commands, report sessions | memory queue | they must never fail a session | - |
| checks, package metadata, content identity, managed Markdown, command line, factory | none that outlives a command | read, render, hash, dispatch | - | - | - |

The list in `PROJECT.json` has every component with its status.

### How they interact

    lifecycle hook --marks--> memory queue --reconcile.lock--> reconciliation --push/fetch--> branch
                                                                  |  |
                                          baseline snapshot <-----+  +-----> memories directory <-- native writer
    user --> development transaction --ledger, journal--> git synchronization --push--> remote
    user --> project synchronization --stamp--> managed files <-- editors
    release preparation --cache.lock--> artifact cache --receipts, no lock--> installation into projects
    user --> cleanup --deletes--> outputs, locks and journals of builds and transactions

Shared state is always files. `reconcile.lock`, `cache.lock`, the project lock and the
sync lock are operating system file locks (`core/src/file_lock.rs`): they end with their
process, so a crash releases them in the models.

## 2. Modules

| Module | Models | Composed with |
|---|---|---|
| `MemoryQueue` | the queue, its workers and the commands run by hand | a reconciliation moves a version number here |
| `TreeMerge` | the merge functions of `memory/src/lib.rs` | extended by `MemorySync` |
| `SnapshotLog` | abstract: a log that only grows, receipts that never go back | implemented by `MemorySync` |
| `MemorySync` | reconciliation on every computer, and the branch | opened up by the next two |
| `SyncedBaseline` | recording and recovering the baseline, one file operation at a time | one step of `MemorySync` |
| `MemoryReplace` | replacing the memories, one file operation at a time | one step of `MemorySync` |
| `DevelopTransaction` | develop --apply, --validate, --recover | its journal is `journal` of `GitSync` |
| `GitSync` | one git-sync command, its users, other computers | |
| `ProjectSync` | project-sync commands, editors | |
| `ArtifactCache` | release preparations on one cache | |
| `MemoryMigration` | the migration of the state of an earlier program, and the commands that need it | before `MemorySync` and `MemoryQueue` |
| `MemoryConfig` | setup, repair and decline; the user's files | decides `Authorized` for every memory command |
| `MemoryHealth` | health reports, sessions, alerts | what `MemoryQueue`'s commands say at their end |
| `SemVer` | versions, requirements, bumps | extended by `PackageDevelop` |
| `PackageDevelop` | the computation of a development step: scope, versions, requirements, fingerprints | extended by `PackageRelease`; what `DevelopTransaction` writes |
| `PackageRelease` | edits, development steps, releases and withdrawals over time | |
| `PublicArtifacts` | preparations and installations over one cache | a load is one step and a store two of `ArtifactCache` |
| `AssetInstall` | the factory's installation with what it relocates | |
| `ArtifactCleanup` | the cleanup between workers, builds and declarations | |
| `MemoryFiles` | composition, side by side: `SyncedBaseline`, `MemoryReplace`, `MemoryMigration`, `MemoryConfig`, `MemoryHealth` | |
| `Deliveries` | composition, side by side: `PublicArtifacts`, `AssetInstall`, `ArtifactCleanup` | |
| `MC*` | instances for TLC; `MCDevelopTransaction` also runs `GitSync` beside `DevelopTransaction` | |
| `DevelopmentProofs` | theorems and proofs about `DevelopTransaction` and `PackageRelease` | |
| other `*Proofs` | theorems and proofs about the module or composition they are named after | |

Side by side means: the modules share no file, `part` says which of them runs in a
behaviour, and the others keep one initial state. Each behaviour is one of one module,
with that module's fairness while it runs. A property of a part is restated by its own
name in the composition, which is where the runs check it and the theorems state it.

### Correspondence

`PROJECT.json` "map" gives the lines of every definition. In general: an action is the
code between two points at which another process, or a crash, can see a difference on
disk; comparisons made under the same lock as the step they guard are guards of that
step; a comparison made earlier is an action of its own whose result is kept in a
variable. Operators with the comment "Broken variant" are plausible bugs in the definition
that follows them, for the mutants of `PROJECT.json`; no specification uses them.

- `MemoryQueue`: `pending` is the time `pending.json` was written (0: no file), `res`
  is `worker.json`, `lock` is `reconcile.lock`. The operations on the two queue files
  run under the queue lock in the code and are one step each. `seen` and `snap` are what
  a reconciliation read before, `marked` is history. Trees are version numbers.
- `MemorySync`: `history` is the branch, `local` the memories, `base` the baseline with
  its receipt, `conflict` the evidence, `pc` the place in `reconcile_locked`; `seen`,
  `cap` and `tree` are its local variables. `Fetch`, `PublishLocal`, `SameContent`,
  `RestoreRemote`, `Merge`, `RecordConflict` are its branches in their order.
- `SyncedBaseline`: directories are a snapshot number and whether all of it is there;
  an action is a rename, a copy, a removal or the replacement of the receipt.
- `MemoryReplace`: a directory is the edits in its synchronized files and in its index
  files. `open` are files that writers opened before a move.
- `DevelopTransaction`: a file is a text and a version. `mem` is the journal a command
  holds, `journal` the one on disk. `Closure` is the way forward, `Rollback` the way
  back, `Recover` the command. `Early` are the paths that sort before the ledger.
- `GitSync`: commits have a tree, a parent and what is reachable from them. A tree has
  the edits that reached it, the contents of the automatic targets, and flaws: conflict
  markers and open candidates. `pc` follows `sync_impl`; `mode` is the kind of run.
- `ProjectSync`: a path has the content of a version, an edit, or none. `plan` is what
  the confirmed plan read, `done` the paths changed so far, `errs` what a rollback
  leaves to others.
- `MemoryMigration`: a state file is empty or says where it comes from. `CheckMarker` to
  `WriteMarker` are the steps of `migrate_legacy_state` in their order, `Run` the command
  that follows and may reconcile, resolve or record demand. A reconciliation is not held up
  by an open conflict: it does not look at `active-conflict.json`, replaces it by a new
  conflict or removes it at the end (`remote.rs:719`, on purpose: `CHANGELOG.md:987` calls
  such a conflict stale). `resolve` leaves the demand. `closed` remembers every conflict
  that went, however it went.
- `MemoryConfig`: `before` is what `configure` reads at its start and its rollback writes
  back, `seen` what the writer of one file has read. `ReadHooks`, `CompareHooks` and
  `Merge` are the three looks at `hooks.json`.
- `MemoryHealth`: `health`, `emitted` and `acked` are the fields of the two files, `prior`
  what a session has read of the alert. `EmitBusy` is a session that does not get the lock.
- `PackageDevelop`: `Prepare` is `prepare`: the affected packages, then rounds of
  `Choice`, `Render` and revalidation until nothing moves (`Rests`) or the rounds run out.
  `Checked` is the loop of `execute` that falls back, `Printed` its fingerprints, `Closed`
  the entries of the ledger. A fingerprint is the record of what the program hashes.
- `PackageRelease`: `history` is the chain of commits that `audit` walks; a command that
  is refused is not a step. `lost` are artifacts that are no longer on this computer.
- `PublicArtifacts`: `entry` is the cache, `ready` the receipts, `seen` whether the entry
  in hand is as its reading found it. Two builds of one input differ.
- `AssetInstall`: `retire`, `before` and `put` are the retirements, snapshots and writes
  of `install_generated_transaction_retiring`; `must` are contents nobody gave up.
- `ArtifactCleanup`: files have versions, a handle is the version a worker opened. A
  guard shares its file with readers only, as on Windows, where alone the code deletes.
- `ArtifactCache`: `stored` are entries, `temp` and `foreign` what else is in their
  directories, `journal`/`subject`/`place` are operations with their journal and
  directory. `Claim` and `Sync` are the two steps of `operation`, `CleanStep` and
  `DropJournal` those of `finish_operation`. A directory is one unit of capacity; the
  artifacts of a group are chosen when the lock is taken, as nothing depends on them
  before.

## 3. Runs

Every bound is a constant named in the module; `CHECK_DEADLOCK FALSE` is set where the
system really stops (commands end, bounds are reached).

| Run | Instance | Checks |
|---|---|---|
| `memory_queue_safety` | 2 hooks, 2 workers, 1 reconcile and 1 resolve by hand, 1 edit, 1 fault, drains of 2 | `SingleDrainer`, `NoLostTrigger` |
| `memory_queue_drains` | 2 hooks, 2 workers, 2 edits, 1 fault | `TailDemandHandled`, `ReservationYields` |
| `memory_sync` | 2 computers, 2 paths, 1 content, 2 edits, 1 crash, 1 damaged commit | `RestoreKeepsEdits`, `RecordsWhatIsHere`, `ImplementsLog`, `Converges` |
| `memory_files` | baseline: 4 snapshots, 5 faults | `Recoverable`, `BaselineKeepsReconciling` |
| | replacement: 3 edits, 2 runs, 1 fault, 1 writer with an open file | `NoEditLost` |
| | migration: 2 commands, 1 repository, 1 decision, 2 faults, every legacy state | `MigratesOnce`, `MigrationEnds` |
| | setup: 2 repositories, 2 setups, 1 repair at a time, 1 edit, 1 fault | `AuthorizedIsSetUp` |
| | health: 2 reporters, 2 sessions, 1 failure, 1 conflict, 3 reports, 1 acknowledgement | `ShownOnce`, `FailureIsTold` |
| `develop` | 2 paths that sort after the ledger, 2 rounds, 3 candidates, 1 edit, 1 commit, 2 faults | `LedgerMatches`, `EditsSurvive`, `RecoverySettles` |
| | git-sync: 6 commits, 1 edit, 1 development transaction, 1 fault | `SyncSettles` |
| `develop_early` | as above, 1 path sorts before the ledger | `LedgerMatches` is violated |
| `git_sync_safety` | 1 target, 5 commits, 2 edits or an edit and a development transaction, 2 faults | `OnlyVerifiedPushed`, `SyncedIsPublished`, `TargetEditsSurvive` |
| `git_sync_conflict` | 1 target, 4 commits, 3 edits | `ConflictsStayLocal` is violated |
| `artifact_cache` | 2 preparations, 3 artifacts of 2 assets, 2 places, 4 uses, 1 fault or foreign change | `BoundHolds`, `EvictsOldest`, `GetsClean` |
| `project_sync` | 2 commands, 2 products, 3 paths (the stamp, one kept, one retired), 2 edits, 1 fault | `UncutNoFalseUpgrade`, `EditsSurvive`, `RollbackRestores`, `GetsInstalled` |
| `package_release` | an application on a library, 0.1.0 each, 2 edits, 4 releases and withdrawals, 3 answers | `PublishedOnce`, `BreakingIsVisible`, `ReleasedIsValidated`, `DevelopCloses` |
| `deliveries` | public artifacts: 2 releases of 1 program, 2 processes, 1 place, 2 upgrades, 1 fault | `OneBuild`, `PublicStaysReadable` |
| | cleanup: 2 workers, 1 output, 4 writes, 1 fault | `LocksExclude`, `OnlyPlannedGoes` |
| | installation: 1 target, 1 legacy file, 2 edits, 2 faults | `LegacyKept`, `GetsPrepared` |

What they show, in a sentence each, is in `PROJECT.json` "runs". Each property has a
mutant there: a plausible bug in a mapped definition that the same run finds. No run
spends its time on type invariants: they are proved for all values of the constants, in
every module but `PublicArtifacts`, where `TypeOK` also says that the two lists of uses
name what is there.

### Why the bounds are enough for what they are used for

- Two of each kind of process are what every race in the code needs: a lock has a holder
  and a waiter, a lease a pusher and one who was faster. The safety results that are
  proved do not depend on it.
- `DrainLimit = 2` lets a drain reach its limit, which 16 would hide.
- `memory_sync`: one content and absence are enough for both kinds of conflict the code
  knows, since it only ever asks whether two contents are equal; two different additions
  of one path are covered by the proofs, not by the run. Two paths are needed for a merge
  that is no conflict.
- Baseline (`memory_files`): an interrupted recording, an interrupted recovery of it and an
  interrupted recovery of that one need three faults and three snapshots.
- `develop`: two faults are a failure and an interruption of the rollback it causes; two
  rounds are a fallback, three candidates a fallback after a recovery.
- `git_sync_safety`: a plan takes one edit of the two, so one is left to race with it;
  a hook that rewrites and a crash are the two faults. Users leave `Reserve` commits to
  the command. `MaxChanges` bounds edits and development transactions together: here a
  transaction takes the place of one edit, in `develop` there is room for both.
- Migration: every combination of what the earlier program left; two faults are an
  interruption and one of the repetition. Setup: two repositories tell an approval from
  a new one. Health: three reports are a failure, its repetition and a healthy one.
- `package_release`: two releases and a withdrawal are what reuse of a version needs, and
  one more release shows it; two edits are a change of each package or two of one. The
  library may graduate, the application may not.
- Public artifacts: one place makes every store of the other release evict. A release has
  one program here: that the programs of one installation come from one build is shown by
  `InstallsOneBuild` only, the run shows it of a program at a time. Cleanup: a
  worker that waits for the lock file and one that makes a new one. Installation: one
  fault stops a transaction, one its rollback; two edits are one of each copy.
- `artifact_cache`: four uses are what a wrong recency needs to evict the wrong entry:
  two entries, a hit and a third store. A session that dies or cannot remove a file, or a
  foreign file, takes the one fault.
- `project_sync`: the stamp sorts before the other paths, as
  `.codex/.bridgeforge_codex_version` does before most of the managed ones.

### Fairness

- `MemoryQueue`: a running process goes on, and thirty seconds pass (`GraceExpires`). No
  fairness is assumed of hooks: no later event may be needed.
- `MemorySync`: the lifecycle hooks of every computer start reconciliations again and
  again, and a reconciliation goes on. Edits, crashes and damage are bounded, not fair.
- `SyncedBaseline`: a reconciliation goes on, another one follows.
- `MemoryMigration`: a command goes on, and there is a next one, as every lifecycle hook
  is one. `MemoryHealth`: reporters and sessions go on, sessions start again and again.
- `DevelopTransaction`: a running command goes on; somebody runs `develop --recover`
  while there is a journal, as the error of every other command asks for.
- `GitSync`: a run goes on (weak); somebody starts an ordinary run again and again. That
  one is strong fairness: starting is possible only between runs, and users run it by
  hand. Nothing is assumed of what users edit, commit or reset.
- `ArtifactCache`: a preparation goes on, there is another one.
- `PublicArtifacts`: a process goes on (weak), the product that is there is prepared again
  and again (strong: only between two of its runs). `AssetInstall`: a preparation goes on,
  somebody repeats it.
- `ProjectSync`: a command goes on, somebody plans and confirms again with one of the
  products; not with the last one, therefore `GetsInstalled` speaks of one version.

### Hidden assumptions worth knowing

- A rename and `atomic_write` are atomic and last (`core/src/persistence.rs`).
- Nothing but project-sync writes the version stamp.
- Two git-syncs in one repository are outside the command's contract; the model has one.
- The operating system does not reuse the pid of a dead worker while its reservation is
  looked at.
- File locks are released when their holder dies.
- The user does not replace `memory-sync`, the directory of the earlier program, while its
  state is taken over.
- A formal release is made from the checkout that `develop` closed, by one user at a time.

## 4. Proofs

Each theorem holds for every value of the constants: any number of processes, computers,
paths, artifacts, edits, faults and rounds.

| Theorem | Says |
|---|---|
| `MemoryQueueProofs!OneDrainer` | `[]SingleDrainer` |
| `MemoryQueueProofs!TriggersCovered` | `[]NoLostTrigger` |
| `MemorySyncProofs!ReceiptsHold` | `[]BaselineInHistory`: a receipt names a commit of the branch that holds the baseline |
| `MemorySyncProofs!PushesKnow` | `PushKnowsHead`: a push replaces only what its computer knew or its user resolved |
| `MemorySyncProofs!RestoresKeep`, `RecordsAreHere` | `RestoreKeepsEdits`, `RecordsWhatIsHere` |
| `MemorySyncProofs!BranchIsLog` | `MemorySync` implements `SnapshotLog` |
| `MemoryFilesProofs!AlwaysRecoverable`, `AlwaysTrusted` | `[]Recoverable`, `[]HeldIsTrusted` |
| `MemoryFilesProofs!EditsStay` | `[]NoEditLost`: replacing the memories loses no edit of a native writer |
| `MemoryFilesProofs!MigratesSafely` | `[]MigratesOnce`: nothing of the legacy state is left behind, a closed conflict of it does not come back, and demand recorded here stays |
| `MemoryFilesProofs!ApprovedIsSetUp` | `[]AuthorizedIsSetUp` |
| `MemoryFilesProofs!AlertsOnce` | `[]ShownOnce` |
| `DevelopmentProofs!VersionsMatch` | `[]LedgerMatches`, if no path sorts before the ledger |
| `DevelopmentProofs!EditsKept` | `EditsSurvive` |
| `DevelopmentProofs!NumbersPublishedOnce` | `[]PublishedOnce` |
| `DevelopmentProofs!BreaksAreVisible` | `[]BreakingIsVisible` |
| `DevelopmentProofs!ReleasesAreValidated` | `[]ReleasedIsValidated` |
| `DevelopmentProofs!RequirementsAreMet` | `[]RequirementsHold`: the first part of `DevelopCloses` |
| `DevelopmentProofs!DevelopsClose` | `[]DevelopCloses`: rounds come to rest, and a develop closes its scope at once |
| `GitSyncProofs!OnlyVerified` | `[]OnlyVerifiedPushed` |
| `GitSyncProofs!SyncedPublished` | `[]SyncedIsPublished` |
| `GitSyncProofs!EditsSurvive` | `TargetEditsSurvive`: in the worktree, but for edits that race with the write; nothing about the index |
| `ProjectSyncProofs!EditsAlwaysSurvive` | `EditsSurvive` |
| `ProjectSyncProofs!RollbacksRestore` | `RollbackRestores` |
| `ProjectSyncProofs!NoUpgradeIsFalse` | `[]UncutNoFalseUpgrade` |
| `ArtifactCacheProofs!BoundAlwaysHolds` | `[]BoundHolds` |
| `ArtifactCacheProofs!OldestGoesFirst` | `EvictsOldest` |
| `DeliveriesProofs!LockExcludes`, `CleanupKeepsToPlan` | `[]LocksExclude`, `[]OnlyPlannedGoes` |
| `DeliveriesProofs!LegacyStays` | `[]LegacyKept`, which exempts `raced` and `stuck` files |
| `DeliveriesProofs!InstallsOneBuild` | `[]OneBuild` |
| `TypeCorrect` in the other proof modules | `[]TypeOK` |
| `MemoryFilesProofs!BaselineTyped`, `FilesTyped`, `DeliveriesProofs!DeliveriesTyped` | `[]TypeOK` of the baseline, of the other four parts of the memory files, of cleanup and installation |
| `DevelopmentProofs!ReleaseTypeCorrect` | `[]ReleaseTypeOK`: the packages, the ledger, the releases |

They rest on the named assumptions of the modules only, which TLC evaluates on the
instances. Bounds are numbers. Markers such as `Absent`, "none" and "declined" are no data,
and kinds of processes are disjoint. A contract lists finitely many artifacts, and there
are more names of operations than faults. A build writes neither the project lock nor the
journal of a transaction; generated files are none of the legacy ones. In
`PublicArtifacts` the set of builds is a parameter, used as a supply of names to tell
builds apart: `Publish` takes one that no copy bears, and is there for every preparation
as long as the supply lasts.

Where a property says nothing after some event, the code says nothing either: `blind` in
`ArtifactCache` is set when a recency is chosen while an entry cannot be read, which is
then not counted by the code; `raced`, `told` and `cut` are changes by others that are
reported, or a rollback that was itself interrupted.

The inductive invariants, and why the properties need them:

- *Queue.* A worker that drains owns a reservation with its pid in it (`OwnerInv`); a
  launcher that is about to spawn has a token of its own (`ClaimInv`). Demand is cleared
  only if it is the payload read before the memories were captured (`CoverInv`), with no
  other reconciliation in between (`LockInv`).
- *Reconciliation.* What a decision knew is carried to the step that acts on it
  (`DecisionInv`), over steps of other computers that only append to the history.
- *Baseline.* Each place in the two procedures says which directories are whole
  (`Settled`, `Prepared`, `Trusts`).
- *Replacement.* A directory with an edit in it never goes (`EditsKept`): the one that is
  prepared is nobody's until it is installed (`Apart`), and a file that is open is in a
  directory that stays (`OpenIsKept`), so a late write lands where it is kept.
- *Migration.* The lock and the marker leave one command at a time in it (`OneMigrates`),
  and each step leaves done what those before it did (`StepsDone`), so the marker is
  written over a complete state, and after it nothing is migrated again. Only then can a
  reconciliation or a resolution close a conflict (`NothingYet`), so a legacy conflict that
  comes over is the first one, and its evidence is there before it (`ConflictComesFirst`).
- *Setup.* An approval means ready files (`ApprovedIsReady`). A step of a setup leaves its
  file ready (`PassedIsReady`); a rollback that puts an approval back puts back files that
  were ready when it was given (`PutsBackReady`), for nobody else approves meanwhile.
- *Alerts.* What was shown last is in the receipt until something new is told
  (`LastIsEmitted`), and who shows something holds the lock and has compared it
  (`ShowsAnother`), although acknowledgements take no lock.
- *Development.* The journal on disk covers whatever is there (`JournalInv`); a running
  command holds the same journal, and its position says which files carry which version
  (`CommandInv`). Texts only grow (`TextInv`).
- *Git.* As long as a commit other than the verified one is reachable from HEAD there is
  a guard that no commit on top of it satisfies (`Guarded`); a run past the guard has no
  such commit (`Position`). "Synced" needs to know where an edit is at every step: in the
  worktree, the index, the plan, the stash or a commit that HEAD may be reset to
  (`WorkInv`), over a remote that holds what both sides share (`RefsInv`), so that what a
  run owes reaches the commit its receipt compares (`OwedInv`). Targets are compared before
  they are written and before they are restored (`ComparedInv`).
- *Project.* A command in a transaction holds the lock (`Locked`); what it replaces it
  has just compared (`Seen`), or put there itself (`Back`). The loop knows which paths are
  done and that the stamp waits for the others (`Knows`), so an uncut rollback returns to
  what the plan found, which was sound (`UpgradeInv`).
- *Releases.* The properties speak of published trees only, so a release that keeps them
  needs invariants of the checkout it publishes. Its requirements are met (`Met`); its
  ledger extends that of the release in force and accounts for every version since, each
  entry rising from the one before and a breaking one by the breaking bump (`Tracked`); and
  a number that any formal release gave to a package stands for what the package was last
  closed with (`NumbersKept`). The audit knows every formal release, and none is above its
  product version, its floor or the tree in force (`AuditKept`, `Floored`), so what is
  bumped past all of these is new. `Prepare` leaves a plan whose choices fit the floor and
  whose affected packages hold all that moved or changed (`Fitting`, `Kept`); a fallback to
  the version without graduation keeps it so (`LoweredKeeps`, `CheckedKeeps`). Rounds and
  commits are walked by induction over an interval (`InductionTo`), which is proved from
  the well-foundedness of the naturals for sets, without an operator parameter.
- *Develop.* `DevelopCloses` rests on a second invariant over the first (`ClosingInv`): the
  ledgers of the checkout and of every commit parse, no version is inherited that was not
  at first, and what was recorded since the base is above the floor. The rounds of
  `Prepare` come to rest within their bound: a round that leaves the forced packages as
  they are repeats the choices of the one before, so each but the last two forces another
  package, and there are only so many (`RoundRests`, `RoundsRest`, `PrepareRests`). The
  new entries are of different packages and each goes on from the last one on record
  (`ClosedParses`). What a plan changes, and every recorded package that this reaches, is
  among what it affects (`MovedAffected`), so the fingerprints of the others stay
  (`ClosedLeaves`). Nothing new enters the scope of a release, except along inherited
  versions (`PrepareWithin`, `ScopeStays`), which leaves `Followers` only
  (`ClosingLeaves`); with nothing left, the gate opens (`GateOpens`).
- *Artifact cache.* The lock leaves one preparation at work (`LockInv`). Room for one more
  unit, once found, stays until the directory is made; a removal moves a unit and a
  publication gives one back (`CapacityInv`). From the choice of a recency on no entry is
  hidden, so what is counted of an asset is what is there (`KeepInv`). A chosen recency is
  above all others until it is written, so recencies are in the order of the uses, and
  what was chosen to go is what was used longest ago until it goes (`OrderInv`).
- *Cleanup.* Everyone who has the lock file open has the one that is there; the cleanup
  opens it only when nobody has, and then keeps others out until it is deleted (`LockInv`).
  What is open is as planned, what was written since the capture is not, and the last
  check read the journal and the policy again (`PlanInv`).
- *Installation.* Which copies there are, and what they are copies of (`CopiesRetired`,
  `CopiesThere`): what is deleted has a copy of what was retired, and a copy is not undone
  while it is the only one (`OldHolds`).
- *Public artifacts.* Whatever is named, in the cache, in a receipt or in the hands of a
  run, is a build of what its name says (`EntriesNamed`, `RefsNamed`, `SourcesAgree`), and
  an installation has read what its receipt names (`ReadsAgree`). It does not matter who
  evicts what when.

The compositions add one step: a behaviour of `MemoryFiles` or `Deliveries` is a behaviour
of each of its parts, so what is proved of a part holds of the system.

Only model-checked:

- all liveness (`Converges`, `GetsClean`, `SyncSettles` and the others that end in a
  fairness assumption): fairness is defined by `ENABLED`, out of the prover's reach;
- `TypeOK` of `PublicArtifacts`, which TLC finds true when it is added to `deliveries`: that
  the lists `recent` and `written` name every entry and every receipt once rests on what
  `SelectSeq`, a recursive operator, keeps of a list. The rest of the shape of its state is
  part of the invariant that `InstallsOneBuild` rests on.

## 5. Where the code and its documents disagree

Two of these are runs with a violation; `PROJECT.json` "findings" quotes the lines.

- `develop_early`: `develop --recover` takes a transaction for complete when the ledger
  has its new value. A rollback goes through the files in the order of their names, and
  `.codex/hooks/...` sorts before `.codex/package-closures.json`; two faults leave the
  projection rolled back and the ledger ahead of it.
- `git_sync_conflict`: after `stash pop` conflicts, the next ordinary run stages, commits
  and pushes the conflict markers.

The others are stated as properties in the modules, and TLC refutes each when it is added
to the configuration in brackets:

- `ReadEditsSurvive` (`develop`): a fallback round does not compare what it reads into
  its journal with the inputs it renders from, so an edit between two rounds is replaced;
  `requirements_2026-10-24_package-version-lifecycle.md:110` keeps external edits.
- `CandidatesStayLocal` (`git_sync_safety`): the journal of a
  development transaction is looked for once, at the start; candidates of one that starts
  later are pushed. Line 110 of the same document asks for a recovery first.
- `NothingSetAside` (`memory_files`): after a crash between the two renames the next run
  takes the missing directory for a computer without memories and restores the remote
  snapshot; the moved directory and its index files are kept, and nobody is told
  (`codex-native-memory-sync.md:44`). Without a crash it holds.
- `EmptyRemoteKeepsLocal` (`memory_sync`): a computer that has not changed its memories
  takes over an empty remote snapshot (`codex-native-memory-sync.md:55`).
- `TailDemandHandled` with a hand-run reconcile (`memory_queue_drains` with
  `Syncers = {s1}` and no faults): a worker deduplicated by it leaves, and it does not look at
  `pending.json` again (`codex-native-memory-sync.md:67`).
- `NoFalseUpgrade` (`project_sync`): a rollback that is cut restores the stamp last, as it
  sorts first (`design-rationale.md:69`). Uncut it holds.
- `RollbackKeepsEdits` (`memory_files`, setup): a setup that fails writes back what it had
  read at its start, over edits made since in the user's own files
  (`memory/src/user_config.rs:447`), where a writer otherwise compares first.
- `DeclineHolds` (`memory_files`, setup): the same rollback restores the consent, so a
  user who declines meanwhile is authorized again.
- `MigrationRecovers` (`memory_files`, migration): a migration interrupted between the
  snapshot and its receipt finds a half baseline of its own and is refused from then on
  (`memory/src/migration.rs:277`); `codex-native-memory-sync.md:67` speaks of recovery
  from interruptions of the baseline. `MigrationEnds` has that one exception.
- `AcknowledgedStays` (`memory_files`, health): an acknowledgement is written without the
  lock of the emissions; an emission that read the file before writes the old one back.
- `StuckIsKept` (`deliveries`, installation): when the deletion of a legacy file cannot be
  undone, because a write fails or the legacy program began a new file in its place, the
  rollback goes on and removes the new copy too (`workflow/src/project_sync.rs:2236`);
  `factory/src/factory_runtime.rs:18` calls it one recoverable transaction.
- `GraduationChecked` (`package_release` with the compatible answer of level 3 among
  `Answers`): the stability checks run for versions that differ from the fallback. A
  compatible change of level major below 1.0.0 makes 1.0.0 the fallback itself, and the
  package graduates unchecked (`schema4/development.rs:2701`); `schema4.md:31` demands the
  whole list on the final candidate.
- `CanContinue` (`package_release`): a library graduates, and the release is withdrawn.
  The next change of it starts from the withdrawn 1.0.0, which only fits a stable version,
  and the restored package is still below it: both ways are refused
  (`schema4/development.rs:1926`), with every analysis. `package-version-lifecycle.md:30`
  keeps the ceiling of published versions so that development goes on.
- `WithdrawalsAccepted` (`package_release` with `MaxHistory = 5`): `audit` does not move
  its latest formal release back with a withdrawal, so the release that is in force after
  one cannot be withdrawn in its turn.
- An observation without a document against it: one develop does not always close its
  scope; `DevelopCloses` excepts `Followers`, which are none in the instance of
  `package_release`. Take a library that inherits its version from
  the workspace, an application that is edited, and another consumer of the library. A
  develop of all writes the library's version as a literal (`release/rust.rs:1680`) and
  takes it in as mechanical (`schema4/development.rs:1985`); the other consumer was in no
  scope before, is in the scope of a release after it, and has no entry. A second develop
  closes it, and the gate of the release asks for it. `DevelopsClose` proves that there is
  no other case.
- An observation: `core/src/file_lock.rs:4` says never to unlink a lock file, and the
  cleanup deletes `project-sync.lock` (`ArtifactCleanup`). That works out because the
  cleanup opens it without sharing: on Windows it gets the file only when nobody has it
  open, and nobody can open it until it is gone, which is what `LocksExclude` rests on.
- `NeverRefused` (`artifact_cache` with one preparation): after a crash between the
  directory of the cache and its `owner.json` every later preparation is refused, where
  `factory-artifact-cache.md:26` falls back to the real build.

## 6. Not modelled, and why

Text processing without state (manifests, lock files, Markdown, rendering), hashing, child
processes and timeouts in real time, command classification, lints, the projections of the
template, the one-time migration of schema 3 ledgers and the adoption of packages: what
could go wrong there is not a matter of order, and tests reach it. The admission of
high-cost commands is one comparison with a declaration.

Within modelled components: the wording of receipts and errors; the two-second wait for the
queue lock; the removal of this program's entries from the user's files; blockers and
destructive rebuilds of project-sync; adding, renaming and retiring packages; requirements
with wildcards or several parts; directories, links and running programs in the cleanup;
legacy files that are retired without a copy; edits by others of the copies that a
relocation makes (`Final` compares them once more before it ends); probes of the cache, its capacity in bytes
and the wait for the shared one.

## 7. Plan

Done: memory (queue, branch, baseline, replacement, migration, setup, health), development
(transaction and choice of versions), git and project synchronization, releases and
withdrawals, the artifact cache, its consumers, the factory's installation, the cleanup.

Proved: every safety property that a run checks (section 4), and that the reconciliation
implements `SnapshotLog`.

Next:

1. Adding, renaming and retiring packages, with the schema 3 records they leave.
2. `TypeOK` of `PublicArtifacts`, once lists are filtered without a recursive operator.
