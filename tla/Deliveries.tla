------------------------------ MODULE Deliveries ------------------------------
(***************************************************************************)
(* What the factory builds, on its way into projects and out of them: the  *)
(* modules PublicArtifacts, AssetInstall and ArtifactCleanup side by side. *)
(* They have no file in common, so one of them runs in a behaviour.        *)
(***************************************************************************)
EXTENDS PublicArtifacts

CONSTANTS Workers, Outputs, MaxWrites, CleanupFaults,  \* of ArtifactCleanup
          Generated, Legacy, MaxEdits, InstallFaults   \* of AssetInstall

\* Builds write neither the lock file nor the journal, and there is a version to start from.
ASSUME OutputsAssumption == "lock" \notin Outputs /\ "journal" \notin Outputs
ASSUME WritesAssumption == MaxWrites \in Nat \ {0} /\ CleanupFaults \in Nat
\* The generated files are other files than those of the legacy layout and their copies.
ASSUME GeneratedAssumption == \A l \in Legacy : <<l, "old">> \notin Generated
                                              /\ <<l, "new">> \notin Generated
ASSUME EditsAssumption == MaxEdits \in Nat /\ InstallFaults \in Nat

VARIABLES part,  \* the module that runs
          cfile, keep, wpc, handle, cpc, policy, plan, guards, cat, fresh, spared, taken,
          writes, cfaults,
          ifile, client, ipc, retire, before, put, at, done, deleted, result, must, raced,
          stuck, edits, ifaults

Cleanup == INSTANCE ArtifactCleanup WITH
  MaxFaults <- CleanupFaults, file <- cfile, at <- cat, faults <- cfaults
Asset == INSTANCE AssetInstall WITH
  Targets <- Generated, MaxFaults <- InstallFaults, file <- ifile, pc <- ipc, faults <- ifaults

cleanupVars == <<cfile, keep, wpc, handle, cpc, policy, plan, guards, cat, fresh, spared, taken,
                 writes, cfaults>>
assetVars == <<ifile, client, ipc, retire, before, put, at, done, deleted, result, must, raced,
               stuck, edits, ifaults>>
all == <<part, vars, cleanupVars, assetVars>>

\* What does not run has one initial state.
AllInit ==
  /\ part \in {"public", "cleanup", "install"} /\ Init /\ Cleanup!Init /\ Asset!Init
  /\ part # "public" => \A c \in Contracts : product <= c
  /\ part # "cleanup" => \A p \in DOMAIN cfile : p # "lock" => cfile[p] = 0
  /\ part # "install" => ~client /\ \A p \in DOMAIN ifile : ifile[p] = 0
Runs(p) == part = p /\ UNCHANGED part
AllNext ==
  \/ Runs("public") /\ Next /\ UNCHANGED <<cleanupVars, assetVars>>
  \/ Runs("cleanup") /\ Cleanup!Next /\ UNCHANGED <<vars, assetVars>>
  \/ Runs("install") /\ Asset!Next /\ UNCHANGED <<vars, cleanupVars>>
\* The fairness of each module, while it runs.
AllFair ==
  /\ \A p \in Procs : WF_vars(part = "public" /\ Step(p)) /\ SF_vars(part = "public" /\ Prepare(p))
  /\ WF_assetVars(part = "install" /\ Asset!Step) /\ WF_assetVars(part = "install" /\ Asset!Begin)
AllSpec == AllInit /\ [][AllNext]_all /\ AllFair

-----------------------------------------------------------------------------
(* Properties, each stated in the module it is about. *)

\* No two processes hold the lock, whatever the cleanup deletes.
LocksExclude == Cleanup!LocksExclude
\* The cleanup deletes what it planned, as it was planned.
OnlyPlannedGoes == Cleanup!OnlyPlannedGoes
\* What a legacy file held is in its old place or in the new one.
LegacyKept == Asset!LegacyKept
\* Preparations end with everything installed, or with copies that differ.
GetsPrepared == part = "install" => Asset!GetsPrepared
\* What was prepared stays in the cache, as the receipt names it.
PublicStaysReadable == part = "public" => StaysReadable
=============================================================================
