------------------------ MODULE MCDevelopTransaction ------------------------
(***************************************************************************)
(* An instance of DevelopTransaction, and next to it the instance of       *)
(* GitSync that shows that repeated synchronizations settle; there a       *)
(* development transaction is two steps.  One of them runs in a behaviour. *)
(***************************************************************************)
EXTENDS DevelopTransaction

VARIABLES part,  \* the module that runs
          made, parent, past, tree, tip, origin, tracking, files, index, unmerged, stash,
          open, guard, gpc, mode, dirty, saved, gplan, will, rest, expect, identity, result,
          owed, edited, rewritten, stamp, gfaults, develops

Git == INSTANCE GitSync WITH
  Targets <- {}, MaxCommits <- 6, Reserve <- 4, MaxEdits <- 1, MaxFaults <- 1, MaxDevelops <- 1,
  MaxChanges <- 2,
  head <- tip, journal <- open, pc <- gpc, plan <- gplan, todo <- rest, raced <- edited,
  faults <- gfaults

gitVars == <<made, parent, past, tree, tip, origin, tracking, files, index, unmerged, stash,
             open, guard, gpc, mode, dirty, saved, gplan, will, rest, expect, identity, result,
             owed, edited, rewritten, stamp, gfaults, develops>>
all == <<part, vars, gitVars>>

AllInit == part \in {"develop", "git"} /\ Init /\ Git!Init
AllNext ==
  \/ part = "develop" /\ Next /\ UNCHANGED <<part, gitVars>>
  \/ part = "git" /\ Git!Next /\ UNCHANGED <<part, vars>>
\* The fairness of each module, while it runs.
AllFair ==
  /\ WF_vars(part = "develop" /\ (Closure \/ Rollback)) /\ WF_vars(part = "develop" /\ Recover)
  /\ WF_gitVars(part = "git" /\ (Git!Integrate \/ Git!Publish \/ Git!Rollback))
  /\ SF_gitVars(part = "git" /\ Git!Start /\ mode' = "sync")
AllSpec == AllInit /\ [][AllNext]_all /\ AllFair

-----------------------------------------------------------------------------
SyncSettles == part = "git" => Git!SyncSettles
=============================================================================
