------------------------ MODULE PreviewEnvironments ------------------------
(***************************************************************************)
(* preview.yml and preview-cleanup.yml over the Neon branch of one pull    *)
(* request.  Both share a concurrency group in which a newer run cancels   *)
(* the one in progress, between two steps or in the middle of a request    *)
(* whose effect comes later.  A branch carries its own expiration.         *)
(***************************************************************************)
EXTENDS Naturals

CONSTANT Lifetime       \* the days of date -d '+7 days'
ASSUME LifetimeAssumption == Lifetime \in Nat \ {0}

NoBranch == 0           \* no branch
Days == 1..Lifetime     \* of a branch: the days that are left

VARIABLES
    pullRequest,    \* "none", "open", "closed"
    fromFork,       \* its head is in a fork
    previewRun,     \* [kind, pc] of the group's run in progress
    branch,         \* NoBranch, or the days until it expires
    inFlight        \* requests of cancelled runs that Neon has not answered

previewVars == <<pullRequest, fromFork, previewRun, branch, inFlight>>

NoRun      == [kind |-> "none", pc |-> "over"]
PreviewRun == [kind |-> "preview", pc |-> "fork check"]
CleanupRun == [kind |-> "cleanup", pc |-> "delete"]

PreviewInit ==
    /\ pullRequest = "none" /\ fromFork \in BOOLEAN
    /\ previewRun = NoRun /\ branch = NoBranch /\ inFlight = {}

RunAt(kind, pc) == previewRun = [kind |-> kind, pc |-> pc]
RunGoes(pc)     == previewRun' = [previewRun EXCEPT !.pc = pc]

-----------------------------------------------------------------------------
\* What Neon does with a request.  Mutant: a new branch is given no expiration.
CreatedForever == IF branch = NoBranch THEN Lifetime + 1 ELSE branch

\* Created with its expiration, or reused as it is.
Created == IF branch = NoBranch THEN Lifetime ELSE branch

\* A refresh of a branch that is gone fails.
Refreshed == IF branch = NoBranch THEN NoBranch ELSE Lifetime

Effect(request) ==
    CASE request = "neon"    -> Created
      [] request = "refresh" -> Refreshed
      [] request = "delete"  -> NoBranch

NeonRequests == {"neon", "refresh", "delete"}

\* The run that is replaced may have a request on its way.
Cancelled ==
    inFlight' \in {inFlight} \cup {inFlight \cup ({previewRun.pc} \cap NeonRequests)}

-----------------------------------------------------------------------------
\* opened, reopened, synchronize.
Push ==
    /\ pullRequest' = "open"
    /\ previewRun' = PreviewRun
    /\ Cancelled
    /\ UNCHANGED <<fromFork, branch>>

Close ==
    /\ pullRequest = "open"
    /\ pullRequest' = "closed"
    /\ previewRun' = CleanupRun
    /\ Cancelled
    /\ UNCHANGED <<fromFork, branch>>

\* The steps before the first that touches Neon; a fork fails closed.
ForkCheck ==
    /\ RunAt("preview", "fork check")
    /\ RunGoes(IF fromFork THEN "over" ELSE "neon")
    /\ UNCHANGED <<pullRequest, fromFork, branch, inFlight>>

CreateBranch ==
    /\ RunAt("preview", "neon")
    /\ branch' = Created
    /\ RunGoes("refresh")
    /\ UNCHANGED <<pullRequest, fromFork, inFlight>>

RefreshExpiration ==
    /\ RunAt("preview", "refresh")
    /\ branch' = Refreshed
    /\ RunGoes(IF branch = NoBranch THEN "over" ELSE "migrate")
    /\ UNCHANGED <<pullRequest, fromFork, inFlight>>

\* Migrate, pull, build and deploy, which need the branch and leave it as it is.
DeployPreview ==
    /\ RunAt("preview", "migrate")
    /\ RunGoes("over")
    /\ UNCHANGED <<pullRequest, fromFork, branch, inFlight>>

\* A step fails, or its ten minutes are over.
PreviewFails ==
    /\ previewRun.kind = "preview" /\ previewRun.pc # "over"
    /\ RunGoes("over")
    /\ UNCHANGED <<pullRequest, fromFork, branch, inFlight>>

\* continue-on-error: a failed deletion leaves the branch, and the run is green.
DeleteBranch ==
    /\ RunAt("cleanup", "delete")
    /\ branch' \in IF fromFork THEN {branch} ELSE {branch, NoBranch}
    /\ RunGoes("over")
    /\ UNCHANGED <<pullRequest, fromFork, inFlight>>

LateEffect ==
    /\ \E request \in inFlight :
         branch' = Effect(request) /\ inFlight' = inFlight \ {request}
    /\ UNCHANGED <<pullRequest, fromFork, previewRun>>

\* A day passes; Neon deletes what has expired.  Runs and requests take minutes.
Day ==
    /\ branch \in Days /\ inFlight = {} /\ previewRun.pc = "over"
    /\ branch' = branch - 1
    /\ UNCHANGED <<pullRequest, fromFork, previewRun, inFlight>>

PreviewNext ==
    \/ Push \/ Close
    \/ ForkCheck \/ CreateBranch \/ RefreshExpiration \/ DeployPreview \/ PreviewFails
    \/ DeleteBranch \/ LateEffect \/ Day

\* Runs come to an end, requests are answered, days pass.
PreviewFairness ==
    /\ WF_previewVars(ForkCheck \/ CreateBranch \/ RefreshExpiration \/ DeployPreview
                      \/ PreviewFails \/ DeleteBranch)
    /\ WF_previewVars(LateEffect)
    /\ WF_previewVars(Day)

PreviewSpec == PreviewInit /\ [][PreviewNext]_previewVars /\ PreviewFairness

-----------------------------------------------------------------------------
\* The branch of a closed pull request goes, even if the run that made it was cancelled
\* by the close in the middle of its request, or the cleanup failed and nobody saw it,
\* unless somebody goes on with the pull request.
ClosedPreviewGoes == (pullRequest = "closed") ~> (branch = NoBranch \/ pullRequest = "open")

=============================================================================
