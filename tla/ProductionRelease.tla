------------------------- MODULE ProductionRelease -------------------------
(***************************************************************************)
(* deploy-production.yml: dispatches that share one concurrency group      *)
(* check main, migrate the database, build once from the Vercel project's  *)
(* environment, stage, smoke and promote, while main moves and operators   *)
(* change that environment.  The smoke is the two scripts of src/ops,      *)
(* reading what a deployment of Configuration's pages and server answers.  *)
(* Main only advances; a commit is the number of its place on it.          *)
(***************************************************************************)
EXTENDS Configuration, Negotiation

CONSTANTS MaxCommits,   \* bound on the commits of main
          MaxReleases   \* bound on the dispatches
ASSUME ReleaseAssumption == MaxCommits \in Nat \ {0} /\ MaxReleases \in Nat \ {0}

Commits  == 1..MaxCommits
Releases == 1..MaxReleases

\* The project's Production environment, right or with one thing wrong.
Production(stage, download) ==
    [vercel |-> "production", hosts |-> "both", pipeline |-> "unset", stage |-> stage,
     site |-> "site", download |-> download, server |-> "complete",
     captcha |-> "complete", fake |-> "unset", mail |-> "complete", dsn |-> "set"]
Settings ==
    {Production("early-access", "unset"), Production("launched", "store"),
     Production("launched", "elsewhere"), Production("launched", "unset"),
     [Production("early-access", "unset") EXCEPT !.site = "elsewhere"],
     [Production("early-access", "unset") EXCEPT !.server = "broken"]}

VARIABLES
    mainHead,       \* the head of main
    settings,       \* the Production environment of the Vercel project
    schema,         \* the last commit whose migrations are applied
    releases,       \* [pc, sha, event: GITHUB_SHA, stage, deployment] of each dispatch
    promotions,     \* the promotions Vercel has accepted, in order
    live            \* what the domains serve: [sha, stage, deployment]

releaseVars == <<mainHead, settings, schema, releases, promotions, live>>

NotDeployed == [pages |-> Production("early-access", "unset"),
                server |-> Production("early-access", "unset"), assets |-> TRUE]
NotDispatched == [pc |-> "none", sha |-> 0, event |-> 0, stage |-> "early-access",
                  deployment |-> NotDeployed]

ReleaseInit ==
    /\ mainHead = 1
    /\ settings \in Settings
    /\ schema = 0
    /\ releases = [r \in Releases |-> NotDispatched]
    /\ promotions = <<>>
    /\ live = [sha |-> 0, stage |-> "early-access", deployment |-> NotDeployed]

At(r, pc)  == releases[r].pc = pc
Goes(r, pc) == releases' = [releases EXCEPT ![r].pc = pc]
Finished    == [NotDispatched EXCEPT !.pc = "over"]
Ends(r)     == releases' = [releases EXCEPT ![r] = Finished]
Waiting(r) == At(r, "pending")
Running(r) == releases[r].pc \notin {"none", "pending", "over"}

-----------------------------------------------------------------------------
\* The world around the workflow.
Merge ==
    /\ mainHead < MaxCommits
    /\ mainHead' = mainHead + 1
    /\ UNCHANGED <<settings, schema, releases, promotions, live>>

ChangeSettings ==
    /\ \E s \in Settings : settings' = s
    /\ settings' # settings
    /\ UNCHANGED <<mainHead, schema, releases, promotions, live>>

\* Vercel assigns the domains of the promotion it accepted first.
AssignDomains ==
    /\ promotions # <<>>
    /\ live' = Head(promotions)
    /\ promotions' = Tail(promotions)
    /\ UNCHANGED <<mainHead, settings, schema, releases>>

-----------------------------------------------------------------------------
\* A dispatch is queued; GitHub drops the one that waited before it.
Dispatch(r) ==
    /\ At(r, "none") /\ \A q \in Releases : q < r => ~At(q, "none")
    /\ \E sha \in 1..mainHead, stage \in {"early-access", "launched"} :
         releases' = [q \in Releases |->
             IF q = r THEN [NotDispatched EXCEPT !.pc = "pending", !.sha = sha,
                                                 !.event = mainHead, !.stage = stage]
             ELSE IF Waiting(q) THEN Finished
             ELSE releases[q]]
    /\ UNCHANGED <<mainHead, settings, schema, promotions, live>>

\* Mutant: no concurrency group.
Ungrouped(r) == TRUE

\* The concurrency group, which cancels nothing in progress.
GroupFree(r) == \A q \in Releases : ~Running(q)

Start(r) ==
    /\ Waiting(r) /\ GroupFree(r)
    /\ Goes(r, "validate")
    /\ UNCHANGED <<mainHead, settings, schema, promotions, live>>

\* A step fails, the job is cancelled, or its thirty-five minutes are over.
Stop(r) ==
    /\ Running(r)
    /\ Ends(r)
    /\ UNCHANGED <<mainHead, settings, schema, promotions, live>>

LiveMainIs(sha) == mainHead = sha

Validate(r) ==
    /\ At(r, "validate")
    /\ releases[r].sha = releases[r].event /\ LiveMainIs(releases[r].sha)
    /\ Goes(r, "recheck")
    /\ UNCHANGED <<mainHead, settings, schema, promotions, live>>

Recheck(r) ==
    /\ At(r, "recheck")
    /\ LiveMainIs(releases[r].sha)
    /\ Goes(r, "migrate")
    /\ UNCHANGED <<mainHead, settings, schema, promotions, live>>

\* The migrations of the checked-out commit that are not applied yet; a run that
\* fails may have applied some.
Migrate(r) ==
    /\ At(r, "migrate")
    /\ \E s \in schema..(IF schema > releases[r].sha THEN schema ELSE releases[r].sha) :
         /\ schema' = s
         /\ IF s >= releases[r].sha THEN Goes(r, "build") ELSE Ends(r)
    /\ UNCHANGED <<mainHead, settings, promotions, live>>

\* The pages are rendered with the environment pulled now; one that does not parse
\* fails the build.
Build(r) ==
    /\ At(r, "build")
    /\ ~SiteConfigFails(settings)
    /\ releases' = [releases EXCEPT ![r].pc = "stage", ![r].deployment.pages = settings]
    /\ UNCHANGED <<mainHead, settings, schema, promotions, live>>

\* The server of the staged deployment keeps the environment of this moment.  The
\* upload may be incomplete.
StageArtifact(r) ==
    /\ At(r, "stage")
    /\ \E assets \in BOOLEAN :
         releases' = [releases EXCEPT ![r].pc = "smoke",
                                      ![r].deployment.server = settings,
                                      ![r].deployment.assets = assets]
    /\ UNCHANGED <<mainHead, settings, schema, promotions, live>>

-----------------------------------------------------------------------------
(* The smoke.  What it asks, and what a deployment answers. *)

\* validateSmokeOptions, with the variables PRODUCTION_SITE_URL = "site" and
\* PRODUCTION_DOWNLOAD_URL = "store" well-formed: nothing else can be wrong.
ExpectedSite     == "site"
ExpectedDownload == "store"

\* The section and the call to action of the rendered page.
ShowsSignupForm(env) == Stage(env) # "launched"
ReleaseSurface(env) ==
    IF Stage(env) = "launched"
    THEN [cta |-> "Get Corpus", href |-> env.download, form |-> ShowsSignupForm(env)]
    ELSE [cta |-> "Join early access", href |-> "#early-access",
          form |-> ShowsSignupForm(env)]

ReleaseSurfacePasses(d, stage) ==
    ReleaseSurface(d.pages) =
        IF stage = "launched"
        THEN [cta |-> "Get Corpus", href |-> ExpectedDownload, form |-> FALSE]
        ELSE [cta |-> "Join early access", href |-> "#early-access", form |-> TRUE]

\* upgrade-insecure-requests is sent by what was built on Vercel.
SecurityHeadersPass(d) == d.pages.vercel # "unset"

\* The robots metadata, and robots.txt with the address of the sitemap.
IndexingPasses(d) == d.pages.vercel = "production" /\ SiteUrl(d.pages) = ExpectedSite

CanonicalPasses(d) == SiteUrl(d.pages) = ExpectedSite

StylesheetPasses(d) == d.assets

\* The maintenance route reads the server's configuration before it refuses.
ServerBoundaryPasses(d) == ~ServerConfigFails(d.server)

\* runAgentReadinessSmoke asks the proxy for Markdown, for anything but HTML, for
\* JSON, for a page that is not there, and for the Markdown aliases.
AgentRange(names, q) == [names |-> names, q |-> q]
AgentAsks(d, path, accept) ==
    Proxy([path |-> path, skip |-> FALSE, accept |-> accept,
           stage |-> IF Stage(d.server) = "misspelt" THEN "invalid" ELSE "valid"])
AgentReadinessPasses(d) ==
    /\ AgentAsks(d, "page", <<AgentRange("markdown", "none")>>) = "markdown"
    /\ AgentAsks(d, "page", <<AgentRange("html", "zero"), AgentRange("other", "none")>>) = "406"
    /\ AgentAsks(d, "page", <<AgentRange("other", "none")>>) = "next"
    /\ AgentAsks(d, "unknown", <<AgentRange("markdown", "none")>>) = "markdown 404"
    /\ AgentAsks(d, "unknown", <<AgentRange("html", "none")>>) = "next"
    /\ AgentAsks(d, "page", <<AgentRange("html", "none")>>) = "next"
    /\ AgentAsks(d, "alias", <<>>) = "markdown"

\* Mutant: the smoke does not compare the surface with the dispatch.
SmokesAnyStage(d, stage) ==
    /\ SecurityHeadersPass(d) /\ IndexingPasses(d)
    /\ CanonicalPasses(d) /\ StylesheetPasses(d) /\ ServerBoundaryPasses(d)
    /\ AgentReadinessPasses(d)

SmokePasses(d, stage) ==
    /\ SecurityHeadersPass(d) /\ ReleaseSurfacePasses(d, stage) /\ IndexingPasses(d)
    /\ CanonicalPasses(d) /\ StylesheetPasses(d) /\ ServerBoundaryPasses(d)
    /\ AgentReadinessPasses(d)

Smoke(r) ==
    /\ At(r, "smoke")
    /\ SmokePasses(releases[r].deployment, releases[r].stage)
    /\ Goes(r, "final")
    /\ UNCHANGED <<mainHead, settings, schema, promotions, live>>

-----------------------------------------------------------------------------
FinalRecheck(r) ==
    /\ At(r, "final")
    /\ LiveMainIs(releases[r].sha)
    /\ Goes(r, "promote")
    /\ UNCHANGED <<mainHead, settings, schema, promotions, live>>

\* The deployment that was staged and smoked; the domains move when Vercel gets to it,
\* which the job does not wait for longer than five minutes.
Promote(r) ==
    /\ At(r, "promote")
    /\ promotions' = Append(promotions, [sha |-> releases[r].sha, stage |-> releases[r].stage,
                                         deployment |-> releases[r].deployment])
    /\ Ends(r)
    /\ UNCHANGED <<mainHead, settings, schema, live>>

ReleaseNext ==
    \/ Merge \/ ChangeSettings \/ AssignDomains
    \/ \E r \in Releases :
         \/ Dispatch(r) \/ Start(r) \/ Stop(r)
         \/ Validate(r) \/ Recheck(r) \/ Migrate(r) \/ Build(r) \/ StageArtifact(r)
         \/ Smoke(r) \/ FinalRecheck(r) \/ Promote(r)

ReleaseSpec == ReleaseInit /\ [][ReleaseNext]_releaseVars

-----------------------------------------------------------------------------
\* Whatever commits land, settings change and dispatches pile up, the workflow never
\* takes the domains back to an older commit, nor to one whose migrations are not all
\* applied.  (Going back is the manual rollback of docs/operations/rollback.md, which no workflow
\* runs and no action here stands for.)
ReleasesOnlyAdvance ==
    [][live'.sha >= live.sha /\ live'.sha <= schema']_releaseVars

\* What is live is what was dispatched: its pages show the stage the operator chose,
\* and send to the store once launched; they are canonical for the site; its server
\* starts; and it is complete, although the settings may have changed at any moment.
\* (Of the pages, which the build rendered: what its server reads again at run time is
\* only known to be well-formed.)
LiveIsAsDispatched ==
    live.sha # 0 =>
        /\ Stage(live.deployment.pages) = live.stage
        /\ live.stage = "launched" => live.deployment.pages.download = "store"
        /\ SiteUrl(live.deployment.pages) = "site"
        /\ live.deployment.assets
        /\ ~ServerConfigFails(live.deployment.server)

=============================================================================
