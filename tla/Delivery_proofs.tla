-------------------------- MODULE Delivery_proofs ---------------------------
(***************************************************************************)
(* Theorems about how the site is configured, released and audited, for    *)
(* every bound: the wiring of every environment, the releases of Production,*)
(* the launch command, the audit of CI; and the instance that composes these*)
(* parts with those of Requests_proofs.                                    *)
(***************************************************************************)
EXTENDS Requests_proofs, MCPlatform

(* The configuration of an environment                                     *)

\* What a process is configured with lets a signup through only as its verifier says,
\* and mails it by its own sender, with links to its own site.
LetThrough(env) ==
    /\ ~BuildContextFails(env)
    /\ confirmation[1].sender = ProvideNotifications(env)
    /\ confirmation[1].origin = SiteUrl(env)
    /\ \/ ProvideExternalApi(env) = "fake"
       \/ /\ assessed # <<>> /\ assessed[1].valid /\ assessed[1].confident
          /\ assessed[1].hostname = SiteUrl(env)

ConfigurationInv ==
    /\ environment = <<>> => confirmation = <<>> /\ signupAnswer = "none"
    /\ environment # <<>> =>
         /\ environment[1] \in Environments
         /\ confirmation # <<>> => LetThrough(environment[1])
         /\ BuildContextFails(environment[1]) => signupAnswer \in {"none", "retry"}
    /\ signupAnswer = "none" => confirmation = <<>>

\* Every start-up of the application and every signup keeps it.
LEMMA NextConfiguration ==
    ASSUME ConfigurationInv, [ConfigurationNext]_configurationVars
    PROVE  ConfigurationInv'
  <1>1. CASE UNCHANGED configurationVars
    BY <1>1 DEF configurationVars, ConfigurationInv, LetThrough
  <1>2. CASE Configure
    <2>1. PICK env \in Environments : environment' = <<env>>
      BY <1>2 DEF Configure
    <2>2. environment' # <<>> /\ environment'[1] = env
      BY <2>1
    <2> QED
      BY <1>2, <2>2 DEF Configure, ConfigurationInv
  <1>3. CASE WiringFails
    BY <1>3 DEF WiringFails, ConfigurationInv
  <1>4. CASE SignupClosed
    BY <1>4 DEF SignupClosed, ConfigurationInv
  <1>5. CASE Signup
    <2> DEFINE env == environment[1]
    <2>1. /\ environment # <<>> /\ signupAnswer = "none" /\ ~BuildContextFails(env)
          /\ environment' = environment /\ env \in Environments
      BY <1>5 DEF Signup, ConfigurationInv
    <2>2. PICK a \in Assessments : \E token \in Tokens(a) :
             /\ assessed' = IF ProvideExternalApi(env) = "google" THEN <<a>> ELSE <<>>
             /\ IF Verify(env, token, a)
                THEN /\ signupAnswer' = "success"
                     /\ confirmation' = <<[sender |-> ProvideNotifications(env),
                                           origin |-> SiteUrl(env)]>>
                ELSE signupAnswer' = "retry" /\ UNCHANGED confirmation
      BY <1>5 DEF Signup
    <2>3. PICK token \in Tokens(a) :
             /\ assessed' = IF ProvideExternalApi(env) = "google" THEN <<a>> ELSE <<>>
             /\ IF Verify(env, token, a)
                THEN /\ signupAnswer' = "success"
                     /\ confirmation' = <<[sender |-> ProvideNotifications(env),
                                           origin |-> SiteUrl(env)]>>
                ELSE signupAnswer' = "retry" /\ UNCHANGED confirmation
      BY <2>2
    <2>4. CASE ~Verify(env, token, a)
      BY <2>1, <2>3, <2>4 DEF ConfigurationInv
    <2>5. CASE Verify(env, token, a)
      <3>1. /\ confirmation'[1].sender = ProvideNotifications(env)
            /\ confirmation'[1].origin = SiteUrl(env)
        BY <2>3, <2>5
      <3>2. ProvideExternalApi(env) \in {"fake", "google"}
        BY <2>1 DEF BuildContextFails, ProvideExternalApi
      <3>3. ProvideExternalApi(env) = "google" =>
               /\ assessed' # <<>> /\ assessed'[1].valid /\ assessed'[1].confident
               /\ assessed'[1].hostname = SiteUrl(env)
        BY <2>3, <2>5 DEF Verify
      <3>4. LetThrough(env)'
        BY <2>1, <3>1, <3>2, <3>3 DEF LetThrough
      <3> QED
        BY <2>1, <2>3, <2>5, <3>4 DEF ConfigurationInv
    <2> QED
      BY <2>4, <2>5
  <1> QED
    BY <1>1, <1>2, <1>3, <1>4, <1>5 DEF ConfigurationNext

\* What it says of an environment that took a signup is the property.
LEMMA GuardedSignups ==
    ASSUME ConfigurationInv
    PROVE  SignupsAreGuarded
  <1> SUFFICES ASSUME environment # <<>> PROVE SignupsAreGuarded
    BY DEF SignupsAreGuarded
  <1> DEFINE env == environment[1]
  <1>1. env \in Environments
    BY DEF ConfigurationInv
  <1>2. confirmation # <<>> => LetThrough(env)
    BY DEF ConfigurationInv
  <1>3. BuildContextFails(env) => signupAnswer \in {"none", "retry"}
    BY DEF ConfigurationInv
  <1>4. ~BuildContextFails(env) =>
           /\ PageAsksGoogle(env) <=> ProvideExternalApi(env) = "google"
           /\ env.vercel = "production" =>
                 /\ ProvideExternalApi(env) = "google"
                 /\ ProvideNotifications(env) = "resend"
    BY <1>1
    DEF Environments, BuildContextFails, ProvideExternalApi, PageAsksGoogle,
        ProvideNotifications, ProvideProductionNotifications
  <1>5. ProvideExternalApi(env) = "fake" =>
           \/ env.vercel \in {"development", "preview", "other"}
           \/ env.vercel = "unset" /\ env.fake = "1"
    BY <1>1 DEF Environments, ProvideExternalApi
  <1>6. env.vercel # "production" =>
           /\ env.pipeline = "on" => ProvideNotifications(env) = "fake"
           /\ env.hosts \in {"own", "both"} => SiteUrl(env) # "production alias"
    BY <1>1 DEF Environments, ProvideNotifications, IsPipelineRun, SiteUrl, DeploymentHostname
  <1> HIDE DEF env
  <1>7. confirmation # <<>> =>
           /\ confirmation[1].sender = "resend" =>
                \/ /\ assessed # <<>> /\ assessed[1].valid /\ assessed[1].confident
                   /\ assessed[1].hostname = confirmation[1].origin
                \/ env.vercel \in {"development", "preview", "other"}
                \/ env.vercel = "unset" /\ env.fake = "1"
           /\ env.vercel = "production" =>
                confirmation[1].sender = "resend" /\ assessed # <<>>
           /\ env.vercel # "production" =>
                /\ env.pipeline = "on" => confirmation[1].sender = "fake"
                /\ env.hosts \in {"own", "both"} => confirmation[1].origin # "production alias"
    BY <1>2, <1>4, <1>5, <1>6 DEF LetThrough
  <1> QED
    BY <1>3, <1>4, <1>7 DEF SignupsAreGuarded, env

\* Whatever VERCEL_ENV says and whichever host names are set, no environment mails
\* strangers for an unverified signup unless it is told that it is not Production; Production
\* fakes nothing; and no other process that knows its own host hands out links to the
\* production host.
THEOREM GuardedEnvironments == ConfigurationSpec => []SignupsAreGuarded
  <1>1. ConfigurationInit => ConfigurationInv
    BY DEF ConfigurationInit, ConfigurationInv
  <1>2. ConfigurationInv /\ [ConfigurationNext]_configurationVars => ConfigurationInv'
    BY NextConfiguration
  <1>3. ConfigurationInv => SignupsAreGuarded
    BY GuardedSignups
  <1> QED
    BY <1>1, <1>2, <1>3, PTL DEF ConfigurationSpec

-----------------------------------------------------------------------------
(* The releases of Production                                              *)

Stages == {"early-access", "launched"}
Pcs == {"none", "pending", "over", "validate", "recheck", "migrate", "build", "stage",
        "smoke", "final", "promote"}
Deployments == [pages : Settings, server : Settings, assets : BOOLEAN]
Dispatches  == [pc : Pcs, sha : Nat, event : Nat, stage : Stages, deployment : Deployments]
Published   == [sha : Nat, stage : Stages, deployment : Deployments]

ReleaseTypeOK ==
    /\ mainHead \in Commits /\ settings \in Settings /\ schema \in Nat
    /\ releases \in [Releases -> Dispatches]
    /\ promotions \in Seq(Published)
    /\ live \in Published

\* What the smoke found out about a deployment and the stage that was dispatched.
AsDispatched(d, named) ==
    /\ Stage(d.pages) = named
    /\ named = "launched" => d.pages.download = "store"
    /\ SiteUrl(d.pages) = "site"
    /\ d.assets
    /\ ~ServerConfigFails(d.server)

\* The concurrency group.
OneRunning == \A q, r \in Releases : Running(q) /\ Running(r) => q = r

\* The commits that Vercel is to serve one after the other are in the order of main,
\* are migrated, and were smoked.
PublishedInOrder ==
    /\ live.sha <= schema /\ live.sha <= mainHead
    /\ live.sha # 0 => AsDispatched(live.deployment, live.stage)
    /\ \A i \in 1..Len(promotions) :
         /\ live.sha <= promotions[i].sha
         /\ promotions[i].sha <= schema /\ promotions[i].sha <= mainHead
         /\ AsDispatched(promotions[i].deployment, promotions[i].stage)
    /\ \A i, j \in 1..Len(promotions) : i <= j => promotions[i].sha <= promotions[j].sha

\* What the run of a dispatch has found out by the step it has reached.
Knows(x) ==
    /\ x.sha <= mainHead
    /\ x.pc \in {"build", "stage", "smoke", "final", "promote"} => x.sha <= schema
    /\ x.pc \in {"final", "promote"} => AsDispatched(x.deployment, x.stage)
    /\ x.pc = "promote" =>
         /\ live.sha <= x.sha
         /\ \A i \in 1..Len(promotions) : promotions[i].sha <= x.sha

ReleaseInv ==
    /\ ReleaseTypeOK
    /\ OneRunning
    /\ PublishedInOrder
    /\ \A r \in Releases : Knows(releases[r])

-----------------------------------------------------------------------------
\* The settings of the model are settings.
LEMMA DefaultSettings == Production("early-access", "unset") \in Settings
  BY DEF Settings

\* A deployment that no run has filled in is one.
LEMMA NotDispatchedType ==
    /\ NotDeployed \in Deployments
    /\ NotDispatched \in Dispatches /\ NotDispatched.sha = 0 /\ NotDispatched.pc = "none"
    /\ Finished \in Dispatches /\ Finished.sha = 0 /\ Finished.pc = "over"
  BY DefaultSettings
  DEF NotDeployed, Deployments, NotDispatched, Dispatches, Finished, Pcs, Stages

\* Every setting is of Production and names a stage or leaves it to its default.
LEMMA SettingsNamed ==
    ASSUME NEW s \in Settings
    PROVE  /\ s.vercel = "production"
           /\ Stage(s) \in Stages
  BY DEF Settings, Production, Stage, Stages

\* The fields of a surface.
LEMMA SurfaceFields ==
    ASSUME NEW s, NEW cta, NEW href, NEW form,
           s = [cta |-> cta, href |-> href, form |-> form]
    PROVE  s.cta = cta /\ s.href = href
  OBVIOUS

\* A deployment that passes the smoke is as it was dispatched.
LEMMA SmokeTells ==
    ASSUME NEW d \in Deployments, NEW named \in Stages, SmokePasses(d, named)
    PROVE  AsDispatched(d, named)
  <1>1. Stage(d.pages) = named /\ (named = "launched" => d.pages.download = "store")
    <2>1. ReleaseSurface(d.pages) =
            IF named = "launched"
            THEN [cta |-> "Get Corpus", href |-> "store", form |-> FALSE]
            ELSE [cta |-> "Join early access", href |-> "#early-access", form |-> TRUE]
      BY DEF SmokePasses, ReleaseSurfacePasses, ExpectedDownload
    <2>2. Stage(d.pages) \in Stages
      BY SettingsNamed DEF Deployments
    <2>3. /\ Stage(d.pages) = "launched" =>
               /\ ReleaseSurface(d.pages).cta = "Get Corpus"
               /\ ReleaseSurface(d.pages).href = d.pages.download
          /\ Stage(d.pages) # "launched" => ReleaseSurface(d.pages).cta = "Join early access"
      BY DEF ReleaseSurface
    <2>4. CASE named = "launched"
      <3>1. ReleaseSurface(d.pages) = [cta |-> "Get Corpus", href |-> "store", form |-> FALSE]
        BY <2>1, <2>4
      <3>2. ReleaseSurface(d.pages).cta = "Get Corpus" /\ ReleaseSurface(d.pages).href = "store"
        BY <3>1, SurfaceFields
      <3> QED BY <2>2, <2>3, <2>4, <3>2 DEF Stages
    <2>5. CASE named = "early-access"
      <3>1. ReleaseSurface(d.pages)
              = [cta |-> "Join early access", href |-> "#early-access", form |-> TRUE]
        BY <2>1, <2>5
      <3>2. ReleaseSurface(d.pages).cta = "Join early access"
        BY <3>1, SurfaceFields
      <3> QED BY <2>2, <2>3, <2>5, <3>2 DEF Stages
    <2> QED BY <2>4, <2>5 DEF Stages
  <1>2. SiteUrl(d.pages) = "site"
    BY DEF SmokePasses, CanonicalPasses, ExpectedSite
  <1>3. d.assets /\ ~ServerConfigFails(d.server)
    BY DEF SmokePasses, StylesheetPasses, ServerBoundaryPasses
  <1> QED BY <1>1, <1>2, <1>3 DEF AsDispatched

-----------------------------------------------------------------------------
\* The invariant holds at first: nothing is promoted, no run is in progress.
LEMMA InitRelease == ReleaseInit => ReleaseInv
  <1> SUFFICES ASSUME ReleaseInit PROVE ReleaseInv
    OBVIOUS
  <1>1. ReleaseTypeOK
    BY NotDispatchedType, ReleaseAssumption
    DEF ReleaseInit, ReleaseTypeOK, Commits, Published, Stages
  <1>2. OneRunning
    BY NotDispatchedType DEF ReleaseInit, OneRunning, Running
  <1>3. PublishedInOrder
    BY DEF ReleaseInit, PublishedInOrder
  <1>4. \A r \in Releases : Knows(releases[r])
    BY NotDispatchedType DEF ReleaseInit, Knows
  <1> QED BY <1>1, <1>2, <1>3, <1>4 DEF ReleaseInv

\* Commits are numbers wherever they occur.
LEMMA TypedShas ==
    ASSUME ReleaseTypeOK
    PROVE  /\ mainHead \in Nat /\ schema \in Nat /\ live.sha \in Nat
           /\ \A i \in 1..Len(promotions) :
                promotions[i] \in Published /\ promotions[i].sha \in Nat
           /\ \A r \in Releases : releases[r] \in Dispatches /\ releases[r].sha \in Nat
  <1>1. mainHead \in Nat /\ schema \in Nat
    BY ReleaseAssumption DEF ReleaseTypeOK, Commits
  <1>2. live.sha \in Nat
    BY DEF ReleaseTypeOK, Published
  <1>3. ASSUME NEW i \in 1..Len(promotions)
        PROVE  promotions[i] \in Published /\ promotions[i].sha \in Nat
    <2>1. promotions[i] \in Published
      BY <1>3 DEF ReleaseTypeOK
    <2> QED BY <2>1 DEF Published
  <1>4. ASSUME NEW r \in Releases
        PROVE  releases[r] \in Dispatches /\ releases[r].sha \in Nat
    <2>1. releases[r] \in Dispatches
      BY DEF ReleaseTypeOK
    <2> QED BY <2>1 DEF Dispatches
  <1> QED BY <1>1, <1>2, <1>3, <1>4

\* Main moves on; the settings change.
LEMMA WorldRelease ==
    ASSUME ReleaseInv, Merge \/ ChangeSettings
    PROVE  ReleaseInv'
  <1>1. /\ mainHead' \in Commits /\ mainHead <= mainHead' /\ settings' \in Settings
        /\ UNCHANGED <<schema, releases, promotions, live>>
    BY ReleaseAssumption
    DEF Merge, ChangeSettings, ReleaseInv, ReleaseTypeOK, Commits
  <1>2. ReleaseTypeOK' /\ OneRunning'
    BY <1>1 DEF ReleaseInv, ReleaseTypeOK, OneRunning, Running
  <1>3. /\ mainHead \in Nat /\ mainHead' \in Nat /\ schema \in Nat /\ live.sha \in Nat
        /\ \A i \in 1..Len(promotions) : promotions[i].sha \in Nat
        /\ \A r \in Releases : releases[r] \in Dispatches /\ releases[r].sha \in Nat
    BY <1>1, TypedShas, ReleaseAssumption DEF ReleaseInv, Commits
  <1>4. PublishedInOrder'
    BY <1>1, <1>3 DEF ReleaseInv, PublishedInOrder
  <1>5. ASSUME NEW r \in Releases
        PROVE  Knows(releases[r])'
    <2>1. Knows(releases[r]) /\ releases[r].sha <= mainHead'
      BY <1>1, <1>3 DEF ReleaseInv, Knows
    <2> QED BY <1>1, <2>1 DEF Knows
  <1> QED BY <1>2, <1>4, <1>5 DEF ReleaseInv

\* A run alone in its group goes on, or ends, and leaves what is published alone.
LEMMA RunStep ==
    ASSUME ReleaseInv, NEW r \in Releases, NEW x \in Dispatches,
           releases' = [releases EXCEPT ![r] = x],
           UNCHANGED <<mainHead, settings, promotions, live>>,
           schema' \in Nat, schema <= schema',
           x.pc \notin {"none", "pending", "over"} => \A q \in Releases : Running(q) => q = r,
           Knows(x)'
    PROVE  ReleaseInv'
  <1>1. \A q \in Releases : releases'[q] = IF q = r THEN x ELSE releases[q]
    BY DEF ReleaseInv, ReleaseTypeOK
  <1>2. ReleaseTypeOK'
    BY <1>1 DEF ReleaseInv, ReleaseTypeOK
  <1>3. OneRunning'
    BY <1>1 DEF ReleaseInv, OneRunning, Running
  <1>4. PublishedInOrder'
    BY TypedShas DEF ReleaseInv, PublishedInOrder
  <1>5. ASSUME NEW q \in Releases
        PROVE  Knows(releases[q])'
    <2>1. CASE q = r
      BY <1>1, <2>1
    <2>2. CASE q # r
      BY <1>1, <2>2, TypedShas DEF ReleaseInv, Knows
    <2> QED BY <2>1, <2>2
  <1> QED BY <1>2, <1>3, <1>4, <1>5 DEF ReleaseInv

\* The record of a dispatch.
LEMMA PendingType ==
    ASSUME NEW x \in Dispatches, NEW pc \in Pcs, NEW sha \in Nat, NEW event \in Nat,
           NEW named \in Stages
    PROVE  LET y == [x EXCEPT !.pc = pc, !.sha = sha, !.event = event, !.stage = named]
           IN  y \in Dispatches /\ y.pc = pc /\ y.sha = sha
  BY DEF Dispatches

\* Moving a run on changes its step only.
LEMMA MovedOn ==
    ASSUME NEW x \in Dispatches, NEW pc \in Pcs
    PROVE  LET y == [x EXCEPT !.pc = pc]
           IN  /\ y \in Dispatches
               /\ y.pc = pc /\ y.sha = x.sha /\ y.stage = x.stage
               /\ y.deployment = x.deployment
  BY DEF Dispatches

\* A run in progress is the only one.
LEMMA AloneInGroup ==
    ASSUME OneRunning, NEW r \in Releases, Running(r)
    PROVE  \A q \in Releases : Running(q) => q = r
  BY DEF OneRunning

\* The steps that only move a run on, or end it.
LEMMA PassesRelease ==
    ASSUME ReleaseInv, NEW r \in Releases,
           Start(r) \/ Stop(r) \/ Validate(r) \/ Recheck(r) \/ Smoke(r) \/ FinalRecheck(r)
    PROVE  ReleaseInv'
  <1>1. /\ UNCHANGED <<mainHead, settings, schema, promotions, live>>
        /\ schema' \in Nat /\ schema <= schema'
    BY TypedShas
    DEF ReleaseInv, Start, Stop, Validate, Recheck, Smoke, FinalRecheck
  <1>2. releases[r] \in Dispatches /\ Knows(releases[r])
    BY TypedShas DEF ReleaseInv
  <1>3. CASE Stop(r)
    <2>1. Knows(Finished)'
      BY <1>1, NotDispatchedType, TypedShas DEF ReleaseInv, Knows
    <2> QED BY <1>1, <1>3, <2>1, NotDispatchedType, RunStep DEF Stop, Ends
  <1> DEFINE moved(pc) == [releases[r] EXCEPT !.pc = pc]
  <1>4. ASSUME NEW pc \in Pcs, Goes(r, pc), Knows(moved(pc)),
               \A q \in Releases : Running(q) => q = r
        PROVE  ReleaseInv'
    <2>1. PICK x \in Dispatches : x = moved(pc) /\ x.pc = pc
      BY <1>2, MovedOn
    <2>2. releases' = [releases EXCEPT ![r] = x]
      BY <1>4, <2>1 DEF Goes, ReleaseInv, ReleaseTypeOK
    <2>3. Knows(x)
      BY <1>4, <2>1
    <2>4. Knows(x)'
      BY <1>1, <2>3 DEF Knows
    <2> HIDE DEF moved
    <2> QED BY <1>1, <1>4, <2>2, <2>4, RunStep
  <1>5. \A pc \in Pcs : /\ moved(pc).pc = pc /\ moved(pc).sha = releases[r].sha
                        /\ moved(pc).stage = releases[r].stage
                        /\ moved(pc).deployment = releases[r].deployment
    BY <1>2, MovedOn
  <1> HIDE DEF moved
  <1>6. Running(r) => \A q \in Releases : Running(q) => q = r
    BY AloneInGroup DEF ReleaseInv
  <1>7. CASE Start(r)
    <2>1. Goes(r, "validate") /\ \A q \in Releases : Running(q) => q = r
      BY <1>7 DEF Start, GroupFree
    <2>2. Knows(moved("validate")) /\ "validate" \in Pcs
      BY <1>2, <1>5 DEF Knows, Pcs
    <2> QED BY <1>4, <2>1, <2>2
  <1>8. CASE Validate(r)
    <2>1. Goes(r, "recheck") /\ Running(r)
      BY <1>8 DEF Validate, At, Running
    <2>2. Knows(moved("recheck")) /\ "recheck" \in Pcs
      BY <1>2, <1>5 DEF Knows, Pcs
    <2> QED BY <1>4, <1>6, <2>1, <2>2
  <1>9. CASE Recheck(r)
    <2>1. Goes(r, "migrate") /\ Running(r)
      BY <1>9 DEF Recheck, At, Running
    <2>2. Knows(moved("migrate")) /\ "migrate" \in Pcs
      BY <1>2, <1>5 DEF Knows, Pcs
    <2> QED BY <1>4, <1>6, <2>1, <2>2
  <1>10. CASE Smoke(r)
    <2>1. /\ Goes(r, "final") /\ Running(r) /\ releases[r].pc = "smoke"
          /\ SmokePasses(releases[r].deployment, releases[r].stage)
      BY <1>10 DEF Smoke, At, Running
    <2>2. AsDispatched(releases[r].deployment, releases[r].stage)
      BY <1>2, <2>1, SmokeTells DEF Dispatches
    <2>3. Knows(moved("final")) /\ "final" \in Pcs
      BY <1>2, <1>5, <2>1, <2>2 DEF Knows, Pcs
    <2> QED BY <1>4, <1>6, <2>1, <2>3
  <1>11. CASE FinalRecheck(r)
    <2>1. /\ Goes(r, "promote") /\ Running(r) /\ releases[r].pc = "final"
          /\ releases[r].sha = mainHead
      BY <1>11 DEF FinalRecheck, LiveMainIs, At, Running
    <2>2. live.sha <= mainHead /\ \A i \in 1..Len(promotions) : promotions[i].sha <= mainHead
      BY DEF ReleaseInv, PublishedInOrder
    <2>3. Knows(moved("promote")) /\ "promote" \in Pcs
      BY <1>2, <1>5, <2>1, <2>2 DEF Knows, Pcs
    <2> QED BY <1>4, <1>6, <2>1, <2>3
  <1> QED BY <1>3, <1>7, <1>8, <1>9, <1>10, <1>11

\* A dispatch takes the place of the one that waited.
LEMMA DispatchRelease ==
    ASSUME ReleaseInv, NEW r \in Releases, Dispatch(r)
    PROVE  ReleaseInv'
  <1>1. PICK sha \in 1..mainHead, named \in Stages :
          releases' = [q \in Releases |->
             IF q = r THEN [NotDispatched EXCEPT !.pc = "pending", !.sha = sha,
                                                 !.event = mainHead, !.stage = named]
             ELSE IF Waiting(q) THEN Finished
             ELSE releases[q]]
    BY DEF Dispatch, Stages
  <1>2. /\ UNCHANGED <<mainHead, settings, schema, promotions, live>>
        /\ mainHead \in Nat
    BY TypedShas DEF Dispatch, ReleaseInv
  <1>3. PICK pending \in Dispatches :
          /\ pending = [NotDispatched EXCEPT !.pc = "pending", !.sha = sha,
                                             !.event = mainHead, !.stage = named]
          /\ pending.pc = "pending" /\ pending.sha = sha
    <2>1. "pending" \in Pcs /\ sha \in Nat
      BY <1>2 DEF Pcs
    <2>2. PICK head \in Nat : head = mainHead
      BY <1>2
    <2>3. PICK empty \in Dispatches : empty = NotDispatched
      BY NotDispatchedType
    <2> DEFINE filled == [empty EXCEPT !.pc = "pending", !.sha = sha, !.event = head,
                                       !.stage = named]
    <2>4. filled \in Dispatches
      BY <2>1 DEF Dispatches
    <2>5. filled.pc = "pending" /\ filled.sha = sha
      BY DEF Dispatches
    <2> QED BY <2>2, <2>3, <2>4, <2>5
  <1>4. ASSUME NEW q \in Releases
        PROVE  /\ releases'[q] \in {pending, Finished, releases[q]}
               /\ releases'[q] \in Dispatches
    BY <1>1, <1>3, NotDispatchedType DEF ReleaseInv, ReleaseTypeOK
  <1>5. ReleaseTypeOK'
    BY <1>1, <1>2, <1>4 DEF ReleaseInv, ReleaseTypeOK
  <1>6. ASSUME NEW q \in Releases
        PROVE  Running(q)' => Running(q)
    BY <1>3, <1>4, NotDispatchedType DEF Running
  <1>7. OneRunning'
    BY <1>6 DEF ReleaseInv, OneRunning
  <1>8. PublishedInOrder'
    BY <1>2 DEF ReleaseInv, PublishedInOrder
  <1>9. ASSUME NEW q \in Releases
        PROVE  Knows(releases[q])'
    <2>1. Knows(pending)
      BY <1>2, <1>3 DEF Knows
    <2>2. Knows(Finished)
      BY <1>2, NotDispatchedType DEF Knows
    <2>3. Knows(releases[q])
      BY DEF ReleaseInv
    <2>4. PICK y : y = releases'[q] /\ Knows(y)
      BY <1>4, <2>1, <2>2, <2>3
    <2>5. Knows(y)'
      BY <1>2, <2>4 DEF Knows
    <2> QED BY <2>4, <2>5
  <1> QED BY <1>5, <1>7, <1>8, <1>9 DEF ReleaseInv

\* Migrating, building and staging fill the run in.
LEMMA FillsRelease ==
    ASSUME ReleaseInv, NEW r \in Releases, Migrate(r) \/ Build(r) \/ StageArtifact(r)
    PROVE  ReleaseInv'
  <1>1. PICK d \in Dispatches : d = releases[r] /\ Knows(d)
    BY TypedShas DEF ReleaseInv
  <1>2. d.sha \in Nat /\ d.deployment \in Deployments /\ schema \in Nat /\ settings \in Settings
    BY <1>1, TypedShas DEF Dispatches, ReleaseInv, ReleaseTypeOK
  <1>3. \A q \in Releases : Running(q) => q = r
    <2>1. Running(r)
      BY DEF Migrate, Build, StageArtifact, At, Running
    <2> QED BY <2>1, AloneInGroup DEF ReleaseInv
  <1>4. UNCHANGED <<mainHead, settings, promotions, live>>
    BY DEF Migrate, Build, StageArtifact
  <1>5. CASE Migrate(r)
    <2>1. PICK s \in schema..(IF schema > d.sha THEN schema ELSE d.sha) :
            schema' = s /\ IF s >= d.sha THEN Goes(r, "build") ELSE Ends(r)
      BY <1>1, <1>5 DEF Migrate
    <2>2. schema' \in Nat /\ schema <= schema' /\ schema' = s
      BY <1>2, <2>1
    <2>3. CASE s >= d.sha
      <3>1. PICK x \in Dispatches :
              x = [d EXCEPT !.pc = "build"] /\ x.pc = "build" /\ x.sha = d.sha
        <4> DEFINE x == [d EXCEPT !.pc = "build"]
        <4>1. x \in Dispatches /\ x.pc = "build" /\ x.sha = d.sha
          BY DEF Dispatches, Pcs
        <4> QED BY <4>1
      <3>2. releases' = [releases EXCEPT ![r] = x]
        BY <1>1, <2>1, <2>3, <3>1 DEF Goes, ReleaseInv, ReleaseTypeOK
      <3>3. Knows(x)'
        BY <1>1, <1>2, <1>4, <2>2, <2>3, <3>1 DEF Knows
      <3> QED BY <1>3, <1>4, <2>2, <3>2, <3>3, RunStep
    <2>4. CASE ~(s >= d.sha)
      <3>1. Knows(Finished)'
        BY <1>4, NotDispatchedType, TypedShas DEF ReleaseInv, Knows
      <3> QED BY <1>4, <2>1, <2>2, <2>4, <3>1, NotDispatchedType, RunStep DEF Ends
    <2> QED BY <2>3, <2>4
  <1>6. CASE Build(r) \/ StageArtifact(r)
    <2>1. PICK x \in Dispatches :
            /\ releases' = [releases EXCEPT ![r] = x]
            /\ x.pc \in {"stage", "smoke"} /\ x.sha = d.sha
      <3>1. CASE Build(r)
        <4>1. PICK env \in Settings : env = settings
          BY <1>2
        <4> DEFINE built == [d EXCEPT !.pc = "stage", !.deployment.pages = env]
        <4>2. built \in Dispatches
          BY <1>2 DEF Dispatches, Deployments, Pcs
        <4>3. built.pc = "stage" /\ built.sha = d.sha
          BY DEF Dispatches
        <4>4. releases' = [releases EXCEPT ![r] = built]
          BY <1>1, <3>1, <4>1 DEF Build, ReleaseInv, ReleaseTypeOK
        <4> HIDE DEF built
        <4> QED BY <4>2, <4>3, <4>4
      <3>2. CASE StageArtifact(r)
        <4>1. PICK env \in Settings : env = settings
          BY <1>2
        <4>2. PICK assets \in BOOLEAN :
                releases' = [releases EXCEPT ![r].pc = "smoke",
                                             ![r].deployment.server = env,
                                             ![r].deployment.assets = assets]
          BY <3>2, <4>1 DEF StageArtifact
        <4> DEFINE staged == [d EXCEPT !.pc = "smoke", !.deployment.server = env,
                                       !.deployment.assets = assets]
        <4>3. staged \in Dispatches
          BY <1>2 DEF Dispatches, Deployments, Pcs
        <4>4. staged.pc = "smoke" /\ staged.sha = d.sha
          BY DEF Dispatches
        <4>5. releases' = [releases EXCEPT ![r] = staged]
          BY <1>1, <4>2 DEF ReleaseInv, ReleaseTypeOK
        <4> HIDE DEF staged
        <4> QED BY <4>3, <4>4, <4>5
      <3> QED BY <1>6, <3>1, <3>2
    <2>2. schema' = schema /\ d.pc \in {"build", "stage"}
      BY <1>1, <1>6 DEF Build, StageArtifact, At
    <2>3. Knows(x)'
      BY <1>1, <1>2, <1>4, <2>1, <2>2 DEF Knows
    <2>4. schema' \in Nat /\ schema <= schema'
      BY <1>2, <2>2
    <2> QED BY <1>3, <1>4, <2>1, <2>3, <2>4, RunStep
  <1> QED BY <1>5, <1>6

\* What a run publishes is not older than what waits to be served.
LEMMA PromoteRelease ==
    ASSUME ReleaseInv, NEW r \in Releases, Promote(r)
    PROVE  ReleaseInv'
  <1>1. PICK d \in Dispatches : d = releases[r] /\ Knows(d) /\ d.pc = "promote"
    BY TypedShas DEF ReleaseInv, Promote, At
  <1>2. PICK p \in Published :
          p = [sha |-> d.sha, stage |-> d.stage, deployment |-> d.deployment]
          /\ p.sha = d.sha /\ p.stage = d.stage /\ p.deployment = d.deployment
    <2> DEFINE p == [sha |-> d.sha, stage |-> d.stage, deployment |-> d.deployment]
    <2>1. p \in Published
      BY DEF Dispatches, Published
    <2> QED BY <2>1
  <1>3. /\ promotions' = Append(promotions, p)
        /\ releases' = [releases EXCEPT ![r] = Finished]
        /\ UNCHANGED <<mainHead, settings, schema, live>>
    BY <1>1, <1>2 DEF Promote, Ends
  <1>4. /\ promotions \in Seq(Published) /\ promotions' \in Seq(Published)
        /\ Len(promotions') = Len(promotions) + 1 /\ Len(promotions) \in Nat
        /\ \A i \in 1..Len(promotions) : promotions'[i] = promotions[i]
        /\ promotions'[Len(promotions) + 1] = p
    BY <1>3 DEF ReleaseInv, ReleaseTypeOK
  <1>5. ReleaseTypeOK'
    BY <1>3, <1>4, NotDispatchedType DEF ReleaseInv, ReleaseTypeOK
  <1>6. OneRunning'
    BY <1>3, NotDispatchedType DEF ReleaseInv, ReleaseTypeOK, OneRunning, Running
  <1>7. PublishedInOrder'
    <2>1. /\ p.sha \in Nat /\ live.sha <= p.sha /\ p.sha <= schema /\ p.sha <= mainHead
          /\ AsDispatched(p.deployment, p.stage)
          /\ \A i \in 1..Len(promotions) : promotions[i].sha <= p.sha
      BY <1>1, <1>2 DEF Knows, Published
    <2>2. ASSUME NEW i \in 1..Len(promotions')
          PROVE  /\ live.sha <= promotions'[i].sha
                 /\ promotions'[i].sha <= schema /\ promotions'[i].sha <= mainHead
                 /\ AsDispatched(promotions'[i].deployment, promotions'[i].stage)
      <3>1. CASE i \in 1..Len(promotions)
        BY <1>4, <3>1 DEF ReleaseInv, PublishedInOrder
      <3>2. CASE i = Len(promotions) + 1
        BY <1>4, <2>1, <3>2
      <3> QED BY <1>4, <3>1, <3>2
    <2>3. ASSUME NEW i \in 1..Len(promotions'), NEW j \in 1..Len(promotions'), i <= j
          PROVE  promotions'[i].sha <= promotions'[j].sha
      <3>1. CASE j \in 1..Len(promotions)
        <4>1. i \in 1..Len(promotions)
          BY <1>4, <2>3, <3>1
        <4> QED BY <1>4, <2>3, <3>1, <4>1 DEF ReleaseInv, PublishedInOrder
      <3>2. CASE j = Len(promotions) + 1 /\ i # j
        <4>1. i \in 1..Len(promotions)
          BY <1>4, <2>3, <3>2
        <4> QED BY <1>4, <2>1, <3>2, <4>1
      <3>3. CASE j = Len(promotions) + 1 /\ i = j
        BY <1>4, <2>1, <3>3
      <3> QED BY <1>4, <3>1, <3>2, <3>3
    <2>4. live.sha <= schema /\ live.sha <= mainHead
          /\ (live.sha # 0 => AsDispatched(live.deployment, live.stage))
      BY DEF ReleaseInv, PublishedInOrder
    <2> QED BY <1>3, <2>2, <2>3, <2>4 DEF PublishedInOrder, AsDispatched
  <1>8. ASSUME NEW q \in Releases
        PROVE  Knows(releases[q])'
    <2>1. CASE q = r
      <3>1. Knows(Finished)'
        BY <1>3, NotDispatchedType, TypedShas DEF ReleaseInv, Knows
      <3> QED BY <1>3, <2>1, <3>1 DEF ReleaseInv, ReleaseTypeOK
    <2>2. CASE q # r
      <3>1. PICK y \in Dispatches : y = releases[q] /\ y = releases'[q] /\ Knows(y)
        BY <1>3, <2>2, TypedShas DEF ReleaseInv, ReleaseTypeOK
      <3>2. y.pc # "promote"
        <4>1. Running(r) /\ (y.pc = "promote" => Running(q))
          BY <1>1, <3>1 DEF Running
        <4> QED BY <2>2, <4>1 DEF ReleaseInv, OneRunning
      <3>3. Knows(y)'
        BY <1>3, <3>1, <3>2 DEF Knows
      <3> QED BY <3>1, <3>3
    <2> QED BY <2>1, <2>2
  <1> QED BY <1>5, <1>6, <1>7, <1>8 DEF ReleaseInv

\* The domains move on to the oldest promotion.
LEMMA AssignRelease ==
    ASSUME ReleaseInv, AssignDomains
    PROVE  ReleaseInv' /\ live.sha <= live'.sha
  <1>1. /\ promotions \in Seq(Published) /\ promotions # <<>>
        /\ live' = Head(promotions) /\ promotions' = Tail(promotions)
        /\ UNCHANGED <<mainHead, settings, schema, releases>>
    BY DEF AssignDomains, ReleaseInv, ReleaseTypeOK
  <1>2. /\ Len(promotions) \in Nat /\ 1 \in 1..Len(promotions)
        /\ live' = promotions[1] /\ live' \in Published
        /\ promotions' \in Seq(Published) /\ Len(promotions') = Len(promotions) - 1
        /\ \A i \in 1..Len(promotions') :
             i + 1 \in 1..Len(promotions) /\ promotions'[i] = promotions[i + 1]
    BY <1>1
  <1>3. ReleaseTypeOK' /\ OneRunning'
    BY <1>1, <1>2 DEF ReleaseInv, ReleaseTypeOK, OneRunning, Running
  <1>4. PublishedInOrder'
    <2>1. live'.sha <= schema /\ live'.sha <= mainHead
          /\ AsDispatched(live'.deployment, live'.stage)
      BY <1>2 DEF ReleaseInv, PublishedInOrder
    <2>2. ASSUME NEW i \in 1..Len(promotions')
          PROVE  /\ live'.sha <= promotions'[i].sha
                 /\ promotions'[i].sha <= schema /\ promotions'[i].sha <= mainHead
                 /\ AsDispatched(promotions'[i].deployment, promotions'[i].stage)
      <3>1. PICK j \in 1..Len(promotions) : j = i + 1 /\ promotions'[i] = promotions[j]
        BY <1>2
      <3>2. promotions[1].sha <= promotions[j].sha
        BY <1>2, <3>1 DEF ReleaseInv, PublishedInOrder
      <3>3. /\ promotions[j].sha <= schema /\ promotions[j].sha <= mainHead
            /\ AsDispatched(promotions[j].deployment, promotions[j].stage)
        BY DEF ReleaseInv, PublishedInOrder
      <3> QED
        BY <1>2, <3>1, <3>2, <3>3
    <2>3. ASSUME NEW i \in 1..Len(promotions'), NEW j \in 1..Len(promotions'), i <= j
          PROVE  promotions'[i].sha <= promotions'[j].sha
      BY <1>2, <2>3 DEF ReleaseInv, PublishedInOrder
    <2> QED BY <1>1, <2>1, <2>2, <2>3 DEF PublishedInOrder, AsDispatched
  <1>5. ASSUME NEW q \in Releases
        PROVE  Knows(releases[q])'
    <2>1. PICK y \in Dispatches : y = releases[q] /\ y = releases'[q] /\ Knows(y)
      BY <1>1, TypedShas DEF ReleaseInv
    <2>2. Knows(y)'
      BY <1>1, <1>2, <2>1 DEF Knows
    <2> QED BY <2>1, <2>2
  <1>6. live.sha <= live'.sha
    BY <1>2 DEF ReleaseInv, PublishedInOrder
  <1> QED BY <1>3, <1>4, <1>5, <1>6 DEF ReleaseInv

-----------------------------------------------------------------------------
\* Every step keeps the invariant.
LEMMA StepRelease ==
    ASSUME ReleaseInv, [ReleaseNext]_releaseVars
    PROVE  ReleaseInv'
  <1>1. CASE UNCHANGED releaseVars
    BY <1>1
    DEF releaseVars, ReleaseInv, ReleaseTypeOK, OneRunning, Running, PublishedInOrder, Knows
  <1>2. CASE Merge \/ ChangeSettings \/ AssignDomains
    BY <1>2, WorldRelease, AssignRelease
  <1>3. ASSUME NEW r \in Releases,
               \/ Dispatch(r) \/ Start(r) \/ Stop(r)
               \/ Validate(r) \/ Recheck(r) \/ Migrate(r) \/ Build(r) \/ StageArtifact(r)
               \/ Smoke(r) \/ FinalRecheck(r) \/ Promote(r)
        PROVE  ReleaseInv'
    BY <1>3, DispatchRelease, PassesRelease, FillsRelease, PromoteRelease
  <1> QED BY <1>1, <1>2, <1>3 DEF ReleaseNext

\* The invariant holds in every reachable state, for all bounds.
THEOREM ReleaseInvariance == ReleaseSpec => []ReleaseInv
  BY InitRelease, StepRelease, PTL DEF ReleaseSpec

\* Whatever lands on main, whatever settings change and however many dispatches pile
\* up, the domains never go back on main, nor ahead of the migrations.
THEOREM OnlyAdvance == ReleaseSpec => ReleasesOnlyAdvance
  <1>1. ASSUME ReleaseInv, ReleaseInv', [ReleaseNext]_releaseVars
        PROVE  [live'.sha >= live.sha /\ live'.sha <= schema']_releaseVars
    <2>1. live.sha \in Nat /\ live'.sha \in Nat
      <3>1. live \in Published /\ live' \in Published
        BY <1>1 DEF ReleaseInv, ReleaseTypeOK
      <3> QED BY <3>1 DEF Published
    <2>2. live'.sha <= schema'
      BY <1>1 DEF ReleaseInv, PublishedInOrder
    <2>3. live' = live \/ AssignDomains
      BY <1>1
      DEF ReleaseNext, releaseVars, Merge, ChangeSettings, Dispatch, Start, Stop, Validate,
          Recheck, Migrate, Build, StageArtifact, Smoke, FinalRecheck, Promote
    <2>4. live.sha <= live'.sha
      BY <1>1, <2>1, <2>3, AssignRelease
    <2> QED BY <2>1, <2>2, <2>4
  <1> QED BY <1>1, ReleaseInvariance, PTL DEF ReleaseSpec, ReleasesOnlyAdvance

\* What the domains serve is in the stage that was dispatched, canonical for the site,
\* complete, and with a server that starts.
THEOREM AsItWasDispatched == ReleaseSpec => []LiveIsAsDispatched
  <1>1. ReleaseInv => LiveIsAsDispatched
    BY DEF ReleaseInv, PublishedInOrder, AsDispatched, LiveIsAsDispatched
  <1> QED BY <1>1, ReleaseInvariance, PTL

-----------------------------------------------------------------------------
(* The launch command                                                      *)

Commands ==
    [pc : {"dry run", "accepted", "rejected", "ambiguous", "production", "sending"},
     settings : LaunchSettings, file : Files, fingerprint : ReleaseNotes \cup {"none"}]

LaunchTypeOK ==
    /\ releaseFile \in Files
    /\ commandLine = NoCommand \/ commandLine \in Commands
    /\ received \subseteq ReleaseNotes
    /\ fingerprints \subseteq ReleaseNotes
    /\ announced \in Seq(ReleaseNotes)

\* A fingerprint is worth what was mailed before it was printed, and a command holds
\* what it read and was given at its start.
LaunchInv ==
    /\ LaunchTypeOK
    /\ fingerprints \subseteq received
    /\ commandLine.pc = "accepted" => commandLine.file.release \in received
    /\ commandLine.pc = "production" =>
          commandLine.fingerprint \in fingerprints \cup {"none"}
    /\ OnlyReviewedReleasesGoOut

-----------------------------------------------------------------------------
\* The invariant holds before any command.
LEMMA InitLaunch == LaunchInit => LaunchInv
  BY DEF LaunchInit, LaunchInv, LaunchTypeOK, NoCommand, OnlyReviewedReleasesGoOut

\* A command starts with the file of this moment and a fingerprint already printed.
LEMMA StartLaunch ==
    ASSUME LaunchInv, EditFile \/ DryRun \/ ProductionRun \/ CommandFails
    PROVE  LaunchInv'
  <1>1. CASE EditFile
    BY <1>1 DEF EditFile, LaunchInv, LaunchTypeOK, OnlyReviewedReleasesGoOut
  <1>2. ASSUME NEW pc \in {"dry run", "production"}, NEW s \in LaunchSettings,
               NEW f \in fingerprints \cup {"none"}, ReadFile(pc, s, f)
        PROVE  LaunchInv'
    <2>1. commandLine' = NoCommand
          \/ commandLine' = [pc |-> pc, settings |-> s, file |-> releaseFile,
                             fingerprint |-> f]
      BY <1>2 DEF ReadFile
    <2> QED BY <1>2, <2>1
        DEF ReadFile, LaunchInv, LaunchTypeOK, Commands, NoCommand,
            OnlyReviewedReleasesGoOut
  <1>3. CASE CommandFails
    BY <1>3 DEF CommandFails, NoCommand, LaunchInv, LaunchTypeOK, OnlyReviewedReleasesGoOut
  <1> QED BY <1>1, <1>2, <1>3 DEF DryRun, ProductionRun

\* A dry run prints the fingerprint of what the operator has received.
LEMMA DryRunLaunch ==
    ASSUME LaunchInv, DryRunMail \/ DryRunPrints
    PROVE  LaunchInv'
  <1>1. CASE DryRunMail
    <2>1. commandLine \in Commands
      <3>1. commandLine.pc = "dry run"
        BY <1>1 DEF DryRunMail
      <3>2. NoCommand.pc = "idle"
        BY DEF NoCommand
      <3>3. commandLine # NoCommand
        BY <3>1, <3>2
      <3> QED BY <3>3 DEF LaunchInv, LaunchTypeOK
    <2>2. PICK result \in {"accepted", "rejected", "ambiguous"}, delivered \in BOOLEAN :
            /\ result = "accepted" => delivered
            /\ received' = received
                  \cup (IF delivered THEN {commandLine.file.release} ELSE {})
            /\ commandLine' = [commandLine EXCEPT !.pc = result]
      BY <1>1 DEF DryRunMail
    <2>3. commandLine' \in Commands /\ commandLine'.file = commandLine.file
          /\ commandLine'.pc = result
      BY <2>1, <2>2 DEF Commands
    <2>4. commandLine.file.release \in ReleaseNotes
      BY <2>1 DEF Commands, Files
    <2>5. received \subseteq received' /\ received' \subseteq ReleaseNotes
      BY <2>2, <2>4 DEF LaunchInv, LaunchTypeOK
    <2>6. result = "accepted" => commandLine.file.release \in received'
      BY <2>2
    <2>7. UNCHANGED <<releaseFile, fingerprints, announced>>
      BY <1>1 DEF DryRunMail
    <2> QED BY <2>3, <2>5, <2>6, <2>7
        DEF LaunchInv, LaunchTypeOK, OnlyReviewedReleasesGoOut
  <1>2. CASE DryRunPrints
    <2>1. commandLine.file.release \in received
          /\ fingerprints' = fingerprints \cup {commandLine.file.release}
      BY <1>2 DEF DryRunPrints, DryRunAccepted, Fingerprint, LaunchInv
    <2> QED BY <1>2, <2>1
        DEF DryRunPrints, NoCommand, LaunchInv, LaunchTypeOK, OnlyReviewedReleasesGoOut
  <1> QED BY <1>1, <1>2

\* A production run goes past its gate only with a printed fingerprint of its own file.
LEMMA ProductionStartsLaunch ==
    ASSUME LaunchInv, ProductionStarts
    PROVE  LaunchInv'
  <1>1. commandLine \in Commands
    BY DEF ProductionStarts, LaunchInv, LaunchTypeOK, NoCommand
  <1>2. commandLine.file.release \in ReleaseNotes
    BY <1>1 DEF Commands, Files
  <1>3. commandLine.file.release \in fingerprints
    BY <1>2, LaunchAssumption
    DEF ProductionStarts, FingerprintMatches, Fingerprint, LaunchInv
  <1>4. commandLine' \in Commands /\ commandLine'.file = commandLine.file
        /\ commandLine'.pc = "sending"
    BY <1>1 DEF ProductionStarts, Commands
  <1> QED BY <1>3, <1>4
      DEF ProductionStarts, LaunchInv, LaunchTypeOK, OnlyReviewedReleasesGoOut

\* Every further subscriber is told the same.
LEMMA ProductionSendsLaunch ==
    ASSUME LaunchInv, ProductionSends
    PROVE  LaunchInv'
  <1> DEFINE release == commandLine.file.release
  <1>1. release \in received /\ release \in ReleaseNotes
    BY DEF ProductionSends, LaunchInv, LaunchTypeOK, OnlyReviewedReleasesGoOut
  <1>2. /\ announced' \in Seq(ReleaseNotes)
        /\ \A i \in DOMAIN announced' : announced'[i] = release
                              \/ (i \in DOMAIN announced /\ announced'[i] = announced[i])
    <2>1. announced \in Seq(ReleaseNotes) /\ announced' = Append(announced, release)
      BY DEF ProductionSends, LaunchInv, LaunchTypeOK
    <2> HIDE DEF release
    <2>2. announced' \in Seq(ReleaseNotes)
      BY <1>1, <2>1
    <2>3. ASSUME NEW i \in DOMAIN announced'
          PROVE  announced'[i] = release
                 \/ (i \in DOMAIN announced /\ announced'[i] = announced[i])
      <3>1. DOMAIN announced' = 1..(Len(announced) + 1) /\ DOMAIN announced = 1..Len(announced)
        BY <2>1, <2>2, <1>1
      <3>2. CASE i = Len(announced) + 1
        <4>1. announced'[i] = release
          BY <2>1, <3>2, <1>1
        <4> QED BY <4>1
      <3>3. CASE i \in 1..Len(announced)
        <4>1. announced'[i] = announced[i]
          BY <2>1, <3>1, <3>3, <1>1
        <4>2. i \in DOMAIN announced
          BY <3>1, <3>3
        <4> QED BY <4>1, <4>2
      <3> QED BY <2>1, <3>1, <3>2, <3>3
    <2> QED BY <2>2, <2>3
  <1> QED BY <1>1, <1>2
      DEF ProductionSends, LaunchInv, LaunchTypeOK, OnlyReviewedReleasesGoOut

-----------------------------------------------------------------------------
\* A subscriber is only told what the operator received in a dry run before, from a
\* file the schema accepts, for any number of releases, edits, runs and mails.
THEOREM ReviewedReleases == LaunchGateSpec => []OnlyReviewedReleasesGoOut
  <1>1. ASSUME LaunchInv, [LaunchGateNext]_launchVars
        PROVE  LaunchInv'
    <2>1. CASE UNCHANGED launchVars
      BY <1>1, <2>1 DEF launchVars, LaunchInv, LaunchTypeOK, OnlyReviewedReleasesGoOut
    <2> QED BY <1>1, <2>1, StartLaunch, DryRunLaunch, ProductionStartsLaunch,
               ProductionSendsLaunch
        DEF LaunchGateNext
  <1>2. LaunchInv => OnlyReviewedReleasesGoOut
    BY DEF LaunchInv
  <1> QED BY <1>1, <1>2, InitLaunch, PTL DEF LaunchGateSpec

-----------------------------------------------------------------------------
(* The audit of the repository                                             *)

Intents == {"production", "sandbox", "exempt"}
Calls   == [isMember : BOOLEAN, intent : Intents \cup {"none"},
            workflows : {"none", "ci", "others"}]
ProductionCalls == {c \in Calls : c.intent \in {"none", "production"}}
ExemptCalls     == {c \in Calls : c.isMember /\ c.intent = "exempt"}
MemberCalls     == {c \in Calls : c.isMember /\ c.intent # "none"}

\* Until the root has been graded, nothing is known; from then on only members are.
AuditTypeOK ==
    /\ toAudit \in Seq(Calls)
    /\ ciRed \in BOOLEAN /\ unvisited \in BOOLEAN /\ defective \in BOOLEAN
    /\ auditExit \in {-1, 0, 1}
    /\ rootIntent = "none" => toAudit = <<Call(FALSE, "none", "none")>> /\ ~ciRed
    /\ rootIntent # "none" => toAudit \in Seq(MemberCalls)

\* Where only production is claimed, it is inherited, and red means a defect.
AllProduction ==
    claims \subseteq {"production"} =>
        /\ toAudit \in Seq(ProductionCalls)
        /\ ciRed <=> defective
        /\ unvisited => ciRed

\* Below an exempt root that no member contradicts, nothing is graded.
AllExempt ==
    rootIntent = "exempt" /\ claims \subseteq {"exempt"} =>
        toAudit \in Seq(ExemptCalls) /\ ~ciRed

AuditInv ==
    /\ AuditTypeOK /\ AllProduction /\ AllExempt
    /\ auditExit = 0 => ~ciRed
    /\ auditExit = 1 => ciRed
    /\ auditExit # -1 => toAudit = <<>>

\* Four values are finitely many.
LEMMA FourAreFinite ==
    ASSUME NEW a, NEW b, NEW c, NEW d
    PROVE  IsFiniteSet({a, b, c, d})
  <1>1. IsFiniteSet({a}) /\ IsFiniteSet({b}) /\ IsFiniteSet({c}) /\ IsFiniteSet({d})
    BY FS_Singleton
  <1>2. IsFiniteSet({a} \cup {b}) /\ IsFiniteSet({c} \cup {d})
    BY <1>1, FS_Union
  <1>3. IsFiniteSet(({a} \cup {b}) \cup ({c} \cup {d}))
    BY <1>2, FS_Union
  <1>4. {a, b, c, d} = ({a} \cup {b}) \cup ({c} \cup {d})
    OBVIOUS
  <1> QED
    BY <1>3, <1>4

\* A directory's kind is one of the signatures, or none, or more than one.
LEMMA Detected ==
    ASSUME NEW f, NEW isMember
    PROVE  /\ DetectKind(f, isMember) \in Signed \cup {"unknown", "ambiguous"}
           /\ IsWorkspaceRoot(f) => DetectKind(f, isMember) \in {"workspace", "ambiguous"}
  <1> DEFINE hits == {kind \in Signed : Fits(kind, f, isMember)}
  <1>0. DetectKind(f, isMember) =
           CASE hits = {}             -> "unknown"
             [] Cardinality(hits) > 1 -> "ambiguous"
             [] OTHER                 -> CHOOSE kind \in hits : TRUE
    BY DEF DetectKind
  <1>1. CASE hits = {}
    <2>1. DetectKind(f, isMember) = "unknown"
      <3>1. ~(Cardinality(hits) > 1)
        BY <1>1, FS_EmptySet
      <3> QED
        BY <1>0, <1>1, <3>1, Zenon
    <2>2. ~IsWorkspaceRoot(f)
      BY <1>1 DEF Fits, Signed
    <2> QED
      BY <2>1, <2>2
  <1>2. CASE hits # {} /\ Cardinality(hits) > 1
    BY <1>2 DEF DetectKind
  <1>3. CASE hits # {} /\ ~(Cardinality(hits) > 1)
    <2>1. DetectKind(f, isMember) = CHOOSE kind \in hits : TRUE
      BY <1>3 DEF DetectKind
    <2>2. DetectKind(f, isMember) \in hits
      BY <1>3, <2>1
    <2>3. ASSUME IsWorkspaceRoot(f) PROVE DetectKind(f, isMember) = "workspace"
      <3>1. "workspace" \in hits
        BY <2>3 DEF Fits, Signed
      <3>2. IsFiniteSet(Signed)
        <4>1. Signed = {"next-app", "expo-app", "cdk-service", "lambda-service"}
                         \cup {"workspace", "package", "cli", "cdk-library"}
                         \cup {"static-site", "docs-repo", "toolkit", "toolkit"}
          BY DEF Signed, AppKinds
        <4> QED
          BY <4>1, FourAreFinite, FS_Union
      <3>3. IsFiniteSet(hits)
        BY <3>2, FS_Subset
      <3>4. Cardinality(hits) \in Nat
        BY <3>3, FS_CardinalityType
      <3>5. Cardinality(hits) = 1
        BY <1>3, <3>3, <3>4, FS_EmptySet
      <3>6. \E x : hits = {x}
        BY <3>3, <3>5, FS_Singleton
      <3> QED
        BY <2>2, <3>1, <3>6
    <2> QED
      BY <2>2, <2>3
  <1> QED
    BY <1>1, <1>2, <1>3

\* A scope that claims nothing but production is red exactly when it is defective, and
\* is when its members are not called for.
LEMMA ProductionScope ==
    ASSUME NEW f, NEW isMember \in BOOLEAN, NEW d \in Declarations, NEW workflows,
           NEW wrong \in {"nothing", "lockfile", "claude-md"},
           isMember => wrong = "nothing",
           d.kind # "other", d.pin = "none"
    PROVE  LET detected == DetectKind(f, isMember)
               kind     == EffectiveKind(detected, d)
               red      == Applicable(kind, "production", isMember)
                              \cap RedChecks(detected, d, workflows, wrong)
           IN  /\ red # {} <=> Defective(detected, isMember, workflows, wrong)
               /\ IsWorkspaceRoot(f) /\ kind # "workspace" => red # {}
  <1> DEFINE detected == DetectKind(f, isMember)
             red      == Applicable(detected, "production", isMember)
                            \cap RedChecks(detected, d, workflows, wrong)
  <1>1. EffectiveKind(detected, d) = detected
    BY DEF EffectiveKind
  <1>2. /\ detected \in Signed \cup {"unknown", "ambiguous"}
        /\ IsWorkspaceRoot(f) => detected \in {"workspace", "ambiguous"}
    BY Detected
  <1> HIDE DEF detected
  <1>3. \A check : check \in red <=>
           \/ check \in {"lockfile", "claude-md"} /\ check = wrong
              /\ detected \in AnyKind /\ ~isMember
           \/ check = "ci-workflow" /\ workflows # "ci"
              /\ detected \in AppKinds \cup {"workspace"}
           \/ check = "kind-resolvable" /\ detected = "ambiguous"
    BY DEF Applicable, RedChecks
  <1> HIDE DEF red
  <1>4. detected = "ambiguous" => red # {}
    BY <1>3
  <1>5. ASSUME ~isMember, detected # "unknown", wrong # "nothing"
        PROVE  red # {}
    <2>1. CASE detected = "ambiguous"
      BY <1>4, <2>1
    <2>2. CASE detected # "ambiguous"
      <3>1. wrong \in red
        BY <1>2, <1>3, <1>5, <2>2 DEF AnyKind
      <3> QED
        BY <3>1
    <2> QED
      BY <2>1, <2>2
  <1>6. ASSUME detected \in AppKinds \cup {"workspace"}, workflows # "ci"
        PROVE  red # {}
    BY <1>3, <1>6
  <1>7. ASSUME red # {}
        PROVE  Defective(detected, isMember, workflows, wrong)
    <2>1. detected \in AnyKind => detected # "unknown"
      BY DEF AnyKind, Signed, AppKinds
    <2> QED
      BY <1>3, <1>7, <2>1 DEF Defective
  <1>8. red # {} <=> Defective(detected, isMember, workflows, wrong)
    BY <1>4, <1>5, <1>6, <1>7 DEF Defective
  <1>9. IsWorkspaceRoot(f) /\ detected # "workspace" => red # {}
    BY <1>2, <1>4
  <1> QED
    BY <1>1, <1>8, <1>9 DEF detected, red

\* A sequence of one value, and one of a value repeated.
LEMMA OneValue ==
    ASSUME NEW S, NEW c \in S, NEW n \in Nat
    PROVE  /\ <<c>> \in Seq(S) /\ Head(<<c>>) = c /\ Tail(<<c>>) = <<>>
           /\ <<>> \in Seq(S)
           /\ [i \in 1..n |-> c] \in Seq(S)
  <1>1. <<c>> \in Seq(S)
    OBVIOUS
  <1>2. Head(<<c>>) = c
    OBVIOUS
  <1>3. Tail(<<c>>) = <<>>
    <2>1. Len(<<c>>) = 1
      OBVIOUS
    <2>2. Tail(<<c>>) \in Seq(S) /\ Len(Tail(<<c>>)) = 0
      BY <1>1, <2>1, HeadTailProperties
    <2> QED
      BY <2>2, EmptySeq
  <1>4. [i \in 1..n |-> c] \in [1..n -> S]
    OBVIOUS
  <1>5. [i \in 1..n |-> c] \in Seq(S)
    BY <1>4, SeqDef
  <1> QED
    BY <1>1, <1>2, <1>3, <1>5, EmptySeq

\* One call keeps the invariant, whatever the scope shows and declares.
LEMMA AuditScopeKeeps ==
    ASSUME AuditInv, toAudit # <<>>,
           NEW f, NEW d \in Declarations, NEW own \in {"none", "ci", "others"},
           NEW wrong \in {"nothing", "lockfile", "claude-md"},
           Head(toAudit).isMember => wrong = "nothing",
           NEW members \in Nat, members = 0 <=> ~IsWorkspaceRoot(f),
           AuditScope(f, d, own, wrong, members), UNCHANGED auditExit
    PROVE  AuditInv'
  <1> DEFINE call      == Head(toAudit)
             intent    == Intent(d, call.intent)
             detected  == DetectKind(f, call.isMember)
             kind      == EffectiveKind(detected, d)
             workflows == SeenWorkflows(own, call.workflows, call.isMember)
             one       == Call(TRUE, intent, workflows)
             calls     == IF kind # "workspace" THEN <<>>
                          ELSE [i \in 1..members |-> Call(TRUE, intent, workflows)]
             red       == Applicable(kind, intent, call.isMember)
                             \cap RedChecks(detected, d, workflows, wrong)
             wrongs    == Defective(detected, call.isMember, workflows, wrong)
             declared  == IF d = Undeclared THEN {}
                          ELSE {d.intent} \cup {c \in {d.kind} : c = "other"}
                                          \cup {"pin" : p \in {d.pin} \ {"none"}}
  <1>1. /\ ciRed' = (ciRed \/ red # {})
        /\ toAudit' = calls \o Tail(toAudit)
        /\ rootIntent' = IF call.isMember THEN rootIntent ELSE intent
        /\ claims' = claims \cup declared
        /\ unvisited' = (unvisited \/ Len(calls) # members)
        /\ defective' = (defective \/ wrongs)
    BY DEF AuditScope
  <1>2. /\ call \in Calls /\ Tail(toAudit) \in Seq(Calls)
        /\ d # Undeclared => d.intent \in Intents
        /\ d = Undeclared => d.kind = "none" /\ d.pin = "none"
    <2>1. toAudit \in Seq(Calls)
      BY DEF AuditInv, AuditTypeOK
    <2>2. call \in Calls /\ Tail(toAudit) \in Seq(Calls)
      BY <2>1, HeadTailProperties
    <2>3. d # Undeclared => d.intent \in Intents
      BY DEF Declarations, Intents
    <2>4. d = Undeclared => d.kind = "none" /\ d.pin = "none"
      BY DEF Undeclared
    <2> QED
      BY <2>2, <2>3, <2>4
  <1>3. /\ intent \in Intents
        /\ workflows \in {"none", "ci", "others"}
        /\ one \in MemberCalls
    <2>1. intent \in Intents
      BY <1>2 DEF Intent, Calls, Intents
    <2>2. workflows \in {"none", "ci", "others"}
      BY <1>2 DEF SeenWorkflows, Calls
    <2> QED
      BY <2>1, <2>2 DEF MemberCalls, Call, Calls, Intents
  <1>4. ASSUME NEW S, one \in S, Tail(toAudit) \in Seq(S)
        PROVE  toAudit' \in Seq(S)
    <2>1. [i \in 1..members |-> one] \in Seq(S) /\ <<>> \in Seq(S)
      BY <1>4, OneValue
    <2>2. calls \in Seq(S)
      BY <2>1
    <2> HIDE DEF calls
    <2> QED
      BY <1>1, <1>4, <2>2
  <1>5. Len(calls) = IF kind # "workspace" THEN 0 ELSE members
    OBVIOUS
  <1> HIDE DEF calls, red, wrongs, declared, one, workflows, kind, detected, intent
  <1>6. AuditTypeOK'
    <2>1. rootIntent' # "none" /\ toAudit' \in Seq(MemberCalls)
      <3>1. CASE rootIntent = "none"
        <4>1. call.isMember = FALSE /\ Tail(toAudit) = <<>>
          <5>1. toAudit = <<Call(FALSE, "none", "none")>>
            BY <3>1 DEF AuditInv, AuditTypeOK
          <5>2. call = Call(FALSE, "none", "none") /\ Tail(toAudit) = <<>>
            BY <5>1, OneValue
          <5> QED
            BY <5>2 DEF Call
        <4>2. rootIntent' = intent /\ intent # "none"
          BY <1>1, <1>3, <4>1 DEF Intents
        <4>3. Tail(toAudit) \in Seq(MemberCalls)
          BY <4>1, EmptySeq
        <4> QED
          BY <1>3, <1>4, <4>2, <4>3
      <3>2. CASE rootIntent # "none"
        <4>1. toAudit \in Seq(MemberCalls)
          BY <3>2 DEF AuditInv, AuditTypeOK
        <4>2. Tail(toAudit) \in Seq(MemberCalls) /\ call \in MemberCalls
          BY <4>1
        <4>3. call.isMember
          BY <4>2 DEF MemberCalls
        <4> QED
          BY <1>1, <1>3, <1>4, <3>2, <4>2, <4>3
      <3> QED
        BY <3>1, <3>2
    <2>2. toAudit' \in Seq(Calls)
      <3>1. one \in Calls
        BY <1>3 DEF MemberCalls
      <3> QED
        BY <1>2, <1>4, <3>1
    <2>3. ciRed' \in BOOLEAN /\ unvisited' \in BOOLEAN /\ defective' \in BOOLEAN
      BY <1>1
    <2> QED
      BY <2>1, <2>2, <2>3 DEF AuditInv, AuditTypeOK
  <1>7. AllProduction'
    <2> SUFFICES ASSUME claims' \subseteq {"production"}
                 PROVE  /\ toAudit' \in Seq(ProductionCalls)
                        /\ ciRed' <=> defective'
                        /\ unvisited' => ciRed'
      BY DEF AllProduction
    <2>1. claims \subseteq {"production"} /\ declared \subseteq {"production"}
      BY <1>1
    <2>2. d.kind # "other" /\ d.pin = "none" /\ (d # Undeclared => d.intent = "production")
      <3>1. d = Undeclared => d.kind # "other" /\ d.pin = "none"
        BY DEF Undeclared
      <3>2. CASE d # Undeclared
        <4>1. d.intent \in declared /\ (d.kind = "other" => "other" \in declared)
              /\ (d.pin # "none" => "pin" \in declared)
          BY <3>2 DEF declared
        <4> QED
          BY <2>1, <4>1
      <3> QED
        BY <3>1, <3>2
    <2>3. /\ toAudit \in Seq(ProductionCalls)
          /\ ciRed <=> defective
          /\ unvisited => ciRed
      BY <2>1 DEF AuditInv, AllProduction
    <2>4. call \in ProductionCalls /\ Tail(toAudit) \in Seq(ProductionCalls)
      BY <2>3
    <2>5. intent = "production"
      BY <2>2, <2>4 DEF intent, Intent, ProductionCalls
    <2>6. one \in ProductionCalls
      BY <1>3, <2>5 DEF ProductionCalls, MemberCalls, one, Call
    <2>7. /\ red # {} <=> wrongs
          /\ IsWorkspaceRoot(f) /\ kind # "workspace" => red # {}
      <3>1. call.isMember \in BOOLEAN
        BY <1>2 DEF Calls
      <3> QED
        BY <2>2, <2>5, <3>1, ProductionScope
        DEF red, wrongs, kind, detected
    <2>8. Len(calls) # members => red # {}
      BY <1>5, <2>7
    <2> QED
      BY <1>1, <1>4, <2>3, <2>4, <2>6, <2>7, <2>8
  <1>8. AllExempt'
    <2> SUFFICES ASSUME rootIntent' = "exempt", claims' \subseteq {"exempt"}
                 PROVE  toAudit' \in Seq(ExemptCalls) /\ ~ciRed'
      BY DEF AllExempt
    <2>1. claims \subseteq {"exempt"} /\ declared \subseteq {"exempt"}
      BY <1>1
    <2>2. d # Undeclared => d.intent = "exempt"
      BY <2>1 DEF declared
    <2>3. intent = "exempt" /\ Tail(toAudit) \in Seq(ExemptCalls) /\ ~ciRed
      <3>1. CASE rootIntent = "none"
        <4>1. toAudit = <<Call(FALSE, "none", "none")>> /\ ~ciRed
          BY <3>1 DEF AuditInv, AuditTypeOK
        <4>2. call = Call(FALSE, "none", "none") /\ Tail(toAudit) = <<>>
          BY <4>1, OneValue
        <4>3. ~call.isMember
          BY <4>2 DEF Call
        <4>4. intent = "exempt"
          BY <1>1, <4>3
        <4> QED
          BY <4>1, <4>2, <4>4, EmptySeq
      <3>2. CASE rootIntent # "none"
        <4>1. call \in MemberCalls
          BY <3>2 DEF AuditInv, AuditTypeOK
        <4>2. rootIntent = "exempt"
          BY <1>1, <4>1 DEF MemberCalls
        <4>3. toAudit \in Seq(ExemptCalls) /\ ~ciRed
          BY <2>1, <4>2 DEF AuditInv, AllExempt
        <4>4. call \in ExemptCalls /\ Tail(toAudit) \in Seq(ExemptCalls)
          BY <4>3
        <4>5. intent = "exempt"
          BY <2>2, <4>4 DEF intent, Intent, ExemptCalls
        <4> QED
          BY <4>3, <4>4, <4>5
      <3> QED
        BY <3>1, <3>2
    <2>4. one \in ExemptCalls
      BY <1>3, <2>3 DEF ExemptCalls, MemberCalls, one, Call
    <2>5. red = {}
      BY <2>3 DEF red, Applicable
    <2> QED
      BY <1>1, <1>4, <2>3, <2>4, <2>5
  <1>9. auditExit' = -1
    BY DEF AuditInv
  <1> QED
    BY <1>6, <1>7, <1>8, <1>9 DEF AuditInv

\* What CI concludes is true of every member, at any depth and for any number of
\* scopes and features.
THEOREM AuditedToTheLast == AuditSpec => []VerdictCoversEveryMember
  <1>1. AuditInit => AuditInv
    <2> SUFFICES ASSUME AuditInit PROVE AuditInv
      OBVIOUS
    <2>1. Call(FALSE, "none", "none") \in ProductionCalls
      BY DEF Call, ProductionCalls, Calls
    <2>2. toAudit \in Seq(ProductionCalls)
      BY <2>1, OneValue DEF AuditInit
    <2>3. toAudit \in Seq(Calls)
      BY <2>2, SeqMonotonic DEF ProductionCalls
    <2>4. AuditTypeOK
      BY <2>3 DEF AuditInit, AuditTypeOK
    <2>5. AllProduction
      BY <2>2 DEF AuditInit, AllProduction
    <2>6. AllExempt /\ auditExit = -1
      BY DEF AuditInit, AllExempt
    <2> QED
      BY <2>4, <2>5, <2>6 DEF AuditInv
  <1>2. AuditInv /\ [AuditNext]_auditVars => AuditInv'
    <2>1. ASSUME AuditInv, Audit PROVE AuditInv'
      <3>1. /\ toAudit # <<>> /\ UNCHANGED auditExit
            /\ \E f \in Directories(IF Head(toAudit).isMember THEN MaxFeatures - 1
                                     ELSE MaxFeatures),
                  d \in Declarations, own \in {"none", "ci", "others"},
                  wrong \in IF Head(toAudit).isMember THEN {"nothing"}
                            ELSE {"nothing", "lockfile", "claude-md"},
                  members \in 0..(MaxScopes - scopes) :
                    /\ members = 0 <=> ~IsWorkspaceRoot(f)
                    /\ AuditScope(f, d, own, wrong, members)
        BY <2>1 DEF Audit
      <3>2. PICK f \in Directories(IF Head(toAudit).isMember THEN MaxFeatures - 1
                                    ELSE MaxFeatures),
                 d \in Declarations, own \in {"none", "ci", "others"},
                 wrong \in {"nothing", "lockfile", "claude-md"}, members \in Nat :
               /\ Head(toAudit).isMember => wrong = "nothing"
               /\ members = 0 <=> ~IsWorkspaceRoot(f)
               /\ AuditScope(f, d, own, wrong, members)
        BY <3>1
      <3> QED
        BY <2>1, <3>1, <3>2, AuditScopeKeeps
    <2>2. ASSUME AuditInv, Exit PROVE AuditInv'
      BY <2>2 DEF Exit, AuditInv, AuditTypeOK, AllProduction, AllExempt
    <2>3. ASSUME AuditInv, UNCHANGED auditVars PROVE AuditInv'
      BY <2>3 DEF auditVars, AuditInv, AuditTypeOK, AllProduction, AllExempt
    <2> QED
      BY <2>1, <2>2, <2>3 DEF AuditNext
  <1>3. AuditInv => VerdictCoversEveryMember
    BY DEF AuditInv, AuditTypeOK, AllProduction, AllExempt, VerdictCoversEveryMember
  <1> QED
    BY <1>1, <1>2, <1>3, PTL DEF AuditSpec

-----------------------------------------------------------------------------
(* The instance of the run Platform                                        *)

\* A behaviour of the instance is one of each part, which stutters unless it is followed.
LEMMA PlatformStep ==
    [PlatformNext]_platformVars =>
        /\ [TunnelNext]_tunnelVars /\ [ProxyNext]_proxyVars
        /\ [RedactionNext]_redactionVars /\ [ConfigurationNext]_configurationVars
        /\ [ReleaseNext]_releaseVars /\ [PreviewNext]_previewVars
        /\ [LaunchGateNext]_launchVars /\ [AuditNext]_auditVars
  <1> SUFFICES ASSUME [PlatformNext]_platformVars
               PROVE  /\ [TunnelNext]_tunnelVars /\ [ProxyNext]_proxyVars
                      /\ [RedactionNext]_redactionVars
                      /\ [ConfigurationNext]_configurationVars
                      /\ [ReleaseNext]_releaseVars /\ [PreviewNext]_previewVars
                      /\ [LaunchGateNext]_launchVars /\ [AuditNext]_auditVars
    OBVIOUS
  <1>1. CASE UNCHANGED platformVars
    BY <1>1 DEF platformVars
  <1>2. CASE PlatformNext
    BY <1>2 DEF PlatformNext, Others
  <1> QED
    BY <1>1, <1>2

\* The instance that the run Platform checks satisfies the specification of each of its
\* parts, so that whatever is proved of a part holds in it.
THEOREM PlatformFollowsItsParts ==
    PlatformSpec =>
        /\ TunnelSpec /\ ProxySpec /\ RedactionSpec /\ ConfigurationSpec
        /\ ReleaseSpec /\ PreviewSpec /\ LaunchGateSpec /\ AuditSpec
  <1>1. PlatformInit =>
           /\ TunnelInit /\ ProxyInit /\ RedactionInit /\ ConfigurationInit
           /\ ReleaseInit /\ PreviewInit /\ LaunchInit /\ AuditInit
    BY DEF PlatformInit
  <1> QED
    BY <1>1, PlatformStep, PTL
    DEF PlatformSpec, TunnelSpec, ProxySpec, RedactionSpec, ConfigurationSpec,
        ReleaseSpec, PreviewSpec, LaunchGateSpec, AuditSpec

\* Every safety property that the run Platform checks holds for every value of its
\* constants.
THEOREM PlatformIsSafe ==
    PlatformSpec =>
        /\ [](/\ OnlyWholeEnvelopesLeave /\ FaultsAreVisible
              /\ NegotiationIsRfc9110
              /\ AddressesGoWhole
              /\ SignupsAreGuarded
              /\ LiveIsAsDispatched
              /\ OnlyReviewedReleasesGoOut
              /\ VerdictCoversEveryMember)
        /\ ReleasesOnlyAdvance
  BY PlatformFollowsItsParts, WholeEnvelopes, VisibleFaults, Rfc9110, WholeAddresses,
     GuardedEnvironments, AsItWasDispatched, ReviewedReleases,
     AuditedToTheLast, OnlyAdvance, PTL

=============================================================================
