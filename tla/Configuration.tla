--------------------------- MODULE Configuration ---------------------------
(***************************************************************************)
(* What an environment makes of a process: the settings the parsers accept,*)
(* the origin the site takes for its own, the CAPTCHA verifier, the mail   *)
(* sender and the error reporter it is wired with, and one signup served   *)
(* under that wiring.  Blank and unset settings are the same, "unset".     *)
(***************************************************************************)
EXTENDS Naturals

\* VERCEL_ENV is free text: "other" is any value that is none of Vercel's own.  hosts
\* names which of VERCEL_URL (own) and VERCEL_PROJECT_PRODUCTION_URL are set.
Environments ==
    [vercel   : {"unset", "development", "preview", "production", "other"},
     hosts    : {"none", "own", "production", "both"},
     pipeline : {"unset", "off", "on"},     \* CI, NODE_ENV, E2E_NEON_HTTP_ENDPOINT
     stage    : {"unset", "early-access", "launched", "misspelt"},
     site     : {"unset", "site", "malformed"},     \* SITE_URL
     download : {"unset", "store", "insecure"},     \* CORPUS_DOWNLOAD_URL
     server   : {"complete", "broken"},     \* database URLs, score threshold
     captcha  : {"complete", "site key only", "no site key"},
     fake     : {"unset", "1", "other"},    \* CORPUS_FAKE_CAPTCHA
     mail     : {"complete", "partial"},
     dsn      : {"unset", "set"}]

-----------------------------------------------------------------------------
Stage(env) == IF env.stage = "unset" THEN "early-access" ELSE env.stage

\* Of both hosts a Production process takes the project's, any other its own; with one
\* of them unset, each falls back to the other.
DeploymentHostname(env) ==
    CASE env.hosts = "none"       -> "none"
      [] env.hosts = "own"        -> "own url"
      [] env.hosts = "production" -> "production alias"
      [] env.hosts = "both"       -> IF env.vercel = "production" THEN "production alias"
                                     ELSE "own url"

SiteUrl(env) ==
    CASE env.site \in {"site", "elsewhere"}  -> env.site
      [] DeploymentHostname(env) # "none"    -> DeploymentHostname(env)
      [] OTHER                               -> "localhost"

\* loadSiteConfig throws.
SiteConfigFails(env) ==
    \/ env.site = "malformed"
    \/ Stage(env) = "misspelt"
    \/ Stage(env) = "launched" /\ env.download \notin {"store", "elsewhere"}

\* loadServerConfig throws.
ServerConfigFails(env) == SiteConfigFails(env) \/ env.server = "broken"

IsPipelineRun(env) == env.pipeline = "on"

-----------------------------------------------------------------------------
\* Mutant: not being Production is enough for the fake.
FakeByAbsence(env) ==
    IF env.vercel # "production" THEN "fake"
    ELSE IF env.fake # "unset" \/ env.captcha # "complete" THEN "throws" ELSE "google"

ProvideExternalApi(env) ==
    CASE env.vercel = "unset"      -> IF env.fake = "1" THEN "fake" ELSE "throws"
      [] env.vercel = "production" -> IF env.fake # "unset" \/ env.captcha # "complete"
                                      THEN "throws" ELSE "google"
      [] OTHER                     -> "fake"

ProvideProductionNotifications(env) ==
    IF env.mail = "complete" THEN "resend" ELSE "throws"

\* Production first: it fails closed, whatever else the environment says.
ProvideNotifications(env) ==
    CASE env.vercel = "production"                     -> ProvideProductionNotifications(env)
      [] env.vercel # "production" /\ IsPipelineRun(env) -> "fake"
      [] OTHER -> IF env.mail = "complete" THEN "resend" ELSE "fake"

ProvideObservability(env) ==
    IF env.dsn = "set" /\ ~IsPipelineRun(env) THEN "sentry" ELSE "noop"

BuildContextFails(env) ==
    \/ ServerConfigFails(env)
    \/ ProvideExternalApi(env) = "throws"
    \/ ProvideNotifications(env) = "throws"

\* The site key the landing page is rendered with: without it the form sends the
\* fixed token of the fake.
PageAsksGoogle(env) ==
    env.vercel = "production" /\ env.captcha \in {"complete", "site key only"}

-----------------------------------------------------------------------------
\* What Google answers for a token: nothing usable, or an assessment.
Assessments ==
    [readable : {FALSE}]
    \cup [readable : {TRUE}, valid : BOOLEAN, action : {"early_access_signup", "other"},
          confident : BOOLEAN,
          hostname : {"site", "elsewhere", "production alias", "own url", "localhost"}]

\* GoogleRecaptchaAdapter.verify, and the fake.
Verify(env, token, a) ==
    IF ProvideExternalApi(env) = "fake" THEN token = "test-pass"
    ELSE /\ a.readable
         /\ a.valid /\ a.action = "early_access_signup" /\ a.confident
         /\ a.hostname = SiteUrl(env)

VARIABLES
    environment,    \* <<>> before the process has one
    assessed,       \* what Google said of the signup's token, <<>> if it was not asked
    signupAnswer,   \* the state answered
    reportedTo,     \* the reporter that was handed a failure
    confirmation    \* the mail: <<[sender, origin of its link]>>, or <<>>

configurationVars == <<environment, assessed, signupAnswer, reportedTo, confirmation>>

ConfigurationInit ==
    /\ environment = <<>> /\ assessed = <<>>
    /\ signupAnswer = "none" /\ reportedTo = "none" /\ confirmation = <<>>

Configure ==
    /\ environment = <<>>
    /\ \E env \in Environments : environment' = <<env>>
    /\ UNCHANGED <<assessed, signupAnswer, reportedTo, confirmation>>

\* getErrorReporter comes first, so that a context that cannot be built is reported.
WiringFails ==
    /\ environment # <<>> /\ signupAnswer = "none"
    /\ BuildContextFails(environment[1])
    /\ reportedTo' = ProvideObservability(environment[1])
    /\ signupAnswer' = "retry"
    /\ UNCHANGED <<environment, assessed, confirmation>>

SignupClosed ==
    /\ environment # <<>> /\ signupAnswer = "none"
    /\ ~BuildContextFails(environment[1])
    /\ Stage(environment[1]) # "early-access"
    /\ signupAnswer' = "closed"
    /\ UNCHANGED <<environment, assessed, reportedTo, confirmation>>

\* Google accepts none of the fake's tokens.
Tokens(a) == IF a.readable /\ a.valid THEN {"google"} ELSE {"google", "test-pass"}

\* A signup with a token; a rejected one is the verifier's work, and not reported.
\* The row it creates and the outcome of its mail are the table's matter.
Signup ==
    LET env == environment[1]
    IN  /\ environment # <<>> /\ signupAnswer = "none"
        /\ ~BuildContextFails(env) /\ Stage(env) = "early-access"
        /\ \E a \in Assessments : \E token \in Tokens(a) :
             /\ assessed' = IF ProvideExternalApi(env) = "google" THEN <<a>> ELSE <<>>
             /\ IF Verify(env, token, a)
                THEN /\ signupAnswer' = "success"
                     /\ confirmation' = <<[sender |-> ProvideNotifications(env),
                                           origin |-> SiteUrl(env)]>>
                ELSE signupAnswer' = "retry" /\ UNCHANGED confirmation
        /\ UNCHANGED <<environment, reportedTo>>

ConfigurationNext ==
    Configure \/ WiringFails \/ SignupClosed \/ Signup

ConfigurationSpec == ConfigurationInit /\ [][ConfigurationNext]_configurationVars

-----------------------------------------------------------------------------
\* No environment that is not told to mails strangers for an unverified signup: a real
\* mail follows an assessment of this very site, or leaves a process whose VERCEL_ENV
\* names something else than Production, or one off Vercel whose operator asked for the
\* fake; Production fakes nothing; a pipeline outside Production mails nobody; no process
\* that knows its own host hands out links to the production host, unless it is
\* Production; and the token that the page of a working environment obtains is the kind
\* its own server verifies (external-api.ts:14-27, server-env.ts:76-80).
SignupsAreGuarded ==
    environment # <<>> =>
        LET env == environment[1]
        IN  /\ confirmation # <<>> =>
                 /\ confirmation[1].sender = "resend" =>
                      \/ /\ assessed # <<>> /\ assessed[1].valid /\ assessed[1].confident
                         /\ assessed[1].hostname = confirmation[1].origin
                      \/ env.vercel \in {"development", "preview", "other"}
                      \/ env.vercel = "unset" /\ env.fake = "1"
                 /\ env.vercel = "production" =>
                      confirmation[1].sender = "resend" /\ assessed # <<>>
                 /\ env.vercel # "production" =>
                      /\ env.pipeline = "on" => confirmation[1].sender = "fake"
                      /\ env.hosts \in {"own", "both"} =>
                            confirmation[1].origin # "production alias"
            /\ ~BuildContextFails(env) =>
                 (PageAsksGoogle(env) <=> ProvideExternalApi(env) = "google")
            /\ BuildContextFails(env) => signupAnswer \in {"none", "retry"}

=============================================================================
