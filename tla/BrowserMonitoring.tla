------------------------- MODULE BrowserMonitoring -------------------------
(***************************************************************************)
(* The start-up of the browser's error reporting: instrumentation-client   *)
(* loads the SDK after the page and on every router transition, an error   *)
(* boundary loads it on demand, and sentry-client starts it at most once.  *)
(* A fetch of the chunk may fail, and so may init.                         *)
(***************************************************************************)
EXTENDS Naturals

CONSTANTS Transitions,  \* router transitions of the visit
          RenderErrors  \* errors that reach a boundary

VARIABLES
    enabled,     \* options.enabled; "unset" before the page opens
    client,      \* the promise kept by loadSentry: none, pending, resolved
    chunk,       \* the module has been fetched
    started,     \* the flag of sentry-client
    inits,       \* the inits that returned
    startup,     \* startAfterLoad: before, waiting, retry, done, "gave up"
    retriesLeft,
    transition,  \* [Transitions -> none, waiting, recorded, lost]
    report,      \* [RenderErrors -> none, importing, captured, dropped, lost]
    failures     \* fetches and inits that failed

sentryVars == <<enabled, client, chunk, started, inits, startup, retriesLeft,
                transition, report, failures>>

SentryInit ==
    /\ enabled = "unset"
    /\ client = "none" /\ chunk = FALSE /\ started = FALSE /\ inits = 0
    /\ startup = "before" /\ retriesLeft = 1
    /\ transition = [t \in Transitions |-> "none"]
    /\ report = [e \in RenderErrors |-> "none"]
    /\ failures = 0

-----------------------------------------------------------------------------
OpenPage(setting) ==
    /\ enabled = "unset"
    /\ enabled' = setting
    /\ UNCHANGED <<client, chunk, started, inits, startup, retriesLeft, transition,
                   report, failures>>

\* client ??= import(...)
LoadSentry == client' = IF client = "none" THEN "pending" ELSE client

\* The flag as it stands when init has thrown.
\* Mutant: it was raised before the call.
RaisedBeforeInit(flag) == TRUE

StartedAfterThrow(flag) == flag

\* ensureSentryStarted in a module that has been fetched: a no-op, an init that
\* returns, or an init that throws.
EnsureNoOp == started \/ enabled # "on"

InitReturns ==
    /\ ~EnsureNoOp
    /\ started' = TRUE /\ inits' = inits + 1
    /\ UNCHANGED failures

InitThrows ==
    /\ ~EnsureNoOp
    /\ started' = StartedAfterThrow(started)
    /\ failures' = failures + 1
    /\ UNCHANGED inits

EnsureStarted ==
    \/ EnsureNoOp /\ UNCHANGED <<started, inits, failures>>
    \/ InitReturns

-----------------------------------------------------------------------------
\* The page has loaded and is idle, or has been waited for long enough; then, or
\* thirty seconds after a failure, the start-up asks for the client.
StartAfterLoad ==
    /\ enabled = "on"
    /\ \/ startup = "before" /\ UNCHANGED retriesLeft
       \/ startup = "retry" /\ retriesLeft' = retriesLeft - 1
    /\ LoadSentry
    /\ startup' = IF client = "resolved" THEN "done" ELSE "waiting"
    /\ UNCHANGED <<enabled, chunk, started, inits, transition, report, failures>>

RouterTransition(t) ==
    /\ enabled = "on" /\ transition[t] = "none"
    /\ LoadSentry
    /\ transition' = [transition EXCEPT
                        ![t] = IF client = "resolved" THEN "recorded" ELSE "waiting"]
    /\ UNCHANGED <<enabled, chunk, started, inits, startup, retriesLeft, report, failures>>

\* Everything that waits for the promise goes on with it.
ClientLoads ==
    /\ client = "pending"
    /\ EnsureStarted
    /\ client' = "resolved" /\ chunk' = TRUE
    /\ startup' = IF startup = "waiting" THEN "done" ELSE startup
    /\ transition' = [t \in Transitions |->
                        IF transition[t] = "waiting" THEN "recorded" ELSE transition[t]]
    /\ UNCHANGED <<enabled, retriesLeft, report>>

\* Mutant: the rejected promise stays cached.
CachedAfterFailure == "rejected"

\* The catch resets client and throws on.
ClientAfterFailure == "none"

ClientFails ==
    /\ client = "pending"
    /\ \/ ~chunk /\ failures' = failures + 1 /\ UNCHANGED <<chunk, started, inits>>
       \/ InitThrows /\ chunk' = TRUE
    /\ client' = ClientAfterFailure
    /\ startup' = IF startup # "waiting" THEN startup
                  ELSE IF retriesLeft > 0 THEN "retry" ELSE "gave up"
    /\ transition' = [t \in Transitions |->
                        IF transition[t] = "waiting" THEN "lost" ELSE transition[t]]
    /\ UNCHANGED <<enabled, retriesLeft, report>>

\* reportClientRenderError: an import of its own, whatever the setting.
RenderError(e) ==
    /\ enabled # "unset" /\ report[e] = "none"
    /\ report' = [report EXCEPT ![e] = "importing"]
    /\ UNCHANGED <<enabled, client, chunk, started, inits, startup, retriesLeft,
                   transition, failures>>

\* captureBoundaryError starts the SDK first; without a client it drops the error.
BoundaryCaptures(e) ==
    /\ report[e] = "importing"
    /\ EnsureStarted
    /\ chunk' = TRUE
    /\ report' = [report EXCEPT ![e] = IF started' THEN "captured" ELSE "dropped"]
    /\ UNCHANGED <<enabled, client, startup, retriesLeft, transition>>

BoundaryFails(e) ==
    /\ report[e] = "importing"
    /\ \/ ~chunk /\ failures' = failures + 1 /\ UNCHANGED <<chunk, started, inits>>
       \/ InitThrows /\ chunk' = TRUE
    /\ report' = [report EXCEPT ![e] = "lost"]
    /\ UNCHANGED <<enabled, client, startup, retriesLeft, transition>>

SentryNext ==
    \/ \E setting \in {"on", "off"} : OpenPage(setting)
    \/ StartAfterLoad
    \/ \E t \in Transitions : RouterTransition(t)
    \/ ClientLoads \/ ClientFails
    \/ \E e \in RenderErrors : RenderError(e) \/ BoundaryCaptures(e) \/ BoundaryFails(e)

\* The load event and the retry's timer come, and a fetch ends one way or the other.
SentryFairness ==
    /\ WF_sentryVars(StartAfterLoad)
    /\ WF_sentryVars(ClientLoads \/ ClientFails)
    /\ \A e \in RenderErrors : WF_sentryVars(BoundaryCaptures(e) \/ BoundaryFails(e))

SentrySpec == SentryInit /\ [][SentryNext]_sentryVars /\ SentryFairness

-----------------------------------------------------------------------------
SentryTypeOK ==
    /\ enabled \in {"unset", "on", "off"}
    /\ client \in {"none", "pending", "resolved"}
    /\ startup \in {"before", "waiting", "retry", "done", "gave up"}
    /\ retriesLeft \in {0, 1}

\* The two triggers start one client between them, and nothing is handed to an SDK
\* that is not running, which would drop it without a word.
CapturedByOneClient ==
    /\ inits <= 1
    /\ (\E t \in Transitions : transition[t] = "recorded") => inits = 1
    /\ (\E e \in RenderErrors : report[e] = "captured") => inits = 1

\* One failed fetch, or one init that throws, does not leave the visit unreported,
\* even if nothing else ever asks for the client (instrumentation-client.ts, R-07).
OneFailureIsSurvived ==
    enabled = "on" ~> (started \/ failures > 1)

=============================================================================
