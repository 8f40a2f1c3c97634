-------------------------- MODULE MonitoringTunnel --------------------------
(***************************************************************************)
(* One POST to /monitoring, the same-origin tunnel for the envelopes of    *)
(* the browser SDK: the checks in their order, the body read chunk by      *)
(* chunk against a limit while the caller sends or drops it, the forward   *)
(* to Sentry and the answer.  Sizes are in units of a limit's share.       *)
(***************************************************************************)
EXTENDS Integers

CONSTANTS Limit,            \* MAX_ENVELOPE_BYTES
          SentryStatuses    \* what Sentry may answer a forward with
ASSUME LimitAssumption == Limit \in Nat \ {0}
ASSUME SentryAssumption == SentryStatuses \subseteq 200..599

VARIABLES
    request,    \* what arrived, "none" before it
    stage,      \* idle, checks, reading, forward, respond, done
    sent,       \* what the caller has sent of its body
    ended,      \* the body came to its end
    buffered,   \* the chunks held by readBounded
    forwarded,  \* the size of the envelope that left for Sentry, -1 if none
    upstream,   \* the status Sentry answered it with, 0 before
    answer,     \* the status answered, 0 before
    logged      \* [level, code] of the line written

tunnelVars == <<request, stage, sent, ended, buffered, forwarded, upstream, answer,
                logged>>

NoRequest == [dsn |-> "blank", pipeline |-> FALSE, configured |-> FALSE,
              origin |-> "none", target |-> "ours", declared |-> -1]
NoLine    == [level |-> "none", code |-> "none"]

\* The setting as the route and parseSentryDsn read it: empty or unset, one that names no
\* project of Sentry (Vercel's placeholder among them), or one that does.
Dsns == {"blank", "unusable", "usable"}

\* declared is the content-length, -1 for none or one that is no number; it need not
\* be the truth.
Requests ==
    [dsn : Dsns, pipeline : BOOLEAN, configured : BOOLEAN,
     origin : {"none", "own", "foreign"}, target : {"ours", "other"},
     declared : -1..(Limit + 1)]

TunnelInit ==
    /\ request = NoRequest
    /\ stage = "idle"
    /\ sent = 0 /\ ended = FALSE /\ buffered = 0 /\ forwarded = -1
    /\ upstream = 0 /\ answer = 0 /\ logged = NoLine

-----------------------------------------------------------------------------
\* route.ts: without a configuration the request goes on with no logger and no site
\* origin; a pipeline run withholds the DSN, and says so if there was one.
DsnSeen == IF request.pipeline THEN "blank" ELSE request.dsn
Line(level, code) ==
    IF request.configured THEN [level |-> level, code |-> code] ELSE logged

Arrive(r) ==
    /\ stage = "idle"
    /\ request' = r
    /\ stage' = "checks"
    /\ logged' = IF r.pipeline /\ r.dsn # "blank" /\ r.configured
                 THEN [level |-> "warn", code |-> "pipeline_suppressed"] ELSE NoLine
    /\ UNCHANGED <<sent, ended, buffered, forwarded, upstream, answer>>

\* reject: a warning and the status.
Reject(status, code) ==
    /\ stage' = "done"
    /\ answer' = status
    /\ logged' = Line("warn", code)

ForeignOrigin    == request.configured /\ request.origin = "foreign"
DeclaredOversized == request.declared > Limit

\* The checks before the body, first failure first.
CheckFails ==
    /\ stage = "checks"
    /\ CASE DsnSeen = "blank"         -> /\ stage' = "done" /\ answer' = 404
                                         /\ UNCHANGED logged
         [] DsnSeen = "unusable"      -> Reject(404, "dsn_unparseable")
         [] DsnSeen = "usable" /\ ForeignOrigin
                                      -> Reject(403, "foreign_origin")
         [] DsnSeen = "usable" /\ ~ForeignOrigin /\ request.target # "ours"
                                      -> Reject(403, "org_project_mismatch")
         [] OTHER                     -> DeclaredOversized /\ Reject(413, "oversized_declared")
    /\ UNCHANGED <<request, sent, ended, buffered, forwarded, upstream>>

ChecksPass ==
    /\ stage = "checks"
    /\ DsnSeen = "usable" /\ ~ForeignOrigin /\ request.target = "ours" /\ ~DeclaredOversized
    /\ stage' = "reading"
    /\ UNCHANGED <<request, sent, ended, buffered, forwarded, upstream, answer, logged>>

-----------------------------------------------------------------------------
\* readBounded.  The caller sends at most one unit over the limit.
\* Mutant: at the limit the loop breaks and what is buffered goes on.
CutOff(n) ==
    stage' = "forward" /\ UNCHANGED <<buffered, answer, logged>>

\* A chunk that passes the limit cancels the stream.
Oversized(n) ==
    Reject(413, "oversized_actual") /\ UNCHANGED buffered

ReadChunk(n) ==
    /\ stage = "reading"
    /\ sent + n <= Limit + 1
    /\ sent' = sent + n
    /\ IF buffered + n > Limit THEN Oversized(n)
       ELSE buffered' = buffered + n /\ UNCHANGED <<stage, answer, logged>>
    /\ UNCHANGED <<request, ended, forwarded, upstream>>

BodyEnds ==
    /\ stage = "reading"
    /\ ended' = TRUE
    /\ stage' = "forward"
    /\ UNCHANGED <<request, sent, buffered, forwarded, upstream, answer, logged>>

\* Mutant: the error of the stream escapes; the platform answers for the handler.
EscapedBreak ==
    stage' = "done" /\ answer' = 500 /\ UNCHANGED logged

\* The stream errors: the caller went away, or the platform failed it.
BodyUnreadable == Reject(400, "body_read_failed")

BodyBreaks ==
    /\ stage = "reading"
    /\ BodyUnreadable
    /\ UNCHANGED <<request, sent, ended, buffered, forwarded, upstream>>

-----------------------------------------------------------------------------
Forward(status) ==
    /\ stage = "forward"
    /\ forwarded' = buffered /\ upstream' = status
    /\ stage' = "respond"
    /\ UNCHANGED <<request, sent, ended, buffered, answer, logged>>

Fault == stage' = "done" /\ answer' = 502 /\ logged' = Line("error", "class")

\* The forward throws; the envelope may have left.
ForwardThrows ==
    /\ stage = "forward"
    /\ forwarded' \in {forwarded, buffered}
    /\ Fault
    /\ UNCHANGED <<request, sent, ended, buffered, upstream>>

\* Sentry answered, and its answer cannot be put together.
AnswerThrows ==
    /\ stage = "respond"
    /\ Fault
    /\ UNCHANGED <<request, sent, ended, buffered, forwarded, upstream>>

\* Sentry's own status goes back as it is, a refusal as well as a success, with no line.
Relay ==
    /\ stage = "respond"
    /\ stage' = "done" /\ answer' = upstream
    /\ UNCHANGED <<request, sent, ended, buffered, forwarded, upstream, logged>>

TunnelNext ==
    \/ \E r \in Requests : Arrive(r)
    \/ CheckFails \/ ChecksPass
    \/ \E n \in 1..(Limit + 1) : ReadChunk(n)
    \/ BodyEnds \/ BodyBreaks
    \/ \E status \in SentryStatuses : Forward(status)
    \/ Relay \/ ForwardThrows \/ AnswerThrows

TunnelSpec == TunnelInit /\ [][TunnelNext]_tunnelVars

-----------------------------------------------------------------------------
TunnelTypeOK ==
    /\ stage \in {"idle", "checks", "reading", "forward", "respond", "done"}
    /\ buffered \in 0..Limit /\ forwarded \in -1..Limit
    /\ upstream \in {0} \cup SentryStatuses
    /\ answer \in {0, 400, 403, 404, 413, 502} \cup SentryStatuses

\* What leaves for Sentry is the whole of what the caller sent, within the limit
\* whatever size was declared, for this deployment's own project, never in a pipeline
\* run, and not from a foreign origin that could be recognized as one.
OnlyWholeEnvelopesLeave ==
    forwarded # -1 =>
        /\ ended /\ forwarded = sent /\ sent <= Limit
        /\ request.dsn = "usable" /\ ~request.pipeline /\ request.target = "ours"
        /\ request.configured => request.origin # "foreign"

\* What this side rejects, or fails at, leaves a line: a request is answered in silence
\* only with Sentry's own answer, passed on as it is (or where Sentry is not configured,
\* or there is no logger).  A warning never follows an envelope that has left, and
\* an error, which raises an issue, stands for a fault and never for a rejection
\* (monitoring-route.handler.ts, R-29).  The handler's comments count any answer of
\* Sentry's as a successful forward: a refusal goes back with its status, unlogged.
FaultsAreVisible ==
    stage = "done" /\ request.configured /\ ~(answer = 404 /\ request.dsn = "blank") =>
        /\ logged = NoLine => upstream # 0 /\ answer = upstream
        /\ logged.level = "warn" => forwarded = -1 /\ answer \in {400, 403, 404, 413}
        /\ logged.level = "error" => answer = 502

=============================================================================
