----------------------------- MODULE SignupForm -----------------------------
(***************************************************************************)
(* The signup form of one page load: SignupForm and RecaptchaBridge in the *)
(* browser, the Server Action joinEarlyAccess behind it.  A click waits    *)
(* for Google's script and for a token, then joins React's queue of        *)
(* actions, which runs them one at a time.  The row that a join writes is  *)
(* the business of module JoinEarlyAccess: here a join succeeds or not.    *)
(***************************************************************************)
EXTENDS Naturals, FiniteSets, Sequences, SequencesExt, InstrumentedAction

CONSTANT MaxClicks      \* bound on the clicks of one page load
ASSUME MaxClicksAssumption == MaxClicks \in Nat \ {0}

Click == 1..MaxClicks

VARIABLES
    siteKey,    \* "unset" before the page loads, then "given" or "missing"
    script,     \* the script element: absent, loading, ready, blocked, failed
    clicks,     \* [Click -> what became of it]
    queue,      \* the dispatched clicks React has yet to answer, in order
    status,     \* state.status of useActionState
    crashed     \* a rejected action reached the error boundary

formVars == <<siteKey, script, clicks, queue, status, crashed>>

NoClick == [stage |-> "none", email |-> "none", token |-> "none",
            shown |-> "none", call |-> NotMade]

FormInit ==
    /\ siteKey = "unset"
    /\ script = "absent"
    /\ clicks = [c \in Click |-> NoClick]
    /\ queue = <<>>
    /\ status = "idle"
    /\ crashed = FALSE

-----------------------------------------------------------------------------
\* The page shows the form; with a site key RecaptchaBridge appends the script.
ShowForm(key) ==
    /\ siteKey = "unset"
    /\ siteKey' = key
    /\ script' = IF key = "given" THEN "loading" ELSE "absent"
    /\ UNCHANGED <<clicks, queue, status, crashed>>

\* useTransition is pending from the dispatch to the last answer; without a site
\* key the form's own action dispatches and isPending never rises.
IsPending == siteKey = "given" /\ queue # <<>>

\* Mutant: the field stays open after a success.
EmailDisabledWhilePending == IsPending \/ status = "closed"

EmailDisabled  == IsPending \/ status \in {"success", "closed"}
ButtonDisabled == IsPending \/ status = "closed"

\* A disabled field is left out of the form's data.
EmailSent == IF EmailDisabled THEN {"missing"} ELSE {"valid", "invalid"}

\* loadRecaptchaScript for a click.  The element exists: a page that already has
\* grecaptcha resolves at once, an element still loading is listened to, and one
\* that has failed or loaded without Google never settles either listener.
StageAfterLoad ==
    CASE script = "ready"   -> "ready"
      [] script = "loading" -> "script"
      [] OTHER              -> "stuck"

Ready(c)  == clicks[c].stage = "none" /\ \A d \in 1..(c - 1) : clicks[d].stage # "none"

Submit(c, email) ==
    /\ siteKey # "unset" /\ ~ButtonDisabled /\ ~crashed
    /\ Ready(c)
    /\ email \in EmailSent
    /\ LET click == [NoClick EXCEPT !.email = email, !.shown = status]
       IN  IF siteKey = "given"
           THEN /\ clicks' = [clicks EXCEPT ![c] = [click EXCEPT !.stage = StageAfterLoad]]
                /\ UNCHANGED queue
           ELSE /\ clicks' = [clicks EXCEPT
                                 ![c] = [click EXCEPT !.stage = "dispatched", !.token = "test-pass"]]
                /\ queue' = Append(queue, c)
    /\ UNCHANGED <<siteKey, script, status, crashed>>

\* The clicks in the set are dispatched with the token, in whatever order their
\* promises settle in (they settle in the order the listeners were added).
DispatchAll(set, token) ==
    /\ clicks' = [c \in Click |-> IF c \in set
                                  THEN [clicks[c] EXCEPT !.stage = "dispatched", !.token = token]
                                  ELSE clicks[c]]
    /\ \E order \in [1..Cardinality(set) -> set] :
         /\ \A i, j \in DOMAIN order : i < j => order[i] < order[j]
         /\ queue' = queue \o order

WaitingForScript == {c \in Click : clicks[c].stage = "script"}

\* The script runs and defines grecaptcha.
ScriptLoads ==
    /\ script = "loading" /\ ~crashed
    /\ script' = "ready"
    /\ clicks' = [c \in Click |-> IF c \in WaitingForScript
                                  THEN [clicks[c] EXCEPT !.stage = "ready"]
                                  ELSE clicks[c]]
    /\ UNCHANGED <<siteKey, queue, status, crashed>>

\* The load event with no grecaptcha behind it ("CAPTCHA is unavailable"), or the
\* error event: the awaiting clicks go on with an empty token.
ScriptFails(how) ==
    /\ script = "loading" /\ ~crashed
    /\ script' = how
    /\ DispatchAll(WaitingForScript, "empty")
    /\ UNCHANGED <<siteKey, status, crashed>>

\* captcha.ready calls back, and execute starts.
GoogleReady(c) ==
    /\ clicks[c].stage = "ready" /\ ~crashed
    /\ clicks' = [clicks EXCEPT ![c].stage = "execute"]
    /\ UNCHANGED <<siteKey, script, queue, status, crashed>>

\* execute resolves with a token or rejects.
GoogleAnswers(c, token) ==
    /\ clicks[c].stage = "execute" /\ ~crashed
    /\ DispatchAll({c}, token)
    /\ UNCHANGED <<siteKey, script, status, crashed>>

\* Mutant: the timer is started inside ready.
TimerRunsInsideReady(c) == clicks[c].stage = "execute"

\* The timer is started before ready is called.
TimerRuns(c) == clicks[c].stage \in {"ready", "execute"}

TokenTimeout(c) ==
    /\ TimerRuns(c) /\ ~crashed
    /\ DispatchAll({c}, "empty")
    /\ UNCHANGED <<siteKey, script, status, crashed>>

-----------------------------------------------------------------------------
\* The states handleJoinEarlyAccess settles (besides retry, for a wiring that
\* throws): the address is judged first, then the token must not be empty, then
\* the backend joins or refuses.
JoinStates(click) ==
    IF click.email # "valid" THEN {"invalid-email"}
    ELSE IF click.token = "empty" THEN {"retry"}
    ELSE {"success", "closed", "retry"}

Running == Head(queue)

\* React starts the first action of its queue.
SendAction ==
    /\ queue # <<>> /\ ~crashed
    /\ clicks[Running].call = NotMade
    /\ clicks' = [clicks EXCEPT ![Running].call = Sent]
    /\ UNCHANGED <<siteKey, script, queue, status, crashed>>

ServerStep ==
    /\ queue # <<>> /\ ~crashed
    /\ \E call \in ServerSteps(clicks[Running].call, JoinStates(clicks[Running])) :
         clicks' = [clicks EXCEPT ![Running].call = call]
    /\ UNCHANGED <<siteKey, script, queue, status, crashed>>

ShowAnswer ==
    /\ queue # <<>> /\ ~crashed
    /\ clicks[Running].call.phase = "answered"
    /\ status' = clicks[Running].call.answer
    /\ queue' = Tail(queue)
    /\ UNCHANGED <<siteKey, script, clicks, crashed>>

\* The request or its answer is lost: the action rejects, and React hands the
\* error to the boundary, which replaces the form.
ActionRejects ==
    /\ queue # <<>> /\ ~crashed
    /\ clicks[Running].call.phase \in {"sent", "settled", "answered"}
    /\ clicks' = [clicks EXCEPT ![Running].call = Lost(@)]
    /\ crashed' = TRUE
    /\ UNCHANGED <<siteKey, script, queue, status>>

FormNext ==
    \/ \E key \in {"given", "missing"} : ShowForm(key)
    \/ \E c \in Click, email \in {"valid", "invalid", "missing"} : Submit(c, email)
    \/ ScriptLoads
    \/ \E how \in {"blocked", "failed"} : ScriptFails(how)
    \/ \E c \in Click : GoogleReady(c)
    \/ \E c \in Click, token \in {"token", "empty"} : GoogleAnswers(c, token)
    \/ \E c \in Click : TokenTimeout(c)
    \/ SendAction \/ ServerStep \/ ShowAnswer \/ ActionRejects

\* The browser ends every load it starts, its timers fire, React runs its queue and
\* a request is answered or lost.  Nothing is owed by Google or by the visitor.
FormFairness ==
    /\ WF_formVars(ScriptLoads \/ \E how \in {"blocked", "failed"} : ScriptFails(how))
    /\ \A c \in Click : WF_formVars(TokenTimeout(c))
    /\ WF_formVars(SendAction \/ ServerStep \/ ShowAnswer)

FormSpec == FormInit /\ [][FormNext]_formVars /\ FormFairness

-----------------------------------------------------------------------------
FormTypeOK ==
    /\ siteKey \in {"unset", "given", "missing"}
    /\ script \in {"absent", "loading", "ready", "blocked", "failed"}
    /\ queue \in BoundedSeq(Click, MaxClicks)
    /\ status \in {"idle", "success", "invalid-email", "retry", "closed"}
    /\ crashed \in BOOLEAN
    /\ \A c \in Click :
         /\ clicks[c].stage \in {"none", "script", "ready", "execute", "dispatched", "stuck"}
         /\ clicks[c].token \in {"none", "token", "empty", "test-pass"}

\* A signup that was completed is never answered with "please try again", whatever the
\* instrumentation around the action does (instrumented-action.ts, R-04).
SettledWorkIsAnswered ==
    \A c \in Click :
        clicks[c].call.settled = "success" /\ clicks[c].call.phase = "answered"
            => clicks[c].call.answer = "success"

\* A click made while the form shows a success never signs anybody up: the button is
\* open, but the disabled address is not sent.
SuccessIsNotRepeated ==
    \A c \in Click : clicks[c].shown = "success" => clicks[c].call.settled # "success"

\* Every click is answered or ends at the error boundary, even if Google never calls
\* back (recaptcha-bridge.tsx, R-26), unless the script element had already failed or
\* loaded without Google when the button was clicked.
ClickIsAnswered ==
    \A c \in Click :
        (clicks[c].stage \notin {"none", "stuck"})
            ~> (clicks[c].call.phase = "answered" \/ crashed)

=============================================================================
