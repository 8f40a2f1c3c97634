------------------------ MODULE FormAndWords_proofs ------------------------
(***************************************************************************)
(* Theorems about the signup form, for any number of clicks, and about the *)
(* word browser, for any number of words.                                  *)
(***************************************************************************)
EXTENDS SignupForm, WordBrowser, FiniteSetTheorems, SequenceTheorems, TLAPS

-----------------------------------------------------------------------------
\* The signup form.

States == {"none", "idle", "success", "invalid-email", "retry", "closed"}
Calls ==
    [phase : {"none", "sent", "settled", "answered", "lost"},
     settled : States, answer : States]

Stages == {"none", "script", "ready", "execute", "dispatched", "stuck"}
Tokens == {"none", "token", "empty", "test-pass"}
Clicks(shown) ==
    [stage : Stages, email : {"none", "valid", "invalid", "missing"}, token : Tokens,
     shown : {shown}, call : Calls]

\* The state that a click was shown has no type: it comes through a queue whose order
\* the library chooses.
IsClick(click) == click \in Clicks(click.shown)

\* A completed signup is answered as one, and a click on a success joins nobody: it
\* sent no address.
FineClick(click) ==
    /\ click.call.phase = "answered" /\ click.call.settled = "success"
          => click.call.answer = "success"
    /\ click.shown = "success" => click.email = "missing" /\ click.call.settled # "success"

FormInv ==
    /\ clicks = [c \in Click |-> clicks[c]]
    /\ \A c \in Click : IsClick(clicks[c]) /\ FineClick(clicks[c])

\* It is enough that each click stays in order.
LEMMA ClicksChange ==
    ASSUME clicks' = [c \in Click |-> clicks'[c]],
           \A c \in Click : IsClick(clicks'[c]) /\ FineClick(clicks'[c])
    PROVE  FormInv'
  BY DEF FormInv, FineClick

\* The stage and the token of a click have no part in what is in order.
LEMMA MovedClick ==
    ASSUME NEW click, IsClick(click), FineClick(click),
           NEW s \in Stages, NEW t \in Tokens
    PROVE  LET moved == [click EXCEPT !.stage = s, !.token = t]
           IN  IsClick(moved) /\ FineClick(moved)
  BY DEF IsClick, Clicks, FineClick

\* A dispatch moves clicks and no more.
LEMMA DispatchedClicks ==
    ASSUME FormInv, NEW set, NEW t \in {"token", "empty"}, DispatchAll(set, t)
    PROVE  FormInv'
  <1>1. ASSUME NEW c \in Click PROVE IsClick(clicks'[c]) /\ FineClick(clicks'[c])
    <2>1. IsClick(clicks[c]) /\ FineClick(clicks[c])
      BY DEF FormInv
    <2>2. clicks'[c] = IF c \in set
                       THEN [clicks[c] EXCEPT !.stage = "dispatched", !.token = t]
                       ELSE clicks[c]
      BY DEF DispatchAll
    <2>3. LET moved == [clicks[c] EXCEPT !.stage = "dispatched", !.token = t]
          IN  IsClick(moved) /\ FineClick(moved)
      BY <2>1, MovedClick DEF Stages, Tokens
    <2> QED
      BY <2>1, <2>2, <2>3
  <1>2. clicks' = [c \in Click |-> clicks'[c]]
    BY DEF DispatchAll
  <1> QED
    BY <1>1, <1>2, ClicksChange DEF FormInv

\* A click that is made sends no address under a success.
LEMMA SubmittedClick ==
    ASSUME FormInv, NEW c \in Click, NEW email, Submit(c, email)
    PROVE  FormInv'
  <1> DEFINE click == [NoClick EXCEPT !.email = email, !.shown = status]
  <1>1. email \in {"valid", "invalid", "missing"} /\ (status = "success" => email = "missing")
    BY DEF Submit, EmailSent, EmailDisabled
  <1>2. IsClick(click) /\ FineClick(click)
    <2>1. NoClick \in Clicks("none") /\ NotMade \in Calls
          /\ NotMade.phase = "none" /\ NotMade.settled = "none" /\ NoClick.call = NotMade
      BY DEF NoClick, NotMade, Calls, States, Clicks, Stages, Tokens
    <2>2. click \in Clicks(status) /\ click.shown = status /\ click.email = email
          /\ click.call = NotMade
      BY <1>1, <2>1 DEF Clicks
    <2> HIDE DEF click
    <2> QED
      BY <1>1, <2>1, <2>2 DEF IsClick, Clicks, FineClick
  <1>3. PICK s \in {"script", "ready", "stuck", "dispatched"}, t \in {"none", "test-pass"} :
          clicks' = [clicks EXCEPT ![c] = [click EXCEPT !.stage = s, !.token = t]]
    <2>1. click.token = "none"
      BY DEF NoClick
    <2>2. \A s : [click EXCEPT !.stage = s] = [click EXCEPT !.stage = s, !.token = "none"]
      BY <2>1 DEF NoClick
    <2>3. StageAfterLoad \in {"script", "ready", "stuck"}
      BY DEF StageAfterLoad
    <2> QED
      BY <2>2, <2>3 DEF Submit
  <1>4. IsClick([click EXCEPT !.stage = s, !.token = t])
        /\ FineClick([click EXCEPT !.stage = s, !.token = t])
    BY <1>2, MovedClick DEF Stages, Tokens
  <1> QED
    BY <1>3, <1>4, ClicksChange DEF Submit, FormInv

\* What becomes of the call of the running click.
LEMMA CalledClick ==
    ASSUME FormInv, NEW call,
           clicks' = [clicks EXCEPT ![Running].call = call],
           Running \in Click => /\ call \in Calls
                                /\ FineClick([clicks[Running] EXCEPT !.call = call])
    PROVE  FormInv'
  <1>1. ASSUME NEW c \in Click PROVE IsClick(clicks'[c]) /\ FineClick(clicks'[c])
    <2>1. IsClick(clicks[c]) /\ FineClick(clicks[c]) /\ clicks = [d \in Click |-> clicks[d]]
      BY DEF FormInv
    <2>2. CASE c = Running
      <3>1. clicks'[c] = [clicks[Running] EXCEPT !.call = call]
        BY <2>1, <2>2
      <3> QED
        BY <2>1, <2>2, <3>1 DEF IsClick, Clicks
    <2>3. CASE c # Running
      BY <2>1, <2>3
    <2> QED
      BY <2>2, <2>3
  <1>2. clicks' = [c \in Click |-> clicks'[c]]
    BY DEF FormInv
  <1> QED
    BY <1>1, <1>2, ClicksChange DEF FormInv

\* The server answers what the work settled, whatever fails around it.
LEMMA ServedClick ==
    ASSUME FormInv, ServerStep
    PROVE  FormInv'
  <1>1. PICK call \in ServerSteps(clicks[Running].call, JoinStates(clicks[Running])) :
          clicks' = [clicks EXCEPT ![Running].call = call]
    BY DEF ServerStep
  <1>2. ASSUME Running \in Click
        PROVE  call \in Calls /\ FineClick([clicks[Running] EXCEPT !.call = call])
    <2> DEFINE click == clicks[Running]
    <2>1. IsClick(click) /\ click.call \in Calls /\ FineClick(click)
      BY <1>2 DEF FormInv, IsClick, Clicks
    <2>2. JoinStates(click) \subseteq States \ {"none"}
          /\ (click.email = "missing" => "success" \notin JoinStates(click))
      BY DEF JoinStates, States
    <2>3. CASE click.call.phase = "sent" /\ call \in WorkSettles(click.call, JoinStates(click))
      <3>1. PICK s \in JoinStates(click) \cup {"retry"} : call = Settles(click.call, s)
        BY <2>3 DEF WorkSettles
      <3>2. call \in Calls /\ call.phase = "settled" /\ call.settled = s
        BY <2>1, <2>2, <3>1 DEF Settles, Calls, States
      <3> QED
        BY <2>1, <2>2, <3>1, <3>2 DEF FineClick, IsClick, Clicks
    <2>4. CASE call = Answered(click.call, OuterCatch(click.call))
      <3>1. call \in Calls /\ call.settled = click.call.settled
            /\ (call.settled = "success" => call.answer = "success")
        BY <2>1, <2>4 DEF Answered, OuterCatch, Calls, States
      <3> QED
        BY <2>1, <3>1 DEF FineClick, IsClick, Clicks
    <2>5. CASE call = Answered(click.call, click.call.settled)
      <3>1. call \in Calls /\ call.settled = click.call.settled
            /\ (call.settled = "success" => call.answer = "success")
        BY <2>1, <2>5 DEF Answered, Calls, States
      <3> QED
        BY <2>1, <3>1 DEF FineClick, IsClick, Clicks
    <2> QED
      BY <1>1, <2>3, <2>4, <2>5 DEF ServerSteps
  <1> QED
    BY <1>1, <1>2, CalledClick DEF ServerStep

\* Every step of the page keeps every click in order.
LEMMA FormInvStep ==
    ASSUME FormInv, [FormNext]_formVars
    PROVE  FormInv'
  <1>1. CASE UNCHANGED formVars
    BY <1>1 DEF formVars, FormInv
  <1>2. ASSUME NEW key, ShowForm(key) PROVE FormInv'
    BY <1>2 DEF ShowForm, FormInv
  <1>3. ASSUME NEW c \in Click, NEW s \in {"ready", "execute"}
        PROVE  LET moved == [clicks[c] EXCEPT !.stage = s]
               IN  IsClick(moved) /\ FineClick(moved)
    BY DEF FormInv, IsClick, Clicks, Stages, FineClick
  <1>4. CASE ScriptLoads
    <2>1. ASSUME NEW c \in Click PROVE IsClick(clicks'[c]) /\ FineClick(clicks'[c])
      BY <1>3, <1>4 DEF ScriptLoads, FormInv
    <2>2. clicks' = [c \in Click |-> clicks'[c]]
      BY <1>4 DEF ScriptLoads
    <2> QED
      BY <1>4, <2>1, <2>2, ClicksChange DEF ScriptLoads, FormInv
  <1>5. ASSUME NEW how, ScriptFails(how) PROVE FormInv'
    BY <1>5, DispatchedClicks DEF ScriptFails
  <1>6. ASSUME NEW c \in Click, GoogleReady(c) PROVE FormInv'
    <2>1. ASSUME NEW d \in Click PROVE IsClick(clicks'[d]) /\ FineClick(clicks'[d])
      BY <1>3, <1>6 DEF GoogleReady, FormInv
    <2>2. clicks' = [d \in Click |-> clicks'[d]]
      BY <1>6 DEF GoogleReady, FormInv
    <2> QED
      BY <1>6, <2>1, <2>2, ClicksChange DEF GoogleReady, FormInv
  <1>7. ASSUME NEW c \in Click, NEW t \in {"token", "empty"}, GoogleAnswers(c, t)
        PROVE  FormInv'
    BY <1>7, DispatchedClicks DEF GoogleAnswers
  <1>8. ASSUME NEW c \in Click, TokenTimeout(c) PROVE FormInv'
    BY <1>8, DispatchedClicks DEF TokenTimeout
  <1>9. CASE SendAction
    <2>1. ASSUME Running \in Click
          PROVE  Sent \in Calls /\ FineClick([clicks[Running] EXCEPT !.call = Sent])
      <3>1. IsClick(clicks[Running]) /\ FineClick(clicks[Running])
        BY <2>1 DEF FormInv
      <3>2. Sent \in Calls /\ Sent.phase = "sent" /\ Sent.settled = "none"
        BY DEF Sent, NotMade, Calls, States
      <3> QED
        BY <3>1, <3>2 DEF FineClick, IsClick, Clicks
    <2> QED
      BY <1>9, <2>1, CalledClick DEF SendAction
  <1>10. CASE ServerStep
    BY <1>10, ServedClick
  <1>11. CASE ShowAnswer
    <2>1. clicks' = clicks
      BY <1>11 DEF ShowAnswer
    <2> QED
      BY <2>1 DEF FormInv
  <1>12. CASE ActionRejects
    <2> DEFINE call == Lost(clicks[Running].call)
    <2>1. ASSUME Running \in Click
          PROVE  call \in Calls /\ FineClick([clicks[Running] EXCEPT !.call = call])
      <3>1. IsClick(clicks[Running]) /\ FineClick(clicks[Running])
        BY <2>1 DEF FormInv
      <3>2. call \in Calls /\ call.phase = "lost"
            /\ call.settled = clicks[Running].call.settled
        BY <3>1 DEF Lost, Calls, IsClick, Clicks
      <3> QED
        BY <3>1, <3>2 DEF FineClick, IsClick, Clicks
    <2>2. clicks' = [clicks EXCEPT ![Running].call = call]
      BY <1>12 DEF ActionRejects
    <2> QED
      BY <1>12, <2>1, <2>2, CalledClick DEF ActionRejects
  <1> QED
    BY <1>1, <1>2, <1>4, <1>5, <1>6, <1>7, <1>8, <1>9, <1>10, <1>11, <1>12, SubmittedClick
    DEF FormNext

\* Every click is in order in every reachable state.
THEOREM FormInvariance == FormSpec => []FormInv
  <1>1. FormInit => FormInv
    <2>1. NoClick \in Clicks("none") /\ NoClick.shown = "none" /\ NoClick.call.phase = "none"
      BY DEF NoClick, NotMade, Calls, States, Clicks, Stages, Tokens
    <2>2. IsClick(NoClick) /\ FineClick(NoClick)
      BY <2>1 DEF IsClick, FineClick
    <2> QED
      BY <2>2 DEF FormInit, FormInv
  <1> QED
    BY <1>1, FormInvStep, PTL DEF FormSpec

\* However many clicks there are, a completed signup is answered with success.
THEOREM SettledAnswers == FormSpec => []SettledWorkIsAnswered
  <1>1. FormInv => SettledWorkIsAnswered
    BY DEF FormInv, FineClick, SettledWorkIsAnswered
  <1> QED
    BY <1>1, FormInvariance, PTL

\* However many clicks there are, none made on a success signs anybody up.
THEOREM OneSuccess == FormSpec => []SuccessIsNotRepeated
  <1>1. FormInv => SuccessIsNotRepeated
    BY DEF FormInv, FineClick, SuccessIsNotRepeated
  <1> QED
    BY <1>1, FormInvariance, PTL

\* The queue holds clicks that were dispatched, each once; a call that settled or was
\* answered has one of the states of the form.
FormStates == {"success", "invalid-email", "retry", "closed"}

GoodCall(call) ==
    /\ call.settled \in FormStates \cup {"none"}
    /\ call.phase = "settled" => call.settled \in FormStates
    /\ call.phase = "answered" => call.answer \in FormStates

Queued(q) ==
    /\ q \in Seq(Click)
    /\ \A i, j \in 1..Len(q) : i # j => q[i] # q[j]

\* Every member of a queue was in the one before it or is in the set.
ComesFrom(next, q, set) ==
    \A i \in 1..Len(next) : next[i] \in set \/ \E j \in 1..Len(q) : next[i] = q[j]

FormTypeInv ==
    /\ siteKey \in {"unset", "given", "missing"}
    /\ script \in {"absent", "loading", "ready", "blocked", "failed"}
    /\ status \in FormStates \cup {"idle"}
    /\ crashed \in BOOLEAN
    /\ Queued(queue)
    /\ \A i \in 1..Len(queue) : clicks[queue[i]].stage = "dispatched"
    /\ \A c \in Click : GoodCall(clicks[c].call)

\* A queue without repetition is no longer than there are clicks.
LEMMA QueueIsBounded ==
    ASSUME NEW q, Queued(q)
    PROVE  q \in BoundedSeq(Click, MaxClicks)
  <1>1. q \in [1..Len(q) -> Click] /\ Len(q) \in Nat
    BY LenProperties DEF Queued
  <1>2. q \in Injection(1..Len(q), Click)
    BY <1>1 DEF Queued, Injection, IsInjective
  <1>3. IsFiniteSet(Click) /\ Cardinality(Click) = MaxClicks
    BY FS_Interval, MaxClicksAssumption DEF Click
  <1>4. Cardinality(1..Len(q)) <= MaxClicks
    BY <1>2, <1>3, FS_Injection
  <1>5. Cardinality(1..Len(q)) = Len(q)
    <2>1. Cardinality(1..Len(q)) = IF 1 > Len(q) THEN 0 ELSE Len(q) - 1 + 1
      BY <1>1, FS_Interval
    <2> QED
      BY <1>1, <2>1
  <1>6. Len(q) \in 0..MaxClicks
    BY <1>1, <1>4, <1>5, MaxClicksAssumption
  <1> QED
    BY <1>1, <1>6 DEF BoundedSeq, SeqOf

\* Clicks that are dispatched together join the queue once each.
LEMMA QueueGrows ==
    ASSUME NEW q, Queued(q), NEW set \in SUBSET Click,
           \A i \in 1..Len(q) : q[i] \notin set,
           NEW order \in [1..Cardinality(set) -> set],
           \A i, j \in DOMAIN order : i < j => order[i] < order[j]
    PROVE  Queued(q \o order) /\ ComesFrom(q \o order, q, set)
  <1>1. Cardinality(set) \in Nat
    <2>1. IsFiniteSet(Click)
      BY FS_Interval, MaxClicksAssumption DEF Click
    <2>2. IsFiniteSet(set)
      BY <2>1, FS_Subset
    <2> QED
      BY <2>2, FS_CardinalityType
  <1>2. order \in Seq(set) /\ Len(order) = Cardinality(set)
    BY <1>1, SeqDef
  <1>3. order \in Seq(Click)
    BY <1>1, SeqDef
  <1>4. /\ q \o order \in Seq(Click)
        /\ Len(q) \in Nat /\ Len(q \o order) = Len(q) + Len(order)
        /\ \A i \in 1..(Len(q) + Len(order)) :
             (q \o order)[i] = IF i <= Len(q) THEN q[i] ELSE order[i - Len(q)]
    BY <1>3, ConcatProperties, LenProperties DEF Queued
  <1>5. ASSUME NEW i \in 1..Len(order), NEW j \in 1..Len(order), i # j
        PROVE  order[i] # order[j]
    <2>1. i \in DOMAIN order /\ j \in DOMAIN order /\ i \in Nat /\ j \in Nat
      BY <1>2
    <2>2. order[i] \in Click /\ order[j] \in Click
      BY <1>3, ElementOfSeq
    <2>3. order[i] \in Nat /\ order[j] \in Nat
      BY <2>2 DEF Click
    <2> QED
      BY <1>5, <2>1, <2>3
  <1>6. ASSUME NEW i \in 1..(Len(q) + Len(order))
        PROVE  \/ i \in 1..Len(q) /\ (q \o order)[i] = q[i]
               \/ i - Len(q) \in 1..Len(order) /\ i > Len(q)
                  /\ (q \o order)[i] = order[i - Len(q)] /\ order[i - Len(q)] \in set
    <2>1. CASE i <= Len(q)
      BY <1>4, <2>1
    <2>2. CASE i > Len(q)
      <3>1. i - Len(q) \in 1..Len(order)
        BY <1>1, <1>2, <1>4, <2>2
      <3> QED
        BY <1>2, <1>4, <2>2, <3>1
    <2> QED
      BY <1>4, <2>1, <2>2
  <1>7. ASSUME NEW i \in 1..(Len(q) + Len(order)), NEW j \in 1..(Len(q) + Len(order)),
               i # j
        PROVE  (q \o order)[i] # (q \o order)[j]
    <2>1. CASE i \in 1..Len(q) /\ j \in 1..Len(q)
      BY <1>4, <1>7, <2>1 DEF Queued
    <2>2. CASE i > Len(q) /\ j > Len(q)
      BY <1>4, <1>5, <1>6, <1>7, <2>2
    <2>3. CASE i \in 1..Len(q) /\ j > Len(q)
      BY <1>4, <1>6, <2>3
    <2>4. CASE i > Len(q) /\ j \in 1..Len(q)
      BY <1>4, <1>6, <2>4
    <2> QED
      BY <1>4, <1>6, <2>1, <2>2, <2>3, <2>4
  <1> QED
    BY <1>4, <1>6, <1>7 DEF Queued, ComesFrom

\* A dispatch keeps the queue, whatever the order of the promises.
LEMMA DispatchedQueue ==
    ASSUME FormInv, FormTypeInv, NEW set \in SUBSET Click, NEW t,
           \A c \in set : clicks[c].stage # "dispatched",
           DispatchAll(set, t)
    PROVE  /\ Queued(queue')
           /\ \A i \in 1..Len(queue') : clicks'[queue'[i]].stage = "dispatched"
           /\ \A c \in Click : GoodCall(clicks'[c].call)
  <1>1. PICK order \in [1..Cardinality(set) -> set] :
          /\ \A i, j \in DOMAIN order : i < j => order[i] < order[j]
          /\ queue' = queue \o order
    BY DEF DispatchAll
  <1>2. \A i \in 1..Len(queue) : queue[i] \notin set
    BY DEF FormTypeInv
  <1>3. Queued(queue') /\ ComesFrom(queue', queue, set)
    <2>1. Queued(queue)
      BY DEF FormTypeInv
    <2>2. Queued(queue \o order) /\ ComesFrom(queue \o order, queue, set)
      BY <1>1, <1>2, <2>1, QueueGrows
    <2> QED
      BY <1>1, <2>2
  <1>4. ASSUME NEW c \in Click
        PROVE  /\ c \in set => clicks'[c].stage = "dispatched"
               /\ c \notin set => clicks'[c] = clicks[c]
               /\ clicks'[c].call = clicks[c].call
    BY DEF DispatchAll, FormInv, IsClick, Clicks
  <1>5. \A i \in 1..Len(queue') : queue'[i] \in Click
    BY <1>3, ElementOfSeq DEF Queued
  <1>6. ASSUME NEW i \in 1..Len(queue') PROVE clicks'[queue'[i]].stage = "dispatched"
    <2>1. CASE queue'[i] \in set
      BY <1>4, <1>5, <2>1
    <2>2. CASE queue'[i] \notin set
      <3>1. PICK j \in 1..Len(queue) : queue'[i] = queue[j]
        BY <1>3, <2>2 DEF ComesFrom
      <3>2. clicks[queue'[i]].stage = "dispatched"
        BY <3>1 DEF FormTypeInv
      <3> QED
        BY <1>4, <1>5, <2>2, <3>2
    <2> QED
      BY <2>1, <2>2
  <1> QED
    BY <1>3, <1>4, <1>6 DEF FormTypeInv

\* A step that leaves the queue and the stages of the dispatched clicks as they are.
LEMMA QueueKept ==
    ASSUME FormInv, FormTypeInv, queue' = queue,
           \A c \in Click : clicks[c].stage = "dispatched" => clicks'[c].stage = "dispatched"
    PROVE  Queued(queue') /\ \A i \in 1..Len(queue') : clicks'[queue'[i]].stage = "dispatched"
  <1>1. \A i \in 1..Len(queue) : queue[i] \in Click
    BY ElementOfSeq DEF FormTypeInv, Queued
  <1> QED
    BY <1>1 DEF FormTypeInv

\* A click that is made joins nothing, or the queue at its end.
LEMMA SubmittedQueue ==
    ASSUME FormInv, FormTypeInv, NEW c \in Click, NEW email, Submit(c, email)
    PROVE  FormTypeInv'
  <1>1. clicks[c].stage = "none"
    BY DEF Submit, Ready
  <1>2. NoClick.call = NotMade /\ GoodCall(NotMade)
    BY DEF NoClick, NotMade, GoodCall
  <1>3. \A d \in Click : clicks'[d].call = IF d = c THEN NotMade ELSE clicks[d].call
    BY <1>2 DEF Submit, FormInv, NoClick
  <1>4. \A d \in Click : d # c => clicks'[d] = clicks[d]
    BY DEF Submit, FormInv
  <1>5. CASE siteKey = "given"
    <2>1. queue' = queue
      BY <1>5 DEF Submit
    <2> QED
      BY <1>1, <1>2, <1>3, <1>4, <2>1, QueueKept DEF Submit, FormTypeInv
  <1>6. CASE siteKey # "given"
    <2>1. queue' = Append(queue, c) /\ clicks'[c].stage = "dispatched"
      BY <1>6 DEF Submit, FormInv, NoClick
    <2>2. /\ queue' \in Seq(Click) /\ Len(queue) \in Nat /\ Len(queue') = Len(queue) + 1
          /\ \A i \in 1..Len(queue) : queue'[i] = queue[i] /\ queue[i] \in Click
          /\ queue'[Len(queue) + 1] = c
      BY <2>1, AppendProperties, LenProperties, ElementOfSeq DEF FormTypeInv, Queued
    <2>3. \A i \in 1..Len(queue) : queue[i] # c /\ clicks[queue[i]].stage = "dispatched"
      BY <1>1 DEF FormTypeInv
    <2>4. \A i \in 1..Len(queue') : i \in 1..Len(queue) \/ i = Len(queue) + 1
      BY <2>2
    <2>5. Queued(queue')
      BY <2>2, <2>3, <2>4 DEF FormTypeInv, Queued
    <2>6. \A i \in 1..Len(queue') : clicks'[queue'[i]].stage = "dispatched"
      BY <1>4, <2>1, <2>2, <2>3, <2>4
    <2> QED
      BY <1>2, <1>3, <2>5, <2>6 DEF Submit, FormTypeInv
  <1> QED
    BY <1>5, <1>6

\* The call of the running click goes on; nothing else changes but the error boundary.
LEMMA CalledQueue ==
    ASSUME FormInv, FormTypeInv, NEW call,
           clicks' = [clicks EXCEPT ![Running].call = call],
           Running \in Click => GoodCall(call),
           UNCHANGED <<siteKey, script, queue, status>>, crashed' \in BOOLEAN
    PROVE  FormTypeInv'
  <1>1. ASSUME NEW c \in Click
        PROVE  clicks'[c].stage = clicks[c].stage /\ GoodCall(clicks'[c].call)
    BY DEF FormInv, FormTypeInv, IsClick, Clicks
  <1> QED
    BY <1>1, QueueKept DEF FormTypeInv

\* The running click is a click.
LEMMA RunningClick ==
    ASSUME FormTypeInv, queue # <<>>
    PROVE  /\ Running \in Click /\ GoodCall(clicks[Running].call)
           /\ Queued(Tail(queue))
           /\ \A i \in 1..Len(Tail(queue)) : clicks[Tail(queue)[i]].stage = "dispatched"
  <1>1. /\ Running \in Click /\ Tail(queue) \in Seq(Click)
        /\ Len(queue) \in Nat /\ Len(Tail(queue)) = Len(queue) - 1
        /\ \A i \in 1..Len(Tail(queue)) : Tail(queue)[i] = queue[i + 1]
    BY HeadTailProperties, LenProperties DEF FormTypeInv, Queued, Running
  <1>2. \A i \in 1..Len(Tail(queue)) : i + 1 \in 1..Len(queue)
    BY <1>1
  <1> QED
    BY <1>1, <1>2 DEF FormTypeInv, Queued

\* What the server settles or answers is a state of the form.
LEMMA ServedQueue ==
    ASSUME FormInv, FormTypeInv, ServerStep
    PROVE  FormTypeInv'
  <1> DEFINE before == clicks[Running].call
  <1>1. PICK call \in ServerSteps(before, JoinStates(clicks[Running])) :
          clicks' = [clicks EXCEPT ![Running].call = call]
    BY DEF ServerStep
  <1>2. Running \in Click /\ GoodCall(before) /\ before \in Calls
    BY RunningClick DEF ServerStep, FormInv, IsClick, Clicks
  <1>3. JoinStates(clicks[Running]) \subseteq FormStates
    BY DEF JoinStates, FormStates
  <1>4. CASE before.phase = "sent" /\ call \in WorkSettles(before, JoinStates(clicks[Running]))
    <2>1. PICK s \in JoinStates(clicks[Running]) \cup {"retry"} : call = Settles(before, s)
      BY <1>4 DEF WorkSettles
    <2>2. call.phase = "settled" /\ call.settled = s /\ s \in FormStates
      BY <1>2, <1>3, <2>1 DEF Settles, Calls, FormStates
    <2> QED
      BY <1>1, <1>2, <2>2, CalledQueue DEF ServerStep, GoodCall, FormTypeInv
  <1>5. CASE call = Answered(before, OuterCatch(before))
    <2>1. /\ call.phase = "answered" /\ call.settled = before.settled
          /\ call.answer \in FormStates
      BY <1>2, <1>5 DEF Answered, OuterCatch, Calls, GoodCall, FormStates
    <2> QED
      BY <1>1, <1>2, <2>1, CalledQueue DEF ServerStep, GoodCall, FormTypeInv
  <1>6. CASE before.phase = "settled" /\ call = Answered(before, before.settled)
    <2>1. /\ call.phase = "answered" /\ call.settled = before.settled
          /\ call.answer \in FormStates
      BY <1>2, <1>6 DEF Answered, Calls, GoodCall
    <2> QED
      BY <1>1, <1>2, <2>1, CalledQueue DEF ServerStep, GoodCall, FormTypeInv
  <1> QED
    BY <1>1, <1>4, <1>5, <1>6 DEF ServerSteps

\* Every step of the page keeps the queue and the calls in order.
LEMMA FormTypeStep ==
    ASSUME FormInv, FormTypeInv, [FormNext]_formVars
    PROVE  FormTypeInv'
  <1>1. CASE UNCHANGED formVars
    BY <1>1 DEF formVars, FormTypeInv
  <1>2. CASE \E key \in {"given", "missing"} : ShowForm(key)
    BY <1>2 DEF ShowForm, FormTypeInv
  <1>3. CASE ScriptLoads
    <2>1. \A c \in Click :
             /\ clicks[c].stage = "dispatched" => clicks'[c].stage = "dispatched"
             /\ clicks'[c].call = clicks[c].call
      BY <1>3 DEF ScriptLoads, WaitingForScript, FormInv, IsClick, Clicks
    <2> QED
      BY <1>3, <2>1, QueueKept DEF ScriptLoads, FormTypeInv
  <1>4. ASSUME NEW how \in {"blocked", "failed"}, ScriptFails(how) PROVE FormTypeInv'
    <2>1. /\ WaitingForScript \in SUBSET Click
          /\ \A c \in WaitingForScript : clicks[c].stage # "dispatched"
      BY DEF WaitingForScript
    <2> QED
      BY <1>4, <2>1, DispatchedQueue DEF ScriptFails, FormTypeInv
  <1>5. ASSUME NEW c \in Click, GoogleReady(c) PROVE FormTypeInv'
    <2>1. \A d \in Click :
             /\ clicks[d].stage = "dispatched" => clicks'[d].stage = "dispatched"
             /\ clicks'[d].call = clicks[d].call
      BY <1>5 DEF GoogleReady, FormInv, IsClick, Clicks
    <2> QED
      BY <1>5, <2>1, QueueKept DEF GoogleReady, FormTypeInv
  <1>6. ASSUME NEW c \in Click, NEW t \in {"token", "empty"}, GoogleAnswers(c, t)
        PROVE  FormTypeInv'
    <2>1. {c} \in SUBSET Click /\ \A d \in {c} : clicks[d].stage # "dispatched"
      BY <1>6 DEF GoogleAnswers
    <2> QED
      BY <1>6, <2>1, DispatchedQueue DEF GoogleAnswers, FormTypeInv
  <1>7. ASSUME NEW c \in Click, TokenTimeout(c) PROVE FormTypeInv'
    <2>1. {c} \in SUBSET Click /\ \A d \in {c} : clicks[d].stage # "dispatched"
      BY <1>7 DEF TokenTimeout, TimerRuns
    <2> QED
      BY <1>7, <2>1, DispatchedQueue DEF TokenTimeout, FormTypeInv
  <1>8. CASE SendAction
    <2>1. GoodCall(Sent)
      BY DEF Sent, NotMade, GoodCall
    <2> QED
      BY <1>8, <2>1, CalledQueue DEF SendAction, FormTypeInv
  <1>9. CASE ShowAnswer
    <2>1. /\ UNCHANGED <<siteKey, script, clicks, crashed>> /\ queue' = Tail(queue)
          /\ queue # <<>> /\ status' = clicks[Running].call.answer
          /\ clicks[Running].call.phase = "answered"
      BY <1>9 DEF ShowAnswer
    <2>2. status' \in FormStates
      BY <2>1, RunningClick DEF GoodCall
    <2> QED
      BY <2>1, <2>2, RunningClick DEF FormTypeInv
  <1>10. CASE ActionRejects
    <2>1. /\ Running \in Click /\ GoodCall(clicks[Running].call)
          /\ clicks[Running].call \in Calls
      BY <1>10, RunningClick DEF ActionRejects, FormInv, IsClick, Clicks
    <2>2. GoodCall(Lost(clicks[Running].call))
      BY <2>1 DEF GoodCall, Lost, Calls
    <2>3. clicks' = [clicks EXCEPT ![Running].call = Lost(clicks[Running].call)]
      BY <1>10 DEF ActionRejects
    <2> QED
      BY <1>10, <2>2, <2>3, CalledQueue DEF ActionRejects
  <1> QED
    BY <1>1, <1>2, <1>3, <1>4, <1>5, <1>6, <1>7, <1>8, <1>9, <1>10,
       SubmittedQueue, ServedQueue DEF FormNext

\* A dispatched click waits in React's queue once: with any number of clicks, and in
\* whatever order their promises settle, the form stays within its types and the queue
\* is never longer than the clicks that were made.
THEOREM FormTypes == FormSpec => []FormTypeOK
  <1>1. FormInit => FormTypeInv
    <2> SUFFICES ASSUME FormInit PROVE FormTypeInv
      OBVIOUS
    <2>1. Queued(<<>>) /\ Len(<<>>) = 0
      BY EmptySeq DEF Queued
    <2>2. \A c \in Click : GoodCall(clicks[c].call)
      BY DEF FormInit, NoClick, NotMade, GoodCall
    <2>3. queue = <<>>
      BY DEF FormInit
    <2>4. Queued(queue) /\ Len(queue) = 0
      BY <2>1, <2>3
    <2>5. \A i \in 1..Len(queue) : clicks[queue[i]].stage = "dispatched"
      BY <2>4
    <2>6. siteKey = "unset" /\ script = "absent" /\ status = "idle" /\ crashed = FALSE
      BY DEF FormInit
    <2> QED
      BY <2>2, <2>4, <2>5, <2>6 DEF FormTypeInv
  <1>2. FormInv /\ FormTypeInv => FormTypeOK
    <2> SUFFICES ASSUME FormInv, FormTypeInv PROVE FormTypeOK
      OBVIOUS
    <2>1. queue \in BoundedSeq(Click, MaxClicks)
      BY QueueIsBounded DEF FormTypeInv
    <2>2. \A c \in Click : clicks[c].stage \in Stages /\ clicks[c].token \in Tokens
      BY DEF FormInv, IsClick, Clicks
    <2> QED
      BY <2>1, <2>2 DEF FormTypeInv, FormTypeOK, FormStates, Stages, Tokens
  <1> QED
    BY <1>1, <1>2, FormTypeStep, FormInvariance, PTL DEF FormSpec

-----------------------------------------------------------------------------
\* The word browser.

\* A smooth scroll has not arrived; one to a selected word, with no pointer down, has
\* the word for its target; a pause by interaction has its timer.
WordInv ==
    /\ word \in Index /\ direction \in {-1, 1}
    /\ place \in Place
    /\ paused \in [user : BOOLEAN, visitor : BOOLEAN]
    /\ motion \in [to : Index, by : {"select", "drag"}] \cup {NoMotion}
    /\ paused.visitor => timer
    /\ motion # NoMotion => place # PlaceOf(motion.to)
    /\ motion.by = "select" /\ drag = "none" => target = motion.to

\* A selection keeps the track's part of that: either nothing of it changes, or the
\* scroll and its target are set together.
LEMMA SelectedWord ==
    ASSUME WordInv, NEW i \in Index, NEW scroll \in BOOLEAN, Select(i, scroll),
           UNCHANGED drag
    PROVE  /\ word' \in Index /\ place' \in Place
           /\ motion' \in [to : Index, by : {"select", "drag"}] \cup {NoMotion}
           /\ motion' # NoMotion => place' # PlaceOf(motion'.to)
           /\ motion'.by = "select" /\ drag' = "none" => target' = motion'.to
  <1>1. word' = i /\ FollowWord(~scroll)
    BY DEF Select
  <1>2. CASE UNCHANGED <<target, trackVars>>
    BY <1>1, <1>2 DEF trackVars, WordInv
  <1>3. CASE /\ target' = IF place # PlaceOf(word') THEN word' ELSE None
             /\ ScrollTo(word', "select")
    <2>1. CASE place = PlaceOf(i)
      BY <1>1, <1>3, <2>1 DEF ScrollTo, NoMotion, WordInv
    <2>2. CASE place # PlaceOf(i) /\ reduced' = "yes"
      <3>1. motion' = NoMotion /\ place' = PlaceOf(i)
        BY <1>1, <1>3, <2>2 DEF ScrollTo
      <3> QED
        BY <1>1, <3>1, WordsAssumption DEF NoMotion, PlaceOf, Place, Index
    <2>3. CASE place # PlaceOf(i) /\ reduced' # "yes"
      <3>1. motion' = [to |-> i, by |-> "select"] /\ place' = place /\ target' = i
        BY <1>1, <1>3, <2>3 DEF ScrollTo
      <3> QED
        BY <1>1, <2>3, <3>1 DEF WordInv
    <2> QED
      BY <2>1, <2>2, <2>3
  <1> QED
    BY <1>1, <1>2, <1>3 DEF FollowWord

\* An interaction arms the timer of the pause it makes.
LEMMA InteractionPauses ==
    ASSUME WordInv, PauseForInteraction
    PROVE  paused' \in [user : BOOLEAN, visitor : BOOLEAN] /\ (paused'.visitor => timer')
  BY DEF PauseForInteraction, pauseVars, WordInv

\* Every timer, frame, handler and scroll of the browser keeps it.
LEMMA WordInvStep ==
    ASSUME WordInv, [WordNext]_wordVars
    PROVE  WordInv'
  <1>1. CASE UNCHANGED wordVars
    BY <1>1 DEF wordVars, WordInv, PlaceOf, NoMotion
  <1>2. ASSUME NEW preference, Hydrate(preference) PROVE WordInv'
    BY <1>2 DEF Hydrate, trackVars, WordInv, PlaceOf, NoMotion
  <1>3. CASE MotionPreferenceChanges
    <2>1. Select(word, ~fromScroll) /\ word \in Index /\ UNCHANGED <<pauseVars, drag, direction>>
      BY <1>3 DEF MotionPreferenceChanges, WordInv
    <2> QED
      BY <2>1, SelectedWord DEF pauseVars, WordInv, PlaceOf, NoMotion
  <1>4. CASE IntersectionChanges
    BY <1>4 DEF IntersectionChanges, trackVars, pauseVars, WordInv, PlaceOf, NoMotion
  <1>5. CASE Tick
    <2>1. word + Bounce \in Index /\ Bounce \in {-1, 1}
      BY WordsAssumption DEF Bounce, Index, WordInv
    <2>2. Select(word + Bounce, TRUE) /\ UNCHANGED <<pauseVars, drag>> /\ direction' = Bounce
      BY <1>5 DEF Tick, TickScrolls
    <2> QED
      BY <2>1, <2>2, SelectedWord DEF pauseVars, WordInv, PlaceOf, NoMotion
  <1>6. CASE ResumeTimer
    BY <1>6 DEF ResumeTimer, trackVars, WordInv, PlaceOf, NoMotion
  <1>7. CASE PauseButton
    BY <1>7 DEF PauseButton, Toggled, trackVars, WordInv, PlaceOf, NoMotion
  <1>8. ASSUME NEW i \in Index, ChooseWord(i) PROVE WordInv'
    <2>1. Select(i, TRUE) /\ UNCHANGED <<drag, direction>> /\ PauseForInteraction
      BY <1>8 DEF ChooseWord
    <2> QED
      BY <2>1, SelectedWord, InteractionPauses DEF WordInv, PlaceOf, NoMotion
  <1>9. CASE SmoothScroll
    <2>1. motion' = NoMotion \/ (motion' = motion /\ place' # PlaceOf(motion.to))
      BY <1>9 DEF SmoothScroll
    <2>2. UNCHANGED <<word, pauseVars, direction, target, drag>>
      BY <1>9 DEF SmoothScroll
    <2>3. motion.to \in Index /\ place # PlaceOf(motion.to)
      BY <1>9 DEF SmoothScroll, WordInv
    <2>4. place' = IF place < PlaceOf(motion.to) THEN place + 1 ELSE place - 1
      BY <1>9 DEF SmoothScroll
    <2>5. place' \in Place
      BY <2>3, <2>4, WordsAssumption DEF PlaceOf, Place, Index, WordInv
    <2> QED
      BY <2>1, <2>2, <2>5 DEF pauseVars, WordInv, PlaceOf, NoMotion
  <1>10. ASSUME NEW p \in Place, Wheel(p) PROVE WordInv'
    BY <1>10, InteractionPauses DEF Wheel, WordInv, PlaceOf, NoMotion
  <1>11. ASSUME NEW p \in Place, PointerMove(p) PROVE WordInv'
    BY <1>11 DEF PointerMove, pauseVars, WordInv, PlaceOf, NoMotion
  <1>12. CASE PointerDown
    BY <1>12, InteractionPauses DEF PointerDown, trackVars, WordInv, PlaceOf, NoMotion
  <1>13. CASE PointerUp
    <2>1. /\ place' \in Place
          /\ \/ motion' = NoMotion
             \/ motion' = [to |-> word, by |-> "drag"] /\ place' # PlaceOf(word)
      BY <1>13, WordsAssumption DEF PointerUp, ScrollTo, WordInv, PlaceOf, Place, Index
    <2>2. paused' \in [user : BOOLEAN, visitor : BOOLEAN] /\ (paused'.visitor => timer')
      BY <1>13, InteractionPauses DEF PointerUp, pauseVars, WordInv
    <2> QED
      BY <1>13, <2>1, <2>2 DEF PointerUp, WordInv, PlaceOf, NoMotion
  <1>14. CASE Frame
    <2>1. UNCHANGED <<pauseVars, direction, drag, place, motion>>
      BY <1>14 DEF Frame
    <2>2. motion.by = "select" /\ drag = "none" => target' = target
      BY <1>14 DEF Frame, WordInv, NoMotion
    <2>3. Nearest(place) \in Index
      BY WordsAssumption DEF Nearest, Place, Index, WordInv
    <2>4. word' \in Index
      BY <1>14, <2>3 DEF Frame, WordInv
    <2> QED
      BY <2>1, <2>2, <2>4 DEF pauseVars, WordInv, PlaceOf, NoMotion
  <1> QED
    BY <1>1, <1>2, <1>3, <1>4, <1>5, <1>6, <1>7, <1>8, <1>9, <1>10, <1>11, <1>12, <1>13,
       <1>14 DEF WordNext

\* The track and the pauses are in order in every reachable state.
THEOREM WordInvariance == WordSpec => []WordInv
  <1>1. WordInit => WordInv
    BY WordsAssumption DEF WordInit, WordInv, Index, Place, NoMotion
  <1> QED
    BY <1>1, WordInvStep, PTL DEF WordSpec

\* A scroll of the page leaves a word, or nothing, for the frame to close over.
LEMMA ScrolledTypes ==
    ASSUME word' \in Index, frame \in Index \cup {None}, NEW i, NEW by, ScrollTo(i, by)
    PROVE  frame' \in Index \cup {None}
  BY DEF ScrollTo

\* A selection leaves a word, or none, as the target and for the frame.
LEMMA SelectedTypes ==
    ASSUME WordTypeOK, word' \in Index, NEW i, NEW scroll, Select(i, scroll)
    PROVE  target' \in Index \cup {None} /\ frame' \in Index \cup {None}
  <1>1. FollowWord(~scroll)
    BY DEF Select
  <1>2. CASE UNCHANGED <<target, trackVars>>
    BY <1>2 DEF trackVars, WordTypeOK
  <1>3. CASE /\ target' = IF place # PlaceOf(word') THEN word' ELSE None
             /\ ScrollTo(word', "select")
    BY <1>3, ScrolledTypes DEF WordTypeOK
  <1> QED
    BY <1>1, <1>2, <1>3 DEF FollowWord

\* With any number of words, the browser stays within its types: the interval never
\* steps past the last word or before the first one, and a frame never selects a word
\* that is not there.
THEOREM WordTypes == WordSpec => []WordTypeOK
  <1>1. WordInit => WordTypeOK
    BY WordsAssumption DEF WordInit, WordTypeOK, Index, Place, NoMotion
  <1>2. WordInv /\ WordInv' /\ WordTypeOK /\ [WordNext]_wordVars => WordTypeOK'
    <2> SUFFICES ASSUME WordInv', WordTypeOK, [WordNext]_wordVars PROVE WordTypeOK'
      OBVIOUS
    <2>1. word' \in Index /\ word \in Index
      BY DEF WordInv, WordTypeOK
    <2>2. SUFFICES /\ target' \in Index \cup {None} /\ frame' \in Index \cup {None}
                   /\ drag' \in {"none", "held", "moved"}
      BY DEF WordInv, WordTypeOK
    <2>3. CASE UNCHANGED wordVars
      BY <2>3 DEF wordVars, WordTypeOK
    <2>4. CASE \E preference \in {"yes", "no"} : Hydrate(preference)
      BY <2>4 DEF Hydrate, trackVars, WordTypeOK
    <2>5. CASE MotionPreferenceChanges
      BY <2>1, <2>5, SelectedTypes DEF MotionPreferenceChanges, WordTypeOK
    <2>6. CASE IntersectionChanges
      BY <2>6 DEF IntersectionChanges, trackVars, WordTypeOK
    <2>7. CASE Tick
      BY <2>1, <2>7, SelectedTypes DEF Tick, WordTypeOK
    <2>8. CASE ResumeTimer \/ PauseButton
      BY <2>8 DEF ResumeTimer, PauseButton, trackVars, WordTypeOK
    <2>9. CASE \E i \in Index : ChooseWord(i)
      BY <2>1, <2>9, SelectedTypes DEF ChooseWord, WordTypeOK
    <2>10. CASE SmoothScroll
      BY <2>1, <2>10 DEF SmoothScroll, FrameAfterScroll, WordTypeOK
    <2>11. CASE \E p \in Place : Wheel(p) \/ PointerMove(p)
      BY <2>1, <2>11 DEF Wheel, PointerMove, FrameAfterScroll, WordTypeOK
    <2>12. CASE PointerDown
      BY <2>12 DEF PointerDown, trackVars, WordTypeOK
    <2>13. CASE PointerUp
      BY <2>1, <2>13, ScrolledTypes DEF PointerUp, WordTypeOK
    <2>14. CASE Frame
      BY <2>1, <2>14 DEF Frame, WordTypeOK
    <2> QED
      BY <2>3, <2>4, <2>5, <2>6, <2>7, <2>8, <2>9, <2>10, <2>11, <2>12, <2>13, <2>14
      DEF WordNext
  <1> QED
    BY <1>1, <1>2, WordInvariance, PTL DEF WordSpec

\* For any number of words, a pause by interaction always has the timer that ends it.
THEOREM PausesEnd == WordSpec => []InteractionPauseEnds
  <1>1. WordInv => InteractionPauseEnds
    BY DEF WordInv, InteractionPauseEnds
  <1> QED
    BY <1>1, WordInvariance, PTL

\* For any number of words, a scroll to a selected word selects no other on its way.
THEOREM ScrollsKeepTheirWord == WordSpec => ScrollKeepsItsWord
  <1>1. WordInv /\ [WordNext]_wordVars =>
          [motion.by = "select" /\ drag = "none" /\ frame # None /\ frame' = None
             => word' = word]_wordVars
    <2> SUFFICES ASSUME WordInv, WordNext, motion.by = "select", drag = "none",
                        frame # None, frame' = None
                 PROVE  word' = word
      BY DEF wordVars
    <2>1. target # None /\ word # None
      <3>1. motion.to \in Index /\ target = motion.to /\ word \in Index
        BY DEF WordInv, NoMotion
      <3> QED
        BY <3>1, WordsAssumption DEF Index, None
    <2>2. CASE Frame
      BY <2>1, <2>2 DEF Frame, FrameSelects
    <2>3. ASSUME NEW i, NEW scroll, Select(i, scroll) PROVE FALSE
      BY <2>3 DEF Select, FollowWord, ScrollTo, trackVars
    <2> QED
      BY <2>2, <2>3 DEF WordNext, Hydrate, MotionPreferenceChanges, IntersectionChanges, Tick,
         ResumeTimer, PauseButton, ChooseWord, SmoothScroll, Wheel, PointerMove, PointerDown,
         PointerUp
  <1> QED
    BY <1>1, WordInvariance, PTL DEF WordSpec, ScrollKeepsItsWord

\* For any number of words, a word that changes otherwise than by scrolling is
\* scrolled to.
THEOREM ChosenWordsComeIn == WordSpec => ChosenWordIsBroughtIn
  <1>1. [WordNext]_wordVars =>
          [word' # word /\ frame' = frame
             => motion'.to = word' \/ place' = PlaceOf(word')]_wordVars
    <2> SUFFICES ASSUME WordNext, word' # word, frame' = frame
                 PROVE  motion'.to = word' \/ place' = PlaceOf(word')
      BY DEF wordVars
    <2>1. ASSUME NEW i, Select(i, TRUE) PROVE motion'.to = word' \/ place' = PlaceOf(word')
      BY <2>1 DEF Select, FollowWord, ScrollTo
    <2>2. CASE Tick
      BY <2>1, <2>2 DEF Tick, TickScrolls
    <2>3. ASSUME NEW i \in Index, ChooseWord(i)
          PROVE  motion'.to = word' \/ place' = PlaceOf(word')
      BY <2>1, <2>3 DEF ChooseWord
    <2>4. CASE Frame
      BY <2>4 DEF Frame
    <2> QED
      BY <2>2, <2>3, <2>4 DEF WordNext, Hydrate, MotionPreferenceChanges, Select,
         IntersectionChanges, ResumeTimer, PauseButton, SmoothScroll, Wheel, PointerMove,
         PointerDown, PointerUp
  <1> QED
    BY <1>1, PTL DEF WordSpec, ChosenWordIsBroughtIn

=============================================================================
