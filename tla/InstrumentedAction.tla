------------------------- MODULE InstrumentedAction -------------------------
(***************************************************************************)
(* runInstrumentedAction: the shell of every Server Action.  A call is a   *)
(* record: its phase, the state its work settled (the local variable       *)
(* `settled`) and the state it answered.  The page that made the call owns *)
(* the record; this module says what the server may do to it.              *)
(***************************************************************************)
NotMade  == [phase |-> "none", settled |-> "none", answer |-> "none"]
Sent     == [NotMade EXCEPT !.phase = "sent"]

\* The callback: run(reporter) settles a state, and whatever it throws (the
\* wiring, most often) settles the retry state.
Settles(call, state) == [call EXCEPT !.phase = "settled", !.settled = state]

WorkSettles(call, states) == {Settles(call, s) : s \in states \cup {"retry"}}

\* Mutant: a fault of the instrumentation always answers retry.
OuterCatchForgets(call) == "retry"

\* The outer catch: headers() or the wrapper failed, before the work or after it.
OuterCatch(call) ==
    IF call.settled # "none" THEN call.settled ELSE "retry"

Answered(call, state) == [call EXCEPT !.phase = "answered", !.answer = state]

\* Everything the server may do next with a call whose work can settle one of
\* the given states.
ServerSteps(call, states) ==
    CASE call.phase = "sent"    -> WorkSettles(call, states)
                                   \cup {Answered(call, OuterCatch(call))}
      [] call.phase = "settled" -> {Answered(call, call.settled),
                                    Answered(call, OuterCatch(call))}
      [] OTHER                  -> {}

\* The request or its response is lost: the promise of the call rejects.
Lost(call) == [call EXCEPT !.phase = "lost"]

InFlight(call) == call.phase \in {"sent", "settled"}
Over(call)     == call.phase \in {"answered", "lost"}

=============================================================================
