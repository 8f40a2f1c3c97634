-------------------------- MODULE JoinEarlyAccess --------------------------
(***************************************************************************)
(* LocalEarlyAccessBackend.join with JoinEarlyAccessUseCase and            *)
(* ResubscribeEarlyAccessUseCase: a signup that passed the stage check and *)
(* the CAPTCHA looks up the current row of its address, and creates a row, *)
(* renews an unsubscribed one, or does nothing for a duplicate.  A stage   *)
(* or CAPTCHA rejection touches no state and is not a step.                *)
(***************************************************************************)
EXTENDS SendConfirmation

Joining(e) == [Idle EXCEPT !.job = "join", !.email = e]

Confirming(w, id, token) ==
    [Joining(task[w].email) EXCEPT !.pc = "confirm_load", !.id = id, !.token = token]

\* Mutant: a duplicate is renewed too.
ResolveExistingAlways(w, e, id) ==
    Continue(w, [Joining(e) EXCEPT !.pc = "resubscribe", !.id = id, !.row = rows[id]])

\* resolveExisting: only an unsubscribed row is written again.
ResolveExisting(w, e, id) ==
    Continue(w, IF rows[id].unsubscribedAt # Null
                THEN [Joining(e) EXCEPT !.pc = "resubscribe", !.id = id, !.row = rows[id]]
                ELSE Idle)

JoinFind(w, e) ==
    /\ Begin(w, "join")
    /\ minted < MaxSignups
    /\ IF FindCurrentByNormalizedEmail(e) = {}
       THEN Continue(w, [Joining(e) EXCEPT !.pc = "create"])
       ELSE \E id \in FindCurrentByNormalizedEmail(e) : ResolveExisting(w, e, id)
    /\ UNCHANGED <<rows, mailVars, minted, counters>>

JoinCreate(w) ==
    /\ At(w, "create")
    /\ Mint
    /\ \E id \in Ids :
         /\ Create(id, task[w].email, NewToken)
         /\ Continue(w, Confirming(w, id, NewToken))
    /\ UNCHANGED <<mailVars, counters>>

\* The insert hit the unique index: another join created the row first.
JoinConflict(w) ==
    /\ At(w, "create")
    /\ FindCurrentByNormalizedEmail(task[w].email) # {}
    /\ Continue(w, [task[w] EXCEPT !.pc = "refind"])
    /\ UNCHANGED <<rows, mailVars, minted, counters>>

\* The winner is treated like a row found at first; without one the conflict is
\* thrown.
JoinRefind(w) ==
    LET e == task[w].email
    IN  /\ At(w, "refind")
        /\ IF FindCurrentByNormalizedEmail(e) = {}
           THEN Continue(w, Idle)
           ELSE \E id \in FindCurrentByNormalizedEmail(e) : ResolveExisting(w, e, id)
        /\ UNCHANGED <<rows, mailVars, minted, counters>>

\* Mutant: the launch fields start again as well.
ResubscribedFromScratch(r, e, h) == FreshRow(e, h)

\* A renewed subscription: everything but the launch fields starts again.
Resubscribed(r, e, h) ==
    [r EXCEPT !.email = e,
              !.hash = h,
              !.unsubscribedAt = Null,
              !.confirmationStatus = "pending",
              !.confirmationAttemptCount = 0,
              !.confirmationNextAttemptAt = Null]

Resubscribe(w) ==
    LET t == task[w]
    IN  /\ At(w, "resubscribe")
        /\ Mint
        /\ SaveThen(w, t.id, Resubscribed(t.row, t.email, NewToken),
                    Confirming(w, t.id, NewToken))
        /\ UNCHANGED <<mailVars, counters>>

=============================================================================
