------------------------- MODULE SendConfirmation -------------------------
(***************************************************************************)
(* SendConfirmationEmailUseCase: load the row, mail the management link    *)
(* under a key made of the id and the attempt number, save the outcome     *)
(* onto the row that was loaded.  A join runs it once, after its write;    *)
(* a maintenance run runs it for every row it retries.                     *)
(***************************************************************************)
EXTENDS Workers

MaxConfirmationAttempts == 3

\* Where a worker goes when the use case returns.
AfterConfirmation(w) ==
    IF task[w].job = "maintenance"
    THEN [Idle EXCEPT !.pc = "retry", !.job = "maintenance", !.batch = task[w].batch]
    ELSE Idle

\* Mutant: one attempt too many.
ApplyOutcomeOnceMore(r, outcome, at) ==
    LET attempt == r.confirmationAttemptCount + 1
        retry   == /\ outcome = "known_retryable_failure"
                   /\ attempt <= MaxConfirmationAttempts
    IN  [r EXCEPT
           !.confirmationStatus = IF outcome = "accepted" THEN "sent"
                                  ELSE IF retry THEN "failed" ELSE "exhausted",
           !.confirmationAttemptCount = attempt,
           !.confirmationNextAttemptAt = IF retry THEN at + OneDay ELSE Null]

\* The row with the outcome of its next attempt, `at' the time it was sent.
ApplyOutcome(r, outcome, at) ==
    LET attempt == r.confirmationAttemptCount + 1
        retry   == /\ outcome = "known_retryable_failure"
                   /\ attempt < MaxConfirmationAttempts
    IN  [r EXCEPT
           !.confirmationStatus = IF outcome = "accepted" THEN "sent"
                                  ELSE IF retry THEN "failed" ELSE "exhausted",
           !.confirmationAttemptCount = attempt,
           !.confirmationNextAttemptAt = IF retry THEN at + OneDay ELSE Null]

\* findById, and the early return for a row that lost its address.
ConfirmLoad(w) ==
    LET id == task[w].id
    IN  /\ At(w, "confirm_load")
        /\ Continue(w, IF Present(id) /\ rows[id].email # Null /\ ~rows[id].anonymized
                       THEN [task[w] EXCEPT !.pc = "confirm_mail", !.row = rows[id]]
                       ELSE AfterConfirmation(w))
        /\ UNCHANGED <<rows, mailVars, minted, counters>>

ConfirmMail(w) ==
    LET t == task[w]
    IN  /\ At(w, "confirm_mail")
        /\ \E outcome \in Outcomes :
             /\ Send(ConfirmationKey(t.id, t.row.confirmationAttemptCount + 1),
                     t.token, now, outcome)
             /\ Continue(w, [t EXCEPT !.pc = "confirm_save", !.outcome = outcome])
        /\ UNCHANGED <<rows, minted, counters>>

ConfirmSave(w) ==
    LET t == task[w]
    IN  /\ At(w, "confirm_save")
        /\ SaveThen(w, t.id, ApplyOutcome(t.row, t.outcome, now), AfterConfirmation(w))
        /\ UNCHANGED <<mailVars, minted, counters>>

=============================================================================
