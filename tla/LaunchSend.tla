----------------------------- MODULE LaunchSend -----------------------------
(***************************************************************************)
(* runLaunchProduction with SendLaunchEmailUseCase: page through the       *)
(* eligible rows by id; for each, store the hash of its launch link, then  *)
(* load it again, mark it as sending, mail it under the row's one key and  *)
(* save the outcome.  The workflow's concurrency group lets one run go at  *)
(* a time, and its stage and fingerprint gates have passed.                *)
(***************************************************************************)
EXTENDS Maintenance

ProviderIdempotencyWindow == OneDay

Settled(r) == r.launchStatus \in {"sent", "manual_review"}

\* A run that has processed the rows up to `after' and holds the rest of a page.
Launching(batch, more, after) ==
    [Idle EXCEPT !.pc = "launch", !.job = "launch", !.batch = batch,
                 !.more = more, !.after = after]

NextInPage(w, s) ==
    /\ s \in task[w].batch
    /\ \A o \in task[w].batch : s.id <= o.id

\* Mutant: the cursor stays where it was.
PastWithoutCursor(w, s) ==
    Launching(task[w].batch \ {s}, task[w].more, task[w].after)

\* The run after s has been taken from the page.
Past(w, s) == Launching(task[w].batch \ {s}, task[w].more, s.id)

\* One recipient is done; the run goes back to its page.
Processed(w) == Launching(task[w].batch, task[w].more, task[w].after)

LaunchStart(w) ==
    /\ Begin(w, "launch")
    /\ \A v \in Worker : task[v].job # "launch"
    /\ launchRuns < MaxLaunchRuns
    /\ launchRuns' = launchRuns + 1
    /\ Continue(w, Launching({}, TRUE, 0))
    /\ UNCHANGED <<rows, mailVars, minted, now, aborts>>

\* The next page; an empty one ends the run, a short one is the last.
LaunchFetch(w) ==
    LET page == LaunchPage(BatchSize, task[w].after)
    IN  /\ At(w, "launch")
        /\ task[w].batch = {}
        /\ task[w].more
        /\ Continue(w, IF page = {} THEN Idle
                       ELSE Launching(SnapshotsOf(page),
                                      Cardinality(page) = BatchSize,
                                      task[w].after))
        /\ UNCHANGED <<rows, mailVars, minted, counters>>

LaunchDone(w) ==
    /\ At(w, "launch")
    /\ task[w].batch = {}
    /\ ~task[w].more
    /\ Continue(w, Idle)
    /\ UNCHANGED <<rows, mailVars, minted, counters>>

LaunchSkip(w) ==
    /\ At(w, "launch")
    /\ \E s \in task[w].batch :
         /\ NextInPage(w, s)
         /\ Settled(s.row)
         /\ Continue(w, Past(w, s))
    /\ UNCHANGED <<rows, mailVars, minted, counters>>

LaunchRotate(w) ==
    /\ At(w, "launch")
    /\ \E s \in task[w].batch :
         /\ NextInPage(w, s)
         /\ ~Settled(s.row)
         /\ SaveThen(w, s.id, [s.row EXCEPT !.hash = LaunchToken(s.id)],
                     [Past(w, s) EXCEPT !.pc = "launch_load", !.id = s.id])
    /\ UNCHANGED <<mailVars, minted, counters>>

-----------------------------------------------------------------------------
\* SendLaunchEmailUseCase.

Mailable(r) ==
    /\ r.email # Null
    /\ ~r.anonymized
    /\ r.unsubscribedAt = Null
    /\ ~Settled(r)

\* Mutant: an open attempt is retried whatever its age.
WindowNeverExpires(r) == FALSE

\* The last attempt is still open, and too old for the provider to know its key.
WindowExpired(r) ==
    /\ r.launchStatus = "sending"
    /\ r.launchLastAttemptAt # Null
    /\ now - r.launchLastAttemptAt >= ProviderIdempotencyWindow

LaunchLoad(w) ==
    LET r == rows[task[w].id]
    IN  /\ At(w, "launch_load")
        /\ Continue(w, IF ~Present(task[w].id) \/ ~Mailable(r) THEN Processed(w)
                       ELSE [task[w] EXCEPT
                               !.pc = IF WindowExpired(r) THEN "launch_review"
                                      ELSE "launch_mark",
                               !.row = r])
        /\ UNCHANGED <<rows, mailVars, minted, counters>>

LaunchReview(w) ==
    LET t == task[w]
    IN  /\ At(w, "launch_review")
        /\ SaveThen(w, t.id, [t.row EXCEPT !.launchStatus = "manual_review"],
                    Processed(w))
        /\ UNCHANGED <<mailVars, minted, counters>>

\* The attempt is on record before the provider is called.
LaunchMark(w) ==
    LET t == task[w]
        sending == [t.row EXCEPT !.launchStatus = "sending", !.launchLastAttemptAt = now]
    IN  /\ At(w, "launch_mark")
        /\ SaveThen(w, t.id, sending, [t EXCEPT !.pc = "launch_mail", !.row = sending])
        /\ UNCHANGED <<mailVars, minted, counters>>

LaunchMail(w) ==
    LET t == task[w]
    IN  /\ At(w, "launch_mail")
        /\ \E outcome \in Outcomes :
             /\ Send(LaunchKey(t.id), LaunchToken(t.id), now, outcome)
             /\ Continue(w, [t EXCEPT !.pc = "launch_save", !.outcome = outcome])
        /\ UNCHANGED <<rows, minted, counters>>

\* Mutant: the provider's answer is stored as the status.
LaunchOutcomeVerbatim(r, outcome) ==
    [r EXCEPT !.launchStatus = outcome,
              !.launchSentAt = IF outcome = "accepted" THEN now ELSE Null]

\* An ambiguous answer leaves the attempt open for a rerun to settle.
LaunchOutcome(r, outcome) ==
    [r EXCEPT !.launchStatus = CASE outcome = "accepted"  -> "sent"
                                 [] outcome = "ambiguous" -> "sending"
                                 [] OTHER                 -> "failed",
              !.launchSentAt = IF outcome = "accepted" THEN now ELSE Null]

LaunchSave(w) ==
    LET t == task[w]
    IN  /\ At(w, "launch_save")
        /\ SaveThen(w, t.id, LaunchOutcome(t.row, t.outcome), Processed(w))
        /\ UNCHANGED <<mailVars, minted, counters>>

=============================================================================
