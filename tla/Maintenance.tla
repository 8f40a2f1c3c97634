---------------------------- MODULE Maintenance ----------------------------
(***************************************************************************)
(* The daily cron run: RetryFailedConfirmationsUseCase over one batch of   *)
(* due confirmations, then PurgeExpiredSignupPiiUseCase over one batch of  *)
(* rows past their retention.  Both read their whole batch first and write *)
(* each row from that reading.  Nothing stops a second run, a manual       *)
(* recovery for instance, from overlapping the first.                      *)
(***************************************************************************)
EXTENDS SendConfirmation

CONSTANT BatchSize       \* rows per batch, of retries, purges and launch pages

ASSUME BatchAssumption == BatchSize \in Nat \ {0}

Maintaining(pc, batch) ==
    [Idle EXCEPT !.pc = pc, !.job = "maintenance", !.batch = batch]

RetryFind(w) ==
    /\ Begin(w, "maintenance")
    /\ \E B \in Limited(ConfirmationsDue(now), BatchSize) :
         Continue(w, Maintaining("retry", SnapshotsOf(B)))
    /\ UNCHANGED <<rows, mailVars, minted, counters>>

\* The link is rotated before the mail that carries it is sent.
RetryRotate(w) ==
    /\ At(w, "retry")
    /\ Mint
    /\ \E s \in task[w].batch :
         SaveThen(w, s.id, [s.row EXCEPT !.hash = NewToken],
                  [Maintaining("confirm_load", task[w].batch \ {s})
                     EXCEPT !.id = s.id, !.token = NewToken])
    /\ UNCHANGED <<mailVars, counters>>

PurgeFind(w) ==
    /\ At(w, "retry")
    /\ task[w].batch = {}
    /\ \E B \in Limited(PiiPurgeDue(now), BatchSize) :
         Continue(w, Maintaining("purge", SnapshotsOf(B)))
    /\ UNCHANGED <<rows, mailVars, minted, counters>>

\* Mutants: the link survives; the row is not marked.
AnonymizedKeepingLink(r) == [r EXCEPT !.email = Null, !.anonymized = TRUE]
AnonymizedUnmarked(r) == [r EXCEPT !.email = Null, !.hash = Null]

Anonymized(r) == [r EXCEPT !.email = Null, !.hash = Null, !.anonymized = TRUE]

\* The index has no say over an anonymized row: this save never conflicts.
PurgeSave(w) ==
    /\ At(w, "purge")
    /\ \E s \in task[w].batch :
         /\ Save(s.id, Anonymized(s.row))
         /\ Continue(w, Maintaining("purge", task[w].batch \ {s}))
    /\ UNCHANGED <<mailVars, minted, counters>>

MaintenanceDone(w) ==
    /\ At(w, "purge")
    /\ task[w].batch = {}
    /\ Continue(w, Idle)
    /\ UNCHANGED <<rows, mailVars, minted, counters>>

=============================================================================
