---------------------------- MODULE EarlyAccess ----------------------------
(***************************************************************************)
(* The early-access system: signups, management links, the daily           *)
(* maintenance and the launch run over one table and one mail provider,    *)
(* with every interleaving of their database and provider calls.           *)
(***************************************************************************)
EXTENDS JoinEarlyAccess, ManageEarlyAccess, LaunchSend

Init ==
    /\ rows = [id \in Ids |-> Null]
    /\ MailInit
    /\ task = [w \in Worker |-> Idle]
    /\ minted = 0
    /\ now = 0
    /\ aborts = 0
    /\ launchRuns = 0

Confirm(w) == ConfirmLoad(w) \/ ConfirmMail(w) \/ ConfirmSave(w)

Join(w) ==
    \/ \E e \in Emails : JoinFind(w, e)
    \/ JoinCreate(w)
    \/ JoinConflict(w)
    \/ JoinRefind(w)
    \/ Resubscribe(w)

Unsubscribe(w) ==
    \/ \E m \in inbox : UnsubscribeFind(w, m.token)
    \/ UnsubscribeSave(w)

Maintain(w) ==
    \/ RetryFind(w)
    \/ RetryRotate(w)
    \/ PurgeFind(w)
    \/ PurgeSave(w)
    \/ MaintenanceDone(w)

Launch(w) ==
    \/ LaunchStart(w)
    \/ LaunchFetch(w)
    \/ LaunchDone(w)
    \/ LaunchSkip(w)
    \/ LaunchRotate(w)
    \/ LaunchLoad(w)
    \/ LaunchReview(w)
    \/ LaunchMark(w)
    \/ LaunchMail(w)
    \/ LaunchSave(w)

Next ==
    \/ \E w \in Worker : \/ Confirm(w)
                        \/ Join(w)
                        \/ Unsubscribe(w)
                        \/ Maintain(w)
                        \/ Launch(w)
                        \/ Abort(w)
    \/ Tick

Spec == Init /\ [][Next]_vars

\* An invocation that has begun goes on until it returns: the platform runs it
\* to the end unless it is aborted.
Step(w) ==
    \/ Confirm(w) \/ JoinCreate(w) \/ JoinConflict(w) \/ JoinRefind(w)
    \/ Resubscribe(w) \/ UnsubscribeSave(w)
    \/ RetryRotate(w) \/ PurgeFind(w) \/ PurgeSave(w) \/ MaintenanceDone(w)

LaunchStep(w) == Launch(w) /\ ~At(w, "idle")

\* The clock goes on, and the cron keeps calling the maintenance route: when a
\* single worker stands for the system, its turn comes again and again between
\* other invocations, hence strong fairness.
Fairness ==
    /\ \A w \in Worker : /\ WF_vars(Step(w))
                         /\ WF_vars(LaunchStep(w))
                         /\ SF_vars(RetryFind(w))
    /\ SF_vars(Tick)

FairSpec == Spec /\ Fairness

-----------------------------------------------------------------------------
\* Every variable has its type.
TypeOK ==
    /\ rows \in [Ids -> Row \cup {Null}]
    /\ MailTypeOK
    /\ task \in [Worker -> Task]
    /\ {minted, now, aborts, launchRuns} \subseteq Nat

\* Two rows that are not anonymized never hold the same address, whatever stale
\* rows the writers save (schema.ts, the partial unique index; spec 9.2).
OneCurrentRowPerEmail ==
    \A i, j \in Current : rows[i].email = rows[j].email => i = j

\* Anonymization takes the address and the link together, or neither.
IdentityWhole(r) ==
    /\ r.anonymized <=> r.email = Null
    /\ r.anonymized <=> r.hash = Null

\* The delivery columns agree with each other.
DeliveryCoherent(r) ==
    /\ r.confirmationStatus = "failed"  <=> r.confirmationNextAttemptAt # Null
    /\ r.confirmationStatus = "pending" <=> r.confirmationAttemptCount = 0
    /\ r.launchStatus = "pending"       <=> r.launchLastAttemptAt = Null
    /\ r.launchStatus = "sent"          <=> r.launchSentAt # Null

Coherent(r) == IdentityWhole(r) /\ DeliveryCoherent(r)

\* Whole-row writes never tear a row: however the writers interleave, every row
\* and every snapshot a worker may yet write back is coherent.
RowsCoherent ==
    /\ \A id \in Ids : Present(id) => Coherent(rows[id])
    /\ \A w \in Worker :
         /\ task[w].row # Null => Coherent(task[w].row)
         /\ \A s \in task[w].batch : Coherent(s.row)

\* What a worker holds fits the step it is about to take: in particular a snapshot
\* it will write back, or will mail about, is of a row that had its address.
Fits(t) ==
    /\ t.pc \in {"create", "refind"} => t.email # Null
    /\ t.pc \in {"resubscribe", "confirm_mail", "confirm_save", "unsubscribe",
                 "launch_review", "launch_mark", "launch_mail", "launch_save"}
          => t.id # Null /\ t.row # Null /\ ~t.row.anonymized
    /\ t.pc \in {"confirm_load", "launch_load"} => t.id # Null
    /\ t.pc = "resubscribe" => t.email # Null
    /\ t.pc \in {"confirm_load", "confirm_mail", "confirm_save"} => t.token # Null
    /\ t.pc \in {"confirm_save", "launch_save"} => t.outcome # Null
    /\ t.pc \in {"launch_mail", "launch_save", "launch_review"}
          => t.row.launchStatus = "sending"
    /\ t.pc = "launch_mark" => t.row.launchStatus # "sent"
    /\ t.pc # "purge" => \A s \in t.batch : ~s.row.anonymized

\* The inductive invariant behind RowsCoherent: coherence of a row alone is not
\* inductive, because the next value of a row is computed from a snapshot.
IInv ==
    /\ TypeOK
    /\ RowsCoherent
    /\ \A w \in Worker : Fits(task[w])

=============================================================================
