----------------------- MODULE EarlyAccessProperties -----------------------
(***************************************************************************)
(* What the early-access system promises beyond the coherence of its rows. *)
(* Most of it is kept while invocations run one after the other; which     *)
(* instance keeps and which breaks each property is in the README.         *)
(***************************************************************************)
EXTENDS EarlyAccess

\* The subscription each row stands for.
Phase(r) ==
    CASE r = Null                 -> "none"
      [] r # Null /\ r.anonymized -> "forgotten"
      [] r # Null /\ ~r.anonymized /\ r.unsubscribedAt = Null -> "subscribed"
      [] OTHER                    -> "unsubscribed"

Notice(r) ==
    CASE r # Null /\ r.launchStatus = "sent"          -> "sent"
      [] r # Null /\ r.launchStatus = "manual_review" -> "review"
      [] OTHER                                        -> "open"

Lifecycle == INSTANCE SubscriptionLifecycle WITH
    Signups   <- Ids,
    Addresses <- Emails,
    Nobody    <- Null,
    phase     <- [id \in Ids |-> Phase(rows[id])],
    owner     <- [id \in Ids |-> IF Present(id) THEN rows[id].email ELSE Null],
    notice    <- [id \in Ids |-> Notice(rows[id])]

\* One invocation at a time implements the subscription lifecycle: opting out
\* is undone only by a renewal, the notice is settled once, anonymized rows stay
\* anonymized and only rows past a boundary become so.
ImplementsLifecycle == Lifecycle!LifecycleSpec

\* Every step keeps to it that an unsubscribed row becomes subscribed again only
\* by the save of a resubscription of that row (spec 6.3, 6.4).
Unsubscribed(id) == id \in Current /\ rows[id].unsubscribedAt # Null
Renewing(id) ==
    \E w \in Worker : /\ At(w, "resubscribe")
                      /\ task[w].id = id
                      /\ task'[w].pc = "confirm_load"
UnsubscribeSticks ==
    [][\A id \in Ids : Unsubscribed(id) /\ id \in LaunchEligible' => Renewing(id)]_vars

\* An anonymized row is never written again: no step restores the address, the
\* link or any other column (privacy-retention.md, "irreversible").
AnonymizedForGood ==
    [][\A id \in Ids : Present(id) /\ rows[id].anonymized => rows'[id] = rows[id]]_vars

\* Only a row whose thirty days since it unsubscribed, or since its launch notice
\* was delivered, are over when it is written loses its address (spec 10).
OnlyDueRowsPurged ==
    [][\A id \in Current : id \notin Current' =>
          \E t \in {rows[id].unsubscribedAt, rows[id].launchSentAt} :
              t # Null /\ now - t >= ThirtyDays]_vars

\* No subscription ever counts more than three attempts to confirm it (spec 11).
AttemptsWithinPolicy ==
    \A id \in Ids : Present(id) =>
        rows[id].confirmationAttemptCount <= MaxConfirmationAttempts

\* The launch notification is never delivered twice to a row (spec 12.3).
LaunchMailOnce == \A id \in Ids : launchMails[id] <= 1

\* A launch run that comes to its end has tried every row that is eligible then:
\* paging by id passes nobody over, wherever the pages and the rows already
\* settled fall.
RunReachesEveryone ==
    [][\A w \in Worker :
          /\ At(w, "launch")
          /\ task'[w].pc = "idle"
          /\ aborts' = aborts
          => \A id \in LaunchEligible : rows[id].launchStatus # "pending"]_vars

\* However many signups of an address race, one row is created and its owner is
\* mailed at most one confirmation (spec 6.2).
OneConfirmationPerSignup ==
    \A e \in Emails :
        /\ Cardinality({id \in Ids : Present(id) /\ rows[id].email = e}) <= 1
        /\ Cardinality({m \in inbox : rows[m.id].email = e}) <= 1

\* A resubscription is confirmed afresh: the first attempt after it must not carry
\* a key the provider still remembers (spec 6.4, "send fresh confirmation").
FreshConfirmationKey ==
    \A w \in Worker :
        At(w, "confirm_mail") /\ task[w].job = "join" =>
            ~Remembered(ConfirmationKey(task[w].id,
                                        task[w].row.confirmationAttemptCount + 1))

\* A mailed link that still manages anything manages the row it was mailed for, and
\* no other: the hash index is not unique, and findByManageTokenHash takes the first
\* match (schema.ts, "randomness already guarantees distinctness").
LinkManagesOwnRow ==
    \A m \in inbox :
        ManagementState(m.token) # "invalid" => FindByManageTokenHash(m.token) = {m.id}

-----------------------------------------------------------------------------
\* Every confirmation that falls due is attempted again, whatever the batch limit
\* leaves for a later run: the row does not stay due.
DueConfirmationRetried ==
    \A id \in Ids : id \in ConfirmationsDue(now) ~> id \notin ConfirmationsDue(now)

\* Every row past its retention boundary is anonymized, or renewed before it is.
DueRowPurged ==
    \A id \in Ids : id \in PiiPurgeDue(now) ~> id \notin PiiPurgeDue(now)

\* A launch run that starts ends, aborted or not.
LaunchRunEnds ==
    \A w \in Worker : task[w].job = "launch" ~> At(w, "idle")

\* Every signup gets an answer about its confirmation: a row does not stay pending
\* (spec 6.1: after persistence, "Confirmation email is attempted").
Pending(id) == id \in Current /\ rows[id].confirmationStatus = "pending"
PendingConfirmationSettles == \A id \in Ids : Pending(id) ~> ~Pending(id)

=============================================================================
