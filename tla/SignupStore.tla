---------------------------- MODULE SignupStore ----------------------------
(***************************************************************************)
(* The early_access_signups table as the repository port offers it: every  *)
(* query and every write is one statement of its own (the Neon HTTP driver *)
(* opens no transaction), and `save' is an UPDATE of the whole row by id,  *)
(* with no version check.  A row that was read is therefore a snapshot, and *)
(* what is written back later is that whole snapshot.                      *)
(*                                                                         *)
(* Abstractions: emailOriginal and emailNormalized are always written      *)
(* together and are one field; anonymizedAt is only ever tested for null   *)
(* and is a Boolean; the columns no operation reads back (consent, created *)
(* and updated times, last confirmation attempt, confirmation sent time,   *)
(* launch attempt count) are left out.  A time is a number of clock ticks. *)
(***************************************************************************)
EXTENDS Integers, FiniteSets

CONSTANTS
    Ids,         \* the UUIDs rows may get; numbers, because launch pages by id
    Emails,      \* normalized addresses
    Null,        \* SQL null, and an absent row
    OneDay,      \* 24 hours, in ticks
    ThirtyDays   \* the retention period, in ticks

VARIABLE rows    \* id |-> the row, or Null before it is inserted

ConfirmationStatus == {"pending", "sent", "failed", "exhausted"}
LaunchStatus == {"pending", "sending", "sent", "failed", "manual_review"}

\* SHA-256 of a management token.  Generated tokens are 256 random bits and
\* never repeat; the launch token is an HMAC of the id, the same on every run.
Token == ({"generated"} \X Nat) \cup ({"launch"} \X Ids)
GeneratedToken(n) == <<"generated", n>>
\* Mutant: an HMAC over no id, one link for every row.
LaunchTokenOfSecret(id) == <<"launch", 1>>
LaunchToken(id) == <<"launch", id>>

Row == [ email                     : Emails \cup {Null},
         hash                      : Token \cup {Null},
         anonymized                : BOOLEAN,
         unsubscribedAt            : Nat \cup {Null},
         confirmationStatus        : ConfirmationStatus,
         confirmationAttemptCount  : Nat,
         confirmationNextAttemptAt : Nat \cup {Null},
         launchStatus              : LaunchStatus,
         launchLastAttemptAt       : Nat \cup {Null},
         launchSentAt              : Nat \cup {Null} ]

ASSUME StoreAssumption ==
    /\ Ids \subseteq Nat \ {0}
    /\ IsFiniteSet(Ids)
    /\ OneDay \in Nat \ {0}
    /\ ThirtyDays \in Nat \ {0}
    /\ Null \notin Nat
    /\ Null \notin Emails
    /\ Null \notin Token
    /\ Null \notin Row

\* The lifecycle defaults of an inserted row.
FreshRow(e, h) ==
    [ email                     |-> e,
      hash                      |-> h,
      anonymized                |-> FALSE,
      unsubscribedAt            |-> Null,
      confirmationStatus        |-> "pending",
      confirmationAttemptCount  |-> 0,
      confirmationNextAttemptAt |-> Null,
      launchStatus              |-> "pending",
      launchLastAttemptAt       |-> Null,
      launchSentAt              |-> Null ]

Snapshot == [id : Ids, row : Row]
SnapshotsOf(S) == {[id |-> i, row |-> rows[i]] : i \in S}

-----------------------------------------------------------------------------
\* Queries.

Present(id) == rows[id] # Null
Current == {id \in Ids : Present(id) /\ ~rows[id].anonymized}

FindCurrentByNormalizedEmail(e) == {id \in Current : rows[id].email = e}

FindByManageTokenHash(h) == {id \in Ids : Present(id) /\ rows[id].hash = h}

\* Mutant: the query forgets that rows may be anonymized.
ConfirmationsDueOfAnyRow(at) ==
    {id \in Ids : /\ Present(id)
                  /\ rows[id].confirmationStatus = "failed"
                  /\ rows[id].confirmationNextAttemptAt # Null
                  /\ rows[id].confirmationNextAttemptAt <= at}

ConfirmationsDue(at) ==
    {id \in Current : /\ rows[id].confirmationStatus = "failed"
                      /\ rows[id].confirmationNextAttemptAt # Null
                      /\ rows[id].confirmationNextAttemptAt <= at}

LaunchEligible == {id \in Current : rows[id].unsubscribedAt = Null}

\* Mutant: pages taken from the largest id down.
LaunchPageDescending(limit, after) ==
    LET later == {id \in LaunchEligible : id > after}
    IN  {id \in later : Cardinality({o \in later : o > id}) < limit}

\* The next page in id order: at most `limit' eligible rows after `after'.
LaunchPage(limit, after) ==
    LET later == {id \in LaunchEligible : id > after}
    IN  {id \in later : Cardinality({o \in later : o < id}) < limit}

PurgeDueRow(r, at) ==
    /\ ~r.anonymized
    /\ \/ r.launchSentAt # Null /\ r.launchSentAt <= at - ThirtyDays
       \/ r.unsubscribedAt # Null /\ r.unsubscribedAt <= at - ThirtyDays

PiiPurgeDue(at) == {id \in Ids : Present(id) /\ PurgeDueRow(rows[id], at)}

\* Mutant: an off-by-one limit.
LimitedShort(S, limit) ==
    IF Cardinality(S) < limit THEN {S}
    ELSE {B \in SUBSET S : Cardinality(B) = limit - 1}

\* LIMIT without ORDER BY: any `limit' of the matching rows.
Limited(S, limit) ==
    IF Cardinality(S) <= limit THEN {S}
    ELSE {B \in SUBSET S : Cardinality(B) = limit}

-----------------------------------------------------------------------------
\* Writes.

\* Mutant: the index leaves unsubscribed rows out as well.
IndexAllowsBesideUnsubscribed(id, r) ==
    \/ r.anonymized
    \/ r.email = Null
    \/ \A o \in LaunchEligible \ {id} : rows[o].email # r.email

\* The partial unique index over the addresses of rows not yet anonymized.
IndexAllows(id, r) ==
    \/ r.anonymized
    \/ r.email = Null
    \/ \A o \in Current \ {id} : rows[o].email # r.email

Create(id, e, h) ==
    /\ ~Present(id)
    /\ IndexAllows(id, FreshRow(e, h))
    /\ rows' = [rows EXCEPT ![id] = FreshRow(e, h)]

Save(id, r) ==
    /\ Present(id)
    /\ IndexAllows(id, r)
    /\ rows' = [rows EXCEPT ![id] = r]

=============================================================================
