------------------------- MODULE EarlyAccess_proofs -------------------------
(***************************************************************************)
(* Theorems about EarlyAccess for every number of rows, addresses and      *)
(* workers and every bound: types, the unique index, and the coherence of  *)
(* rows under every interleaving of whole-row writes.                      *)
(***************************************************************************)
EXTENDS EarlyAccess, TLAPS

\* The rows and the local states the invariant admits.
GoodRow(r) == r \in Row /\ Coherent(r)

GoodTask(t) ==
    /\ t \in Task
    /\ Fits(t)
    /\ t.row # Null => Coherent(t.row)
    /\ \A s \in t.batch : Coherent(s.row)

-----------------------------------------------------------------------------
\* Row operators: what each write computes from a good row is a good row.

\* An inserted row is good.
LEMMA FreshRowGood ==
    ASSUME NEW e \in Emails, NEW h \in Token
    PROVE  GoodRow(FreshRow(e, h)) /\ ~FreshRow(e, h).anonymized
  BY StoreAssumption
  DEF FreshRow, GoodRow, Row, Coherent, IdentityWhole, DeliveryCoherent,
      ConfirmationStatus, LaunchStatus

\* A renewed subscription is good, if the row still had its address when read.
LEMMA ResubscribedGood ==
    ASSUME NEW r, GoodRow(r), ~r.anonymized, NEW e \in Emails, NEW h \in Token
    PROVE  GoodRow(Resubscribed(r, e, h))
  BY StoreAssumption
  DEF Resubscribed, GoodRow, Row, Coherent, IdentityWhole, DeliveryCoherent,
      ConfirmationStatus, LaunchStatus

\* A rotated link leaves a row good.
LEMMA RotatedGood ==
    ASSUME NEW r, GoodRow(r), ~r.anonymized, NEW h \in Token
    PROVE  GoodRow([r EXCEPT !.hash = h])
  BY StoreAssumption
  DEF GoodRow, Row, Coherent, IdentityWhole, DeliveryCoherent

\* Unsubscribing leaves a row good.
LEMMA UnsubscribedGood ==
    ASSUME NEW r, GoodRow(r), NEW at \in Nat
    PROVE  GoodRow([r EXCEPT !.unsubscribedAt = at])
  BY DEF GoodRow, Row, Coherent, IdentityWhole, DeliveryCoherent

\* Anonymizing leaves a row good.
LEMMA AnonymizedGood ==
    ASSUME NEW r, GoodRow(r)
    PROVE  GoodRow(Anonymized(r))
  BY DEF Anonymized, GoodRow, Row, Coherent, IdentityWhole, DeliveryCoherent

\* The outcome of a confirmation attempt leaves a row good.
LEMMA ApplyOutcomeGood ==
    ASSUME NEW r, GoodRow(r), NEW outcome \in Outcomes, NEW at \in Nat
    PROVE  GoodRow(ApplyOutcome(r, outcome, at))
  <1> DEFINE attempt == r.confirmationAttemptCount + 1
             after   == at + OneDay
  <1>1. attempt \in Nat /\ attempt # 0 /\ after \in Nat /\ after # Null
    BY StoreAssumption DEF GoodRow, Row
  <1>2. CASE outcome = "accepted"
    <2>1. ApplyOutcome(r, outcome, at) =
            [r EXCEPT !.confirmationStatus = "sent",
                      !.confirmationAttemptCount = attempt,
                      !.confirmationNextAttemptAt = Null]
      BY <1>2 DEF ApplyOutcome
    <2> QED
      BY <1>1, <2>1 DEF GoodRow, Row, Coherent, IdentityWhole, DeliveryCoherent,
                        ConfirmationStatus
  <1>3. CASE outcome = "known_retryable_failure" /\ attempt < MaxConfirmationAttempts
    <2>1. ApplyOutcome(r, outcome, at) =
            [r EXCEPT !.confirmationStatus = "failed",
                      !.confirmationAttemptCount = attempt,
                      !.confirmationNextAttemptAt = after]
      BY <1>3 DEF ApplyOutcome
    <2> QED
      BY <1>1, <2>1 DEF GoodRow, Row, Coherent, IdentityWhole, DeliveryCoherent,
                        ConfirmationStatus
  <1>4. CASE /\ outcome # "accepted"
             /\ ~(outcome = "known_retryable_failure" /\ attempt < MaxConfirmationAttempts)
    <2>1. ApplyOutcome(r, outcome, at) =
            [r EXCEPT !.confirmationStatus = "exhausted",
                      !.confirmationAttemptCount = attempt,
                      !.confirmationNextAttemptAt = Null]
      BY <1>4 DEF ApplyOutcome
    <2> QED
      BY <1>1, <2>1 DEF GoodRow, Row, Coherent, IdentityWhole, DeliveryCoherent,
                        ConfirmationStatus
  <1> QED
    BY <1>2, <1>3, <1>4

\* Setting an open attempt aside for review leaves a row good.
LEMMA LaunchReviewGood ==
    ASSUME NEW r, GoodRow(r), r.launchStatus = "sending"
    PROVE  GoodRow([r EXCEPT !.launchStatus = "manual_review"])
  BY DEF GoodRow, Row, Coherent, IdentityWhole, DeliveryCoherent, LaunchStatus

\* Marking a row that was not sent as sending leaves it good.
LEMMA LaunchMarkGood ==
    ASSUME NEW r, GoodRow(r), r.launchStatus # "sent", NEW at \in Nat
    PROVE  GoodRow([r EXCEPT !.launchStatus = "sending", !.launchLastAttemptAt = at])
  BY StoreAssumption
  DEF GoodRow, Row, Coherent, IdentityWhole, DeliveryCoherent, LaunchStatus

\* The outcome of a launch attempt leaves an open row good.
LEMMA LaunchOutcomeGood ==
    ASSUME NEW r, GoodRow(r), r.launchStatus = "sending",
           NEW outcome \in Outcomes, now \in Nat
    PROVE  GoodRow(LaunchOutcome(r, outcome))
  BY StoreAssumption
  DEF LaunchOutcome, GoodRow, Row, Coherent, IdentityWhole, DeliveryCoherent,
      LaunchStatus, Outcomes

-----------------------------------------------------------------------------
\* The invariant, one conjunct for each group of variables.

RowsGood ==
    /\ rows \in [Ids -> Row \cup {Null}]
    /\ \A id \in Ids : rows[id] # Null => GoodRow(rows[id])

TasksGood ==
    /\ task \in [Worker -> Task]
    /\ \A w \in Worker : GoodTask(task[w])

CountersOK == {minted, now, aborts, launchRuns} \subseteq Nat

Good == RowsGood /\ TasksGood /\ MailTypeOK /\ CountersOK

\* The same invariant, stated over the groups.
LEMMA GoodIsIInv == Good <=> IInv
  BY StoreAssumption
  DEF Good, RowsGood, TasksGood, CountersOK, IInv, TypeOK, RowsCoherent, GoodRow,
      GoodTask, Present

\* What workers hold stays good when one of them goes on as a good task.
LEMMA ContinueGood ==
    ASSUME TasksGood, NEW w \in Worker, NEW t, GoodTask(t), Continue(w, t)
    PROVE  TasksGood'
  BY DEF TasksGood, Continue, GoodTask

\* A worker that returned holds nothing.
LEMMA IdleGood == GoodTask(Idle)
  BY StoreAssumption
  DEF Idle, GoodTask, Task, Fits, ProgramCounter, Snapshot

\* The table stays good when a good row is saved.
LEMMA SaveGood ==
    ASSUME RowsGood, NEW id \in Ids, NEW r, GoodRow(r), Save(id, r)
    PROVE  RowsGood'
  BY DEF RowsGood, Save, GoodRow

\* The table stays good when a row is inserted.
LEMMA CreateGood ==
    ASSUME RowsGood, NEW id \in Ids, NEW e \in Emails, NEW h \in Token, Create(id, e, h)
    PROVE  RowsGood'
  BY FreshRowGood DEF RowsGood, Create, GoodRow

\* A save, or the conflict it throws, keeps table and workers good.
LEMMA SaveThenGood ==
    ASSUME RowsGood, TasksGood, NEW w \in Worker, NEW id \in Ids,
           NEW r, GoodRow(r), NEW t, GoodTask(t), SaveThen(w, id, r, t)
    PROVE  RowsGood' /\ TasksGood'
  <1>1. CASE Save(id, r) /\ Continue(w, t)
    BY <1>1, SaveGood, ContinueGood
  <1>2. CASE UNCHANGED rows /\ Continue(w, Idle)
    <2>1. RowsGood'
      BY <1>2 DEF RowsGood, GoodRow
    <2> QED
      BY <1>2, <2>1, IdleGood, ContinueGood
  <1> QED
    BY <1>1, <1>2 DEF SaveThen

\* An answer of the provider keeps its books typed.
LEMMA SendTyped ==
    ASSUME MailTypeOK, NEW key \in Key, NEW token \in Token, NEW at \in Nat,
           NEW outcome, Send(key, token, at, outcome)
    PROVE  MailTypeOK'
  <1>1. CASE Deliver(key, token, at)
    <2>1. key.id \in Ids /\ launchMails[key.id] \in Nat
      BY DEF Key, MailTypeOK
    <2>2. ledger' \subseteq [key : Key, at : Nat]
      BY <1>1 DEF Deliver, MailTypeOK
    <2>3. inbox' \subseteq [id : Ids, token : Token]
      BY <1>1, <2>1 DEF Deliver, MailTypeOK
    <2>4. launchMails' \in [Ids -> Nat]
      BY <1>1, <2>1 DEF Deliver, MailTypeOK
    <2> QED
      BY <2>2, <2>3, <2>4 DEF MailTypeOK
  <1>2. CASE UNCHANGED mailVars
    BY <1>2 DEF mailVars, MailTypeOK
  <1> QED
    BY <1>1, <1>2 DEF Send

\* Snapshots read from a good table are good.
LEMMA SnapshotsGood ==
    ASSUME RowsGood, NEW S \in SUBSET Ids, \A id \in S : rows[id] # Null
    PROVE  /\ SnapshotsOf(S) \subseteq Snapshot
           /\ \A s \in SnapshotsOf(S) : GoodRow(s.row)
  BY DEF SnapshotsOf, Snapshot, RowsGood, GoodRow

\* A batch limit takes rows that match.
LEMMA LimitedSubset ==
    ASSUME NEW S, NEW limit, NEW B \in Limited(S, limit)
    PROVE  B \subseteq S
  BY DEF Limited

-----------------------------------------------------------------------------
\* SendConfirmation keeps the invariant.

\* The worker that goes on after the use case is good: it is idle, or holds the
\* batch it held before.
LEMMA AfterConfirmationGood ==
    ASSUME TasksGood, NEW w \in Worker, task[w].pc # "purge"
    PROVE  GoodTask(AfterConfirmation(w))
  <1>1. GoodTask(task[w])
    BY DEF TasksGood
  <1>2. CASE task[w].job = "maintenance"
    BY <1>1, <1>2, StoreAssumption
    DEF AfterConfirmation, GoodTask, Task, Fits, ProgramCounter, Idle
  <1>3. CASE task[w].job # "maintenance"
    BY <1>3, IdleGood DEF AfterConfirmation
  <1> QED
    BY <1>2, <1>3

\* Loading the row of a confirmation keeps the invariant.
LEMMA ConfirmLoadGood ==
    ASSUME Good, NEW w \in Worker, ConfirmLoad(w)
    PROVE  Good'
  <1> DEFINE loaded == [task[w] EXCEPT !.pc = "confirm_mail", !.row = rows[task[w].id]]
  <1>1. GoodTask(task[w]) /\ task[w].pc = "confirm_load" /\ task[w].id \in Ids
    BY DEF Good, TasksGood, GoodTask, Task, Fits, ConfirmLoad, At
  <1>2. TasksGood'
    <2>1. CASE Present(task[w].id) /\ ~rows[task[w].id].anonymized /\ Continue(w, loaded)
      <3>1. GoodRow(rows[task[w].id])
        BY <1>1, <2>1 DEF Good, RowsGood, Present
      <3>2. GoodTask(loaded)
        BY <1>1, <2>1, <3>1, StoreAssumption
        DEF GoodTask, Task, Fits, ProgramCounter, GoodRow, Present
      <3> QED
        BY <2>1, <3>2, ContinueGood DEF Good
    <2>2. CASE Continue(w, AfterConfirmation(w))
      BY <1>1, <2>2, AfterConfirmationGood, ContinueGood DEF Good
    <2> QED
      BY <2>1, <2>2 DEF ConfirmLoad
  <1> QED
    BY <1>2 DEF Good, ConfirmLoad, RowsGood, GoodRow, MailTypeOK, mailVars, CountersOK,
                counters

\* So does mailing the confirmation, whatever the provider answers.
LEMMA ConfirmMailGood ==
    ASSUME Good, NEW w \in Worker, ConfirmMail(w)
    PROVE  Good'
  <1>1. PICK outcome \in Outcomes :
          /\ Send(ConfirmationKey(task[w].id, task[w].row.confirmationAttemptCount + 1),
                  task[w].token, now, outcome)
          /\ Continue(w, [task[w] EXCEPT !.pc = "confirm_save", !.outcome = outcome])
    BY DEF ConfirmMail
  <1>2. /\ GoodTask(task[w])
        /\ task[w].id \in Ids
        /\ task[w].row \in Row
        /\ task[w].token \in Token
        /\ task[w].pc = "confirm_mail"
    BY DEF Good, TasksGood, GoodTask, Task, Fits, ConfirmMail, At
  <1>3. MailTypeOK'
    <2>1. ConfirmationKey(task[w].id, task[w].row.confirmationAttemptCount + 1) \in Key
      BY <1>2 DEF ConfirmationKey, Key, Row
    <2> QED
      BY <1>1, <1>2, <2>1, SendTyped DEF Good, CountersOK
  <1>4. GoodTask([task[w] EXCEPT !.pc = "confirm_save", !.outcome = outcome])
    BY <1>2, MailAssumption DEF GoodTask, Task, Fits, ProgramCounter
  <1>5. TasksGood'
    BY <1>1, <1>4, ContinueGood DEF Good
  <1> QED
    BY <1>3, <1>5 DEF Good, ConfirmMail, RowsGood, GoodRow, CountersOK, counters

\* So does saving its outcome onto the row that was loaded.
LEMMA ConfirmSaveGood ==
    ASSUME Good, NEW w \in Worker, ConfirmSave(w)
    PROVE  Good'
  <1>1. /\ GoodTask(task[w])
        /\ task[w].id \in Ids
        /\ GoodRow(task[w].row)
        /\ task[w].outcome \in Outcomes
        /\ task[w].pc = "confirm_save"
    BY DEF Good, TasksGood, GoodTask, Task, Fits, ConfirmSave, At, GoodRow
  <1>2. GoodRow(ApplyOutcome(task[w].row, task[w].outcome, now))
    BY <1>1, ApplyOutcomeGood DEF Good, CountersOK
  <1>3. RowsGood' /\ TasksGood'
    BY <1>1, <1>2, AfterConfirmationGood, SaveThenGood DEF Good, ConfirmSave
  <1> QED
    BY <1>3 DEF Good, ConfirmSave, MailTypeOK, mailVars, CountersOK, counters

-----------------------------------------------------------------------------
\* Join and Resubscribe keep the invariant.

\* A generated token is a token.
LEMMA NewTokenTyped ==
    ASSUME CountersOK
    PROVE  NewToken \in Token
  BY DEF CountersOK, NewToken, GeneratedToken, Token

\* The worker that goes on to the confirmation of a signup is good.
LEMMA ConfirmingGood ==
    ASSUME NEW w \in Worker, task[w].email \in Emails, NEW id \in Ids,
           NEW token \in Token
    PROVE  GoodTask(Confirming(w, id, token))
  BY StoreAssumption
  DEF Confirming, Joining, Idle, GoodTask, Task, Fits, ProgramCounter

\* A current row that was found leaves a good worker, with or without a renewal.
LEMMA ResolveExistingGood ==
    ASSUME Good, NEW w \in Worker, NEW e \in Emails,
           NEW id \in FindCurrentByNormalizedEmail(e), ResolveExisting(w, e, id)
    PROVE  TasksGood'
  <1> DEFINE renewing == [Joining(e) EXCEPT !.pc = "resubscribe", !.id = id,
                                            !.row = rows[id]]
  <1>1. id \in Ids /\ GoodRow(rows[id]) /\ ~rows[id].anonymized
    BY DEF Good, RowsGood, FindCurrentByNormalizedEmail, Current, Present
  <1>2. GoodTask(renewing)
    BY <1>1, StoreAssumption
    DEF Joining, Idle, GoodTask, Task, Fits, ProgramCounter, GoodRow
  <1>3. CASE Continue(w, renewing)
    BY <1>2, <1>3, ContinueGood DEF Good
  <1>4. CASE Continue(w, Idle)
    BY <1>4, IdleGood, ContinueGood DEF Good
  <1> QED
    BY <1>3, <1>4 DEF ResolveExisting

\* A signup that looks up its address keeps the invariant.
LEMMA JoinFindGood ==
    ASSUME Good, NEW w \in Worker, NEW e \in Emails, JoinFind(w, e)
    PROVE  Good'
  <1> DEFINE creating == [Joining(e) EXCEPT !.pc = "create"]
  <1>1. GoodTask(creating)
    BY StoreAssumption DEF Joining, Idle, GoodTask, Task, Fits, ProgramCounter
  <1>2. TasksGood'
    <2>1. CASE Continue(w, creating)
      BY <1>1, <2>1, ContinueGood DEF Good
    <2>2. CASE \E id \in FindCurrentByNormalizedEmail(e) : ResolveExisting(w, e, id)
      BY <2>2, ResolveExistingGood
    <2> QED
      BY <2>1, <2>2 DEF JoinFind
  <1> QED
    BY <1>2 DEF Good, JoinFind, RowsGood, GoodRow, MailTypeOK, mailVars, CountersOK,
                counters

\* So does inserting the row.
LEMMA JoinCreateGood ==
    ASSUME Good, NEW w \in Worker, JoinCreate(w)
    PROVE  Good'
  <1>1. task[w].email \in Emails
    BY DEF Good, TasksGood, GoodTask, Task, Fits, JoinCreate, At
  <1>2. PICK id \in Ids : /\ Create(id, task[w].email, NewToken)
                          /\ Continue(w, Confirming(w, id, NewToken))
    BY DEF JoinCreate
  <1>3. NewToken \in Token
    BY NewTokenTyped DEF Good
  <1>4. RowsGood'
    BY <1>1, <1>2, <1>3, CreateGood DEF Good
  <1>5. TasksGood'
    BY <1>1, <1>2, <1>3, ConfirmingGood, ContinueGood DEF Good
  <1> QED
    BY <1>4, <1>5 DEF Good, JoinCreate, Mint, MailTypeOK, mailVars, CountersOK, counters

\* So does the conflict of a lost insert.
LEMMA JoinConflictGood ==
    ASSUME Good, NEW w \in Worker, JoinConflict(w)
    PROVE  Good'
  <1> DEFINE refinding == [task[w] EXCEPT !.pc = "refind"]
  <1>1. GoodTask(refinding)
    BY DEF Good, TasksGood, GoodTask, Task, Fits, ProgramCounter, JoinConflict, At
  <1>2. TasksGood'
    BY <1>1, ContinueGood DEF Good, JoinConflict
  <1> QED
    BY <1>2 DEF Good, JoinConflict, RowsGood, GoodRow, MailTypeOK, mailVars, CountersOK,
                counters

\* So does the second look-up after the conflict.
LEMMA JoinRefindGood ==
    ASSUME Good, NEW w \in Worker, JoinRefind(w)
    PROVE  Good'
  <1>1. task[w].email \in Emails
    BY DEF Good, TasksGood, GoodTask, Task, Fits, JoinRefind, At
  <1>2. TasksGood'
    <2>1. CASE Continue(w, Idle)
      BY <2>1, IdleGood, ContinueGood DEF Good
    <2>2. CASE \E id \in FindCurrentByNormalizedEmail(task[w].email) :
                 ResolveExisting(w, task[w].email, id)
      BY <1>1, <2>2, ResolveExistingGood
    <2> QED
      BY <2>1, <2>2 DEF JoinRefind
  <1> QED
    BY <1>2 DEF Good, JoinRefind, RowsGood, GoodRow, MailTypeOK, mailVars, CountersOK,
                counters

\* So does the save of a renewed subscription.
LEMMA ResubscribeGood ==
    ASSUME Good, NEW w \in Worker, Resubscribe(w)
    PROVE  Good'
  <1>1. /\ task[w].id \in Ids
        /\ task[w].email \in Emails
        /\ GoodRow(task[w].row)
        /\ ~task[w].row.anonymized
    BY DEF Good, TasksGood, GoodTask, Task, Fits, Resubscribe, At, GoodRow
  <1>2. NewToken \in Token
    BY NewTokenTyped DEF Good
  <1>3. GoodRow(Resubscribed(task[w].row, task[w].email, NewToken))
    BY <1>1, <1>2, ResubscribedGood
  <1>4. GoodTask(Confirming(w, task[w].id, NewToken))
    BY <1>1, <1>2, ConfirmingGood
  <1>5. RowsGood' /\ TasksGood'
    BY <1>1, <1>3, <1>4, SaveThenGood DEF Good, Resubscribe
  <1> QED
    BY <1>5 DEF Good, Resubscribe, Mint, MailTypeOK, mailVars, CountersOK, counters

-----------------------------------------------------------------------------
\* Unsubscribe keeps the invariant.

\* Reading the row of a link keeps the invariant.
LEMMA UnsubscribeFindGood ==
    ASSUME Good, NEW w \in Worker, NEW token, UnsubscribeFind(w, token)
    PROVE  Good'
  <1> DEFINE leaving(id) == [Idle EXCEPT !.pc = "unsubscribe", !.job = "unsubscribe",
                                         !.id = id, !.row = rows[id]]
  <1>1. PICK id \in FindByManageTokenHash(token) :
          ~rows[id].anonymized /\ Continue(w, leaving(id))
    BY DEF UnsubscribeFind
  <1>2. id \in Ids /\ GoodRow(rows[id])
    BY DEF FindByManageTokenHash, Present, Good, RowsGood
  <1>3. GoodTask(leaving(id))
    BY <1>1, <1>2, StoreAssumption DEF Idle, GoodTask, Task, Fits, ProgramCounter, GoodRow
  <1>4. TasksGood'
    BY <1>1, <1>3, ContinueGood DEF Good
  <1> QED
    BY <1>4 DEF Good, UnsubscribeFind, RowsGood, GoodRow, MailTypeOK, mailVars,
                CountersOK, counters

\* So does the save of the unsubscribed row.
LEMMA UnsubscribeSaveGood ==
    ASSUME Good, NEW w \in Worker, UnsubscribeSave(w)
    PROVE  Good'
  <1>1. task[w].id \in Ids /\ GoodRow(task[w].row)
    BY DEF Good, TasksGood, GoodTask, Task, Fits, UnsubscribeSave, At, GoodRow
  <1>2. GoodRow([task[w].row EXCEPT !.unsubscribedAt = now])
    BY <1>1, UnsubscribedGood DEF Good, CountersOK
  <1>3. RowsGood' /\ TasksGood'
    BY <1>1, <1>2, IdleGood, SaveThenGood DEF Good, UnsubscribeSave
  <1> QED
    BY <1>3 DEF Good, UnsubscribeSave, MailTypeOK, mailVars, CountersOK, counters

-----------------------------------------------------------------------------
\* A maintenance run keeps the invariant.

\* A run that holds good snapshots is good; while it retries, they have addresses.
LEMMA MaintainingGood ==
    ASSUME NEW pc \in {"retry", "purge"}, NEW batch \in SUBSET Snapshot,
           \A s \in batch : Coherent(s.row),
           pc = "retry" => \A s \in batch : ~s.row.anonymized
    PROVE  GoodTask(Maintaining(pc, batch))
  BY StoreAssumption DEF Maintaining, Idle, GoodTask, Task, Fits, ProgramCounter

\* Reading a batch of due confirmations keeps the invariant.
LEMMA RetryFindGood ==
    ASSUME Good, NEW w \in Worker, RetryFind(w)
    PROVE  Good'
  <1>1. PICK B \in Limited(ConfirmationsDue(now), BatchSize) :
          Continue(w, Maintaining("retry", SnapshotsOf(B)))
    BY DEF RetryFind
  <1>2. B \subseteq Current
    BY LimitedSubset DEF ConfirmationsDue
  <1>3. /\ SnapshotsOf(B) \subseteq Snapshot
        /\ \A s \in SnapshotsOf(B) : GoodRow(s.row)
    BY <1>2, SnapshotsGood DEF Good, Current, Present
  <1>4. \A s \in SnapshotsOf(B) : ~s.row.anonymized
    BY <1>2 DEF SnapshotsOf, Current
  <1>5. GoodTask(Maintaining("retry", SnapshotsOf(B)))
    BY <1>3, <1>4, MaintainingGood DEF GoodRow
  <1>6. TasksGood'
    BY <1>1, <1>5, ContinueGood DEF Good
  <1> QED
    BY <1>6 DEF Good, RetryFind, RowsGood, GoodRow, MailTypeOK, mailVars, CountersOK,
                counters

\* So does rotating the link of one of them.
LEMMA RetryRotateGood ==
    ASSUME Good, NEW w \in Worker, RetryRotate(w)
    PROVE  Good'
  <1> DEFINE confirming(s) == [Maintaining("confirm_load", task[w].batch \ {s})
                                 EXCEPT !.id = s.id, !.token = NewToken]
  <1>1. PICK s \in task[w].batch :
          SaveThen(w, s.id, [s.row EXCEPT !.hash = NewToken], confirming(s))
    BY DEF RetryRotate
  <1>2. /\ task[w] \in Task
        /\ \A o \in task[w].batch : Coherent(o.row) /\ ~o.row.anonymized
    BY DEF Good, TasksGood, GoodTask, Fits, RetryRotate, At
  <1>3. s.id \in Ids /\ GoodRow(s.row) /\ ~s.row.anonymized
    BY <1>2 DEF Task, Snapshot, GoodRow
  <1>4. NewToken \in Token
    BY NewTokenTyped DEF Good
  <1>5. GoodTask(confirming(s))
    <2>1. task[w].batch \ {s} \in SUBSET Snapshot
      BY <1>2 DEF Task
    <2>2. confirming(s) \in Task
      BY <1>3, <1>4, <2>1 DEF Maintaining, Idle, Task, ProgramCounter
    <2>3. /\ confirming(s).pc = "confirm_load"
          /\ confirming(s).id = s.id
          /\ confirming(s).token = NewToken
          /\ confirming(s).row = Null
          /\ confirming(s).batch = task[w].batch \ {s}
      BY DEF Maintaining, Idle
    <2> HIDE DEF confirming
    <2>4. Fits(confirming(s))
      BY <1>2, <1>3, <1>4, <2>3, StoreAssumption DEF Fits
    <2> QED
      BY <1>2, <2>2, <2>3, <2>4 DEF GoodTask
  <1>6. RowsGood' /\ TasksGood'
    BY <1>1, <1>3, <1>4, <1>5, RotatedGood, SaveThenGood DEF Good
  <1> QED
    BY <1>6 DEF Good, RetryRotate, Mint, MailTypeOK, mailVars, CountersOK, counters

\* So does reading a batch of rows to purge.
LEMMA PurgeFindGood ==
    ASSUME Good, NEW w \in Worker, PurgeFind(w)
    PROVE  Good'
  <1>1. PICK B \in Limited(PiiPurgeDue(now), BatchSize) :
          Continue(w, Maintaining("purge", SnapshotsOf(B)))
    BY DEF PurgeFind
  <1>2. B \subseteq PiiPurgeDue(now)
    BY LimitedSubset
  <1>3. /\ SnapshotsOf(B) \subseteq Snapshot
        /\ \A s \in SnapshotsOf(B) : GoodRow(s.row)
    BY <1>2, SnapshotsGood DEF Good, PiiPurgeDue, Present
  <1>4. GoodTask(Maintaining("purge", SnapshotsOf(B)))
    BY <1>3, MaintainingGood DEF GoodRow
  <1>5. TasksGood'
    BY <1>1, <1>4, ContinueGood DEF Good
  <1> QED
    BY <1>5 DEF Good, PurgeFind, RowsGood, GoodRow, MailTypeOK, mailVars, CountersOK,
                counters

\* So does anonymizing one of them from its snapshot.
LEMMA PurgeSaveGood ==
    ASSUME Good, NEW w \in Worker, PurgeSave(w)
    PROVE  Good'
  <1>1. PICK s \in task[w].batch :
          /\ Save(s.id, Anonymized(s.row))
          /\ Continue(w, Maintaining("purge", task[w].batch \ {s}))
    BY DEF PurgeSave
  <1>2. task[w] \in Task /\ \A o \in task[w].batch : Coherent(o.row)
    BY DEF Good, TasksGood, GoodTask
  <1>3. s.id \in Ids /\ GoodRow(s.row)
    BY <1>2 DEF Task, Snapshot, GoodRow
  <1>4. RowsGood'
    BY <1>1, <1>3, AnonymizedGood, SaveGood DEF Good
  <1>5. GoodTask(Maintaining("purge", task[w].batch \ {s}))
    BY <1>2, MaintainingGood DEF Task
  <1>6. TasksGood'
    BY <1>1, <1>5, ContinueGood DEF Good
  <1> QED
    BY <1>4, <1>6 DEF Good, PurgeSave, MailTypeOK, mailVars, CountersOK, counters

\* So does the end of the run.
LEMMA MaintenanceDoneGood ==
    ASSUME Good, NEW w \in Worker, MaintenanceDone(w)
    PROVE  Good'
  <1>1. TasksGood'
    BY IdleGood, ContinueGood DEF Good, MaintenanceDone
  <1> QED
    BY <1>1 DEF Good, MaintenanceDone, RowsGood, GoodRow, MailTypeOK, mailVars,
                CountersOK, counters

-----------------------------------------------------------------------------
\* A launch run keeps the invariant.

\* A run that holds a page of good snapshots with addresses is good.
LEMMA LaunchingGood ==
    ASSUME NEW batch \in SUBSET Snapshot,
           \A s \in batch : Coherent(s.row) /\ ~s.row.anonymized,
           NEW more \in BOOLEAN, NEW after \in Nat
    PROVE  GoodTask(Launching(batch, more, after))
  BY StoreAssumption DEF Launching, Idle, GoodTask, Task, Fits, ProgramCounter

\* The run that goes back to its page is good.
LEMMA ProcessedGood ==
    ASSUME TasksGood, NEW w \in Worker, task[w].pc # "purge"
    PROVE  GoodTask(Processed(w))
  <1>1. /\ task[w].batch \in SUBSET Snapshot
        /\ \A s \in task[w].batch : Coherent(s.row) /\ ~s.row.anonymized
        /\ task[w].more \in BOOLEAN
        /\ task[w].after \in Nat
    BY DEF TasksGood, GoodTask, Task, Fits
  <1> QED
    BY <1>1, LaunchingGood DEF Processed

\* The run that took s from its page is good.
LEMMA PastGood ==
    ASSUME TasksGood, NEW w \in Worker, task[w].pc # "purge", NEW s \in task[w].batch
    PROVE  GoodTask(Past(w, s))
  <1>1. /\ task[w].batch \ {s} \in SUBSET Snapshot
        /\ \A o \in task[w].batch \ {s} : Coherent(o.row) /\ ~o.row.anonymized
        /\ task[w].more \in BOOLEAN
        /\ s.id \in Nat
    BY StoreAssumption DEF TasksGood, GoodTask, Task, Fits, Snapshot
  <1> QED
    BY <1>1, LaunchingGood DEF Past

\* Dispatching a run keeps the invariant.
LEMMA LaunchStartGood ==
    ASSUME Good, NEW w \in Worker, LaunchStart(w)
    PROVE  Good'
  <1>1. GoodTask(Launching({}, TRUE, 0))
    BY LaunchingGood
  <1>2. TasksGood'
    BY <1>1, ContinueGood DEF Good, LaunchStart
  <1> QED
    BY <1>2 DEF Good, LaunchStart, RowsGood, GoodRow, MailTypeOK, mailVars, CountersOK

\* So does fetching a page.
LEMMA LaunchFetchGood ==
    ASSUME Good, NEW w \in Worker, LaunchFetch(w)
    PROVE  Good'
  <1> DEFINE page == LaunchPage(BatchSize, task[w].after)
             full == Cardinality(page) = BatchSize
  <1>1. task[w].after \in Nat
    BY DEF Good, TasksGood, GoodTask, Task
  <1>2. page \subseteq Current
    BY DEF LaunchPage, LaunchEligible
  <1>3. /\ SnapshotsOf(page) \subseteq Snapshot
        /\ \A s \in SnapshotsOf(page) : GoodRow(s.row) /\ ~s.row.anonymized
    <2>1. \A id \in page : id \in Ids /\ rows[id] # Null /\ ~rows[id].anonymized
      BY <1>2 DEF Current, Present
    <2> HIDE DEF page
    <2> QED
      BY <2>1, SnapshotsGood DEF Good, SnapshotsOf
  <1>4. full \in BOOLEAN
    OBVIOUS
  <1>5. GoodTask(Launching(SnapshotsOf(page), full, task[w].after))
    <2> HIDE DEF page, full
    <2> QED
      BY <1>1, <1>3, <1>4, LaunchingGood DEF GoodRow
  <1>6. TasksGood'
    BY <1>5, IdleGood, ContinueGood DEF Good, LaunchFetch
  <1> QED
    BY <1>6 DEF Good, LaunchFetch, RowsGood, GoodRow, MailTypeOK, mailVars, CountersOK,
                counters

\* So does the end of the run.
LEMMA LaunchDoneGood ==
    ASSUME Good, NEW w \in Worker, LaunchDone(w)
    PROVE  Good'
  <1>1. TasksGood'
    BY IdleGood, ContinueGood DEF Good, LaunchDone
  <1> QED
    BY <1>1 DEF Good, LaunchDone, RowsGood, GoodRow, MailTypeOK, mailVars, CountersOK,
                counters

\* So does skipping a settled row.
LEMMA LaunchSkipGood ==
    ASSUME Good, NEW w \in Worker, LaunchSkip(w)
    PROVE  Good'
  <1>1. PICK s \in task[w].batch : Continue(w, Past(w, s))
    BY DEF LaunchSkip
  <1>2. TasksGood'
    BY <1>1, PastGood, ContinueGood DEF Good, LaunchSkip, At
  <1> QED
    BY <1>2 DEF Good, LaunchSkip, RowsGood, GoodRow, MailTypeOK, mailVars, CountersOK,
                counters

\* So does storing the hash of the launch link.
LEMMA LaunchRotateGood ==
    ASSUME Good, NEW w \in Worker, LaunchRotate(w)
    PROVE  Good'
  <1> DEFINE loading(s) == [Past(w, s) EXCEPT !.pc = "launch_load", !.id = s.id]
  <1>1. PICK s \in task[w].batch :
          SaveThen(w, s.id, [s.row EXCEPT !.hash = LaunchToken(s.id)], loading(s))
    BY DEF LaunchRotate
  <1>2. task[w].pc = "launch"
    BY DEF LaunchRotate, At
  <1>3. s.id \in Ids /\ GoodRow(s.row) /\ ~s.row.anonymized
    BY <1>2 DEF Good, TasksGood, GoodTask, Task, Fits, Snapshot, GoodRow
  <1>4. LaunchToken(s.id) \in Token
    BY <1>3 DEF LaunchToken, Token
  <1>5. GoodTask(loading(s))
    <2>1. GoodTask(Past(w, s)) /\ Past(w, s).pc = "launch" /\ Past(w, s).row = Null
      BY <1>2, PastGood DEF Good, Past, Launching, Idle
    <2> QED
      BY <1>3, <2>1, StoreAssumption DEF GoodTask, Task, Fits, ProgramCounter
  <1>6. RowsGood' /\ TasksGood'
    BY <1>1, <1>3, <1>4, <1>5, RotatedGood, SaveThenGood DEF Good
  <1> QED
    BY <1>6 DEF Good, LaunchRotate, MailTypeOK, mailVars, CountersOK, counters

\* SendLaunchEmailUseCase keeps the invariant.

\* Loading a recipient keeps the invariant, whichever way the use case goes on.
LEMMA LaunchLoadGood ==
    ASSUME Good, NEW w \in Worker, LaunchLoad(w)
    PROVE  Good'
  <1> DEFINE r       == rows[task[w].id]
             loaded(pc) == [task[w] EXCEPT !.pc = pc, !.row = r]
  <1>1. GoodTask(task[w]) /\ task[w].pc = "launch_load" /\ task[w].id \in Ids
    BY DEF Good, TasksGood, GoodTask, Task, Fits, LaunchLoad, At
  <1>2. TasksGood'
    <2>1. CASE Continue(w, Processed(w))
      BY <1>1, <2>1, ProcessedGood, ContinueGood DEF Good
    <2>2. CASE Present(task[w].id) /\ Mailable(r)
      <3>1. GoodRow(r) /\ r # Null /\ ~r.anonymized /\ r.launchStatus # "sent"
        BY <1>1, <2>2 DEF Good, RowsGood, Present, Mailable, Settled
      <3>2. CASE WindowExpired(r)
        <4>1. r.launchStatus = "sending"
          BY <3>2 DEF WindowExpired
        <4>2. GoodTask(loaded("launch_review"))
          BY <1>1, <3>1, <4>1, StoreAssumption
          DEF GoodTask, Task, Fits, ProgramCounter, GoodRow
        <4> QED
          BY <2>2, <3>2, <4>2, ContinueGood DEF Good, LaunchLoad
      <3>3. CASE ~WindowExpired(r)
        <4>1. GoodTask(loaded("launch_mark"))
          BY <1>1, <3>1, StoreAssumption
          DEF GoodTask, Task, Fits, ProgramCounter, GoodRow
        <4> QED
          BY <2>2, <3>3, <4>1, ContinueGood DEF Good, LaunchLoad
      <3> QED
        BY <3>2, <3>3
    <2> QED
      BY <2>1, <2>2 DEF LaunchLoad
  <1> QED
    BY <1>2 DEF Good, LaunchLoad, RowsGood, GoodRow, MailTypeOK, mailVars, CountersOK,
                counters

\* So does moving a row to manual review.
LEMMA LaunchReviewStepGood ==
    ASSUME Good, NEW w \in Worker, LaunchReview(w)
    PROVE  Good'
  <1>1. /\ task[w].pc # "purge"
        /\ task[w].id \in Ids
        /\ GoodRow(task[w].row)
        /\ task[w].row.launchStatus = "sending"
    BY DEF Good, TasksGood, GoodTask, Task, Fits, LaunchReview, At, GoodRow
  <1>2. RowsGood' /\ TasksGood'
    BY <1>1, LaunchReviewGood, ProcessedGood, SaveThenGood DEF Good, LaunchReview
  <1> QED
    BY <1>2 DEF Good, LaunchReview, MailTypeOK, mailVars, CountersOK, counters

\* So does marking a row as sending.
LEMMA LaunchMarkStepGood ==
    ASSUME Good, NEW w \in Worker, LaunchMark(w)
    PROVE  Good'
  <1> DEFINE sending == [task[w].row EXCEPT !.launchStatus = "sending",
                                            !.launchLastAttemptAt = now]
             mailing == [task[w] EXCEPT !.pc = "launch_mail", !.row = sending]
  <1>1. /\ GoodTask(task[w])
        /\ task[w].pc = "launch_mark"
        /\ task[w].id \in Ids
        /\ GoodRow(task[w].row)
        /\ ~task[w].row.anonymized
        /\ task[w].row.launchStatus # "sent"
    BY DEF Good, TasksGood, GoodTask, Task, Fits, LaunchMark, At, GoodRow
  <1>2. GoodRow(sending)
    BY <1>1, LaunchMarkGood DEF Good, CountersOK
  <1>3. ~sending.anonymized /\ sending.launchStatus = "sending"
    BY <1>1 DEF GoodRow, Row
  <1>4. GoodTask(mailing)
    <2> HIDE DEF sending
    <2> QED
      BY <1>1, <1>2, <1>3, StoreAssumption DEF GoodTask, Task, Fits, ProgramCounter, GoodRow
  <1>5. SaveThen(w, task[w].id, sending, mailing)
    BY DEF LaunchMark
  <1>6. RowsGood' /\ TasksGood'
    <2> HIDE DEF sending, mailing
    <2> QED
      BY <1>1, <1>2, <1>4, <1>5, SaveThenGood DEF Good
  <1> QED
    BY <1>6 DEF Good, LaunchMark, MailTypeOK, mailVars, CountersOK, counters

\* So does mailing the launch notice, whatever the provider answers.
LEMMA LaunchMailGood ==
    ASSUME Good, NEW w \in Worker, LaunchMail(w)
    PROVE  Good'
  <1>1. PICK outcome \in Outcomes :
          /\ Send(LaunchKey(task[w].id), LaunchToken(task[w].id), now, outcome)
          /\ Continue(w, [task[w] EXCEPT !.pc = "launch_save", !.outcome = outcome])
    BY DEF LaunchMail
  <1>2. GoodTask(task[w]) /\ task[w].id \in Ids /\ task[w].pc = "launch_mail"
    BY DEF Good, TasksGood, GoodTask, Task, Fits, LaunchMail, At
  <1>3. MailTypeOK'
    <2>1. LaunchKey(task[w].id) \in Key /\ LaunchToken(task[w].id) \in Token
      BY <1>2 DEF LaunchKey, Key, LaunchToken, Token
    <2> QED
      BY <1>1, <2>1, SendTyped DEF Good, CountersOK
  <1>4. GoodTask([task[w] EXCEPT !.pc = "launch_save", !.outcome = outcome])
    BY <1>2, MailAssumption DEF GoodTask, Task, Fits, ProgramCounter
  <1>5. TasksGood'
    BY <1>1, <1>4, ContinueGood DEF Good
  <1> QED
    BY <1>3, <1>5 DEF Good, LaunchMail, RowsGood, GoodRow, CountersOK, counters

\* So does saving the outcome.
LEMMA LaunchSaveGood ==
    ASSUME Good, NEW w \in Worker, LaunchSave(w)
    PROVE  Good'
  <1>1. /\ task[w].pc # "purge"
        /\ task[w].id \in Ids
        /\ GoodRow(task[w].row)
        /\ task[w].row.launchStatus = "sending"
        /\ task[w].outcome \in Outcomes
    BY DEF Good, TasksGood, GoodTask, Task, Fits, LaunchSave, At, GoodRow
  <1>2. GoodRow(LaunchOutcome(task[w].row, task[w].outcome))
    BY <1>1, LaunchOutcomeGood DEF Good, CountersOK
  <1>3. RowsGood' /\ TasksGood'
    BY <1>1, <1>2, ProcessedGood, SaveThenGood DEF Good, LaunchSave
  <1> QED
    BY <1>3 DEF Good, LaunchSave, MailTypeOK, mailVars, CountersOK, counters

-----------------------------------------------------------------------------
\* Aborts and the clock keep the invariant.

\* An invocation cut short keeps the invariant.
LEMMA AbortGood ==
    ASSUME Good, NEW w \in Worker, Abort(w)
    PROVE  Good'
  <1>1. TasksGood'
    BY IdleGood, ContinueGood DEF Good, Abort
  <1> QED
    BY <1>1 DEF Good, Abort, RowsGood, GoodRow, MailTypeOK, mailVars, CountersOK

\* The clock keeps the invariant.
LEMMA TickGood ==
    ASSUME Good, Tick
    PROVE  Good'
  <1>1. MailTypeOK'
    BY DEF Good, Tick, Forget, MailTypeOK
  <1>2. TasksGood'
    BY DEF Good, Tick, TasksGood, GoodTask
  <1> QED
    BY <1>1, <1>2 DEF Good, Tick, RowsGood, GoodRow, CountersOK

-----------------------------------------------------------------------------
\* The initial states satisfy the invariant.
LEMMA InitGood == Init => Good
  <1> SUFFICES ASSUME Init PROVE Good
    OBVIOUS
  <1>1. RowsGood
    BY DEF Init, RowsGood
  <1>2. TasksGood
    BY IdleGood DEF Init, TasksGood, GoodTask
  <1> QED
    BY <1>1, <1>2 DEF Init, MailInit, MailTypeOK, CountersOK, Good

\* Every step keeps the invariant.
LEMMA NextGood == Good /\ [Next]_vars => Good'
  <1> SUFFICES ASSUME Good, [Next]_vars PROVE Good'
    OBVIOUS
  <1>1. CASE UNCHANGED vars
    BY <1>1 DEF vars, Good, RowsGood, GoodRow, TasksGood, GoodTask, MailTypeOK, CountersOK
  <1>2. ASSUME NEW w \in Worker, Confirm(w) PROVE Good'
    BY <1>2, ConfirmLoadGood, ConfirmMailGood, ConfirmSaveGood DEF Confirm
  <1>3. ASSUME NEW w \in Worker, Join(w) PROVE Good'
    BY <1>3, JoinFindGood, JoinCreateGood, JoinConflictGood, JoinRefindGood,
       ResubscribeGood DEF Join
  <1>4. ASSUME NEW w \in Worker, Unsubscribe(w) PROVE Good'
    BY <1>4, UnsubscribeFindGood, UnsubscribeSaveGood DEF Unsubscribe
  <1>5. ASSUME NEW w \in Worker, Maintain(w) PROVE Good'
    BY <1>5, RetryFindGood, RetryRotateGood, PurgeFindGood, PurgeSaveGood,
       MaintenanceDoneGood DEF Maintain
  <1>6. ASSUME NEW w \in Worker, Launch(w) PROVE Good'
    BY <1>6, LaunchStartGood, LaunchFetchGood, LaunchDoneGood, LaunchSkipGood,
       LaunchRotateGood, LaunchLoadGood, LaunchReviewStepGood, LaunchMarkStepGood,
       LaunchMailGood, LaunchSaveGood DEF Launch
  <1>7. ASSUME NEW w \in Worker, Abort(w) PROVE Good'
    BY <1>7, AbortGood
  <1>8. CASE Tick
    BY <1>8, TickGood
  <1> QED
    BY <1>1, <1>2, <1>3, <1>4, <1>5, <1>6, <1>7, <1>8 DEF Next

\* The inductive invariant holds in every reachable state.
THEOREM Invariance == Spec => []IInv
  <1>1. Init => IInv
    BY InitGood, GoodIsIInv
  <1>2. IInv /\ [Next]_vars => IInv'
    <2>1. Good' <=> IInv'
      BY GoodIsIInv, PTL
    <2> QED
      BY <2>1, NextGood, GoodIsIInv
  <1> QED
    BY <1>1, <1>2, PTL DEF Spec

\* Every variable always has its type.
THEOREM TypeCorrectness == Spec => []TypeOK
  <1>1. IInv => TypeOK
    BY DEF IInv
  <1> QED
    BY <1>1, Invariance, PTL

\* Whole-row writes never tear a row: every row, and every snapshot a worker may
\* yet write back, is coherent, however any number of workers interleave.
THEOREM Coherence == Spec => []RowsCoherent
  <1>1. IInv => RowsCoherent
    BY DEF IInv
  <1> QED
    BY <1>1, Invariance, PTL

-----------------------------------------------------------------------------
\* The unique index.

\* A write the index allows keeps current addresses apart: the row written is
\* anonymized, or has an address that no other current row has.
LEMMA WriteUnique ==
    ASSUME Good, Good', OneCurrentRowPerEmail, NEW id, NEW r, IndexAllows(id, r),
           rows' = [rows EXCEPT ![id] = r]
    PROVE  OneCurrentRowPerEmail'
  <1> SUFFICES ASSUME NEW i \in Current', NEW j \in Current',
                      rows'[i].email = rows'[j].email, i # j
               PROVE  FALSE
    BY DEF OneCurrentRowPerEmail
  <1>1. DOMAIN rows = Ids /\ i \in Ids /\ j \in Ids
    BY DEF Good, RowsGood, Current
  <1>2. \A k \in Current' : k # id => rows'[k] = rows[k] /\ k \in Current
    BY <1>1 DEF Current, Present
  <1>3. id \in Current' =>
          /\ rows'[id] = r
          /\ \A o \in Current \ {id} : rows[o].email # r.email
    <2> SUFFICES ASSUME id \in Current'
                 PROVE  /\ rows'[id] = r
                        /\ \A o \in Current \ {id} : rows[o].email # r.email
      OBVIOUS
    <2>1. rows'[id] = r
      BY <1>1 DEF Current
    <2>2. r # Null /\ ~r.anonymized
      BY <2>1 DEF Current, Present
    <2>3. r.email # Null
      BY <2>1, <2>2 DEF Good, RowsGood, GoodRow, Coherent, IdentityWhole, Current
    <2> QED
      BY <2>1, <2>2, <2>3 DEF IndexAllows
  <1>4. CASE i # id /\ j # id
    BY <1>2, <1>4 DEF OneCurrentRowPerEmail
  <1>5. CASE i = id
    BY <1>2, <1>3, <1>5
  <1>6. CASE j = id
    BY <1>2, <1>3, <1>6
  <1> QED
    BY <1>4, <1>5, <1>6

\* So does a step that leaves the table alone.
LEMMA UnchangedUnique ==
    ASSUME OneCurrentRowPerEmail, UNCHANGED rows
    PROVE  OneCurrentRowPerEmail'
  BY DEF OneCurrentRowPerEmail, Current, Present

\* So does a save, whether the index lets it through or refuses it.
LEMMA SaveThenUnique ==
    ASSUME Good, Good', OneCurrentRowPerEmail, NEW w, NEW id, NEW r, NEW t,
           SaveThen(w, id, r, t)
    PROVE  OneCurrentRowPerEmail'
  <1>1. CASE Save(id, r)
    BY <1>1, WriteUnique DEF Save
  <1>2. CASE UNCHANGED rows
    BY <1>2, UnchangedUnique
  <1> QED
    BY <1>1, <1>2 DEF SaveThen

\* Every step keeps current addresses apart.
LEMMA NextUnique ==
    ASSUME Good, Good', OneCurrentRowPerEmail, [Next]_vars
    PROVE  OneCurrentRowPerEmail'
  <1>1. CASE UNCHANGED vars
    BY <1>1, UnchangedUnique DEF vars
  <1>2. ASSUME NEW w \in Worker, Confirm(w) PROVE OneCurrentRowPerEmail'
    <2>1. CASE ConfirmLoad(w) \/ ConfirmMail(w)
      BY <2>1, UnchangedUnique DEF ConfirmLoad, ConfirmMail
    <2>2. CASE ConfirmSave(w)
      BY <2>2, SaveThenUnique DEF ConfirmSave
    <2> QED
      BY <1>2, <2>1, <2>2 DEF Confirm
  <1>3. ASSUME NEW w \in Worker, Join(w) PROVE OneCurrentRowPerEmail'
    <2>1. CASE (\E e \in Emails : JoinFind(w, e)) \/ JoinConflict(w) \/ JoinRefind(w)
      BY <2>1, UnchangedUnique DEF JoinFind, JoinConflict, JoinRefind
    <2>2. CASE JoinCreate(w)
      <3>1. PICK id \in Ids : Create(id, task[w].email, NewToken)
        BY <2>2 DEF JoinCreate
      <3> QED
        BY <3>1, WriteUnique DEF Create
    <2>3. CASE Resubscribe(w)
      BY <2>3, SaveThenUnique DEF Resubscribe
    <2> QED
      BY <1>3, <2>1, <2>2, <2>3 DEF Join
  <1>4. ASSUME NEW w \in Worker, Unsubscribe(w) PROVE OneCurrentRowPerEmail'
    <2>1. CASE \E m \in inbox : UnsubscribeFind(w, m.token)
      BY <2>1, UnchangedUnique DEF UnsubscribeFind
    <2>2. CASE UnsubscribeSave(w)
      BY <2>2, SaveThenUnique DEF UnsubscribeSave
    <2> QED
      BY <1>4, <2>1, <2>2 DEF Unsubscribe
  <1>5. ASSUME NEW w \in Worker, Maintain(w) PROVE OneCurrentRowPerEmail'
    <2>1. CASE RetryFind(w) \/ PurgeFind(w) \/ MaintenanceDone(w)
      BY <2>1, UnchangedUnique DEF RetryFind, PurgeFind, MaintenanceDone
    <2>2. CASE RetryRotate(w)
      BY <2>2, SaveThenUnique DEF RetryRotate
    <2>3. CASE PurgeSave(w)
      BY <2>3, WriteUnique DEF PurgeSave, Save
    <2> QED
      BY <1>5, <2>1, <2>2, <2>3 DEF Maintain
  <1>6. ASSUME NEW w \in Worker, Launch(w) PROVE OneCurrentRowPerEmail'
    <2>1. CASE \/ LaunchStart(w) \/ LaunchFetch(w) \/ LaunchDone(w)
               \/ LaunchSkip(w) \/ LaunchLoad(w) \/ LaunchMail(w)
      BY <2>1, UnchangedUnique
      DEF LaunchStart, LaunchFetch, LaunchDone, LaunchSkip, LaunchLoad, LaunchMail
    <2>2. CASE LaunchRotate(w)
      BY <2>2, SaveThenUnique DEF LaunchRotate
    <2>3. CASE LaunchReview(w)
      BY <2>3, SaveThenUnique DEF LaunchReview
    <2>4. CASE LaunchMark(w)
      BY <2>4, SaveThenUnique DEF LaunchMark
    <2>5. CASE LaunchSave(w)
      BY <2>5, SaveThenUnique DEF LaunchSave
    <2> QED
      BY <1>6, <2>1, <2>2, <2>3, <2>4, <2>5 DEF Launch
  <1>7. ASSUME NEW w \in Worker, Abort(w) PROVE OneCurrentRowPerEmail'
    BY <1>7, UnchangedUnique DEF Abort
  <1>8. CASE Tick
    BY <1>8, UnchangedUnique DEF Tick
  <1> QED
    BY <1>1, <1>2, <1>3, <1>4, <1>5, <1>6, <1>7, <1>8 DEF Next

\* An address never has two rows that are not anonymized, however many workers
\* create, renew and save stale rows of it.
THEOREM UniqueCurrentRow == Spec => []OneCurrentRowPerEmail
  <1>1. Init => OneCurrentRowPerEmail
    BY DEF Init, OneCurrentRowPerEmail, Current, Present
  <1>2. /\ IInv /\ IInv' /\ OneCurrentRowPerEmail /\ [Next]_vars
        => OneCurrentRowPerEmail'
    <2>1. Good' <=> IInv'
      BY GoodIsIInv, PTL
    <2> QED
      BY <2>1, NextUnique, GoodIsIInv
  <1> QED
    BY <1>1, <1>2, Invariance, PTL DEF Spec

=============================================================================
