---------------------- MODULE EarlyAccessSerial_proofs ----------------------
(***************************************************************************)
(* Theorems about one worker: invocations that run one after the other,    *)
(* each cut short anywhere.  What a lone worker holds is what the table    *)
(* holds, so no write of it loses another's, and the system implements the *)
(* subscription lifecycle.                                                 *)
(***************************************************************************)
EXTENDS EarlyAccessProperties, EarlyAccess_proofs

SoleWorker == \A v, w \in Worker : v = w

ConfirmPc == {"confirm_load", "confirm_mail", "confirm_save"}
SendPc == {"launch_review", "launch_mark", "launch_mail", "launch_save"}
LoadedPc == {"resubscribe", "unsubscribe", "confirm_mail", "confirm_save"} \cup SendPc

\* A row due another attempt has one left.
Counted(r) ==
    /\ r.confirmationAttemptCount <= MaxConfirmationAttempts
    /\ r.confirmationStatus = "failed" =>
          r.confirmationAttemptCount < MaxConfirmationAttempts

\* What a worker holds is what the table R holds at time `at', and was found so by
\* the reading that let it go on.
UpToDate(t, R, at) ==
    /\ \A s \in t.batch : R[s.id] = s.row
    /\ t.pc \in LoadedPc => R[t.id] = t.row
    /\ t.pc \in ConfirmPc \cup SendPc \cup {"launch_load"} => \A s \in t.batch : s.id # t.id
    /\ t.pc \in ConfirmPc \cup {"retry"} =>
          \A s \in t.batch : s.row.confirmationStatus = "failed"
    /\ t.pc \in ConfirmPc =>
          R[t.id].confirmationAttemptCount < MaxConfirmationAttempts
    /\ t.pc = "resubscribe" => t.row.unsubscribedAt # Null /\ t.row.email = t.email
    /\ t.pc = "unsubscribe" => t.row.unsubscribedAt = Null
    /\ t.pc \in SendPc => t.row.unsubscribedAt = Null /\ ~Settled(t.row)
    /\ t.pc = "purge" => \A s \in t.batch : PurgeDueRow(s.row, at)

\* The inductive invariant of a lone worker.
Serialized ==
    /\ \A w \in Worker : UpToDate(task[w], rows, now)
    /\ \A id \in Ids : Present(id) => Counted(rows[id])

\* What the writes of a lone worker do to a row.
SameOwner(id, r) == /\ Present(id) /\ ~rows[id].anonymized
                    /\ r # Null /\ ~r.anonymized
                    /\ r.email = rows[id].email
Inserted(id, r) == /\ ~Present(id)
                   /\ \E e \in Emails, h \in Token : r = FreshRow(e, h)
                   /\ IndexAllows(id, r)
Kept(id, r) == /\ SameOwner(id, r)
               /\ r.unsubscribedAt = rows[id].unsubscribedAt
               /\ Notice(r) = Notice(rows[id])
Left(id, r) == /\ SameOwner(id, r)
               /\ rows[id].unsubscribedAt = Null /\ r.unsubscribedAt # Null
               /\ Notice(r) = Notice(rows[id])
Renewed(id, r) == /\ SameOwner(id, r)
                  /\ rows[id].unsubscribedAt # Null /\ r.unsubscribedAt = Null
                  /\ Notice(r) = Notice(rows[id])
                  /\ Renewing(id)
Noticed(id, r) == /\ SameOwner(id, r)
                  /\ rows[id].unsubscribedAt = Null /\ r.unsubscribedAt = Null
                  /\ Notice(rows[id]) = "open" /\ Notice(r) \in {"sent", "review"}
Forgotten(id, r) == /\ Present(id) /\ PurgeDueRow(rows[id], now)
                    /\ r # Null /\ r.anonymized /\ r.email = Null
                    /\ Notice(r) = Notice(rows[id])

Written(id, r) ==
    \/ Inserted(id, r) \/ Kept(id, r) \/ Left(id, r)
    \/ Renewed(id, r) \/ Noticed(id, r) \/ Forgotten(id, r)

RowStep ==
    \/ UNCHANGED rows
    \/ \E id \in Ids, r \in Row : rows' = [rows EXCEPT ![id] = r] /\ Written(id, r)

-----------------------------------------------------------------------------
\* A worker that returned has nothing to be out of date.
LEMMA IdleUpToDate ==
    ASSUME NEW R, NEW at
    PROVE  UpToDate(Idle, R, at)
  BY DEF UpToDate, Idle, LoadedPc, ConfirmPc, SendPc

\* A step that only moves the lone worker on.
LEMMA QuietSerialized ==
    ASSUME SoleWorker, Good, Serialized, NEW w \in Worker, NEW t, Continue(w, t),
           UNCHANGED <<rows, now>>, UpToDate(t, rows, now)
    PROVE  Serialized' /\ RowStep
  <1>1. \A v \in Worker : task'[v] = t
    BY DEF SoleWorker, Good, TasksGood, Continue
  <1>2. \A v \in Worker : UpToDate(task'[v], rows', now')
    BY <1>1
  <1>3. \A id \in Ids : Present(id)' => Counted(rows'[id])
    BY DEF Serialized, Present
  <1> QED
    BY <1>2, <1>3 DEF Serialized, RowStep

\* A step that writes one row.
LEMMA WriteSerialized ==
    ASSUME SoleWorker, Good, Serialized, NEW w \in Worker, NEW t, Continue(w, t),
           UNCHANGED now, NEW id \in Ids, NEW r \in Row,
           rows' = [rows EXCEPT ![id] = r], Counted(r), Written(id, r),
           UpToDate(t, [rows EXCEPT ![id] = r], now)
    PROVE  Serialized' /\ RowStep
  <1>1. \A v \in Worker : task'[v] = t
    BY DEF SoleWorker, Good, TasksGood, Continue
  <1>2. \A v \in Worker : UpToDate(task'[v], rows', now')
    BY <1>1
  <1>3. \A i \in Ids : Present(i)' => Counted(rows'[i])
    BY DEF Serialized, Present, Good, RowsGood
  <1> QED
    BY <1>2, <1>3 DEF Serialized, RowStep

\* A save that the index may refuse.
LEMMA SaveThenSerialized ==
    ASSUME SoleWorker, Good, Serialized, NEW w \in Worker, NEW t, UNCHANGED now,
           NEW id \in Ids, NEW r \in Row, SaveThen(w, id, r, t), Counted(r),
           Save(id, r) /\ Continue(w, t) => Written(id, r),
           UpToDate(t, [rows EXCEPT ![id] = r], now)
    PROVE  Serialized' /\ RowStep
  <1>1. CASE Save(id, r) /\ Continue(w, t)
    BY <1>1, WriteSerialized DEF Save
  <1>2. CASE UNCHANGED rows /\ Continue(w, Idle)
    BY <1>2, IdleUpToDate, QuietSerialized
  <1> QED
    BY <1>1, <1>2 DEF SaveThen

\* What is true of the worker about to take a step.
LEMMA HeldGood ==
    ASSUME Good, Serialized, NEW w \in Worker
    PROVE  /\ task[w] \in Task /\ GoodTask(task[w]) /\ UpToDate(task[w], rows, now)
           /\ DOMAIN rows = Ids /\ now \in Nat
           /\ \A id \in Ids : Present(id) => GoodRow(rows[id]) /\ Counted(rows[id])
  BY DEF Good, TasksGood, GoodTask, RowsGood, Serialized, CountersOK, Present

\* The rest of a batch is up to date after a write to a row that is not in it.
LEMMA BatchKept ==
    ASSUME NEW R, NEW B, \A s \in B : R[s.id] = s.row, NEW id, NEW r,
           \A s \in B : s.id # id
    PROVE  \A s \in B : [R EXCEPT ![id] = r][s.id] = s.row
  <1> SUFFICES ASSUME NEW s \in B PROVE [R EXCEPT ![id] = r][s.id] = s.row
    OBVIOUS
  <1>1. s.id # id /\ R[s.id] = s.row
    OBVIOUS
  <1> QED
    BY <1>1

\* A snapshot taken out of an up-to-date batch is the only one of its row.
LEMMA BatchApart ==
    ASSUME NEW R, NEW B \in SUBSET Snapshot, \A s \in B : R[s.id] = s.row,
           NEW s \in B, NEW o \in B \ {s}
    PROVE  o.id # s.id
  BY DEF Snapshot

-----------------------------------------------------------------------------
\* Every action of a lone worker.

\* Confirming.
LEMMA ConfirmSerialized ==
    ASSUME SoleWorker, Good, Serialized, NEW w \in Worker, Confirm(w)
    PROVE  Serialized' /\ RowStep
  <1> USE DEF ConfirmPc, SendPc, LoadedPc
  <1> DEFINE id == task[w].id
  <1>1. /\ task[w] \in Task /\ GoodTask(task[w]) /\ UpToDate(task[w], rows, now)
        /\ DOMAIN rows = Ids /\ now \in Nat
        /\ \A i \in Ids : Present(i) => GoodRow(rows[i]) /\ Counted(rows[i])
    BY HeldGood
  <1>2. task[w].pc \in ConfirmPc /\ id \in Ids /\ UNCHANGED now
    BY <1>1, StoreAssumption
    DEF Confirm, ConfirmLoad, ConfirmMail, ConfirmSave, At, GoodTask, Fits, Task, counters
  <1>3. ASSUME NEW R, \A s \in task[w].batch : R[s.id] = s.row
        PROVE  UpToDate(AfterConfirmation(w), R, now)
    <2>1. CASE task[w].job = "maintenance"
      BY <1>1, <1>2, <1>3, <2>1 DEF AfterConfirmation, UpToDate, Idle
    <2>2. CASE task[w].job # "maintenance"
      BY <2>2, IdleUpToDate DEF AfterConfirmation
    <2> QED
      BY <2>1, <2>2
  <1>4. UpToDate(AfterConfirmation(w), rows, now)
    BY <1>1, <1>3 DEF UpToDate
  <1>5. CASE ConfirmLoad(w)
    <2> DEFINE t == [task[w] EXCEPT !.pc = "confirm_mail", !.row = rows[id]]
    <2>1. /\ t.pc = "confirm_mail" /\ t.id = id /\ t.batch = task[w].batch
          /\ t.row = rows[id]
      BY <1>1 DEF Task
    <2> HIDE DEF t
    <2>2. UpToDate(t, rows, now)
      BY <1>1, <1>2, <2>1 DEF UpToDate
    <2>3. Continue(w, t) \/ Continue(w, AfterConfirmation(w))
      BY <1>5 DEF ConfirmLoad, t
    <2> QED
      BY <1>2, <1>4, <1>5, <2>2, <2>3, QuietSerialized DEF ConfirmLoad
  <1>6. CASE ConfirmMail(w)
    <2>1. PICK outcome \in Outcomes :
             Continue(w, [task[w] EXCEPT !.pc = "confirm_save", !.outcome = outcome])
      BY <1>6 DEF ConfirmMail
    <2> DEFINE t == [task[w] EXCEPT !.pc = "confirm_save", !.outcome = outcome]
    <2>2. /\ t.pc = "confirm_save" /\ t.id = id /\ t.batch = task[w].batch
          /\ t.row = task[w].row
      BY <1>1 DEF Task
    <2>3. Continue(w, t)
      BY <2>1
    <2> HIDE DEF t
    <2>4. UpToDate(t, rows, now)
      BY <1>1, <1>6, <2>2 DEF UpToDate, ConfirmMail, At
    <2> QED
      BY <1>2, <1>6, <2>3, <2>4, QuietSerialized DEF ConfirmMail
  <1>7. CASE ConfirmSave(w)
    <2> DEFINE r == ApplyOutcome(task[w].row, task[w].outcome, now)
    <2>1. /\ task[w].row = rows[id] /\ task[w].row # Null /\ ~task[w].row.anonymized
          /\ task[w].outcome \in Outcomes
      BY <1>1, <1>7, StoreAssumption DEF ConfirmSave, At, UpToDate, GoodTask, Fits, Task
    <2>2. GoodRow(task[w].row)
      BY <1>1, <1>2, <2>1 DEF Present
    <2>3. task[w].row.confirmationAttemptCount < MaxConfirmationAttempts
      BY <1>1, <1>7, <2>1 DEF UpToDate, ConfirmSave, At
    <2>4. r \in Row /\ r # Null
      BY <2>1, <2>2, <1>1, ApplyOutcomeGood, StoreAssumption DEF GoodRow
    <2>5. /\ r.email = task[w].row.email /\ r.anonymized = task[w].row.anonymized
          /\ r.unsubscribedAt = task[w].row.unsubscribedAt
          /\ r.launchStatus = task[w].row.launchStatus
      BY <2>2 DEF ApplyOutcome, GoodRow, Row
    <2>6. Counted(r)
      BY <2>2, <2>3 DEF ApplyOutcome, GoodRow, Row, Counted, MaxConfirmationAttempts
    <2>7. SaveThen(w, id, r, AfterConfirmation(w))
      BY <1>7 DEF ConfirmSave
    <2> HIDE DEF r
    <2>8. Kept(id, r)
      BY <1>2, <2>1, <2>4, <2>5 DEF Kept, SameOwner, Notice, Present
    <2>9. \A s \in task[w].batch : [rows EXCEPT ![id] = r][s.id] = s.row
      BY <1>1, <1>2, BatchKept DEF UpToDate
    <2>10. UpToDate(AfterConfirmation(w), [rows EXCEPT ![id] = r], now)
      BY <1>3, <2>9
    <2> HIDE DEF id
    <2> QED
      BY <1>2, <2>4, <2>6, <2>7, <2>8, <2>10, SaveThenSerialized DEF Written
  <1> QED
    BY <1>5, <1>6, <1>7 DEF Confirm

\* A row found by its address is up to date, and is renewed only if it had left.
LEMMA ResolveSerialized ==
    ASSUME SoleWorker, Good, Serialized, NEW w \in Worker, NEW e,
           NEW id \in FindCurrentByNormalizedEmail(e), ResolveExisting(w, e, id),
           UNCHANGED <<rows, now>>
    PROVE  Serialized' /\ RowStep
  <1> DEFINE t == [Joining(e) EXCEPT !.pc = "resubscribe", !.id = id, !.row = rows[id]]
  <1>1. CASE Continue(w, Idle)
    BY <1>1, IdleUpToDate, QuietSerialized
  <1>2. CASE rows[id].unsubscribedAt # Null /\ Continue(w, t)
    <2>1. /\ t.pc = "resubscribe" /\ t.id = id /\ t.batch = {}
          /\ t.row = rows[id] /\ t.email = e
      BY DEF Joining, Idle
    <2>2. rows[id].email = e
      BY DEF FindCurrentByNormalizedEmail
    <2> HIDE DEF t
    <2>3. UpToDate(t, rows, now)
      BY <1>2, <2>1, <2>2 DEF UpToDate, ConfirmPc, SendPc
    <2> QED
      BY <1>2, <2>3, QuietSerialized
  <1> QED
    BY <1>1, <1>2 DEF ResolveExisting

\* A worker that goes on to confirm what it has just written.
LEMMA ConfirmingUpToDate ==
    ASSUME NEW w, NEW id, NEW R, NEW at, R[id].confirmationAttemptCount = 0
    PROVE  UpToDate(Confirming(w, id, NewToken), R, at)
  <1> DEFINE t == Confirming(w, id, NewToken)
  <1>1. t.pc = "confirm_load" /\ t.id = id /\ t.batch = {}
    BY DEF Confirming, Joining, Idle
  <1> HIDE DEF t
  <1>2. UpToDate(t, R, at)
    BY <1>1 DEF UpToDate, LoadedPc, ConfirmPc, SendPc, MaxConfirmationAttempts
  <1> QED
    BY <1>2 DEF t

\* Signing up.
LEMMA JoinSerialized ==
    ASSUME SoleWorker, Good, Serialized, NEW w \in Worker, Join(w)
    PROVE  Serialized' /\ RowStep
  <1>1. /\ task[w] \in Task /\ GoodTask(task[w]) /\ UpToDate(task[w], rows, now)
        /\ DOMAIN rows = Ids /\ now \in Nat
        /\ \A i \in Ids : Present(i) => GoodRow(rows[i]) /\ Counted(rows[i])
    BY HeldGood
  <1>2. UNCHANGED now
    BY DEF Join, JoinFind, JoinCreate, JoinConflict, JoinRefind, Resubscribe, counters
  <1>3. NewToken \in Token
    BY DEF NewToken, GeneratedToken, Token, Good, CountersOK
  <1>4. ASSUME NEW e \in Emails, JoinFind(w, e) PROVE Serialized' /\ RowStep
    <2> DEFINE t == [Joining(e) EXCEPT !.pc = "create"]
    <2>1. UpToDate(t, rows, now)
      <3>1. t.pc = "create" /\ t.batch = {}
        BY DEF Joining, Idle
      <3> HIDE DEF t
      <3> QED
        BY <3>1 DEF UpToDate, LoadedPc, ConfirmPc, SendPc
    <2>2. CASE Continue(w, t)
      <3> HIDE DEF t
      <3> QED
        BY <1>2, <1>4, <2>1, <2>2, QuietSerialized DEF JoinFind
    <2>3. CASE \E id \in FindCurrentByNormalizedEmail(e) : ResolveExisting(w, e, id)
      BY <1>2, <1>4, <2>3, ResolveSerialized DEF JoinFind
    <2> QED
      BY <1>4, <2>2, <2>3 DEF JoinFind
  <1>5. CASE JoinCreate(w)
    <2>1. PICK id \in Ids : /\ Create(id, task[w].email, NewToken)
                            /\ Continue(w, Confirming(w, id, NewToken))
      BY <1>5 DEF JoinCreate
    <2> DEFINE r == FreshRow(task[w].email, NewToken)
               t == Confirming(w, id, NewToken)
    <2>2. task[w].email \in Emails
      BY <1>1, <1>5 DEF GoodTask, Fits, Task, JoinCreate, At
    <2>3. r \in Row
      BY <1>3, <2>2, FreshRowGood DEF GoodRow
    <2>4. Counted(r) /\ r.confirmationAttemptCount = 0
      BY DEF FreshRow, Counted, MaxConfirmationAttempts
    <2>5. Written(id, r)
      BY <1>3, <2>1, <2>2 DEF Create, Inserted, Written
    <2>6. rows' = [rows EXCEPT ![id] = r] /\ Continue(w, t)
      BY <2>1 DEF Create
    <2> HIDE DEF r
    <2>7. [rows EXCEPT ![id] = r][id] = r
      BY <1>1
    <2>8. UpToDate(t, [rows EXCEPT ![id] = r], now)
      BY <2>4, <2>7, ConfirmingUpToDate
    <2> HIDE DEF t
    <2> QED
      BY <1>2, <2>3, <2>4, <2>5, <2>6, <2>8, WriteSerialized
  <1>6. CASE JoinConflict(w)
    <2> DEFINE t == [task[w] EXCEPT !.pc = "refind"]
    <2>1. t.pc = "refind" /\ t.batch = task[w].batch
      BY <1>1 DEF Task
    <2>2. Continue(w, t)
      BY <1>6 DEF JoinConflict
    <2> HIDE DEF t
    <2>3. UpToDate(t, rows, now)
      BY <1>1, <2>1 DEF UpToDate, LoadedPc, ConfirmPc, SendPc
    <2> QED
      BY <1>2, <1>6, <2>2, <2>3, QuietSerialized DEF JoinConflict
  <1>7. CASE JoinRefind(w)
    <2>1. CASE Continue(w, Idle)
      BY <1>2, <1>7, <2>1, IdleUpToDate, QuietSerialized DEF JoinRefind
    <2>2. CASE \E id \in FindCurrentByNormalizedEmail(task[w].email) :
                  ResolveExisting(w, task[w].email, id)
      BY <1>2, <1>7, <2>2, ResolveSerialized DEF JoinRefind
    <2> QED
      BY <1>7, <2>1, <2>2 DEF JoinRefind
  <1>8. CASE Resubscribe(w)
    <2> DEFINE id == task[w].id
               r == Resubscribed(task[w].row, task[w].email, NewToken)
               t == Confirming(w, id, NewToken)
    <2>1. /\ id \in Ids /\ task[w].row # Null /\ ~task[w].row.anonymized
          /\ task[w].email \in Emails /\ task[w].row = rows[id]
          /\ task[w].row.unsubscribedAt # Null /\ task[w].row.email = task[w].email
      BY <1>1, <1>8, StoreAssumption
      DEF GoodTask, Fits, Task, Resubscribe, At, UpToDate, LoadedPc
    <2>2. GoodRow(task[w].row)
      BY <1>1, <2>1 DEF Present
    <2>3. r \in Row /\ r # Null
      BY <1>3, <2>1, <2>2, ResubscribedGood, StoreAssumption DEF GoodRow
    <2>4. /\ r.email = task[w].email /\ ~r.anonymized /\ r.unsubscribedAt = Null
          /\ r.launchStatus = task[w].row.launchStatus
          /\ r.confirmationAttemptCount = 0
      BY <2>1, <2>2 DEF Resubscribed, GoodRow, Row
    <2>5. Counted(r)
      <3>1. r.confirmationStatus = "pending"
        BY <2>2 DEF Resubscribed, GoodRow, Row
      <3> QED
        BY <2>4, <3>1 DEF Counted, MaxConfirmationAttempts
    <2>6. t.pc = "confirm_load"
      BY DEF Confirming, Joining, Idle
    <2>7. SaveThen(w, id, r, t) /\ At(w, "resubscribe")
      BY <1>8 DEF Resubscribe
    <2> HIDE DEF r
    <2>8. [rows EXCEPT ![id] = r][id] = r
      BY <1>1, <2>1
    <2>9. UpToDate(t, [rows EXCEPT ![id] = r], now)
      BY <2>4, <2>8, ConfirmingUpToDate
    <2> HIDE DEF t
    <2>10. ASSUME Continue(w, t) PROVE Renewed(id, r)
      <3>1. task'[w].pc = "confirm_load"
        BY <2>6, <2>10 DEF Continue, Good, TasksGood
      <3> QED
        BY <2>1, <2>3, <2>4, <2>7, <3>1
        DEF Renewed, SameOwner, Notice, Present, Renewing
    <2> HIDE DEF id
    <2>11. id \in Ids
      BY <2>1 DEF id
    <2> QED
      BY <1>2, <2>3, <2>5, <2>7, <2>9, <2>10, <2>11, SaveThenSerialized DEF Written
  <1> QED
    BY <1>4, <1>5, <1>6, <1>7, <1>8 DEF Join

\* Unsubscribing.
LEMMA UnsubscribeSerialized ==
    ASSUME SoleWorker, Good, Serialized, NEW w \in Worker, Unsubscribe(w)
    PROVE  Serialized' /\ RowStep
  <1>1. /\ task[w] \in Task /\ GoodTask(task[w]) /\ UpToDate(task[w], rows, now)
        /\ DOMAIN rows = Ids /\ now \in Nat
        /\ \A i \in Ids : Present(i) => GoodRow(rows[i]) /\ Counted(rows[i])
    BY HeldGood
  <1>2. UNCHANGED now
    BY DEF Unsubscribe, UnsubscribeFind, UnsubscribeSave, counters
  <1>3. ASSUME NEW token, UnsubscribeFind(w, token) PROVE Serialized' /\ RowStep
    <2>1. PICK id \in FindByManageTokenHash(token) :
             /\ rows[id].unsubscribedAt = Null
             /\ Continue(w, [Idle EXCEPT !.pc = "unsubscribe", !.job = "unsubscribe",
                                         !.id = id, !.row = rows[id]])
      BY <1>3 DEF UnsubscribeFind
    <2> DEFINE t == [Idle EXCEPT !.pc = "unsubscribe", !.job = "unsubscribe",
                                 !.id = id, !.row = rows[id]]
    <2>2. t.pc = "unsubscribe" /\ t.id = id /\ t.row = rows[id] /\ t.batch = {}
      BY DEF Idle
    <2>3. Continue(w, t)
      BY <2>1
    <2> HIDE DEF t
    <2>4. UpToDate(t, rows, now)
      BY <2>1, <2>2 DEF UpToDate, ConfirmPc, SendPc
    <2> QED
      BY <1>2, <1>3, <2>3, <2>4, QuietSerialized DEF UnsubscribeFind
  <1>4. CASE UnsubscribeSave(w)
    <2> DEFINE id == task[w].id
               r == [task[w].row EXCEPT !.unsubscribedAt = now]
    <2>1. /\ id \in Ids /\ task[w].row # Null /\ ~task[w].row.anonymized
          /\ task[w].row = rows[id] /\ task[w].row.unsubscribedAt = Null
      BY <1>1, <1>4, StoreAssumption
      DEF GoodTask, Fits, Task, UnsubscribeSave, At, UpToDate, LoadedPc
    <2>2. GoodRow(task[w].row) /\ Counted(task[w].row)
      BY <1>1, <2>1 DEF Present
    <2>3. r \in Row /\ r # Null
      BY <1>1, <2>2, UnsubscribedGood, StoreAssumption DEF GoodRow
    <2>4. /\ r.email = task[w].row.email /\ ~r.anonymized /\ r.unsubscribedAt # Null
          /\ r.launchStatus = task[w].row.launchStatus
          /\ r.confirmationStatus = task[w].row.confirmationStatus
          /\ r.confirmationAttemptCount = task[w].row.confirmationAttemptCount
      BY <1>1, <2>1, <2>2, StoreAssumption DEF GoodRow, Row
    <2>5. Counted(r)
      BY <2>2, <2>4 DEF Counted
    <2>6. SaveThen(w, id, r, Idle)
      BY <1>4 DEF UnsubscribeSave
    <2> HIDE DEF r
    <2>7. Left(id, r)
      BY <2>1, <2>3, <2>4 DEF Left, SameOwner, Notice, Present
    <2> HIDE DEF id
    <2>8. id \in Ids
      BY <2>1 DEF id
    <2> QED
      BY <1>2, <2>3, <2>5, <2>6, <2>7, <2>8, IdleUpToDate, SaveThenSerialized DEF Written
  <1> QED
    BY <1>3, <1>4 DEF Unsubscribe

\* A batch read from the table is up to date.
LEMMA SnapshotsUpToDate ==
    ASSUME NEW S, NEW s \in SnapshotsOf(S)
    PROVE  s.id \in S /\ s.row = rows[s.id]
  BY DEF SnapshotsOf

\* Maintaining.
LEMMA MaintainSerialized ==
    ASSUME SoleWorker, Good, Serialized, NEW w \in Worker, Maintain(w)
    PROVE  Serialized' /\ RowStep
  <1>1. /\ task[w] \in Task /\ GoodTask(task[w]) /\ UpToDate(task[w], rows, now)
        /\ DOMAIN rows = Ids /\ now \in Nat
        /\ \A i \in Ids : Present(i) => GoodRow(rows[i]) /\ Counted(rows[i])
    BY HeldGood
  <1>2. UNCHANGED now
    BY DEF Maintain, RetryFind, RetryRotate, PurgeFind, PurgeSave, MaintenanceDone, counters
  <1>3. ASSUME NEW pc, NEW batch
        PROVE  /\ Maintaining(pc, batch).pc = pc
               /\ Maintaining(pc, batch).batch = batch
    BY DEF Maintaining, Idle
  <1>4. CASE RetryFind(w)
    <2>1. PICK B \in Limited(ConfirmationsDue(now), BatchSize) :
             Continue(w, Maintaining("retry", SnapshotsOf(B)))
      BY <1>4 DEF RetryFind
    <2> DEFINE t == Maintaining("retry", SnapshotsOf(B))
    <2>2. t.pc = "retry" /\ t.batch = SnapshotsOf(B)
      BY <1>3
    <2>3. B \subseteq ConfirmationsDue(now)
      BY <2>1, LimitedSubset
    <2>4. \A s \in t.batch : rows[s.id] = s.row /\ s.row.confirmationStatus = "failed"
      BY <2>2, <2>3, SnapshotsUpToDate DEF ConfirmationsDue
    <2> HIDE DEF t
    <2>5. UpToDate(t, rows, now)
      BY <2>2, <2>4 DEF UpToDate, LoadedPc, ConfirmPc, SendPc
    <2>6. Continue(w, t)
      BY <2>1 DEF t
    <2> QED
      BY <1>2, <1>4, <2>5, <2>6, QuietSerialized DEF RetryFind
  <1>5. CASE RetryRotate(w)
    <2>1. PICK s \in task[w].batch :
             SaveThen(w, s.id, [s.row EXCEPT !.hash = NewToken],
                      [Maintaining("confirm_load", task[w].batch \ {s})
                         EXCEPT !.id = s.id, !.token = NewToken])
      BY <1>5 DEF RetryRotate
    <2> DEFINE r == [s.row EXCEPT !.hash = NewToken]
               t == [Maintaining("confirm_load", task[w].batch \ {s})
                         EXCEPT !.id = s.id, !.token = NewToken]
    <2>2. /\ s.id \in Ids /\ s.row \in Row /\ s.row = rows[s.id]
          /\ task[w].batch \subseteq Snapshot
          /\ \A o \in task[w].batch : rows[o.id] = o.row
          /\ \A o \in task[w].batch : o.row.confirmationStatus = "failed"
          /\ ~s.row.anonymized
      BY <1>1, <1>5 DEF Task, Snapshot, UpToDate, RetryRotate, At, GoodTask, Fits
    <2>3. Present(s.id) /\ GoodRow(s.row) /\ Counted(s.row)
      BY <1>1, <2>2, StoreAssumption DEF Present
    <2>4. NewToken \in Token
      BY DEF NewToken, GeneratedToken, Token, Good, CountersOK
    <2>5. r \in Row /\ r # Null
      BY <2>2, <2>3, <2>4, RotatedGood, StoreAssumption DEF GoodRow
    <2>6. /\ r.email = s.row.email /\ ~r.anonymized
          /\ r.unsubscribedAt = s.row.unsubscribedAt
          /\ r.launchStatus = s.row.launchStatus
          /\ r.confirmationStatus = "failed"
          /\ r.confirmationAttemptCount = s.row.confirmationAttemptCount
      BY <2>2 DEF Row
    <2>7. Counted(r) /\ r.confirmationAttemptCount < MaxConfirmationAttempts
      BY <2>2, <2>3, <2>6 DEF Counted
    <2>8. Kept(s.id, r)
      <3> HIDE DEF r
      <3>1. SameOwner(s.id, r)
        BY <2>2, <2>3, <2>5, <2>6 DEF SameOwner
      <3>2. Notice(r) = Notice(rows[s.id])
        BY <2>2, <2>3, <2>5, <2>6 DEF Notice, Present
      <3> QED
        BY <2>2, <2>6, <3>1, <3>2 DEF Kept
    <2>9. /\ t.pc = "confirm_load" /\ t.id = s.id
          /\ t.batch = task[w].batch \ {s}
      BY DEF Maintaining, Idle
    <2>10. \A o \in task[w].batch \ {s} : o.id # s.id
      BY <2>2, BatchApart
    <2>11. SaveThen(w, s.id, r, t)
      BY <2>1
    <2> HIDE DEF r, t
    <2>12. \A o \in t.batch : [rows EXCEPT ![s.id] = r][o.id] = o.row
      BY <2>2, <2>9, <2>10, BatchKept
    <2>13. [rows EXCEPT ![s.id] = r][s.id] = r
      BY <1>1, <2>2
    <2>14. UpToDate(t, [rows EXCEPT ![s.id] = r], now)
      BY <2>2, <2>7, <2>9, <2>10, <2>12, <2>13 DEF UpToDate, LoadedPc, ConfirmPc, SendPc
    <2> QED
      BY <1>2, <2>2, <2>5, <2>7, <2>8, <2>11, <2>14, SaveThenSerialized DEF Written
  <1>6. CASE PurgeFind(w)
    <2>1. PICK B \in Limited(PiiPurgeDue(now), BatchSize) :
             Continue(w, Maintaining("purge", SnapshotsOf(B)))
      BY <1>6 DEF PurgeFind
    <2> DEFINE t == Maintaining("purge", SnapshotsOf(B))
    <2>2. t.pc = "purge" /\ t.batch = SnapshotsOf(B)
      BY <1>3
    <2>3. B \subseteq PiiPurgeDue(now)
      BY <2>1, LimitedSubset
    <2>4. \A s \in t.batch : rows[s.id] = s.row /\ PurgeDueRow(s.row, now)
      <3> SUFFICES ASSUME NEW s \in t.batch
                   PROVE  rows[s.id] = s.row /\ PurgeDueRow(s.row, now)
        OBVIOUS
      <3>1. s.id \in B /\ s.row = rows[s.id]
        BY <2>2, SnapshotsUpToDate
      <3> QED
        BY <2>3, <3>1 DEF PiiPurgeDue
    <2> HIDE DEF t
    <2>5. UpToDate(t, rows, now)
      BY <2>2, <2>4 DEF UpToDate, LoadedPc, ConfirmPc, SendPc
    <2>6. Continue(w, t)
      BY <2>1 DEF t
    <2> QED
      BY <1>2, <1>6, <2>5, <2>6, QuietSerialized DEF PurgeFind
  <1>7. CASE PurgeSave(w)
    <2>1. PICK s \in task[w].batch :
             /\ Save(s.id, Anonymized(s.row))
             /\ Continue(w, Maintaining("purge", task[w].batch \ {s}))
      BY <1>7 DEF PurgeSave
    <2> DEFINE r == Anonymized(s.row)
               t == Maintaining("purge", task[w].batch \ {s})
    <2>2. /\ s.id \in Ids /\ s.row \in Row /\ s.row = rows[s.id]
          /\ task[w].batch \subseteq Snapshot
          /\ \A o \in task[w].batch : rows[o.id] = o.row
          /\ \A o \in task[w].batch : PurgeDueRow(o.row, now)
      BY <1>1, <1>7 DEF Task, Snapshot, UpToDate, PurgeSave, At
    <2>3. Present(s.id) /\ GoodRow(s.row) /\ Counted(s.row)
      BY <1>1, <2>2, StoreAssumption DEF Present
    <2>4. r \in Row /\ r # Null
      BY <2>3, AnonymizedGood, StoreAssumption DEF GoodRow
    <2>5. /\ r.email = Null /\ r.anonymized
          /\ r.launchStatus = s.row.launchStatus
          /\ r.confirmationStatus = s.row.confirmationStatus
          /\ r.confirmationAttemptCount = s.row.confirmationAttemptCount
      BY <2>2 DEF Anonymized, Row
    <2>6. Counted(r)
      BY <2>3, <2>5 DEF Counted
    <2>7. t.pc = "purge" /\ t.batch = task[w].batch \ {s}
      BY <1>3
    <2>8. \A o \in task[w].batch \ {s} : o.id # s.id
      BY <2>2, BatchApart
    <2>9. rows' = [rows EXCEPT ![s.id] = r] /\ Continue(w, t)
      BY <2>1 DEF Save
    <2> HIDE DEF r, t
    <2>10. Forgotten(s.id, r)
      BY <2>2, <2>3, <2>4, <2>5 DEF Forgotten, Notice, Present
    <2>11. \A o \in t.batch : [rows EXCEPT ![s.id] = r][o.id] = o.row
      BY <2>2, <2>7, <2>8, BatchKept
    <2>12. UpToDate(t, [rows EXCEPT ![s.id] = r], now)
      BY <2>2, <2>7, <2>11 DEF UpToDate, LoadedPc, ConfirmPc, SendPc
    <2> QED
      BY <1>2, <2>2, <2>4, <2>6, <2>9, <2>10, <2>12, WriteSerialized DEF Written
  <1>8. CASE MaintenanceDone(w)
    BY <1>2, <1>8, IdleUpToDate, QuietSerialized DEF MaintenanceDone
  <1> QED
    BY <1>4, <1>5, <1>6, <1>7, <1>8 DEF Maintain

\* Launching.
LEMMA LaunchSerialized ==
    ASSUME SoleWorker, Good, Serialized, NEW w \in Worker, Launch(w)
    PROVE  Serialized' /\ RowStep
  <1> DEFINE id == task[w].id
  <1>1. /\ task[w] \in Task /\ GoodTask(task[w]) /\ UpToDate(task[w], rows, now)
        /\ DOMAIN rows = Ids /\ now \in Nat
        /\ \A i \in Ids : Present(i) => GoodRow(rows[i]) /\ Counted(rows[i])
    BY HeldGood
  <1>2. UNCHANGED now
    BY DEF Launch, LaunchStart, LaunchFetch, LaunchDone, LaunchSkip, LaunchRotate,
           LaunchLoad, LaunchReview, LaunchMark, LaunchMail, LaunchSave, counters
  <1>3. /\ task[w].batch \subseteq Snapshot
        /\ \A o \in task[w].batch : rows[o.id] = o.row
    BY <1>1 DEF Task, UpToDate
  <1>4. ASSUME NEW batch, NEW more, NEW after, NEW R, NEW at,
               \A o \in batch : R[o.id] = o.row
        PROVE  UpToDate(Launching(batch, more, after), R, at)
    <2> DEFINE t == Launching(batch, more, after)
    <2>1. t.pc = "launch" /\ t.batch = batch
      BY DEF Launching, Idle
    <2> HIDE DEF t
    <2>2. UpToDate(t, R, at)
      BY <1>4, <2>1 DEF UpToDate, LoadedPc, ConfirmPc, SendPc
    <2> QED
      BY <2>2 DEF t
  <1>5. ASSUME NEW s PROVE UpToDate(Past(w, s), rows, now)
    BY <1>3, <1>4 DEF Past
  <1>6. UpToDate(Processed(w), rows, now)
    BY <1>3, <1>4 DEF Processed
  <1>7. CASE LaunchStart(w)
    <2>1. UpToDate(Launching({}, TRUE, 0), rows, now)
      BY <1>4
    <2> QED
      BY <1>2, <1>7, <2>1, QuietSerialized DEF LaunchStart
  <1>8. CASE LaunchFetch(w)
    <2> DEFINE page == LaunchPage(BatchSize, task[w].after)
               t == Launching(SnapshotsOf(page), Cardinality(page) = BatchSize,
                              task[w].after)
    <2>1. \A o \in SnapshotsOf(page) : rows[o.id] = o.row
      BY SnapshotsUpToDate
    <2>2. UpToDate(t, rows, now)
      BY <1>4, <2>1
    <2>3. Continue(w, t) \/ Continue(w, Idle)
      BY <1>8 DEF LaunchFetch
    <2> HIDE DEF t
    <2> QED
      BY <1>2, <1>8, <2>2, <2>3, IdleUpToDate, QuietSerialized DEF LaunchFetch
  <1>9. CASE LaunchDone(w)
    BY <1>2, <1>9, IdleUpToDate, QuietSerialized DEF LaunchDone
  <1>10. CASE LaunchSkip(w)
    BY <1>2, <1>5, <1>10, QuietSerialized DEF LaunchSkip
  <1>11. CASE LaunchRotate(w)
    <2>1. PICK s \in task[w].batch :
             SaveThen(w, s.id, [s.row EXCEPT !.hash = LaunchToken(s.id)],
                      [Past(w, s) EXCEPT !.pc = "launch_load", !.id = s.id])
      BY <1>11 DEF LaunchRotate
    <2> DEFINE r == [s.row EXCEPT !.hash = LaunchToken(s.id)]
               t == [Past(w, s) EXCEPT !.pc = "launch_load", !.id = s.id]
    <2>2. /\ s.id \in Ids /\ s.row \in Row /\ s.row = rows[s.id]
          /\ ~s.row.anonymized
      BY <1>1, <1>3, <1>11 DEF Snapshot, LaunchRotate, At, GoodTask, Fits
    <2>3. Present(s.id) /\ GoodRow(s.row) /\ Counted(s.row)
      BY <1>1, <2>2, StoreAssumption DEF Present
    <2>4. LaunchToken(s.id) \in Token
      BY <2>2 DEF LaunchToken, Token
    <2>5. r \in Row /\ r # Null
      BY <2>2, <2>3, <2>4, RotatedGood, StoreAssumption DEF GoodRow
    <2>6. /\ r.email = s.row.email /\ ~r.anonymized
          /\ r.unsubscribedAt = s.row.unsubscribedAt
          /\ r.launchStatus = s.row.launchStatus
          /\ r.confirmationStatus = s.row.confirmationStatus
          /\ r.confirmationAttemptCount = s.row.confirmationAttemptCount
      BY <2>2 DEF Row
    <2>7. Counted(r)
      BY <2>3, <2>6 DEF Counted
    <2>8. Kept(s.id, r)
      <3> HIDE DEF r
      <3>1. SameOwner(s.id, r)
        BY <2>2, <2>3, <2>5, <2>6 DEF SameOwner
      <3>2. Notice(r) = Notice(rows[s.id])
        BY <2>2, <2>3, <2>5, <2>6 DEF Notice, Present
      <3> QED
        BY <2>2, <2>6, <3>1, <3>2 DEF Kept
    <2>9. t.pc = "launch_load" /\ t.id = s.id /\ t.batch = task[w].batch \ {s}
      BY DEF Past, Launching, Idle
    <2>10. \A o \in task[w].batch \ {s} : o.id # s.id
      BY <1>3, BatchApart
    <2>11. SaveThen(w, s.id, r, t)
      BY <2>1
    <2> HIDE DEF r, t
    <2>12. \A o \in t.batch : [rows EXCEPT ![s.id] = r][o.id] = o.row
      BY <1>3, <2>9, <2>10, BatchKept
    <2>13. UpToDate(t, [rows EXCEPT ![s.id] = r], now)
      BY <2>9, <2>10, <2>12 DEF UpToDate, LoadedPc, ConfirmPc, SendPc
    <2> QED
      BY <1>2, <2>2, <2>5, <2>7, <2>8, <2>11, <2>13, SaveThenSerialized DEF Written
  <1>12. CASE LaunchLoad(w)
    <2> DEFINE t == [task[w] EXCEPT !.pc = IF WindowExpired(rows[id]) THEN "launch_review"
                                           ELSE "launch_mark",
                                    !.row = rows[id]]
    <2>1. CASE Mailable(rows[id]) /\ Continue(w, t)
      <3>1. /\ t.pc \in {"launch_review", "launch_mark"}
            /\ t.id = id /\ t.batch = task[w].batch /\ t.row = rows[id]
        BY <1>1 DEF Task
      <3> HIDE DEF t
      <3>2. \A o \in t.batch : o.id # t.id
        BY <1>1, <1>12, <3>1 DEF UpToDate, SendPc, LaunchLoad, At
      <3>3. UpToDate(t, rows, now)
        BY <1>3, <2>1, <3>1, <3>2 DEF UpToDate, ConfirmPc, SendPc, Mailable
      <3> QED
        BY <1>2, <1>12, <2>1, <3>3, QuietSerialized DEF LaunchLoad
    <2>2. CASE Continue(w, Processed(w))
      BY <1>2, <1>6, <1>12, <2>2, QuietSerialized DEF LaunchLoad
    <2> QED
      BY <1>12, <2>1, <2>2 DEF LaunchLoad
  <1>13. ASSUME task[w].pc \in SendPc
         PROVE  /\ id \in Ids /\ task[w].row = rows[id] /\ Present(id)
                /\ GoodRow(task[w].row) /\ Counted(task[w].row)
                /\ ~task[w].row.anonymized /\ task[w].row.unsubscribedAt = Null
                /\ ~Settled(task[w].row)
                /\ \A o \in task[w].batch : o.id # id
    <2>1. /\ id \in Ids /\ task[w].row = rows[id] /\ task[w].row # Null
          /\ ~task[w].row.anonymized /\ task[w].row.unsubscribedAt = Null
          /\ ~Settled(task[w].row)
          /\ \A o \in task[w].batch : o.id # id
      BY <1>1, <1>13, StoreAssumption
      DEF GoodTask, Fits, Task, UpToDate, LoadedPc, SendPc
    <2> QED
      BY <1>1, <2>1 DEF Present
  <1>14. ASSUME task[w].pc \in SendPc, NEW r \in Row, r # Null,
                r.email = task[w].row.email, ~r.anonymized, r.unsubscribedAt = Null,
                r.confirmationStatus = task[w].row.confirmationStatus,
                r.confirmationAttemptCount = task[w].row.confirmationAttemptCount,
                Notice(r) \in {"open", "sent", "review"}
         PROVE  /\ Counted(r)
                /\ Written(id, r)
                /\ \A o \in task[w].batch : [rows EXCEPT ![id] = r][o.id] = o.row
    <2>1. Counted(r)
      BY <1>13, <1>14 DEF Counted
    <2>2. Notice(rows[id]) = "open"
      BY <1>13, <1>14 DEF Notice, Settled
    <2>3. Written(id, r)
      BY <1>13, <1>14, <2>2 DEF Written, Kept, Noticed, SameOwner
    <2>4. \A o \in task[w].batch : [rows EXCEPT ![id] = r][o.id] = o.row
      BY <1>3, <1>13, <1>14, BatchKept
    <2> QED
      BY <2>1, <2>3, <2>4
  <1>15. ASSUME task[w].pc \in SendPc, NEW r \in Row, r # Null,
                r.email = task[w].row.email, ~r.anonymized, r.unsubscribedAt = Null,
                r.confirmationStatus = task[w].row.confirmationStatus,
                r.confirmationAttemptCount = task[w].row.confirmationAttemptCount,
                SaveThen(w, id, r, Processed(w))
         PROVE  Serialized' /\ RowStep
    <2>1. Notice(r) \in {"open", "sent", "review"}
      BY DEF Notice
    <2>2. /\ Counted(r)
          /\ Written(id, r)
          /\ \A o \in task[w].batch : [rows EXCEPT ![id] = r][o.id] = o.row
      BY <1>14, <1>15, <2>1
    <2>3. UpToDate(Processed(w), [rows EXCEPT ![id] = r], now)
      BY <1>4, <2>2 DEF Processed
    <2>4. id \in Ids
      BY <1>13, <1>15
    <2> HIDE DEF id
    <2> QED
      BY <1>2, <1>15, <2>2, <2>3, <2>4, SaveThenSerialized
  <1>16. CASE LaunchReview(w)
    <2> DEFINE r == [task[w].row EXCEPT !.launchStatus = "manual_review"]
    <2>1. task[w].pc \in SendPc
      BY <1>16 DEF LaunchReview, At, SendPc
    <2>2. GoodRow(r)
      BY <1>13, <1>1, <1>16, <2>1, LaunchReviewGood
      DEF LaunchReview, At, GoodTask, Fits
    <2>3. /\ r.email = task[w].row.email /\ ~r.anonymized /\ r.unsubscribedAt = Null
          /\ r.confirmationStatus = task[w].row.confirmationStatus
          /\ r.confirmationAttemptCount = task[w].row.confirmationAttemptCount
      BY <1>13, <2>1 DEF GoodRow, Row
    <2>4. SaveThen(w, id, r, Processed(w))
      BY <1>16 DEF LaunchReview
    <2>5. r \in Row /\ r # Null
      BY <2>2, StoreAssumption DEF GoodRow
    <2> HIDE DEF r, id
    <2> QED
      BY <1>15, <2>1, <2>3, <2>4, <2>5
  <1>17. CASE LaunchMark(w)
    <2> DEFINE r == [task[w].row EXCEPT !.launchStatus = "sending",
                                        !.launchLastAttemptAt = now]
               t == [task[w] EXCEPT !.pc = "launch_mail", !.row = r]
    <2>1. task[w].pc \in SendPc
      BY <1>17 DEF LaunchMark, At, SendPc
    <2>2. GoodRow(r)
      BY <1>13, <1>1, <1>17, <2>1, LaunchMarkGood
      DEF LaunchMark, At, GoodTask, Fits
    <2>3. /\ r.email = task[w].row.email /\ ~r.anonymized /\ r.unsubscribedAt = Null
          /\ r.launchStatus = "sending"
          /\ r.confirmationStatus = task[w].row.confirmationStatus
          /\ r.confirmationAttemptCount = task[w].row.confirmationAttemptCount
      BY <1>13, <2>1 DEF GoodRow, Row
    <2>4. SaveThen(w, id, r, t)
      BY <1>17 DEF LaunchMark
    <2>5. r \in Row /\ r # Null
      BY <2>2, StoreAssumption DEF GoodRow
    <2> HIDE DEF r
    <2>6. t.pc = "launch_mail" /\ t.id = id /\ t.row = r /\ t.batch = task[w].batch
      BY <1>1 DEF Task
    <2> HIDE DEF t
    <2>7. Notice(r) = "open" /\ ~Settled(r)
      BY <2>3 DEF Notice, Settled
    <2>8. /\ Counted(r)
          /\ Written(id, r)
          /\ \A o \in task[w].batch : [rows EXCEPT ![id] = r][o.id] = o.row
      BY <1>14, <2>1, <2>3, <2>5, <2>7
    <2>9. id \in Ids /\ \A o \in task[w].batch : o.id # id
      BY <1>13, <2>1
    <2>10. [rows EXCEPT ![id] = r][id] = r
      BY <1>1, <2>9
    <2> HIDE DEF id
    <2>11. UpToDate(t, [rows EXCEPT ![id] = r], now)
      BY <2>3, <2>6, <2>7, <2>8, <2>9, <2>10 DEF UpToDate, ConfirmPc, SendPc
    <2> QED
      BY <1>2, <2>4, <2>5, <2>8, <2>9, <2>11, SaveThenSerialized
  <1>18. CASE LaunchMail(w)
    <2>1. PICK outcome \in Outcomes :
             Continue(w, [task[w] EXCEPT !.pc = "launch_save", !.outcome = outcome])
      BY <1>18 DEF LaunchMail
    <2> DEFINE t == [task[w] EXCEPT !.pc = "launch_save", !.outcome = outcome]
    <2>2. /\ t.pc = "launch_save" /\ t.id = id /\ t.batch = task[w].batch
          /\ t.row = task[w].row
      BY <1>1 DEF Task
    <2>3. Continue(w, t)
      BY <2>1
    <2> HIDE DEF t
    <2>4. task[w].pc = "launch_mail"
      BY <1>18 DEF LaunchMail, At
    <2>5. UpToDate(t, rows, now)
      BY <1>1, <2>2, <2>4 DEF UpToDate, ConfirmPc, SendPc, LoadedPc
    <2> QED
      BY <1>2, <1>18, <2>3, <2>5, QuietSerialized DEF LaunchMail
  <1>19. CASE LaunchSave(w)
    <2> DEFINE r == LaunchOutcome(task[w].row, task[w].outcome)
    <2>1. task[w].pc \in SendPc
      BY <1>19 DEF LaunchSave, At, SendPc
    <2>2. GoodRow(r)
      BY <1>13, <1>1, <1>19, <2>1, LaunchOutcomeGood
      DEF LaunchSave, At, GoodTask, Fits, Task
    <2>3. /\ r.email = task[w].row.email /\ ~r.anonymized /\ r.unsubscribedAt = Null
          /\ r.confirmationStatus = task[w].row.confirmationStatus
          /\ r.confirmationAttemptCount = task[w].row.confirmationAttemptCount
      BY <1>13, <2>1 DEF GoodRow, Row, LaunchOutcome
    <2>4. SaveThen(w, id, r, Processed(w))
      BY <1>19 DEF LaunchSave
    <2>5. r \in Row /\ r # Null
      BY <2>2, StoreAssumption DEF GoodRow
    <2> HIDE DEF r, id
    <2> QED
      BY <1>15, <2>1, <2>3, <2>4, <2>5
  <1> QED
    BY <1>7, <1>8, <1>9, <1>10, <1>11, <1>12, <1>16, <1>17, <1>18, <1>19 DEF Launch

\* Every step of a lone worker.
LEMMA NextSerialized ==
    ASSUME SoleWorker, Good, Serialized, [Next]_vars
    PROVE  Serialized' /\ RowStep
  <1>1. CASE UNCHANGED vars
    BY <1>1 DEF vars, Serialized, Present, RowStep
  <1>2. ASSUME NEW w \in Worker, Abort(w) PROVE Serialized' /\ RowStep
    BY <1>2, IdleUpToDate, QuietSerialized DEF Abort
  <1>3. CASE Tick
    <2>1. \A w \in Worker : UpToDate(task[w], rows, now')
      BY <1>3 DEF Tick, At, Serialized, UpToDate, LoadedPc, ConfirmPc, SendPc
    <2> QED
      BY <1>3, <2>1 DEF Tick, Serialized, Present, RowStep
  <1> QED
    BY <1>1, <1>2, <1>3, ConfirmSerialized, JoinSerialized, UnsubscribeSerialized,
       MaintainSerialized, LaunchSerialized DEF Next

-----------------------------------------------------------------------------
\* What follows for invocations that run one after the other.

\* A lone worker holds what the table holds in every reachable state.
THEOREM SerialInvariance ==
    ASSUME SoleWorker
    PROVE  Spec => []Serialized
  <1>1. Init => Serialized
    BY IdleUpToDate DEF Init, Serialized, Present
  <1>2. IInv /\ Serialized /\ [Next]_vars => Serialized'
    BY GoodIsIInv, NextSerialized
  <1> QED
    BY <1>1, <1>2, Invariance, PTL DEF Spec

\* One invocation at a time never counts more than three attempts to confirm a
\* subscription, wherever invocations are cut short.
THEOREM SerialAttempts ==
    ASSUME SoleWorker
    PROVE  Spec => []AttemptsWithinPolicy
  <1>1. Serialized => AttemptsWithinPolicy
    BY DEF Serialized, Counted, AttemptsWithinPolicy
  <1> QED
    BY <1>1, SerialInvariance, PTL

\* One invocation at a time, an anonymized row is never written again.
THEOREM SerialForgetting ==
    ASSUME SoleWorker
    PROVE  Spec => AnonymizedForGood
  <1>1. IInv /\ Serialized /\ [Next]_vars =>
          [\A id \in Ids : Present(id) /\ rows[id].anonymized => rows'[id] = rows[id]]_vars
    <2> SUFFICES ASSUME IInv, Serialized, [Next]_vars, NEW id \in Ids, Present(id),
                        rows[id].anonymized
                 PROVE  rows'[id] = rows[id]
      OBVIOUS
    <2>1. RowStep
      BY GoodIsIInv, NextSerialized
    <2>2. ASSUME NEW i \in Ids, NEW r \in Row, rows' = [rows EXCEPT ![i] = r], Written(i, r)
          PROVE  rows'[id] = rows[id]
      <3>1. i # id
        BY <2>2 DEF Written, Inserted, Kept, Left, Renewed, Noticed, Forgotten, SameOwner,
                    PurgeDueRow
      <3> QED
        BY <2>2, <3>1
    <2> QED
      BY <2>1, <2>2 DEF RowStep
  <1> QED
    BY <1>1, Invariance, SerialInvariance, PTL DEF Spec, AnonymizedForGood

\* One invocation at a time, a subscription that ended starts again only by the save
\* of a resubscription.
THEOREM SerialUnsubscription ==
    ASSUME SoleWorker
    PROVE  Spec => UnsubscribeSticks
  <1>1. IInv /\ Serialized /\ [Next]_vars =>
          [\A id \in Ids : Unsubscribed(id) /\ id \in LaunchEligible' => Renewing(id)]_vars
    <2> SUFFICES ASSUME IInv, Serialized, [Next]_vars, NEW id \in Ids, Unsubscribed(id),
                        id \in LaunchEligible'
                 PROVE  Renewing(id)
      OBVIOUS
    <2>1. RowStep /\ DOMAIN rows = Ids
      BY GoodIsIInv, NextSerialized DEF IInv, TypeOK
    <2>2. rows[id].unsubscribedAt # Null /\ rows'[id].unsubscribedAt = Null
          /\ ~rows'[id].anonymized /\ Present(id)
      BY DEF Unsubscribed, LaunchEligible, Current
    <2>3. ASSUME NEW i \in Ids, NEW r \in Row, rows' = [rows EXCEPT ![i] = r], Written(i, r)
          PROVE  Renewing(id)
      <3>1. i = id /\ rows'[id] = r
        BY <2>1, <2>2, <2>3
      <3> QED
        BY <2>2, <2>3, <3>1 DEF Written, Inserted, Kept, Left, Renewed, Noticed, Forgotten
    <2> QED
      BY <2>1, <2>2, <2>3 DEF RowStep
  <1> QED
    BY <1>1, Invariance, SerialInvariance, PTL DEF Spec, UnsubscribeSticks

-----------------------------------------------------------------------------
\* The subscription lifecycle.

\* A step on the rows is a step of the lifecycle, or none.
LEMMA WrittenLifecycle ==
    ASSUME Good, NEW id \in Ids, NEW r \in Row, rows' = [rows EXCEPT ![id] = r],
           Written(id, r)
    PROVE  [Lifecycle!LifecycleNext]_Lifecycle!lifecycleVars
  <1> DEFINE ph == [i \in Ids |-> Phase(rows[i])]
             ow == [i \in Ids |-> IF Present(i) THEN rows[i].email ELSE Null]
             nt == [i \in Ids |-> Notice(rows[i])]
  <1>1. DOMAIN rows = Ids /\ r # Null
    BY StoreAssumption DEF Good, RowsGood
  <1>2. ph' = [ph EXCEPT ![id] = Phase(r)]
    BY <1>1
  <1>3. nt' = [nt EXCEPT ![id] = Notice(r)]
    BY <1>1
  <1>4. ow' = [ow EXCEPT ![id] = r.email]
    BY <1>1 DEF Present
  <1>5. /\ ph[id] = Phase(rows[id]) /\ nt[id] = Notice(rows[id])
        /\ ow[id] = IF Present(id) THEN rows[id].email ELSE Null
    OBVIOUS
  <1>6. Present(id) => rows[id].email = Null <=> rows[id].anonymized
    BY DEF Good, RowsGood, GoodRow, Coherent, IdentityWhole, Present
  <1>7. CASE Inserted(id, r)
    <2>1. PICK e \in Emails, h \in Token : r = FreshRow(e, h)
      BY <1>7 DEF Inserted
    <2>2. /\ r.email = e /\ ~r.anonymized /\ r.unsubscribedAt = Null
          /\ r.launchStatus = "pending"
      BY <2>1 DEF FreshRow
    <2>3. Phase(r) = "subscribed" /\ Notice(r) = "open"
      BY <1>1, <2>2 DEF Phase, Notice
    <2>4. ph[id] = "none" /\ nt[id] = "open" /\ ow[id] = Null
      BY <1>5, <1>7 DEF Inserted, Present, Phase, Notice
    <2>5. \A o \in Ids : ow[o] # e
      <3> SUFFICES ASSUME NEW o \in Ids, Present(o), rows[o].email = e PROVE FALSE
        BY StoreAssumption
      <3>1. ~rows[o].anonymized
        BY StoreAssumption DEF Good, RowsGood, GoodRow, Coherent, IdentityWhole, Present
      <3>2. o \in Current \ {id}
        BY <1>7, <3>1 DEF Inserted, Current
      <3>3. \A c \in Current \ {id} : rows[c].email # r.email
        BY <1>7, <2>2, StoreAssumption DEF Inserted, IndexAllows
      <3> QED
        BY <2>2, <3>2, <3>3
    <2>6. nt' = nt
      BY <1>3, <2>3, <2>4
    <2> HIDE DEF ph, ow, nt
    <2>7. /\ ph[id] = "none" /\ \A o \in Ids : ow[o] # e
          /\ ph' = [ph EXCEPT ![id] = "subscribed"]
          /\ ow' = [ow EXCEPT ![id] = e] /\ nt' = nt
      BY <1>2, <1>4, <2>2, <2>3, <2>4, <2>5, <2>6
    <2>8. Lifecycle!Subscribe(id, e)
      BY <2>7 DEF Lifecycle!Subscribe, ph, ow, nt
    <2> QED
      BY <2>8 DEF Lifecycle!LifecycleNext
  <1>8. ASSUME SameOwner(id, r)
        PROVE  /\ ow' = ow
               /\ Phase(r) = IF r.unsubscribedAt = Null THEN "subscribed"
                             ELSE "unsubscribed"
               /\ ph[id] = IF rows[id].unsubscribedAt = Null THEN "subscribed"
                           ELSE "unsubscribed"
    <2>1. ow[id] = r.email
      BY <1>5, <1>8 DEF SameOwner
    <2>2. ow' = ow
      BY <1>4, <2>1
    <2> QED
      BY <1>5, <1>8, <2>2 DEF SameOwner, Phase, Present
  <1>9. CASE Kept(id, r)
    <2>1. ph' = ph /\ ow' = ow /\ nt' = nt
      BY <1>2, <1>3, <1>5, <1>8, <1>9 DEF Kept
    <2> QED
      BY <2>1 DEF Lifecycle!lifecycleVars
  <1>10. CASE Left(id, r)
    <2>1. /\ ph[id] = "subscribed" /\ ph' = [ph EXCEPT ![id] = "unsubscribed"]
          /\ ow' = ow /\ nt' = nt
      BY <1>2, <1>3, <1>5, <1>8, <1>10 DEF Left
    <2>2. Lifecycle!Leave(id)
      BY <2>1 DEF Lifecycle!Leave
    <2> QED
      BY <2>2 DEF Lifecycle!LifecycleNext
  <1>11. CASE Renewed(id, r)
    <2>1. /\ ph[id] = "unsubscribed" /\ ph' = [ph EXCEPT ![id] = "subscribed"]
          /\ ow' = ow /\ nt' = nt
      BY <1>2, <1>3, <1>5, <1>8, <1>11 DEF Renewed
    <2>2. Lifecycle!Renew(id)
      BY <2>1 DEF Lifecycle!Renew
    <2> QED
      BY <2>2 DEF Lifecycle!LifecycleNext
  <1>12. CASE Noticed(id, r)
    <2>1. /\ ph[id] = "subscribed" /\ ph' = ph /\ ow' = ow
          /\ nt[id] = "open" /\ nt' = [nt EXCEPT ![id] = Notice(r)]
          /\ Notice(r) \in {"sent", "review"}
      BY <1>2, <1>3, <1>5, <1>8, <1>12 DEF Noticed
    <2>2. Lifecycle!Settle(id)
      BY <2>1 DEF Lifecycle!Settle
    <2> QED
      BY <2>2 DEF Lifecycle!LifecycleNext
  <1>13. CASE Forgotten(id, r)
    <2>1. Phase(r) = "forgotten" /\ nt' = nt
      BY <1>1, <1>3, <1>5, <1>13 DEF Forgotten, Phase
    <2>2. /\ Present(id) /\ ~rows[id].anonymized
          /\ rows[id].launchSentAt # Null \/ rows[id].unsubscribedAt # Null
      BY <1>13 DEF Forgotten, PurgeDueRow
    <2>3. rows[id].launchSentAt # Null => rows[id].launchStatus = "sent"
      BY <2>2 DEF Good, RowsGood, GoodRow, Coherent, DeliveryCoherent, Present
    <2>4. \/ ph[id] = "unsubscribed"
          \/ ph[id] = "subscribed" /\ nt[id] = "sent"
      BY <1>5, <2>2, <2>3 DEF Phase, Notice, Present
    <2>5. ph' = [ph EXCEPT ![id] = "forgotten"] /\ ow' = [ow EXCEPT ![id] = Null]
      BY <1>2, <1>4, <1>13, <2>1 DEF Forgotten
    <2>6. Lifecycle!ForgetSignup(id)
      BY <2>1, <2>4, <2>5 DEF Lifecycle!ForgetSignup
    <2> QED
      BY <2>6 DEF Lifecycle!LifecycleNext
  <1> QED
    BY <1>7, <1>9, <1>10, <1>11, <1>12, <1>13 DEF Written

\* One invocation at a time, wherever invocations are cut short and whatever the
\* provider answers, the system implements the subscription lifecycle.
THEOREM SerialLifecycle ==
    ASSUME SoleWorker
    PROVE  Spec => ImplementsLifecycle
  <1>1. Init => Lifecycle!LifecycleInit
    BY DEF Init, Lifecycle!LifecycleInit, Phase, Notice, Present
  <1>2. IInv /\ Serialized /\ [Next]_vars
        => [Lifecycle!LifecycleNext]_Lifecycle!lifecycleVars
    <2> SUFFICES ASSUME IInv, Serialized, [Next]_vars
                 PROVE  [Lifecycle!LifecycleNext]_Lifecycle!lifecycleVars
      OBVIOUS
    <2>1. Good /\ RowStep
      BY GoodIsIInv, NextSerialized
    <2>2. CASE UNCHANGED rows
      BY <2>2 DEF Lifecycle!lifecycleVars, Present
    <2> QED
      BY <2>1, <2>2, WrittenLifecycle DEF RowStep
  <1> QED
    BY <1>1, <1>2, Invariance, SerialInvariance, PTL
    DEF Spec, ImplementsLifecycle, Lifecycle!LifecycleSpec

=============================================================================
