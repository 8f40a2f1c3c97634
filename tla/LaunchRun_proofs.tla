-------------------------- MODULE LaunchRun_proofs --------------------------
(***************************************************************************)
(* Theorems about launch runs: nobody gets the launch notification twice   *)
(* from two dispatches, and a run that comes to its end passed nobody over;*)
(* and maintenance runs that overlap them erase only what is due.          *)
(***************************************************************************)
EXTENDS EarlyAccessSerial_proofs, FiniteSetTheorems, MCEarlyAccess

LaunchPc == SendPc \cup {"launch", "launch_load"}
Launches(t) == t.pc \in LaunchPc

-----------------------------------------------------------------------------
(* One notification in two dispatches. *)

\* No run mails the row any more.
Closed(r) == r # Null /\ (r.anonymized \/ Settled(r))

\* The last attempt is open, and the provider knows its key for as long as the window
\* of the use case lets it be repeated.
OpenAttempt(id) ==
    /\ Present(id)
    /\ rows[id].launchStatus = "sending"
    /\ rows[id].launchLastAttemptAt # Null
    /\ now - rows[id].launchLastAttemptAt < OneDay =>
         \E e \in ledger : e.key = LaunchKey(id) /\ e.at >= rows[id].launchLastAttemptAt

Mailed(id) == launchMails[id] # 0

\* A run works through its page in the order of the ids; an attempt is dated before it
\* is made, and no time passes until it is made.
AtCursor(t, at) ==
    Launches(t) =>
        /\ t.after \in Nat
        /\ t.pc # "launch" => t.id = t.after
        /\ \A s \in t.batch : s.id > t.after
        /\ t.pc = "launch_mail" => t.row.launchLastAttemptAt = at

\* The first run mails nobody it has not come to, and knows when it has mailed.
FirstRun(t, mails) ==
    Launches(t) =>
        /\ \A id \in Ids : id > t.after => mails[id] = 0
        /\ t.pc \in {"launch_load", "launch_review", "launch_mark", "launch_mail"} =>
             mails[t.id] = 0
        /\ t.pc = "launch_save" /\ mails[t.id] # 0 => t.outcome \in {"accepted", "ambiguous"}

\* The second run is about to mail only what the provider knows, if it was mailed.
SecondRun(t) ==
    Launches(t) =>
        \A id \in Ids : Mailed(id) =>
            \/ Closed(rows[id])
            \/ Remembered(LaunchKey(id))
            \/ /\ OpenAttempt(id)
               /\ t.pc \in {"launch_mark", "launch_mail", "launch_save"} => t.id # id

OnceInv ==
    /\ \A w \in Worker : AtCursor(task[w], now)
    /\ launchRuns = 0 => /\ \A id \in Ids : ~Mailed(id)
                         /\ \A w \in Worker : ~Launches(task[w])
    /\ launchRuns = 1 => /\ \A id \in Ids : Mailed(id) => Closed(rows[id]) \/ OpenAttempt(id)
                         /\ \A w \in Worker : FirstRun(task[w], launchMails)
    /\ launchRuns = 2 => \A w \in Worker : SecondRun(task[w])
    /\ launchRuns <= 2 => LaunchMailOnce

\* What a write leaves of a row for the launch.
SameNotice(r, q) ==
    /\ q # Null
    /\ q.launchStatus = r.launchStatus
    /\ q.launchLastAttemptAt = r.launchLastAttemptAt
    /\ r.anonymized => q.anonymized

SameNotices == \A id \in Ids : Present(id) => SameNotice(rows[id], rows'[id])

\* A step that mails no notification and leaves nobody launching.
AsideStep ==
    /\ UNCHANGED <<now, launchRuns, launchMails>>
    /\ ledger \subseteq ledger'
    /\ SameNotices
    /\ \A w \in Worker : ~Launches(task'[w])

\* What is on record of a row stays so.
LEMMA SameNoticeKeeps ==
    ASSUME UNCHANGED <<now, launchMails>>, ledger \subseteq ledger', NEW id \in Ids,
           Present(id) => SameNotice(rows[id], rows'[id])
    PROVE  /\ Mailed(id)' <=> Mailed(id)
           /\ Closed(rows[id]) => Closed(rows'[id])
           /\ OpenAttempt(id) => OpenAttempt(id)'
           /\ Remembered(LaunchKey(id)) => Remembered(LaunchKey(id))'
  BY DEF Mailed, Closed, Settled, Present, SameNotice, OpenAttempt, Remembered, LaunchKey

\* A step aside keeps every count of mails.
LEMMA AsideOnce ==
    ASSUME OnceInv, AsideStep
    PROVE  OnceInv'
  <1>1. \A w \in Worker : /\ AtCursor(task[w], now)' /\ FirstRun(task[w], launchMails)'
                          /\ SecondRun(task[w])'
    BY DEF AsideStep, AtCursor, FirstRun, SecondRun
  <1>2. \A id \in Ids : /\ Mailed(id)' <=> Mailed(id)
                        /\ Closed(rows[id]) => Closed(rows[id])'
                        /\ OpenAttempt(id) => OpenAttempt(id)'
    BY SameNoticeKeeps DEF AsideStep, SameNotices, Closed
  <1>3. LaunchMailOnce => LaunchMailOnce'
    BY DEF AsideStep, LaunchMailOnce
  <1> QED
    BY <1>1, <1>2, <1>3 DEF OnceInv, AsideStep

\* A lone worker that is not launching goes on, and writes at most one row.
LEMMA QuietAside ==
    ASSUME SoleWorker, Good, NEW w \in Worker, NEW t, Continue(w, t), ~Launches(t),
           UNCHANGED <<rows, now, launchRuns, launchMails>>, ledger \subseteq ledger'
    PROVE  AsideStep
  <1>1. \A v \in Worker : task'[v] = t
    BY DEF SoleWorker, Good, TasksGood, Continue
  <1>2. SameNotices
    BY DEF SameNotices, SameNotice, Present
  <1> QED
    BY <1>1, <1>2 DEF AsideStep

\* A write of one row that leaves its launch notice alone is a step aside.
LEMMA WriteAside ==
    ASSUME SoleWorker, Good, NEW w \in Worker, NEW t, Continue(w, t), ~Launches(t),
           UNCHANGED <<now, launchRuns, launchMails, ledger>>,
           NEW id \in Ids, NEW r, rows' = [rows EXCEPT ![id] = r],
           Present(id) => SameNotice(rows[id], r)
    PROVE  AsideStep
  <1>1. \A v \in Worker : task'[v] = t
    BY DEF SoleWorker, Good, TasksGood, Continue
  <1>2. SameNotices
    BY DEF SameNotices, SameNotice, Present, Good, RowsGood
  <1> QED
    BY <1>1, <1>2 DEF AsideStep

\* A free worker dispatches nothing.
LEMMA IdleRests == ~Launches(Idle)
  BY DEF Idle, Launches, LaunchPc, SendPc

\* A save that leaves the launch notice alone is one, whether it succeeds or fails.
LEMMA SaveThenAside ==
    ASSUME SoleWorker, Good, NEW w \in Worker, NEW t, ~Launches(t),
           UNCHANGED <<now, launchRuns, launchMails, ledger>>,
           NEW id \in Ids, NEW r, SaveThen(w, id, r, t), SameNotice(rows[id], r)
    PROVE  AsideStep
  <1>1. CASE Save(id, r) /\ Continue(w, t)
    BY <1>1, WriteAside DEF Save
  <1>2. CASE UNCHANGED rows /\ Continue(w, Idle)
    BY <1>2, IdleRests, QuietAside
  <1> QED
    BY <1>1, <1>2 DEF SaveThen

\* Confirming.
LEMMA ConfirmAside ==
    ASSUME SoleWorker, Good, Serialized, NEW w \in Worker, Confirm(w)
    PROVE  AsideStep
  <1>1. /\ task[w] \in Task /\ GoodTask(task[w]) /\ UpToDate(task[w], rows, now)
        /\ DOMAIN rows = Ids /\ now \in Nat
        /\ \A i \in Ids : Present(i) => GoodRow(rows[i]) /\ Counted(rows[i])
    BY HeldGood
  <1>2. ~Launches(AfterConfirmation(w))
    BY IdleRests DEF AfterConfirmation, Idle, Launches, LaunchPc, SendPc
  <1>3. CASE ConfirmLoad(w)
    <2> DEFINE t == [task[w] EXCEPT !.pc = "confirm_mail", !.row = rows[task[w].id]]
    <2>1. ~Launches(t)
      BY <1>1 DEF Task, Launches, LaunchPc, SendPc
    <2>2. Continue(w, t) \/ Continue(w, AfterConfirmation(w))
      BY <1>3 DEF ConfirmLoad
    <2> HIDE DEF t
    <2> QED
      BY <1>2, <1>3, <2>1, <2>2, QuietAside DEF ConfirmLoad, mailVars, counters
  <1>4. CASE ConfirmMail(w)
    <2>1. PICK outcome \in Outcomes :
             /\ Send(ConfirmationKey(task[w].id, task[w].row.confirmationAttemptCount + 1),
                     task[w].token, now, outcome)
             /\ Continue(w, [task[w] EXCEPT !.pc = "confirm_save", !.outcome = outcome])
      BY <1>4 DEF ConfirmMail
    <2> DEFINE t == [task[w] EXCEPT !.pc = "confirm_save", !.outcome = outcome]
    <2>2. ~Launches(t)
      BY <1>1 DEF Task, Launches, LaunchPc, SendPc
    <2>3. ledger \subseteq ledger' /\ UNCHANGED launchMails
      BY <2>1 DEF Send, Deliver, ConfirmationKey, mailVars
    <2>4. Continue(w, t)
      BY <2>1
    <2> HIDE DEF t
    <2> QED
      BY <1>4, <2>2, <2>3, <2>4, QuietAside DEF ConfirmMail, counters
  <1>5. CASE ConfirmSave(w)
    <2> DEFINE id == task[w].id
               r  == ApplyOutcome(task[w].row, task[w].outcome, now)
    <2>1. /\ task[w].row = rows[id] /\ task[w].row # Null /\ id \in Ids
          /\ task[w].outcome \in Outcomes /\ ~task[w].row.anonymized
      BY <1>1, <1>5, StoreAssumption
      DEF ConfirmSave, At, UpToDate, GoodTask, Fits, Task, LoadedPc
    <2>2. GoodRow(task[w].row)
      BY <1>1, <2>1 DEF Present
    <2>3. r \in Row /\ r # Null
      BY <2>1, <2>2, <1>1, ApplyOutcomeGood, StoreAssumption DEF GoodRow
    <2>4. SameNotice(rows[id], r)
      BY <2>1, <2>2, <2>3 DEF ApplyOutcome, GoodRow, Row, SameNotice
    <2>5. SaveThen(w, id, r, AfterConfirmation(w)) /\ id \in Ids
      BY <1>5, <2>1 DEF ConfirmSave
    <2> HIDE DEF r, id
    <2> QED
      BY <1>2, <1>5, <2>4, <2>5, SaveThenAside DEF ConfirmSave, mailVars, counters
  <1> QED
    BY <1>3, <1>4, <1>5 DEF Confirm

\* Signing up.
LEMMA ResolveAside ==
    ASSUME SoleWorker, Good, NEW w \in Worker, NEW e, NEW id, ResolveExisting(w, e, id),
           UNCHANGED <<rows, mailVars, counters>>
    PROVE  AsideStep
  <1> DEFINE t == [Joining(e) EXCEPT !.pc = "resubscribe", !.id = id, !.row = rows[id]]
  <1>1. ~Launches(t)
    BY DEF Joining, Idle, Launches, LaunchPc, SendPc
  <1>2. Continue(w, t) \/ Continue(w, Idle)
    BY DEF ResolveExisting
  <1> HIDE DEF t
  <1> QED
    BY <1>1, <1>2, IdleRests, QuietAside DEF mailVars, counters

\* A signup changes no notice of a row that is there.
LEMMA JoinAside ==
    ASSUME SoleWorker, Good, Serialized, NEW w \in Worker, Join(w)
    PROVE  AsideStep
  <1>1. /\ task[w] \in Task /\ GoodTask(task[w]) /\ UpToDate(task[w], rows, now)
        /\ DOMAIN rows = Ids /\ now \in Nat
        /\ \A i \in Ids : Present(i) => GoodRow(rows[i]) /\ Counted(rows[i])
    BY HeldGood
  <1>2. ASSUME NEW id PROVE ~Launches(Confirming(w, id, NewToken))
    BY DEF Confirming, Joining, Idle, Launches, LaunchPc, SendPc
  <1>3. ASSUME NEW e \in Emails, JoinFind(w, e) PROVE AsideStep
    <2> DEFINE t == [Joining(e) EXCEPT !.pc = "create"]
    <2>1. ~Launches(t)
      BY DEF Joining, Idle, Launches, LaunchPc, SendPc
    <2> HIDE DEF t
    <2>2. CASE Continue(w, t)
      BY <1>3, <2>1, <2>2, QuietAside DEF JoinFind, mailVars, counters
    <2>3. CASE \E id \in FindCurrentByNormalizedEmail(e) : ResolveExisting(w, e, id)
      BY <1>3, <2>3, ResolveAside DEF JoinFind
    <2> QED
      BY <1>3, <2>2, <2>3 DEF JoinFind, t
  <1>4. CASE JoinCreate(w)
    <2>1. PICK id \in Ids : /\ Create(id, task[w].email, NewToken)
                            /\ Continue(w, Confirming(w, id, NewToken))
      BY <1>4 DEF JoinCreate
    <2> QED
      BY <1>2, <1>4, <2>1, WriteAside DEF JoinCreate, Create, mailVars, counters
  <1>5. CASE JoinConflict(w)
    <2> DEFINE t == [task[w] EXCEPT !.pc = "refind"]
    <2>1. ~Launches(t)
      BY <1>1 DEF Task, Launches, LaunchPc, SendPc
    <2>2. Continue(w, t)
      BY <1>5 DEF JoinConflict
    <2> HIDE DEF t
    <2> QED
      BY <1>5, <2>1, <2>2, QuietAside DEF JoinConflict, mailVars, counters
  <1>6. CASE JoinRefind(w)
    BY <1>6, IdleRests, QuietAside, ResolveAside DEF JoinRefind, mailVars, counters
  <1>7. CASE Resubscribe(w)
    <2> DEFINE id == task[w].id
               r  == Resubscribed(task[w].row, task[w].email, NewToken)
    <2>1. /\ id \in Ids /\ task[w].row # Null /\ task[w].row = rows[id]
          /\ ~task[w].row.anonymized /\ task[w].email \in Emails
      BY <1>1, <1>7, StoreAssumption
      DEF GoodTask, Fits, Task, Resubscribe, At, UpToDate, LoadedPc
    <2>2. GoodRow(task[w].row) /\ NewToken \in Token
      BY <1>1, <2>1 DEF Present, NewToken, GeneratedToken, Token, Good, CountersOK
    <2>3. r \in Row /\ r # Null
      BY <2>1, <2>2, ResubscribedGood, StoreAssumption DEF GoodRow
    <2>4. SameNotice(rows[id], r)
      BY <2>1, <2>2, <2>3 DEF Resubscribed, GoodRow, Row, SameNotice
    <2>5. SaveThen(w, id, r, Confirming(w, id, NewToken)) /\ id \in Ids
      BY <1>7, <2>1 DEF Resubscribe
    <2> HIDE DEF r, id
    <2> QED
      BY <1>2, <1>7, <2>4, <2>5, SaveThenAside DEF Resubscribe, mailVars, counters
  <1> QED
    BY <1>3, <1>4, <1>5, <1>6, <1>7 DEF Join

\* Unsubscribing.
LEMMA UnsubscribeAside ==
    ASSUME SoleWorker, Good, Serialized, NEW w \in Worker, Unsubscribe(w)
    PROVE  AsideStep
  <1>1. /\ task[w] \in Task /\ GoodTask(task[w]) /\ UpToDate(task[w], rows, now)
        /\ DOMAIN rows = Ids /\ now \in Nat
        /\ \A i \in Ids : Present(i) => GoodRow(rows[i]) /\ Counted(rows[i])
    BY HeldGood
  <1>2. ASSUME NEW token, UnsubscribeFind(w, token) PROVE AsideStep
    <2>1. PICK id \in FindByManageTokenHash(token) :
             Continue(w, [Idle EXCEPT !.pc = "unsubscribe", !.job = "unsubscribe",
                                      !.id = id, !.row = rows[id]])
      BY <1>2 DEF UnsubscribeFind
    <2> DEFINE t == [Idle EXCEPT !.pc = "unsubscribe", !.job = "unsubscribe",
                                 !.id = id, !.row = rows[id]]
    <2>2. ~Launches(t)
      BY DEF Idle, Launches, LaunchPc, SendPc
    <2>3. Continue(w, t)
      BY <2>1
    <2> HIDE DEF t
    <2> QED
      BY <1>2, <2>2, <2>3, QuietAside DEF UnsubscribeFind, mailVars, counters
  <1>3. CASE UnsubscribeSave(w)
    <2> DEFINE id == task[w].id
               r  == [task[w].row EXCEPT !.unsubscribedAt = now]
    <2>1. /\ id \in Ids /\ task[w].row # Null /\ task[w].row = rows[id]
          /\ ~task[w].row.anonymized
      BY <1>1, <1>3, StoreAssumption
      DEF GoodTask, Fits, Task, UnsubscribeSave, At, UpToDate, LoadedPc
    <2>2. GoodRow(task[w].row)
      BY <1>1, <2>1 DEF Present
    <2>3. r \in Row /\ r # Null
      BY <1>1, <2>2, UnsubscribedGood, StoreAssumption DEF GoodRow
    <2>4. SameNotice(rows[id], r)
      BY <2>1, <2>2, <2>3 DEF GoodRow, Row, SameNotice
    <2>5. SaveThen(w, id, r, Idle) /\ id \in Ids
      BY <1>3, <2>1 DEF UnsubscribeSave
    <2> HIDE DEF r, id
    <2> QED
      BY <1>3, <2>4, <2>5, IdleRests, SaveThenAside DEF UnsubscribeSave, mailVars, counters
  <1> QED
    BY <1>2, <1>3 DEF Unsubscribe

\* Maintaining.
LEMMA MaintainAside ==
    ASSUME SoleWorker, Good, Serialized, NEW w \in Worker, Maintain(w)
    PROVE  AsideStep
  <1>1. /\ task[w] \in Task /\ GoodTask(task[w]) /\ UpToDate(task[w], rows, now)
        /\ DOMAIN rows = Ids /\ now \in Nat
        /\ \A i \in Ids : Present(i) => GoodRow(rows[i]) /\ Counted(rows[i])
    BY HeldGood
  <1>2. ASSUME NEW batch
        PROVE  ~Launches(Maintaining("retry", batch)) /\ ~Launches(Maintaining("purge", batch))
    BY DEF Maintaining, Idle, Launches, LaunchPc, SendPc
  <1>3. ASSUME NEW s \in task[w].batch
        PROVE  /\ s.id \in Ids /\ s.row \in Row /\ s.row = rows[s.id] /\ s.row # Null
    BY <1>1, StoreAssumption DEF Task, Snapshot, UpToDate
  <1>4. CASE RetryFind(w)
    BY <1>2, <1>4, QuietAside DEF RetryFind, mailVars, counters
  <1>5. CASE RetryRotate(w)
    <2>1. PICK s \in task[w].batch :
             SaveThen(w, s.id, [s.row EXCEPT !.hash = NewToken],
                      [Maintaining("confirm_load", task[w].batch \ {s})
                         EXCEPT !.id = s.id, !.token = NewToken])
      BY <1>5 DEF RetryRotate
    <2> DEFINE r == [s.row EXCEPT !.hash = NewToken]
               t == [Maintaining("confirm_load", task[w].batch \ {s})
                         EXCEPT !.id = s.id, !.token = NewToken]
    <2>2. NewToken \in Token
      BY DEF NewToken, GeneratedToken, Token, Good, CountersOK
    <2>3. r \in Row /\ r # Null
      BY <1>3, <2>2, StoreAssumption DEF Row
    <2>4. SameNotice(rows[s.id], r)
      BY <1>3, <2>3 DEF Row, SameNotice
    <2>5. ~Launches(t)
      BY DEF Maintaining, Idle, Launches, LaunchPc, SendPc
    <2>6. SaveThen(w, s.id, r, t)
      BY <2>1
    <2> HIDE DEF r, t
    <2> QED
      BY <1>3, <1>5, <2>4, <2>5, <2>6, SaveThenAside DEF RetryRotate, mailVars, counters
  <1>6. CASE PurgeFind(w)
    BY <1>2, <1>6, QuietAside DEF PurgeFind, mailVars, counters
  <1>7. CASE PurgeSave(w)
    <2>1. PICK s \in task[w].batch :
             /\ Save(s.id, Anonymized(s.row))
             /\ Continue(w, Maintaining("purge", task[w].batch \ {s}))
      BY <1>7 DEF PurgeSave
    <2> DEFINE r == Anonymized(s.row)
    <2>2. r \in Row /\ r # Null
      BY <1>3, StoreAssumption DEF Anonymized, Row
    <2>3. SameNotice(rows[s.id], r)
      BY <1>3, <2>2 DEF Anonymized, Row, SameNotice
    <2>4. rows' = [rows EXCEPT ![s.id] = r]
      BY <2>1 DEF Save
    <2> HIDE DEF r
    <2> QED
      BY <1>2, <1>3, <1>7, <2>1, <2>3, <2>4, WriteAside DEF PurgeSave, mailVars, counters
  <1>8. CASE MaintenanceDone(w)
    BY <1>8, IdleRests, QuietAside DEF MaintenanceDone, mailVars, counters
  <1> QED
    BY <1>4, <1>5, <1>6, <1>7, <1>8 DEF Maintain

-----------------------------------------------------------------------------
\* A write that the count of the row's notifications does not depend on: it has had
\* none, or the provider knows its key.
Unconcerned(id) ==
    /\ launchRuns = 1 => ~Mailed(id)
    /\ launchRuns = 2 /\ Mailed(id) => Remembered(LaunchKey(id))

\* A run goes on without calling the provider.
LEMMA GoesOnOnce ==
    ASSUME SoleWorker, Good, OnceInv, NEW w \in Worker, NEW t, Continue(w, t),
           UNCHANGED <<now, launchRuns, launchMails, ledger>>,
           Launches(task[w]), Launches(t), AtCursor(t, now), t.after >= task[w].after,
           t.pc # "launch_save",
           t.pc \in {"launch_load", "launch_review", "launch_mark", "launch_mail"} /\ launchRuns = 1
             => ~Mailed(t.id),
           t.pc \in {"launch_mark", "launch_mail"} => Unconcerned(t.id),
           \A id \in Ids : Present(id) => \/ SameNotice(rows[id], rows'[id])
                                         \/ Closed(rows'[id])
                                         \/ Unconcerned(id)
    PROVE  OnceInv'
  <1>1. \A v \in Worker : task'[v] = t /\ task[v] = task[w]
    BY DEF SoleWorker, Good, TasksGood, Continue
  <1>2. AtCursor(task[w], now) /\ launchRuns # 0
    BY DEF OnceInv
  <1>3. \A id \in Ids : (Mailed(id)' <=> Mailed(id))
                        /\ (Remembered(LaunchKey(id))' <=> Remembered(LaunchKey(id)))
    BY DEF Mailed, Remembered, LaunchKey
  <1>4. ASSUME NEW id \in Ids, Mailed(id), Closed(rows[id]) \/ OpenAttempt(id), ~Unconcerned(id)
        PROVE  /\ Closed(rows[id]) => Closed(rows'[id])
               /\ OpenAttempt(id) => Closed(rows'[id]) \/ OpenAttempt(id)'
    <2>1. Present(id)
      BY <1>4 DEF Closed, OpenAttempt, Present
    <2> QED
      BY <1>4, <2>1, SameNoticeKeeps
  <1>5. CASE launchRuns = 1
    <2>1. FirstRun(task[w], launchMails)
      BY <1>5 DEF OnceInv
    <2>2. FirstRun(t, launchMails)
      <3>1. \A id \in Ids : id > t.after => launchMails[id] = 0
        BY <1>2, <2>1, StoreAssumption DEF AtCursor, FirstRun
      <3> QED
        BY <1>5, <3>1 DEF FirstRun, Mailed
    <2>3. ASSUME NEW id \in Ids, Mailed(id) PROVE (Closed(rows[id]) \/ OpenAttempt(id))'
      BY <1>4, <1>5, <2>3 DEF OnceInv, Unconcerned
    <2> QED
      BY <1>1, <1>3, <1>5, <2>2, <2>3 DEF OnceInv, LaunchMailOnce
  <1>6. CASE launchRuns = 2
    <2>1. SecondRun(task[w])
      BY <1>6 DEF OnceInv
    <2>2. ASSUME NEW id \in Ids, Mailed(id)
          PROVE  \/ Closed(rows'[id])
                 \/ Remembered(LaunchKey(id))'
                 \/ /\ OpenAttempt(id)'
                    /\ t.pc \in {"launch_mark", "launch_mail", "launch_save"} => t.id # id
      <3>1. CASE Remembered(LaunchKey(id))
        BY <1>3, <3>1
      <3>2. CASE ~Remembered(LaunchKey(id))
        <4>1. ~Unconcerned(id)
          BY <1>6, <2>2, <3>2 DEF Unconcerned
        <4>2. t.pc \in {"launch_mark", "launch_mail", "launch_save"} => t.id # id
          BY <4>1
        <4>3. Closed(rows[id]) \/ OpenAttempt(id)
          BY <2>1, <2>2, <3>2 DEF SecondRun
        <4> QED
          BY <1>4, <2>2, <4>1, <4>2, <4>3
      <3> QED
        BY <3>1, <3>2
    <2>3. SecondRun(task[w])'
      BY <1>1, <1>3, <2>2 DEF SecondRun
    <2> QED
      BY <1>1, <1>6, <2>3 DEF OnceInv, LaunchMailOnce
  <1>7. CASE launchRuns \notin {1, 2}
    <2>1. launchRuns \in Nat /\ launchRuns > 2
      BY <1>2, <1>7 DEF Good, CountersOK
    <2> QED
      BY <1>1, <1>2, <2>1 DEF OnceInv
  <1> QED
    BY <1>5, <1>6, <1>7

\* A run between two recipients.
LEMMA LaunchingFields ==
    ASSUME NEW batch, NEW more, NEW after
    PROVE  /\ Launching(batch, more, after).pc = "launch"
           /\ Launching(batch, more, after).batch = batch
           /\ Launching(batch, more, after).after = after
           /\ Launching(batch, more, after).more = more
  BY DEF Launching, Idle

\* A run between two recipients is past none of its page.
LEMMA BetweenAt ==
    ASSUME NEW t, NEW at, t.pc = "launch", t.after \in Nat, \A s \in t.batch : s.id > t.after
    PROVE  AtCursor(t, at) /\ Launches(t)
  BY DEF AtCursor, Launches, LaunchPc

\* A run starts with nobody mailed in it, the second one a run after the first.
LEMMA LaunchStartOnce ==
    ASSUME SoleWorker, Good, OnceInv, NEW w \in Worker, LaunchStart(w)
    PROVE  OnceInv'
  <1> DEFINE t == Launching({}, TRUE, 0)
  <1>1. /\ Continue(w, t) /\ launchRuns' = launchRuns + 1
        /\ UNCHANGED <<rows, now, ledger, launchMails>> /\ launchRuns \in Nat
    BY DEF LaunchStart, mailVars, Good, CountersOK
  <1>2. /\ AtCursor(t, now) /\ t.pc = "launch" /\ t.after = 0
    <2>1. t.pc = "launch" /\ t.after = 0 /\ t.batch = {}
      BY DEF Launching, Idle
    <2> HIDE DEF t
    <2> QED
      BY <2>1, BetweenAt
  <1> HIDE DEF t
  <1>3. \A v \in Worker : task'[v] = t
    BY <1>1 DEF SoleWorker, Good, TasksGood, Continue
  <1>4. \A id \in Ids : /\ Mailed(id)' <=> Mailed(id)
                        /\ Closed(rows[id])' <=> Closed(rows[id])
                        /\ OpenAttempt(id)' <=> OpenAttempt(id)
    BY <1>1 DEF Mailed, Closed, Settled, OpenAttempt, Present
  <1>5. CASE launchRuns = 0
    <2>1. FirstRun(t, launchMails)
      BY <1>2, <1>5 DEF OnceInv, FirstRun, Mailed
    <2>2. \A id \in Ids : launchMails[id] = 0
      BY <1>5 DEF OnceInv, Mailed
    <2> QED
      BY <1>1, <1>2, <1>3, <1>4, <1>5, <2>1, <2>2 DEF OnceInv, LaunchMailOnce, Mailed
  <1>6. CASE launchRuns = 1
    <2>1. \A id \in Ids : Mailed(id)' => Closed(rows[id])' \/ OpenAttempt(id)'
      BY <1>4, <1>6 DEF OnceInv
    <2>2. \A v \in Worker : SecondRun(task[v])'
      BY <1>2, <1>3, <2>1 DEF SecondRun
    <2>3. launchRuns' = 2 /\ LaunchMailOnce'
      BY <1>1, <1>6 DEF OnceInv, LaunchMailOnce
    <2> QED
      BY <1>1, <1>2, <1>3, <2>2, <2>3 DEF OnceInv
  <1>7. CASE launchRuns > 1
    BY <1>1, <1>2, <1>3, <1>7 DEF OnceInv
  <1> QED
    BY <1>1, <1>5, <1>6, <1>7

\* Of two snapshots of a page, the one taken has the smaller id.
LEMMA PageBeyond ==
    ASSUME Good, Serialized, NEW w \in Worker, Launches(task[w]), AtCursor(task[w], now),
           NEW s \in task[w].batch, NextInPage(w, s)
    PROVE  /\ s.id \in Ids /\ s.id \in Nat /\ s.id > task[w].after
           /\ s.row = rows[s.id] /\ s.row \in Row /\ task[w].after \in Nat
           /\ \A o \in task[w].batch \ {s} : o.id > s.id
  <1>1. /\ task[w] \in Task /\ UpToDate(task[w], rows, now)
    BY HeldGood
  <1>2. /\ task[w].batch \subseteq Snapshot
        /\ \A o \in task[w].batch : rows[o.id] = o.row
    BY <1>1 DEF Task, UpToDate
  <1>3. ASSUME NEW o \in task[w].batch \ {s} PROVE o.id > s.id
    <2>1. o.id # s.id
      BY <1>2, BatchApart
    <2>2. o.id \in Nat /\ s.id \in Nat
      BY <1>2, StoreAssumption DEF Snapshot
    <2>3. s.id <= o.id
      BY DEF NextInPage
    <2> QED
      BY <2>1, <2>2, <2>3
  <1> QED
    BY <1>2, <1>3, StoreAssumption DEF Snapshot, AtCursor

\* A recipient that is skipped is behind the cursor.
LEMMA PastAt ==
    ASSUME Good, Serialized, NEW w \in Worker, Launches(task[w]), AtCursor(task[w], now),
           NEW s \in task[w].batch, NextInPage(w, s)
    PROVE  /\ AtCursor(Past(w, s), now) /\ Launches(Past(w, s))
           /\ Past(w, s).pc = "launch" /\ Past(w, s).after = s.id
           /\ Past(w, s).batch = task[w].batch \ {s}
           /\ Past(w, s).after >= task[w].after
  <1> DEFINE t == Past(w, s)
  <1>1. t.pc = "launch" /\ t.after = s.id /\ t.batch = task[w].batch \ {s}
    BY LaunchingFields DEF Past
  <1>2. /\ s.id \in Nat /\ s.id > task[w].after /\ task[w].after \in Nat
        /\ \A o \in task[w].batch \ {s} : o.id > s.id
    BY PageBeyond
  <1> HIDE DEF t
  <1>3. AtCursor(t, now) /\ Launches(t) /\ t.after >= task[w].after
    BY <1>1, <1>2, BetweenAt
  <1> QED
    BY <1>1, <1>3 DEF t

\* A recipient that is done with was behind the cursor.
LEMMA ProcessedAt ==
    ASSUME Good, NEW w \in Worker, Launches(task[w]), AtCursor(task[w], now)
    PROVE  /\ AtCursor(Processed(w), now) /\ Launches(Processed(w))
           /\ Processed(w).pc = "launch" /\ Processed(w).after = task[w].after
           /\ Processed(w).batch = task[w].batch
           /\ Processed(w).after >= task[w].after
  <1> DEFINE t == Processed(w)
  <1>1. t.pc = "launch" /\ t.after = task[w].after /\ t.batch = task[w].batch
    BY LaunchingFields DEF Processed
  <1>2. task[w].after \in Nat /\ \A o \in task[w].batch : o.id > task[w].after
    BY DEF AtCursor
  <1> HIDE DEF t
  <1>3. AtCursor(t, now) /\ Launches(t) /\ t.after >= task[w].after
    BY <1>1, <1>2, BetweenAt
  <1> QED
    BY <1>1, <1>3 DEF t

\* The steps of a run that write no row.
LEMMA LaunchFetchOnce ==
    ASSUME SoleWorker, Good, Serialized, OnceInv, NEW w \in Worker, LaunchFetch(w)
    PROVE  OnceInv'
  <1> DEFINE page == LaunchPage(BatchSize, task[w].after)
             t    == Launching(SnapshotsOf(page), Cardinality(page) = BatchSize,
                               task[w].after)
  <1>1. /\ UNCHANGED <<rows, now, launchRuns, launchMails, ledger>>
        /\ Launches(task[w]) /\ AtCursor(task[w], now) /\ task[w].after \in Nat
        /\ Continue(w, Idle) \/ Continue(w, t)
    BY DEF LaunchFetch, At, Launches, LaunchPc, OnceInv, AtCursor, mailVars, counters
  <1>2. \A s \in SnapshotsOf(page) : s.id > task[w].after
    <2>1. \A id \in page : id > task[w].after
      BY DEF LaunchPage
    <2> HIDE DEF page
    <2> QED
      BY <2>1, SnapshotsUpToDate
  <1>3. AtCursor(t, now) /\ Launches(t) /\ t.pc = "launch" /\ t.after = task[w].after
    <2>1. t.pc = "launch" /\ t.after = task[w].after /\ t.batch = SnapshotsOf(page)
      BY LaunchingFields
    <2> HIDE DEF t, page
    <2> QED
      BY <1>1, <1>2, <2>1, BetweenAt
  <1>4. \A id \in Ids : Present(id) => SameNotice(rows[id], rows'[id])
    BY <1>1 DEF SameNotice, Present
  <1> HIDE DEF t
  <1>5. t.after >= task[w].after
    BY <1>1, <1>3
  <1>6. CASE Continue(w, t)
    BY <1>1, <1>3, <1>4, <1>5, <1>6, GoesOnOnce
  <1>7. CASE Continue(w, Idle)
    BY <1>1, <1>7, IdleRests, QuietAside, AsideOnce
  <1> QED
    BY <1>1, <1>6, <1>7

\* A recipient who is skipped gets no mail.
LEMMA LaunchSkipOnce ==
    ASSUME SoleWorker, Good, Serialized, OnceInv, NEW w \in Worker, LaunchSkip(w)
    PROVE  OnceInv'
  <1>1. PICK s \in task[w].batch : NextInPage(w, s) /\ Continue(w, Past(w, s))
    BY DEF LaunchSkip
  <1>2. /\ UNCHANGED <<rows, now, launchRuns, launchMails, ledger>>
        /\ Launches(task[w]) /\ AtCursor(task[w], now)
    BY DEF LaunchSkip, At, Launches, LaunchPc, OnceInv, mailVars, counters
  <1>3. \A id \in Ids : Present(id) => SameNotice(rows[id], rows'[id])
    BY <1>2 DEF SameNotice, Present
  <1> DEFINE t == Past(w, s)
  <1>4. AtCursor(t, now) /\ Launches(t) /\ t.pc = "launch" /\ t.after >= task[w].after
    BY <1>1, <1>2, PastAt
  <1>5. Continue(w, t)
    BY <1>1
  <1> HIDE DEF t
  <1> QED
    BY <1>2, <1>3, <1>4, <1>5, GoesOnOnce

\* What a run holds of a recipient is open and in the table.
LEMMA HeldSend ==
    ASSUME Good, Serialized, NEW w \in Worker, task[w].pc \in SendPc
    PROVE  /\ task[w].id \in Ids /\ task[w].row = rows[task[w].id] /\ Present(task[w].id)
           /\ GoodRow(task[w].row) /\ task[w].row # Null
           /\ ~Settled(task[w].row) /\ ~task[w].row.anonymized
           /\ ~Closed(rows[task[w].id])
           /\ task[w].pc \in {"launch_mail", "launch_save", "launch_review"} =>
                task[w].row.launchStatus = "sending"
           /\ task[w].pc = "launch_mark" => task[w].row.launchStatus # "sent"
           /\ task[w].pc = "launch_save" => task[w].outcome \in Outcomes
  <1>1. /\ task[w] \in Task /\ GoodTask(task[w]) /\ UpToDate(task[w], rows, now)
        /\ \A i \in Ids : Present(i) => GoodRow(rows[i]) /\ Counted(rows[i])
    BY HeldGood
  <1>2. /\ task[w].id \in Ids /\ task[w].row = rows[task[w].id] /\ task[w].row # Null
        /\ ~task[w].row.anonymized /\ ~Settled(task[w].row)
        /\ task[w].pc \in {"launch_mail", "launch_save", "launch_review"} =>
             task[w].row.launchStatus = "sending"
        /\ task[w].pc = "launch_mark" => task[w].row.launchStatus # "sent"
        /\ task[w].pc = "launch_save" => task[w].outcome \in Outcomes
    BY <1>1, StoreAssumption, MailAssumption
    DEF GoodTask, Fits, Task, UpToDate, LoadedPc, SendPc
  <1> QED
    BY <1>1, <1>2 DEF Present, Closed

\* The steps of a run that write a row, or read it to write it.
LEMMA LaunchRotateOnce ==
    ASSUME SoleWorker, Good, Serialized, OnceInv, NEW w \in Worker, LaunchRotate(w)
    PROVE  OnceInv'
  <1>1. PICK s \in task[w].batch :
           /\ NextInPage(w, s)
           /\ SaveThen(w, s.id, [s.row EXCEPT !.hash = LaunchToken(s.id)],
                       [Past(w, s) EXCEPT !.pc = "launch_load", !.id = s.id])
    BY DEF LaunchRotate
  <1> DEFINE r == [s.row EXCEPT !.hash = LaunchToken(s.id)]
             t == [Past(w, s) EXCEPT !.pc = "launch_load", !.id = s.id]
  <1>2. /\ UNCHANGED <<now, launchRuns, launchMails, ledger>>
        /\ Launches(task[w]) /\ AtCursor(task[w], now)
    BY DEF LaunchRotate, At, Launches, LaunchPc, OnceInv, mailVars, counters
  <1>3. /\ s.id \in Ids /\ s.id \in Nat /\ s.id > task[w].after /\ task[w].after \in Nat
        /\ s.row = rows[s.id] /\ s.row \in Row
        /\ \A o \in task[w].batch \ {s} : o.id > s.id
    BY <1>1, <1>2, PageBeyond
  <1>4. /\ t.pc = "launch_load" /\ t.id = s.id /\ t.after = s.id
        /\ t.batch = task[w].batch \ {s}
    BY DEF Past, Launching, Idle
  <1>5. SameNotice(s.row, r)
    <2>1. r \in Row
      BY <1>3 DEF Row, LaunchToken, Token
    <2>2. r # Null
      BY <2>1, StoreAssumption
    <2> QED
      BY <1>3, <2>2 DEF SameNotice, Row
  <1>6. SaveThen(w, s.id, r, t)
    BY <1>1
  <1>7. launchRuns = 1 => ~Mailed(s.id)
    BY <1>2, <1>3 DEF OnceInv, FirstRun, Mailed
  <1> HIDE DEF r, t
  <1>8. Launches(t) /\ AtCursor(t, now) /\ t.after >= task[w].after
    BY <1>3, <1>4 DEF AtCursor, Launches, LaunchPc
  <1>9. CASE Save(s.id, r) /\ Continue(w, t)
    <2>1. \A id \in Ids : Present(id) => SameNotice(rows[id], rows'[id])
      BY <1>3, <1>5, <1>9 DEF Save, SameNotice, Present, Good, RowsGood
    <2> QED
      BY <1>2, <1>4, <1>7, <1>8, <1>9, <2>1, GoesOnOnce
  <1>10. CASE UNCHANGED rows /\ Continue(w, Idle)
    BY <1>2, <1>10, IdleRests, QuietAside, AsideOnce
  <1> QED
    BY <1>6, <1>9, <1>10 DEF SaveThen

\* Loading a row decides between a review and an attempt, and sends nothing.
LEMMA LaunchLoadOnce ==
    ASSUME SoleWorker, Good, Serialized, OnceInv, NEW w \in Worker, LaunchLoad(w)
    PROVE  OnceInv'
  <1> DEFINE id == task[w].id
             t  == [task[w] EXCEPT !.pc = IF WindowExpired(rows[id]) THEN "launch_review"
                                          ELSE "launch_mark",
                                   !.row = rows[id]]
  <1>1. /\ UNCHANGED <<rows, now, launchRuns, launchMails, ledger>>
        /\ task[w].pc = "launch_load"
        /\ Launches(task[w]) /\ AtCursor(task[w], now) /\ task[w] \in Task
    BY DEF LaunchLoad, At, Launches, LaunchPc, OnceInv, mailVars, counters, Good, TasksGood,
           GoodTask
  <1>2. \A i \in Ids : Present(i) => SameNotice(rows[i], rows'[i])
    BY <1>1 DEF SameNotice, Present
  <1>3. launchRuns = 1 => ~Mailed(id)
    BY <1>1 DEF OnceInv, FirstRun, Mailed
  <1>4. CASE Continue(w, Processed(w))
    <2> DEFINE p == Processed(w)
    <2>1. /\ AtCursor(p, now) /\ Launches(p) /\ p.pc = "launch"
          /\ p.after >= task[w].after
      BY <1>1, ProcessedAt
    <2>2. Continue(w, p)
      BY <1>4
    <2> HIDE DEF p
    <2> QED
      BY <1>1, <1>2, <2>1, <2>2, GoesOnOnce
  <1>5. CASE Present(id) /\ Mailable(rows[id]) /\ Continue(w, t)
    <2>1. /\ t.pc = IF WindowExpired(rows[id]) THEN "launch_review" ELSE "launch_mark"
          /\ t.id = id /\ t.after = task[w].after /\ t.batch = task[w].batch
      BY <1>1 DEF Task
    <2> HIDE DEF t
    <2>2. /\ Launches(t) /\ AtCursor(t, now) /\ t.after >= task[w].after
          /\ t.pc \notin {"launch", "launch_mail", "launch_save"}
      BY <1>1, <2>1 DEF AtCursor, Launches, LaunchPc, SendPc
    <2>3. ASSUME t.pc = "launch_mark", launchRuns = 2, Mailed(id)
          PROVE  Remembered(LaunchKey(id))
      <3>1. ~Closed(rows[id]) /\ ~WindowExpired(rows[id]) /\ id \in Ids
        BY <1>1, <1>5, <2>1, <2>3, StoreAssumption DEF Closed, Mailable, Good, TasksGood, GoodTask,
           Fits, Task
      <3>2. OpenAttempt(id) => Remembered(LaunchKey(id))
        <4>1. ASSUME OpenAttempt(id) PROVE Remembered(LaunchKey(id))
          <5>1. /\ rows[id].launchStatus = "sending" /\ rows[id].launchLastAttemptAt \in Nat
                /\ rows[id].launchLastAttemptAt # Null /\ now \in Nat /\ OneDay \in Nat
            BY <3>1, <4>1, StoreAssumption
            DEF OpenAttempt, Present, Good, RowsGood, GoodRow, Row, CountersOK
          <5>2. now - rows[id].launchLastAttemptAt < OneDay
            BY <3>1, <5>1 DEF WindowExpired, ProviderIdempotencyWindow
          <5> QED
            BY <4>1, <5>2 DEF OpenAttempt, Remembered
        <4> QED
          BY <4>1
      <3> QED
        BY <1>1, <2>3, <3>1, <3>2 DEF OnceInv, SecondRun
    <2>4. t.pc \in {"launch_mark", "launch_mail"} => Unconcerned(t.id)
      BY <1>3, <2>1, <2>2, <2>3 DEF Unconcerned
    <2> HIDE DEF id
    <2> QED
      BY <1>1, <1>2, <1>3, <1>5, <2>1, <2>2, <2>4, GoesOnOnce
  <1> QED
    BY <1>4, <1>5 DEF LaunchLoad

\* The review is recorded, and closes the notice.
LEMMA LaunchReviewOnce ==
    ASSUME SoleWorker, Good, Serialized, OnceInv, NEW w \in Worker, LaunchReview(w)
    PROVE  OnceInv'
  <1> DEFINE id == task[w].id
             r  == [task[w].row EXCEPT !.launchStatus = "manual_review"]
             t  == Processed(w)
  <1>1. /\ UNCHANGED <<now, launchRuns, launchMails, ledger>>
        /\ task[w].pc = "launch_review"
        /\ Launches(task[w]) /\ AtCursor(task[w], now)
    BY DEF LaunchReview, At, Launches, LaunchPc, SendPc, OnceInv, mailVars, counters
  <1>2. id \in Ids /\ GoodRow(task[w].row) /\ task[w].row.launchStatus = "sending"
    BY <1>1, HeldSend DEF SendPc
  <1>3. Closed(r)
    <2>1. GoodRow(r)
      BY <1>2, LaunchReviewGood
    <2>2. r.launchStatus = "manual_review"
      BY <1>2 DEF GoodRow, Row
    <2> QED
      BY <2>1, <2>2, StoreAssumption DEF GoodRow, Closed, Settled
  <1>4. AtCursor(t, now) /\ Launches(t) /\ t.pc = "launch" /\ t.after >= task[w].after
    BY <1>1, ProcessedAt
  <1>5. SaveThen(w, id, r, t)
    BY DEF LaunchReview
  <1> HIDE DEF id, r, t
  <1>6. CASE Save(id, r) /\ Continue(w, t)
    <2>1. \A i \in Ids : Present(i) => SameNotice(rows[i], rows'[i]) \/ Closed(rows'[i])
      BY <1>2, <1>3, <1>6 DEF Save, SameNotice, Present, Good, RowsGood
    <2> QED
      BY <1>1, <1>4, <1>6, <2>1, GoesOnOnce
  <1>7. CASE UNCHANGED rows /\ Continue(w, Idle)
    BY <1>1, <1>7, IdleRests, QuietAside, AsideOnce
  <1> QED
    BY <1>5, <1>6, <1>7 DEF SaveThen

\* The attempt is on record before its mail leaves.
LEMMA LaunchMarkOnce ==
    ASSUME SoleWorker, Good, Serialized, OnceInv, NEW w \in Worker, LaunchMark(w)
    PROVE  OnceInv'
  <1> DEFINE id == task[w].id
             r  == [task[w].row EXCEPT !.launchStatus = "sending",
                                       !.launchLastAttemptAt = now]
             t  == [task[w] EXCEPT !.pc = "launch_mail", !.row = r]
  <1>1. /\ UNCHANGED <<now, launchRuns, launchMails, ledger>>
        /\ task[w].pc = "launch_mark" /\ task[w] \in Task
        /\ Launches(task[w]) /\ AtCursor(task[w], now)
    BY DEF LaunchMark, At, Launches, LaunchPc, SendPc, OnceInv, mailVars, counters, Good,
           TasksGood, GoodTask
  <1>2. id \in Ids /\ GoodRow(task[w].row) /\ ~Closed(rows[id])
    BY <1>1, HeldSend DEF SendPc
  <1>3. r.launchLastAttemptAt = now
    BY <1>2 DEF GoodRow, Row
  <1>4. SaveThen(w, id, r, t)
    BY DEF LaunchMark
  <1> HIDE DEF r
  <1>5. /\ t.pc = "launch_mail" /\ t.id = id /\ t.row = r
        /\ t.after = task[w].after /\ t.batch = task[w].batch
    BY <1>1 DEF Task
  <1> HIDE DEF t
  <1>6. Launches(t) /\ AtCursor(t, now) /\ t.after >= task[w].after
    BY <1>1, <1>3, <1>5 DEF AtCursor, Launches, LaunchPc, SendPc
  <1>7. Unconcerned(id)
    <2>1. launchRuns = 1 => ~Mailed(id)
      BY <1>1 DEF OnceInv, FirstRun, Mailed
    <2>2. launchRuns = 2 /\ Mailed(id) => Remembered(LaunchKey(id))
      BY <1>1, <1>2 DEF OnceInv, SecondRun
    <2> QED
      BY <2>1, <2>2 DEF Unconcerned
  <1> HIDE DEF id
  <1>8. CASE Save(id, r) /\ Continue(w, t)
    <2>1. \A i \in Ids : Present(i) => SameNotice(rows[i], rows'[i]) \/ Unconcerned(i)
      BY <1>7, <1>8 DEF Save, SameNotice, Present
    <2>2. launchRuns = 1 => ~Mailed(id)
      BY <1>7 DEF Unconcerned
    <2> QED
      BY <1>1, <1>5, <1>6, <1>7, <1>8, <2>1, <2>2, GoesOnOnce
  <1>9. CASE UNCHANGED rows /\ Continue(w, Idle)
    BY <1>1, <1>9, IdleRests, QuietAside, AsideOnce
  <1> QED
    BY <1>4, <1>8, <1>9 DEF SaveThen

\* The outcome that is saved closes the notice of a mail that left.
LEMMA LaunchSaveOnce ==
    ASSUME SoleWorker, Good, Serialized, OnceInv, NEW w \in Worker, LaunchSave(w)
    PROVE  OnceInv'
  <1> DEFINE id == task[w].id
             r  == LaunchOutcome(task[w].row, task[w].outcome)
             t  == Processed(w)
  <1>1. /\ UNCHANGED <<now, launchRuns, launchMails, ledger>>
        /\ task[w].pc = "launch_save"
        /\ Launches(task[w]) /\ AtCursor(task[w], now)
    BY DEF LaunchSave, At, Launches, LaunchPc, SendPc, OnceInv, mailVars, counters
  <1>2. /\ id \in Ids /\ GoodRow(task[w].row) /\ ~Closed(rows[id])
        /\ task[w].row = rows[id] /\ ~task[w].row.anonymized /\ now \in Nat
        /\ task[w].row.launchStatus = "sending" /\ task[w].outcome \in Outcomes
    BY <1>1, HeldSend DEF SendPc, Good, CountersOK
  <1>3. SameNotice(rows[id], r) \/ Closed(r) \/ Unconcerned(id)
    <2>1. r \in Row /\ r # Null
      BY <1>2, LaunchOutcomeGood, StoreAssumption DEF GoodRow
    <2>2. CASE task[w].outcome = "accepted"
      <3>1. r.launchStatus = "sent"
        BY <1>2, <2>2 DEF LaunchOutcome, GoodRow, Row
      <3> QED
        BY <2>1, <3>1 DEF Closed, Settled
    <2>3. CASE task[w].outcome = "ambiguous"
      <3>1. /\ r.launchStatus = "sending"
            /\ r.launchLastAttemptAt = task[w].row.launchLastAttemptAt
        BY <1>2, <2>3 DEF LaunchOutcome, GoodRow, Row
      <3> QED
        BY <1>2, <2>1, <3>1 DEF SameNotice
    <2>4. CASE task[w].outcome \notin {"accepted", "ambiguous"}
      <3>1. launchRuns = 1 => ~Mailed(id)
        BY <1>1, <2>4 DEF OnceInv, FirstRun, Mailed
      <3>2. launchRuns = 2 /\ Mailed(id) => Remembered(LaunchKey(id))
        BY <1>1, <1>2 DEF OnceInv, SecondRun
      <3> QED
        BY <3>1, <3>2 DEF Unconcerned
    <2> QED
      BY <2>2, <2>3, <2>4
  <1>4. AtCursor(t, now) /\ Launches(t) /\ t.pc = "launch" /\ t.after >= task[w].after
    BY <1>1, ProcessedAt
  <1>5. SaveThen(w, id, r, t)
    BY DEF LaunchSave
  <1> HIDE DEF id, r, t
  <1>6. CASE Save(id, r) /\ Continue(w, t)
    <2>1. ASSUME NEW i \in Ids, Present(i)
          PROVE  \/ SameNotice(rows[i], rows'[i])
                 \/ Closed(rows'[i]) \/ Unconcerned(i)
      BY <1>2, <1>3, <1>6, <2>1 DEF Save, SameNotice, Present, Good, RowsGood
    <2> QED
      BY <1>1, <1>4, <1>6, <2>1, GoesOnOnce
  <1>7. CASE UNCHANGED rows /\ Continue(w, Idle)
    BY <1>1, <1>7, IdleRests, QuietAside, AsideOnce
  <1> QED
    BY <1>5, <1>6, <1>7 DEF SaveThen

\* A provider that knows the key does not deliver: a row that is mailed now was not
\* mailed before.
LEMMA LaunchMailStepOnce ==
    ASSUME SoleWorker, Good, Serialized, OnceInv, NEW w \in Worker, LaunchMail(w)
    PROVE  OnceInv'
  <1>1. task[w].pc = "launch_mail"
    BY DEF LaunchMail, At
  <1>2. PICK id \in Ids : id = task[w].id
    BY <1>1, HeldSend DEF SendPc
  <1>3. PICK outcome \in Outcomes :
           /\ Send(LaunchKey(id), LaunchToken(id), now, outcome)
           /\ Continue(w, [task[w] EXCEPT !.pc = "launch_save", !.outcome = outcome])
    BY <1>2 DEF LaunchMail
  <1> DEFINE t == [task[w] EXCEPT !.pc = "launch_save", !.outcome = outcome]
  <1>4. /\ UNCHANGED <<rows, now, launchRuns>>
        /\ task[w].pc = "launch_mail" /\ task[w] \in Task
        /\ Launches(task[w]) /\ AtCursor(task[w], now) /\ launchRuns # 0
    BY DEF LaunchMail, At, Launches, LaunchPc, SendPc, OnceInv, counters, Good, TasksGood,
           GoodTask
  <1>5. /\ id \in Ids /\ ~Closed(rows[id]) /\ Present(id)
        /\ rows[id].launchStatus = "sending" /\ rows[id].launchLastAttemptAt = now
        /\ now \in Nat /\ launchMails \in [Ids -> Nat] /\ launchRuns \in Nat
    BY <1>2, <1>4, HeldSend DEF SendPc, AtCursor, Good, CountersOK, MailTypeOK
  <1>6. /\ t.pc = "launch_save" /\ t.id = id /\ t.outcome = outcome
        /\ t.after = task[w].after /\ t.batch = task[w].batch
    BY <1>2, <1>4 DEF Task
  <1>7. \A v \in Worker : task'[v] = t
    BY <1>3 DEF SoleWorker, Good, TasksGood, Continue
  <1> HIDE DEF t
  <1>8. AtCursor(t, now) /\ Launches(t) /\ id = t.after /\ id \in Nat
    BY <1>2, <1>4, <1>5, <1>6 DEF AtCursor, Launches, LaunchPc, SendPc
  <1>9. /\ ledger \subseteq ledger'
        /\ \A i \in Ids \ {id} : launchMails'[i] = launchMails[i]
    BY <1>3, <1>5 DEF Send, Deliver, LaunchKey, mailVars
  <1>10. \A i \in Ids : /\ Closed(rows[i]) => Closed(rows[i])'
                        /\ OpenAttempt(i) => OpenAttempt(i)'
                        /\ Remembered(LaunchKey(i)) => Remembered(LaunchKey(i))'
    BY <1>4, <1>9 DEF Closed, Settled, OpenAttempt, Present, Remembered, LaunchKey
  <1>11. CASE UNCHANGED launchMails
    <2>1. \A i \in Ids : Mailed(i)' <=> Mailed(i)
      BY <1>11 DEF Mailed
    <2>2. CASE launchRuns = 1
      <3>1. ~Mailed(id)
        BY <1>2, <1>4, <2>2 DEF OnceInv, FirstRun, Mailed
      <3>2. FirstRun(t, launchMails)
        BY <1>4, <1>6, <2>2, <3>1 DEF OnceInv, FirstRun, Mailed
      <3>3. \A i \in Ids : Mailed(i)' => Closed(rows[i])' \/ OpenAttempt(i)'
        BY <1>10, <2>1, <2>2 DEF OnceInv
      <3> QED
        BY <1>4, <1>7, <1>8, <1>11, <2>2, <3>2, <3>3 DEF OnceInv, LaunchMailOnce
    <2>3. CASE launchRuns = 2
      <3>1. SecondRun(task[w])
        BY <2>3 DEF OnceInv
      <3>2. ASSUME NEW i \in Ids, Mailed(i)
            PROVE  \/ Closed(rows[i])'
                   \/ Remembered(LaunchKey(i))'
                   \/ OpenAttempt(i)' /\ t.id # i
        <4>1. i = id => Remembered(LaunchKey(i))
          BY <1>2, <1>4, <1>5, <3>1, <3>2 DEF SecondRun
        <4>2. Closed(rows[i]) \/ Remembered(LaunchKey(i)) \/ OpenAttempt(i)
          BY <1>4, <3>1, <3>2 DEF SecondRun
        <4>3. i # id => t.id # i
          BY <1>6
        <4> QED
          BY <1>10, <4>1, <4>2, <4>3
      <3>3. \A v \in Worker : SecondRun(task[v])'
        BY <1>7, <2>1, <3>2 DEF SecondRun
      <3> QED
        BY <1>4, <1>7, <1>8, <1>11, <2>3, <3>3 DEF OnceInv, LaunchMailOnce
    <2>4. CASE launchRuns > 2
      BY <1>4, <1>5, <1>7, <1>8, <2>4 DEF OnceInv
    <2> QED
      BY <1>4, <1>5, <2>2, <2>3, <2>4
  <1>12. CASE /\ outcome \in {"accepted", "ambiguous"} /\ ~Remembered(LaunchKey(id))
              /\ Deliver(LaunchKey(id), LaunchToken(id), now)
    <2>1. /\ ledger' = ledger \cup {[key |-> LaunchKey(id), at |-> now]}
          /\ launchMails' = [launchMails EXCEPT ![id] = @ + 1]
      <3>1. LaunchKey(id).kind = "launch" /\ LaunchKey(id).id = id
        BY DEF LaunchKey
      <3> QED
        BY <1>12, <3>1 DEF Deliver
    <2>2. \E e \in ledger' : e.key = LaunchKey(id) /\ e.at = now
      <3> DEFINE entry == [key |-> LaunchKey(id), at |-> now]
      <3>1. entry.key = LaunchKey(id) /\ entry.at = now
        OBVIOUS
      <3>2. entry \in ledger'
        BY <2>1
      <3> HIDE DEF entry
      <3> QED
        BY <3>1, <3>2
    <2>3. Remembered(LaunchKey(id))'
      BY <2>2 DEF Remembered, LaunchKey
    <2>4. OpenAttempt(id)'
      <3>1. \E e \in ledger' : e.key = LaunchKey(id) /\ e.at >= now
        BY <1>5, <2>2
      <3>2. /\ rows'[id] # Null /\ rows'[id].launchStatus = "sending"
            /\ rows'[id].launchLastAttemptAt = now /\ now # Null
        BY <1>4, <1>5, StoreAssumption DEF Present
      <3> QED
        BY <3>1, <3>2 DEF OpenAttempt, Present
    <2>5. launchRuns \in {1, 2} => ~Mailed(id)
      <3>1. CASE launchRuns = 1
        BY <1>2, <1>4, <3>1 DEF OnceInv, FirstRun, Mailed
      <3>2. CASE launchRuns = 2
        BY <1>2, <1>4, <1>5, <1>12, <3>2 DEF OnceInv, SecondRun
      <3> QED
        BY <3>1, <3>2
    <2>6. launchRuns \in {1, 2} => LaunchMailOnce'
      BY <1>5, <2>1, <2>5 DEF OnceInv, LaunchMailOnce, Mailed
    <2>7. \A i \in Ids \ {id} : Mailed(i)' <=> Mailed(i)
      BY <1>9 DEF Mailed
    <2>8. CASE launchRuns = 1
      <3>1. FirstRun(t, launchMails')
        <4>1. ASSUME NEW i \in Ids, i > t.after PROVE launchMails'[i] = 0
          <5>1. FirstRun(task[w], launchMails)
            BY <2>8 DEF OnceInv
          <5>2. launchMails[i] = 0
            BY <1>4, <1>6, <4>1, <5>1 DEF FirstRun
          <5>3. i # id
            BY <1>8, <4>1
          <5> QED
            BY <1>9, <5>2, <5>3
        <4> QED
          BY <1>6, <1>12, <4>1 DEF FirstRun
      <3>2. \A i \in Ids : Mailed(i)' => Closed(rows[i])' \/ OpenAttempt(i)'
        BY <1>10, <2>4, <2>7, <2>8 DEF OnceInv
      <3> QED
        BY <1>4, <1>7, <1>8, <2>6, <2>8, <3>1, <3>2 DEF OnceInv
    <2>9. CASE launchRuns = 2
      <3>1. SecondRun(task[w])
        BY <2>9 DEF OnceInv
      <3>2. ASSUME NEW i \in Ids, Mailed(i)'
            PROVE  \/ Closed(rows[i])'
                   \/ Remembered(LaunchKey(i))'
                   \/ OpenAttempt(i)' /\ t.id # i
        <4>1. CASE i = id
          BY <2>3, <4>1
        <4>2. CASE i # id
          <5>1. Closed(rows[i]) \/ Remembered(LaunchKey(i)) \/ OpenAttempt(i)
            BY <1>4, <2>7, <3>1, <3>2, <4>2 DEF SecondRun
          <5>2. t.id # i
            BY <1>6, <4>2
          <5> QED
            BY <1>10, <5>1, <5>2
        <4> QED
          BY <4>1, <4>2
      <3>3. \A v \in Worker : SecondRun(task[v])'
        BY <1>7, <3>2 DEF SecondRun
      <3> QED
        BY <1>4, <1>7, <1>8, <2>6, <2>9, <3>3 DEF OnceInv
    <2>10. CASE launchRuns > 2
      BY <1>4, <1>5, <1>7, <1>8, <2>10 DEF OnceInv
    <2> QED
      BY <1>4, <1>5, <2>8, <2>9, <2>10
  <1> QED
    BY <1>3, <1>11, <1>12 DEF Send, mailVars

\* Every step of a run keeps the counts.
LEMMA LaunchOnce ==
    ASSUME SoleWorker, Good, Serialized, OnceInv, NEW w \in Worker, Launch(w)
    PROVE  OnceInv'
  <1>1. CASE LaunchDone(w)
    BY <1>1, IdleRests, QuietAside, AsideOnce DEF LaunchDone, mailVars, counters
  <1> QED
    BY <1>1, LaunchStartOnce, LaunchFetchOnce, LaunchSkipOnce, LaunchRotateOnce,
       LaunchLoadOnce, LaunchReviewOnce, LaunchMarkOnce, LaunchMailStepOnce, LaunchSaveOnce
    DEF Launch

\* The provider remembers a key for as long as the use case repeats it.
LEMMA TickOnce ==
    ASSUME SoleWorker, Good, OnceInv, OneDay <= Window, Tick
    PROVE  OnceInv'
  <1>1. /\ UNCHANGED <<rows, task, launchRuns, launchMails>> /\ now' = now + 1 /\ now \in Nat
        /\ \A e \in ledger : (now + 1) - e.at < Window => e \in ledger'
        /\ \A w \in Worker : ~Launches(task[w])
    <2>1. \A w \in Worker : ~Launches(task[w])
      BY DEF Tick, At, Launches, LaunchPc, SendPc
    <2> QED
      <3>1. now \in Nat
        BY DEF Good, CountersOK
      <3> QED
        BY <2>1, <3>1 DEF Tick, Forget
  <1>2. \A id \in Ids : /\ Mailed(id)' <=> Mailed(id)
                        /\ Closed(rows[id])' <=> Closed(rows[id])
    BY <1>1 DEF Mailed, Closed, Settled
  <1>3. ASSUME NEW id \in Ids, OpenAttempt(id) PROVE OpenAttempt(id)'
    <2> DEFINE last == rows[id].launchLastAttemptAt
    <2>1. last \in Nat /\ OneDay \in Nat /\ Window \in Nat /\ ledger \subseteq [key : Key, at : Nat]
      BY <1>3, StoreAssumption, MailAssumption
      DEF OpenAttempt, Present, Good, RowsGood, GoodRow, Row, MailTypeOK
    <2>2. ASSUME (now + 1) - last < OneDay
          PROVE  \E e \in ledger' : e.key = LaunchKey(id) /\ e.at >= last
      <3>1. PICK e \in ledger : e.key = LaunchKey(id) /\ e.at >= last
        BY <1>1, <1>3, <2>1, <2>2 DEF OpenAttempt
      <3>2. e.at \in Nat
        BY <2>1
      <3>3. (now + 1) - e.at < Window
        BY <1>1, <2>1, <2>2, <3>1, <3>2
      <3> QED
        BY <1>1, <3>1, <3>3
    <2>3. /\ Present(id)' /\ rows'[id].launchStatus = "sending"
          /\ rows'[id].launchLastAttemptAt = last /\ last # Null
      BY <1>1, <1>3 DEF OpenAttempt, Present
    <2>4. now' - rows'[id].launchLastAttemptAt < OneDay =>
            \E e \in ledger' : e.key = LaunchKey(id) /\ e.at >= rows'[id].launchLastAttemptAt
      <3>1. now' = now + 1 /\ rows'[id].launchLastAttemptAt = last
        BY <1>1, <2>3
      <3> HIDE DEF last
      <3> QED
        BY <2>2, <3>1
    <2> QED
      BY <2>3, <2>4 DEF OpenAttempt
  <1>4. \A w \in Worker : /\ AtCursor(task[w], now)' /\ FirstRun(task[w], launchMails)'
                          /\ SecondRun(task[w])'
    BY <1>1 DEF AtCursor, FirstRun, SecondRun, Launches
  <1> QED
    BY <1>1, <1>2, <1>3, <1>4 DEF OnceInv, LaunchMailOnce, Launches

\* Every step of the system does.
LEMMA NextOnce ==
    ASSUME SoleWorker, Good, Serialized, OnceInv, OneDay <= Window, [Next]_vars
    PROVE  OnceInv'
  <1>1. CASE UNCHANGED vars
    BY <1>1 DEF vars, OnceInv, AtCursor, Launches, Mailed, Closed, Settled, OpenAttempt,
                Present, FirstRun, SecondRun, Remembered, LaunchMailOnce
  <1>2. ASSUME NEW w \in Worker, Abort(w) PROVE OnceInv'
    BY <1>2, IdleRests, QuietAside, AsideOnce DEF Abort, mailVars
  <1> QED
    BY <1>1, <1>2, ConfirmAside, JoinAside, UnsubscribeAside, MaintainAside, AsideOnce,
       LaunchOnce, TickOnce DEF Next

\* Only the start of a run counts it, and not past the bound.
LEMMA RunsBounded ==
    ASSUME launchRuns \in Nat, launchRuns <= MaxLaunchRuns, [Next]_vars
    PROVE  launchRuns' <= MaxLaunchRuns
  <1>1. MaxLaunchRuns \in Nat
    BY WorkersAssumption
  <1>2. ASSUME NEW w \in Worker, LaunchStart(w) PROVE launchRuns' <= MaxLaunchRuns
    BY <1>1, <1>2 DEF LaunchStart
  <1>3. ASSUME NEW w \in Worker, Launch(w), ~LaunchStart(w) PROVE UNCHANGED launchRuns
    BY <1>3
    DEF Launch, LaunchFetch, LaunchDone, LaunchSkip, LaunchRotate, LaunchLoad,
        LaunchReview, LaunchMark, LaunchMail, LaunchSave, counters
  <1>4. ASSUME NEW w \in Worker, Confirm(w) \/ Join(w) \/ Unsubscribe(w) \/ Maintain(w)
        PROVE  UNCHANGED launchRuns
    BY <1>4
    DEF Confirm, ConfirmLoad, ConfirmMail, ConfirmSave, Join, JoinFind, JoinCreate,
        JoinConflict, JoinRefind, Resubscribe, Unsubscribe, UnsubscribeFind,
        UnsubscribeSave, Maintain, RetryFind, RetryRotate, PurgeFind, PurgeSave,
        MaintenanceDone, counters
  <1>5. ASSUME NEW w \in Worker, Abort(w) PROVE UNCHANGED launchRuns
    BY <1>5 DEF Abort
  <1> QED
    BY <1>2, <1>3, <1>4, <1>5 DEF Next, Tick, vars

\* One invocation at a time, two dispatches of the launch deliver the notification at
\* most once to a row, wherever they are cut short and whatever the provider answers:
\* the provider has to remember a key for as long as the use case repeats it.  A third
\* dispatch is one too many (the run LaunchReruns).
THEOREM SerialLaunchMail ==
    ASSUME SoleWorker, OneDay <= Window, MaxLaunchRuns <= 2
    PROVE  Spec => []LaunchMailOnce
  <1>1. Init => OnceInv /\ launchRuns <= MaxLaunchRuns
    BY IdleRests, WorkersAssumption
    DEF Init, MailInit, OnceInv, AtCursor, Mailed, FirstRun, SecondRun, LaunchMailOnce
  <1>2. /\ IInv /\ Serialized /\ OnceInv /\ launchRuns <= MaxLaunchRuns /\ [Next]_vars
        => OnceInv' /\ (launchRuns <= MaxLaunchRuns)'
    BY GoodIsIInv, NextOnce, RunsBounded DEF Good, CountersOK
  <1>3. IInv /\ OnceInv /\ launchRuns <= MaxLaunchRuns => LaunchMailOnce
    BY GoodIsIInv, WorkersAssumption DEF OnceInv, Good, CountersOK
  <1> QED
    BY <1>1, <1>2, <1>3, Invariance, SerialInvariance, PTL DEF Spec

-----------------------------------------------------------------------------
(* A run that comes to its end passed nobody over. *)

\* A finite set of numbers has a least and a greatest element.
LEMMA LeastElement ==
    ASSUME NEW S \in SUBSET Nat, IsFiniteSet(S), S # {}
    PROVE  \E m \in S : \A o \in S : m <= o
  <1> DEFINE upTo(m) == {o \in S : o <= m}
             T == {upTo(m) : m \in S}
  <1>1. T \subseteq SUBSET S /\ T # {}
    OBVIOUS
  <1>2. IsWellFoundedOn(StrictSubsetOrdering(S), SUBSET S)
    BY FS_StrictSubsetOrderingWellFounded, FS_FiniteSubsetsOfFinite
  <1>3. PICK x \in T : \A y \in T : <<y, x>> \notin StrictSubsetOrdering(S)
    <2> HIDE DEF T
    <2> QED
      BY <1>1, <1>2, WFMin
  <1>4. PICK m \in S : x = upTo(m)
    BY <1>3
  <1>5. ASSUME NEW o \in S, ~(m <= o) PROVE FALSE
    <2>1. o \in Nat /\ m \in Nat
      OBVIOUS
    <2>2. upTo(o) \in T /\ upTo(o) \subseteq S /\ upTo(m) \subseteq S
      OBVIOUS
    <2>3. upTo(o) \subseteq upTo(m)
      <3>1. \A p \in S : p \in Nat
        OBVIOUS
      <3>2. \A p \in S : p <= o => p <= m
        BY <1>5, <2>1, <3>1
      <3> QED
        BY <3>2
    <2>4. m \in upTo(m) /\ m \notin upTo(o)
      BY <1>5, <2>1
    <2>5. <<upTo(o), upTo(m)>> \in StrictSubsetOrdering(S)
      <3> HIDE DEF upTo
      <3> QED
        BY <2>2, <2>3, <2>4 DEF StrictSubsetOrdering
    <2> QED
      BY <1>3, <1>4, <2>2, <2>5
  <1> QED
    BY <1>5

\* A finite set of numbers has a greatest member.
LEMMA GreatestElement ==
    ASSUME NEW S \in SUBSET Nat, IsFiniteSet(S), S # {}
    PROVE  \E m \in S : \A o \in S : o <= m
  <1> DEFINE from(m) == {o \in S : m <= o}
             T == {from(m) : m \in S}
  <1>1. T \subseteq SUBSET S /\ T # {}
    OBVIOUS
  <1>2. IsWellFoundedOn(StrictSubsetOrdering(S), SUBSET S)
    BY FS_StrictSubsetOrderingWellFounded, FS_FiniteSubsetsOfFinite
  <1>3. PICK x \in T : \A y \in T : <<y, x>> \notin StrictSubsetOrdering(S)
    <2> HIDE DEF T
    <2> QED
      BY <1>1, <1>2, WFMin
  <1>4. PICK m \in S : x = from(m)
    BY <1>3
  <1>5. ASSUME NEW o \in S, ~(o <= m) PROVE FALSE
    <2>1. o \in Nat /\ m \in Nat
      OBVIOUS
    <2>2. from(o) \in T /\ from(o) \subseteq S /\ from(m) \subseteq S
      OBVIOUS
    <2>3. from(o) \subseteq from(m)
      <3>1. \A p \in S : p \in Nat
        OBVIOUS
      <3>2. \A p \in S : o <= p => m <= p
        BY <1>5, <2>1, <3>1
      <3> QED
        BY <3>2
    <2>4. m \in from(m) /\ m \notin from(o)
      BY <1>5, <2>1
    <2>5. <<from(o), from(m)>> \in StrictSubsetOrdering(S)
      <3> HIDE DEF from
      <3> QED
        BY <2>2, <2>3, <2>4 DEF StrictSubsetOrdering
    <2> QED
      BY <1>3, <1>4, <2>2, <2>5
  <1> QED
    BY <1>5

\* A page: the elements with fewer than k below them.
Below(S, i) == {o \in S : o < i}
FirstOf(S, k) == {i \in S : Cardinality(Below(S, i)) < k}

\* A page has no gap.
LEMMA PageHasNoGap ==
    ASSUME NEW S \in SUBSET Nat, IsFiniteSet(S), NEW k \in Nat,
           NEW i \in S, NEW o \in FirstOf(S, k), i <= o
    PROVE  i \in FirstOf(S, k)
  <1>1. Below(S, i) \subseteq Below(S, o) /\ Below(S, o) \subseteq S
    <2>1. \A x \in S : x < i => x < o
      <3>1. i \in Nat /\ o \in Nat /\ \A x \in S : x \in Nat
        BY DEF FirstOf
      <3> QED
        BY <3>1
    <2> QED
      BY <2>1 DEF Below
  <1>2. IsFiniteSet(Below(S, o)) /\ IsFiniteSet(Below(S, i))
    BY <1>1, FS_Subset
  <1>3. /\ Cardinality(Below(S, i)) <= Cardinality(Below(S, o))
        /\ Cardinality(Below(S, i)) \in Nat /\ Cardinality(Below(S, o)) \in Nat
    BY <1>1, <1>2, FS_Subset, FS_CardinalityType
  <1> QED
    BY <1>3 DEF FirstOf

\* Only the last page is empty.
LEMMA PageIsNotEmpty ==
    ASSUME NEW S \in SUBSET Nat, IsFiniteSet(S), S # {}, NEW k \in Nat \ {0}
    PROVE  FirstOf(S, k) # {}
  <1>1. PICK m \in S : \A o \in S : m <= o
    BY LeastElement
  <1>2. Below(S, m) = {}
    <2>1. \A o \in S : ~(o < m)
      BY <1>1
    <2> QED
      BY <2>1 DEF Below
  <1>3. m \in FirstOf(S, k)
    BY <1>2, FS_EmptySet DEF FirstOf
  <1> QED
    BY <1>3

\* A page that leaves something is full, and what it leaves comes after it.
LEMMA PageIsFull ==
    ASSUME NEW S \in SUBSET Nat, IsFiniteSet(S), NEW k \in Nat \ {0},
           NEW d \in S \ FirstOf(S, k)
    PROVE  /\ Cardinality(FirstOf(S, k)) = k
           /\ \A o \in FirstOf(S, k) : o < d
  <1> DEFINE page == FirstOf(S, k)
  <1>1. page \subseteq S /\ page # {} /\ IsFiniteSet(page)
    BY PageIsNotEmpty, FS_Subset DEF FirstOf
  <1>2. \A x \in S : x \in Nat
    OBVIOUS
  <1>3. \A x \in page : x \in Nat
    BY <1>1, <1>2
  <1>4. ASSUME NEW i \in S \ page, NEW o \in page PROVE o < i
    <2>1. i \in Nat /\ o \in Nat
      BY <1>1
    <2>2. ~(i <= o)
      BY PageHasNoGap
    <2> QED
      BY <2>1, <2>2
  <1>5. PICK g \in page : \A o \in page : o <= g
    BY <1>1, GreatestElement
  <1>6. PICK l \in S \ page : \A o \in S \ page : l <= o
    <2>1. S \ page \in SUBSET Nat /\ IsFiniteSet(S \ page) /\ S \ page # {}
      BY FS_Subset
    <2> HIDE DEF page
    <2> QED
      BY <2>1, LeastElement
  <1>7. Below(S, l) = page
    <2>1. \A o \in S \ page : ~(o < l)
      BY <1>6
    <2> HIDE DEF page
    <2> QED
      BY <1>1, <1>4, <2>1 DEF Below
  <1>8. Below(S, g) \cup {g} = page /\ g \notin Below(S, g)
    <2>1. ASSUME NEW o \in S, o < g PROVE o \in page
      <3>1. o \in Nat /\ g \in Nat /\ o <= g
        BY <1>2, <1>3, <2>1
      <3> QED
        BY <3>1, PageHasNoGap
    <2>2. \A o \in page : o < g \/ o = g
      BY <1>5, <1>3
    <2>3. ~(g < g)
      BY <1>3
    <2> HIDE DEF page
    <2> QED
      BY <1>1, <2>1, <2>2, <2>3 DEF Below
  <1>9. /\ IsFiniteSet(Below(S, g)) /\ Cardinality(Below(S, g)) \in Nat
        /\ Cardinality(page) = Cardinality(Below(S, g)) + 1
    <2>1. Below(S, g) \subseteq S
      BY DEF Below
    <2>2. IsFiniteSet(Below(S, g))
      BY <2>1, FS_Subset
    <2> HIDE DEF page
    <2> QED
      BY <1>8, <2>2, FS_AddElement, FS_CardinalityType
  <1>10. Cardinality(Below(S, g)) < k
    BY <1>5 DEF FirstOf
  <1>11. ~(Cardinality(Below(S, l)) < k)
    BY <1>6 DEF FirstOf
  <1>12. Cardinality(page) = k
    <2> HIDE DEF page
    <2> QED
      BY <1>7, <1>9, <1>10, <1>11
  <1> QED
    BY <1>4, <1>12

-----------------------------------------------------------------------------
\* A row the launch has still to try.
Owed(R, id) ==
    /\ R[id] # Null
    /\ ~R[id].anonymized
    /\ R[id].unsubscribedAt = Null
    /\ R[id].launchStatus = "pending"

\* A snapshot of a row that still has its address.
Owner(R, id, r) ==
    /\ R[id] # Null
    /\ ~R[id].anonymized
    /\ ~r.anonymized
    /\ r.email = R[id].email

OwnersHeld(t, R) ==
    /\ t.pc \in SendPc \cup {"unsubscribe"} => Owner(R, t.id, t.row)
    /\ Launches(t) => \A s \in t.batch : Owner(R, s.id, s.row)

\* A run comes to a row yet: it holds it in its page, the row is on a later page, or
\* it is the one the run is about to mark.
Comes(t, id) ==
    \/ \E s \in t.batch : s.id = id
    \/ t.more /\ id > t.after /\ \A s \in t.batch : s.id < id
    \/ t.id = id /\ t.pc \in {"launch_load", "launch_mark"}

RunReaches(t, R) ==
    Launches(t) =>
        /\ t.job = "launch"
        /\ t.pc # "launch" => t.id \in Ids /\ \A s \in t.batch : s.id # t.id
        /\ \A s, o \in t.batch : s.id = o.id => s = o
        /\ \A s \in t.batch : Settled(s.row) => ~Owed(R, s.id)
        /\ \A id \in Ids : Owed(R, id) => Comes(t, id)

\* A run between two recipients.
LEMMA BetweenReaches ==
    ASSUME NEW t, NEW R, t.pc = "launch", t.job = "launch",
           \A s, o \in t.batch : s.id = o.id => s = o,
           \A s \in t.batch : Settled(s.row) => ~Owed(R, s.id),
           \A s \in t.batch : Owner(R, s.id, s.row),
           \A id \in Ids : Owed(R, id) =>
              \/ \E s \in t.batch : s.id = id
              \/ t.more /\ id > t.after /\ \A s \in t.batch : s.id < id
    PROVE  RunReaches(t, R) /\ OwnersHeld(t, R) /\ Launches(t)
  BY DEF RunReaches, OwnersHeld, Comes, Launches, LaunchPc, SendPc

\* One that returned.
LEMMA IdleReaches ==
    ASSUME NEW R
    PROVE  RunReaches(Idle, R) /\ OwnersHeld(Idle, R) /\ Idle.pc = "idle"
  BY DEF RunReaches, OwnersHeld, Idle, Launches, LaunchPc, SendPc

\* What a step of another worker may do to the table without a run missing a row.
SameOwners(R, Q) ==
    \A id \in Ids : R[id] # Null /\ ~R[id].anonymized =>
        Q[id] # Null /\ ~Q[id].anonymized /\ Q[id].email = R[id].email

NoneOwedAnew(R, Q) == \A id \in Ids : Owed(Q, id) => Owed(R, id)

\* What a task holds and owes survives a change of rows that owes nobody anything new.
LEMMA OthersReach ==
    ASSUME NEW t \in Task, Fits(t), NEW R, NEW Q, SameOwners(R, Q)
    PROVE  /\ OwnersHeld(t, R) => OwnersHeld(t, Q)
           /\ RunReaches(t, R) /\ NoneOwedAnew(R, Q) => RunReaches(t, Q)
  <1>1. \A s \in t.batch : s.id \in Ids
    BY DEF Task, Snapshot
  <1>2. t.pc \in SendPc \cup {"unsubscribe"} => t.id \in Ids
    BY DEF Fits, SendPc, Task
  <1>3. OwnersHeld(t, R) => OwnersHeld(t, Q)
    BY <1>1, <1>2 DEF OwnersHeld, Owner, SameOwners
  <1>4. RunReaches(t, R) /\ NoneOwedAnew(R, Q) => RunReaches(t, Q)
    BY <1>1 DEF RunReaches, NoneOwedAnew
  <1> QED
    BY <1>3, <1>4

-----------------------------------------------------------------------------
\* What a step of a run does: it goes on with everything still to come, or it returns,
\* from between two recipients only when nothing is owed.
RunStep(w) ==
    /\ SameOwners(rows, rows')
    /\ \E t : /\ Continue(w, t)
              /\ t.pc \in LaunchPc \cup {"idle"}
              /\ RunReaches(t, rows')
              /\ OwnersHeld(t, rows')
              /\ At(w, "launch") /\ t.pc = "idle" => \A id \in Ids : ~Owed(rows, id)

\* A step that only moves the run on.
LEMMA QuietRunStep ==
    ASSUME NEW w \in Worker, NEW t, Continue(w, t), UNCHANGED rows, Launches(t),
           RunReaches(t, rows), OwnersHeld(t, rows)
    PROVE  RunStep(w)
  <1>1. t.pc # "idle" /\ t.pc \in LaunchPc
    BY DEF Launches, LaunchPc, SendPc
  <1>2. SameOwners(rows, rows')
    BY DEF SameOwners
  <1> QED
    BY <1>1, <1>2 DEF RunStep

\* A step that ends it.
LEMMA EndRunStep ==
    ASSUME NEW w \in Worker, Continue(w, Idle), UNCHANGED rows,
           At(w, "launch") => \A id \in Ids : ~Owed(rows, id)
    PROVE  RunStep(w)
  <1>1. SameOwners(rows, rows')
    BY DEF SameOwners
  <1> QED
    BY <1>1, IdleReaches DEF RunStep

\* The index lets a row keep its address.
LEMMA OwnerAllowed ==
    ASSUME OneCurrentRowPerEmail, NEW id \in Ids, NEW r, Owner(rows, id, r)
    PROVE  IndexAllows(id, r)
  BY DEF OneCurrentRowPerEmail, Owner, IndexAllows, Current, Present

\* The save of a row a run holds is never refused.
LEMMA SaveRunStep ==
    ASSUME Good, OneCurrentRowPerEmail, NEW w \in Worker, NEW id \in Ids, NEW r, NEW t,
           SaveThen(w, id, r, t), Owner(rows, id, r), r # Null, Launches(t),
           rows' = [rows EXCEPT ![id] = r] =>
              RunReaches(t, rows') /\ OwnersHeld(t, rows')
    PROVE  RunStep(w)
  <1>1. rows' = [rows EXCEPT ![id] = r] /\ Continue(w, t)
    BY OwnerAllowed DEF SaveThen, Save
  <1>2. t.pc # "idle" /\ t.pc \in LaunchPc
    BY DEF Launches, LaunchPc, SendPc
  <1>3. DOMAIN rows = Ids
    BY DEF Good, RowsGood
  <1>4. SameOwners(rows, rows')
    BY <1>1, <1>3 DEF SameOwners, Owner
  <1> QED
    BY <1>1, <1>2, <1>4 DEF RunStep

-----------------------------------------------------------------------------
\* A run that starts has every row before it.
LEMMA LaunchStartReaches ==
    ASSUME NEW w \in Worker, LaunchStart(w)
    PROVE  RunStep(w)
  <1> DEFINE t == Launching({}, TRUE, 0)
  <1>1. /\ t.pc = "launch" /\ t.job = "launch" /\ t.batch = {} /\ t.more = TRUE
        /\ t.after = 0
    BY DEF Launching, Idle
  <1>2. Continue(w, t) /\ UNCHANGED rows
    BY DEF LaunchStart
  <1> HIDE DEF t
  <1>3. \A id \in Ids : id > t.after
    BY <1>1, StoreAssumption
  <1>4. RunReaches(t, rows) /\ OwnersHeld(t, rows) /\ Launches(t)
    BY <1>1, <1>3, BetweenReaches
  <1> QED
    BY <1>2, <1>4, QuietRunStep

\* The rows after the cursor, and the page of them a run fetches.
Later(after) == {id \in LaunchEligible : id > after}

\* The page of a run is the first of what is after its cursor.
LEMMA PageIsFirst ==
    ASSUME Good, NEW after
    PROVE  /\ LaunchPage(BatchSize, after) = FirstOf(Later(after), BatchSize)
           /\ Later(after) \in SUBSET Nat /\ IsFiniteSet(Later(after))
           /\ Later(after) \subseteq Ids
           /\ \A id \in Ids : Owed(rows, id) /\ id > after => id \in Later(after)
           /\ \A id \in Later(after) : Owner(rows, id, rows[id])
  <1>1. Later(after) \subseteq Ids
    BY DEF Later, LaunchEligible, Current
  <1>2. IsFiniteSet(Later(after)) /\ Later(after) \in SUBSET Nat
    BY <1>1, StoreAssumption, FS_Subset
  <1>3. LaunchPage(BatchSize, after) = FirstOf(Later(after), BatchSize)
    BY DEF LaunchPage, FirstOf, Later, Below
  <1>4. \A id \in Ids : Owed(rows, id) /\ id > after => id \in Later(after)
    BY DEF Owed, Later, LaunchEligible, Current, Present
  <1>5. \A id \in Later(after) : Owner(rows, id, rows[id])
    BY DEF Owner, Later, LaunchEligible, Current, Present
  <1> QED
    BY <1>1, <1>2, <1>3, <1>4, <1>5

\* A page leaves only later rows, and only when it is full.
LEMMA LaunchFetchReaches ==
    ASSUME Good, NEW w \in Worker, RunReaches(task[w], rows), LaunchFetch(w)
    PROVE  RunStep(w)
  <1> DEFINE after == task[w].after
             page  == LaunchPage(BatchSize, after)
             t     == Launching(SnapshotsOf(page), Cardinality(page) = BatchSize, after)
  <1>1. /\ task[w].pc = "launch" /\ task[w].batch = {} /\ UNCHANGED rows
        /\ Launches(task[w]) /\ BatchSize \in Nat \ {0}
        /\ IF page = {} THEN Continue(w, Idle) ELSE Continue(w, t)
    BY BatchAssumption DEF LaunchFetch, At, Launches, LaunchPc
  <1>2. \A id \in Ids : Owed(rows, id) => id > after /\ id \in Later(after)
    <2>1. \A id \in Ids : Owed(rows, id) => id > after
      BY <1>1 DEF RunReaches, Comes
    <2> QED
      BY <2>1, PageIsFirst
  <1>3. CASE page = {}
    <2>1. Later(after) = {}
      BY <1>1, <1>3, PageIsFirst, PageIsNotEmpty
    <2> HIDE DEF t, page, after
    <2> QED
      BY <1>1, <1>2, <1>3, <2>1, EndRunStep
  <1>4. CASE page # {}
    <2>1. /\ t.pc = "launch" /\ t.job = "launch" /\ t.batch = SnapshotsOf(page)
          /\ t.after = after /\ (Cardinality(page) = BatchSize => t.more)
      <3> HIDE DEF page, after
      <3> QED
        BY DEF Launching, Idle
    <2>2. page \subseteq Later(after)
      BY PageIsFirst DEF FirstOf
    <2>3. ASSUME NEW id \in Ids, Owed(rows, id), id \notin page
          PROVE  Cardinality(page) = BatchSize /\ \A o \in page : o < id
      BY <1>1, <1>2, <2>3, PageIsFirst, PageIsFull
    <2> HIDE DEF t, page
    <2>4. \A s \in SnapshotsOf(page) : s.id \in page /\ s.row = rows[s.id]
      BY DEF SnapshotsOf
    <2>5. ASSUME NEW id \in page PROVE \E s \in SnapshotsOf(page) : s.id = id
      <3>1. [id |-> id, row |-> rows[id]] \in SnapshotsOf(page)
        BY DEF SnapshotsOf
      <3> QED
        BY <3>1
    <2>6. \A s, o \in SnapshotsOf(page) : s.id = o.id => s = o
      BY DEF SnapshotsOf
    <2>7. ASSUME NEW s \in t.batch
          PROVE  Owner(rows, s.id, s.row) /\ (Settled(s.row) => ~Owed(rows, s.id))
      <3>1. Owner(rows, s.id, s.row)
        BY <2>1, <2>2, <2>4, PageIsFirst
      <3>2. Settled(s.row) => ~Owed(rows, s.id)
        BY <2>1, <2>4 DEF Settled, Owed
      <3> QED
        BY <3>1, <3>2
    <2>8. ASSUME NEW id \in Ids, Owed(rows, id)
          PROVE  \/ \E s \in t.batch : s.id = id
                 \/ t.more /\ id > t.after /\ \A s \in t.batch : s.id < id
      BY <1>2, <2>1, <2>3, <2>4, <2>5, <2>8
    <2>9. RunReaches(t, rows) /\ OwnersHeld(t, rows) /\ Launches(t)
      BY <2>1, <2>6, <2>7, <2>8, BetweenReaches
    <2> QED
      BY <1>1, <1>4, <2>9, QuietRunStep
  <1> QED
    BY <1>3, <1>4

\* A run whose last page is done has nothing to come.
LEMMA LaunchDoneReaches ==
    ASSUME NEW w \in Worker, RunReaches(task[w], rows), LaunchDone(w)
    PROVE  RunStep(w)
  <1>1. /\ task[w].pc = "launch" /\ task[w].batch = {} /\ UNCHANGED rows /\ ~task[w].more
        /\ Launches(task[w]) /\ Continue(w, Idle)
    BY DEF LaunchDone, At, Launches, LaunchPc
  <1>2. \A id \in Ids : ~Owed(rows, id)
    BY <1>1 DEF RunReaches, Comes
  <1> QED
    BY <1>1, <1>2, EndRunStep

\* What a run holds of its page, and of the row it is sending to.
LEMMA RunHolds ==
    ASSUME Good, NEW w \in Worker
    PROVE  /\ task[w] \in Task /\ GoodTask(task[w])
           /\ \A s \in task[w].batch : s.id \in Ids /\ s.row \in Row
           /\ task[w].pc \in SendPc => /\ task[w].id \in Ids /\ GoodRow(task[w].row)
                                       /\ ~task[w].row.anonymized
           /\ task[w].pc = "launch_save" => task[w].outcome \in Outcomes
           /\ task[w].pc = "launch_load" => task[w].id \in Ids
           /\ now \in Nat
  <1>1. task[w] \in Task /\ GoodTask(task[w]) /\ now \in Nat
    BY DEF Good, TasksGood, GoodTask, CountersOK
  <1>2. \A s \in task[w].batch : s.id \in Ids /\ s.row \in Row
    BY <1>1 DEF Task, Snapshot
  <1>3. task[w].pc \in SendPc => task[w].id \in Ids /\ GoodRow(task[w].row)
                                 /\ ~task[w].row.anonymized
    BY <1>1 DEF GoodTask, Fits, Task, SendPc, GoodRow
  <1>4. /\ task[w].pc = "launch_save" => task[w].outcome \in Outcomes
        /\ task[w].pc = "launch_load" => task[w].id \in Ids
    BY <1>1 DEF GoodTask, Fits, Task
  <1> QED
    BY <1>1, <1>2, <1>3, <1>4

\* What comes after the row taken from a page.
LEMMA PastComes ==
    ASSUME NEW w \in Worker, RunReaches(task[w], rows), task[w].pc = "launch",
           NEW s \in task[w].batch, NextInPage(w, s),
           \A o \in task[w].batch : o.id \in Ids
    PROVE  /\ \A o \in task[w].batch \ {s} : o.id # s.id
           /\ \A id \in Ids : Owed(rows, id) /\ id # s.id =>
                 \/ \E o \in task[w].batch \ {s} : o.id = id
                 \/ /\ task[w].more /\ id > s.id
                    /\ \A o \in task[w].batch \ {s} : o.id < id
  BY DEF RunReaches, Comes, Launches, LaunchPc

\* A recipient that needs no mail is passed.
LEMMA LaunchSkipReaches ==
    ASSUME Good, NEW w \in Worker, RunReaches(task[w], rows), OwnersHeld(task[w], rows),
           LaunchSkip(w)
    PROVE  RunStep(w)
  <1>1. PICK s \in task[w].batch : NextInPage(w, s) /\ Settled(s.row) /\ Continue(w, Past(w, s))
    BY DEF LaunchSkip
  <1>2. task[w].pc = "launch" /\ UNCHANGED rows /\ Launches(task[w])
    BY DEF LaunchSkip, At, Launches, LaunchPc
  <1> DEFINE t == Past(w, s)
  <1>3. /\ t.pc = "launch" /\ t.job = "launch" /\ t.batch = task[w].batch \ {s}
        /\ t.more = task[w].more /\ t.after = s.id
    BY DEF Past, Launching, Idle
  <1>4. ~Owed(rows, s.id)
    BY <1>1, <1>2 DEF RunReaches
  <1>5. \A id \in Ids : Owed(rows, id) =>
           \/ \E o \in t.batch : o.id = id
           \/ t.more /\ id > t.after /\ \A o \in t.batch : o.id < id
    BY <1>1, <1>2, <1>3, <1>4, RunHolds, PastComes
  <1>6. Continue(w, t)
    BY <1>1
  <1> HIDE DEF t
  <1>7. RunReaches(t, rows) /\ OwnersHeld(t, rows) /\ Launches(t)
    BY <1>2, <1>3, <1>5, BetweenReaches DEF RunReaches, OwnersHeld
  <1> QED
    BY <1>2, <1>6, <1>7, QuietRunStep

\* A recipient is taken from the page: its link is replaced.
LEMMA LaunchRotateReaches ==
    ASSUME Good, OneCurrentRowPerEmail, NEW w \in Worker,
           RunReaches(task[w], rows), OwnersHeld(task[w], rows), LaunchRotate(w)
    PROVE  RunStep(w)
  <1>1. PICK s \in task[w].batch :
           /\ NextInPage(w, s)
           /\ SaveThen(w, s.id, [s.row EXCEPT !.hash = LaunchToken(s.id)],
                       [Past(w, s) EXCEPT !.pc = "launch_load", !.id = s.id])
    BY DEF LaunchRotate
  <1> DEFINE id == s.id
             r  == [s.row EXCEPT !.hash = LaunchToken(s.id)]
             t  == [Past(w, s) EXCEPT !.pc = "launch_load", !.id = s.id]
  <1>2. task[w].pc = "launch" /\ Launches(task[w])
    BY DEF LaunchRotate, At, Launches, LaunchPc
  <1>3. /\ t.pc = "launch_load" /\ t.job = "launch" /\ t.batch = task[w].batch \ {s}
        /\ t.more = task[w].more /\ t.after = id /\ t.id = id
    BY DEF Past, Launching, Idle
  <1>4. /\ id \in Ids /\ s.row \in Row /\ DOMAIN rows = Ids
        /\ Owner(rows, id, s.row) /\ \A o \in task[w].batch : o.id \in Ids
    BY <1>2, RunHolds DEF OwnersHeld, Good, RowsGood
  <1>5. r # Null /\ Owner(rows, id, r)
    <2>1. /\ r.email = s.row.email /\ r.anonymized = s.row.anonymized
          /\ s.row.hash \in Token \cup {Null}
      BY <1>4 DEF Row
    <2>2. r \in Row
      BY <1>4 DEF Row, LaunchToken, Token
    <2> QED
      BY <1>4, <2>1, <2>2, StoreAssumption DEF Owner
  <1>6. /\ \A o \in t.batch : o.id # id
        /\ \A i \in Ids : Owed(rows, i) /\ i # id =>
              \/ \E o \in t.batch : o.id = i
              \/ t.more /\ i > t.after /\ \A o \in t.batch : o.id < i
    BY <1>1, <1>2, <1>3, <1>4, PastComes
  <1>7. SaveThen(w, id, r, t)
    BY <1>1
  <1> HIDE DEF r, t
  <1>8. Launches(t)
    BY <1>3 DEF Launches, LaunchPc
  <1>9. ASSUME rows' = [rows EXCEPT ![id] = r]
        PROVE  RunReaches(t, rows') /\ OwnersHeld(t, rows')
    <2>1. \A i \in Ids : i # id => rows'[i] = rows[i]
      BY <1>4, <1>9
    <2>2. \A i \in Ids : i # id => (Owed(rows', i) <=> Owed(rows, i))
      BY <2>1 DEF Owed
    <2>3. RunReaches(t, rows')
      <3>1. \A i \in Ids : Owed(rows', i) => Comes(t, i)
        BY <1>3, <1>6, <2>2 DEF Comes
      <3>2. \A o \in t.batch : Settled(o.row) => ~Owed(rows', o.id)
        BY <1>2, <1>3, <1>4, <1>6, <2>2 DEF RunReaches
      <3> QED
        BY <1>2, <1>3, <1>4, <1>6, <3>1, <3>2 DEF RunReaches
    <2>4. \A o \in t.batch : Owner(rows', o.id, o.row)
      BY <1>2, <1>3, <1>4, <1>6, <2>1 DEF OwnersHeld, Owner
    <2>5. OwnersHeld(t, rows')
      BY <1>3, <2>4 DEF OwnersHeld, SendPc
    <2> QED
      BY <2>3, <2>5
  <1> HIDE DEF id
  <1> QED
    BY <1>4, <1>5, <1>7, <1>8, <1>9, SaveRunStep

\* A recipient is read: the run is about to mark it, unless nothing is owed to it.
LEMMA LaunchLoadReaches ==
    ASSUME Good, NEW w \in Worker, RunReaches(task[w], rows), OwnersHeld(task[w], rows),
           LaunchLoad(w)
    PROVE  RunStep(w)
  <1> DEFINE id == task[w].id
             r  == rows[id]
  <1>1. /\ task[w].pc = "launch_load" /\ UNCHANGED rows /\ Launches(task[w])
        /\ id \in Ids /\ task[w] \in Task
    BY RunHolds DEF LaunchLoad, At, Launches, LaunchPc, SendPc
  <1>2. \A i \in Ids : Owed(rows, i) =>
           \/ \E s \in task[w].batch : s.id = i
           \/ task[w].more /\ i > task[w].after /\ \A s \in task[w].batch : s.id < i
           \/ i = id
    BY <1>1 DEF RunReaches, Comes
  <1>3. CASE (~Present(id) \/ ~Mailable(r)) /\ Continue(w, Processed(w))
    <2> DEFINE t == Processed(w)
    <2>1. /\ t.pc = "launch" /\ t.job = "launch" /\ t.batch = task[w].batch
          /\ t.more = task[w].more /\ t.after = task[w].after
      BY DEF Processed, Launching, Idle
    <2>2. ~Owed(rows, id)
      BY <1>1, <1>3
      DEF Owed, Mailable, Settled, Present, Good, RowsGood, GoodRow, Coherent, IdentityWhole
    <2>3. Continue(w, t)
      BY <1>3
    <2> HIDE DEF t
    <2>4. RunReaches(t, rows) /\ OwnersHeld(t, rows) /\ Launches(t)
      BY <1>1, <1>2, <2>1, <2>2, BetweenReaches DEF RunReaches, OwnersHeld
    <2> QED
      BY <1>1, <2>3, <2>4, QuietRunStep
  <1>4. ASSUME NEW pc \in {"launch_review", "launch_mark"},
               pc = "launch_review" => WindowExpired(r), Present(id), Mailable(r),
               Continue(w, [task[w] EXCEPT !.pc = pc, !.row = r])
        PROVE  RunStep(w)
    <2> DEFINE t == [task[w] EXCEPT !.pc = pc, !.row = r]
    <2>1. /\ t.pc = pc /\ t.job = task[w].job /\ t.batch = task[w].batch
          /\ t.more = task[w].more /\ t.after = task[w].after /\ t.id = id /\ t.row = r
      BY <1>1 DEF Task
    <2>2. Owner(rows, id, r)
      BY <1>4 DEF Owner, Mailable, Present
    <2>3. pc = "launch_review" => ~Owed(rows, id)
      BY <1>4 DEF WindowExpired, Owed
    <2>4. Continue(w, t)
      BY <1>4
    <2> HIDE DEF t
    <2>5. RunReaches(t, rows) /\ Launches(t)
      BY <1>1, <1>2, <2>1, <2>3 DEF RunReaches, Comes, Launches, LaunchPc, SendPc
    <2>6. OwnersHeld(t, rows)
      BY <1>1, <2>1, <2>2 DEF OwnersHeld, SendPc
    <2> QED
      BY <1>1, <2>4, <2>5, <2>6, QuietRunStep
  <1> QED
    BY <1>3, <1>4 DEF LaunchLoad

\* The row a run is sending to is saved, with an attempt on record.
LEMMA SendSaveReaches ==
    ASSUME Good, OneCurrentRowPerEmail, NEW w \in Worker, task[w].pc \in SendPc,
           RunReaches(task[w], rows), OwnersHeld(task[w], rows),
           NEW r \in Row, r.email = task[w].row.email, ~r.anonymized,
           r.launchStatus # "pending",
           NEW t, SaveThen(w, task[w].id, r, t), t.pc \in {"launch", "launch_mail"},
           t.job = "launch", t.batch = task[w].batch, t.more = task[w].more,
           t.after = task[w].after,
           t.pc = "launch_mail" => t.id = task[w].id /\ t.row = r
    PROVE  RunStep(w)
  <1>1. PICK id \in Ids : id = task[w].id
    BY RunHolds
  <1>2. /\ Launches(task[w]) /\ Launches(t) /\ DOMAIN rows = Ids /\ r # Null
        /\ SaveThen(w, id, r, t) /\ \A s \in task[w].batch : s.id \in Ids
    BY <1>1, StoreAssumption, RunHolds DEF Launches, LaunchPc, SendPc, Good, RowsGood
  <1>3. Owner(rows, id, r)
    BY <1>1 DEF OwnersHeld, Owner
  <1>4. ASSUME rows' = [rows EXCEPT ![id] = r]
        PROVE  RunReaches(t, rows') /\ OwnersHeld(t, rows')
    <2>1. rows'[id] = r /\ \A i \in Ids : i # id => rows'[i] = rows[i]
      BY <1>2, <1>4
    <2>2. \A i \in Ids : Owed(rows', i) => i # id /\ Owed(rows, i)
      BY <2>1 DEF Owed
    <2>3. \A i \in Ids : Owed(rows', i) => Comes(t, i)
      BY <1>1, <1>2, <2>2 DEF RunReaches, Comes
    <2>4. \A s \in t.batch : Settled(s.row) => ~Owed(rows', s.id)
      BY <1>2, <2>2 DEF RunReaches
    <2>5. RunReaches(t, rows')
      BY <1>1, <1>2, <2>3, <2>4 DEF RunReaches, SendPc
    <2>6. \A s \in t.batch : s.id # id
      BY <1>1, <1>2 DEF RunReaches, SendPc
    <2>7. \A s \in t.batch : Owner(rows', s.id, s.row)
      BY <1>2, <2>1, <2>6 DEF OwnersHeld, Owner
    <2>8. t.pc = "launch_mail" => Owner(rows', t.id, t.row)
      BY <1>1, <1>2, <2>1 DEF Owner
    <2> QED
      BY <2>5, <2>7, <2>8 DEF OwnersHeld, SendPc
  <1> QED
    BY <1>2, <1>3, <1>4, SaveRunStep

\* The fields of a run that is done with its recipient.
LEMMA ProcessedFields ==
    ASSUME NEW w
    PROVE  /\ Processed(w).pc = "launch" /\ Processed(w).job = "launch"
           /\ Processed(w).batch = task[w].batch /\ Processed(w).more = task[w].more
           /\ Processed(w).after = task[w].after
  BY DEF Processed, Launching, Idle

\* A recipient sent to manual review is no longer owed.
LEMMA LaunchReviewReaches ==
    ASSUME Good, OneCurrentRowPerEmail, NEW w \in Worker,
           RunReaches(task[w], rows), OwnersHeld(task[w], rows), LaunchReview(w)
    PROVE  RunStep(w)
  <1> DEFINE r == [task[w].row EXCEPT !.launchStatus = "manual_review"]
             t == Processed(w)
  <1>1. task[w].pc \in SendPc /\ SaveThen(w, task[w].id, r, t)
    BY DEF LaunchReview, At, SendPc
  <1>2. /\ r \in Row /\ r.email = task[w].row.email /\ ~r.anonymized
        /\ r.launchStatus # "pending"
    BY <1>1, RunHolds DEF GoodRow, Row, LaunchStatus
  <1>3. /\ t.pc = "launch" /\ t.job = "launch" /\ t.batch = task[w].batch
        /\ t.more = task[w].more /\ t.after = task[w].after
    BY ProcessedFields
  <1> HIDE DEF r, t
  <1> QED
    BY <1>1, <1>2, <1>3, SendSaveReaches

\* A recipient who is marked stays in the run's hands.
LEMMA LaunchMarkReaches ==
    ASSUME Good, OneCurrentRowPerEmail, NEW w \in Worker,
           RunReaches(task[w], rows), OwnersHeld(task[w], rows), LaunchMark(w)
    PROVE  RunStep(w)
  <1> DEFINE r == [task[w].row EXCEPT !.launchStatus = "sending",
                                      !.launchLastAttemptAt = now]
             t == [task[w] EXCEPT !.pc = "launch_mail", !.row = r]
  <1>1. task[w].pc \in SendPc /\ SaveThen(w, task[w].id, r, t) /\ Launches(task[w])
    BY DEF LaunchMark, At, SendPc, Launches, LaunchPc
  <1>2. /\ r \in Row /\ r.email = task[w].row.email /\ ~r.anonymized
        /\ r.launchStatus # "pending"
    BY <1>1, RunHolds DEF GoodRow, Row, LaunchStatus
  <1>3. /\ t.pc = "launch_mail" /\ t.job = task[w].job /\ t.batch = task[w].batch
        /\ t.more = task[w].more /\ t.after = task[w].after
        /\ t.id = task[w].id /\ t.row = r
    <2> HIDE DEF r
    <2> QED
      BY RunHolds DEF Task
  <1>4. t.job = "launch"
    BY <1>1, <1>3 DEF RunReaches
  <1> HIDE DEF r, t
  <1> QED
    BY <1>1, <1>2, <1>3, <1>4, SendSaveReaches

\* The mail settles nothing until its outcome is saved.
LEMMA LaunchMailReaches ==
    ASSUME Good, NEW w \in Worker, RunReaches(task[w], rows), OwnersHeld(task[w], rows),
           LaunchMail(w)
    PROVE  RunStep(w)
  <1>1. PICK outcome \in Outcomes :
           Continue(w, [task[w] EXCEPT !.pc = "launch_save", !.outcome = outcome])
    BY DEF LaunchMail
  <1> DEFINE t == [task[w] EXCEPT !.pc = "launch_save", !.outcome = outcome]
  <1>2. /\ task[w].pc = "launch_mail" /\ Launches(task[w]) /\ UNCHANGED rows
    BY DEF LaunchMail, At, Launches, LaunchPc, SendPc
  <1>3. /\ t.pc = "launch_save" /\ t.job = task[w].job /\ t.batch = task[w].batch
        /\ t.more = task[w].more /\ t.after = task[w].after
        /\ t.id = task[w].id /\ t.row = task[w].row
    BY RunHolds DEF Task
  <1>4. Continue(w, t)
    BY <1>1
  <1> HIDE DEF t
  <1>5. RunReaches(t, rows) /\ OwnersHeld(t, rows) /\ Launches(t)
    BY <1>2, <1>3 DEF RunReaches, OwnersHeld, Comes, Launches, LaunchPc, SendPc
  <1> QED
    BY <1>2, <1>4, <1>5, QuietRunStep

\* The outcome that is saved says what became of the recipient.
LEMMA LaunchSaveReaches ==
    ASSUME Good, OneCurrentRowPerEmail, NEW w \in Worker,
           RunReaches(task[w], rows), OwnersHeld(task[w], rows), LaunchSave(w)
    PROVE  RunStep(w)
  <1> DEFINE r == LaunchOutcome(task[w].row, task[w].outcome)
             t == Processed(w)
  <1>1. /\ task[w].pc = "launch_save" /\ task[w].pc \in SendPc
        /\ SaveThen(w, task[w].id, r, t)
    BY DEF LaunchSave, At, SendPc
  <1>2. /\ GoodRow(task[w].row) /\ ~task[w].row.anonymized
        /\ task[w].outcome \in Outcomes /\ task[w].row.launchStatus = "sending"
    BY <1>1, RunHolds DEF GoodTask, Fits
  <1>3. GoodRow(r)
    BY <1>2, LaunchOutcomeGood, RunHolds
  <1>4. /\ r \in Row /\ r.email = task[w].row.email /\ ~r.anonymized
        /\ r.launchStatus # "pending"
    BY <1>2, <1>3 DEF LaunchOutcome, GoodRow, Row, Outcomes
  <1>5. /\ t.pc = "launch" /\ t.job = "launch" /\ t.batch = task[w].batch
        /\ t.more = task[w].more /\ t.after = task[w].after
    BY ProcessedFields
  <1> HIDE DEF r, t
  <1> QED
    BY <1>1, <1>4, <1>5, SendSaveReaches

\* Every step of a run leaves nobody behind its cursor that it owes a mail.
LEMMA LaunchReaches ==
    ASSUME Good, OneCurrentRowPerEmail, NEW w \in Worker,
           RunReaches(task[w], rows), OwnersHeld(task[w], rows), Launch(w)
    PROVE  RunStep(w)
  BY LaunchStartReaches, LaunchFetchReaches, LaunchDoneReaches, LaunchSkipReaches,
     LaunchRotateReaches, LaunchLoadReaches, LaunchReviewReaches, LaunchMarkReaches,
     LaunchMailReaches, LaunchSaveReaches DEF Launch

-----------------------------------------------------------------------------
\* What RunReachesEveryone says of a step.
EndReaches ==
    \A w \in Worker :
        /\ At(w, "launch")
        /\ task'[w].pc = "idle"
        /\ aborts' = aborts
        => \A id \in LaunchEligible : rows[id].launchStatus # "pending"

\* A worker that is between two recipients returns by a step of its run, or is aborted.
LEMMA RunEnds ==
    ASSUME Good, NEW w \in Worker, RunStep(w)
    PROVE  EndReaches
  <1>1. PICK t : /\ Continue(w, t)
                 /\ At(w, "launch") /\ t.pc = "idle" => \A id \in Ids : ~Owed(rows, id)
    BY DEF RunStep
  <1>2. task'[w] = t /\ \A v \in Worker : v # w => task'[v] = task[v]
    BY <1>1 DEF Continue, Good, TasksGood
  <1>3. \A id \in LaunchEligible : id \in Ids /\ (rows[id].launchStatus = "pending" => Owed(rows, id))
    BY DEF LaunchEligible, Current, Present, Owed
  <1> QED
    BY <1>1, <1>2, <1>3 DEF EndReaches, At

\* A worker that is not between two recipients ends no run.
LEMMA OthersEnd ==
    ASSUME Good, NEW w \in Worker, NEW t, Continue(w, t), ~At(w, "launch")
    PROVE  EndReaches
  <1>1. \A v \in Worker : v # w => task'[v] = task[v]
    BY DEF Continue, Good, TasksGood
  <1> QED
    BY <1>1 DEF EndReaches, At

\* One worker: what it holds is what the table holds.
LEMMA SerialOwners ==
    ASSUME Good, Serialized, NEW w \in Worker
    PROVE  OwnersHeld(task[w], rows)
  <1>1. task[w] \in Task /\ GoodTask(task[w]) /\ UpToDate(task[w], rows, now)
    BY HeldGood
  <1>2. task[w].pc \in SendPc \cup {"unsubscribe"} => Owner(rows, task[w].id, task[w].row)
    BY <1>1 DEF GoodTask, Fits, UpToDate, LoadedPc, SendPc, Owner
  <1>3. Launches(task[w]) => \A s \in task[w].batch : Owner(rows, s.id, s.row)
    <2> SUFFICES ASSUME Launches(task[w]), NEW s \in task[w].batch
                 PROVE  Owner(rows, s.id, s.row)
      OBVIOUS
    <2>1. s.row \in Row /\ rows[s.id] = s.row /\ ~s.row.anonymized
      BY <1>1 DEF Task, Snapshot, UpToDate, GoodTask, Fits, Launches, LaunchPc, SendPc
    <2> QED
      BY <2>1, StoreAssumption DEF Owner
  <1> QED
    BY <1>2, <1>3 DEF OwnersHeld

SerialReaches == \A w \in Worker : RunReaches(task[w], rows)

\* Every step of the system does, if invocations do not overlap.
LEMMA NextSerialReaches ==
    ASSUME SoleWorker, Good, OneCurrentRowPerEmail, Serialized, SerialReaches, [Next]_vars
    PROVE  SerialReaches' /\ (EndReaches \/ UNCHANGED vars)
  <1>1. CASE UNCHANGED vars
    BY <1>1 DEF vars, SerialReaches
  <1>2. ASSUME NEW w \in Worker, Launch(w) PROVE SerialReaches' /\ EndReaches
    <2>1. RunStep(w)
      BY <1>2, SerialOwners, LaunchReaches DEF SerialReaches
    <2>2. PICK t : Continue(w, t) /\ RunReaches(t, rows')
      BY <2>1 DEF RunStep
    <2>3. \A v \in Worker : task'[v] = t
      BY <2>2 DEF SoleWorker, Good, TasksGood, Continue
    <2> QED
      BY <2>1, <2>2, <2>3, RunEnds DEF SerialReaches
  <1>3. ASSUME AsideStep, NEW w \in Worker, ~At(w, "launch")
        PROVE  SerialReaches' /\ EndReaches
    <2>1. \A v \in Worker : ~At(v, "launch")
      BY <1>3 DEF SoleWorker
    <2> QED
      BY <1>3, <2>1 DEF AsideStep, SerialReaches, RunReaches, EndReaches
  <1>4. ASSUME NEW w \in Worker, Confirm(w) \/ Join(w) \/ Unsubscribe(w) \/ Maintain(w)
        PROVE  SerialReaches' /\ EndReaches
    <2>1. AsideStep
      BY <1>4, ConfirmAside, JoinAside, UnsubscribeAside, MaintainAside
    <2>2. ~At(w, "launch")
      BY <1>4
      DEF Confirm, ConfirmLoad, ConfirmMail, ConfirmSave, Join, JoinFind, JoinCreate,
          JoinConflict, JoinRefind, Resubscribe, Unsubscribe, UnsubscribeFind,
          UnsubscribeSave, Maintain, RetryFind, RetryRotate, PurgeFind, PurgeSave,
          MaintenanceDone, Begin, At
    <2> QED
      BY <1>3, <2>1, <2>2
  <1>5. ASSUME NEW w \in Worker, Abort(w) PROVE SerialReaches' /\ EndReaches
    <2>1. \A v \in Worker : task'[v] = Idle
      BY <1>5 DEF Abort, Continue, SoleWorker, Good, TasksGood
    <2>2. aborts' # aborts
      BY <1>5 DEF Abort, Good, CountersOK
    <2> QED
      BY <2>1, <2>2, IdleReaches DEF SerialReaches, EndReaches
  <1>6. CASE Tick
    BY <1>6 DEF Tick, SerialReaches, EndReaches, At
  <1> QED
    BY <1>1, <1>2, <1>4, <1>5, <1>6 DEF Next

\* One invocation at a time, among signups, cancellations and maintenance, a run that
\* comes to its end has tried every row that is eligible then, for every page size and
\* wherever earlier runs were cut short.
THEOREM SerialRunReachesEveryone ==
    ASSUME SoleWorker
    PROVE  Spec => RunReachesEveryone
  <1>1. Init => SerialReaches
    BY IdleReaches DEF Init, SerialReaches
  <1>2. /\ IInv /\ OneCurrentRowPerEmail /\ Serialized /\ SerialReaches /\ [Next]_vars
        => SerialReaches'
    BY GoodIsIInv, NextSerialReaches
  <1>3. /\ IInv /\ OneCurrentRowPerEmail /\ Serialized /\ SerialReaches /\ [Next]_vars
        => [EndReaches]_vars
    BY GoodIsIInv, NextSerialReaches
  <1>4. Spec => [][EndReaches]_vars
    BY <1>1, <1>2, <1>3, Invariance, UniqueCurrentRow, SerialInvariance, PTL DEF Spec
  <1> QED
    BY <1>4 DEF RunReachesEveryone, EndReaches

-----------------------------------------------------------------------------
\* Any number of workers, of which one launches and the others unsubscribe people.
Managing ==
    /\ \A w \in Worker : /\ task[w].pc \in LaunchPc \cup {"idle", "unsubscribe"}
                         /\ OwnersHeld(task[w], rows)
                         /\ RunReaches(task[w], rows)
    /\ \A v, w \in Worker : Launches(task[v]) /\ Launches(task[w]) => v = w

\* A step of one worker that the launching one can go on after.
LEMMA ManageStep ==
    ASSUME Good, Managing, NEW w \in Worker, NEW t, Continue(w, t),
           t.pc \in LaunchPc \cup {"idle", "unsubscribe"},
           OwnersHeld(t, rows'), RunReaches(t, rows'), SameOwners(rows, rows'),
           \/ NoneOwedAnew(rows, rows') /\ ~Launches(t)
           \/ \A v \in Worker : v # w => ~Launches(task[v])
    PROVE  Managing'
  <1>1. task'[w] = t /\ \A v \in Worker : v # w => task'[v] = task[v]
    BY DEF Continue, Good, TasksGood
  <1>2. \A v \in Worker : task[v] \in Task /\ Fits(task[v])
    BY DEF Good, TasksGood, GoodTask
  <1>3. ASSUME NEW v \in Worker, v # w
        PROVE  OwnersHeld(task[v], rows') /\ RunReaches(task[v], rows')
    <2>1. OwnersHeld(task[v], rows')
      BY <1>2, OthersReach DEF Managing
    <2>2. RunReaches(task[v], rows')
      <3>1. CASE ~Launches(task[v])
        BY <3>1 DEF RunReaches
      <3>2. CASE NoneOwedAnew(rows, rows')
        BY <1>2, <3>2, OthersReach DEF Managing
      <3> QED
        BY <1>3, <3>1, <3>2
    <2> QED
      BY <2>1, <2>2
  <1>4. \A v \in Worker : /\ task'[v].pc \in LaunchPc \cup {"idle", "unsubscribe"}
                          /\ OwnersHeld(task'[v], rows')
                          /\ RunReaches(task'[v], rows')
    BY <1>1, <1>3 DEF Managing
  <1>5. \A v, u \in Worker : Launches(task'[v]) /\ Launches(task'[u]) => v = u
    BY <1>1 DEF Managing
  <1> QED
    BY <1>4, <1>5 DEF Managing

\* A cancellation leaves everyone the address, and owes nobody a notification anew.
LEMMA UnsubscribeManages ==
    ASSUME Good, OneCurrentRowPerEmail, Managing, NEW w \in Worker, Unsubscribe(w)
    PROVE  Managing' /\ EndReaches
  <1>1. ASSUME NEW token, UnsubscribeFind(w, token) PROVE Managing' /\ EndReaches
    <2>1. PICK id \in FindByManageTokenHash(token) :
             /\ ~rows[id].anonymized
             /\ Continue(w, [Idle EXCEPT !.pc = "unsubscribe", !.job = "unsubscribe",
                                         !.id = id, !.row = rows[id]])
      BY <1>1 DEF UnsubscribeFind
    <2> DEFINE t == [Idle EXCEPT !.pc = "unsubscribe", !.job = "unsubscribe",
                                 !.id = id, !.row = rows[id]]
    <2>2. t.pc = "unsubscribe" /\ t.id = id /\ t.row = rows[id] /\ Continue(w, t)
      BY <2>1 DEF Idle
    <2>3. Owner(rows, id, rows[id]) /\ UNCHANGED rows /\ ~At(w, "launch")
      BY <1>1, <2>1
      DEF Owner, FindByManageTokenHash, Present, UnsubscribeFind, Begin, At
    <2> HIDE DEF t
    <2>4. ~Launches(t) /\ OwnersHeld(t, rows) /\ RunReaches(t, rows)
      BY <2>2, <2>3 DEF Launches, LaunchPc, SendPc, OwnersHeld, RunReaches
    <2>5. SameOwners(rows, rows') /\ NoneOwedAnew(rows, rows') /\ rows' = rows
      BY <2>3 DEF SameOwners, NoneOwedAnew
    <2> QED
      BY <2>2, <2>3, <2>4, <2>5, ManageStep, OthersEnd
  <1>2. CASE UnsubscribeSave(w)
    <2> DEFINE r == [task[w].row EXCEPT !.unsubscribedAt = now]
    <2>1. PICK id \in Ids : id = task[w].id
      BY <1>2 DEF UnsubscribeSave, At, Good, TasksGood, GoodTask, Fits, Task
    <2>2. /\ SaveThen(w, id, r, Idle) /\ ~At(w, "launch") /\ Owner(rows, id, task[w].row)
          /\ GoodRow(task[w].row) /\ now \in Nat /\ DOMAIN rows = Ids
      <3>1. SaveThen(w, id, r, Idle) /\ task[w].pc = "unsubscribe"
        BY <1>2, <2>1 DEF UnsubscribeSave, At
      <3>2. GoodRow(task[w].row)
        BY <3>1 DEF Good, TasksGood, GoodTask, Fits, Task, GoodRow
      <3> QED
        BY <2>1, <3>1, <3>2 DEF At, Managing, OwnersHeld, Good, CountersOK, RowsGood
    <2>3. /\ r # Null /\ r.email = task[w].row.email /\ ~r.anonymized
          /\ r.unsubscribedAt # Null
      <3>1. r \in Row
        BY <2>2 DEF GoodRow, Row
      <3> QED
        BY <2>2, <3>1, StoreAssumption DEF GoodRow, Row, Owner
    <2>4. Owner(rows, id, r)
      BY <2>2, <2>3 DEF Owner
    <2> HIDE DEF r
    <2>5. rows' = [rows EXCEPT ![id] = r] /\ Continue(w, Idle)
      BY <2>2, <2>4, OwnerAllowed DEF SaveThen, Save
    <2>6. SameOwners(rows, rows') /\ NoneOwedAnew(rows, rows')
      BY <2>2, <2>3, <2>4, <2>5 DEF SameOwners, NoneOwedAnew, Owner, Owed
    <2>7. OwnersHeld(Idle, rows') /\ RunReaches(Idle, rows') /\ Idle.pc = "idle"
      BY IdleReaches
    <2> QED
      BY <2>2, <2>5, <2>6, <2>7, IdleRests, ManageStep, OthersEnd
  <1> QED
    BY <1>1, <1>2 DEF Unsubscribe

\* Every step does, if the runs overlap with nothing but unsubscriptions and runs.
LEMMA NextManages ==
    ASSUME Jobs \subseteq {"unsubscribe", "launch"},
           Good, OneCurrentRowPerEmail, Managing, [Next]_vars
    PROVE  Managing' /\ (EndReaches \/ UNCHANGED vars)
  <1>1. CASE UNCHANGED vars
    BY <1>1 DEF vars, Managing
  <1>2. ASSUME NEW w \in Worker, Launch(w) PROVE Managing' /\ EndReaches
    <2>1. RunStep(w)
      BY <1>2, LaunchReaches DEF Managing
    <2>2. PICK t : /\ Continue(w, t) /\ t.pc \in LaunchPc \cup {"idle"}
                   /\ RunReaches(t, rows') /\ OwnersHeld(t, rows')
      BY <2>1 DEF RunStep
    <2>3. \A v \in Worker : v # w => ~Launches(task[v])
      <3>1. CASE LaunchStart(w)
        BY <3>1 DEF LaunchStart, Managing, RunReaches
      <3>2. CASE ~LaunchStart(w)
        <4>1. Launches(task[w])
          BY <1>2, <3>2
          DEF Launch, LaunchFetch, LaunchDone, LaunchSkip, LaunchRotate, LaunchLoad,
              LaunchReview, LaunchMark, LaunchMail, LaunchSave, At, Launches, LaunchPc,
              SendPc
        <4> QED
          BY <4>1 DEF Managing
      <3> QED
        BY <3>1, <3>2
    <2>4. SameOwners(rows, rows')
      BY <2>1 DEF RunStep
    <2> QED
      BY <2>1, <2>2, <2>3, <2>4, ManageStep, RunEnds
  <1>3. ASSUME NEW w \in Worker, Abort(w) PROVE Managing' /\ EndReaches
    <2>1. Continue(w, Idle) /\ UNCHANGED rows /\ aborts' # aborts
      BY <1>3 DEF Abort, Good, CountersOK
    <2>2. SameOwners(rows, rows') /\ NoneOwedAnew(rows, rows')
      BY <2>1 DEF SameOwners, NoneOwedAnew
    <2>3. OwnersHeld(Idle, rows') /\ RunReaches(Idle, rows') /\ Idle.pc = "idle"
      BY IdleReaches
    <2>4. Managing'
      BY <2>1, <2>2, <2>3, IdleRests, ManageStep
    <2> QED
      BY <2>1, <2>4 DEF EndReaches
  <1>4. ASSUME NEW w \in Worker, Confirm(w) \/ Join(w) \/ Maintain(w)
        PROVE  FALSE
    <2>1. task[w].pc \in LaunchPc \cup {"idle", "unsubscribe"}
      BY DEF Managing
    <2> QED
      BY <1>4, <2>1
      DEF Confirm, ConfirmLoad, ConfirmMail, ConfirmSave, Join, JoinFind, JoinCreate,
          JoinConflict, JoinRefind, Resubscribe, Maintain, RetryFind, RetryRotate,
          PurgeFind, PurgeSave, MaintenanceDone, Begin, At, LaunchPc, SendPc
  <1>5. CASE Tick
    BY <1>5 DEF Tick, Managing, EndReaches, At
  <1> QED
    BY <1>1, <1>2, <1>3, <1>4, <1>5, UnsubscribeManages DEF Next

\* The launch instance: every row is confirmed and has an address of its own.
LEMMA ConfirmedGood ==
    ASSUME \E f \in [Ids -> Emails] : \A i, j \in Ids : f[i] = f[j] => i = j,
           InitConfirmed
    PROVE  Good /\ OneCurrentRowPerEmail /\ Managing
  <1>1. AddressOf \in [Ids -> Emails] /\ \A i, j \in Ids : AddressOf[i] = AddressOf[j] => i = j
    BY DEF AddressOf
  <1>2. ASSUME NEW id \in Ids
        PROVE  /\ GoodRow(ConfirmedRow(id)) /\ ConfirmedRow(id).email = AddressOf[id]
    <2>1. AddressOf[id] \in Emails /\ GeneratedToken(id) \in Token
      BY <1>1, StoreAssumption DEF GeneratedToken, Token
    <2> DEFINE fresh == FreshRow(AddressOf[id], GeneratedToken(id))
    <2>2. GoodRow(fresh)
      BY <2>1, FreshRowGood
    <2>3. /\ fresh.email = AddressOf[id] /\ fresh.confirmationNextAttemptAt = Null
          /\ ConfirmedRow(id) = [fresh EXCEPT !.confirmationStatus = "sent",
                                             !.confirmationAttemptCount = 1]
      BY DEF ConfirmedRow, FreshRow
    <2> HIDE DEF fresh
    <2>4. ConfirmedRow(id) \in Row
      <3>1. fresh \in Row /\ "sent" \in ConfirmationStatus
        BY <2>2 DEF GoodRow, ConfirmationStatus
      <3>2. [fresh EXCEPT !.confirmationStatus = "sent"] \in Row
        BY <3>1 DEF Row
      <3>3. [[fresh EXCEPT !.confirmationStatus = "sent"]
               EXCEPT !.confirmationAttemptCount = 1] \in Row
        BY <3>2 DEF Row
      <3>4. ConfirmedRow(id) = [[fresh EXCEPT !.confirmationStatus = "sent"]
               EXCEPT !.confirmationAttemptCount = 1]
        BY <2>3
      <3> QED
        BY <3>3, <3>4
    <2>5. /\ ConfirmedRow(id).email = fresh.email
          /\ ConfirmedRow(id).hash = fresh.hash
          /\ ConfirmedRow(id).anonymized = fresh.anonymized
          /\ ConfirmedRow(id).confirmationStatus = "sent"
          /\ ConfirmedRow(id).confirmationAttemptCount = 1
          /\ ConfirmedRow(id).confirmationNextAttemptAt = Null
          /\ ConfirmedRow(id).launchStatus = fresh.launchStatus
          /\ ConfirmedRow(id).launchLastAttemptAt = fresh.launchLastAttemptAt
          /\ ConfirmedRow(id).launchSentAt = fresh.launchSentAt
      BY <2>2, <2>3 DEF GoodRow, Row
    <2> QED
      BY <2>2, <2>3, <2>4, <2>5
      DEF GoodRow, Coherent, IdentityWhole, DeliveryCoherent
  <1>3. RowsGood /\ OneCurrentRowPerEmail
    BY <1>1, <1>2 DEF InitConfirmed, RowsGood, GoodRow, OneCurrentRowPerEmail, Current
  <1>4. MailTypeOK
    <2>1. \A id \in Ids : GeneratedToken(id) \in Token
      BY StoreAssumption DEF GeneratedToken, Token
    <2> QED
      BY <2>1 DEF InitConfirmed, MailTypeOK
  <1>5. TasksGood /\ CountersOK
    BY IdleGood, WorkersAssumption DEF InitConfirmed, TasksGood, GoodTask, CountersOK
  <1>6. Managing
    BY IdleReaches, IdleRests DEF InitConfirmed, Managing
  <1> QED
    BY <1>3, <1>4, <1>5, <1>6 DEF Good

\* A run that comes to its end has tried every row that is eligible then, although any
\* number of people unsubscribe meanwhile with what they had read of their rows.
THEOREM LaunchReachesEveryone ==
    ASSUME Jobs \subseteq {"unsubscribe", "launch"},
           \E f \in [Ids -> Emails] : \A i, j \in Ids : f[i] = f[j] => i = j
    PROVE  LaunchSpec => RunReachesEveryone
  <1> DEFINE Inv == IInv /\ OneCurrentRowPerEmail /\ Managing
  <1>1. InitConfirmed => Inv
    BY ConfirmedGood, GoodIsIInv
  <1>2. Inv /\ [Next]_vars => Inv'
    <2>1. Good' <=> IInv'
      BY GoodIsIInv, PTL
    <2> QED
      BY <2>1, GoodIsIInv, NextGood, NextUnique, NextManages
  <1>3. Inv /\ [Next]_vars => [EndReaches]_vars
    BY GoodIsIInv, NextManages
  <1>4. LaunchSpec => [][EndReaches]_vars
    BY <1>1, <1>2, <1>3, PTL DEF LaunchSpec
  <1> QED
    BY <1>4 DEF RunReachesEveryone, EndReaches

-----------------------------------------------------------------------------
\* Any number of workers, none of which signs anybody up or renews a subscription.  What
\* they hold of a row may be stale, but never about this: whether the row's retention is
\* over.

\* A row is anonymized, or due to be: the purge makes the one of the other.
Lapsed(r, at) == r.anonymized \/ PurgeDueRow(r, at)

\* What was read of a row says of its retention what the table R says at time `at'.
SameLapse(id, r, R, at) == R[id] # Null /\ (Lapsed(r, at) <=> Lapsed(R[id], at))

HeldLapses(t, R, at) ==
    /\ t.pc \notin {"create", "refind", "resubscribe"}
    /\ t.pc = "idle" => t.row = Null /\ t.batch = {}
    /\ t.row # Null => t.id # Null /\ SameLapse(t.id, t.row, R, at)
    /\ \A s \in t.batch : SameLapse(s.id, s.row, R, at)
    /\ t.pc = "purge" => \A s \in t.batch : Lapsed(s.row, at)
    /\ t.pc = "unsubscribe" => t.row.unsubscribedAt = Null

Retaining == \A w \in Worker : HeldLapses(task[w], rows, now)

\* A step after which every row has the retention it had.
LapsesKept(R, S, at) ==
    \A id \in Ids : R[id] # Null => S[id] # Null /\ (Lapsed(S[id], at) <=> Lapsed(R[id], at))

LapseStep(w) ==
    /\ now' = now
    /\ LapsesKept(rows, rows', now)
    /\ \E t : Continue(w, t) /\ HeldLapses(t, rows', now)

\* A worker that returned holds nothing of any row.
LEMMA IdleLapses ==
    ASSUME NEW R, NEW at
    PROVE  HeldLapses(Idle, R, at)
  BY DEF HeldLapses, Idle

\* What a worker holds remains true of a table whose rows keep their retention.
LEMMA HeldLapsesKept ==
    ASSUME NEW t \in Task, Fits(t), NEW R, NEW S, NEW at, LapsesKept(R, S, at),
           HeldLapses(t, R, at)
    PROVE  HeldLapses(t, S, at)
  <1>1. \A s \in t.batch : s.id \in Ids
    BY DEF Task, Snapshot
  <1>2. t.row # Null => t.id \in Ids
    BY DEF Task, HeldLapses
  <1> QED
    BY <1>1, <1>2 DEF HeldLapses, SameLapse, LapsesKept

\* A save of a row whose retention is that of the table keeps that of every row.
LEMMA SaveLapses ==
    ASSUME Good, NEW id \in Ids, NEW r, r # Null, SameLapse(id, r, rows, now), Save(id, r)
    PROVE  LapsesKept(rows, rows', now)
  <1>1. rows \in [Ids -> Row \cup {Null}] /\ rows' = [rows EXCEPT ![id] = r]
    BY DEF Good, RowsGood, Save
  <1>2. rows'[id] = r /\ \A i \in Ids : i # id => rows'[i] = rows[i]
    BY <1>1
  <1> QED
    BY <1>2 DEF LapsesKept, SameLapse

\* A step that writes nothing, after which the worker goes on as t.
LEMMA QuietLapse ==
    ASSUME NEW w \in Worker, NEW t, Continue(w, t), HeldLapses(t, rows, now),
           UNCHANGED rows, now' = now
    PROVE  LapseStep(w)
  <1>1. LapsesKept(rows, rows', now)
    BY DEF LapsesKept
  <1>2. HeldLapses(t, rows', now)
    BY DEF HeldLapses
  <1> QED
    BY <1>1, <1>2 DEF LapseStep

\* A save, or the conflict it throws.
LEMMA SaveThenLapse ==
    ASSUME Good, NEW w \in Worker, NEW id \in Ids, NEW r, r # Null, NEW t, SaveThen(w, id, r, t),
           SameLapse(id, r, rows, now),
           LapsesKept(rows, rows', now) => HeldLapses(t, rows', now),
           now' = now
    PROVE  LapseStep(w)
  <1>1. CASE Save(id, r) /\ Continue(w, t)
    <2>1. LapsesKept(rows, rows', now)
      BY <1>1, SaveLapses
    <2> QED
      BY <1>1, <2>1 DEF LapseStep
  <1>2. CASE UNCHANGED rows /\ Continue(w, Idle)
    BY <1>2, IdleLapses, QuietLapse
  <1> QED
    BY <1>1, <1>2 DEF SaveThen

\* What a worker of this system holds, typed.
LEMMA RetainingHolds ==
    ASSUME Good, Retaining, NEW w \in Worker
    PROVE  /\ task[w] \in Task /\ Fits(task[w]) /\ HeldLapses(task[w], rows, now)
           /\ task[w].row # Null => GoodRow(task[w].row)
           /\ \A s \in task[w].batch : s.id \in Ids /\ s.row \in Row /\ GoodRow(s.row)
           /\ now \in Nat
           /\ \A id \in Ids : Present(id) => rows[id] \in Row
  <1>1. task[w] \in Task /\ GoodTask(task[w]) /\ now \in Nat
    BY DEF Good, TasksGood, CountersOK
  <1>2. HeldLapses(task[w], rows, now)
    BY DEF Retaining
  <1>3. \A s \in task[w].batch : s.id \in Ids /\ s.row \in Row
    <2>1. task[w].batch \subseteq Snapshot
      BY <1>1 DEF Task
    <2> QED
      BY <2>1 DEF Snapshot
  <1>4. \A id \in Ids : Present(id) => rows[id] \in Row
    BY DEF Good, RowsGood, Present
  <1>5. Fits(task[w]) /\ \A s \in task[w].batch : GoodRow(s.row)
    BY <1>1, <1>3 DEF GoodTask, GoodRow
  <1>6. task[w].row # Null => GoodRow(task[w].row)
    BY <1>1 DEF GoodTask, GoodRow, Task
  <1> QED
    BY <1>1, <1>2, <1>3, <1>4, <1>5, <1>6

\* Snapshots just taken are what the table holds.
LEMMA SnapshotsLapse ==
    ASSUME NEW S \in SUBSET Ids, \A id \in S : Present(id)
    PROVE  \A s \in SnapshotsOf(S) : SameLapse(s.id, s.row, rows, now)
  BY DEF SnapshotsOf, SameLapse, Present

\* The retention of a row depends on three of its columns.
LEMMA SameColumnsLapse ==
    ASSUME NEW r, NEW s, NEW at, r.anonymized = s.anonymized,
           r.unsubscribedAt = s.unsubscribedAt, r.launchSentAt = s.launchSentAt
    PROVE  Lapsed(r, at) <=> Lapsed(s, at)
  BY DEF Lapsed, PurgeDueRow

\* What begins now is not thirty days old.
LEMMA NotYetDue ==
    ASSUME NEW at \in Nat
    PROVE  at # Null /\ ~(at <= at - ThirtyDays)
  BY StoreAssumption

\* A confirmation writes back the retention it has read.
LEMMA ConfirmLapses ==
    ASSUME Good, Retaining, NEW w \in Worker, Confirm(w)
    PROVE  LapseStep(w)
  <1> DEFINE t == task[w]
  <1>1. /\ t \in Task /\ Fits(t) /\ HeldLapses(t, rows, now)
        /\ t.row # Null => GoodRow(t.row)
    BY RetainingHolds
  <1>2. \A R : HeldLapses(t, R, now) => HeldLapses(AfterConfirmation(w), R, now)
    BY DEF HeldLapses, AfterConfirmation, Idle
  <1>3. CASE ConfirmLoad(w)
    <2> DEFINE u == [t EXCEPT !.pc = "confirm_mail", !.row = rows[t.id]]
    <2>1. now' = now /\ UNCHANGED rows /\ t.id # Null /\ t.pc = "confirm_load"
      BY <1>1, <1>3 DEF ConfirmLoad, counters, At, Fits
    <2>2. CASE Present(t.id) /\ Continue(w, u)
      <3>1. u.pc = "confirm_mail" /\ u.id = t.id /\ u.batch = t.batch /\ u.row = rows[t.id]
        BY <1>1 DEF Task
      <3> HIDE DEF u
      <3>2. HeldLapses(u, rows, now)
        BY <1>1, <2>1, <2>2, <3>1 DEF HeldLapses, SameLapse, Present
      <3> QED
        BY <2>1, <2>2, <3>2, QuietLapse
    <2>3. CASE Continue(w, AfterConfirmation(w))
      BY <1>1, <1>2, <2>1, <2>3, QuietLapse
    <2> QED
      BY <1>3, <2>2, <2>3 DEF ConfirmLoad
  <1>4. CASE ConfirmMail(w)
    <2>1. now' = now /\ UNCHANGED rows /\ t.pc = "confirm_mail"
      BY <1>4 DEF ConfirmMail, counters, At
    <2>2. PICK outcome \in Outcomes :
             Continue(w, [t EXCEPT !.pc = "confirm_save", !.outcome = outcome])
      BY <1>4, Zenon DEF ConfirmMail
    <2> DEFINE u == [t EXCEPT !.pc = "confirm_save", !.outcome = outcome]
    <2>3. u.pc = "confirm_save" /\ u.id = t.id /\ u.batch = t.batch /\ u.row = t.row
      BY <1>1 DEF Task
    <2> HIDE DEF u
    <2>4. HeldLapses(u, rows, now)
      BY <1>1, <2>3 DEF HeldLapses
    <2> QED
      BY <2>1, <2>2, <2>4, QuietLapse DEF u
  <1>5. CASE ConfirmSave(w)
    <2> DEFINE r == ApplyOutcome(t.row, t.outcome, now)
    <2>1. /\ now' = now /\ t.pc = "confirm_save" /\ t.id \in Ids /\ t.row # Null
          /\ t.row \in Row /\ t.outcome \in Outcomes
          /\ SaveThen(w, t.id, r, AfterConfirmation(w))
      BY <1>1, <1>5 DEF ConfirmSave, counters, At, Fits, Task, GoodRow
    <2>2. GoodRow(r)
      <3>1. GoodRow(t.row) /\ now \in Nat
        BY <1>1, <2>1, RetainingHolds
      <3> HIDE DEF t
      <3> QED
        BY <2>1, <3>1, ApplyOutcomeGood
    <2>3. r # Null
      <3> HIDE DEF r
      <3> QED
        BY <2>2, StoreAssumption DEF GoodRow
    <2>4. /\ r.anonymized = t.row.anonymized /\ r.unsubscribedAt = t.row.unsubscribedAt
          /\ r.launchSentAt = t.row.launchSentAt
      BY <2>1 DEF ApplyOutcome, Row
    <2> HIDE DEF r
    <2>5. SameLapse(t.id, r, rows, now)
      BY <1>1, <2>1, <2>4, SameColumnsLapse DEF HeldLapses, SameLapse
    <2>6. LapsesKept(rows, rows', now) => HeldLapses(AfterConfirmation(w), rows', now)
      BY <1>1, <1>2, HeldLapsesKept
    <2> HIDE DEF t
    <2> QED
      BY <2>1, <2>3, <2>5, <2>6, SaveThenLapse
  <1> QED
    BY <1>3, <1>4, <1>5 DEF Confirm

\* A cancellation starts a retention that is not over.
LEMMA UnsubscribeLapses ==
    ASSUME Good, Retaining, NEW w \in Worker, Unsubscribe(w)
    PROVE  LapseStep(w)
  <1> DEFINE t == task[w]
  <1>1. /\ t \in Task /\ Fits(t) /\ HeldLapses(t, rows, now) /\ now \in Nat
        /\ t.row # Null => GoodRow(t.row)
    BY RetainingHolds
  <1>2. ASSUME NEW m \in inbox, UnsubscribeFind(w, m.token) PROVE LapseStep(w)
    <2>1. PICK id \in FindByManageTokenHash(m.token) :
             /\ rows[id].unsubscribedAt = Null
             /\ Continue(w, [Idle EXCEPT !.pc = "unsubscribe", !.job = "unsubscribe",
                                         !.id = id, !.row = rows[id]])
      BY <1>2, Zenon DEF UnsubscribeFind
    <2> DEFINE u == [Idle EXCEPT !.pc = "unsubscribe", !.job = "unsubscribe",
                                 !.id = id, !.row = rows[id]]
    <2>2. /\ u.pc = "unsubscribe" /\ u.id = id /\ u.row = rows[id] /\ u.batch = {}
          /\ id \in Ids /\ rows[id] # Null /\ id # Null
      BY StoreAssumption DEF Idle, FindByManageTokenHash, Present
    <2> HIDE DEF u
    <2>3. HeldLapses(u, rows, now)
      BY <2>1, <2>2 DEF HeldLapses, SameLapse
    <2>4. now' = now /\ UNCHANGED rows
      BY <1>2 DEF UnsubscribeFind, counters
    <2> QED
      BY <2>1, <2>3, <2>4, QuietLapse DEF u
  <1>3. CASE UnsubscribeSave(w)
    <2> DEFINE r == [t.row EXCEPT !.unsubscribedAt = now]
    <2>1. /\ now' = now /\ t.pc = "unsubscribe" /\ t.id \in Ids /\ t.row # Null
          /\ t.row \in Row /\ SaveThen(w, t.id, r, Idle) /\ t.row.unsubscribedAt = Null
      BY <1>1, <1>3 DEF UnsubscribeSave, counters, At, Fits, Task, GoodRow, HeldLapses
    <2>2. GoodRow(r)
      <3>1. GoodRow(t.row)
        BY <1>1, <2>1
      <3> HIDE DEF t
      <3> QED
        BY <1>1, <3>1, UnsubscribedGood
    <2>3. r # Null
      <3> HIDE DEF r
      <3> QED
        BY <2>2, StoreAssumption DEF GoodRow
    <2>4. /\ r.anonymized = t.row.anonymized /\ r.unsubscribedAt = now
          /\ r.launchSentAt = t.row.launchSentAt
      BY <2>1 DEF Row
    <2> HIDE DEF r
    <2>5. Lapsed(r, now) <=> Lapsed(t.row, now)
      BY <1>1, <2>1, <2>4, NotYetDue DEF Lapsed, PurgeDueRow
    <2>6. SameLapse(t.id, r, rows, now)
      BY <1>1, <2>1, <2>5 DEF HeldLapses, SameLapse
    <2> HIDE DEF t
    <2> QED
      BY <2>1, <2>3, <2>6, IdleLapses, SaveThenLapse
  <1> QED
    BY <1>2, <1>3 DEF Unsubscribe

\* A rotated link changes no row's retention.
LEMMA RotatedLapses ==
    ASSUME Good, Retaining, NEW w \in Worker, NEW s \in task[w].batch, NEW h \in Token
    PROVE  /\ s.id \in Ids /\ [s.row EXCEPT !.hash = h] # Null
           /\ SameLapse(s.id, [s.row EXCEPT !.hash = h], rows, now)
  <1>1. /\ HeldLapses(task[w], rows, now)
        /\ s.id \in Ids /\ s.row \in Row /\ GoodRow(s.row)
    BY RetainingHolds
  <1> DEFINE r == [s.row EXCEPT !.hash = h]
  <1>2. r # Null
    <2>1. r \in Row
      BY <1>1 DEF Row
    <2> HIDE DEF r
    <2> QED
      BY <2>1, StoreAssumption
  <1>3. /\ r.anonymized = s.row.anonymized /\ r.unsubscribedAt = s.row.unsubscribedAt
        /\ r.launchSentAt = s.row.launchSentAt
    BY <1>1 DEF Row
  <1> HIDE DEF r
  <1>4. SameLapse(s.id, r, rows, now)
    BY <1>1, <1>3, SameColumnsLapse DEF HeldLapses, SameLapse
  <1> QED
    BY <1>1, <1>2, <1>4 DEF r

\* A maintenance run purges what has lapsed, and changes nothing else about it.
LEMMA MaintainLapses ==
    ASSUME Good, Retaining, NEW w \in Worker, Maintain(w)
    PROVE  LapseStep(w)
  <1> DEFINE t == task[w]
  <1>1. /\ t \in Task /\ Fits(t) /\ HeldLapses(t, rows, now) /\ now \in Nat
        /\ \A s \in t.batch : s.id \in Ids /\ s.row \in Row /\ GoodRow(s.row)
    BY RetainingHolds
  <1>2. ASSUME NEW pc, NEW B
        PROVE  /\ Maintaining(pc, B).pc = pc /\ Maintaining(pc, B).batch = B
               /\ Maintaining(pc, B).row = Null
    BY DEF Maintaining, Idle
  <1>3. CASE RetryFind(w)
    <2>1. PICK B \in Limited(ConfirmationsDue(now), BatchSize) :
             Continue(w, Maintaining("retry", SnapshotsOf(B)))
      BY <1>3, Zenon DEF RetryFind
    <2>2. B \subseteq Current
      BY LimitedSubset DEF ConfirmationsDue
    <2>3. HeldLapses(Maintaining("retry", SnapshotsOf(B)), rows, now)
      BY <1>2, <2>2, SnapshotsLapse DEF HeldLapses, Current
    <2>4. now' = now /\ UNCHANGED rows
      BY <1>3 DEF RetryFind, counters
    <2> QED
      BY <2>1, <2>3, <2>4, QuietLapse
  <1>4. CASE RetryRotate(w)
    <2>1. PICK s \in task[w].batch :
             SaveThen(w, s.id, [s.row EXCEPT !.hash = NewToken],
                      [Maintaining("confirm_load", task[w].batch \ {s})
                         EXCEPT !.id = s.id, !.token = NewToken])
      BY <1>4, Zenon DEF RetryRotate
    <2> DEFINE u == [Maintaining("confirm_load", task[w].batch \ {s})
                       EXCEPT !.id = s.id, !.token = NewToken]
    <2>2. u.pc = "confirm_load" /\ u.batch = task[w].batch \ {s} /\ u.row = Null
      BY DEF Maintaining, Idle
    <2>3. NewToken \in Token /\ now' = now
      BY <1>4, NewTokenTyped DEF RetryRotate, counters, Good
    <2> HIDE DEF u
    <2>4. LapsesKept(rows, rows', now) => HeldLapses(u, rows', now)
      <3>1. LapsesKept(rows, rows', now) => HeldLapses(t, rows', now)
        BY <1>1, HeldLapsesKept
      <3> QED
        BY <2>2, <3>1 DEF HeldLapses
    <2>5. SaveThen(w, s.id, [s.row EXCEPT !.hash = NewToken], u)
      BY <2>1 DEF u
    <2> HIDE DEF t
    <2> QED
      BY <2>3, <2>4, <2>5, RotatedLapses, SaveThenLapse
  <1>5. CASE PurgeFind(w)
    <2>1. PICK B \in Limited(PiiPurgeDue(now), BatchSize) :
             Continue(w, Maintaining("purge", SnapshotsOf(B)))
      BY <1>5, Zenon DEF PurgeFind
    <2>2. B \subseteq PiiPurgeDue(now)
      BY LimitedSubset
    <2>3. \A s \in SnapshotsOf(B) : SameLapse(s.id, s.row, rows, now)
      BY <2>2, SnapshotsLapse DEF PiiPurgeDue
    <2>4. \A s \in SnapshotsOf(B) : Lapsed(s.row, now)
      BY <2>2 DEF SnapshotsOf, PiiPurgeDue, Lapsed
    <2>5. HeldLapses(Maintaining("purge", SnapshotsOf(B)), rows, now)
      BY <1>2, <2>3, <2>4 DEF HeldLapses
    <2>6. now' = now /\ UNCHANGED rows
      BY <1>5 DEF PurgeFind, counters
    <2> QED
      BY <2>1, <2>5, <2>6, QuietLapse
  <1>6. CASE PurgeSave(w)
    <2>1. PICK s \in task[w].batch :
             /\ Save(s.id, Anonymized(s.row))
             /\ Continue(w, Maintaining("purge", task[w].batch \ {s}))
      BY <1>6, Zenon DEF PurgeSave
    <2>2. now' = now /\ t.pc = "purge"
      BY <1>6 DEF PurgeSave, counters, At
    <2>3. Anonymized(s.row).anonymized
      BY <1>1 DEF Anonymized, Row
    <2>4. Anonymized(s.row) # Null
      <3>1. GoodRow(Anonymized(s.row))
        BY <1>1, AnonymizedGood
      <3> QED
        BY <3>1, StoreAssumption DEF GoodRow
    <2>5. SameLapse(s.id, Anonymized(s.row), rows, now)
      BY <1>1, <2>2, <2>3 DEF HeldLapses, SameLapse, Lapsed
    <2>6. LapsesKept(rows, rows', now)
      <3>1. s.id \in Ids
        BY <1>1
      <3> HIDE DEF t
      <3> QED
        BY <2>1, <2>4, <2>5, <3>1, SaveLapses
    <2>7. HeldLapses(t, rows', now)
      BY <1>1, <2>6, HeldLapsesKept
    <2>8. HeldLapses(Maintaining("purge", task[w].batch \ {s}), rows', now)
      BY <1>2, <2>2, <2>7 DEF HeldLapses
    <2> QED
      BY <2>1, <2>2, <2>6, <2>8 DEF LapseStep
  <1>7. CASE MaintenanceDone(w)
    BY <1>7, IdleLapses, QuietLapse DEF MaintenanceDone, counters
  <1> QED
    BY <1>3, <1>4, <1>5, <1>6, <1>7 DEF Maintain

\* A launch run writes back the retention it has read, or starts one that is not over.
LEMMA LaunchLapses ==
    ASSUME Good, Retaining, NEW w \in Worker, Launch(w)
    PROVE  LapseStep(w)
  <1> DEFINE t == task[w]
  <1>1. /\ t \in Task /\ Fits(t) /\ HeldLapses(t, rows, now) /\ now \in Nat
        /\ t.row # Null => GoodRow(t.row)
        /\ \A s \in t.batch : s.id \in Ids /\ s.row \in Row /\ GoodRow(s.row)
    BY RetainingHolds
  <1>2. ASSUME NEW B, NEW more, NEW after
        PROVE  /\ Launching(B, more, after).pc = "launch" /\ Launching(B, more, after).batch = B
               /\ Launching(B, more, after).row = Null
    BY DEF Launching, Idle
  <1>3. \A R : HeldLapses(t, R, now) => HeldLapses(Processed(w), R, now)
    BY <1>2 DEF HeldLapses, Processed
  <1>4. \A s, R : HeldLapses(t, R, now) => HeldLapses(Past(w, s), R, now)
    BY <1>2 DEF HeldLapses, Past
  <1>5. LapsesKept(rows, rows', now) => HeldLapses(t, rows', now)
    BY <1>1, HeldLapsesKept
  <1>6. CASE LaunchStart(w)
    <2> DEFINE u == Launching({}, TRUE, 0)
    <2>1. u.pc = "launch" /\ u.batch = {} /\ u.row = Null
      BY DEF Launching, Idle
    <2> HIDE DEF u
    <2>2. HeldLapses(u, rows, now)
      BY <2>1 DEF HeldLapses
    <2>3. Continue(w, u) /\ now' = now /\ UNCHANGED rows
      BY <1>6 DEF LaunchStart, u
    <2> QED
      BY <2>2, <2>3, QuietLapse
  <1>7. CASE LaunchFetch(w)
    <2> DEFINE page == LaunchPage(BatchSize, task[w].after)
               u == Launching(SnapshotsOf(page), Cardinality(page) = BatchSize,
                              task[w].after)
    <2>1. /\ now' = now /\ UNCHANGED rows
          /\ Continue(w, Idle) \/ Continue(w, u)
      BY <1>7 DEF LaunchFetch, counters
    <2>2. page \subseteq Current
      BY DEF LaunchPage, LaunchEligible
    <2>3. HeldLapses(u, rows, now)
      <3> HIDE DEF page
      <3> QED
        BY <1>2, <2>2, SnapshotsLapse DEF HeldLapses, Current
    <2> HIDE DEF u
    <2> QED
      BY <2>1, <2>3, IdleLapses, QuietLapse
  <1>8. CASE LaunchDone(w)
    BY <1>8, IdleLapses, QuietLapse DEF LaunchDone, counters
  <1>9. CASE LaunchSkip(w)
    <2>1. PICK s \in task[w].batch : Continue(w, Past(w, s))
      BY <1>9 DEF LaunchSkip
    <2>2. now' = now /\ UNCHANGED rows
      BY <1>9 DEF LaunchSkip, counters
    <2> QED
      BY <1>1, <1>4, <2>1, <2>2, QuietLapse
  <1>10. CASE LaunchRotate(w)
    <2>1. PICK s \in task[w].batch :
             SaveThen(w, s.id, [s.row EXCEPT !.hash = LaunchToken(s.id)],
                      [Past(w, s) EXCEPT !.pc = "launch_load", !.id = s.id])
      BY <1>10, Zenon DEF LaunchRotate
    <2> DEFINE u == [Past(w, s) EXCEPT !.pc = "launch_load", !.id = s.id]
    <2>2. u.pc = "launch_load" /\ u.batch = task[w].batch \ {s} /\ u.row = Null
      BY DEF Past, Launching, Idle
    <2>3. LaunchToken(s.id) \in Token /\ now' = now
      BY <1>1, <1>10 DEF LaunchRotate, counters, LaunchToken, Token
    <2> HIDE DEF u
    <2>4. LapsesKept(rows, rows', now) => HeldLapses(u, rows', now)
      BY <1>5, <2>2 DEF HeldLapses
    <2>5. SaveThen(w, s.id, [s.row EXCEPT !.hash = LaunchToken(s.id)], u)
      BY <2>1 DEF u
    <2> HIDE DEF t
    <2> QED
      BY <2>3, <2>4, <2>5, RotatedLapses, SaveThenLapse
  <1>11. CASE LaunchLoad(w)
    <2> DEFINE pc == IF WindowExpired(rows[t.id]) THEN "launch_review" ELSE "launch_mark"
               u == [t EXCEPT !.pc = pc, !.row = rows[t.id]]
    <2>1. now' = now /\ UNCHANGED rows /\ t.id # Null /\ t.pc = "launch_load"
      BY <1>1, <1>11 DEF LaunchLoad, counters, At, Fits
    <2>2. CASE Present(t.id) /\ Continue(w, u)
      <3>1. /\ u.pc \in {"launch_review", "launch_mark"} /\ u.id = t.id
            /\ u.batch = t.batch /\ u.row = rows[t.id]
        BY <1>1 DEF Task
      <3> HIDE DEF u
      <3>2. HeldLapses(u, rows, now)
        BY <1>1, <2>1, <2>2, <3>1 DEF HeldLapses, SameLapse, Present
      <3> QED
        BY <2>1, <2>2, <3>2, QuietLapse
    <2>3. CASE Continue(w, Processed(w))
      BY <1>1, <1>3, <2>1, <2>3, QuietLapse
    <2> QED
      BY <1>11, <2>2, <2>3 DEF LaunchLoad
  <1>12. ASSUME NEW r, NEW u, SaveThen(w, t.id, r, u), t.id \in Ids, t.row # Null, r \in Row,
                Lapsed(r, now) <=> Lapsed(t.row, now),
                LapsesKept(rows, rows', now) => HeldLapses(u, rows', now), now' = now
         PROVE  LapseStep(w)
    <2>1. SameLapse(t.id, r, rows, now)
      BY <1>1, <1>12 DEF HeldLapses, SameLapse
    <2>2. r # Null
      BY <1>12, StoreAssumption
    <2> HIDE DEF t
    <2> QED
      BY <1>12, <2>1, <2>2, SaveThenLapse
  <1>13. CASE t.pc \in {"launch_review", "launch_mark", "launch_mail", "launch_save"}
    <2>1. t.id \in Ids /\ t.row # Null /\ t.row \in Row
      BY <1>1, <1>13 DEF Fits, Task, GoodRow
    <2>2. CASE LaunchReview(w)
      <3> DEFINE r == [t.row EXCEPT !.launchStatus = "manual_review"]
      <3>1. SaveThen(w, t.id, r, Processed(w)) /\ now' = now
        BY <2>2 DEF LaunchReview, counters
      <3>2. /\ r \in Row /\ r.anonymized = t.row.anonymized
            /\ r.unsubscribedAt = t.row.unsubscribedAt /\ r.launchSentAt = t.row.launchSentAt
        BY <2>1 DEF Row, LaunchStatus
      <3> HIDE DEF r
      <3>3. Lapsed(r, now) <=> Lapsed(t.row, now)
        BY <3>2, SameColumnsLapse
      <3> QED
        BY <1>3, <1>5, <1>12, <2>1, <3>1, <3>2, <3>3
    <2>3. CASE LaunchMark(w)
      <3> DEFINE r == [t.row EXCEPT !.launchStatus = "sending", !.launchLastAttemptAt = now]
                 u == [t EXCEPT !.pc = "launch_mail", !.row = r]
      <3>1. SaveThen(w, t.id, r, u) /\ now' = now
        BY <2>3 DEF LaunchMark, counters
      <3>2. /\ r \in Row /\ r.anonymized = t.row.anonymized
            /\ r.unsubscribedAt = t.row.unsubscribedAt /\ r.launchSentAt = t.row.launchSentAt
        BY <1>1, <2>1 DEF Row, LaunchStatus
      <3>3. u.pc = "launch_mail" /\ u.id = t.id /\ u.batch = t.batch /\ u.row = r
        BY <1>1 DEF Task
      <3> HIDE DEF r, u
      <3>4. Lapsed(r, now) <=> Lapsed(t.row, now)
        BY <3>2, SameColumnsLapse
      <3>5. LapsesKept(rows, rows', now) => HeldLapses(u, rows', now)
        BY <1>5, <2>1, <3>3, <3>4 DEF HeldLapses, SameLapse
      <3> QED
        BY <1>12, <2>1, <3>1, <3>2, <3>4, <3>5
    <2>4. CASE LaunchMail(w)
      <3>1. PICK outcome \in Outcomes :
               Continue(w, [t EXCEPT !.pc = "launch_save", !.outcome = outcome])
        BY <2>4, Zenon DEF LaunchMail
      <3>2. now' = now /\ UNCHANGED rows
        BY <2>4 DEF LaunchMail, counters
      <3> DEFINE u == [t EXCEPT !.pc = "launch_save", !.outcome = outcome]
      <3>3. u.pc = "launch_save" /\ u.id = t.id /\ u.batch = t.batch /\ u.row = t.row
        BY <1>1 DEF Task
      <3> HIDE DEF u
      <3>4. HeldLapses(u, rows, now)
        BY <1>1, <3>3 DEF HeldLapses
      <3> QED
        BY <3>1, <3>2, <3>4, QuietLapse DEF u
    <2>5. CASE LaunchSave(w)
      <3> DEFINE r == LaunchOutcome(t.row, t.outcome)
      <3>1. SaveThen(w, t.id, r, Processed(w)) /\ now' = now /\ t.pc = "launch_save"
        BY <2>5 DEF LaunchSave, counters, At
      <3>2. t.row.launchStatus = "sending" /\ Coherent(t.row) /\ t.outcome \in Outcomes
        BY <1>1, <2>1, <3>1 DEF Fits, GoodRow, Task
      <3>3. t.row.launchSentAt = Null
        BY <3>2 DEF Coherent, DeliveryCoherent
      <3>4. /\ r \in Row /\ r.anonymized = t.row.anonymized
            /\ r.unsubscribedAt = t.row.unsubscribedAt /\ r.launchSentAt \in {now, Null}
        BY <1>1, <2>1 DEF LaunchOutcome, Row, LaunchStatus
      <3> HIDE DEF r
      <3>5. Lapsed(r, now) <=> Lapsed(t.row, now)
        BY <1>1, <3>3, <3>4, NotYetDue DEF Lapsed, PurgeDueRow
      <3> QED
        BY <1>3, <1>5, <1>12, <2>1, <3>1, <3>4, <3>5
    <2> QED
      BY <1>6, <1>7, <1>8, <1>9, <1>10, <1>11, <2>2, <2>3, <2>4, <2>5 DEF Launch
  <1>14. CASE t.pc \notin {"launch_review", "launch_mark", "launch_mail", "launch_save"}
    <2>1. ~LaunchReview(w) /\ ~LaunchMark(w) /\ ~LaunchMail(w) /\ ~LaunchSave(w)
      BY <1>14 DEF LaunchReview, LaunchMark, LaunchMail, LaunchSave, At
    <2> QED
      BY <1>6, <1>7, <1>8, <1>9, <1>10, <1>11, <2>1 DEF Launch
  <1> QED
    BY <1>13, <1>14

\* No step writes a row whose retention is not that of the table.
LEMMA NextRetains ==
    ASSUME Jobs \subseteq {"unsubscribe", "maintenance", "launch"},
           Good, Retaining, [Next]_vars
    PROVE  Retaining' /\ (LapsesKept(rows, rows', now) \/ UNCHANGED rows)
  <1>1. CASE UNCHANGED vars
    BY <1>1 DEF vars, Retaining
  <1>2. ASSUME NEW w \in Worker, LapseStep(w)
        PROVE  Retaining' /\ LapsesKept(rows, rows', now)
    <2>1. PICK t : Continue(w, t) /\ HeldLapses(t, rows', now)
      BY <1>2 DEF LapseStep
    <2>2. task'[w] = t /\ \A v \in Worker : v # w => task'[v] = task[v]
      BY <2>1 DEF Continue, Good, TasksGood
    <2>3. ASSUME NEW v \in Worker, v # w PROVE HeldLapses(task[v], rows', now)
      BY <1>2, RetainingHolds, HeldLapsesKept DEF LapseStep
    <2>4. \A v \in Worker : HeldLapses(task'[v], rows', now')
      BY <1>2, <2>1, <2>2, <2>3 DEF LapseStep
    <2> QED
      BY <1>2, <2>4 DEF Retaining, LapseStep
  <1>3. ASSUME NEW w \in Worker, Abort(w) PROVE LapseStep(w)
    BY <1>3, IdleLapses, QuietLapse DEF Abort
  <1>4. ASSUME NEW w \in Worker, Join(w) PROVE FALSE
    <2>1. task[w].pc \notin {"create", "refind", "resubscribe"}
      BY DEF Retaining, HeldLapses
    <2> QED
      BY <1>4, <2>1
      DEF Join, JoinFind, JoinCreate, JoinConflict, JoinRefind, Resubscribe, Begin, At
  <1>5. CASE Tick
    <2>1. UNCHANGED <<rows, task>> /\ \A w \in Worker : task[w].pc = "idle"
      BY <1>5 DEF Tick, At
    <2>2. \A w \in Worker : HeldLapses(task[w], rows, now')
      BY <2>1 DEF Retaining, HeldLapses
    <2> QED
      BY <2>1, <2>2 DEF Retaining
  <1> QED
    BY <1>1, <1>2, <1>3, <1>4, <1>5, ConfirmLapses, UnsubscribeLapses, MaintainLapses,
       LaunchLapses
    DEF Next

\* However maintenance runs, cancellations and a launch run interleave, a row is only
\* anonymized once its thirty days are over, although each of them writes back the whole
\* of what it read some steps before.  (A renewal between the reading and the writing of
\* a purge breaks it: see the run RenewalDuringPurge.)
THEOREM PurgesWithoutRenewals ==
    ASSUME Jobs \subseteq {"unsubscribe", "maintenance", "launch"},
           \E f \in [Ids -> Emails] : \A i, j \in Ids : f[i] = f[j] => i = j
    PROVE  LaunchSpec => OnlyDueRowsPurged
  <1> DEFINE Inv == IInv /\ Retaining
             Due(id) == \E t \in {rows[id].unsubscribedAt, rows[id].launchSentAt} :
                           t # Null /\ now - t >= ThirtyDays
             OnlyDue == \A id \in Current : id \notin Current' => Due(id)
  <1>1. InitConfirmed => Inv
    BY ConfirmedGood, GoodIsIInv, IdleLapses DEF InitConfirmed, Retaining
  <1>2. Inv /\ [Next]_vars => Inv'
    <2>1. Good' <=> IInv'
      BY GoodIsIInv, PTL
    <2> QED
      BY <2>1, GoodIsIInv, NextGood, NextRetains
  <1>3. Inv /\ [Next]_vars => [OnlyDue]_vars
    <2> SUFFICES ASSUME Inv, [Next]_vars, NEW id \in Current, id \notin Current'
                 PROVE  Due(id)
      OBVIOUS
    <2>1. id \in Ids /\ rows[id] # Null /\ ~rows[id].anonymized /\ now \in Nat
          /\ rows[id] \in Row
      BY DEF Current, Present, IInv, TypeOK
    <2>2. LapsesKept(rows, rows', now)
      <3>1. rows' # rows
        BY DEF Current, Present
      <3> QED
        BY <3>1, GoodIsIInv, NextRetains
    <2>3. rows'[id] # Null /\ rows'[id].anonymized
      BY <2>1, <2>2 DEF LapsesKept, Current, Present
    <2>4. PurgeDueRow(rows[id], now)
      BY <2>1, <2>2, <2>3 DEF LapsesKept, Lapsed
    <2>5. PICK t \in {rows[id].unsubscribedAt, rows[id].launchSentAt} :
             t # Null /\ t <= now - ThirtyDays
      BY <2>4 DEF PurgeDueRow
    <2>6. t \in Nat
      BY <2>1, <2>5 DEF Row
    <2>7. now - t >= ThirtyDays
      BY <2>1, <2>5, <2>6, StoreAssumption
    <2> QED
      BY <2>5, <2>7
  <1>4. LaunchSpec => [][OnlyDue]_vars
    BY <1>1, <1>2, <1>3, PTL DEF LaunchSpec
  <1> QED
    BY <1>4 DEF OnlyDueRowsPurged

=============================================================================
