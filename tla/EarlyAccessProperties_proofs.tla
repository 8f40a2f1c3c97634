-------------------- MODULE EarlyAccessProperties_proofs --------------------
(***************************************************************************)
(* Theorems about EarlyAccessProperties that hold however any number of    *)
(* workers interleave.                                                     *)
(***************************************************************************)
EXTENDS EarlyAccessProperties, EarlyAccess_proofs, FiniteSetTheorems

-----------------------------------------------------------------------------
\* Links.  A link k is of row i where the row, a mail, or what a worker holds
\* pairs them: the row it loaded, the token it is to mail, a snapshot of its batch.
RowLink(i, k)  == Present(i) /\ rows[i].hash = k
MailLink(i, k) == \E m \in inbox : m.id = i /\ m.token = k
HeldLink(t, i, k) ==
    \/ t.id = i /\ t.token = k
    \/ t.id = i /\ t.row # Null /\ t.row.hash = k
    \/ \E s \in t.batch : s.id = i /\ s.row.hash = k
TaskLink(i, k) == \E w \in Worker : HeldLink(task[w], i, k)

LinkOf(i, k) == RowLink(i, k) \/ MailLink(i, k) \/ TaskLink(i, k)

\* No two rows share a link, no link is of a token not yet generated, and a launch
\* link is of the row it was derived from.
LinksOwned ==
    /\ \A k \in Token : \A i, j \in Ids : LinkOf(i, k) /\ LinkOf(j, k) => i = j
    /\ \A i \in Ids, n \in Nat : LinkOf(i, GeneratedToken(n)) => n < minted
    /\ \A i, x \in Ids : LinkOf(i, LaunchToken(x)) => i = x

\* Tokens are told apart by how they were made and from what.
LEMMA TokensApart ==
    /\ \A m, n \in Nat : GeneratedToken(m) = GeneratedToken(n) => m = n
    /\ \A x, y \in Ids : LaunchToken(x) = LaunchToken(y) => x = y
    /\ \A n \in Nat, x \in Ids : GeneratedToken(n) # LaunchToken(x)
    /\ \A n \in Nat : GeneratedToken(n) \in Token
    /\ \A x \in Ids : LaunchToken(x) \in Token
    /\ \A k \in Token : \/ \E n \in Nat : k = GeneratedToken(n)
                        \/ \E x \in Ids : k = LaunchToken(x)
  BY DEF GeneratedToken, LaunchToken, Token

\* The links a step may add: a row's own launch link, and for one row x the token
\* the step generated.
Admitted(x, i, k) ==
    \/ LinkOf(i, k)
    \/ k = LaunchToken(i)
    \/ i = x /\ k = NewToken /\ minted' = minted + 1

LinkStep ==
    /\ minted' \in {minted, minted + 1}
    /\ \E x : \A i \in Ids, k \in Token : LinkOf(i, k)' => Admitted(x, i, k)

\* A step that adds no other link keeps every link to one row.
LEMMA LinkStepOwned ==
    ASSUME minted \in Nat, LinksOwned, LinkStep
    PROVE  LinksOwned'
  <1>1. PICK x : \A i \in Ids, k \in Token : LinkOf(i, k)' => Admitted(x, i, k)
    BY DEF LinkStep
  <1>2. minted' \in Nat /\ minted <= minted'
    BY DEF LinkStep
  <1>3. ASSUME NEW i \in Ids, NEW n \in Nat, LinkOf(i, GeneratedToken(n))'
        PROVE  \/ LinkOf(i, GeneratedToken(n))
               \/ i = x /\ n = minted /\ minted' = minted + 1
    BY <1>1, <1>3, TokensApart DEF Admitted, NewToken
  <1>4. ASSUME NEW i \in Ids, NEW y \in Ids, LinkOf(i, LaunchToken(y))'
        PROVE  i = y
    <2>1. Admitted(x, i, LaunchToken(y))
      BY <1>1, <1>4, TokensApart
    <2>2. LinkOf(i, LaunchToken(y)) => i = y
      BY DEF LinksOwned
    <2> QED
      BY <2>1, <2>2, TokensApart DEF Admitted, NewToken
  <1>5. ASSUME NEW i \in Ids, NEW n \in Nat, LinkOf(i, GeneratedToken(n))'
        PROVE  n < minted'
    <2>1. CASE LinkOf(i, GeneratedToken(n))
      BY <2>1, <1>2 DEF LinksOwned
    <2>2. CASE n = minted /\ minted' = minted + 1
      BY <2>2
    <2> QED
      BY <2>1, <2>2, <1>3, <1>5
  <1>6. ASSUME NEW k \in Token, NEW i \in Ids, NEW j \in Ids,
               LinkOf(i, k)', LinkOf(j, k)'
        PROVE  i = j
    <2>1. CASE \E n \in Nat : k = GeneratedToken(n)
      <3>1. PICK n \in Nat : k = GeneratedToken(n)
        BY <2>1
      <3>2. LinkOf(i, k) => n < minted
        BY <3>1 DEF LinksOwned
      <3>3. LinkOf(j, k) => n < minted
        BY <3>1 DEF LinksOwned
      <3>4. LinkOf(i, k) /\ LinkOf(j, k) => i = j
        BY DEF LinksOwned
      <3> QED
        BY <3>1, <3>2, <3>3, <3>4, <1>3, <1>6
    <2>2. CASE \E y \in Ids : k = LaunchToken(y)
      BY <2>2, <1>4, <1>6
    <2> QED
      BY <2>1, <2>2, TokensApart
  <1> QED
    BY <1>4, <1>5, <1>6 DEF LinksOwned

-----------------------------------------------------------------------------
\* What each kind of access adds.

\* A write gives the row its new hash.
LEMMA WriteLink ==
    ASSUME Good, NEW id \in Ids, NEW r, rows' = [rows EXCEPT ![id] = r],
           NEW i \in Ids, NEW k, RowLink(i, k)'
    PROVE  RowLink(i, k) \/ (i = id /\ r.hash = k)
  BY DEF Good, RowsGood, RowLink, Present

\* A mail gives the row the token it carries.
LEMMA SendLink ==
    ASSUME NEW key, NEW token, NEW at, NEW outcome, Send(key, token, at, outcome),
           NEW i, NEW k, MailLink(i, k)'
    PROVE  MailLink(i, k) \/ (i = key.id /\ k = token)
  BY DEF Send, Deliver, mailVars, MailLink

\* A worker that goes on has the links of its new local state.
LEMMA ContinueLink ==
    ASSUME Good, NEW w \in Worker, NEW t, Continue(w, t), NEW i, NEW k, TaskLink(i, k)'
    PROVE  TaskLink(i, k) \/ HeldLink(t, i, k)
  BY DEF Good, TasksGood, Continue, TaskLink

\* A worker that returned holds no link.
LEMMA IdleLink ==
    ASSUME NEW i \in Ids, NEW k
    PROVE  ~HeldLink(Idle, i, k)
  BY StoreAssumption DEF Idle, HeldLink

\* A step that only moves a worker on, with links already there.
LEMMA QuietLinkStep ==
    ASSUME Good, NEW w \in Worker, NEW t, Continue(w, t),
           UNCHANGED <<rows, inbox, minted>>,
           \A i \in Ids, k \in Token : HeldLink(t, i, k) => LinkOf(i, k)
    PROVE  LinkStep
  <1>1. ASSUME NEW i \in Ids, NEW k \in Token, LinkOf(i, k)' PROVE LinkOf(i, k)
    <2>1. RowLink(i, k)' => RowLink(i, k)
      BY DEF RowLink, Present
    <2>2. MailLink(i, k)' => MailLink(i, k)
      BY DEF MailLink
    <2>3. TaskLink(i, k)' => LinkOf(i, k)
      BY ContinueLink DEF LinkOf
    <2> QED
      BY <1>1, <2>1, <2>2, <2>3 DEF LinkOf
  <1> QED
    BY <1>1 DEF LinkStep, Admitted

\* So is a step that returns from the invocation.
LEMMA IdleLinkStep ==
    ASSUME Good, NEW w \in Worker, Continue(w, Idle), UNCHANGED <<rows, inbox, minted>>
    PROVE  LinkStep
  BY IdleLink, QuietLinkStep

\* A write whose row and whose worker have admitted links.
LEMMA WriteLinkStep ==
    ASSUME Good, NEW w \in Worker, NEW id \in Ids, NEW r, NEW t, NEW x,
           rows' = [rows EXCEPT ![id] = r], Continue(w, t),
           UNCHANGED inbox, minted' \in {minted, minted + 1},
           \A k \in Token : r.hash = k => Admitted(x, id, k),
           \A i \in Ids, k \in Token : HeldLink(t, i, k) => Admitted(x, i, k)
    PROVE  LinkStep
  <1>1. ASSUME NEW i \in Ids, NEW k \in Token, LinkOf(i, k)' PROVE Admitted(x, i, k)
    <2>1. RowLink(i, k)' => Admitted(x, i, k)
      BY WriteLink DEF LinkOf, Admitted
    <2>2. MailLink(i, k)' => Admitted(x, i, k)
      BY DEF MailLink, LinkOf, Admitted
    <2>3. TaskLink(i, k)' => Admitted(x, i, k)
      BY ContinueLink DEF LinkOf, Admitted
    <2> QED
      BY <1>1, <2>1, <2>2, <2>3 DEF LinkOf
  <1> QED
    BY <1>1 DEF LinkStep

\* A save that may be refused by the index.
LEMMA SaveThenLinkStep ==
    ASSUME Good, NEW w \in Worker, NEW id \in Ids, NEW r, NEW t, NEW x,
           SaveThen(w, id, r, t), UNCHANGED inbox, minted' \in {minted, minted + 1},
           \A k \in Token : r.hash = k => Admitted(x, id, k),
           \A i \in Ids, k \in Token : HeldLink(t, i, k) => Admitted(x, i, k)
    PROVE  LinkStep
  <1>1. CASE Save(id, r) /\ Continue(w, t)
    BY <1>1, WriteLinkStep DEF Save
  <1>2. CASE UNCHANGED rows /\ Continue(w, Idle)
    <2>1. ASSUME NEW i \in Ids, NEW k \in Token, LinkOf(i, k)' PROVE LinkOf(i, k)
      <3>1. RowLink(i, k)' => RowLink(i, k)
        BY <1>2 DEF RowLink, Present
      <3>2. MailLink(i, k)' => MailLink(i, k)
        BY DEF MailLink
      <3>3. TaskLink(i, k)' => TaskLink(i, k)
        BY <1>2, ContinueLink, IdleLink
      <3> QED
        BY <2>1, <3>1, <3>2, <3>3 DEF LinkOf
    <2> QED
      BY <2>1 DEF LinkStep, Admitted
  <1> QED
    BY <1>1, <1>2 DEF SaveThen

\* A mail of a link its row already has, or of the row's launch link.
LEMMA SendLinkStep ==
    ASSUME Good, NEW w \in Worker, NEW t, NEW key, NEW token, NEW at, NEW outcome,
           Send(key, token, at, outcome), Continue(w, t), UNCHANGED <<rows, minted>>,
           \A i \in Ids, k \in Token : i = key.id /\ k = token
               => LinkOf(i, k) \/ k = LaunchToken(i),
           \A i \in Ids, k \in Token : HeldLink(t, i, k) => LinkOf(i, k)
    PROVE  LinkStep
  <1>1. ASSUME NEW i \in Ids, NEW k \in Token, LinkOf(i, k)'
        PROVE  LinkOf(i, k) \/ k = LaunchToken(i)
    <2>1. RowLink(i, k)' => RowLink(i, k)
      BY DEF RowLink, Present
    <2>2. MailLink(i, k)' => LinkOf(i, k) \/ k = LaunchToken(i)
      BY SendLink DEF LinkOf
    <2>3. TaskLink(i, k)' => LinkOf(i, k)
      BY ContinueLink DEF LinkOf
    <2> QED
      BY <1>1, <2>1, <2>2, <2>3 DEF LinkOf
  <1> QED
    BY <1>1 DEF LinkStep, Admitted

-----------------------------------------------------------------------------
\* Every action is such a step.

\* The confirmation use case mails the token it was given, and saves the row it loaded.
LEMMA ConfirmLinks ==
    ASSUME Good, NEW w \in Worker, Confirm(w)
    PROVE  LinkStep
  <1>1. GoodTask(task[w])
    BY DEF Good, TasksGood
  <1>2. ASSUME NEW i \in Ids, NEW k \in Token
        PROVE  /\ HeldLink(task[w], i, k) => LinkOf(i, k)
               /\ HeldLink(AfterConfirmation(w), i, k) => LinkOf(i, k)
    <2>1. HeldLink(task[w], i, k) => LinkOf(i, k)
      BY DEF LinkOf, TaskLink
    <2>2. HeldLink(AfterConfirmation(w), i, k) => HeldLink(task[w], i, k)
      BY StoreAssumption DEF AfterConfirmation, Idle, HeldLink
    <2> QED
      BY <2>1, <2>2
  <1>3. CASE ConfirmLoad(w)
    <2> DEFINE loaded == [task[w] EXCEPT !.pc = "confirm_mail", !.row = rows[task[w].id]]
    <2>1. task[w].id \in Ids /\ task[w] \in Task
      BY <1>1, <1>3 DEF GoodTask, Fits, Task, ConfirmLoad, At
    <2>2. CASE Present(task[w].id) /\ Continue(w, loaded)
      <3>1. ASSUME NEW i \in Ids, NEW k \in Token, HeldLink(loaded, i, k)
            PROVE  LinkOf(i, k)
        <4>1. HeldLink(task[w], i, k) \/ (i = task[w].id /\ rows[i].hash = k)
          BY <2>1, <3>1 DEF HeldLink, Task
        <4> QED
          BY <4>1, <1>2, <2>2 DEF LinkOf, RowLink
      <3> HIDE DEF loaded
      <3> QED
        BY <1>3, <2>2, <3>1, QuietLinkStep DEF ConfirmLoad, mailVars
    <2>3. CASE Continue(w, AfterConfirmation(w))
      BY <1>2, <1>3, <2>3, QuietLinkStep DEF ConfirmLoad, mailVars
    <2> QED
      BY <1>3, <2>2, <2>3 DEF ConfirmLoad
  <1>4. CASE ConfirmMail(w)
    <2> DEFINE key == ConfirmationKey(task[w].id, task[w].row.confirmationAttemptCount + 1)
    <2>1. PICK outcome \in Outcomes :
             /\ Send(key, task[w].token, now, outcome)
             /\ Continue(w, [task[w] EXCEPT !.pc = "confirm_save", !.outcome = outcome])
      BY <1>4 DEF ConfirmMail
    <2> DEFINE sent == [task[w] EXCEPT !.pc = "confirm_save", !.outcome = outcome]
    <2>2. ASSUME NEW i \in Ids, NEW k \in Token, HeldLink(sent, i, k)
          PROVE  LinkOf(i, k)
      <3>1. HeldLink(task[w], i, k)
        BY <1>1, <2>2 DEF HeldLink, GoodTask, Task
      <3> QED
        BY <3>1, <1>2
    <2>3. ASSUME NEW i \in Ids, NEW k \in Token, i = key.id, k = task[w].token
          PROVE  LinkOf(i, k)
      <3>1. HeldLink(task[w], i, k)
        BY <2>3 DEF HeldLink, ConfirmationKey
      <3> QED
        BY <3>1, <1>2
    <2>4. Continue(w, sent)
      BY <2>1
    <2> HIDE DEF key, sent
    <2> QED
      BY <1>4, <2>1, <2>2, <2>3, <2>4, SendLinkStep DEF ConfirmMail
  <1>5. CASE ConfirmSave(w)
    <2> DEFINE r == ApplyOutcome(task[w].row, task[w].outcome, now)
    <2>1. /\ task[w].id \in Ids
          /\ task[w].row \in Row
          /\ task[w].row # Null
      BY <1>1, <1>5, StoreAssumption DEF GoodTask, Fits, Task, ConfirmSave, At
    <2>2. r.hash = task[w].row.hash
      BY <2>1 DEF ApplyOutcome, Row
    <2>3. ASSUME NEW k \in Token, r.hash = k PROVE LinkOf(task[w].id, k)
      <3>1. HeldLink(task[w], task[w].id, k)
        BY <2>1, <2>2, <2>3 DEF HeldLink
      <3> QED
        BY <3>1, <1>2, <2>1
    <2> HIDE DEF r
    <2>4. SaveThen(w, task[w].id, r, AfterConfirmation(w))
      BY <1>5 DEF ConfirmSave, r
    <2> QED
      BY <1>2, <1>5, <2>1, <2>3, <2>4, SaveThenLinkStep
      DEF ConfirmSave, mailVars, Admitted
  <1> QED
    BY <1>3, <1>4, <1>5 DEF Confirm

\* Links a worker holds are links of their rows.
LEMMA HeldIsLink ==
    ASSUME NEW w \in Worker, NEW i, NEW k, HeldLink(task[w], i, k)
    PROVE  LinkOf(i, k)
  BY DEF LinkOf, TaskLink

\* A row found by its address is held with the link it has.
LEMMA ResolveExistingLink ==
    ASSUME Good, NEW w \in Worker, NEW e, NEW id \in Current, ResolveExisting(w, e, id),
           UNCHANGED <<rows, mailVars, minted>>
    PROVE  LinkStep
  <1> DEFINE found == [Joining(e) EXCEPT !.pc = "resubscribe", !.id = id, !.row = rows[id]]
  <1>1. CASE Continue(w, found)
    <2>1. ASSUME NEW i \in Ids, NEW k \in Token, HeldLink(found, i, k)
          PROVE  LinkOf(i, k)
      <3>1. i = id /\ rows[id].hash = k
        BY <2>1, StoreAssumption DEF HeldLink, Joining, Idle
      <3> QED
        BY <3>1 DEF LinkOf, RowLink, Current
    <2> HIDE DEF found
    <2> QED
      BY <1>1, <2>1, QuietLinkStep DEF mailVars
  <1>2. CASE Continue(w, Idle)
    BY <1>2, IdleLinkStep DEF mailVars
  <1> QED
    BY <1>1, <1>2 DEF ResolveExisting

\* A row a join writes gets the token it generated, and no other link.
LEMMA ConfirmingLink ==
    ASSUME NEW w, NEW id, NEW i \in Ids, NEW k \in Token,
           HeldLink(Confirming(w, id, NewToken), i, k)
    PROVE  i = id /\ k = NewToken
  BY StoreAssumption DEF HeldLink, Confirming, Joining, Idle

\* A signup adds at most the token it generated, to one row.
LEMMA JoinLinks ==
    ASSUME Good, NEW w \in Worker, Join(w)
    PROVE  LinkStep
  <1>1. GoodTask(task[w])
    BY DEF Good, TasksGood
  <1>2. ASSUME NEW e \in Emails, JoinFind(w, e) PROVE LinkStep
    <2> DEFINE t == [Joining(e) EXCEPT !.pc = "create"]
    <2>1. CASE Continue(w, t)
      <3>1. ASSUME NEW i \in Ids, NEW k \in Token PROVE ~HeldLink(t, i, k)
        BY StoreAssumption DEF HeldLink, Joining, Idle
      <3> HIDE DEF t
      <3> QED
        BY <1>2, <2>1, <3>1, QuietLinkStep DEF JoinFind, mailVars
    <2>2. CASE \E id \in FindCurrentByNormalizedEmail(e) : ResolveExisting(w, e, id)
      BY <1>2, <2>2, ResolveExistingLink DEF JoinFind, FindCurrentByNormalizedEmail
    <2> QED
      BY <1>2, <2>1, <2>2 DEF JoinFind
  <1>3. CASE JoinCreate(w)
    <2>1. PICK id \in Ids : /\ Create(id, task[w].email, NewToken)
                            /\ Continue(w, Confirming(w, id, NewToken))
      BY <1>3 DEF JoinCreate
    <2> DEFINE r == FreshRow(task[w].email, NewToken)
               t == Confirming(w, id, NewToken)
    <2>2. r.hash = NewToken
      BY DEF FreshRow
    <2>3. minted' = minted + 1 /\ UNCHANGED inbox
      BY <1>3 DEF JoinCreate, Mint, mailVars
    <2>4. \A k \in Token : r.hash = k => Admitted(id, id, k)
      BY <2>2, <2>3 DEF Admitted
    <2>5. \A i \in Ids, k \in Token : HeldLink(t, i, k) => Admitted(id, i, k)
      BY <2>3, ConfirmingLink DEF Admitted
    <2>6. rows' = [rows EXCEPT ![id] = r] /\ Continue(w, t)
      BY <2>1 DEF Create
    <2> HIDE DEF r, t
    <2> QED
      BY <2>3, <2>4, <2>5, <2>6, WriteLinkStep
  <1>4. CASE JoinConflict(w)
    <2> DEFINE t == [task[w] EXCEPT !.pc = "refind"]
    <2>1. ASSUME NEW i \in Ids, NEW k \in Token, HeldLink(t, i, k) PROVE LinkOf(i, k)
      <3>1. HeldLink(task[w], i, k)
        BY <1>1, <2>1 DEF HeldLink, GoodTask, Task
      <3> QED
        BY <3>1, HeldIsLink
    <2> HIDE DEF t
    <2>2. Continue(w, t)
      BY <1>4 DEF JoinConflict, t
    <2> QED
      BY <1>4, <2>1, <2>2, QuietLinkStep DEF JoinConflict, mailVars
  <1>5. CASE JoinRefind(w)
    <2>1. CASE Continue(w, Idle)
      BY <1>5, <2>1, IdleLinkStep DEF JoinRefind, mailVars
    <2>2. CASE \E id \in FindCurrentByNormalizedEmail(task[w].email) :
                  ResolveExisting(w, task[w].email, id)
      BY <1>5, <2>2, ResolveExistingLink DEF JoinRefind, FindCurrentByNormalizedEmail
    <2> QED
      BY <1>5, <2>1, <2>2 DEF JoinRefind
  <1>6. CASE Resubscribe(w)
    <2> DEFINE r == Resubscribed(task[w].row, task[w].email, NewToken)
               t == Confirming(w, task[w].id, NewToken)
               id == task[w].id
    <2>1. /\ task[w].id \in Ids
          /\ task[w].row \in Row
      BY <1>1, <1>6, StoreAssumption DEF GoodTask, Fits, Task, Resubscribe, At
    <2>2. r.hash = NewToken
      BY <2>1 DEF Resubscribed, Row
    <2>3. minted' = minted + 1 /\ UNCHANGED inbox
      BY <1>6 DEF Resubscribe, Mint, mailVars
    <2>4. \A k \in Token : r.hash = k => Admitted(id, id, k)
      BY <2>2, <2>3 DEF Admitted
    <2>5. \A i \in Ids, k \in Token : HeldLink(t, i, k) => Admitted(id, i, k)
      BY <2>3, ConfirmingLink DEF Admitted
    <2>6. SaveThen(w, id, r, t)
      BY <1>6 DEF Resubscribe
    <2> HIDE DEF r, t, id
    <2>7. id \in Ids
      BY <2>1 DEF id
    <2> QED
      BY <2>3, <2>4, <2>5, <2>6, <2>7, SaveThenLinkStep
  <1> QED
    BY <1>2, <1>3, <1>4, <1>5, <1>6 DEF Join

\* Unsubscribing finds a row and saves it with the link it had.
LEMMA UnsubscribeLinks ==
    ASSUME Good, NEW w \in Worker, Unsubscribe(w)
    PROVE  LinkStep
  <1>1. GoodTask(task[w])
    BY DEF Good, TasksGood
  <1>2. ASSUME NEW token, UnsubscribeFind(w, token) PROVE LinkStep
    <2>1. PICK id \in FindByManageTokenHash(token) :
             Continue(w, [Idle EXCEPT !.pc = "unsubscribe", !.job = "unsubscribe",
                                      !.id = id, !.row = rows[id]])
      BY <1>2 DEF UnsubscribeFind
    <2> DEFINE t == [Idle EXCEPT !.pc = "unsubscribe", !.job = "unsubscribe",
                                 !.id = id, !.row = rows[id]]
    <2>2. ASSUME NEW i \in Ids, NEW k \in Token, HeldLink(t, i, k) PROVE LinkOf(i, k)
      <3>1. i = id /\ rows[id].hash = k
        BY <2>2, StoreAssumption DEF HeldLink, Idle
      <3> QED
        BY <3>1 DEF LinkOf, RowLink, FindByManageTokenHash
    <2>3. Continue(w, t)
      BY <2>1
    <2> HIDE DEF t
    <2> QED
      BY <1>2, <2>2, <2>3, QuietLinkStep DEF UnsubscribeFind, mailVars
  <1>3. CASE UnsubscribeSave(w)
    <2> DEFINE r == [task[w].row EXCEPT !.unsubscribedAt = now]
    <2>1. /\ task[w].id \in Ids
          /\ task[w].row \in Row
          /\ task[w].row # Null
      BY <1>1, <1>3, StoreAssumption DEF GoodTask, Fits, Task, UnsubscribeSave, At
    <2>2. r.hash = task[w].row.hash
      BY <2>1 DEF Row
    <2>3. ASSUME NEW k \in Token, r.hash = k PROVE LinkOf(task[w].id, k)
      <3>1. HeldLink(task[w], task[w].id, k)
        BY <2>1, <2>2, <2>3 DEF HeldLink
      <3> QED
        BY <3>1, HeldIsLink
    <2> HIDE DEF r
    <2>4. SaveThen(w, task[w].id, r, Idle)
      BY <1>3 DEF UnsubscribeSave, r
    <2> QED
      BY <1>3, <2>1, <2>3, <2>4, IdleLink, SaveThenLinkStep
      DEF UnsubscribeSave, mailVars, Admitted
  <1> QED
    BY <1>2, <1>3 DEF Unsubscribe

\* A batch read from the table is held with the links its rows have.
LEMMA SnapshotsLink ==
    ASSUME NEW S \in SUBSET Ids, \A id \in S : Present(id), NEW i, NEW k,
           \E s \in SnapshotsOf(S) : s.id = i /\ s.row.hash = k
    PROVE  LinkOf(i, k)
  BY DEF SnapshotsOf, LinkOf, RowLink

\* A maintenance run adds at most the token it generated, to the row it retries.
LEMMA MaintainLinks ==
    ASSUME Good, NEW w \in Worker, Maintain(w)
    PROVE  LinkStep
  <1>1. GoodTask(task[w])
    BY DEF Good, TasksGood
  <1>2. ASSUME NEW pc, NEW batch, NEW i \in Ids, NEW k \in Token,
               HeldLink(Maintaining(pc, batch), i, k)
        PROVE  \E s \in batch : s.id = i /\ s.row.hash = k
    BY <1>2, StoreAssumption DEF Maintaining, HeldLink, Idle
  <1>3. ASSUME NEW S \in SUBSET Current, NEW B \in Limited(S, BatchSize), NEW pc,
               NEW i \in Ids, NEW k \in Token,
               HeldLink(Maintaining(pc, SnapshotsOf(B)), i, k)
        PROVE  LinkOf(i, k)
    <2>1. B \in SUBSET Ids /\ \A id \in B : Present(id)
      BY <1>3, LimitedSubset DEF Current
    <2> QED
      BY <1>2, <1>3, <2>1, SnapshotsLink
  <1>4. CASE RetryFind(w)
    <2>1. PICK B \in Limited(ConfirmationsDue(now), BatchSize) :
             Continue(w, Maintaining("retry", SnapshotsOf(B)))
      BY <1>4 DEF RetryFind
    <2>2. ConfirmationsDue(now) \in SUBSET Current
      BY DEF ConfirmationsDue
    <2> QED
      BY <1>3, <1>4, <2>1, <2>2, QuietLinkStep DEF RetryFind, mailVars
  <1>5. CASE RetryRotate(w)
    <2>1. PICK s \in task[w].batch :
             SaveThen(w, s.id, [s.row EXCEPT !.hash = NewToken],
                      [Maintaining("confirm_load", task[w].batch \ {s})
                         EXCEPT !.id = s.id, !.token = NewToken])
      BY <1>5 DEF RetryRotate
    <2> DEFINE r == [s.row EXCEPT !.hash = NewToken]
               t == [Maintaining("confirm_load", task[w].batch \ {s})
                         EXCEPT !.id = s.id, !.token = NewToken]
    <2>2. s.id \in Ids /\ s.row \in Row
      BY <1>1 DEF GoodTask, Task, Snapshot
    <2>3. minted' = minted + 1 /\ UNCHANGED inbox
      BY <1>5 DEF RetryRotate, Mint, mailVars
    <2>4. \A k \in Token : r.hash = k => Admitted(s.id, s.id, k)
      BY <2>2, <2>3 DEF Admitted, Row
    <2>5. ASSUME NEW i \in Ids, NEW k \in Token, HeldLink(t, i, k)
          PROVE  Admitted(s.id, i, k)
      <3>1. \/ i = s.id /\ k = NewToken
            \/ \E o \in task[w].batch : o.id = i /\ o.row.hash = k
        BY <2>5, StoreAssumption DEF HeldLink, Maintaining, Idle
      <3>2. CASE \E o \in task[w].batch : o.id = i /\ o.row.hash = k
        <4>1. HeldLink(task[w], i, k)
          BY <3>2 DEF HeldLink
        <4> QED
          BY <4>1, HeldIsLink DEF Admitted
      <3> QED
        BY <2>3, <3>1, <3>2 DEF Admitted
    <2>6. SaveThen(w, s.id, r, t)
      BY <2>1
    <2> HIDE DEF r, t
    <2> QED
      BY <2>2, <2>3, <2>4, <2>5, <2>6, SaveThenLinkStep
  <1>6. CASE PurgeFind(w)
    <2>1. PICK B \in Limited(PiiPurgeDue(now), BatchSize) :
             Continue(w, Maintaining("purge", SnapshotsOf(B)))
      BY <1>6 DEF PurgeFind
    <2>2. PiiPurgeDue(now) \in SUBSET Current
      BY DEF PiiPurgeDue, PurgeDueRow, Current
    <2> QED
      BY <1>3, <1>6, <2>1, <2>2, QuietLinkStep DEF PurgeFind, mailVars
  <1>7. CASE PurgeSave(w)
    <2>1. PICK s \in task[w].batch :
             /\ Save(s.id, Anonymized(s.row))
             /\ Continue(w, Maintaining("purge", task[w].batch \ {s}))
      BY <1>7 DEF PurgeSave
    <2> DEFINE r == Anonymized(s.row)
               t == Maintaining("purge", task[w].batch \ {s})
    <2>2. s.id \in Ids /\ s.row \in Row
      BY <1>1 DEF GoodTask, Task, Snapshot
    <2>3. \A k \in Token : r.hash # k
      BY <2>2, StoreAssumption DEF Anonymized, Row
    <2>4. ASSUME NEW i \in Ids, NEW k \in Token, HeldLink(t, i, k) PROVE LinkOf(i, k)
      <3>1. HeldLink(task[w], i, k)
        BY <1>2, <2>4 DEF HeldLink
      <3> QED
        BY <3>1, HeldIsLink
    <2>5. rows' = [rows EXCEPT ![s.id] = r] /\ Continue(w, t)
      BY <2>1 DEF Save
    <2> HIDE DEF r, t
    <2>6. \A k \in Token : r.hash = k => Admitted(s.id, s.id, k)
      BY <2>3
    <2>7. \A i \in Ids, k \in Token : HeldLink(t, i, k) => Admitted(s.id, i, k)
      BY <2>4 DEF Admitted
    <2>8. UNCHANGED <<inbox, minted>>
      BY <1>7 DEF PurgeSave, mailVars
    <2> QED
      BY <2>2, <2>5, <2>6, <2>7, <2>8, WriteLinkStep
  <1>8. CASE MaintenanceDone(w)
    BY <1>8, IdleLinkStep DEF MaintenanceDone, mailVars
  <1> QED
    BY <1>4, <1>5, <1>6, <1>7, <1>8 DEF Maintain

\* The launch run holds the links of its page, and adds launch links only.
LEMMA LaunchLinks ==
    ASSUME Good, NEW w \in Worker, Launch(w)
    PROVE  LinkStep
  <1>1. GoodTask(task[w])
    BY DEF Good, TasksGood
  <1>2. ASSUME NEW batch, NEW more, NEW after, NEW i \in Ids, NEW k \in Token,
               HeldLink(Launching(batch, more, after), i, k)
        PROVE  \E s \in batch : s.id = i /\ s.row.hash = k
    BY <1>2, StoreAssumption DEF Launching, HeldLink, Idle
  <1>3. ASSUME NEW i \in Ids, NEW k \in Token, HeldLink(Processed(w), i, k)
        PROVE  LinkOf(i, k)
    <2>1. HeldLink(task[w], i, k)
      BY <1>2, <1>3 DEF Processed, HeldLink
    <2> QED
      BY <2>1, HeldIsLink
  <1>4. ASSUME NEW s, NEW i \in Ids, NEW k \in Token, HeldLink(Past(w, s), i, k)
        PROVE  LinkOf(i, k)
    <2>1. HeldLink(task[w], i, k)
      BY <1>2, <1>4 DEF Past, HeldLink
    <2> QED
      BY <2>1, HeldIsLink
  <1>5. CASE LaunchStart(w)
    <2>1. ASSUME NEW i \in Ids, NEW k \in Token PROVE ~HeldLink(Launching({}, TRUE, 0), i, k)
      BY StoreAssumption DEF Launching, HeldLink, Idle
    <2> QED
      BY <1>5, <2>1, QuietLinkStep DEF LaunchStart, mailVars
  <1>6. CASE LaunchFetch(w)
    <2> DEFINE page == LaunchPage(BatchSize, task[w].after)
               t == Launching(SnapshotsOf(page), Cardinality(page) = BatchSize,
                              task[w].after)
    <2>1. CASE Continue(w, t)
      <3>1. page \in SUBSET Ids /\ \A id \in page : Present(id)
        BY DEF LaunchPage, LaunchEligible, Current
      <3>2. ASSUME NEW i \in Ids, NEW k \in Token, HeldLink(t, i, k) PROVE LinkOf(i, k)
        <4> HIDE DEF page
        <4>1. \E s \in SnapshotsOf(page) : s.id = i /\ s.row.hash = k
          BY <1>2, <3>2
        <4> QED
          BY <3>1, <4>1, SnapshotsLink
      <3> HIDE DEF t
      <3> QED
        BY <1>6, <2>1, <3>2, QuietLinkStep DEF LaunchFetch, mailVars
    <2>2. CASE Continue(w, Idle)
      BY <1>6, <2>2, IdleLinkStep DEF LaunchFetch, mailVars
    <2> QED
      BY <1>6, <2>1, <2>2 DEF LaunchFetch
  <1>7. CASE LaunchDone(w)
    BY <1>7, IdleLinkStep DEF LaunchDone, mailVars
  <1>8. CASE LaunchSkip(w)
    BY <1>4, <1>8, QuietLinkStep DEF LaunchSkip, mailVars
  <1>9. CASE LaunchRotate(w)
    <2>1. PICK s \in task[w].batch :
             SaveThen(w, s.id, [s.row EXCEPT !.hash = LaunchToken(s.id)],
                      [Past(w, s) EXCEPT !.pc = "launch_load", !.id = s.id])
      BY <1>9 DEF LaunchRotate
    <2> DEFINE r == [s.row EXCEPT !.hash = LaunchToken(s.id)]
               t == [Past(w, s) EXCEPT !.pc = "launch_load", !.id = s.id]
    <2>2. s.id \in Ids /\ s.row \in Row
      BY <1>1 DEF GoodTask, Task, Snapshot
    <2>3. \A k \in Token : r.hash = k => k = LaunchToken(s.id)
      BY <2>2 DEF Row
    <2>4. ASSUME NEW i \in Ids, NEW k \in Token, HeldLink(t, i, k) PROVE LinkOf(i, k)
      <3>1. HeldLink(Past(w, s), i, k)
        BY <2>4, StoreAssumption DEF HeldLink, Past, Launching, Idle
      <3> QED
        BY <3>1, <1>4
    <2>5. SaveThen(w, s.id, r, t)
      BY <2>1
    <2> HIDE DEF r, t
    <2> QED
      BY <1>9, <2>2, <2>3, <2>4, <2>5, SaveThenLinkStep
      DEF LaunchRotate, mailVars, Admitted
  <1>10. CASE LaunchLoad(w)
    <2> DEFINE id == task[w].id
               t == [task[w] EXCEPT !.pc = IF WindowExpired(rows[id]) THEN "launch_review"
                                           ELSE "launch_mark",
                                    !.row = rows[id]]
    <2>1. CASE Present(id) /\ Continue(w, t)
      <3>1. ASSUME NEW i \in Ids, NEW k \in Token, HeldLink(t, i, k) PROVE LinkOf(i, k)
        <4>1. HeldLink(task[w], i, k) \/ (i = id /\ rows[i].hash = k)
          BY <1>1, <3>1 DEF HeldLink, GoodTask, Task
        <4> QED
          BY <4>1, <2>1, HeldIsLink DEF LinkOf, RowLink
      <3> HIDE DEF t
      <3> QED
        BY <1>10, <2>1, <3>1, QuietLinkStep DEF LaunchLoad, mailVars
    <2>2. CASE Continue(w, Processed(w))
      BY <1>3, <1>10, <2>2, QuietLinkStep DEF LaunchLoad, mailVars
    <2> QED
      BY <1>10, <2>1, <2>2 DEF LaunchLoad
  <1>11. ASSUME NEW r, r.hash = task[w].row.hash, NEW t, SaveThen(w, task[w].id, r, t),
                task[w].id \in Ids, task[w].row # Null, UNCHANGED <<inbox, minted>>,
                \A i \in Ids, k \in Token : HeldLink(t, i, k) => LinkOf(i, k)
         PROVE  LinkStep
    <2>1. ASSUME NEW k \in Token, r.hash = k PROVE LinkOf(task[w].id, k)
      <3>1. HeldLink(task[w], task[w].id, k)
        BY <1>11, <2>1 DEF HeldLink
      <3> QED
        BY <3>1, HeldIsLink
    <2> QED
      BY <1>11, <2>1, SaveThenLinkStep DEF Admitted
  <1>12. LaunchReview(w) \/ LaunchMark(w) \/ LaunchSave(w) \/ LaunchMail(w)
         => task[w].id \in Ids /\ task[w].row \in Row /\ task[w].row # Null
    BY <1>1, StoreAssumption
    DEF GoodTask, Fits, Task, LaunchReview, LaunchMark, LaunchSave, LaunchMail, At
  <1>13. CASE LaunchReview(w)
    <2> DEFINE r == [task[w].row EXCEPT !.launchStatus = "manual_review"]
    <2>1. r.hash = task[w].row.hash
      BY <1>12, <1>13 DEF Row
    <2>2. SaveThen(w, task[w].id, r, Processed(w))
      BY <1>13 DEF LaunchReview
    <2> HIDE DEF r
    <2> QED
      BY <1>3, <1>11, <1>12, <1>13, <2>1, <2>2 DEF LaunchReview, mailVars
  <1>14. CASE LaunchMark(w)
    <2> DEFINE r == [task[w].row EXCEPT !.launchStatus = "sending",
                                        !.launchLastAttemptAt = now]
               t == [task[w] EXCEPT !.pc = "launch_mail", !.row = r]
    <2>1. r.hash = task[w].row.hash
      BY <1>12, <1>14 DEF Row
    <2>2. SaveThen(w, task[w].id, r, t)
      BY <1>14 DEF LaunchMark
    <2> HIDE DEF r
    <2>3. ASSUME NEW i \in Ids, NEW k \in Token, HeldLink(t, i, k) PROVE LinkOf(i, k)
      <3>1. HeldLink(task[w], i, k)
        BY <1>1, <1>12, <1>14, <2>1, <2>3 DEF HeldLink, GoodTask, Task
      <3> QED
        BY <3>1, HeldIsLink
    <2> HIDE DEF t
    <2> QED
      BY <1>11, <1>12, <1>14, <2>1, <2>2, <2>3 DEF LaunchMark, mailVars
  <1>15. CASE LaunchMail(w)
    <2>1. PICK outcome \in Outcomes :
             /\ Send(LaunchKey(task[w].id), LaunchToken(task[w].id), now, outcome)
             /\ Continue(w, [task[w] EXCEPT !.pc = "launch_save", !.outcome = outcome])
      BY <1>15 DEF LaunchMail
    <2> DEFINE t == [task[w] EXCEPT !.pc = "launch_save", !.outcome = outcome]
    <2>2. ASSUME NEW i \in Ids, NEW k \in Token, HeldLink(t, i, k) PROVE LinkOf(i, k)
      <3>1. HeldLink(task[w], i, k)
        BY <1>1, <2>2 DEF HeldLink, GoodTask, Task
      <3> QED
        BY <3>1, HeldIsLink
    <2>3. Continue(w, t)
      BY <2>1
    <2>4. LaunchKey(task[w].id).id = task[w].id
      BY DEF LaunchKey
    <2> HIDE DEF t
    <2> QED
      BY <1>15, <2>1, <2>2, <2>3, <2>4, SendLinkStep DEF LaunchMail
  <1>16. CASE LaunchSave(w)
    <2> DEFINE r == LaunchOutcome(task[w].row, task[w].outcome)
    <2>1. r.hash = task[w].row.hash
      BY <1>12, <1>16 DEF LaunchOutcome, Row
    <2>2. SaveThen(w, task[w].id, r, Processed(w))
      BY <1>16 DEF LaunchSave
    <2> HIDE DEF r
    <2> QED
      BY <1>3, <1>11, <1>12, <1>16, <2>1, <2>2 DEF LaunchSave, mailVars
  <1> QED
    BY <1>5, <1>6, <1>7, <1>8, <1>9, <1>10, <1>13, <1>14, <1>15, <1>16 DEF Launch

\* Every step is one.
LEMMA NextLinks ==
    ASSUME Good, [Next]_vars
    PROVE  LinkStep
  <1>1. ASSUME UNCHANGED <<rows, inbox, task, minted>> PROVE LinkStep
    BY <1>1
    DEF LinkStep, Admitted, LinkOf, RowLink, MailLink, TaskLink, HeldLink, Present
  <1>2. CASE UNCHANGED vars
    BY <1>1, <1>2 DEF vars
  <1>3. CASE Tick
    BY <1>1, <1>3 DEF Tick, Forget
  <1>4. ASSUME NEW w \in Worker, Abort(w) PROVE LinkStep
    BY <1>4, IdleLinkStep DEF Abort, mailVars
  <1> QED
    BY <1>2, <1>3, <1>4, ConfirmLinks, JoinLinks, UnsubscribeLinks, MaintainLinks,
       LaunchLinks DEF Next

\* In every reachable state, however the workers interleave, no link leads to two rows.
THEOREM LinksInvariance == Spec => []LinksOwned
  <1>1. Init => LinksOwned
    <2> SUFFICES ASSUME Init PROVE LinksOwned
      OBVIOUS
    <2>1. ASSUME NEW i \in Ids, NEW k PROVE ~LinkOf(i, k)
      BY IdleLink DEF Init, MailInit, LinkOf, RowLink, MailLink, TaskLink, Present
    <2> QED
      BY <2>1 DEF LinksOwned
  <1>2. IInv /\ LinksOwned /\ [Next]_vars => LinksOwned'
    <2> SUFFICES ASSUME IInv, LinksOwned, [Next]_vars PROVE LinksOwned'
      OBVIOUS
    <2>1. Good /\ minted \in Nat
      BY GoodIsIInv DEF IInv, TypeOK
    <2> QED
      BY <2>1, NextLinks, LinkStepOwned
  <1> QED
    BY <1>1, <1>2, Invariance, PTL DEF Spec

\* A mailed link that still manages anything manages the row it was mailed for and
\* no other, however joins, retries, launch runs and clean-ups interleave their
\* stale whole-row writes: findByManageTokenHash never has a second match.
THEOREM MailedLinks == Spec => []LinkManagesOwnRow
  <1>1. IInv /\ LinksOwned => LinkManagesOwnRow
    <2> SUFFICES ASSUME IInv, LinksOwned, NEW m \in inbox,
                        ManagementState(m.token) # "invalid"
                 PROVE  FindByManageTokenHash(m.token) = {m.id}
      BY DEF LinkManagesOwnRow
    <2>1. m.id \in Ids /\ m.token \in Token
      BY DEF IInv, TypeOK, MailTypeOK
    <2>2. PICK id \in FindByManageTokenHash(m.token) : TRUE
      BY DEF ManagementState
    <2>3. LinkOf(m.id, m.token)
      BY DEF LinkOf, MailLink
    <2>4. \A o \in FindByManageTokenHash(m.token) : o \in Ids /\ LinkOf(o, m.token)
      BY DEF FindByManageTokenHash, LinkOf, RowLink
    <2>5. \A o \in FindByManageTokenHash(m.token) : o = m.id
      BY <2>1, <2>3, <2>4 DEF LinksOwned
    <2> QED
      BY <2>2, <2>5
  <1> QED
    BY <1>1, Invariance, LinksInvariance, PTL

-----------------------------------------------------------------------------
\* Signups that race.

ConfirmPc == {"confirm_load", "confirm_mail", "confirm_save"}

\* Where only signups come in, no row is ever renewed or forgotten; the worker that
\* created a row is the only one to confirm it, and until it has, the row has no mail.
CreatorConfirms ==
    /\ \A id \in Ids : Present(id) =>
          rows[id].unsubscribedAt = Null /\ ~rows[id].anonymized
    /\ \A w \in Worker :
          /\ task[w].pc \in {"idle", "create", "refind"} \cup ConfirmPc
          /\ task[w].pc \in ConfirmPc => /\ task[w].job = "join"
                                         /\ Present(task[w].id)
          /\ task[w].pc \in {"confirm_mail", "confirm_save"} =>
                task[w].row.unsubscribedAt = Null
          /\ task[w].pc \in {"confirm_load", "confirm_mail"} =>
                \A m \in inbox : m.id # task[w].id
    /\ \A v, w \in Worker :
          v # w /\ task[v].pc \in ConfirmPc /\ task[w].pc \in ConfirmPc =>
             task[v].id # task[w].id
    /\ \A m \in inbox : Present(m.id)
    /\ \A m, n \in inbox : m.id = n.id => m = n

\* A worker that confirms nothing afterwards leaves that to the others.
LEMMA CreatorRests ==
    ASSUME Good, CreatorConfirms, NEW w \in Worker, NEW t, Continue(w, t),
           t.pc \in {"idle", "create", "refind"}, UNCHANGED inbox,
           \/ UNCHANGED rows
           \/ \E id \in Ids, r \in Row :
                 /\ Save(id, r)
                 /\ r.unsubscribedAt = Null
                 /\ ~r.anonymized
    PROVE  CreatorConfirms'
  <1>1. /\ \A id \in Ids : Present(id) => Present(id)'
        /\ \A id \in Ids : Present(id)' =>
              rows'[id].unsubscribedAt = Null /\ ~rows'[id].anonymized
    <2>1. CASE UNCHANGED rows
      BY <2>1 DEF CreatorConfirms, Present
    <2>2. ASSUME NEW id \in Ids, NEW r \in Row, Save(id, r), r.unsubscribedAt = Null,
                 ~r.anonymized
          PROVE  /\ \A i \in Ids : Present(i) => Present(i)'
                 /\ \A i \in Ids : Present(i)' =>
                       rows'[i].unsubscribedAt = Null /\ ~rows'[i].anonymized
      BY <2>2, StoreAssumption DEF CreatorConfirms, Present, Save, Good, RowsGood
    <2> QED
      BY <2>1, <2>2
  <1>2. \A v \in Worker : task'[v] = IF v = w THEN t ELSE task[v]
    BY DEF Continue, Good, TasksGood
  <1>3. \A v \in Worker : task'[v].pc \in ConfirmPc => v # w /\ task'[v] = task[v]
    BY <1>2 DEF ConfirmPc
  <1>4. \A v \in Worker : task[v] \in Task /\ (task[v].pc \in ConfirmPc => task[v].id \in Ids)
    BY StoreAssumption DEF Good, TasksGood, GoodTask, Fits, ConfirmPc, Task
  <1>5. \A m \in inbox : m.id \in Ids
    BY DEF Good, MailTypeOK
  <1>6. ASSUME NEW v \in Worker
        PROVE  /\ task'[v].pc \in {"idle", "create", "refind"} \cup ConfirmPc
               /\ task'[v].pc \in ConfirmPc => /\ task'[v].job = "join"
                                               /\ Present(task[v].id)'
                                               /\ task'[v].id = task[v].id
               /\ task'[v].pc \in {"confirm_mail", "confirm_save"} =>
                     task'[v].row.unsubscribedAt = Null
               /\ task'[v].pc \in {"confirm_load", "confirm_mail"} =>
                     \A m \in inbox : m.id # task'[v].id
    BY <1>1, <1>2, <1>4 DEF CreatorConfirms, ConfirmPc
  <1>7. ASSUME NEW v \in Worker, NEW u \in Worker, v # u,
               task'[v].pc \in ConfirmPc, task'[u].pc \in ConfirmPc
        PROVE  task'[v].id # task'[u].id
    BY <1>3, <1>7 DEF CreatorConfirms
  <1>8. \A m \in inbox' : Present(m.id)'
    BY <1>1, <1>5 DEF CreatorConfirms
  <1>9. \A m, n \in inbox' : m.id = n.id => m = n
    BY DEF CreatorConfirms
  <1> QED
    BY <1>1, <1>6, <1>7, <1>8, <1>9 DEF CreatorConfirms

\* Every step of a system of signups keeps that.
LEMMA NextCreatorConfirms ==
    ASSUME Jobs = {"join"}, Good, CreatorConfirms, [Next]_vars
    PROVE  CreatorConfirms'
  <1> USE DEF ConfirmPc
  <1>1. \A w \in Worker : task[w] \in Task /\ Fits(task[w])
    BY DEF Good, TasksGood, GoodTask
  <1>2. CASE UNCHANGED vars \/ Tick
    BY <1>2 DEF vars, Tick, Forget, CreatorConfirms, Present
  <1>3. ASSUME NEW w \in Worker, NEW e \in Emails, NEW id \in Current, ResolveExisting(w, e, id),
               UNCHANGED <<rows, inbox>>
        PROVE  CreatorConfirms'
    <2>1. rows[id].unsubscribedAt = Null
      BY DEF CreatorConfirms, Current
    <2>2. Continue(w, Idle) /\ Idle.pc = "idle"
      BY <1>3, <2>1 DEF ResolveExisting, Idle
    <2> QED
      BY <1>3, <2>2, CreatorRests
  <1>4. ASSUME NEW w \in Worker, NEW e \in Emails, JoinFind(w, e) PROVE CreatorConfirms'
    <2>1. CASE Continue(w, [Joining(e) EXCEPT !.pc = "create"])
      <3>1. [Joining(e) EXCEPT !.pc = "create"].pc = "create"
        BY DEF Joining, Idle
      <3> QED
        BY <1>4, <2>1, <3>1, CreatorRests DEF JoinFind, mailVars
    <2>2. CASE \E id \in FindCurrentByNormalizedEmail(e) : ResolveExisting(w, e, id)
      BY <1>3, <1>4, <2>2 DEF JoinFind, mailVars, FindCurrentByNormalizedEmail
    <2> QED
      BY <1>4, <2>1, <2>2 DEF JoinFind
  <1>5. ASSUME NEW w \in Worker, JoinConflict(w) PROVE CreatorConfirms'
    <2>1. [task[w] EXCEPT !.pc = "refind"].pc = "refind"
      BY <1>1 DEF Task
    <2> QED
      BY <1>5, <2>1, CreatorRests DEF JoinConflict, mailVars
  <1>6. ASSUME NEW w \in Worker, JoinRefind(w) PROVE CreatorConfirms'
    <2>1. task[w].email \in Emails
      BY <1>1, <1>6 DEF Fits, Task, JoinRefind, At
    <2>2. CASE Continue(w, Idle)
      BY <1>6, <2>2, CreatorRests DEF JoinRefind, mailVars, Idle
    <2>3. CASE \E id \in FindCurrentByNormalizedEmail(task[w].email) :
                  ResolveExisting(w, task[w].email, id)
      BY <1>3, <1>6, <2>1, <2>3 DEF JoinRefind, mailVars, FindCurrentByNormalizedEmail
    <2> QED
      BY <1>6, <2>2, <2>3 DEF JoinRefind
  <1>7. ASSUME NEW w \in Worker, Abort(w) PROVE CreatorConfirms'
    BY <1>7, CreatorRests DEF Abort, mailVars, Idle
  <1>8. ASSUME NEW w \in Worker, JoinCreate(w) PROVE CreatorConfirms'
    <2>1. PICK id \in Ids : /\ Create(id, task[w].email, NewToken)
                            /\ Continue(w, Confirming(w, id, NewToken))
      BY <1>8 DEF JoinCreate
    <2>2. /\ ~Present(id)
          /\ DOMAIN rows = Ids
          /\ rows' = [rows EXCEPT ![id] = FreshRow(task[w].email, NewToken)]
      BY <2>1 DEF Create, Good, RowsGood
    <2>3. /\ rows'[id] # Null
          /\ rows'[id].unsubscribedAt = Null
          /\ ~rows'[id].anonymized
      <3>1. task[w].email \in Emails /\ NewToken \in Token
        BY <1>1, <1>8, TokensApart DEF Fits, Task, JoinCreate, At, NewToken, Good, CountersOK
      <3>2. GoodRow(FreshRow(task[w].email, NewToken)) /\ ~FreshRow(task[w].email, NewToken).anonymized
        BY <3>1, FreshRowGood
      <3> QED
        BY <2>2, <3>2, StoreAssumption DEF GoodRow, FreshRow
    <2>4. \A i \in Ids : i # id => rows'[i] = rows[i]
      BY <2>2
    <2> DEFINE t == Confirming(w, id, NewToken)
    <2>5. t.pc = "confirm_load" /\ t.job = "join" /\ t.id = id
      BY DEF Confirming, Joining, Idle
    <2>6. \A v \in Worker : task'[v] = IF v = w THEN t ELSE task[v]
      BY <2>1 DEF Continue, Good, TasksGood
    <2> HIDE DEF t
    <2>7. \A v \in Worker : v # w /\ task[v].pc \in ConfirmPc => task[v].id \in Ids \ {id}
      BY <1>1, <2>2 DEF CreatorConfirms, Fits, Task
    <2>8. \A m \in inbox : m.id \in Ids \ {id}
      BY <2>2 DEF CreatorConfirms, Good, MailTypeOK
    <2>9. inbox' = inbox
      BY <1>8 DEF JoinCreate, mailVars
    <2>10. \A i \in Ids : Present(i)' =>
              rows'[i].unsubscribedAt = Null /\ ~rows'[i].anonymized
      BY <2>3, <2>4 DEF CreatorConfirms, Present
    <2>11. \A v \in Worker :
              /\ task'[v].pc \in {"idle", "create", "refind"} \cup ConfirmPc
              /\ task'[v].pc \in ConfirmPc => /\ task'[v].job = "join"
                                              /\ rows'[task'[v].id] # Null
              /\ task'[v].pc \in {"confirm_mail", "confirm_save"} =>
                    task'[v].row.unsubscribedAt = Null
              /\ task'[v].pc \in {"confirm_load", "confirm_mail"} =>
                    \A m \in inbox' : m.id # task'[v].id
      BY <2>3, <2>4, <2>5, <2>6, <2>7, <2>8, <2>9 DEF CreatorConfirms, Present
    <2>12. \A v, u \in Worker :
              v # u /\ task'[v].pc \in ConfirmPc /\ task'[u].pc \in ConfirmPc =>
                 task'[v].id # task'[u].id
      BY <2>5, <2>6, <2>7 DEF CreatorConfirms
    <2>13. \A m \in inbox' : Present(m.id)'
      BY <2>4, <2>8, <2>9 DEF CreatorConfirms, Present
    <2>14. \A m, n \in inbox' : m.id = n.id => m = n
      BY <2>9 DEF CreatorConfirms
    <2> QED
      BY <2>10, <2>11, <2>12, <2>13, <2>14 DEF CreatorConfirms, Present
  <1>9. ASSUME NEW w \in Worker, ConfirmLoad(w) PROVE CreatorConfirms'
    <2> DEFINE id == task[w].id
               t == [task[w] EXCEPT !.pc = "confirm_mail", !.row = rows[id]]
    <2>1. CASE Continue(w, AfterConfirmation(w))
      <3>1. AfterConfirmation(w) = Idle
        BY <1>9 DEF ConfirmLoad, At, CreatorConfirms, AfterConfirmation
      <3> QED
        BY <1>9, <2>1, <3>1, CreatorRests DEF ConfirmLoad, mailVars, Idle
    <2>2. CASE Present(id) /\ Continue(w, t)
      <3>1. /\ t.pc = "confirm_mail" /\ t.id = id /\ t.job = task[w].job
            /\ t.row = rows[id]
        BY <1>1 DEF Task
      <3>2. task[w].pc = "confirm_load" /\ id \in Ids
        BY <1>1, <1>9 DEF ConfirmLoad, At, Fits, Task
      <3>3. t.row.unsubscribedAt = Null
        BY <2>2, <3>1, <3>2 DEF CreatorConfirms
      <3>4. \A v \in Worker : task'[v] = IF v = w THEN t ELSE task[v]
        BY <2>2 DEF Continue, Good, TasksGood
      <3> HIDE DEF t, id
      <3>5. id = task[w].id
        BY DEF id
      <3>6. inbox' = inbox /\ rows' = rows
        BY <1>9 DEF ConfirmLoad, mailVars
      <3> QED
        BY <2>2, <3>1, <3>2, <3>3, <3>4, <3>5, <3>6 DEF CreatorConfirms, Present
    <2> QED
      BY <1>9, <2>1, <2>2 DEF ConfirmLoad
  <1>10. ASSUME NEW w \in Worker, ConfirmMail(w) PROVE CreatorConfirms'
    <2> DEFINE key == ConfirmationKey(task[w].id, task[w].row.confirmationAttemptCount + 1)
    <2>1. PICK outcome \in Outcomes :
             /\ Send(key, task[w].token, now, outcome)
             /\ Continue(w, [task[w] EXCEPT !.pc = "confirm_save", !.outcome = outcome])
      BY <1>10 DEF ConfirmMail
    <2> DEFINE t == [task[w] EXCEPT !.pc = "confirm_save", !.outcome = outcome]
    <2>2. /\ t.pc = "confirm_save" /\ t.id = task[w].id /\ t.job = task[w].job
          /\ t.row = task[w].row
      BY <1>1 DEF Task
    <2>3. task[w].pc = "confirm_mail" /\ task[w].id \in Ids
      BY <1>1, <1>10 DEF ConfirmMail, At, Fits, Task
    <2>4. \A v \in Worker : task'[v] = IF v = w THEN t ELSE task[v]
      BY <2>1 DEF Continue, Good, TasksGood
    <2>5. \/ inbox' = inbox
          \/ inbox' = inbox \cup {[id |-> task[w].id, token |-> task[w].token]}
      BY <2>1 DEF Send, Deliver, mailVars, ConfirmationKey
    <2> HIDE DEF t, key
    <2>6. rows' = rows
      BY <1>10 DEF ConfirmMail
    <2>7. \A v \in Worker : v # w /\ task[v].pc \in ConfirmPc => task[v].id # task[w].id
      BY <2>3 DEF CreatorConfirms
    <2>8. \A m \in inbox : m.id # task[w].id
      BY <2>3 DEF CreatorConfirms
    <2>9. \A m, n \in inbox' : m.id = n.id => m = n
      BY <2>5, <2>8 DEF CreatorConfirms
    <2>10. \A m \in inbox' : Present(m.id)'
      BY <2>3, <2>5, <2>6 DEF CreatorConfirms, Present
    <2>11. \A v \in Worker : task'[v].pc \in {"confirm_load", "confirm_mail"} =>
              \A m \in inbox' : m.id # task'[v].id
      BY <2>2, <2>4, <2>5, <2>7 DEF CreatorConfirms
    <2> QED
      BY <2>2, <2>3, <2>4, <2>6, <2>7, <2>9, <2>10, <2>11 DEF CreatorConfirms, Present
  <1>11. ASSUME NEW w \in Worker, ConfirmSave(w) PROVE CreatorConfirms'
    <2> DEFINE r == ApplyOutcome(task[w].row, task[w].outcome, now)
    <2>1. /\ task[w].id \in Ids
          /\ GoodRow(task[w].row) /\ ~task[w].row.anonymized
          /\ task[w].outcome \in Outcomes
          /\ now \in Nat
      BY <1>1, <1>11, StoreAssumption
      DEF Fits, Task, ConfirmSave, At, Good, TasksGood, GoodTask, GoodRow, CountersOK
    <2>2. AfterConfirmation(w) = Idle /\ Idle.pc = "idle"
      BY <1>11 DEF ConfirmSave, At, CreatorConfirms, AfterConfirmation, Idle
    <2>3. r \in Row
      BY <2>1, ApplyOutcomeGood DEF GoodRow
    <2>4. r.unsubscribedAt = Null /\ ~r.anonymized
      BY <1>11, <2>1 DEF ConfirmSave, At, CreatorConfirms, ApplyOutcome, GoodRow, Row
    <2>5. SaveThen(w, task[w].id, r, Idle)
      BY <1>11, <2>2 DEF ConfirmSave
    <2> HIDE DEF r
    <2>6. UNCHANGED inbox
      BY <1>11 DEF ConfirmSave, mailVars
    <2> QED
      BY <2>1, <2>2, <2>3, <2>4, <2>5, <2>6, CreatorRests DEF SaveThen
  <1>12. ASSUME NEW w \in Worker, Unsubscribe(w) \/ Maintain(w) \/ Launch(w)
         PROVE  FALSE
    <2>1. task[w].pc \in {"idle", "create", "refind"} \cup ConfirmPc
      BY DEF CreatorConfirms
    <2> QED
      BY <1>12, <2>1
      DEF Unsubscribe, UnsubscribeFind, UnsubscribeSave, Maintain, RetryFind, RetryRotate,
          PurgeFind, PurgeSave, MaintenanceDone, Launch, LaunchStart, LaunchFetch,
          LaunchDone, LaunchSkip, LaunchRotate, LaunchLoad, LaunchReview, LaunchMark,
          LaunchMail, LaunchSave, Begin, At
  <1>13. ASSUME NEW w \in Worker, Resubscribe(w) PROVE FALSE
    BY <1>13 DEF Resubscribe, At, CreatorConfirms
  <1> QED
    BY <1>2, <1>4, <1>5, <1>6, <1>7, <1>8, <1>9, <1>10, <1>11, <1>12, <1>13
    DEF Next, Confirm, Join

\* However many signups of however many addresses race, with the invocations cut
\* short anywhere, an address has at most one row and its owner at most one
\* confirmation: the unique index settles the insertions, and only the winner mails.
THEOREM RacingSignups ==
    ASSUME Jobs = {"join"}
    PROVE  Spec => []OneConfirmationPerSignup
  <1>1. Init => CreatorConfirms
    BY DEF Init, MailInit, CreatorConfirms, Present, Idle, ConfirmPc
  <1>2. IInv /\ CreatorConfirms /\ [Next]_vars => CreatorConfirms'
    BY GoodIsIInv, NextCreatorConfirms
  <1>3. IInv /\ OneCurrentRowPerEmail /\ CreatorConfirms => OneConfirmationPerSignup
    <2> SUFFICES ASSUME IInv, OneCurrentRowPerEmail, CreatorConfirms, NEW e \in Emails
                 PROVE  /\ Cardinality({id \in Ids : Present(id) /\ rows[id].email = e}) <= 1
                        /\ Cardinality({m \in inbox : rows[m.id].email = e}) <= 1
      BY DEF OneConfirmationPerSignup
    <2> DEFINE S == {id \in Ids : Present(id) /\ rows[id].email = e}
               M == {m \in inbox : rows[m.id].email = e}
    <2>1. ASSUME NEW T, \A x, y \in T : x = y PROVE Cardinality(T) <= 1
      <3>1. CASE T = {}
        BY <3>1, FS_EmptySet
      <3>2. CASE T # {}
        <4>1. PICK x \in T : T = {x}
          BY <2>1, <3>2
        <4>2. Cardinality({x}) = 1
          BY FS_Singleton
        <4> QED
          BY <4>1, <4>2
      <3> QED
        BY <3>1, <3>2
    <2>2. \A i, j \in S : i = j
      BY DEF OneCurrentRowPerEmail, Current, CreatorConfirms
    <2>3. \A m \in M : m.id \in S
      BY DEF IInv, TypeOK, MailTypeOK, CreatorConfirms
    <2>4. \A m, n \in M : m = n
      BY <2>2, <2>3 DEF CreatorConfirms
    <2> QED
      BY <2>1, <2>2, <2>4
  <1> QED
    BY <1>1, <1>2, <1>3, Invariance, UniqueCurrentRow, PTL DEF Spec

=============================================================================
