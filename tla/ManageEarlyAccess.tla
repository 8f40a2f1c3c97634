------------------------- MODULE ManageEarlyAccess -------------------------
(***************************************************************************)
(* The management page behind a mailed link: ResolveEarlyAccessManagement  *)
(* reads the state of the row a token stands for, UnsubscribeEarlyAccess   *)
(* ends its subscription.  The token is one that reached a mailbox.        *)
(***************************************************************************)
EXTENDS Workers

\* What the page shows for a token (the masked address is left out).
ManagementState(token) ==
    LET found == {id \in FindByManageTokenHash(token) :
                    ~rows[id].anonymized /\ rows[id].email # Null}
    IN  IF found = {} THEN "invalid"
        ELSE IF \E id \in found : rows[id].unsubscribedAt = Null THEN "active"
        ELSE "unsubscribed"

\* An unknown token, an anonymized row and a row already unsubscribed return
\* without a write.
UnsubscribeFind(w, token) ==
    /\ Begin(w, "unsubscribe")
    /\ \E id \in FindByManageTokenHash(token) :
         /\ ~rows[id].anonymized
         /\ rows[id].unsubscribedAt = Null
         /\ Continue(w, [Idle EXCEPT !.pc = "unsubscribe", !.job = "unsubscribe",
                                     !.id = id, !.row = rows[id]])
    /\ UNCHANGED <<rows, mailVars, minted, counters>>

UnsubscribeSave(w) ==
    LET t == task[w]
    IN  /\ At(w, "unsubscribe")
        /\ SaveThen(w, t.id, [t.row EXCEPT !.unsubscribedAt = now], Idle)
        /\ UNCHANGED <<mailVars, minted, counters>>

=============================================================================
