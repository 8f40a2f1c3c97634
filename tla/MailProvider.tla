---------------------------- MODULE MailProvider ----------------------------
(***************************************************************************)
(* The mail provider behind the EmailSender port, as the code uses it: a   *)
(* message carries an idempotency key, a key the provider has accepted     *)
(* within its window is not delivered a second time, and the answer is one *)
(* of the four outcomes of ResendEmailSenderAdapter.  An ambiguous answer  *)
(* (an exception, or an error without an HTTP status) says nothing about   *)
(* whether the message left.                                               *)
(***************************************************************************)
EXTENDS SignupStore

CONSTANT Window          \* how long the provider remembers a key, in ticks

VARIABLES
    ledger,              \* keys the provider accepted within the window
    inbox,               \* management links mailed to a row's address
    launchMails          \* id |-> launch mails delivered to the row's address

mailVars == <<ledger, inbox, launchMails>>

Outcomes == {"accepted", "known_retryable_failure", "known_terminal_failure",
             "ambiguous"}

ASSUME MailAssumption ==
    /\ Window \in Nat
    /\ Null \notin Outcomes

Key == [kind : {"confirmation", "launch"}, id : Ids, attempt : Nat]
ConfirmationKey(id, n) == [kind |-> "confirmation", id |-> id, attempt |-> n]
LaunchKey(id) == [kind |-> "launch", id |-> id, attempt |-> 0]

MailTypeOK ==
    /\ ledger \subseteq [key : Key, at : Nat]
    /\ inbox \subseteq [id : Ids, token : Token]
    /\ launchMails \in [Ids -> Nat]

MailInit ==
    /\ ledger = {}
    /\ inbox = {}
    /\ launchMails = [id \in Ids |-> 0]

Remembered(key) == \E e \in ledger : e.key = key

Deliver(key, token, at) ==
    /\ ledger' = ledger \cup {[key |-> key, at |-> at]}
    /\ inbox' = inbox \cup {[id |-> key.id, token |-> token]}
    /\ launchMails' = IF key.kind = "launch"
                      THEN [launchMails EXCEPT ![key.id] = @ + 1]
                      ELSE launchMails

\* A message is delivered, or it is not: a remembered key is answered without
\* a delivery (as accepted, or refused when the body differs from the first).
Send(key, token, at, outcome) ==
    \/ /\ outcome \in {"accepted", "ambiguous"}
       /\ ~Remembered(key)
       /\ Deliver(key, token, at)
    \/ /\ outcome = "accepted"
       /\ Remembered(key)
       /\ UNCHANGED mailVars
    \/ /\ outcome \in {"ambiguous", "known_retryable_failure",
                       "known_terminal_failure"}
       /\ UNCHANGED mailVars

\* The clock moves to t: keys older than the window are forgotten.
Forget(t) ==
    /\ ledger' = {e \in ledger : t - e.at < Window}
    /\ UNCHANGED <<inbox, launchMails>>

=============================================================================
