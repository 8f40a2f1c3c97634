----------------------- MODULE SubscriptionLifecycle -----------------------
(***************************************************************************)
(* What the early-access list promises about one signup, with no word of   *)
(* snapshots, batches or mail: it is subscribed once, its subscription     *)
(* ends and is renewed only on its owner's request, its launch notice is   *)
(* settled once and for good, and once forgotten it stays forgotten.       *)
(***************************************************************************)
CONSTANTS Signups, Addresses, Nobody

VARIABLES
    phase,     \* signup |-> where its subscription stands
    owner,     \* signup |-> the address it is for, Nobody when unknown
    notice     \* signup |-> what became of its launch notice

lifecycleVars == <<phase, owner, notice>>

LifecycleTypeOK ==
    /\ phase \in [Signups -> {"none", "subscribed", "unsubscribed", "forgotten"}]
    /\ owner \in [Signups -> Addresses \cup {Nobody}]
    /\ notice \in [Signups -> {"open", "sent", "review"}]

LifecycleInit ==
    /\ phase = [s \in Signups |-> "none"]
    /\ owner = [s \in Signups |-> Nobody]
    /\ notice = [s \in Signups |-> "open"]

\* A new subscription, for an address no other signup is for.
Subscribe(s, a) ==
    /\ phase[s] = "none"
    /\ \A o \in Signups : owner[o] # a
    /\ phase' = [phase EXCEPT ![s] = "subscribed"]
    /\ owner' = [owner EXCEPT ![s] = a]
    /\ UNCHANGED notice

Leave(s) ==
    /\ phase[s] = "subscribed"
    /\ phase' = [phase EXCEPT ![s] = "unsubscribed"]
    /\ UNCHANGED <<owner, notice>>

Renew(s) ==
    /\ phase[s] = "unsubscribed"
    /\ phase' = [phase EXCEPT ![s] = "subscribed"]
    /\ UNCHANGED <<owner, notice>>

\* Only a subscriber is sent the notice, or set aside because it may have been.
Settle(s) ==
    /\ phase[s] = "subscribed"
    /\ notice[s] = "open"
    /\ \E n \in {"sent", "review"} : notice' = [notice EXCEPT ![s] = n]
    /\ UNCHANGED <<phase, owner>>

\* A signup that left, or that had its notice, is forgotten.
ForgetSignup(s) ==
    /\ \/ phase[s] = "unsubscribed"
       \/ phase[s] = "subscribed" /\ notice[s] = "sent"
    /\ phase' = [phase EXCEPT ![s] = "forgotten"]
    /\ owner' = [owner EXCEPT ![s] = Nobody]
    /\ UNCHANGED notice

LifecycleNext ==
    \E s \in Signups :
        \/ \E a \in Addresses : Subscribe(s, a)
        \/ Leave(s)
        \/ Renew(s)
        \/ Settle(s)
        \/ ForgetSignup(s)

LifecycleSpec == LifecycleInit /\ [][LifecycleNext]_lifecycleVars

=============================================================================
