----------------------------- MODULE ManagePage -----------------------------
(***************************************************************************)
(* The management page in one browser tab: ManageTokenBridge consumes the  *)
(* link's fragment once, looks the link up and may unsubscribe.  What the  *)
(* link stands for on the server changes meanwhile: another tab, the daily *)
(* maintenance and a new signup of the same address act on the same row.   *)
(***************************************************************************)
EXTENDS Naturals, InstrumentedAction

CONSTANT MaxLoads       \* bound on the page loads of the tab
ASSUME MaxLoadsAssumption == MaxLoads \in Nat \ {0}

VARIABLES
    hash,       \* the fragment in the address bar: "none", "link", "other"
    token,      \* tokenRef.current
    link,       \* what the mailed link stands for: active, unsubscribed, unknown
    seen,       \* history: what it stood for since the latest call was sent
    view,       \* the state shown; "closed" before the page is open
    lookup,     \* the call of resolveManagementAction
    removal,    \* the call of unsubscribeAction; isPending while it is in flight
    held,       \* the removal has read an active row and not saved it yet
    loads,
    broken      \* a rejected transition reached the error boundary

rowVars    == <<link, seen>>
callVars   == <<lookup, removal, held>>
pageVars   == <<hash, token, view, loads, broken>>
manageVars == <<rowVars, callVars, pageVars>>

LinkStates == {"active", "unsubscribed", "unknown"}

ManageInit ==
    /\ hash = "none" /\ token = "none"
    /\ link = "active" /\ seen = {"active"}
    /\ view = "closed"
    /\ lookup = NotMade /\ removal = NotMade /\ held = FALSE
    /\ loads = 0
    /\ broken = FALSE

-----------------------------------------------------------------------------
\* The effect of a fresh mount: the fragment leaves the address bar with the
\* reading; no fragment, no look-up.  The page that was there is gone with its
\* calls; what the server still does for them happens elsewhere.
Mount(fragment) ==
    /\ hash' = "none"
    /\ token' = fragment
    /\ IF fragment = "none"
       THEN view' = "invalid" /\ lookup' = NotMade
       ELSE view' = "loading" /\ lookup' = Sent
    /\ removal' = NotMade /\ held' = FALSE
    /\ broken' = FALSE
    /\ loads' = loads + 1
    /\ seen' = {link} /\ UNCHANGED link

OpenLink(fragment) == view = "closed" /\ Mount(fragment)

Reload == view # "closed" /\ loads < MaxLoads /\ Mount(hash)

\* The link pasted again into the open tab: a change of fragment mounts nothing.
PasteFragment(fragment) ==
    /\ view # "closed" /\ hash = "none" /\ loads < MaxLoads
    /\ hash' = fragment
    /\ UNCHANGED <<rowVars, callVars, token, view, loads, broken>>

-----------------------------------------------------------------------------
\* handleResolveManagement: the state of the link, or retry (in ServerSteps).
LookupState ==
    IF token = "link" /\ link # "unknown" THEN link ELSE "invalid"

LookupServed ==
    /\ lookup' \in ServerSteps(lookup, {LookupState})
    /\ UNCHANGED <<rowVars, pageVars, removal, held>>

\* Mutant: the rejection of the look-up is not handled.
LookupRejects ==
    IF lookup.phase = "answered" THEN {lookup.answer} ELSE {}

\* .then(setState, () => setState(retry))
LookupShows ==
    IF lookup.phase = "answered" THEN {lookup.answer}
    ELSE IF lookup.phase = "lost" THEN {"retry"}
    ELSE {}

ShowLookup ==
    /\ ~broken
    /\ view' \in LookupShows
    /\ lookup' = NotMade
    /\ UNCHANGED <<rowVars, hash, token, removal, held, loads, broken>>

LookupLost ==
    /\ InFlight(lookup)
    /\ lookup' = Lost(lookup)
    /\ UNCHANGED <<rowVars, pageVars, removal, held>>

-----------------------------------------------------------------------------
\* Mutant: the button stands under every state of the page.
ButtonShownAlways == view # "closed"

\* The button is rendered in the active state only, disabled while pending.
ButtonShown == view = "active"

ClickUnsubscribe ==
    /\ ~broken /\ ButtonShown /\ token # "none"
    /\ removal = NotMade
    /\ removal' = Sent
    /\ seen' = {link}
    /\ UNCHANGED <<link, lookup, held, pageVars>>

\* The row is written, and what the link stands for with it.
LinkBecomes(state) == link' = state /\ seen' = seen \cup {state}

\* UnsubscribeEarlyAccess finds the row: a link that stands for none is invalid, a
\* subscription already over is answered at once, an active row is held for the save.
RemovalReads ==
    LET found == IF token = "link" THEN link ELSE "unknown"
    IN  /\ removal.phase = "sent" /\ ~held
        /\ \/ removal' = Settles(removal, "retry") /\ UNCHANGED held
           \/ found = "unknown" /\ removal' = Settles(removal, "invalid") /\ UNCHANGED held
           \/ found = "unsubscribed" /\ removal' = Settles(removal, found) /\ UNCHANGED held
           \/ found = "active" /\ held' = TRUE /\ UNCHANGED removal
        /\ UNCHANGED <<rowVars, lookup, pageVars>>

\* Mutant: the success is answered whether or not the row was saved.
SaveFailsUnnoticed ==
    {<<"unsubscribed", "unsubscribed">>, <<"unsubscribed", link>>, <<"retry", link>>}

\* The save of the row as it was read, and what handleUnsubscribe makes of it: a save
\* that fails is a retry, and may have reached the row.
SaveOutcomes ==
    {<<"unsubscribed", "unsubscribed">>, <<"retry", "unsubscribed">>, <<"retry", link>>}

RemovalWrites ==
    /\ removal.phase = "sent" /\ held
    /\ \E out \in SaveOutcomes :
         /\ removal' = Settles(removal, out[1])
         /\ LinkBecomes(out[2])
    /\ held' = FALSE
    /\ UNCHANGED <<lookup, pageVars>>

\* The instrumentation before the work, or after it.
RemovalServed ==
    /\ ~held
    /\ \E call \in ServerSteps(removal, {}) :
         call.phase = "answered" /\ removal' = call
    /\ UNCHANGED <<rowVars, lookup, held, pageVars>>

ShowRemoval ==
    /\ ~broken
    /\ removal.phase = "answered"
    /\ view' = removal.answer
    /\ removal' = NotMade
    /\ UNCHANGED <<rowVars, hash, token, lookup, held, loads, broken>>

\* The transition rejects: nothing catches it but the error boundary.  The server
\* that holds the row may save it still: that happens elsewhere.
RemovalLost ==
    /\ InFlight(removal) /\ ~broken
    /\ removal' = Lost(removal) /\ held' = FALSE
    /\ broken' = TRUE
    /\ UNCHANGED <<rowVars, hash, token, view, lookup, loads>>

-----------------------------------------------------------------------------
\* What the other writers of the row make of the link.  They save whole rows as they
\* read them (module SignupStore), so that a late save brings back what was there
\* before.

\* Another tab, or the save of a page that was left, over whatever the row is by now.
ElsewhereUnsubscribed ==
    /\ view # "closed" /\ link # "unsubscribed"
    /\ LinkBecomes("unsubscribed")
    /\ UNCHANGED <<callVars, pageVars>>

\* Purged, renewed under a token of its own, or given its launch link.
ElsewhereRetired ==
    /\ view # "closed" /\ link # "unknown"
    /\ LinkBecomes("unknown")
    /\ UNCHANGED <<callVars, pageVars>>

\* The outcome of a mail saved onto the row that was read before it: its link is
\* active again.
ElsewhereRestored ==
    /\ view # "closed" /\ link # "active"
    /\ LinkBecomes("active")
    /\ UNCHANGED <<callVars, pageVars>>

ManageNext ==
    \/ \E fragment \in {"none", "link", "other"} : OpenLink(fragment)
    \/ \E fragment \in {"link", "other"} : PasteFragment(fragment)
    \/ Reload
    \/ LookupServed \/ LookupLost \/ ShowLookup
    \/ ClickUnsubscribe \/ RemovalReads \/ RemovalWrites \/ RemovalServed
    \/ RemovalLost \/ ShowRemoval
    \/ ElsewhereUnsubscribed \/ ElsewhereRetired \/ ElsewhereRestored

\* A call is answered or lost, and a promise that settles runs its handlers.
ManageFairness ==
    /\ WF_manageVars(LookupServed \/ LookupLost)
    /\ WF_manageVars(ShowLookup)
    /\ WF_manageVars(RemovalReads \/ RemovalWrites \/ RemovalServed \/ RemovalLost)
    /\ WF_manageVars(ShowRemoval)

ManageSpec == ManageInit /\ [][ManageNext]_manageVars /\ ManageFairness

-----------------------------------------------------------------------------
ManageTypeOK ==
    /\ hash \in {"none", "link", "other"} /\ token \in {"none", "link", "other"}
    /\ link \in LinkStates /\ seen \subseteq LinkStates /\ held \in BOOLEAN
    /\ view \in {"closed", "loading", "active", "unsubscribed", "invalid", "retry"}
    /\ loads \in 0..MaxLoads
    /\ broken \in BOOLEAN

\* What the page comes to say of its link was so at some time after the visitor asked:
\* "active", "You're off the list" and "invalid" each tell a state that the row had
\* while the call ran, whoever else wrote the row meanwhile.  No more can be promised:
\* the next writer may change the row before the answer is on the screen.
Meaning(state) == IF state = "invalid" THEN "unknown" ELSE state

ShownAsItWas ==
    [][view' # view /\ view' \in {"active", "unsubscribed", "invalid"} /\ token' = "link"
         => Meaning(view') \in seen']_manageVars

\* Within one load of the page a look-up that was slow never undoes what the visitor
\* did: once off the list, the page does not offer the button again.
RemovalIsNotUndone ==
    [][view = "unsubscribed" /\ loads' = loads => view' # "active"]_manageVars

\* The first answer comes: no visitor is left at "Checking your management link".
LookupSettles == view = "loading" ~> view # "loading"

=============================================================================
