------------------------ MODULE PageClients_proofs ------------------------
(***************************************************************************)
(* Theorems about the parts of a page that live in the browser, for every  *)
(* bound on loads, visits, transitions and errors: the management page,    *)
(* the motion islands and the start-up of the error reporting; and about   *)
(* the instance in which one run checks every part of the browser.         *)
(***************************************************************************)
EXTENDS FormAndWords_proofs, MCVisits

-----------------------------------------------------------------------------
\* The management page.

Phases == {"none", "sent", "settled", "answered", "lost"}
LookupAnswers  == {"none", "active", "unsubscribed", "invalid", "retry"}
RemovalAnswers == {"none", "unsubscribed", "invalid", "retry"}

\* What a state says of the link was so since the latest call was sent.
Truthful(state) ==
    state \in {"active", "unsubscribed", "invalid"} /\ token = "link" => Meaning(state) \in seen

\* A call on its way, and what it will answer, is truthful; the two calls are never
\* made at once, and a page past its first answer has no look-up left.
ManageInv ==
    /\ link \in seen /\ seen \subseteq LinkStates
    /\ held \in BOOLEAN
    /\ lookup \in [phase : Phases, settled : LookupAnswers, answer : LookupAnswers]
    /\ removal \in [phase : Phases, settled : RemovalAnswers, answer : RemovalAnswers]
    /\ Truthful(lookup.settled) /\ Truthful(lookup.answer)
    /\ Truthful(removal.settled) /\ Truthful(removal.answer)
    /\ lookup.phase # "none" => view = "loading" /\ removal.phase = "none"
    /\ lookup.phase = "none" => lookup = NotMade
    /\ loads \in Nat

\* What the server does to a call.
LEMMA ServerStepsCall ==
    ASSUME NEW A, "none" \in A, "retry" \in A, NEW states \in SUBSET A,
           NEW call \in [phase : Phases, settled : A, answer : A],
           NEW next \in ServerSteps(call, states)
    PROVE  /\ next \in [phase : Phases, settled : A, answer : A]
           /\ call.phase \in {"sent", "settled"}
           /\ next.phase \in {"settled", "answered"}
           /\ next.settled \in {call.settled} \cup states \cup {"retry"}
           /\ next.answer \in {call.answer, call.settled, "retry"}
  <1>1. CASE call.phase = "sent" /\ next \in WorkSettles(call, states)
    BY <1>1 DEF WorkSettles, Settles, Phases
  <1>2. CASE call.phase = "sent" /\ next = Answered(call, OuterCatch(call))
    BY <1>2 DEF Answered, OuterCatch, Phases
  <1>3. CASE call.phase = "settled" /\ next = Answered(call, call.settled)
    BY <1>3 DEF Answered, Phases
  <1>4. CASE call.phase = "settled" /\ next = Answered(call, OuterCatch(call))
    BY <1>4 DEF Answered, OuterCatch, Phases
  <1> QED
    BY <1>1, <1>2, <1>3, <1>4 DEF ServerSteps

\* A call not made, sent or lost.
LEMMA CallValues ==
    /\ NotMade = [phase |-> "none", settled |-> "none", answer |-> "none"]
    /\ Sent = [phase |-> "sent", settled |-> "none", answer |-> "none"]
    /\ \A c, A : c \in [phase : Phases, settled : A, answer : A] =>
          /\ Lost(c) \in [phase : Phases, settled : A, answer : A]
          /\ Lost(c).phase = "lost" /\ Lost(c).settled = c.settled
          /\ Lost(c).answer = c.answer
  BY DEF NotMade, Sent, Lost, Phases

\* A load starts from nothing.
LEMMA MountTruthful ==
    ASSUME ManageInv, NEW fragment, Mount(fragment)
    PROVE  ManageInv'
  <1>1. /\ link' = link /\ seen' = {link} /\ loads' = loads + 1
        /\ removal' = NotMade /\ held' = FALSE
        /\ \/ view' = "invalid" /\ lookup' = NotMade
           \/ view' = "loading" /\ lookup' = Sent
    BY DEF Mount
  <1>2. /\ Truthful(lookup.settled)' /\ Truthful(lookup.answer)'
        /\ Truthful(removal.settled)' /\ Truthful(removal.answer)'
    BY <1>1, CallValues DEF Truthful
  <1>3. link' \in seen' /\ seen' \subseteq LinkStates /\ loads' \in Nat
    BY <1>1 DEF ManageInv
  <1>4. /\ lookup' \in [phase : Phases, settled : LookupAnswers, answer : LookupAnswers]
        /\ removal' \in [phase : Phases, settled : RemovalAnswers, answer : RemovalAnswers]
        /\ removal'.phase = "none"
        /\ lookup'.phase # "none" => view' = "loading"
        /\ lookup'.phase = "none" => lookup' = NotMade
    BY <1>1, CallValues DEF Phases, LookupAnswers, RemovalAnswers
  <1> QED
    BY <1>1, <1>2, <1>3, <1>4 DEF ManageInv, Truthful

\* A row that is written adds to what the link has stood for, and takes nothing back.
LEMMA RowWritten ==
    ASSUME ManageInv, NEW state \in LinkStates, LinkBecomes(state), UNCHANGED token
    PROVE  /\ link' \in seen' /\ seen' \subseteq LinkStates /\ state \in seen'
           /\ seen \subseteq seen'
  BY DEF LinkBecomes, ManageInv

\* Every step of the page, of its calls and of what happens elsewhere keeps the truth.
LEMMA ManageInvStep ==
    ASSUME ManageInv, [ManageNext]_manageVars
    PROVE  ManageInv'
  <1>1. CASE UNCHANGED manageVars
    BY <1>1 DEF manageVars, rowVars, callVars, pageVars, ManageInv, Truthful
  <1>2. CASE Reload \/ \E fragment \in {"none", "link", "other"} : OpenLink(fragment)
    BY <1>2, MountTruthful DEF Reload, OpenLink
  <1>3. CASE \E fragment \in {"link", "other"} : PasteFragment(fragment)
    BY <1>3 DEF PasteFragment, rowVars, callVars, ManageInv, Truthful
  <1>4. CASE LookupServed
    <2>1. /\ lookup' \in [phase : Phases, settled : LookupAnswers, answer : LookupAnswers]
          /\ lookup.phase \in {"sent", "settled"}
          /\ lookup'.phase # "none"
          /\ lookup'.settled \in {lookup.settled, LookupState, "retry"}
          /\ lookup'.answer \in {lookup.answer, lookup.settled, "retry"}
      <3>1. LookupState \in LookupAnswers
        BY DEF LookupState, LookupAnswers, ManageInv, LinkStates
      <3>2. "none" \in LookupAnswers /\ "retry" \in LookupAnswers
        BY DEF LookupAnswers
      <3>3. PICK next \in ServerSteps(lookup, {LookupState}) : lookup' = next
        BY <1>4 DEF LookupServed
      <3> QED
        BY <3>1, <3>2, <3>3, ServerStepsCall DEF ManageInv
    <2>2. Truthful(LookupState)
      BY DEF Truthful, Meaning, LookupState, ManageInv, LinkStates
    <2>3. UNCHANGED <<rowVars, pageVars, removal, held>>
      BY <1>4 DEF LookupServed
    <2>4. Truthful(lookup.settled)' /\ Truthful(lookup.answer)'
      BY <2>1, <2>2, <2>3 DEF ManageInv, Truthful, rowVars, pageVars
    <2> QED
      BY <2>1, <2>3, <2>4 DEF ManageInv, Truthful, rowVars, pageVars
  <1>5. CASE LookupLost
    <2>1. lookup.phase # "none" /\ UNCHANGED <<rowVars, pageVars, removal, held>>
      BY <1>5 DEF LookupLost, InFlight
    <2> QED
      BY <1>5, <2>1, CallValues DEF LookupLost, ManageInv, Truthful, rowVars, pageVars
  <1>6. CASE ShowLookup
    <2>1. lookup' = NotMade /\ UNCHANGED <<link, seen, hash, token, removal, held, loads, broken>>
      BY <1>6 DEF ShowLookup, rowVars
    <2> QED
      BY <2>1, CallValues DEF ManageInv, Truthful, Phases, LookupAnswers
  <1>7. CASE ClickUnsubscribe
    <2>1. lookup = NotMade /\ removal' = Sent /\ lookup.phase = "none"
      BY <1>7 DEF ClickUnsubscribe, ButtonShown, ManageInv
    <2>2. seen' = {link} /\ UNCHANGED <<link, lookup, held, pageVars>>
      BY <1>7 DEF ClickUnsubscribe
    <2> QED
      BY <2>1, <2>2, CallValues
      DEF ManageInv, Truthful, Phases, RemovalAnswers, pageVars, LinkStates
  <1>8. CASE RemovalReads
    <2>1. /\ removal.phase = "sent"
          /\ UNCHANGED <<rowVars, lookup, pageVars>>
          /\ held' \in BOOLEAN
          /\ \/ removal' = removal
             \/ \E a \in RemovalAnswers : Truthful(a) /\ removal' = Settles(removal, a)
      BY <1>8
      DEF RemovalReads, ManageInv, Truthful, Meaning, RemovalAnswers, LinkStates
    <2>3. /\ removal' \in [phase : Phases, settled : RemovalAnswers, answer : RemovalAnswers]
          /\ removal'.answer = removal.answer
          /\ Truthful(removal'.settled)
      <3>1. CASE removal' = removal
        BY <3>1 DEF ManageInv
      <3>2. ASSUME NEW a \in RemovalAnswers, Truthful(a), removal' = Settles(removal, a)
            PROVE  /\ removal' \in [phase : Phases, settled : RemovalAnswers,
                                   answer : RemovalAnswers]
                   /\ removal'.answer = removal.answer /\ removal'.settled = a
        BY <3>2 DEF ManageInv, Settles, Phases
      <3> QED
        BY <2>1, <3>1, <3>2
    <2>4. lookup.phase = "none"
      BY <2>1 DEF ManageInv
    <2> QED
      BY <2>1, <2>3, <2>4 DEF ManageInv, Truthful, rowVars, pageVars
  <1>9. CASE RemovalWrites
    <2>1. PICK out \in SaveOutcomes :
             removal' = Settles(removal, out[1]) /\ LinkBecomes(out[2])
      BY <1>9 DEF RemovalWrites
    <2>2. /\ out[1] \in {"unsubscribed", "retry"} /\ out[2] \in LinkStates
          /\ out[1] = "unsubscribed" => out[2] = "unsubscribed"
      BY DEF SaveOutcomes, ManageInv, LinkStates
    <2>3. /\ removal.phase = "sent" /\ held' = FALSE
          /\ UNCHANGED <<lookup, hash, token, view, loads, broken>>
      BY <1>9 DEF RemovalWrites, pageVars
    <2>4. /\ link' \in seen' /\ seen' \subseteq LinkStates /\ out[2] \in seen'
          /\ seen \subseteq seen'
      BY <2>1, <2>2, <2>3, RowWritten
    <2>5. /\ removal' \in [phase : Phases, settled : RemovalAnswers, answer : RemovalAnswers]
          /\ removal'.settled = out[1] /\ removal'.answer = removal.answer
      BY <2>1, <2>2 DEF ManageInv, Settles, Phases, RemovalAnswers
    <2>6. Truthful(removal.settled)'
      BY <2>2, <2>4, <2>5 DEF Truthful, Meaning
    <2> QED
      BY <2>3, <2>4, <2>5, <2>6 DEF ManageInv, Truthful
  <1>10. CASE RemovalServed
    <2>1. /\ removal' \in [phase : Phases, settled : RemovalAnswers, answer : RemovalAnswers]
          /\ removal.phase \in {"sent", "settled"}
          /\ removal'.settled \in {removal.settled, "retry"}
          /\ removal'.answer \in {removal.answer, removal.settled, "retry"}
      <3>1. "none" \in RemovalAnswers /\ "retry" \in RemovalAnswers
        BY DEF RemovalAnswers
      <3>2. PICK next \in ServerSteps(removal, {}) : removal' = next
        BY <1>10 DEF RemovalServed
      <3> QED
        BY <3>1, <3>2, ServerStepsCall DEF ManageInv
    <2>2. UNCHANGED <<rowVars, lookup, held, pageVars>>
      BY <1>10 DEF RemovalServed
    <2> QED
      BY <2>1, <2>2 DEF ManageInv, Truthful, rowVars, pageVars
  <1>11. CASE ShowRemoval
    <2>1. /\ removal' = NotMade /\ lookup.phase = "none"
          /\ UNCHANGED <<link, seen, hash, token, lookup, held, loads, broken>>
      BY <1>11 DEF ShowRemoval, ManageInv, rowVars
    <2> QED
      BY <2>1, CallValues DEF ManageInv, Truthful, Phases, RemovalAnswers
  <1>12. CASE RemovalLost
    <2>1. /\ removal.phase # "none" /\ removal' = Lost(removal) /\ held' = FALSE
          /\ UNCHANGED <<link, seen, hash, token, view, lookup, loads>>
      BY <1>12 DEF RemovalLost, InFlight, rowVars
    <2> QED
      BY <2>1, CallValues DEF ManageInv, Truthful
  <1>13. CASE ElsewhereUnsubscribed \/ ElsewhereRetired \/ ElsewhereRestored
    <2>1. PICK state \in LinkStates : LinkBecomes(state)
      BY <1>13 DEF ElsewhereUnsubscribed, ElsewhereRetired, ElsewhereRestored, LinkStates
    <2>2. UNCHANGED <<lookup, removal, held, hash, token, view, loads, broken>>
      BY <1>13
      DEF ElsewhereUnsubscribed, ElsewhereRetired, ElsewhereRestored, callVars, pageVars
    <2> QED
      BY <2>1, <2>2, RowWritten DEF ManageInv, Truthful
  <1> QED
    BY <1>1, <1>2, <1>3, <1>4, <1>5, <1>6, <1>7, <1>8, <1>9, <1>10, <1>11, <1>12, <1>13
    DEF ManageNext

\* Every state of the page, of its calls and of the link elsewhere satisfies it.
THEOREM ManageInvariance == ManageSpec => []ManageInv
  <1>1. ManageInit => ManageInv
    <2> SUFFICES ASSUME ManageInit PROVE ManageInv
      OBVIOUS
    <2>1. /\ lookup = NotMade /\ removal = NotMade
          /\ link = "active" /\ seen = {"active"} /\ held = FALSE /\ loads = 0
      BY DEF ManageInit
    <2>2. /\ NotMade \in [phase : Phases, settled : LookupAnswers, answer : LookupAnswers]
          /\ NotMade \in [phase : Phases, settled : RemovalAnswers, answer : RemovalAnswers]
          /\ NotMade.phase = "none" /\ NotMade.settled = "none" /\ NotMade.answer = "none"
      BY CallValues DEF Phases, LookupAnswers, RemovalAnswers
    <2> QED
      BY <2>1, <2>2 DEF ManageInv, Truthful, LinkStates
  <1> QED
    BY <1>1, ManageInvStep, PTL DEF ManageSpec

\* A call that is answered has something to show, and a page not open yet was never
\* loaded.
Shows(call) ==
    /\ call.phase = "settled" => call.settled # "none"
    /\ call.phase = "answered" => call.answer # "none"

ManageTypeInv ==
    /\ ManageTypeOK
    /\ Shows(lookup) /\ Shows(removal)
    /\ view = "closed" => loads = 0

\* What the server answers can be shown.
LEMMA ServerStepsShow ==
    ASSUME NEW A, NEW states \in SUBSET A, "none" \notin states,
           NEW call \in [phase : Phases, settled : A, answer : A], Shows(call),
           NEW next \in ServerSteps(call, states)
    PROVE  Shows(next)
  <1>1. CASE call.phase = "sent" /\ next \in WorkSettles(call, states)
    BY <1>1 DEF WorkSettles, Settles, Phases, Shows
  <1>2. CASE call.phase = "sent" /\ next = Answered(call, OuterCatch(call))
    BY <1>2 DEF Answered, OuterCatch, Phases, Shows
  <1>3. CASE call.phase = "settled" /\ next = Answered(call, call.settled)
    BY <1>3 DEF Answered, Phases, Shows
  <1>4. CASE call.phase = "settled" /\ next = Answered(call, OuterCatch(call))
    BY <1>4 DEF Answered, OuterCatch, Phases, Shows
  <1> QED
    BY <1>1, <1>2, <1>3, <1>4 DEF ServerSteps

\* A load leaves the types, if it is within the bound.
LEMMA MountTypes ==
    ASSUME ManageTypeInv, NEW fragment \in {"none", "link", "other"}, Mount(fragment),
           loads < MaxLoads
    PROVE  ManageTypeInv'
  <1>1. loads' \in 0..MaxLoads
    BY MaxLoadsAssumption DEF Mount, ManageTypeInv, ManageTypeOK
  <1>2. Shows(NotMade) /\ Shows(Sent)
    BY CallValues DEF Shows
  <1> QED
    BY <1>1, <1>2 DEF Mount, ManageTypeInv, ManageTypeOK

\* However often the page is loaded, its address, its state and the link stay within
\* their types: no answer brings up a state that the page has no view for.
THEOREM ManageTypes == ManageSpec => []ManageTypeOK
  <1>1. ManageInit => ManageTypeInv
    <2>1. Shows(NotMade) /\ 0 \in 0..MaxLoads
      BY CallValues, MaxLoadsAssumption DEF Shows
    <2> QED
      BY <2>1 DEF ManageInit, ManageTypeInv, ManageTypeOK, LinkStates
  <1>2. ManageInv /\ ManageInv' /\ ManageTypeInv /\ [ManageNext]_manageVars => ManageTypeInv'
    <2> SUFFICES ASSUME ManageInv, ManageInv', ManageTypeInv, [ManageNext]_manageVars
                 PROVE  ManageTypeInv'
      OBVIOUS
    <2> DEFINE RowTyped == /\ link \in LinkStates /\ seen \subseteq LinkStates
                           /\ held \in BOOLEAN
               PageTyped == /\ hash \in {"none", "link", "other"}
                            /\ token \in {"none", "link", "other"}
                            /\ view \in {"closed", "loading", "active", "unsubscribed",
                                        "invalid", "retry"}
                            /\ loads \in 0..MaxLoads /\ broken \in BOOLEAN
                            /\ view = "closed" => loads = 0
    <2>0. RowTyped' /\ PageTyped /\ Shows(lookup) /\ Shows(removal)
      BY DEF ManageInv, ManageTypeInv, ManageTypeOK
    <2>1. SUFFICES PageTyped' /\ Shows(lookup') /\ Shows(removal')
      BY <2>0 DEF ManageTypeInv, ManageTypeOK, Shows
    <2>2. CASE UNCHANGED <<pageVars, lookup, removal>>
      BY <2>0, <2>2 DEF pageVars
    <2>3. CASE \E fragment \in {"none", "link", "other"} : OpenLink(fragment)
      <3>1. loads < MaxLoads
        BY <2>0, <2>3, MaxLoadsAssumption DEF OpenLink
      <3>2. ManageTypeInv'
        BY <2>3, <3>1, MountTypes DEF OpenLink
      <3> QED
        BY <3>2 DEF ManageTypeInv, ManageTypeOK, Shows
    <2>4. CASE Reload
      <3>1. ManageTypeInv'
        BY <2>0, <2>4, MountTypes DEF Reload
      <3> QED
        BY <3>1 DEF ManageTypeInv, ManageTypeOK, Shows
    <2>5. CASE \E fragment \in {"link", "other"} : PasteFragment(fragment)
      BY <2>0, <2>5 DEF PasteFragment, callVars
    <2>6. CASE LookupServed
      <3>1. LookupState \in LookupAnswers /\ LookupState # "none"
        BY DEF LookupState, LookupAnswers, ManageInv, LinkStates
      <3>2. PICK next \in ServerSteps(lookup, {LookupState}) : lookup' = next
        BY <2>6 DEF LookupServed
      <3>3. Shows(next)
        BY <2>0, <3>1, <3>2, ServerStepsShow DEF ManageInv
      <3> QED
        BY <2>0, <2>6, <3>2, <3>3 DEF LookupServed, pageVars
    <2>7. CASE LookupLost
      <3>1. Shows(Lost(lookup))
        BY CallValues DEF ManageInv, Shows
      <3> QED
        BY <2>0, <2>7, <3>1 DEF LookupLost, pageVars
    <2>8. CASE ShowLookup
      <3>1. view' \in LookupAnswers \ {"none"} /\ lookup' = NotMade
        BY <2>0, <2>8 DEF ShowLookup, LookupShows, ManageInv, Shows, LookupAnswers
      <3>2. Shows(NotMade)
        BY CallValues DEF Shows
      <3> QED
        BY <2>0, <2>8, <3>1, <3>2 DEF ShowLookup, LookupAnswers
    <2>9. CASE ClickUnsubscribe
      <3>1. Shows(Sent)
        BY CallValues DEF Shows
      <3> QED
        BY <2>0, <2>9, <3>1 DEF ClickUnsubscribe, pageVars
    <2>10. CASE RemovalReads \/ RemovalWrites
      <3>1. \/ removal' = removal
            \/ \E a \in {"retry", "invalid", "unsubscribed"} : removal' = Settles(removal, a)
        BY <2>10 DEF RemovalReads, RemovalWrites, SaveOutcomes
      <3>2. Shows(removal')
        BY <2>0, <3>1 DEF Settles, Shows, ManageInv
      <3> QED
        BY <2>0, <2>10, <3>2 DEF RemovalReads, RemovalWrites, pageVars
    <2>11. CASE RemovalServed
      <3>1. PICK next \in ServerSteps(removal, {}) : removal' = next
        BY <2>11 DEF RemovalServed
      <3>2. Shows(next)
        BY <2>0, <3>1, ServerStepsShow DEF ManageInv
      <3> QED
        BY <2>0, <2>11, <3>1, <3>2 DEF RemovalServed, pageVars
    <2>12. CASE ShowRemoval
      <3>1. view' \in RemovalAnswers \ {"none"} /\ removal' = NotMade
        BY <2>0, <2>12 DEF ShowRemoval, ManageInv, Shows
      <3>2. Shows(NotMade)
        BY CallValues DEF Shows
      <3> QED
        BY <2>0, <2>12, <3>1, <3>2 DEF ShowRemoval, RemovalAnswers
    <2>13. CASE RemovalLost
      <3>1. Shows(Lost(removal))
        BY CallValues DEF ManageInv, Shows
      <3> QED
        BY <2>0, <2>13, <3>1 DEF RemovalLost
    <2> QED
      BY <2>2, <2>3, <2>4, <2>5, <2>6, <2>7, <2>8, <2>9, <2>10, <2>11, <2>12, <2>13
      DEF ManageNext, manageVars, callVars, ElsewhereUnsubscribed, ElsewhereRetired,
          ElsewhereRestored
  <1>3. ManageTypeInv => ManageTypeOK
    BY DEF ManageTypeInv
  <1> QED
    BY <1>1, <1>2, <1>3, ManageInvariance, PTL DEF ManageSpec

\* Whoever else writes the row, and however late, what the page comes to say of its
\* link was so at some time while the call ran.
THEOREM ManageTruth == ManageSpec => ShownAsItWas
  <1> DEFINE Shown == /\ view' # view /\ view' \in {"active", "unsubscribed", "invalid"}
                      /\ token' = "link"
                      => Meaning(view') \in seen'
  <1>1. ManageInv /\ [ManageNext]_manageVars => [Shown]_manageVars
    <2> SUFFICES ASSUME ManageInv, ManageNext, view' # view, token' = "link",
                        view' \in {"active", "unsubscribed", "invalid"}
                 PROVE  Meaning(view') \in seen'
      BY DEF manageVars
    <2>1. CASE Reload \/ \E fragment \in {"none", "link", "other"} : OpenLink(fragment)
      BY <2>1 DEF Reload, OpenLink, Mount
    <2>2. CASE ShowLookup
      <3>1. view' = lookup.answer /\ token' = token /\ seen' = seen
        BY <2>2 DEF ShowLookup, LookupShows, rowVars
      <3> QED
        BY <3>1 DEF ManageInv, Truthful
    <2>3. CASE ShowRemoval
      <3>1. view' = removal.answer /\ token' = token /\ seen' = seen
        BY <2>3 DEF ShowRemoval, rowVars
      <3> QED
        BY <3>1 DEF ManageInv, Truthful
    <2> QED
      BY <2>1, <2>2, <2>3
      DEF ManageNext, pageVars, PasteFragment, LookupServed, LookupLost, ClickUnsubscribe,
          RemovalReads, RemovalWrites, RemovalServed, RemovalLost, ElsewhereUnsubscribed,
          ElsewhereRetired, ElsewhereRestored
  <1> QED
    BY <1>1, ManageInvariance, PTL DEF ManageSpec, ShownAsItWas

\* Once off the list, no late answer of the look-up brings the button back.
THEOREM ManageRemoval == ManageSpec => RemovalIsNotUndone
  <1>1. ManageInv /\ [ManageNext]_manageVars =>
          [view = "unsubscribed" /\ loads' = loads => view' # "active"]_manageVars
    <2> SUFFICES ASSUME ManageInv, ManageNext, view = "unsubscribed", loads' = loads,
                        view' = "active"
                 PROVE  FALSE
      BY DEF manageVars
    <2>1. CASE Reload \/ \E fragment \in {"none", "link", "other"} : OpenLink(fragment)
      BY <2>1 DEF Reload, OpenLink, Mount, ManageInv
    <2>2. CASE ShowLookup
      BY <2>2 DEF ShowLookup, LookupShows, ManageInv
    <2>3. CASE ShowRemoval
      BY <2>3 DEF ShowRemoval, ManageInv, RemovalAnswers
    <2> QED
      BY <2>1, <2>2, <2>3
      DEF ManageNext, pageVars, PasteFragment, LookupServed, LookupLost, ClickUnsubscribe,
          RemovalReads, RemovalWrites, RemovalServed, RemovalLost, ElsewhereUnsubscribed,
          ElsewhereRetired, ElsewhereRestored
  <1> QED
    BY <1>1, ManageInvariance, PTL DEF ManageSpec, RemovalIsNotUndone

-----------------------------------------------------------------------------
\* The motion islands.

IslandState == {"idle", "loading", "still", "animated", "returned", "threw", "failed"}

Threw(i) == \E v \in Visits : island[v][i] = "threw"

\* A flag is up for the animation of the current visit, or was left by a set-up that
\* threw; no visit to come has begun, and no frame is pending on a page that is left.
MotionInv ==
    /\ ready \in [Islands -> BOOLEAN]
    /\ island \in [Visits -> [Islands -> IslandState]]
    /\ visit \in 0..MaxVisits
    /\ mounted \in BOOLEAN
    /\ mounted => visit # 0
    /\ \A v \in Visits : v > visit => \A i \in Islands : island[v][i] = "idle"
    /\ \A i \in Islands : ready[i] =>
          \/ mounted /\ island[visit][i] = "animated"
          \/ Threw(i)
    /\ ~mounted => ~night /\ ~scrollFrame

\* A step in which one island of a visit goes on.
LEMMA IslandStep ==
    ASSUME MotionInv, NEW v \in Visits, NEW i \in Islands, NEW s \in IslandState,
           island[v][i] = "loading",
           island' = [island EXCEPT ![v][i] = s],
           ready' \in [Islands -> BOOLEAN],
           \A j \in Islands \ {i} : ready'[j] => ready[j],
           ready'[i] => ready[i] \/ s = "threw" \/ (s = "animated" /\ v = visit /\ mounted),
           UNCHANGED <<visit, mounted, night, scrollFrame>>
    PROVE  MotionInv'
  <1>1. \A u \in Visits, j \in Islands :
           island'[u][j] = IF u = v /\ j = i THEN s ELSE island[u][j]
    BY DEF MotionInv
  <1>2. island' \in [Visits -> [Islands -> IslandState]]
    BY DEF MotionInv
  <1>3. ASSUME NEW u \in Visits, u > visit, NEW j \in Islands
        PROVE  island'[u][j] = "idle"
    <2>1. island[u][j] = "idle" /\ u # v
      BY <1>3 DEF MotionInv
    <2> QED
      BY <1>1, <2>1
  <1>4. ASSUME NEW j \in Islands, Threw(j) PROVE Threw(j)'
    <2>1. PICK u \in Visits : island[u][j] = "threw"
      BY <1>4 DEF Threw
    <2>2. island'[u][j] = "threw"
      BY <1>1, <2>1
    <2> QED
      BY <2>2 DEF Threw
  <1>5. mounted => visit \in Visits
    BY MaxVisitsAssumption DEF MotionInv, Visits
  <1>6. ASSUME NEW j \in Islands, ready'[j]
        PROVE  (mounted /\ island'[visit][j] = "animated") \/ Threw(j)'
    <2>1. CASE ready[j]
      <3>1. CASE mounted /\ island[visit][j] = "animated"
        BY <1>1, <1>5, <3>1
      <3>2. CASE Threw(j)
        BY <1>4, <3>2
      <3> QED
        BY <2>1, <3>1, <3>2 DEF MotionInv
    <2>2. CASE j = i /\ s = "threw"
      BY <1>1, <2>2 DEF Threw
    <2>3. CASE j = i /\ s = "animated" /\ v = visit /\ mounted
      BY <1>1, <2>3
    <2> QED
      BY <1>6, <2>1, <2>2, <2>3
  <1> QED
    BY <1>2, <1>3, <1>4, <1>6 DEF MotionInv

\* A visit that is not over and is loading is the current one.
LEMMA LoadingIsCurrent ==
    ASSUME MotionInv, NEW v \in Visits, NEW i \in Islands, island[v][i] = "loading",
           ~Disposed(v)
    PROVE  v = visit /\ mounted
  <1>1. v <= visit
    BY DEF MotionInv, Visits
  <1> QED
    BY <1>1, MaxVisitsAssumption DEF Disposed, MotionInv, Visits

\* Every step of the document.
LEMMA MotionInvStep ==
    ASSUME MotionInv, [MotionNext]_motionVars
    PROVE  MotionInv'
  <1>1. CASE UNCHANGED <<ready, visit, mounted, island, scrollVars>>
    BY <1>1 DEF MotionInv, Threw, scrollVars
  <1>2. ASSUME NEW motionAllowed, NEW inverted, Visit(motionAllowed, inverted)
        PROVE  MotionInv'
    <2> DEFINE fresh == [i \in Islands |-> IF motionAllowed THEN "loading" ELSE "still"]
    <2>1. /\ visit + 1 \in Visits /\ ~mounted /\ visit' = visit + 1 /\ mounted'
          /\ island' = [island EXCEPT ![visit + 1] = fresh]
          /\ ready' = ready /\ mounted' \in BOOLEAN
      BY <1>2, MaxVisitsAssumption DEF Visit, MotionInv, Visits
    <2>2. fresh \in [Islands -> IslandState]
      BY DEF IslandState
    <2>3. \A i \in Islands : island[visit + 1][i] = "idle"
      BY <2>1 DEF MotionInv
    <2> HIDE DEF fresh
    <2>4. \A v \in Visits : v # visit + 1 => island'[v] = island[v]
      BY <2>1 DEF MotionInv
    <2>5. ASSUME NEW v \in Visits, v > visit', NEW i \in Islands
          PROVE  island'[v][i] = "idle"
      <3>1. v # visit + 1 /\ v > visit
        BY <2>1, <2>5 DEF MotionInv, Visits
      <3> QED
        BY <2>4, <3>1 DEF MotionInv
    <2>6. ASSUME NEW i \in Islands, ready'[i] PROVE Threw(i)'
      <3>1. PICK v \in Visits : island[v][i] = "threw"
        BY <2>1, <2>6 DEF MotionInv, Threw
      <3>2. v # visit + 1
        BY <2>3, <3>1
      <3>3. island'[v][i] = "threw"
        BY <2>4, <3>1, <3>2
      <3> QED
        BY <3>3 DEF Threw
    <2>7. island' \in [Visits -> [Islands -> IslandState]]
      BY <2>1, <2>2 DEF MotionInv
    <2>8. visit' \in 0..MaxVisits /\ visit' # 0
      BY <2>1, MaxVisitsAssumption DEF Visits, MotionInv
    <2> QED
      BY <2>1, <2>5, <2>6, <2>7, <2>8 DEF MotionInv
  <1>3. ASSUME NEW v \in Visits, NEW i \in Islands, EngineArrives(v, i)
        PROVE  MotionInv'
    <2>1. CASE Disposed(v)
      BY <1>3, <2>1, IslandStep DEF EngineArrives, scrollVars, MotionInv, IslandState
    <2>2. CASE ~Disposed(v)
      <3>1. v = visit /\ mounted
        BY <1>3, <2>2, LoadingIsCurrent DEF EngineArrives
      <3>2. /\ ready' = [ready EXCEPT ![i] = TRUE]
            /\ island' = [island EXCEPT ![v][i] = "animated"]
            /\ UNCHANGED <<visit, mounted, night, scrollFrame>>
            /\ island[v][i] = "loading"
        BY <1>3, <2>2 DEF EngineArrives, scrollVars
      <3>3. ready' \in [Islands -> BOOLEAN] /\ \A j \in Islands \ {i} : ready'[j] = ready[j]
        BY <3>2 DEF MotionInv
      <3> QED
        BY <3>1, <3>2, <3>3, IslandStep DEF IslandState
    <2> QED
      BY <2>1, <2>2
  <1>4. ASSUME NEW v \in Visits, NEW i \in Islands, EngineFails(v, i)
        PROVE  MotionInv'
    BY <1>4, IslandStep DEF EngineFails, scrollVars, MotionInv, IslandState
  <1>5. ASSUME NEW v \in Visits, NEW i \in Islands, NEW raised \in BOOLEAN,
               SetupThrows(v, i, raised)
        PROVE  MotionInv'
    <2>1. /\ ready' = [ready EXCEPT ![i] = @ \/ raised]
          /\ island' = [island EXCEPT ![v][i] = "threw"]
          /\ UNCHANGED <<visit, mounted, night, scrollFrame>>
          /\ island[v][i] = "loading"
      BY <1>5 DEF SetupThrows, scrollVars
    <2>2. ready' \in [Islands -> BOOLEAN] /\ \A j \in Islands \ {i} : ready'[j] = ready[j]
      BY <2>1 DEF MotionInv
    <2> QED
      BY <2>1, <2>2, IslandStep DEF IslandState
  <1>6. CASE Unmount
    <2>1. /\ mounted /\ mounted' = FALSE /\ ~night' /\ ~scrollFrame'
          /\ ready' = [i \in Islands |-> ready[i] /\ island[visit][i] # "animated"]
          /\ visit' = visit /\ island' = island
      BY <1>6 DEF Unmount, FrameAfterUnmount
    <2>2. ready' \in [Islands -> BOOLEAN]
      BY <2>1 DEF MotionInv
    <2>3. ASSUME NEW i \in Islands, ready'[i] PROVE Threw(i)'
      BY <2>1, <2>3 DEF MotionInv, Threw
    <2> QED
      BY <2>1, <2>2, <2>3 DEF MotionInv
  <1>7. CASE ScheduleUpdate \/ \E inverted \in BOOLEAN : Update(inverted)
    <2>1. mounted /\ UNCHANGED <<ready, visit, mounted, island>>
      BY <1>7 DEF ScheduleUpdate, Update, MotionInv
    <2> QED
      BY <2>1 DEF MotionInv, Threw
  <1> QED
    BY <1>1, <1>2, <1>3, <1>4, <1>5, <1>6, <1>7
    DEF MotionNext, motionVars, Preflight, PreflightTimeout, scrollVars

\* The flags, the visits and the pending frame stay in step.
THEOREM MotionInvariance == MotionSpec => []MotionInv
  <1>1. MotionInit => MotionInv
    <2> SUFFICES ASSUME MotionInit PROVE MotionInv
      OBVIOUS
    <2>1. visit = 0 /\ mounted = FALSE /\ night = FALSE /\ scrollFrame = FALSE
      BY DEF MotionInit
    <2>4. 0 \in 0..MaxVisits
      BY MaxVisitsAssumption
    <2>2. ready \in [Islands -> BOOLEAN] /\ \A i \in Islands : ~ready[i]
      BY DEF MotionInit
    <2>3. /\ island \in [Visits -> [Islands -> IslandState]]
          /\ \A v \in Visits, i \in Islands : island[v][i] = "idle"
      BY DEF MotionInit, IslandState
    <2> QED
      BY <2>1, <2>2, <2>3, <2>4 DEF MotionInv
  <1> QED
    BY <1>1, MotionInvStep, PTL DEF MotionSpec

\* On any number of visits the document's class is one the style sheet knows.
THEOREM MotionTypes == MotionSpec => []MotionTypeOK
  <1> DEFINE Class == motionClass \in {"none", "enabled", "fallback"}
  <1>1. MotionInit => Class
    BY DEF MotionInit
  <1>2. Class /\ [MotionNext]_motionVars => Class'
    BY DEF motionVars, classVars, MotionNext, Preflight, PreflightTimeout, Visit,
           EngineArrives, EngineFails, SetupThrows, ClassAfterCatch, Unmount,
           ScheduleUpdate, Update
  <1>3. MotionInv /\ Class => MotionTypeOK
    BY DEF MotionInv, MotionTypeOK
  <1> QED
    BY <1>1, <1>2, <1>3, MotionInvariance, PTL DEF MotionSpec

\* On any number of visits, and whenever the engine arrives, fails or throws, a page
\* that is left leaves no flag up and no night theme behind.
THEOREM MotionCleanUp == MotionSpec => []NothingOutlivesThePage
  <1>1. MotionInv => NothingOutlivesThePage
    BY DEF MotionInv, Threw, NothingOutlivesThePage
  <1> QED
    BY <1>1, MotionInvariance, PTL

-----------------------------------------------------------------------------
\* The start-up of the error reporting.

\* The flag is up when one init has returned, and a client that has loaded is started.
SentryInv ==
    /\ enabled \in {"unset", "on", "off"}
    /\ started \in BOOLEAN
    /\ inits = IF started THEN 1 ELSE 0
    /\ client # "none" => enabled = "on"
    /\ client = "resolved" => started
    /\ DOMAIN transition = Transitions /\ DOMAIN report = RenderErrors
    /\ \A t \in Transitions : transition[t] = "recorded" => started
    /\ \A e \in RenderErrors : report[e] = "captured" => started

\* Every step of the page keeps that.
LEMMA SentryInvStep ==
    ASSUME SentryInv, [SentryNext]_sentryVars
    PROVE  SentryInv'
  <1>1. CASE UNCHANGED sentryVars
    BY <1>1 DEF sentryVars, SentryInv
  <1>2. CASE \E setting \in {"on", "off"} : OpenPage(setting)
    BY <1>2 DEF OpenPage, SentryInv
  <1>3. CASE StartAfterLoad
    BY <1>3 DEF StartAfterLoad, LoadSentry, SentryInv
  <1>4. CASE \E t \in Transitions : RouterTransition(t)
    <2>1. PICK t \in Transitions : RouterTransition(t)
      BY <1>4
    <2>2. \A u \in Transitions : transition'[u] = "recorded" => started
      BY <2>1 DEF RouterTransition, SentryInv
    <2> QED
      BY <2>1, <2>2 DEF RouterTransition, LoadSentry, SentryInv
  <1>5. ASSUME EnsureStarted
        PROVE  /\ started' \in BOOLEAN /\ inits' = (IF started' THEN 1 ELSE 0)
               /\ started => started'
               /\ enabled = "on" => started'
    <2>1. CASE EnsureNoOp /\ UNCHANGED <<started, inits, failures>>
      BY <2>1 DEF EnsureNoOp, SentryInv
    <2>2. CASE InitReturns
      BY <2>2 DEF InitReturns, EnsureNoOp, SentryInv
    <2> QED
      BY <1>5, <2>1, <2>2 DEF EnsureStarted
  <1>6. CASE ClientLoads
    <2>1. started' /\ inits' = 1
      BY <1>5, <1>6 DEF ClientLoads, SentryInv
    <2> QED
      BY <1>5, <1>6, <2>1 DEF ClientLoads, SentryInv
  <1>7. ASSUME InitThrows PROVE started' = started /\ inits' = inits
    BY <1>7 DEF InitThrows, StartedAfterThrow
  <1>8. CASE ClientFails
    <2>1. started' = started /\ inits' = inits
      BY <1>7, <1>8 DEF ClientFails
    <2>2. /\ client' = "none" /\ enabled' = enabled /\ report' = report
          /\ transition' = [t \in Transitions |->
                              IF transition[t] = "waiting" THEN "lost" ELSE transition[t]]
      BY <1>8 DEF ClientFails, ClientAfterFailure
    <2> QED
      BY <2>1, <2>2 DEF SentryInv
  <1>9. ASSUME NEW e \in RenderErrors, RenderError(e) PROVE SentryInv'
    BY <1>9 DEF RenderError, SentryInv
  <1>10. ASSUME NEW e \in RenderErrors, BoundaryCaptures(e) PROVE SentryInv'
    <2>1. UNCHANGED <<enabled, client, transition>>
      BY <1>10 DEF BoundaryCaptures
    <2>2. \A o \in RenderErrors : report'[o] = "captured" => started'
      BY <1>5, <1>10 DEF BoundaryCaptures, SentryInv
    <2>3. DOMAIN report' = RenderErrors
      BY <1>10 DEF BoundaryCaptures, SentryInv
    <2> QED
      BY <1>5, <1>10, <2>1, <2>2, <2>3 DEF BoundaryCaptures, SentryInv
  <1>11. ASSUME NEW e \in RenderErrors, BoundaryFails(e) PROVE SentryInv'
    <2>1. started' = started /\ inits' = inits
      BY <1>7, <1>11 DEF BoundaryFails
    <2> QED
      BY <1>11, <2>1 DEF BoundaryFails, SentryInv
  <1> QED
    BY <1>1, <1>2, <1>3, <1>4, <1>6, <1>8, <1>9, <1>10, <1>11 DEF SentryNext

\* The flag, the client and what was handed to it stay in step.
THEOREM SentryInvariance == SentrySpec => []SentryInv
  <1>1. SentryInit => SentryInv
    BY DEF SentryInit, SentryInv
  <1> QED
    BY <1>1, SentryInvStep, PTL DEF SentrySpec

\* The start-up that waits for its one retry still has it.
SentryTypeInv ==
    /\ SentryTypeOK
    /\ startup = "retry" => retriesLeft = 1

\* However fetches and inits fail, the start-up retries at most once.
THEOREM SentryTypes == SentrySpec => []SentryTypeOK
  <1>1. SentryInit => SentryTypeInv
    BY DEF SentryInit, SentryTypeInv, SentryTypeOK
  <1>2. SentryTypeInv /\ [SentryNext]_sentryVars => SentryTypeInv'
    <2> SUFFICES ASSUME SentryTypeInv, [SentryNext]_sentryVars PROVE SentryTypeInv'
      OBVIOUS
    <2>1. /\ retriesLeft = 0 \/ retriesLeft = 1
          /\ startup = "retry" => retriesLeft = 1
      BY DEF SentryTypeInv, SentryTypeOK
    <2>2. CASE UNCHANGED sentryVars
      BY <2>2 DEF sentryVars, SentryTypeInv, SentryTypeOK
    <2>3. CASE \E setting \in {"on", "off"} : OpenPage(setting)
      BY <2>3 DEF OpenPage, SentryTypeInv, SentryTypeOK
    <2>4. CASE StartAfterLoad
      <3>1. /\ startup' \in {"done", "waiting"} /\ client' \in {"none", "pending", "resolved"}
            /\ enabled' = enabled
        BY <2>4 DEF StartAfterLoad, LoadSentry, SentryTypeInv, SentryTypeOK
      <3>2. retriesLeft' = 0 \/ retriesLeft' = 1
        BY <2>1, <2>4 DEF StartAfterLoad
      <3> QED
        BY <3>1, <3>2 DEF SentryTypeInv, SentryTypeOK
    <2>5. CASE \E t \in Transitions : RouterTransition(t)
      BY <2>5 DEF RouterTransition, LoadSentry, SentryTypeInv, SentryTypeOK
    <2>6. CASE ClientLoads
      BY <2>6 DEF ClientLoads, SentryTypeInv, SentryTypeOK
    <2>7. CASE ClientFails
      <3>1. /\ startup' = IF startup # "waiting" THEN startup
                          ELSE IF retriesLeft > 0 THEN "retry" ELSE "gave up"
            /\ client' = "none" /\ UNCHANGED <<enabled, retriesLeft>>
        BY <2>7 DEF ClientFails, ClientAfterFailure
      <3>2. startup' = "retry" => retriesLeft = 1
        BY <2>1, <3>1
      <3> QED
        BY <3>1, <3>2 DEF SentryTypeInv, SentryTypeOK
    <2>8. CASE \E e \in RenderErrors : RenderError(e) \/ BoundaryCaptures(e) \/ BoundaryFails(e)
      BY <2>8 DEF RenderError, BoundaryCaptures, BoundaryFails, SentryTypeInv, SentryTypeOK
    <2> QED
      BY <2>2, <2>3, <2>4, <2>5, <2>6, <2>7, <2>8 DEF SentryNext
  <1>3. SentryTypeInv => SentryTypeOK
    BY DEF SentryTypeInv
  <1> QED
    BY <1>1, <1>2, <1>3, PTL DEF SentrySpec

\* However the start-up, the transitions and the error boundaries race for the client,
\* and whichever of their fetches and inits fail, one client is started and nothing
\* counts as captured before it is.
THEOREM OneClient == SentrySpec => []CapturedByOneClient
  <1>1. SentryInv => CapturedByOneClient
    BY DEF SentryInv, CapturedByOneClient
  <1> QED
    BY <1>1, SentryInvariance, PTL

-----------------------------------------------------------------------------
\* The instance of the run Visits.

\* A step of the instance is a step of one part and a stutter of the others.
LEMMA VisitsStep ==
    ASSUME [VisitsNext]_visitVars
    PROVE  /\ [FormNext]_formVars /\ [ManageNext]_manageVars /\ [WordNext]_wordVars
           /\ [MotionNext]_motionVars /\ [SentryNext]_sentryVars
           /\ part' = part
  <1>1. CASE UNCHANGED visitVars
    BY <1>1 DEF visitVars
  <1>2. CASE VisitsNext
    BY <1>2 DEF VisitsNext, Others
  <1> QED
    BY <1>1, <1>2

\* The instance that the run Visits checks satisfies the specification of each of its
\* parts, fairness included, so that whatever is proved of a part holds in it.
THEOREM VisitsFollowTheirParts ==
    VisitsSpec => /\ FormSpec /\ ManageSpec /\ WordSpec /\ MotionSpec /\ SentrySpec
                  /\ [](part \in Parts)
  <1>1. VisitsInit =>
           /\ FormInit /\ ManageInit /\ WordInit /\ MotionInit /\ SentryInit
           /\ part \in Parts
    BY DEF VisitsInit
  <1>2. part \in Parts /\ part' = part => (part \in Parts)'
    OBVIOUS
  <1> QED
    BY <1>1, <1>2, VisitsStep, PTL
    DEF VisitsSpec, FormSpec, ManageSpec, WordSpec, MotionSpec, SentrySpec

\* Every part that runs in the visitor's browser stays within its types, for any number
\* of clicks, loads, words, visits, transitions and errors.
THEOREM VisitsTypes == VisitsSpec => []VisitsTypeOK
  <1>1. (/\ part \in Parts
         /\ FormTypeOK /\ ManageTypeOK /\ WordTypeOK /\ MotionTypeOK /\ SentryTypeOK)
        => VisitsTypeOK
    BY DEF VisitsTypeOK
  <1> QED
    BY <1>1, VisitsFollowTheirParts, FormTypes, ManageTypes, WordTypes, MotionTypes,
       SentryTypes, PTL

\* Every safety property that the run Visits checks holds for every value of its
\* constants.
THEOREM VisitsAreSafe ==
    VisitsSpec =>
        /\ [](/\ VisitsTypeOK
              /\ SettledWorkIsAnswered /\ SuccessIsNotRepeated
              /\ InteractionPauseEnds
              /\ NothingOutlivesThePage
              /\ CapturedByOneClient)
        /\ ShownAsItWas /\ RemovalIsNotUndone
        /\ ChosenWordIsBroughtIn /\ ScrollKeepsItsWord
  BY VisitsFollowTheirParts, VisitsTypes, SettledAnswers, OneSuccess, ManageTruth,
     PausesEnd, MotionCleanUp, OneClient, ManageRemoval, ChosenWordsComeIn,
     ScrollsKeepTheirWord, PTL

=============================================================================
