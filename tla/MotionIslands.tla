--------------------------- MODULE MotionIslands ---------------------------
(***************************************************************************)
(* The motion of the landing page: the preflight script, which hides what  *)
(* is to be animated and shows it again if the islands are not ready in    *)
(* time, and the three islands (hero, scrollytelling, page), which load    *)
(* the engine on every visit of the page and take down what they set up    *)
(* when the visitor moves on.  Client-side navigation leaves the document, *)
(* its classes and its flags in place.                                     *)
(***************************************************************************)
EXTENDS Naturals

CONSTANT MaxVisits      \* bound on the visits of the landing page in one document
ASSUME MaxVisitsAssumption == MaxVisits \in Nat \ {0}

Islands == {"hero", "scrollytelling", "page"}
Visits  == 1..MaxVisits

VARIABLES
    motionClass,   \* of the document: "none", "enabled" (hides), "fallback"
    deadline,      \* the preflight's timer is armed
    ready,         \* [Islands -> BOOLEAN], the data-*-motion-ready flags
    visit,         \* the current or last visit of the page
    mounted,
    island,        \* [Visits -> [Islands -> what the effect of that visit did]]
    engine,        \* the engine's modules have been loaded once
    night,         \* body.theme-night
    scrollFrame    \* an update of PageMotion is requested

motionVars == <<motionClass, deadline, ready, visit, mounted, island, engine,
                night, scrollFrame>>
classVars  == <<motionClass, deadline>>
scrollVars == <<night, scrollFrame>>

MotionInit ==
    /\ motionClass = "none" /\ deadline = FALSE
    /\ ready = [i \in Islands |-> FALSE]
    /\ visit = 0 /\ mounted = FALSE
    /\ island = [v \in Visits |-> [i \in Islands |-> "idle"]]
    /\ engine = FALSE
    /\ night = FALSE /\ scrollFrame = FALSE

-----------------------------------------------------------------------------
\* motion-preflight.js, before anything is interactive.
Preflight(reducedMotion) ==
    /\ motionClass = "none"
    /\ motionClass' = IF reducedMotion THEN "fallback" ELSE "enabled"
    /\ deadline' = ~reducedMotion
    /\ UNCHANGED <<ready, visit, mounted, island, engine, scrollVars>>

AllReady == \A i \in Islands : ready[i]

PreflightTimeout ==
    /\ deadline
    /\ deadline' = FALSE
    /\ motionClass' = IF AllReady THEN motionClass ELSE "fallback"
    /\ UNCHANGED <<ready, visit, mounted, island, engine, scrollVars>>

\* The effects of a visit start loading the engine, if motion is allowed; the page's
\* also looks where the page is scrolled to.
Visit(motionAllowed, inverted) ==
    /\ motionClass # "none" /\ ~mounted /\ visit < MaxVisits
    /\ visit' = visit + 1 /\ mounted' = TRUE
    /\ island' = [island EXCEPT
                    ![visit + 1] = [i \in Islands |-> IF motionAllowed THEN "loading" ELSE "still"]]
    /\ night' = inverted
    /\ UNCHANGED <<classVars, ready, engine, scrollFrame>>

\* disposed, in the closure of the visit's effect.
Disposed(v) == v < visit \/ ~mounted

\* The engine is there: nothing is done for a visit that is over; otherwise the island
\* is animated and raises its flag.
EngineArrives(v, i) ==
    /\ island[v][i] = "loading"
    /\ engine' = TRUE
    /\ IF Disposed(v)
       THEN island' = [island EXCEPT ![v][i] = "returned"] /\ UNCHANGED ready
       ELSE /\ island' = [island EXCEPT ![v][i] = "animated"]
            /\ ready' = [ready EXCEPT ![i] = TRUE]
    /\ UNCHANGED <<classVars, visit, mounted, scrollVars>>

\* Mutant: the catch leaves the class to the preflight's timer.
ClassKept == motionClass

\* The catch of an island's effect.
ClassAfterCatch == "fallback"

\* The set-up throws after the flag was raised, or (the only way for the page, whose
\* flag comes last) before: the class falls back, and no teardown was stored.
SetupThrows(v, i, raised) ==
    /\ island[v][i] = "loading" /\ ~Disposed(v)
    /\ i = "page" => ~raised
    /\ engine' = TRUE
    /\ island' = [island EXCEPT ![v][i] = "threw"]
    /\ ready' = [ready EXCEPT ![i] = @ \/ raised]
    /\ motionClass' = ClassAfterCatch
    /\ UNCHANGED <<deadline, visit, mounted, scrollVars>>

\* The import fails (never again once the modules are loaded); the catch does not ask
\* whether the visit is over.
EngineFails(v, i) ==
    /\ island[v][i] = "loading" /\ ~engine
    /\ island' = [island EXCEPT ![v][i] = "failed"]
    /\ motionClass' = ClassAfterCatch
    /\ UNCHANGED <<deadline, ready, visit, mounted, engine, scrollVars>>

\* Mutant: the update that is pending is left to run.
FrameLeftPending == scrollFrame

\* The frame is cancelled.
FrameAfterUnmount == FALSE

\* The cleanups: each island takes down what it stored a teardown for.
Unmount ==
    /\ mounted
    /\ mounted' = FALSE
    /\ ready' = [i \in Islands |-> ready[i] /\ island[visit][i] # "animated"]
    /\ night' = FALSE
    /\ scrollFrame' = FrameAfterUnmount
    /\ UNCHANGED <<classVars, visit, island, engine>>

-----------------------------------------------------------------------------
\* A scroll or a resize asks for one update per frame.
ScheduleUpdate ==
    /\ mounted /\ ~scrollFrame
    /\ scrollFrame' = TRUE
    /\ UNCHANGED <<classVars, ready, visit, mounted, island, engine, night>>

Update(inverted) ==
    /\ scrollFrame
    /\ scrollFrame' = FALSE
    /\ night' = inverted
    /\ UNCHANGED <<classVars, ready, visit, mounted, island, engine>>

MotionNext ==
    \/ \E reducedMotion \in BOOLEAN : Preflight(reducedMotion)
    \/ PreflightTimeout
    \/ \E motionAllowed, inverted \in BOOLEAN : Visit(motionAllowed, inverted)
    \/ \E v \in Visits, i \in Islands :
         \/ EngineArrives(v, i) \/ EngineFails(v, i)
         \/ \E raised \in BOOLEAN : SetupThrows(v, i, raised)
    \/ Unmount
    \/ ScheduleUpdate \/ \E inverted \in BOOLEAN : Update(inverted)

\* Timers fire; modules that are loaded already resolve their import, and the set-up
\* runs or throws.  A first load may hang for ever.
MotionFairness ==
    /\ WF_motionVars(PreflightTimeout)
    /\ \A v \in Visits, i \in Islands :
         WF_motionVars(engine /\ (EngineArrives(v, i) \/ SetupThrows(v, i, FALSE)))

MotionSpec == MotionInit /\ [][MotionNext]_motionVars /\ MotionFairness

-----------------------------------------------------------------------------
MotionTypeOK ==
    /\ motionClass \in {"none", "enabled", "fallback"}
    /\ ready \in [Islands -> BOOLEAN]
    /\ visit \in 0..MaxVisits

\* A page that is left leaves nothing behind that it set up: no flag is up, unless the
\* set-up that raised it threw before it stored its teardown, and the night theme of
\* the philosophy section does not spread to the next page.
NothingOutlivesThePage ==
    ~mounted =>
        /\ ~night
        /\ \A i \in Islands : ready[i] => \E v \in Visits : island[v][i] = "threw"

\* What the preflight hid is shown again, by the animation or by the fallback, on every
\* visit and even if the engine never comes (landing.css hides under motion-enabled).
\* (Not on a visit that finds reduced motion turned on since the preflight ran: the
\* class still hides, and the islands keep still.)
Readable ==
    motionClass = "fallback" \/ \A i \in Islands : island[visit][i] = "animated"
MotionWanted == mounted /\ \A i \in Islands : island[visit][i] # "still"
PageBecomesReadable == MotionWanted ~> (~mounted \/ Readable)

=============================================================================
