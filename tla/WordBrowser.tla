---------------------------- MODULE WordBrowser ----------------------------
(***************************************************************************)
(* LivingLexiconClient: a track of words that scrolls by itself, that the  *)
(* visitor drags, wheels, clicks and steers with the arrow keys, and that  *)
(* follows its own scroll position.  The interval, the resume timer, the   *)
(* scroll frame and the handlers interleave; React commits what one of     *)
(* them sets before the next event runs.  The track has a place at every   *)
(* word and one between two neighbours.  Left out: userDriven (aria-live), *)
(* the progress bar, the practised word and the opacity of the words.      *)
(***************************************************************************)
EXTENDS Integers

CONSTANT Words          \* entries.length
\* The demo lexicon is a constant of the repository with several entries; with a
\* single one the autoplay would step to an index of its own.
ASSUME WordsAssumption == Words \in Nat /\ Words >= 2

Index == 0..(Words - 1)
Place == 0..(2 * (Words - 1))
None  == -1

PlaceOf(i) == 2 * i
\* The first of the nearest words: a place between two is nearest to the left one.
Nearest(place) == place \div 2

VARIABLES
    word,        \* activeIndex
    paused,      \* [user |-> userPaused, visitor |-> interactionPaused]
    timer,       \* the resume timer is armed
    inView,
    reduced,     \* reducedMotion; "unset" before hydration
    direction,   \* directionRef
    fromScroll,  \* scrollSelectionRef
    target,      \* programmaticTargetRef, as the index of the word scrolled to
    place,       \* track.scrollLeft
    motion,      \* the smooth scroll under way: [to, by]
    frame,       \* the requested frame, with the activeIndex it closed over
    drag         \* dragRef: "none", "held", "moved"

wordVars == <<word, paused, timer, inView, reduced, direction, fromScroll, target,
              place, motion, frame, drag>>

trackVars == <<place, motion, frame>>
pauseVars == <<paused, timer>>

NoMotion == [to |-> None, by |-> "none"]

WordInit ==
    /\ word = 0
    /\ paused = [user |-> FALSE, visitor |-> FALSE]
    /\ timer = FALSE
    /\ inView = FALSE
    /\ reduced = "unset"
    /\ direction = 1
    /\ fromScroll = FALSE
    /\ target = None
    /\ place = 0
    /\ motion = NoMotion
    /\ frame = None
    /\ drag = "none"

Hydrated == reduced # "unset"

\* autoplayRunning: the interval is installed while it holds.
AutoplayRunning ==
    reduced = "no" /\ inView /\ ~paused.user /\ ~paused.visitor

-----------------------------------------------------------------------------
\* The frame a scroll event asks for, unless one is pending.
FrameAfterScroll == IF frame = None THEN word ELSE frame

\* scrollLexiconItem: at once under reduced motion, else a smooth scroll.
ScrollTo(i, by) ==
    IF place = PlaceOf(i) THEN motion' = NoMotion /\ UNCHANGED <<place, frame>>
    ELSE IF reduced' = "yes"
    THEN /\ place' = PlaceOf(i)
         /\ motion' = NoMotion
         /\ frame' = IF frame = None THEN word' ELSE frame
    ELSE motion' = [to |-> i, by |-> by] /\ UNCHANGED <<place, frame>>

\* The effect on [activeIndex, reducedMotion], run when one of them changed:
\* suppressed once for a word the track itself selected.
FollowWord(skip) ==
    IF word' = word /\ reduced' = reduced
    THEN fromScroll' = skip /\ UNCHANGED <<target, trackVars>>
    ELSE IF skip
    THEN fromScroll' = FALSE /\ UNCHANGED <<target, trackVars>>
    ELSE /\ fromScroll' = FALSE
         /\ target' = IF place # PlaceOf(word') THEN word' ELSE None
         /\ ScrollTo(word', "select")

\* select(index, _, scroll)
Select(i, scroll) == word' = i /\ FollowWord(~scroll)

PauseForInteraction ==
    IF reduced = "yes" THEN UNCHANGED pauseVars
    ELSE paused' = [paused EXCEPT !.visitor = TRUE] /\ timer' = TRUE

-----------------------------------------------------------------------------
\* Hydration reads the media query; the effects of the first commit scroll to the
\* first word, where the track is.
Hydrate(preference) ==
    /\ reduced = "unset"
    /\ reduced' = preference
    /\ UNCHANGED <<word, paused, timer, inView, direction, fromScroll, target,
                   trackVars, drag>>

MotionPreferenceChanges ==
    /\ Hydrated
    /\ reduced' = IF reduced = "yes" THEN "no" ELSE "yes"
    /\ Select(word, ~fromScroll)
    /\ UNCHANGED <<pauseVars, inView, direction, drag>>

IntersectionChanges ==
    /\ Hydrated
    /\ inView' = ~inView
    /\ UNCHANGED <<word, pauseVars, reduced, direction, fromScroll, target,
                   trackVars, drag>>

\* Mutant: the turn at the last word is forgotten.
BounceAtFirst == IF word <= 0 THEN 1 ELSE direction

\* Mutant: the direction is not kept between two ticks.
TurnAtLast == IF word >= Words - 1 THEN -1 ELSE 1

Bounce == IF word >= Words - 1 THEN -1 ELSE IF word <= 0 THEN 1 ELSE direction

\* Mutant: the interval leaves scrollSelectionRef as it is.
TickScrollsUnlessFlagged == ~fromScroll

\* The interval resets scrollSelectionRef: its word is always scrolled to.
TickScrolls == TRUE

Tick ==
    /\ AutoplayRunning
    /\ UNCHANGED <<pauseVars, inView, reduced, drag>>
    /\ direction' = Bounce
    /\ Select(word + Bounce, TickScrolls)

ResumeTimer ==
    /\ timer
    /\ timer' = FALSE
    /\ paused' = [paused EXCEPT !.visitor = FALSE]
    /\ UNCHANGED <<word, inView, reduced, direction, fromScroll, target, trackVars, drag>>

\* Mutant: the button forgets the pause whose timer it clears.
ToggledOnly == [paused EXCEPT !.user = ~@]

Toggled == [user |-> ~paused.user, visitor |-> FALSE]

\* The pause button, hidden under reduced motion.
PauseButton ==
    /\ reduced = "no"
    /\ paused' = Toggled
    /\ timer' = FALSE
    /\ UNCHANGED <<word, inView, reduced, direction, fromScroll, target, trackVars, drag>>

\* A click on a word, its focus, or an arrow key (to the clamped neighbour, which
\* it focuses).
ChooseWord(i) ==
    /\ Hydrated
    /\ UNCHANGED <<inView, reduced, direction, drag>>
    /\ Select(i, TRUE)
    /\ PauseForInteraction

-----------------------------------------------------------------------------
\* The browser moves a smooth scroll on by one place, with a scroll event.
SmoothScroll ==
    /\ motion # NoMotion
    /\ place' = IF place < PlaceOf(motion.to) THEN place + 1 ELSE place - 1
    /\ motion' = IF place' = PlaceOf(motion.to) THEN NoMotion ELSE motion
    /\ frame' = FrameAfterScroll
    /\ UNCHANGED <<word, pauseVars, inView, reduced, direction, fromScroll, target, drag>>

\* A wheel scrolls the track natively, which ends a smooth scroll.
Wheel(p) ==
    /\ Hydrated
    /\ p \in {place - 1, place + 1}
    /\ place' = p
    /\ motion' = NoMotion
    /\ frame' = FrameAfterScroll
    /\ PauseForInteraction
    /\ UNCHANGED <<word, inView, reduced, direction, fromScroll, target, drag>>

PointerDown ==
    /\ Hydrated
    /\ target' = None
    /\ drag' = "held"
    /\ PauseForInteraction
    /\ UNCHANGED <<word, inView, reduced, direction, fromScroll, trackVars>>

PointerMove(p) ==
    /\ drag # "none"
    /\ p # place
    /\ place' = p
    /\ motion' = NoMotion
    /\ frame' = FrameAfterScroll
    /\ drag' = "moved"
    /\ UNCHANGED <<word, pauseVars, inView, reduced, direction, fromScroll, target>>

\* finishDrag: back to the active word, with no target set.
PointerUp ==
    /\ drag # "none"
    /\ drag' = "none"
    /\ UNCHANGED <<word, inView, reduced, direction, fromScroll, target>>
    /\ ScrollTo(word, "drag")
    /\ IF drag = "moved" THEN PauseForInteraction ELSE UNCHANGED pauseVars

\* Mutant: the frame selects while the track moves to its target.
FrameSelectsAnyway == Nearest(place) # frame

\* Without a target a frame selects the nearest word if it differs from the one it
\* closed over.
FrameSelects == target = None /\ Nearest(place) # frame

Frame ==
    /\ frame # None
    /\ UNCHANGED <<pauseVars, inView, reduced, direction, drag, place, motion>>
    /\ frame' = None
    /\ target' = IF target # None /\ place = PlaceOf(target) THEN None ELSE target
    /\ IF FrameSelects
       THEN /\ word' = Nearest(place)
            /\ fromScroll' = (word' = word)     \* no effect clears the flag
       ELSE UNCHANGED <<word, fromScroll>>

WordNext ==
    \/ \E preference \in {"yes", "no"} : Hydrate(preference)
    \/ MotionPreferenceChanges \/ IntersectionChanges
    \/ Tick \/ ResumeTimer \/ PauseButton
    \/ \E i \in Index : ChooseWord(i)
    \/ SmoothScroll
    \/ \E p \in Place : Wheel(p) \/ PointerMove(p)
    \/ PointerDown \/ PointerUp
    \/ Frame

\* Timers fire, frames run and a smooth scroll goes on; nothing is owed by the visitor.
WordFairness ==
    /\ WF_wordVars(Tick)
    /\ WF_wordVars(ResumeTimer)
    /\ WF_wordVars(SmoothScroll)
    /\ WF_wordVars(Frame)

WordSpec == WordInit /\ [][WordNext]_wordVars /\ WordFairness

-----------------------------------------------------------------------------
WordTypeOK ==
    /\ word \in Index /\ place \in Place
    /\ direction \in {-1, 1}
    /\ target \in Index \cup {None} /\ frame \in Index \cup {None}
    /\ motion \in [to : Index, by : {"select", "drag"}] \cup {NoMotion}
    /\ drag \in {"none", "held", "moved"}

\* A pause by interaction has a timer that ends it: autoplay is never off for good
\* because the visitor touched the track, changed the preference or used the button.
InteractionPauseEnds == paused.visitor => timer

\* A word that the track did not select itself is scrolled to, whatever flag an
\* earlier selection left behind: the detail below is of the word in view.
ChosenWordIsBroughtIn ==
    [][word' # word /\ frame' = frame
         => motion'.to = word' \/ place' = PlaceOf(word')]_wordVars

\* A scroll that the page started to bring a word in never selects another one on its
\* way, whatever the frames see, unless a pointer is down.
ScrollKeepsItsWord ==
    [][motion.by = "select" /\ drag = "none" /\ frame # None /\ frame' = None
         => word' = word]_wordVars

\* Left alone, with no pointer down on it, the browser shows every word again and
\* again.  (A drag of more than seven seconds is no interaction any more: the timer
\* of its start runs out and the autoplay resumes under the pointer.)
AutoplayShowsEveryWord ==
    \A i \in Index : <>[](AutoplayRunning /\ drag = "none") => []<>(word = i)

=============================================================================
