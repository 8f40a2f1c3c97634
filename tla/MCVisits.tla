------------------------------ MODULE MCVisits ------------------------------
(***************************************************************************)
(* One instance for the parts that run in the visitor's browser and share  *)
(* no state.  A behaviour picks one part and follows it, so that the       *)
(* instance explores the sum of their state spaces, and each part keeps    *)
(* its own fairness.                                                       *)
(***************************************************************************)
EXTENDS SignupForm, ManagePage, WordBrowser, MotionIslands, BrowserMonitoring

VARIABLE part

Parts == {"form", "manage", "word", "motion", "sentry"}

visitVars == <<part, formVars, manageVars, wordVars, motionVars, sentryVars>>

VisitsInit ==
    /\ part \in Parts
    /\ FormInit /\ ManageInit /\ WordInit /\ MotionInit
    /\ SentryInit

\* A step of one part leaves the variables of the others alone.
Others(p) ==
    /\ part = p /\ UNCHANGED part
    /\ p # "form"      => UNCHANGED formVars
    /\ p # "manage"    => UNCHANGED manageVars
    /\ p # "word"      => UNCHANGED wordVars
    /\ p # "motion"    => UNCHANGED motionVars
    /\ p # "sentry"    => UNCHANGED sentryVars

VisitsNext ==
    \/ Others("form")      /\ FormNext
    \/ Others("manage")    /\ ManageNext
    \/ Others("word")      /\ WordNext
    \/ Others("motion")    /\ MotionNext
    \/ Others("sentry")    /\ SentryNext

\* No action that is owed by fairness is enabled in the initial state of a part, so
\* the parts that a behaviour does not follow owe nothing.
VisitsSpec ==
    /\ VisitsInit /\ [][VisitsNext]_visitVars
    /\ FormFairness /\ ManageFairness /\ WordFairness /\ MotionFairness /\ SentryFairness

-----------------------------------------------------------------------------
\* Every part stays within the values its code can produce.
VisitsTypeOK ==
    /\ part \in Parts
    /\ FormTypeOK /\ ManageTypeOK /\ WordTypeOK /\ MotionTypeOK
    /\ SentryTypeOK

=============================================================================
