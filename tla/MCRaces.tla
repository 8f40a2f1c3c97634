------------------------------ MODULE MCRaces ------------------------------
(***************************************************************************)
(* The invocations against each other, in two scenes: every kind of them   *)
(* for one address, and joins only, for every address, of which some may   *)
(* be cut short.  The aborts that are left tell the scenes apart: none in  *)
(* the first, at least two in the second, so that no abort leads from one  *)
(* to the other.                                                           *)
(***************************************************************************)
EXTENDS EarlyAccessProperties, TLC

OneAddress == CHOOSE e \in Emails : TRUE

\* Workers run the same code: TLC may treat them as interchangeable.
WorkerSymmetry == Permutations(Worker)

\* An empty table, before any abort or after the last one.
RacesInit ==
    /\ rows = [id \in Ids |-> Null]
    /\ MailInit
    /\ task = [w \in Worker |-> Idle]
    /\ minted = 0
    /\ now = 0
    /\ aborts \in {0, MaxAborts}
    /\ launchRuns = 0

RacesSpec == RacesInit /\ [][Next]_vars

OneAddressOnly ==
    /\ aborts = MaxAborts
    /\ \A w \in Worker : task[w].email \in {OneAddress, Null}

JoinsOnly ==
    /\ aborts + 2 <= MaxAborts
    /\ now = 0
    /\ \A w \in Worker : task[w].job \in {"none", "join"}

Scenes == OneAddressOnly \/ JoinsOnly

\* However many signups race over an address, they make one row and mail one
\* confirmation at most (join-early-access.use-case.ts, the fallback on the unique index;
\* spec 6.2), as long as nobody leaves the list in between.
RacingJoinsMakeOneSignup == JoinsOnly => OneConfirmationPerSignup

=============================================================================
