--------------------------- MODULE MCEarlyAccess ---------------------------
(***************************************************************************)
(* Instances of EarlyAccess for TLC; each .cfg gives the constants their   *)
(* values and says which properties the instance keeps or breaks.          *)
(***************************************************************************)
EXTENDS EarlyAccessProperties

\* For the launch: everyone has joined, was confirmed the day before, and holds
\* the link of that mail.  Init reaches these states; starting from them leaves
\* room for more rows.
AddressOf ==
    CHOOSE f \in [Ids -> Emails] : \A i, j \in Ids : f[i] = f[j] => i = j

ConfirmedRow(id) ==
    [FreshRow(AddressOf[id], GeneratedToken(id)) EXCEPT
        !.confirmationStatus = "sent",
        !.confirmationAttemptCount = 1]

InitConfirmed ==
    /\ rows = [id \in Ids |-> ConfirmedRow(id)]
    /\ ledger = {}
    /\ inbox = {[id |-> id, token |-> GeneratedToken(id)] : id \in Ids}
    /\ launchMails = [id \in Ids |-> 0]
    /\ task = [w \in Worker |-> Idle]
    /\ minted = MaxMinted
    /\ now = 0
    /\ aborts = 0
    /\ launchRuns = 0

LaunchSpec == InitConfirmed /\ [][Next]_vars
FairLaunchSpec == LaunchSpec /\ Fairness

=============================================================================
