----------------------------- MODULE LaunchGate -----------------------------
(***************************************************************************)
(* The launch command: a dry run mails the release to the operator and     *)
(* prints its fingerprint; a production send takes the fingerprint that    *)
(* the operator hands on.  Each reads the release file anew, and each has  *)
(* the configuration of its own process, which may change in between.      *)
(***************************************************************************)
EXTENDS Configuration, Sequences

CONSTANTS ReleaseNotes, \* what a release file may announce, as a reader sees it
          MaxSends      \* bound on the mails to subscribers
ASSUME LaunchAssumption == MaxSends \in Nat /\ "none" \notin ReleaseNotes

\* The text of a file: the same release may be spelt in several ways; one more key, or
\* a download over HTTP, is refused.
Files == [release : ReleaseNotes,
          spelling : {"plain", "reordered", "extra key", "insecure download"}]

\* What the command line's process is configured with beyond Configuration.
LaunchSettings ==
    [stage : {"early-access", "launched"}, mail : {"complete", "partial"},
     secret : BOOLEAN, recipient : BOOLEAN]
LaunchEnvironment(s) ==
    [vercel |-> "unset", hosts |-> "none", pipeline |-> "on", stage |-> s.stage,
     site |-> "site", download |-> "store", server |-> "complete", captcha |-> "no site key",
     fake |-> "unset", mail |-> s.mail, dsn |-> "unset"]

VARIABLES
    releaseFile,    \* its text now
    commandLine,    \* [pc, settings, file read, fingerprint given] of the run in progress
    received,       \* the releases the operator was mailed
    fingerprints,   \* those a dry run printed
    announced       \* the releases mailed to subscribers, in order

launchVars == <<releaseFile, commandLine, received, fingerprints, announced>>

NoCommand == [pc |-> "idle"]

LaunchInit ==
    /\ releaseFile \in Files
    /\ commandLine = NoCommand
    /\ received = {} /\ fingerprints = {} /\ announced = <<>>

-----------------------------------------------------------------------------
\* parseLaunchInput.
Parses(file) == file.spelling \notin {"extra key", "insecure download"}

\* Every validated spelling of one release has one fingerprint, of no other release.
Fingerprint(file) == file.release

\* getLaunchOperations, for both operations: mail is delivered for real, in Actions too.
OperationsFail(s) ==
    \/ ServerConfigFails(LaunchEnvironment(s))
    \/ ~s.secret
    \/ ProvideProductionNotifications(LaunchEnvironment(s)) = "throws"

\* Anybody may edit the file at any moment, or name another one.
EditFile ==
    /\ releaseFile' \in Files \ {releaseFile}
    /\ UNCHANGED <<commandLine, received, fingerprints, announced>>

\* readReleaseInput, then the wiring: each command starts with both.
ReadFile(pc, s, fingerprint) ==
    /\ commandLine' = IF OperationsFail(s) THEN NoCommand
                      ELSE [pc |-> pc, settings |-> s, file |-> releaseFile,
                            fingerprint |-> fingerprint]
    /\ UNCHANGED <<releaseFile, received, fingerprints, announced>>

DryRun ==
    /\ commandLine.pc = "idle"
    /\ \E s \in LaunchSettings : ReadFile("dry run", s, "none")

\* The fingerprint is one that a dry run printed, or a guess.
ProductionRun ==
    /\ commandLine.pc = "idle"
    /\ \E s \in LaunchSettings, f \in fingerprints \cup {"none"} : ReadFile("production", s, f)

CommandFails ==
    /\ commandLine.pc # "idle"
    /\ commandLine' = NoCommand
    /\ UNCHANGED <<releaseFile, received, fingerprints, announced>>

-----------------------------------------------------------------------------
\* runLaunchDryRun: parse, require the configuration, mail the operator.
DryRunMail ==
    /\ commandLine.pc = "dry run"
    /\ Parses(commandLine.file)
    /\ commandLine.settings.stage = "launched" /\ commandLine.settings.recipient
    /\ \E outcome \in {"accepted", "rejected", "ambiguous"}, delivered \in BOOLEAN :
         /\ outcome = "accepted" => delivered
         /\ outcome = "rejected" => ~delivered
         /\ received' = received \cup (IF delivered THEN {commandLine.file.release} ELSE {})
         /\ commandLine' = [commandLine EXCEPT !.pc = outcome]
    /\ UNCHANGED <<releaseFile, fingerprints, announced>>

\* Mutant: the fingerprint is printed whatever the provider answered.
PrintsAnyway == commandLine.pc \in {"accepted", "rejected", "ambiguous"}

\* Anything but an accepted mail is thrown, and prints nothing.
DryRunAccepted == commandLine.pc = "accepted"

DryRunPrints ==
    /\ DryRunAccepted
    /\ fingerprints' = fingerprints \cup {Fingerprint(commandLine.file)}
    /\ commandLine' = NoCommand
    /\ UNCHANGED <<releaseFile, received, announced>>

-----------------------------------------------------------------------------
FingerprintMatches(c) == Fingerprint(c.file) = c.fingerprint

\* runLaunchProduction up to its loop, which LaunchSend models.
ProductionStarts ==
    /\ commandLine.pc = "production"
    /\ commandLine.settings.stage = "launched"
    /\ Parses(commandLine.file)
    /\ FingerprintMatches(commandLine)
    /\ commandLine' = [commandLine EXCEPT !.pc = "sending"]
    /\ UNCHANGED <<releaseFile, received, fingerprints, announced>>

\* One more subscriber: what is sent is what was read at the start.
ProductionSends ==
    /\ commandLine.pc = "sending"
    /\ Len(announced) < MaxSends
    /\ announced' = Append(announced, commandLine.file.release)
    /\ UNCHANGED <<releaseFile, commandLine, received, fingerprints>>

LaunchGateNext ==
    \/ EditFile \/ DryRun \/ ProductionRun \/ CommandFails
    \/ DryRunMail \/ DryRunPrints
    \/ ProductionStarts \/ ProductionSends

LaunchGateSpec == LaunchInit /\ [][LaunchGateNext]_launchVars

-----------------------------------------------------------------------------
\* A subscriber is only ever told what the operator has received in a dry run before,
\* from a file that the schema accepts, however the file is edited around the runs and
\* whatever the provider answered to the dry run.
OnlyReviewedReleasesGoOut ==
    /\ \A i \in DOMAIN announced : announced[i] \in received
    /\ commandLine.pc = "sending" =>
          commandLine.file.release \in received /\ Parses(commandLine.file)

=============================================================================
