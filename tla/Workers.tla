------------------------------ MODULE Workers ------------------------------
(***************************************************************************)
(* Invocations of the early-access code: server actions, cron runs and     *)
(* launch runs.  Each worker runs one of them at a time, and each await on *)
(* the database or on the mail provider is one atomic step; between two    *)
(* steps of a worker the others run, and what the worker holds is what it  *)
(* read.  One worker is the serial system, two are enough for every pair   *)
(* of invocations to race.  An abort is a database error, a time-out or a  *)
(* killed function: the worker forgets everything, the table keeps it.     *)
(***************************************************************************)
EXTENDS MailProvider

CONSTANTS
    Worker,
    Jobs,          \* the entry points this instance exercises
    MaxMinted,     \* bound: management tokens generated
    MaxSignups,    \* bound: tokens generated before signups stop coming in
    MaxTime,       \* bound: clock ticks
    MaxAborts,     \* bound: invocations cut short
    MaxLaunchRuns  \* bound: dispatches of the launch workflow

VARIABLES
    task,          \* worker |-> what it is executing
    minted,        \* management tokens generated so far
    now,           \* the clock
    aborts,        \* invocations cut short so far
    launchRuns     \* launch runs dispatched so far

ASSUME WorkersAssumption ==
    /\ Jobs \subseteq {"join", "unsubscribe", "maintenance", "launch"}
    /\ {MaxMinted, MaxSignups, MaxTime, MaxAborts, MaxLaunchRuns} \subseteq Nat

vars == <<rows, ledger, inbox, launchMails, task, minted, now, aborts, launchRuns>>

\* What only the clock, an abort and the start of a launch run change.
counters == <<now, aborts, launchRuns>>

\* What an invocation holds in its local variables.  `row' is the snapshot the
\* next write is computed from, `batch' the snapshots still to be processed.
Idle == [ pc      |-> "idle",
          job     |-> "none",
          email   |-> Null,
          id      |-> Null,
          row     |-> Null,
          token   |-> Null,
          outcome |-> Null,
          batch   |-> {},
          more    |-> FALSE,
          after   |-> 0 ]

ProgramCounter ==
    {"idle", "create", "refind", "resubscribe",
     "confirm_load", "confirm_mail", "confirm_save", "unsubscribe",
     "retry", "purge",
     "launch", "launch_load", "launch_review", "launch_mark", "launch_mail",
     "launch_save"}

Task == [ pc      : ProgramCounter,
          job     : {"none", "join", "unsubscribe", "maintenance", "launch"},
          email   : Emails \cup {Null},
          id      : Ids \cup {Null},
          row     : Row \cup {Null},
          token   : Token \cup {Null},
          outcome : Outcomes \cup {Null},
          batch   : SUBSET Snapshot,
          more    : BOOLEAN,
          after   : Nat ]

At(w, pc) == task[w].pc = pc

\* Worker w goes on as t; it returns from the invocation when t is Idle.
Continue(w, t) == task' = [task EXCEPT ![w] = t]

\* An invocation of the job begins on an idle worker.
Begin(w, job) == At(w, "idle") /\ job \in Jobs

\* tokenGenerator.generate()
Mint == minted < MaxMinted /\ minted' = minted + 1
NewToken == GeneratedToken(minted)

\* repository.save(...): on success the worker goes on as t; a violation of the
\* unique index is thrown through the whole invocation.
SaveThen(w, id, r, t) ==
    \/ Save(id, r) /\ Continue(w, t)
    \/ ~IndexAllows(id, r) /\ UNCHANGED rows /\ Continue(w, Idle)

-----------------------------------------------------------------------------
Abort(w) ==
    /\ ~At(w, "idle")
    /\ aborts < MaxAborts
    /\ aborts' = aborts + 1
    /\ Continue(w, Idle)
    /\ UNCHANGED <<rows, mailVars, minted, now, launchRuns>>

\* An invocation is short against a tick: time passes between invocations.
Tick ==
    /\ \A w \in Worker : At(w, "idle")
    /\ now < MaxTime
    /\ now' = now + 1
    /\ Forget(now + 1)
    /\ UNCHANGED <<rows, task, minted, aborts, launchRuns>>

=============================================================================
