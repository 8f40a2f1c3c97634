# Corpus: a TLA+ specification

The repository is the landing page of Corpus with its early-access list: people
join with an address, are mailed a confirmation that carries a management link,
may unsubscribe and join again, and are mailed once more when Corpus is released.
Thirty days after they left, or after the launch notice, their identity is erased.
The list runs as short serverless invocations over one Postgres table (through
an HTTP driver: one statement is one transaction) and one mail provider. Around
it are the page in the visitor's browser, a proxy, a tunnel for error reports, and
the workflows that release the site, preview it and send the launch notice.

Paths below are relative to the repository; `D` is
`docs/superpowers/specs/2026-09-06-corpus-landing-design.md`.

## 1. Inventory

The first seven rows are the early-access core, where the invocations meet; the
others share no state with it or with each other.

| Component | State | Operations | What makes it correct |
| --- | --- | --- | --- |
| Signup table (`src/adapters/db`, `src/core/entities`) | one row per signup, partial unique index on the address | five queries, insert, whole-row save by id without a version check | one row that is not anonymized per address; columns that agree with each other |
| Join (`join-…`, `resubscribe-early-access.use-case.ts`, `local-early-access-backend.ts`) | none | look up, insert or renew, then confirm | racing joins make one row and one mail; a renewal keeps the launch history |
| Confirmation (`send-confirmation-email.use-case.ts`) | none | load, mail, save the outcome | at most three attempts; every signup hears back |
| Management (`unsubscribe-…`, `resolve-…`, `management.handlers.ts`) | none | show the state of a link; unsubscribe | an unsubscription lasts until the person joins again; a link manages one row |
| Maintenance (`retry-…`, `purge-…`, `maintenance.wiring.ts`, the cron route) | none | retry a batch, purge a batch | what is due is done, what is not due is not; erasure is final |
| Launch (`launch-production.ts`, `send-launch-email.use-case.ts`) | a cursor in memory, `launch_status` in the table | page, rotate the link, mark, mail, save | everyone reached, nobody mailed twice, runs end |
| Mail provider (external; `resend-email-sender.adapter.ts`) | idempotency keys of a day | send | a remembered key is not delivered again |
| Launch gate (`launch-dry-run.ts`, `launch-fingerprint.ts`, `launch-email.yml`) | the release file, a printed fingerprint | edit, dry run, approve, send | nothing is sent that was not reviewed |
| Signup form, reCAPTCHA (`signup-form.tsx`, `recaptcha-bridge.tsx`) | script element, timers, React's action queue | load, get a token, submit | a submit settles; a success is not repeated |
| Server actions (`instrumented-action.ts`) | the settled outcome | run under instrumentation | a monitoring fault never changes the answer |
| Manage page (`manage-token-bridge.tsx`, `management.handlers.ts`) | fragment, token, view | read the fragment, resolve, unsubscribe | what is shown of a link was so while the call ran; a removal shown is not taken back |
| Browser monitoring (`instrumentation-client.ts`, `sentry-client.ts`, `app/global-error.tsx`) | a cached promise, a started flag | start late, retry once, capture | one client; one failure does not silence a visit |
| Word browser (`living-lexicon.client.tsx`) | index, timers, pause flags, scroll position | autoplay, scroll, drag, wheel, keys, pause | the word shown is the word in view; autoplay comes back |
| Motion (`motion-preflight.js`, `*-motion.tsx`) | a class of the document, ready flags | hide, load the engine, set up, take down | the page becomes readable; nothing outlives it |
| Monitoring tunnel (`app/monitoring`) | bytes read | checks, bounded read, forward | only whole, allowed envelopes leave; rejections and faults are seen |
| Scrubbing (`sentry-options.ts`) | none (pure) | replace parts of a text, drop parts of an event | nothing secret is left of a text |
| Proxy, negotiation (`proxy.ts`, `negotiation.ts`) | none (pure) | choose a representation | the choice obeys the Accept header |
| Configuration and wiring (`src/config`, `src/composition`), CAPTCHA adapter | none (pure) | parse, choose adapters, verify | real mail follows a real verification, wherever strangers are served |
| Production release (`deploy-production.yml`, `src/ops/*smoke*`) | main, project settings, schema, domains | check, migrate, build, stage, smoke, promote | domains only advance and serve what was dispatched |
| Previews (`preview.yml`, `preview-cleanup.yml`) | a Neon branch, the concurrency group | create, refresh, deploy, delete | the branch of a closed request goes |
| Stack conformance (`scripts/stack-conformance`) | none | detect, classify, grade, recurse | the verdict speaks for every member |
| Pages, mail layouts, the in-memory repository | none | markup; a test double | not modelled |

**How they interact.** A server action calls the join or the management use case;
the cron route calls the maintenance; the workflow runs the launch. All of them
meet only in the table, each with its own statements, and in the provider's memory
of keys. The management link a person holds is the mailed token; the table keeps
its hash. Nobody locks anything: a use case reads a row, awaits (often a mail), and
writes every column back from what it read. The browser meets the server in calls
whose answers may be late or lost. The workflows meet in a concurrency group, in
the project's settings and in what is deployed.

**What is hard.** Two invocations interleave at every `await`; a stale snapshot may
be written over a newer row; an invocation may die between two awaits; a mail may
have left or not and nobody knows; the batch limit, the page cursor, the attempt
limit and the 24-hour window are boundaries. In the browser, timers, frames,
imports, callbacks and answers settle in any order, some of them after their
component is gone. A workflow checks a thing and acts on it later, and may be
cancelled with a request on its way. `PROJECT.json`, "hazards", lists each at its
line.

## 2. Modules

The early-access core:

| Module | Models |
| --- | --- |
| `SignupStore` | the table: the row, the queries, the index, insert and save |
| `MailProvider` | the provider behind the `EmailSender` port and the four outcomes of the adapter (external) |
| `Workers` | invocations: program counters, what an invocation holds, aborts, the clock |
| `SendConfirmation` | `SendConfirmationEmailUseCase`, used by join and retry |
| `JoinEarlyAccess` | `LocalEarlyAccessBackend.join`, `JoinEarlyAccessUseCase`, `ResubscribeEarlyAccessUseCase` |
| `ManageEarlyAccess` | `UnsubscribeEarlyAccessUseCase`, `ResolveEarlyAccessManagementUseCase` |
| `Maintenance` | the cron run: `RetryFailedConfirmationsUseCase`, `PurgeExpiredSignupPiiUseCase` |
| `LaunchSend` | `runLaunchProduction`, `SendLaunchEmailUseCase` |
| `EarlyAccess` | the composition: `Init`, `Next`, fairness, types and the inductive invariant |
| `SubscriptionLifecycle` | the abstract specification of one signup |
| `EarlyAccessProperties` | the refinement mapping and the other properties |
| `MCEarlyAccess`, `MCRaces` | instances for TLC |

What runs in the visitor's browser:

| Module | Models |
| --- | --- |
| `InstrumentedAction` | `runInstrumentedAction`: what the server may do with a call, as operators over a call record that a page owns |
| `SignupForm` | one page load of the form: clicks, the script element, tokens and their time-out, React's queue, the server action behind it |
| `ManagePage` | one tab of the management page: loads and reloads, the fragment, the look-up, the removal as a read and a write, and the other writers of the row, late saves included |
| `WordBrowser` | the word browser: interval, resume timer, smooth scroll, scroll frame, pointer, wheel, keys, visibility |
| `MotionIslands` | the preflight script and the three islands over several visits of the page |
| `BrowserMonitoring` | the start of the Sentry client after load, on transitions and from error boundaries |
| `MCVisits` | the sum of the above for TLC |

What surrounds the table on the server and in CI:

| Module | Models |
| --- | --- |
| `MonitoringTunnel` | one POST to `/monitoring`: checks, chunks, forward, answer, log line |
| `Negotiation` | the proxy and the Accept header, with RFC 9110 written down independently |
| `Redaction` | `redactText`: the walk over a run of address characters, and the six replacements in their order |
| `Configuration` | parsers and wiring over every combination of the deciding variables, one signup under them |
| `ProductionRelease` | dispatches, main, settings, migration, build, smoke, promotion; extends `Configuration` and `Negotiation` for what the smoke reads |
| `PreviewEnvironments` | the preview and clean-up runs of one pull request over its Neon branch |
| `LaunchGate` | the launch command around an edited release file; extends `Configuration` |
| `StackAudit` | classification and verdict over a repository and its members |
| `MCPlatform` | the sum of the above for TLC |

Theorems: `EarlyAccess_proofs`, `EarlyAccessProperties_proofs`,
`EarlyAccessSerial_proofs` and `LaunchRun_proofs` about the core,
`FormAndWords_proofs` and `PageClients_proofs` about the browser, `Requests_proofs`
(tunnel, negotiation, addresses) and `Delivery_proofs` (configuration, releases,
launch command, audit) about the rest.

**From code to actions, in the core.** Each `await` on the database or the provider
is one action of a worker, named after its use case (`ConfirmLoad`, `ConfirmMail`,
`ConfirmSave`); code between two awaits belongs to the action before or after it.
`task[w]` is the worker's local variables: `row` is the snapshot its next write is
computed from, `batch` what is left of the rows it read at its start. `SaveThen` is
`repository.save`: it writes the whole snapshot, or meets the unique index and is
thrown through the invocation. An insert that meets the index takes the fallback
path of the join.

**In the browser.** An action is one event handler, timer, frame, promise callback
or commit of React; React commits what one of them sets before the next runs, so a
handler is atomic, while what it closes over may be old (`frame` in `WordBrowser`
keeps the index of the render that requested it). A call to the server is a record
with its phase, what its work settled and what it answered; any call may be lost.

**In the workflows.** An action is one step of a job; what a step checks holds when
it is checked. A variable pulled into a build and the same variable read by the
running server are two fields (`pages`, `server`), because they are read at
different times. A request of a cancelled run stays in `inFlight` and takes effect
later or never.

**Pure code** (negotiation, redaction, configuration) is a machine of two steps: an
input from a bounded set, then the answer, which an invariant compares with an
independent statement of what it should be.

**Abstractions.** `emailOriginal` and `emailNormalized` are written together and
are one field. A time is a number of ticks; `OneDay`, `ThirtyDays` and the
provider's `Window` are constants. `anonymizedAt` is a Boolean. Columns that no
operation reads back are left out, as are the reads that only feed a log or a
count. A generated token is a fresh number (256 random bits), a launch token a
function of the id (an HMAC), and the hash is injective. A stage or CAPTCHA
rejection touches nothing and is no step. The order in which a batch is processed
is arbitrary, because its query has none; a launch page is processed in id order.
Time passes only while no invocation runs: an invocation takes seconds, a tick a
day. `Abort` stands for a database error, a time-out and a killed function.
Body sizes are units of a share of the limit; a character of a text is one of the
classes the patterns tell apart, and a scheme or the name of a sensitive pair one
character; a token-shaped fragment has `MinToken` of them; a commit is its place on main; a release is a model value
that its file may spell in several ways. In the audit four checks stand for all
that can fail CI, one of each reach (root only, production only, inherited, the
classification itself).

**Mutants.** Next to some operators stands a mutant, the same operator with a
plausible bug. No specification uses it: a property is put to the test by
replacing the operator with its mutant and watching TLC refute the property.

## 3. What the runs show

`CHECK_DEADLOCK` is off in each: the system answers requests, so it rests when
nobody asks, and an instance stops for good when its bounds are used up.

### The early-access core (`MCRaces` for Races, `MCEarlyAccess`)

Runs that find no error:

- **Races** – two scenes. In the first, two workers: every entry point against every
  other, two rows, one address. `RowsCoherent`, `OneCurrentRowPerEmail` and the inductive
  invariant `IInv` hold under every interleaving of whole-row writes. Two workers
  suffice for every pair of invocations; one address makes the index matter; two rows
  allow a second life of an address after an anonymization; time reaches the
  retention boundary (2) and a retry (1). In the second, joins only, two at a time, one
  possibly aborted, two addresses: one row and at most one confirmation each
  (`RacingJoinsMakeOneSignup`, D §6.2); any number at a time is `RacingSignups`. One
  instance holds both scenes, told apart by the aborts that are left.
- **Serial** – one invocation at a time with one abort anywhere: the system
  implements `SubscriptionLifecycle` (`ImplementsLifecycle`), no subscription
  counts a fourth attempt, the launch notice is delivered at most once over two
  launch runs, renewals in between.
- **LaunchPages** – two launch dispatches (one may die) page by two through three
  confirmed rows, so that a page is full, short and empty, while people
  unsubscribe: a run that ends has tried everyone still eligible
  (`RunReachesEveryone`), it does end (`LaunchRunEnds`), and a mailed link manages
  only its own row (`LinkManagesOwnRow`). It starts from the state in which three
  people have joined and been confirmed.
- **MaintenanceLive** – batch limit one, two rows, one run cut short: a due
  confirmation does not stay due and a due row is erased or renewed.

Runs that end in a counterexample, each a disagreement between the code and what
the repository says of it ("findings" quotes the lines):

- **UnsubscribeDuringLaunch** – from confirmed rows: the launch run saves the row as
  its page read it, so an unsubscription made since is undone, and the row may be
  mailed.
- **UnsubscribeDuringPurge** – an unsubscription that read a launched row before the
  purge anonymized it writes the address back.
- **RenewalDuringPurge** – the purge of a row goes on after the person joined again,
  and erases the renewed row (D §10.2: "if not resubscribed").
- **LaunchReruns** – with three runs inside and around the window: the window check
  compares with the *last* attempt, which each rerun renews, so the provider may
  have forgotten the first, delivered one.
- **LostConfirmation** – a join cut short after its insert leaves a row pending
  that no job ever looks for and that makes every later join a duplicate.
- **ResubscribeSameDay** – a renewal resets the attempt counter and with it the
  idempotency key; within a day the provider drops the fresh confirmation, which
  carries the only working link.

The first three need two invocations in flight, LaunchReruns a provider answer that is
lost, LostConfirmation a crash. Each has the entry points that leave the named case only;
UnsubscribeDuringLaunch and UnsubscribeDuringPurge start from the confirmed rows of
`LaunchSpec` and have no joins.

**Bounds.** `MaxMinted` (tokens) bounds joins, renewals and retries; `MaxSignups`
stops signups before tokens run out, so that maintenance can go on; `MaxTime`,
`MaxAborts` and `MaxLaunchRuns` bound the clock, crashes and dispatches. In
MaintenanceLive `MaxMinted` is more than two signups with a renewal and all their
retries can use, so no run is stopped for want of a token.

**Fairness.** `FairSpec` assumes that an invocation that has begun goes on (the
platform runs it, or it aborts), that the cron fires again and again, and that the
clock goes on. The last two are strong fairness: one worker stands for the whole
system there, and both are enabled only between other invocations. Nothing is
assumed of requests: nobody must join, unsubscribe or start a launch.

### The visitor's browser (`MCVisits`, run Visits)

The parts share no variable. A behaviour picks one part and follows it, so that the
instance explores the sum of their state spaces and not the product. That is sound
for safety because a part's steps read and write its own variables only, and for
liveness because no action that fairness owes is enabled in a part's initial state:
a part that is not followed owes nothing. Its 130 thousand states show:

- *Form* – a signup that was completed is never answered "please try again",
  whatever fails around it (`SettledWorkIsAnswered`); a click on a form that shows a
  success signs nobody up again (`SuccessIsNotRepeated`); a click is answered even if
  Google never calls back (`ClickIsAnswered`). Two clicks suffice for one that
  overtakes or follows another.
- *Manage page* – `ShownAsItWas`, `RemovalIsNotUndone`, `LookupSettles`, over three
  loads, while others unsubscribe the row, retire its link, or restore it by a save of
  what they read before. The page can promise no more than that what it shows was so
  since it asked: "You won't receive the Corpus launch email" (D:412) is undone on the
  server by such saves (UnsubscribeDuringLaunch).
- *Words* – what was chosen is brought into view (`ChosenWordIsBroughtIn`), a scroll
  the page started selects nothing else (`ScrollKeepsItsWord`), a pause by
  interaction ends (`InteractionPauseEnds`), autoplay shows every word again and
  again (`AutoplayShowsEveryWord`). Three words: two ends and one between.
- *Motion* – `PageBecomesReadable` and `NothingOutlivesThePage`, over two visits, the
  second with the engine loaded and the class left by the first.
- *Monitoring* – one client and no capture into an SDK that does not run
  (`CapturedByOneClient`); one failed fetch or one throwing init does not leave the
  visit unreported (`OneFailureIsSurvived`). Two transitions and two errors meet each
  other and the start after load.

Fairness: the script element settles one way or the other (the browser fires `load`
or `error`), the token timer, interval, resume timer, frames and smooth scroll go
on, the server works on, answers or loses a call, and React shows an answer; the
preflight timer fires; the engine, *once it has been loaded*, arrives in later
visits. Nothing is assumed of Google's callbacks, of the engine's first download, of
network answers that may be lost, nor of the visitor.

### The platform (`MCPlatform`, run Platform)

The same sum over eight parts, 550 thousand states:

- *Tunnel* – `OnlyWholeEnvelopesLeave`, `FaultsAreVisible`; limit three, so that a body
  is empty, below, at and over the limit, each with an undeclared, a true and a false
  length. Sentry answers with a success, a limit or a refusal. A request that this side
  rejects or fails at leaves a line; what Sentry refuses does not.
- *Negotiation* – `NegotiationIsRfc9110` over every header of up to three ranges.
- *Redaction* – `AddressesGoWhole` over runs of up to four pieces of addresses (glued
  ones among them), `SecretsNeverLeave` over texts of up to four pieces: signs, slashes,
  schemes, addresses, pairs and a secret of three characters (`MaxPieces` of
  `MCPlatform`, where `Redaction` takes any sets of runs and texts). What is secret is
  said of positions of the text; the replacements work on what is left of it.
- *Configuration* – `SignupsAreGuarded` over all combinations of the variables, a
  `VERCEL_ENV` that is none of Vercel's values included.
- *Release* – `ReleasesOnlyAdvance`, `LiveIsAsDispatched`: two dispatches over two commits,
  settings that change at any step.
- *Previews* – `ClosedPreviewGoes`: pushes, closes and reopenings that cancel each other's
  runs, with requests that take effect after their run is gone.
- *Launch gate* – `OnlyReviewedReleasesGoOut`: two releases, files edited around every
  step, a fingerprint handed on from any earlier dry run.
- *Audit* – `VerdictCoversEveryMember`: up to three scopes, workspaces in workspaces.

Fairness is stated for the previews only: runs end (GitHub ends a job that does not), a
request that is on its way is answered, and days pass.

## 4. What is proved

All theorems hold for every value of the constants that the modules' assumptions
allow (ids are positive numbers, periods are positive, null is no value of any
column, batches are not empty, limits are natural numbers).

**`EarlyAccess_proofs`** – any number of workers, rows, addresses:

- `Invariance`: `Spec => []IInv`; `TypeCorrectness` and `Coherence` follow.
- `UniqueCurrentRow`: `Spec => []OneCurrentRowPerEmail`.

Coherence of the stored rows is not inductive: the next row is computed from a
snapshot some worker holds. `IInv` therefore says of every snapshot what it says
of every row, and `Fits` says of every program counter what the worker then holds:
that a row it will mail about had its address when it was read, that only a row
marked as sending gets a launch outcome, that what a retry or a launch page holds
was not anonymized. The proof has one lemma per row operator (each keeps a coherent
row coherent), one per action, and one each for the ways a worker goes on.
`UniqueCurrentRow` uses the invariant once more: a row written with a null address
is anonymized, so the index speaks for every other write.

**`EarlyAccessProperties_proofs`** – still any number of workers:

- `MailedLinks`: `Spec => []LinkManagesOwnRow`. Rows alone do not carry it, since a
  token reaches a row through a snapshot and a person through a mail. The invariant
  `LinksOwned` speaks of every place that pairs a row with a link (rows, mails, what a
  worker holds) and adds that generated tokens lie below the counter.
- `RacingSignups`: with `Jobs = {"join"}`, `Spec => []OneConfirmationPerSignup`. The
  assumption is needed: a renewal is a second signup of the same row, and a
  retry mails again on purpose. The invariant `CreatorConfirms` says that only the
  worker whose insert made a row may mail about it, once.

**`EarlyAccessSerial_proofs`** – one invocation at a time, each cut short anywhere
(`SoleWorker`). `Serialized` says that what the worker holds is what the table holds,
found so by the reading that let it go on; from it every write is one of the kinds
that `Written` lists, and all of these follow:

- `SerialAttempts` (`AttemptsWithinPolicy`),
- `SerialForgetting` (`AnonymizedForGood`), `SerialUnsubscription` (`UnsubscribeSticks`):
  two that runs with two workers refute. `SoleWorker` is thus the
  exact price of the missing version check: what fails of them, fails by overlap only.
- `SerialLifecycle` (`ImplementsLifecycle`): the refinement of `SubscriptionLifecycle`.

**`LaunchRun_proofs`** – the properties that relate a whole run to the state it began
in:

- `SerialLaunchMail` (`LaunchMailOnce`): `SoleWorker`, two dispatches, and a provider
  that remembers a key for as long as the use case repeats it (`OneDay <= Window`, as in
  D §12.3). That a mail left is nowhere in the table: the outcome may be lost. `OnceInv`
  therefore speaks of every row that was mailed. After the first run its notice is closed,
  or its attempt is open and the provider knows the key for as long as the use case may
  repeat it; while the second run marks and mails the row, the key is known. And it
  follows a run through its page, since a run that comes to no row
  twice cannot mail one twice. With a third dispatch the
  invariant fails as the code does (run LaunchReruns): the window check compares with the
  last attempt, which the second dispatch renews.
- `SerialRunReachesEveryone`, `LaunchReachesEveryone` (`RunReachesEveryone`): behind the
  cursor of a run nobody is owed a mail, except in what the run holds. Paging by id
  keeps that because a page is the first of what is after the cursor, and no step makes
  a row owed that was not. That last point needs an assumption: an overlapping save may
  write an older row back. It holds with one worker, and for any number of workers that
  unsubscribe people during the launch (one run at a time, as `launch-email.yml` has it)
  from the confirmed rows of LaunchPages, which exist if there are addresses enough: the
  injection is its hypothesis. There a run shares its rows with others, so the invariant
  also says whose address a held row has.
- `PurgesWithoutRenewals` (`OnlyDueRowsPurged`): any number of workers that purge, retry,
  unsubscribe and launch over each other, from the same rows. The purge writes what it
  read, so the invariant `Retaining` says of every row a worker holds that it agrees with
  the table on whether its retention is over, whatever else is stale in it. A save that
  ended an unsubscription, or a launch outcome, would break that; without renewals none
  can reach a row whose retention is over. Nobody joins is thus the exact assumption:
  RenewalDuringPurge refutes it with one renewal.

**`Requests_proofs`:**

- `WholeEnvelopes`, `VisibleFaults`: the invariant ties what the tunnel has buffered to
  what was sent until the end of the body is known, and a silent answer to the status
  Sentry gave, for every set of statuses.
- `Rfc9110`: the sorts of the code have a first element because their comparators are
  total on what they sort, and that element is the one RFC 9110 names. `Negotiation`
  has sets with the comparator instead of sorted sequences, which is what the code uses
  of a sort: its first element.
- `WholeAddresses`: what the loop of `redactEmails` has dropped after each character is
  exactly the addresses up to there. The induction over the run is a set argument (a set
  of steps that is bounded and has no last member is empty: `Climb`), since the library's
  induction theorems are out of the provers' reach; the loop is a recursive function.

**`Delivery_proofs`:**

- `GuardedEnvironments`: what let a signup through, and what mailed it, are choices over
  the same variables. Outside Production on Vercel, under any name, the fake may let a
  signup through to a real mail; Production and a process off Vercel that did not ask for
  it are what the theorem excludes.
- `OnlyAdvance`, `AsItWasDispatched`: the concurrency group lets one dispatch run, and
  each stage of it carries what its checks established, past every change of settings or
  of main.
- `ReviewedReleases`: a fingerprint is worth what was mailed before it was printed, and a
  command holds what it read at its start.
- `AuditedToTheLast`: what is red, unvisited or exempt so far is what was seen of the
  scopes so far, and the queue holds the rest.
- `PlatformFollowsItsParts`, `PlatformIsSafe`: the instance of the run Platform satisfies
  the specification of each part, so its safety properties, `SecretsNeverLeave` apart,
  hold for all constants.

**The browser:**

- `PageClients_proofs`: `ManageTruth` and `ManageRemoval` (what a call on its way has
  settled is one of the states the link had since it was sent, while others write what
  they like to the row), `MotionCleanUp` (an island's ledger of
  what it set up against the flags of the document), `OneClient` (the started flag
  against the inits that returned).
- `FormAndWords_proofs`: `SettledAnswers` and `OneSuccess` (a click on a success sent no
  address, so its call can settle no success), `PausesEnd`, `ScrollsKeepTheirWord` and
  `ChosenWordsComeIn`. A scroll to a selected word has that word for its target for as
  long as no pointer is down, and has not arrived: the frame that clears the target
  finds no scroll left. `FormTypes`: React's queue is no longer than the clicks, because
  a click is dispatched once, whichever of its promise and its timer comes first.
- `VisitsFollowTheirParts`, `VisitsTypes`, `VisitsAreSafe`: the same for the run Visits,
  fairness included.

**Only model-checked:** liveness, everywhere (`ClickIsAnswered`, `LookupSettles`,
`PageBecomesReadable`, `OneFailureIsSurvived`, `AutoplayShowsEveryWord`,
`LaunchRunEnds`, `DueConfirmationRetried`, `DueRowPurged`, `ClosedPreviewGoes`): ENABLED
and fairness are out of the prover's reach. `SecretsNeverLeave` is not proved either: it
would take an argument like that of `WholeAddresses` for each replacement over what the
ones before it left. Every other safety property of a run that
finds no error is a theorem, under the assumptions named above
(`RacingJoinsMakeOneSignup` as `RacingSignups`). The counterexamples are TLC's.

## 5. What the models say of the code beyond the properties

Behaviour met while modelling that no run records; each is in the model as it is in the
code. The first two have the cause of UnsubscribeDuringLaunch, a whole row saved as it was
read; the others contradict no document of the repository.

- *Confirmation.* Its outcome is saved over the row as it was read before the mail
  (`send-confirmation-email.use-case.ts:57`): an unsubscription made meanwhile is undone
  (D:366), no launch involved.
- *Recovery.* A manual maintenance run that overlaps the cron holds the same due rows
  (`retry-failed-confirmations.use-case.ts:22`). Once the cron's attempt is saved it
  mails and counts another, a fourth if that was the third (D:639 allows three).
- *Tunnel.* What Sentry refuses goes back with Sentry's status and without a line
  (`monitoring-route.handler.ts:274`); its comments count any answer of Sentry's as a
  successful forward.
- *Form.* The button stays open after a success, and a click then shows
  `invalid-email`, because the field is disabled and is not sent. Several clicks may
  wait for a token at once; a later `retry` may replace a success. A script
  element that failed, or that loaded without Google's object, leaves further clicks
  waiting for ever (`ClickIsAnswered` excepts them).
- *Configuration.* A `VERCEL_ENV` that is not one of Vercel's three counts as a preview:
  the fake verifier without a flag, beside real mail if its variables are complete.
- *Scrubbing.* A sensitive pair between the scheme and the at sign of a URL counts as its
  credentials, and what follows the at sign as its host (`SecretsNeverLeave` excepts it).
- *Manage page.* A reload has no fragment and calls a working link invalid; a view that
  says "retry" cannot be retried by reloading.
- *Words.* A wheel during a smooth scroll leaves the target set, and scrolling selects
  nothing until the next selection or pointer. A frame compares with the index of an
  older render and may leave the track on another word. After seven seconds of
  dragging autoplay resumes under the pointer.
- *Motion.* If reduced motion is turned on between two visits, what the preflight hid
  stays hidden (`PageBecomesReadable` excepts it). A hero set-up that throws after it
  emptied the typed word leaves it empty and its flag up (`NothingOutlivesThePage`
  excepts it).
- *Release.* The smoke does not look at the site key, the DSN, or the mail and CAPTCHA
  configuration; `preview.yml` refuses masked variables, `deploy-production.yml` does
  not. Main may move between the last check and the promotion, which then puts a
  commit live that was main's head a moment before. Promotions are assumed to apply in
  the order they were accepted.
- *Previews.* A request left open and idle for seven days loses its branch while its
  deployment stays. A deletion on its way when the request is reopened may hit the
  new run's branch.
- *Launch.* The fingerprint covers the input, not the environment: the postal address
  of the dry run may differ from that of the send.
- *Audit.* The intent in a member's own `stack.json` counts, `exempt` included. The
  members of a workspace that also fits another kind are not visited; the root is then
  red in production only.

## 6. What is left

Worth doing next: the refinement of `SubscriptionLifecycle` for overlapping invocations,
with the steps that a stale save adds to it, as a statement of what the code does promise
there; and the structural part of `scrubEvent`.

## 7. Not modelled

Markup, mail layouts, what an animation looks like, legal texts: no state. Fonts, SEO
and agent documents are data; the Markdown that the proxy serves is data. The structural
parts of `scrubEvent` and `scrubLog` (denied keys, the depth limit, dropped fields, the
cuts of URLs, the log's allowlist) are per-field rules without state. The test
jobs of `ci.yml`, and the end-to-end, smoke and lighthouse jobs of a preview, deploy
nothing. The single checks of `standard.ts`, its YAML subset, the blueprint and the
dependency rules are text rules about one file each: they meet the audit as the red
results that `StackAudit` folds. Cryptography, SQL and the driver are used through
what they promise. The in-memory repository is a test double; the SQL one is the
reference. Logging, counts and formatting are left out, except where a property is
about the line (the tunnel's).
