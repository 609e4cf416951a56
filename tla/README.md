# Propositum: specifications, model checking and proofs

Propositum watches a person work, offers to take part of the work over, and,
when the person accepts, runs a *shift*: a worker process drives a loop of
model proposals through a policy gate, a browser extension performs what the
gate allows, and everything done is written to an append-only ledger in SQLite
that the person reads on return. This directory holds TLA+ models of that
system, the TLC runs that check them and the theorems proved about them.

## The system

| Part | State it keeps | Operations | Talks to |
|---|---|---|---|
| Run queue (`src/persistence/repositories/index.ts`) | `AgentRun` rows: status, role, lease, credential, cancel flag, terminal reason | enqueue, claim, renew, advance, complete, sweep leases, request cancel, park | worker process, app requests, both through one SQLite file |
| Worker process (`scripts/worker.ts`, `src/runtime/worker-process.ts`) | the run in hand | poll, claim, admit, execute, fence, idle sweep, restart | run queue, run execution |
| Run execution (`src/server/execute-run.ts`) | none of its own; writes rows, outcomes, report, session phase | execute, review, settle, report, hand back | worker loop, confirmations |
| Worker loop (`src/runtime/worker-loop.ts`, `history.ts`) | counters, caps, the page in view | turn, propose, authorise, record intent, perform, record outcome, stop | policy gate, browser control, ledger |
| Policy gate, stop rules (`src/policy`, `src/domain/execution`) | none | authorize, stop decision, credited deadline, expiry | worker loop, confirmations |
| Confirmations (`src/server/confirmations.ts`) | `ConfirmationRequest`, `ConfirmationVerdict` | raise, confirm, reject, expire, halt, settle abandoned intents | run queue, session phase, report |
| Browser channel (`src/server/act-store.ts`, `src/app/api/act`) | `ActionDispatch` rows, memory of halted runs | dispatch, next, report, halt | worker loop on one side, extension on the other |
| Extension (`extension/src`) | the attached tab, the action in hand | poll, attach, perform, report, stop | browser channel, capture |
| Handoff (`src/server/actions.ts`, `front-door.ts`) | contracts, sessions, document versions | compose, accept, finish, end session, take back control | run queue, confirmations |
| Capture (`src/persistence/ledger-writer.ts`, `src/server/gap-*.ts`) | observation events, capture sessions, gaps | append batch, heartbeat, declare a gap, close | extension, detection |
| Ambient offers (`src/server/ambient-store.ts`, `compose-offer.ts`) | the standing offer, declines | raise, decline, expire, accept | capture, detection, handoff |
| Thread messages (`src/server/thread.ts`, `src/runtime/thread-channel.ts`) | messages and replies | send once, reply, route a reply | confirmations, reports |
| Documents (`src/domain/document`, `src/server/outcomes`) | versions, changesets, decisions | propose, decide, apply, add version | worker loop, handoff |
| Calendar (`src/server/calendar.ts`) | tokens, the free window | connect, refresh, read free/busy | handoff |
| Desktop supervisor (`src-tauri/src`) | child processes | start, watch, back off, stop | app server, worker process |

Several worker processes may poll one database, app requests run concurrently
with them and with each other, and every one of them reads a row, awaits, and
then writes. SQLite serialises single statements and transactions and nothing
else. What makes the behaviour hard is therefore in the gaps between two
statements: an answer, a stop, a sweep and a worker all write the same run;
a process may die in any gap; a lease may lapse while its worker is healthy.

What has to hold of each part:

- *Run queue and worker process*: a shift moves in one place at a time; a run is
  executed by the process that claimed it; a run that ended stays ended; a
  credential never outlives its run; every queued run ends.
- *Confirmations*: a question belongs to a parked run; a yes is carried on once;
  a no and an expiry hand the session back; what is over is not carried on by a
  later yes.
- *Execution*: after a stop at most the one step already past its fence is
  taken; an outcome in the ledger is never replaced; an action still in flight
  is not settled by somebody else.
- *Worker loop and gate*: every shift stops by its caps; nothing the contract
  does not allow is authorised; a purchase is charged against its count.
- *Browser channel*: an action is performed at most once; nothing of a halted run
  is waited for; what was reported of a command is not replaced; letting go of the
  tab stops what is at work in it.
- *Capture*: a signal taken from a page reaches the app or is still held,
  nothing of a site is written while its grant does not stand, every silence is
  on record once.
- *Ambient offers*: an offer, and the single attempt a strand is given, is about
  what is held now; a strand costs a bounded number of model calls.
- *Handoff*: what is ratified is what the screen showed; one ratification is one
  shift; projects do not mix.
- *Documents*: an accepted change is applied to the text it was proposed for, and
  only decided changes are.
- *Thread*: nothing is said twice, an answer reaches the question it replies to,
  no reply is skipped.
- *Supervisor*: a half is not restarted for ever, and nothing that a quit saw
  outlives it.

## Modules

| Module | Models | Proofs |
|---|---|---|
| `AgentRuns` | the rows of one shift, the worker processes, the question, the stop doors | `AgentRunsProofs` |
| `BrowserChannel`, implementing `Delivery` | the rows, sockets, polls and reports between a worker and the extension | `BrowserChannelProofs` |
| `WorkerLoop`, on the functions of `Policy` | the loop of one contract's runs: counters, caps, gate, clock, recovery | `WorkerLoopProofs` |
| `CaptureGaps` | how the app notices that it was not watching | `CaptureProofs` |
| `CaptureLedger` | the buffer, the flush, the grant and the append of observations | `CaptureProofs` |
| `AmbientOffers`, on the functions of `Grounds` | what happens between sessions, up to an accepted offer | `HandoffProofs` |
| `Handoff` | filing, drafting, ratifying, deleting | `HandoffProofs` |
| `ShiftReview`, on the functions of `Changesets` | what a shift wrote for a document, until it is a version of it | `ShiftReviewProofs` |
| `Thread` | the paired phone | `ThreadProofs` |
| `Supervisor` | the tray that keeps the app and the worker running | `SupervisorProofs` |

`MCAgentRuns`, `MCAgentRunScenes`, `MCBrowserChannel`, `MCWorkerLoop` and
`MCRecords` are the instances TLC checks. `AgentRuns` sees a worker as the rows
it writes and `WorkerLoop` sees the rows only as its own: what links them is the
step order (fence, intent, effect, outcome) and that `AgentRuns` proves a run to
have one process (`ClaimHolds`), which `WorkerLoop` takes for granted.

What a later extension of this directory would add, in order: the interceptor and the landing permit of the
extension (`cdp.js`); the reading of a sitting and its claims (`actions.ts`);
readings of two windows that race; a composition of `Handoff` with `AgentRuns`
in which the crash between ratifying and queueing has a consequence.

## AgentRuns

One accepted contract in one session. `Init` is what `acceptContract` leaves:
the session `away`, one pending worker row. Row ids are creation order.

| State | Code |
|---|---|
| `status`, `role`, `resumes`, `token`, `claimedBy`, `cancel`, `reason`, `lapsed` | columns of `AgentRun`; `token` is whether `controlToken` is set, `lapsed` whether `leaseUntil` is in the past |
| `ledger` | the run's `ActionIntent` rows in `seq` order, each by its `ActionOutcome`: `open` (authorised, none yet), `seen` (the worker's own), `recovered` (observedBy recovery), `refused` (not authorised) |
| `question`, `aged` | `ConfirmationRequest` with its verdict; whether it is a day old |
| `phase`, `reported` | `WorkSession.phase`; whether the `ShiftReport` row exists |
| `wpc`, `wrun`, `wexp` | where each worker process is, the run in hand, the expired questions its sweep has read |
| `hpc`, `hrun` | where each app request is (a server action or a route) and its run |

Each awaited statement or `$transaction` is one step, so a check and the write
that trusts it are two: `ConfirmCheck`/`Confirm`/`Continue`,
`FencePasses`/`Record`, `ReadExpired`/`ExpireOne`, `HaltClose`/`HaltFlag`/
`HaltRevoke`/`HaltSettle`. Two writes are merged only where nothing reads the
first before the second. `Crash` takes a worker down at any label,
`Throws` sends an error where the code catches it, `FenceUnreadable` is the
fence's failing read, `RequestDies` abandons a request between two statements;
the four share the bound `MaxFaults`.

What the model leaves to choice: what the model proposes and the gate answers,
whether a continuation is too late, which stop rule ends the loop, whether an
outcome is held for review, when a lease or a day passes.

Bounds: `MaxRuns` rows, `MaxIntents` intents of a run, `MaxFaults` faults.
The bound on rows is a guard of `Enqueue`; `Record` asks a question only while
there is room for its continuation, so that a request is never stuck at the
bound. A turn of the loop that raises a question for the report and records no
intent is not modelled: it writes no row of the run.

### Runs

| Run | Instance | Shows |
|---|---|---|
| `AgentRuns_scenes` | 1 worker, 2 rows, 1 intent, in two scenes: 2 requests and no fault; 1 request, 2 faults and a session that may be ended (1.26 million states) | two answers, rejections and stops of one question in every order; crashes, errors and restarts at every label of a shift, its question and its continuation; what is over is not carried on by a later yes |
| `AgentRuns_two_workers` | 2 workers, 2 requests, 1 row, 2 intents, 1 fault (694,000) | competing claims, a lease that lapses under a living worker, two stops |
| `AgentRuns_live` | fair, 1 worker, 1 request, 2 rows, 1 fault (192,000) | every queued run ends, every question closes |

Two rows are enough for a question and its continuation, or a run and its
review. One intent is enough to be open, refused, seen or recovered; the second
in `AgentRuns_two_workers` lets a late intent follow an earlier one. The two
scenes of `AgentRuns_scenes` share their constants and differ in what a step may
do (`Within`): together, two requests and two faults are too many states.

Fairness (`FairSpec`): a worker that can step does (it polls, and the
supervisor restarts it), a request runs to its end, leases and days pass. No
person is obliged to answer, to stop anything or to end the session.

### What a stop, and a crash, do to a yes

`confirmRequest` checks the run's status and records the verdict in two
statements, and app requests run concurrently. A stop that lands between the two
is overtaken by the yes (`confirmations.ts:588`; ADR-0030 names this one itself).
`StoppedStaysStopped` says that nothing else is: once a run is over, whatever
ended it, and no yes past its check has hold of it, no step of anyone makes a
continuation of it. `AgentRuns_scenes` checks it with two requests, and the
theorem asks nothing of how requests come.

The verdict and the continuation are two statements as well, so a process that
dies between them (`RequestDies`) leaves a confirmed question with nothing queued.
The docblock names that outcome as the safe order ("a crash between them leaves a
recorded yes with no run", `confirmations.ts:522-525`), and no property here
forbids it; the comment further down reads otherwise ("a crash right here leaves a
`pending` row", `:598`), which is true of a crash after the enqueue.

Also met, and left to reading:

- A stop that closes a parked question ends the run and never calls
  `markObserving` (`confirmations.ts:1167`), so the session stays away although
  `execute-run.ts:899` calls that a promise the product cannot keep:
  no property forbids it, and the theorem `AwayIsExplained` says that without a
  fault there is no other way.
- A reviewer row whose process died can be claimed and executed as a worker
  (`execute-run.ts:951`): `claim` does not look at the role and `executeRun` does
  not read it, while `CONTEXT.md:1734` says a reviewer does not act.
- A sweep looks only at whether a run is terminal (`confirmations.ts:1207`), and
  with two workers a lease can lapse under one that waits for a slow action: the
  sweep then settles an action in flight, and a worker whose run was reaped before
  it parked hands nothing back. `InFlightIsUnsettled` and `AwayIsExplained` are of
  one worker process.
- With two worker processes a reaped run can end as succeeded with reason
  lease-expired, because `complete` has no status predicate and keeps the reason
  it is not given (`index.ts:1876`).
- `markObserving` reopens a session ended during the shift (`index.ts:1296`), and
  the lease sweep writes no report (`:1893`). A poll that scanned before a halt
  may claim the row before the halt abandons it (`act/halt/route.ts:81`).

## BrowserChannel

Three processes carry one authorised instruction: the worker, blocked on
`POST /api/act/dispatch`; the app, which holds that socket in memory beside an
`ActionDispatch` row; and the extension, which polls `/api/act/next`, drives
one tab, and answers on `/api/act/report` or lets go on `/api/act/halt`.

| State | Code |
|---|---|
| `owner`, `row`, `created`, `evidence` | `ActionIntent.runId`; `ActionDispatch.status` and `createdAt` order; `ActionEvidence` rows |
| `holds`, `waiting`, `halted` | `createActStore`: the try each intent is held for, those intents in `heldSince` order, the last `HALTED_MEMORY` halted runs |
| `calls` | the dispatch handler of each try: `checked` (not halted), the row status `enqueue` returned, `held`, `expiring`, `ended` |
| `polls`, `stopping`, `posts` | the next handlers with the snapshot they walk; rows a halt has still to abandon; each intent's report |
| `tries`, `heard` | the worker: dispatches made, and what it was told, by whom |
| `loop`, `inFlight`, `answered`, `tab`, `attached`, `release` | the service worker's poll loop and command; `inFlightIntentId`, `reportedIntents`, `controlledRunId` in session storage; the debugger; each letting-go under way, with the tab it read before its first await |
| `effects`, `interrupted` | how often each intent acted on a page; history: commands at work in a tab when a letting-go of that tab claimed them |

Creation order and `heldSince` order are *lines*: each intent in line has the
set of those at or before it.

A step is the code between two awaits, or one guarded `UPDATE`, so every check
and the write that trusts it are apart: `Dispatch`/`Enqueue`/`Hold`,
`Scan`/`Look`/`Drain`/`Claim`/`Respond`, `Expire`/`AnswerExpired`,
`ReportArrives`/`MarkReported`/`FileEvidence`/`Settle`,
`Block`/`StopBlocked`, `Stop`/`Detach`/`ClaimLost`/`ClearTab`/`Halt`/`HaltAbandons`,
`Respond`/`Begin`/`OpenTab`/`Act`/`Finish`.

Letting go of the tab may overlap with itself. `stopActing` and `onDetached` read
the tab and its run, await, and then enter `releaseControl` with what they read, so
each letting-go `l` is a record of its own: a detach may raise `onDetach`, whose
listener is a second one (`Detach`), and Chrome, a blocked request and a stop may
begin others. `releasing` turns a caller away only from the claim until the tab is
forgotten (`LeaveToOther`); one that arrives later claims what is in flight by then
and forgets whatever tab is held by then (`ClaimLost`, `ClearTab`), and tells the
app to halt the run it read (`Halt`).

Three properties divide what this leaves. `HandsOff` is what the order of the code
gives, for any overlap: a command at work in the tab that is let go, claimed to be
answered control-lost, does not act any more, because its debugger was detached
first. `OneOutcome` is that the block, the stop, the detach and the end of the
command never replace one another's report. `ASecondCallerReportsNothing` is what a
comment of the code says beyond that, and it does not hold: see below. So a command
claimed by a late caller while it has no tab yet, or another tab than the one that
was read, is outside `HandsOff`, and such a command may act.

`Delivery` is what the worker may rely on: the page is acted on at most once;
"unchanged" is said only of a page nothing has been done to, and stays true;
"done" only of an act that happened. `KeepsThePromise` is the refinement, with
`told` computed by `Told`: a `not-delivered` that the *app* gives is
"unchanged" and an `ok` the browser reports is "done". A `not-delivered` that
comes from the extension, or that the client reads into a body it cannot parse,
is "unknown": the first because of the finding below, the second because the
row may be an earlier try's.

Left to choice: when timers fire, how a command ends, when somebody lets go.
Left out: time; the admission of a request (a refused one changes nothing); the
authorisation of an intent; which element a command finds; the interceptor's
permit. That the CDP layer finds the tab held and Chrome takes the input is one
step (`Act`). The shipped client dispatches an intent
once; the second try is what the route, its tests and `act-store.ts:12` provide
for. Two polls are one whose client died and the one that follows it: the loop
itself never has two, because of its lease.

### Runs

| Run | Instance | Shows |
|---|---|---|
| `BrowserChannel_orphans` | 2 intents of a run, both navigations, 2 polls, 2 lettings-go, 1 try, 1 fault | a row ahead of the awaited one, drained, expired or halted while a poll holds a copy; two overlapping lettings-go anywhere in two commands (1.86 million states) |
| `BrowserChannel_retries` | 1 intent, 2 polls, 2 lettings-go, 2 tries, 2 faults, fair | lost sockets, restarts, deaths and stops in every order; the promise kept, one act to a row of evidence and the worker answered (441,000) |
| `BrowserChannel_wrong_run` | 2 runs | **violated**: a stop halts the run it interrupts |
| `BrowserChannel_second_caller` | 2 intents, 2 lettings-go | **violated**: a second caller reports nothing |

Bounds: `MaxTries` dispatches of an intent; `MaxFaults` counts losses, failures,
deaths, stops, blocked requests and restarts together. Two intents suffice for
an orphan and an awaited row, two tries for a superseded hold, two lettings-go for a
late one (one stop is enough of a fault, since its detach raises the other), two faults
for a lost socket followed by a stop, or a restart by another. `HaltedMemory` and
`ReportedCap` are 1, so the second answered intent makes the extension forget
the first; a halt is forgotten only with two runs halted, which these instances
do not have and `HaltedHoldsNothing` covers.

Fairness (`FairSpec`): the app's own steps and timers run, and a worker whose
socket is gone concludes. Nothing is asked of the extension, so
`EveryDispatchIsAnswered` holds with the browser closed.

### What the violated properties say of the code

**A stop can halt the wrong run** (`service-worker.js:1551`). A command runs in
whatever tab is held. The tab outlives its run, so a continuation works in it
under the earlier run's id, and letting go halts that one.

**A late second caller takes a newer command** (`service-worker.js:1366`). The
comment at `:1380-1383` says that re-entering is harmless, because the command was
taken the first time and because callers return early once the tab is gone. A
caller that read the tab before does not look again. In the run a stop and the
`onDetach` it raises read the tab of `first`; the stop claims nothing, as `first`
has ended, and forgets the tab; a poll hands out `second`; and the listener, coming
last, claims it and answers it control-lost. `second` found no tab, opens one of its
own and goes on to act. The window is some storage writes and a message to a page.

Also met: the catch-all of `performCommand` says not-delivered of any error it
does not know (`cdp.js:1851`), Chrome's own rejection after a detach included,
so the extension can say it of input that reached the page;
`act-store.ts:12` says the worker retries a dispatch after a restart, and
`browser-control.ts` answers not-reported instead; the wire schema's list of
kinds (`channel.ts:267`) lacks `complete-purchase`, which its own type
(`channel.ts:99`) has, so the dispatch of a purchase is refused although
`README.md:92` lists it; a blocked request reports whatever command is in
flight (`service-worker.js:1457`), which may be a later one.

## WorkerLoop and Policy

`WorkerLoop` is the loop of `worker-loop.ts` over the runs of one contract: each
run rebuilds from the contract's rows what was already done (`history.ts`),
plans, and then observes, proposes, asks the gate, commits the intent, acts and
records, until a stop rule, the model or a question ends it. `Policy` has the
functions it asks: compiling a contract and its dials into a policy, the gate's
checks in their order (`Checks`, `Authorize`), the stop rules, the credited
deadline, which acts need a yes.

| State | Code |
|---|---|
| `contract` | the ratified scope (kinds, pinned document, purchase) and the four dials |
| `now`, `waited` | the clock; `confirmationCreditFor`: the time spent waiting for answers |
| `run`, `pc` | which run of the contract is in hand and where its loop is |
| `loop` | the counters the loop decides by, the page in view, what was read, whether the tab was lost |
| `act` | the action authorised in this turn |
| `ledger` | the contract's `ActionIntent` rows, by what they add up to |
| `asked`, `yes` | the question a run parked on; the confirmed requests |
| `acts`, `ended` | history: actions authorised under a yes; how the run ended |

`Fails` is every error of the browser channel, at the point where the attempt
has been counted and its effect is unknown. `WorkerLoop_caps` (fair, 32,500
states) takes a document contract and a shopping contract with one purchase,
three settings of the dials, two pages that show different elements at one
reference, two runs with a question between them. Its bounds are small values of
the code's own limits: `MaxPlanSteps` 2 (12), `MaxActions` 3 (40),
`MaxMutatingActions` 2 (8), `MaxPauseCredit` 1 (240 minutes), a `TimeLimit` of 2
on a clock that ends at 3. Every cap can be reached in either run and by both
together, which is what the caps are for.

It shows that caps hold over the runs of a contract whatever fails, that a yes is
spent only on the element that was shown, that nothing is authorised past the
credited deadline or after the tab was lost, and that every run ends or parks
(`RunEnds`). The fairness is of the loop's own steps: each call it awaits answers
or times out. Nobody is obliged to answer a question.

Also met: `confirmationIdFor` (`history.ts:441`) matches a yes by kind, reference,
text and element and never by page: two pages that show the same line of the
tree at one reference are one to it, so the property says "the element shown" and
not "the page".

## CaptureGaps and CaptureLedger

`CaptureGaps` is how the app learns that it was not watching: the session the
store keeps in memory (`live`, `ending`), the sweep's timer and the sleep
detector (`armed`, `previous`, `due`), a sweep half-way through (`sweep`), the
gap rows (`gaps`) and when a write of one failed (`failedAt`). The clock advances
by ticks or by a nap; a timer that was due during a nap is served on waking.

`CaptureLedger` follows a signal from the extension's buffer (`pending`, `known`)
through a call of `flush` (`flush`: called, loaded, taken, posted) to the route
that admits a batch and appends it row by row (`request`, `rows`, `handled`),
while sessions and grants come and go (`watched`, `begun`, `grant`, `permitted`),
the classifier remembers pages (`seen`, `recorded`), the worker is killed
(`lost`), and the app is away, refuses a write or loses an answer (`faults`).

| Property | Says |
|---|---|
| `GapsTellEachSilenceOnce` | no minute is told twice, whichever of the two signals spoke, and none in which the extension was heard |
| `SilenceIsOnTheRecord` | a silence of the grace period is on record once a sweep is over, unless a write was refused |
| `NothingTakenIsDropped` | a signal is buffered, in a batch somebody holds, or dealt with; only a killed worker's batch is lost |
| `AppendsOnlyWhatIsGranted` | no row of a site is written while its grant does not stand, although the list was read earlier |

Also met. The comment at `gap-watch.ts:117` about what a late sweep sees is not
what the code does; a sleep and an overdue heartbeat race against point 2 of
ADR-0033 (`capture-session.ts:148`); a gap row ends when the silence was
noticed, not when it ended; the rule of `CONTEXT.md:474` about an event that
arrives late is not in the code; the extension's buffer is not cleared when the
session changes; a worker killed in the middle of a flush loses the batch
(`service-worker.js:645`); a lost answer or a failed write makes the extension
send again what was recorded, so rows are duplicated and a replayed first visit
becomes `returnedTo`.

## AmbientOffers and Grounds

Between sessions the app holds what was browsed in memory. `held` is that
buffer, `generation` counts how often it was emptied; `names`, `naming`,
`attemptedNames`, `offers`, `composing`, `attemptedOffers`, `remembered`,
`snoozed` are the store's maps by strand; `declines` is the durable count of
noes. `poll` is a poll that waits for the database, with the buffer it read;
`posting` a batch past the route's check for a session; `nameCalls` and
`offerCalls` the calls to models in flight, each with the generation it was asked
in, and `asked` how many were paid for. `screen`, `accepting` and `intention` are
the person's side. `Grounds` is which behaviours make a strand worth an offer,
the axes it has to reach and how every no raises them (`grounds.ts`).

`OffersAreOfThisBuffer` and `PaidCallsAreBounded` are the two promises: an answer
that arrives in another buffer leaves no trace, neither its offer nor its
failure; a strand costs one call for its name and two for its offer as long as
the buffer is held.

Also met. `ambient-store.ts:297` says the buffer is cleared on a decline, a start
and a stop; only `startFromSuggestion` (`actions.ts:1593`) clears it. `POST` and
`DELETE /api/session` have no caller. `nameThread` does not compare generations
itself (`ambient-store.ts:697`); a poll in flight works on observations read
before a clear; a batch past the route's check records after a session has
started; two concurrent calls of `startSession` leave a row observing.
`acceptWorkOffer` ratifies the offer the store holds when it runs, which may have
been composed after the screen was drawn (`actions.ts:1839`, against the comments
at `:1884` and `:1905`).

## Handoff

From a sitting to a shift: `filing` (each project's row, Intention, document and
site), `session` (where the sitting is filed, its Intention, its phase),
`beside` and `expects` (another sitting of the first project; whether the offer
expects a document), `contracts`, `shifts` (the contract of each run queued by a
ratification), `acting` (what each request is in the middle of) and `clicks`.
Every request of `actions.ts` reads, waits and writes in separate statements:
`RefileReads`, `SplitReads`, drafting and accepting each have a first step that
reads and later ones that write. What the database refuses ends the request.

| Property | Says |
|---|---|
| `RatifiedAsShown` | what is ratified has the terms of the draft on the screen and exactly the kinds the dial leaves |
| `OneShiftPerRatification` | many windows and one button: one run, and none for an unratified contract |
| `NothingMixesProjects` | no sitting has another project's Intention, and no contract the document of one and the Intention of another |

**Violated** (`Records_moved`): *an agreement is ratified for the project its
sitting is filed under*. A move corrects the sitting's Intention
(`actions.ts:3528`, `repositories/index.ts:1245`) and leaves the drafts made from
it alone; draft, move, accept ratifies a contract that names the old project's
Intention and document. It also makes the old project undeletable.

Also met. `acceptContract` with changed choices leaves the draft it was shown, so
a second contract and run can be made of it (`index.ts:1537` says at most one).
Accepting, `markAway` and `enqueue` are three statements: a crash after the first
leaves an accepted contract with no run, the retry is refused, and `attempt`
(`actions.ts:142`) says that nothing was changed. `carrySourcesAcross` races a
withdrawal and undoes it; a source approved during a move is left behind;
`deleteProject` does not end the capture of its live session.

## ShiftReview and Changesets

`Changesets` is `changeset.ts`: the difference of two texts by lines, its
changes with offsets, and applying the ones accepted, over tokens and line
breaks. `ShiftReview` is who decides them: `versions` of the document,
`changesets` of the contract, `writing` (a run that has recorded its outcomes and
not yet attached its changes), `answer` (the shift's other held outcome), and
`windows`, each in the middle of a verdict, a save or `finishShift`. The document
is never locked, and the unique keys of the rows (document and ordinal, changeset
settled, change decided) are all that holds the statements together.

`FoldsWhatWasDecided`: a changeset goes into the document once, decided through
and through, as the fold of the verdicts on record. `DecisionsAreLocal`: each
change quotes the base where it says, none overlap, and what was not replaced
stays where it was, by a definition (`Reading`) that goes through the base from
left to right and never splices.

**Violated** (`Records_accept_all`): *accepting everything reproduces the
worker's prose* (`tests/document-engine.test.ts:197`). A line that is only added
is a change of no width whose replacement has no line break
(`changeset.ts:230`): accepted, it runs into the line after it.

Also met: two changes of no width at the end of a text that ends in a blank line
begin at one place (`changeset.ts:229`) and are applied in reverse order, which
`DecisionsAreLocal` leaves out (`OneAtAPlace`); the check that nothing moved and
the write of the version are apart (`actions.ts:3966`, `:3895`); an earlier
changeset of a contract with two runs is never settled.

## Thread

The paired phone. A *line* is a bot and the person's chat with it. `paired` is
the connection row with its read cursor, `pairer` and `forgets` a pairing and an
unpairing half-way, `saidRow` the row of each key that was said, `chats` and
`updates` the provider's side, `dropped` what it no longer offers, `verdicts` how
each question was answered, `passes` the worker's passes and the app's feed
(claim, send, note, poll, deal, mark), `dealt` what became of each update. The
timer does not wait for a pass, so passes overlap; a process may die at any step;
anybody may write to the bot.

`SaidOnce`: nothing is said twice between two pairings. `AnswersLandWhereAimed`
and `RepliesAreKept`: an answer lands on the question replied to, and no reply is
passed over. `torn` is the history of what the code does not withstand: "pass"
once a pairing changed under a pass, "save" once the rows of one thread were left
for another. `AnswersLandWhereAimed` is stated for as long as neither happened,
`RepliesAreKept` as long as the first did not: see below.

**Violated** (`Records_offer_yes`): *a yes in reply to an offer is taken for
one*. The offer says "Reply yes and I will set it up" (`messages.ts:265`); the
worker, the only caller of `readReplies`, passes no open offer
(`worker.ts:263`; the comment at `:247` calls that deliberate) and answers that
it did not follow, and the caller that `thread.ts:520` names does not exist.

Also met. Overlapping passes may tell one unreadable reply twice and move the
cursor back. `noteProviderMessageId` goes by key alone, so pairing anew during a
send binds the old chat's number, and an answer can land on another question; a
pass keeps the old credential after an unpair (`thread.ts:85`). `save` writes the
connection and then deletes what was said (`repositories/index.ts:3906`, `:3917`):
when another bot is paired and a pass begins, or the app dies, between the two,
the numbers on record are those of messages in the other chat, and a reply in the
new one answers the question that had its number. Between the save
and the mark of a pairing a tick may answer "I didn't follow that" to Start
(`thread.ts:261` says it does not). A claim between the two deletes of an unpair
makes the second fail. A reply sent before its question's number is noted is not
followed, and a crash between send and note leaves the question unanswerable by
phone. A second answer to an answered question is dropped in silence. Abstracted:
credential and chat are read as one; reports and gaps are said by the same claim
and send as a question; the provider's own replies and photos are not numbered.

## Supervisor

The tray. `stage` is the launch (checking, parked, started, ready, over);
`keeper` the thread of each half with what it counts (`run_child`: look, spawn,
note, wait, pause), `tree` the half's process group (whole, headless or dead),
`noted` the pids written down, `stopping` the flag, `termed` the groups sent
SIGTERM, `doors` the calls of `shutdown`, from the event loop and beside it.

`StartsAreMeasured`: a half is given up on for what its last end said, or for
three quick ends in a row, is not started again after that, and once it is told
to stop spawns at most the one process it had decided on. `LeavesNothingItSaw`: a
group that a quit asked to end is dead when the quit is over.

What they do not say is what the code does not do, against `supervisor.rs:345`
("quitting leaves no orphan"): between the look at the flag and the spawn, and
between the spawn and the noting of the pid, a quit sees nothing to kill. A quit
during the preflight acts on the supervisor held until then, and the one started
has a flag of its own (the comment at `:445` says nobody holds a stale one); a
root that crashed leaves its descendants with no pid on record; of two shutdowns
one exits before the other's SIGKILL; the flag for a port in use, set by the pump
of stderr, may be read late.

## The run Records

`MCRecords` checks the seven modules from `CaptureGaps` to `Supervisor` in one
run: they share no state, so `focus` picks one at the start and only that one
steps. The state spaces add up (1.03 million states) instead of multiplying.
`Flushers`, `Callers`, `Windows` and `Passes` are given the same two model values
and interchanged; that is sound because a behaviour uses them in one module only.

| Part | Instance | Why it is enough |
|---|---|---|
| gaps | grace 3, interval 1, tolerance 2, naps of 1 and 4, time 8, 2 sessions | a nap within the tolerance and one past the grace; a silence, a nap and another session one after the other |
| ledger | a site initially granted or not, 2 flushes, 2 signals, 1 sitting, a change of grant or a fault | a batch in each flush, or one behind the other, and a fault or a withdrawal between any two steps |
| offers | 1 strand: a guide read, left and come back to, a shop 46 minutes later; 1 emptied buffer, 1 no; an offer that is drawn on the screen is accepted before anything else happens | grounds that suffice before the no and not after it; late answers of the buffer before |
| handoff | 2 projects, of which the other is new, empty or worked in, 2 requests, 3 contracts, 3 clicks | a move or a deletion under a draft, a second window, an accept with changed choices |
| review | a text of a heading and two lines, 2 windows, 3 versions, 2 changes | an added and a replaced line; a save or a verdict between check and write |
| thread | 1 line, a question and an offer, 2 passes and the feed, 2 updates; once staying paired with overlapping passes, once re-paired with one pass at a time (focus `pairing`) | a stranger's and the person's message in both orders; both orders of every two writers |
| supervisor | 1 half (halves share nothing but the flag), 3 ends | three quick ends in a row, and two with another between |

`Records_accept_all`, `Records_moved` and `Records_offer_yes` are the three
violated statements quoted above, on the same instance (in the last the person
writes "yes").

No part of `Records` is checked under fairness: each property is of what was
done, not of what will be. What must eventually happen in these parts hangs on
the browser, the provider or the person, which the code does not drive.

## Proofs

`AgentRunsProofs` proves, for any number of workers, requests, rows and intents
(the assumptions are `RunsAssumption`: positive bounds, and `NoWorker` is not a
worker):

| Theorem | Property |
|---|---|
| `TypeCorrect` | `TypeOK` |
| `OneMoverAlways` | `OneMover` |
| `TokenAlwaysFollowsTheRun` | `TokenFollowsTheRun` |
| `AYesIsAlwaysSpentOnce` | `AYesIsSpentOnce` |
| `AlwaysParkedOnAQuestion` | `ParkedOnAQuestion` |
| `ClaimAlwaysHolds` | `ClaimHolds` |
| `NothingResurrects` | `NoResurrection` |
| `LedgerOnlyGrows` | `LedgerIsAppendOnly` |
| `AlwaysOneStepPastAStop` | `OneStepPastAStop` |
| `OverIsNeverCarriedOn` | `StoppedStaysStopped` |

The argument has two layers. First, seven *rules* (`RowRule`, `LedgerRule`,
`QuestionRule`, `ResumesRule`, `WorkerRule`, `AppRule`, `RowsRule`), each about one part of
the state, are shown to hold of every step, one case per action. Then the
inductive invariant `IInv` is shown to be preserved by any step that obeys the
rules, without looking at actions again, except for the two that add a row.

`OneMover` is not inductive by itself. It needs `ClaimedRun` (the row names the
process that executes it, so two processes never drive one row), `ReviewedRun`
(the reviewed run has ended before its review is queued), `YesInHand` (one
request holds a yes, and has not spent it) and `ParkedOnAQuestion` (a question's
run has ended, so nobody drives it). `OneStepPastAStop` rests on its own
strengthening `LateInv`: between its fence and its insert a worker's run has no
late intent yet, and `ClaimedRun` makes that worker the only one that inserts.
`OverIsNeverCarriedOn` needs `OverRule`: every step keeps what is over over, and a
request takes up a yes only of a run that waits for an answer.

Two properties hold only of a system arranged as the product arranges it, and
their theorems say so in a hypothesis; everything else stays arbitrary, the
number of rows, requests or workers and the faults included.

| Theorem | Hypothesis | Property |
|---|---|---|
| `NothingSettlesAnActionInFlight` | `OneWorker`: the supervisor keeps one worker process | `InFlightIsUnsettled` |
| `AwayIsExplained` | `OneWorker` | `AwayOnlyAfterAClosedQuestion` (proved only; no run repeats it) |

Without its hypothesis each is false, and *Also met*, under `AgentRuns`, tells
how.
`FlightInv` says that the run a worker drives is live:
with one worker no sweep runs meanwhile, and no request ends a live run. Until
something fails the converse holds too, every live run is driven, which is why
`AwayInv` can say where a shift that is away has got to: it goes on, waits for
an answer, is being handed back, or a stop closed its question.

`BrowserChannelProofs` proves, for any number of runs, intents, polls, overlapping
lettings-go, tries and faults and any caps (`BrowserChannelAssumption`: the caps and the bound on
tries are positive, and `NoOne` is none of the runs, intents and polls), every
safety property its runs check:

| Theorem | Property |
|---|---|
| `TypeCorrect` | `TypeOK` |
| `HaltedHoldsNothing` | `HaltedRunsHoldNothing` |
| `AbandonedMeansNotRun` | `AbandonedNeverRan` |
| `EvidenceOfOneAct` | `EvidenceIsOfOneAct` |
| `OneOutcomeHolds` | `OneOutcome` |
| `LetGoIsHandsOff` | `HandsOff` |
| `ChannelKeepsThePromise` | `KeepsThePromise` |

The *writers* lemmas say which actions write which variables; each part of the
inductive invariant is then shown against only the actions that write what it
is about. None of the properties is inductive by itself, because each is about
a row or an effect and depends on where an instruction is in between:

- `OneHand`: an instruction that was handed out is with one answering poll, or
  in the loop, or acted, and its row says handed out for good. Only the guarded
  `UPDATE` of `Claim` starts this, so an abandoned row never acts.
- `OneReporter`: the right to report it is with the poll, in flight, with
  whoever lets go, or spent on a post, one at a time. So a post is made once.
- `Reports`: a report of success is of an act, and a post that says success has
  no evidence before it is filed.
- `Truthful`: what a handler or the worker was told of a row is still so.
- `OneRelease`: at most one letting-go is between its claim and the forgetting of
  the tab, which is what the flag is for and why a command is claimed once.
- `Held`: an instruction that is the tab now held, one that a letting-go has read,
  or one that was interrupted (`Past`) was handed out and will open no tab any
  more. So a tab that was let go of is never held again, and a letting-go past its
  detach finds its tab detached or another one held; what it interrupts has no tab
  to act in.

The refinement then needs no further look at the actions: only `Act` changes
`effects`, the invariant before the step allows it, and the invariant after a
step says that whatever was newly told is true.

`WorkerLoopProofs` (from `PolicyAssumption` and `LoopAssumption`: positive caps,
numbers where the code has numbers) proves `CapsAreKept` (`CapsHold`),
`CountersAreTheLedger` (`CountersMatchTheLedger`),
`WorksInsideTheTimeLimit` (`AuthorisedInsideTheTimeLimit`),
`YesAlwaysCoversTheElement` (`YesCoversTheElementShown`) and `NothingFollowsTheTab`
(`NothingAfterTheTabIsLost`). A cap is checked against the loop's counters and stated of the rows; the invariant `LoopInv` is
that between actions the two agree and that during one they differ by exactly
the action in hand. It survives a failure because the attempt is counted before
its outcome is known, and a new run because the counters are rebuilt from the
rows. A yes covers what it is spent on because the gate's last check passes an act
at an element of which nothing is known only when it is confirmed, and confirmed
means that a row of `yes` matches (`PassesConfirmed`). A loop that lost its tab has
ended (`LostHasEnded`), because the loss is a structural stop.

`CaptureProofs` has two parts. That on gaps (`GapConstants`) proves
`SilencesAreToldOnce` and `SilenceIsRecorded` for any grace, interval, tolerance and nap. Neither is
inductive: a row is told apart from the next by where the next would begin.
`GapInv` adds `Past` (nothing lies in the future), `Horizon` (all that was told
ends before the point the next row would begin at), `SweepIsNow` (a sweep that
waited is of this moment and this session, or the session is new) and
`OpenIsTold` (a silence the store counts as told is on record or was refused).

That on the ledger proves `LedgerTypeCorrect`, `NothingIsEverDropped` and
`WritesOnlyWhatIsGranted` for any number of flushes, signals and faults. The
second needs `Awaited`: a flush that waits for an answer waits for a request that
has dealt with its batch, or has what is left of it in hand, so that an answer of
success may forget the batch.

Of `AmbientOffers`, `HandoffProofs` proves `OffersAreAlwaysOfThisBuffer` and
`PaidCallsAreAlwaysBounded` from `Marked` (a strand marked as being asked about
has a call of this buffer in flight), `Paid` (the markers and the calls bound
what was paid) and `OneCall` (one call of a kind per strand and buffer).

Of `Handoff` (`HandoffConstants`) it proves `AlwaysRatifiedAsShown`,
`AlwaysOneShiftPerRatification` and `ProjectsNeverMix`. Its invariant says what a
request in the middle knows (`CallKnows`: what it read before it waited is still
enough for what it will write, because terms never change and no contract becomes
a draft again, lemma `Grows`), that one request holds a ratified contract whose
run is not queued, and what a contract's row keeps (`RowKnows`).

`ShiftReviewProofs` proves `AlwaysFoldsWhatWasDecided` for any windows and texts.
The invariant is `WindowKnows`: a window past its check holds a changeset as it
is on record, decided; and a decided changeset never changes again.

It also proves `DecisionsAreAlwaysLocal` (`DecisionsAreLocal`), which is about what
the loops of `Changesets` compute for every text (`ReviewConstants`: a line holds no
line break). They are recursive functions on the number of turns taken; the
library's induction theorems cannot be used, so induction is had from a set of
numbers having a least (`Climb`), and with it that a function so defined exists
and what it keeps (`Recursion`, `Kinds`). On that rest `RoundTrip` (the lines of a
joined text join to it again), `DiffIsLaid` (the changes of a difference quote the
base, in order, none into the next; whatever common subsequence the matrix
gives), and `MaterialiseReads`: for such changes, no two at one place, splicing from
the right gives what reading from the left gives, by induction on how many are
left. The invariant is that a changeset's changes are laid on the base
(`DocumentInv`).

`ThreadProofs` proves, for any bots, questions, texts and passes, `SaidOnlyOnce`
(`SaidOnce`), `AnswersHitTheirQuestion` (`AnswersLandWhereAimed`) and
`RepliesAreNeverLost` (`RepliesAreKept`), each from an invariant of its own.
`SayInv`: a message about to be sent is in no chat, nobody else is about to send
it, and its key has a row, or the rows were cleared since it was claimed. `AimInv`:
a number on record is that of the question's own message in the chat of the
pairing, except between the two statements of `save`. `KeepInv`: everything before
where a pass has read to was dealt with, and a pairing begins to read at the Start
message (`ReadsFromStart`). The attempt to prove the second is what found the half
done save told above: the property had been stated without it, and the instance
has too few bots and updates to show it.

`SupervisorProofs` proves `HalvesStartAsMeasured` (`StartsAreMeasured`) and
`QuitsLeaveNothing` (`LeavesNothingItSaw`) for any halves and any number of ends.
`CountsItsEnds`: the count of quick ends is the length of the run of them that the
history closes with, or short by the end not yet judged, unless somebody was told
to stop. `Keeping` and `DoorsKnow`: a half is asked to end only while its thread
waits, with the flag up, so that the thread will not start another.

`AgentRunsProofs.TypeCorrect`, `BrowserChannelProofs.TypeCorrect`,
`LedgerTypeCorrect` and `CountersAreTheLedger` are proved and not among the
runs' properties.

Only model-checked: the liveness properties (`RunsEnd`, `QuestionsClose`,
`RunEnds`, `EveryDispatchIsAnswered`), which the prover does not reach.
The type invariants of `WorkerLoop`, `AmbientOffers` and `Handoff` beyond what
their proofs needed are not stated as theorems.

## Not modelled

- *Pure I/O and text*: what a screen renders, what a prompt says and how an
  answer is parsed, wording of questions, agreements and reports, HTML
  conversion and import of documents, migrations, the evaluation harness and its
  fixtures.
- *Detection*: scoring, topic extraction and ordering are arithmetic on strings
  whose quality the evaluation measures; `Grounds` has the part that decides. The
  reticence learnt from tallies of shown offers, and a site's own decline, are
  left out.
- *Capture*: dwell lengths, and the selected and queried signals, which pass the
  same buffer and door as those modelled.
- *Extension*: the request interceptor and its landing permit, the marker drawn
  on a page, the resolution of an element; the page scripts.
- *Handoff*: the reading of a sitting and its claims, two readings that race, a
  shift that has only an answer, provenance of words.
- *Calendar*: one read per draft, to propose a length.
- *Append-only guard*: database triggers that refuse what the models never do.
- *Intention state, work so far*: functions of rows, computed for a screen.
- *Supervisor*: the light, lengths of pauses, reuse of pids, the preflight's own
  children, a second launch over orphans, the first-run window. The light says Up
  when one half is up and the other stopped.
