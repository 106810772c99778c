# A TLA+ specification of macp-control-plane

The control plane observes multi-agent coordination sessions that live in a
separate runtime. Agents drive a session directly against the runtime; the
control plane creates a *run* for it, subscribes to it read-only, writes what it
sees to an append-only event log with a projection beside it, streams that log to
clients, tells webhooks of the outcome, and lets operators cancel, suspend and
resume. It is one Node.js process (or several) on PostgreSQL: every handler and
loop is a chain of awaited calls, and all the others may move between any two of
them. That is what these modules are about.

Source paths below are relative to `src/src/`.

## The parts of the system

| Part | State it keeps | Operations | Talks to |
|---|---|---|---|
| Run repository (`storage/run.repository.ts`) | `runs`: status, idempotency key, sequence counter | create, conditional `transitionTo`, `allocateSequence`, `listActiveRuns`, delete | PostgreSQL |
| Run manager (`runs/run-manager.service.ts`) | none | createRun, markStarted, bindSession, markRunning, markSuspended, markResumed, markCompleted, markFailed, markCancelled, deleteRun | repository, event service, webhooks |
| Event service, event repository (`events/`, `storage/`) | `run_events_raw`, `run_events_canonical` | lifecycle events; an envelope with its canonical events, projection and resume ordinal in one transaction; metrics and publication after it; rebuild | repositories, projection, metrics, stream hub |
| Normalizer, projection (`events/`, `projection/`) | `run_projections`, `applyLocks` | frames to canonical events; canonical events to the read model | repositories |
| Stream hub, SSE, replay (`events/`, `controllers/runs.controller.ts`, `replay/`) | a subject per run, a Redis channel | publish, complete, snapshot, backfill, live, paging | clients |
| Run executor (`runs/run-executor.service.ts`) | a background loop per launch | launch, execute, pollForOpenSession, cancel, suspend, resume | run manager, consumer, runtime |
| Stream consumer (`runs/stream-consumer.service.ts`) | a marker per run: aborted, finalized, ordinal | start, stop, stream loop, resubscribe, poll loop, finalizeRun | runtime, event service, run manager |
| Session discovery (`runs/session-discovery.service.ts`) | `knownSessions`, one watch | the WatchSessions loop, reconcile from a sync snapshot | runtime, run manager, consumer |
| Signal consumer, watch reconnect (`runs/`) | one watch | ambient signals into the log, pacing of reconnects | runtime, event service |
| Run recovery (`runs/run-recovery.service.ts`) | an advisory lock per run | one sweep after a restart | repository, run manager, consumer |
| Runtime provider, breaker, credentials (`runtime/`) | buffers of open streams, breaker state and history, minted token | unary calls through the breaker, ListSessions, three kinds of stream | runtime |
| Webhooks (`webhooks/`) | subscriptions, deliveries | fire, deliver with retries | subscribers |
| Retention (`retention/`), database locks (`db/database.service.ts`) | an advisory lock | delete old terminal runs in batches | repositories |
| Receipts, policy, insights, dashboard, audit, artifacts, telemetry, HTTP | side tables | reports, validation, routing | repositories |

`PROJECT.json` lists every part with its status, and the hazards found while
reading the code, each at its line.

### What is hard, and what correct means

* **Five writers, one row.** Executor, consumer, discovery, recovery and
  operators all finish a run. Each decides on a status read before its own
  write; the conditional UPDATE arbitrates. Correct: one outcome, and the log
  and the webhooks tell no other.
* **Two transactions per transition.** The status update commits before the
  event that announces it. Correct: what happens in between, a crash or another
  writer included, makes neither of them wrong.
* **Stale knowledge.** Snapshots, watch events and `getRun` results are acted on
  later. Correct: a run is completed only if its session resolved; a delete only
  hits a terminal run; a drift report names no session that was there throughout.
* **Resuming.** A stream is reopened after disconnects, failed transactions and
  restarts, from an ordinal kept twice (marker and table). Correct: each
  envelope gets into the log once; failing that, at least once.
* **Reading while others write.** Batches, a rebuild, SSE clients and replays
  share the log of a run. Correct: the projection is the fold of the log, a
  reader sees numbers in order and misses none it could have had.
* **Late messages.** Proposals, votes and signals reach the log after the
  commitment and after the end of the run. Correct: what was decided stays.
* **Shared and failing resources.** One breaker for all calls, one buffer between
  callbacks and a reader, a pool that closes under a delivery. Correct: nobody
  waits for ever, nothing keeps a stopped process alive, and one caller's trouble
  is not everyone's.
* **Ending.** Correct: when the session is over its run ends, over a watch that
  loses events, a crash, and a race between executor and discovery, and the
  consumer lets go.

## The modules

| Module | Models | Extends or instantiates |
|---|---|---|
| `RunTransitions` | statuses, `VALID_TRANSITIONS`, `listActiveRuns` | |
| `RunProjection` | `applyEvents` restricted to `run.status` | RunTransitions |
| `RunStateMachine` | abstract: what a run's row and log promise | RunTransitions |
| `RunManager` | `RunManagerService` and its tables, any number of callers | RunProjection; refines RunStateMachine |
| `RunManagerProofs` | theorems on RunManager | RunManager, TLAPS |
| `ControlPlane` | executor, consumer, discovery, recovery, operators and the session, around one run | RunProjection; composes `RM == INSTANCE RunManager` |
| `ControlPlaneProofs` | theorems on ControlPlane | ControlPlane, TLAPS; `RMP == INSTANCE RunManagerProofs` |
| `StreamResume` | how envelopes get into the log: ordinals, reconnects, restarts | |
| `StreamResumeProofs` | theorems on StreamResume | StreamResume, TLAPS |
| `EventLog` | the log of one run, its writers, rebuild, metrics, both hubs, an SSE client or a replay | |
| `EventLogProofs` | theorems on EventLog | EventLog, TLAPS |
| `Normalizer` | the canonical events a frame becomes | |
| `Projection` | `applyEvents`, all sections | RunProjection |
| `RunView` | the read model while it is written | composes Normalizer and Projection |
| `RunViewProofs` | theorems on RunView | RunView, TLAPS |
| `CircuitBreaker` | the breaker and callers whose calls overlap | |
| `RuntimeCalls` | the ListSessions drain and the drift report over the shared breaker | composes CircuitBreaker |
| `CircuitBreakerProofs` | theorems on both | RuntimeCalls, TLAPS |
| `WatchStreams` | the queue between a gRPC stream and its reader, the watch loops | |
| `WatchStreamsProofs` | theorems on WatchStreams | WatchStreams, TLAPS |
| `WebhookDelivery` | deliveries, retries, shutdown, restart | |
| `WebhookDeliveryProofs` | theorems on WebhookDelivery | WebhookDelivery, TLAPS |
| `InstanceLocks` | advisory locks, recovery and retention on several instances | |
| `MC*` | values of the constants for TLC | |

How they fit together. RunManager and StreamResume treat the event transaction
as one step; EventLog opens it, statement by statement, and its `ReplayIsLog` and
`ProjectionCoversLog` (both proved) are what entitles the others to do so. EventLog says
*which* events are folded into the projection; Projection says what the fold
computes. ControlPlane reduces a stream to "delivers the Commitment, or ends";
StreamResume has its ordinals and WatchStreams its callbacks. RunManager fires a
webhook; WebhookDelivery is what happens to it.

### RunManager

One action per awaited database call. `call[c]` is the operation caller `c` is
in: `read` (getRun and the early returns), `insert`, `update` (the conditional
UPDATE), `recheck` (the `findById` when the UPDATE matched nothing), `upsert`
(the `runtime_sessions` row), `emit` (the event transaction), `notify` (the
webhook). `Throw` lets a call fail wherever it stands and keeps what was written
before; `Crash` drops everything in flight. Of the canonical log only the
terminal events are kept (`outcomes`), of the projection only `run.status`.
`Begin` allows any operation at any time once the row exists: the actual callers
do less, and `ControlPlane` has them as they are.

The abstract `RunStateMachine` has four steps: create, advance along the table,
announce the row's own terminal status, delete a terminal run.
`Refines == Abstract!Spec` maps `status` to the row and `announced` to the set of
terminal outcomes in the log.

### ControlPlane

One session, one run, and every actor of the process. An actor calls `RM!Begin`
and waits for its call to settle. The session moves by itself (`Agents`); each
move is queued on the watch if it is up. A crash loses the calls, the marker, the
watch, `knownSessions` and the requests; `rec` is then the recovery sweep, which
ends before the server listens (`onApplicationBootstrap`). The switch `Discovery`
is `SESSION_DISCOVERY_ENABLED`.

### StreamResume

Envelopes are 1, 2, ... and `after_sequence = n` asks for those after the n-th.
`cursor` is `runtime_sessions.last_envelope_ordinal`, `ordinal` is
`marker.envelopeOrdinal`, `pos` what the open stream has yielded. `CommitEnvelope`
is the transaction of `persistRawAndCanonical`: events and cursor together, the
cursor a floor that has no effect when there is no row.

bindSession moves the run to `binding_session` and inserts the row in a second
statement; `bound` says whether the row is there, or its insert under way. The
consumer may attach without it: `BindFails` (the insert fails, discovery logs it
and streams the session, the executor fails the run), `BindOvertaken` and
`InsertEnds` (the other caller finds the run bound and attaches first; the insert
succeeds or fails behind it), `Crash` (recovery attaches). While the process
lives, the marker in memory makes up for the missing row. So these undo exactly
once: a commit that took effect and is reported as failed; a crash while the log
of a run without a row holds envelopes; and a row that comes late, with the ordinal
0, behind envelopes. `clean` turns "no" there, and the exact properties are stated
up to that point.

### EventLog

A writer goes through `Allocate` (the UPDATE that takes the row lock), `Apply`
(the inserts, and the projection read through the transaction), `Commit` or
`Rollback`, `ReadMetrics`, `WriteMetrics`, `Publish` and, after a terminal event,
`Complete`. `rebuild` takes the same lock. The client is connected to the memory
hub, to the Redis hub of the publishing or of another instance, or it reads a
replay (`hub`). `sub` has the locals of `streamRun`: cursor, `highSeq`, and the
buffer that collects live events during snapshot and backfill. `excused` are the
events published after a later one, or lost on the way to another instance.

### Normalizer, Projection, RunView

Pure operators, one per branch of the code: `Normalize(frame, ts, known)` is the
sequence of canonical events, `ApplyEvent(pr, ev)` the projection after one of
them. `ApplyEvents` and `HearAll` go through a batch and a list of recipients
with a recursive function on `0 .. n`. A payload keeps the fields
that decide something (the id it refers to, participants, vote, action, outcome,
verdict) and loses texts, confidences and numbers. RunView sends frames, signals,
lifecycle events, artifacts and gap markers through both, with batches that fail
after the normalizer has remembered their sender, and with row transitions whose
event is written in a later step, possibly in another order. The next envelope
after a failed one is the same again; stream-status frames, inline errors and polled
snapshots may come before it, and only they do when the stream is given up.

### CircuitBreaker and RuntimeCalls

A call is `Execute`, and later `Succeed`, `Fail` or `Refused`, whatever the breaker
has become meanwhile. `elapsed` is the time since the last failure and stops at
the reset timeout. RuntimeCalls adds one caller that lists sessions page by page:
page limit, page-size ladder, overall budget, errors that drop everything and
errors that keep the prefix; sessions open and end between the pages, and the
drift report reads the runs afterwards.

### WatchStreams

`conn` is the state of one iterator: the call, the buffer, `ended`, the failure.
Each callback, each `next()`, `return()`, `abort()`, the idle timeout and the
shutdown is one step, which is one turn of the event loop. `strays` counts
connections that were given up while their credentials were being resolved,
`leaked` those of them whose call stays open. `kind` is the stream: the signal
watch, the session watch of discovery, or the stream of one session. The handlers of
the last two may throw out of the loop (`HandleFails`), and the buffer goes with the
stream; only the write of a session stream can fail (`WriteFails`), which leaves its
call open until `return()`. `WatchHandlesInOrder` is about signals, whose handler
catches; discovery makes up for dropped events with the next initial sync, the
consumer with its resume point.

### WebhookDelivery, InstanceLocks

A delivery is `List`, `Record`, then per attempt `Send`, `Answer`, `MarkDelivered`
or `MarkFailed`, `Wake`. Writes fail with the database or with the closed pool, and
when the connection breaks a write may have taken effect nevertheless
(`Unacknowledged`): a pending row without a delivery behind it, or a delivered row
that a later attempt sets to failed. `mine` are the rows that this process knows it
recorded. A rejection that nobody handles ends the process (`Exit`), since no
`unhandledRejection` listener is installed. InstanceLocks gives each advisory lock
an owner *session*, as PostgreSQL does, and lets every query take any session of
its instance's pool.

## The runs

### Passing

| Run | Distinct states | Shows |
|---|---|---|
| RunManagerSafety | 917,375 | Two callers, all operations, throws and crashes. The terminal events in the log (`OutcomeAgrees`) and the webhooks (`WebhookOutcomeAgrees`) agree with the row; a delete past its check hits only a terminal run (`PendingDeleteIsTerminal`); the service is the abstract state machine (`Refines`). |
| ControlPlaneOperators | 188,141 | Launch, stream, cancel, suspend, resume, one pause and one crash: a `run.completed` event or webhook means the session resolved (`NotifiedCompletedIsResolved`), a bound run ends when its session does (`BoundRunEnds`), the consumer lets go of it (`FinishedRunIsReleased`). |
| ControlPlaneFaults | 37,442 | Launch, streaming and recovery with every call failing and a crash: `CompletedIsResolved`, and the composed system still refines the abstract run (`Refines`). |
| ControlPlaneDiscovery | 2,521,341 | Discovery alone finds and drives the run, with failing calls, a crash, and recovery beside it: `CompletedIsResolved`. |
| ControlPlaneLiveness | 34,175 | Executor and discovery race over a watch that breaks: the end of the session ends the run (`SessionEndEndsRun`) and the outcome gets into the log (`OutcomeIsAnnounced`). |
| StreamResume | 605,456 | Disconnects, failed and unacknowledged transactions, compaction, a bind that fails, is overtaken or is cut off, two crashes. Exactly once up to the three faults above (`StoredIsPrefix`, `CursorCoversLog`, `MarkerCoversLog`), at least once always (`NothingLost`), and the run of a session that is over is finalized (`RunEnds`). |
| EventLog | 524,902 | Two writers, rollback, rebuild, crash, disconnect, and each kind of client. A replay sends exactly the log up to where it stands (`ReplayIsLog`); the stored projection is the fold of the whole log (`ProjectionCoversLog`); an SSE client sees no event twice or out of order (`ClientInOrder`), and misses only what was published after a later event or lost between instances (`MissedOnlyIfLate`). |
| RunView | 2,029,987 | Three batches out of seventeen kinds of frame and signal, two row transitions, any order. A committed decision stays as committed (`DecisionIsLastCommitment`), swept participants stay swept (`SweptStaySwept`), a settled quorum stays settled (`QuorumSettled`), and every sender is shown though its announcement was lost with a failed batch (`SendersAreShown`). |
| RuntimeCalls | 597,756 | A listing beside another caller, outages, sessions that come and go. The breaker is closed exactly within its allowance (`ClosedWithinAllowance`), its history is true (`HistoryAgrees`), a listing alone does not trip it (`LadderAloneDoesNotTrip`), the drift report names no session that was open throughout (`MissingWasAway`), and after an outage calls get through again (`RecoveredIsReached`). |
| WatchStreams | 104,840 | The signal watch, the session watch and session streams with every order of callbacks. No call outlives its reader (`NoStrayCall`), no wakeup is lost (`NoLostWakeup`), received signals are handled in order (`WatchHandlesInOrder`), a shutdown ends the loop wherever it stands (`ShutdownEndsLoop`), a watch comes back (`WatchComesBack`). |
| WebhookDelivery | 52,452 | Two webhooks, one without a secret, failing and unacknowledged writes, shutdown, crash, restart. A settled row tells the truth (`SettledRowIsTrue`), a shutdown does not end the process with a rejection (`ShutdownIsQuiet`), a delivery that its process knows to be recorded is settled while the process runs (`PendingIsSettled`). |

### What the repository says and the code does not do

`InstanceLocksRecovery` is a run of the project: "prevent multiple CP instances
from recovering the same run" (`runs/run-recovery.service.ts:51`) as
`RecoveredByOne`. The lock is given back as soon as the run has its consumer, and
an instance that starts a moment later recovers the run again.

For each of the following a configuration is kept; `tlc -config X.cfg` on the
module named in the second column prints the counterexample. The findings in
`PROJECT.json` quote the lines.

| Configuration | Module, property | The text | What happens |
|---|---|---|---|
| ControlPlanePaused | MCControlPlane, `TerminalNeverPaused` | "A terminal run never re-enters a paused state." (`session-discovery.service.ts:266`) | markSuspended updates the row, a cancel updates it and announces, then `run.suspended` commits: the projection of the cancelled run says suspended. |
| ControlPlaneLongPause | MCControlPlane, `SuspendedRunSurvives` | "The observer stream stays subscribed." (docs/API.md:203) | The idle timeout ends the silent stream, each SUSPENDED snapshot costs a poll retry, and the run is failed while its session is suspended. |
| ControlPlaneOrphan | MCControlPlane, `RecoveredRunEnds` | "run-recovery resumes it on restart" (`run-executor.service.ts:366`) | Recovery takes up a run in `starting` but promotes only `binding_session`; its consumer's markCompleted is refused, and the run stays `starting`. |
| StreamResumeUnbound | MCStreamResume, `NeverTwice` | "A crash can then never leave the persisted resume ordinal one envelope behind" (`run-event.service.ts:116`) | Discovery logs the failed insert of the session row and streams the session: the ordinal has nowhere to go, and a restart streams from envelope 1 again. A crash between the status and the insert leads there too, and after a lost acknowledgement the marker lags the log. |
| StreamResumeSilent | MCStreamResume, `MissingIsVisible` | "a real history gap must be recorded on every run" (`stream-consumer.service.ts:492`) | Out of reconnects, the loop polls a snapshot without envelopes and completes the run; no gap is recorded. |
| EventLogMissed | MCEventLog, `NothingMissed` | "live run events over SSE with resume support" (`runs.controller.ts:195`) | A batch that waits for its metrics is published after a later one; the filter drops it and no resume brings it back. |
| EventLogDecision | MCEventLog, `DecisionIsCounted` | "the same `metrics.decisionCount > 0` signal already trusted" (`run-manager.service.ts:522`) | Two unlocked read-modify-writes of the counters; the decision's is overwritten. |
| RunViewSilent | MCRunView, `SilentIsSkipped` | "participant was declared but never emitted any event" (docs/API.md:144) | Being the recipient of a proposal counts as activity. |
| RuntimeCallsMissing | MCRuntimeCalls, `MissingIsReal` | "whose bound session the runtime no longer reports as live at all" (`admin.controller.ts:102`) | The runs are read after the sessions; a session that opened behind its page is reported as missing. |
| WatchStreamsDelay | MCWatchStreams, `EndIsFollowedByDelay` | "reconnect after a stream end with a 5s back-off" (docs/ARCHITECTURE.md:134) | A stream that ends without an error is reopened at once. |
| WebhookDeliveryOutbox | MCWebhookDelivery, `OutboxIsDurable` | "Webhooks use outbox pattern for reliable delivery" (docs/ARCHITECTURE.md:349) | Nothing calls retryPending: a delivery whose process stopped stays pending. |
| InstanceLocksRetention | MCInstanceLocks, `OneRetention` | "only one instance runs retention at a time" (docs/API.md:1096) | The pool closes the session that holds the lock, and the lock is free. |

Findings without a property: the entries of `applyLocks` are
never deleted and a rejected one ends the process; `llm` and `outboundMessages`
have no column; `quorumStatus` against docs/API.md:137; two listings in a row trip
the default breaker; the cleared backoff timer leaves a promise that never
settles; a failed markFailed outside a shutdown is an unhandled rejection.

Other differences met while reading:

* docs/ARCHITECTURE.md:266-272 says the cursor is written outside the
  transaction; the code has it inside (`run-event.service.ts:153-156`), and the
  model follows the code.
* `session-discovery.service.ts:174` calls markRunning with its default OPEN even
  for a session it found RESOLVED (compare `run-manager.service.ts:211-215`).
* A refused transition in `handleSessionTerminal` ends the whole watch
  (`session-discovery.service.ts:242-256`; compare the comment at 176-178).
* `session-discovery.service.ts:158` puts a session into `knownSessions` before
  createRun succeeded; when it throws, the session is skipped until it ends.
* A failing trace artifact (`run-executor.service.ts:427`) fails a run that is
  being streamed.
* An acknowledgement that reaches the log before its signal is forgotten
  (`projection.service.ts:342`).

### Bounds, and why they are enough

* *RunManagerSafety*: two callers. A race over the row is between one writer and
  the state another left, and every conflict in the code is pairwise. `Reports`
  is {"RESOLVED"}, the state that reaches a terminal projection. The theorems
  cover any set of callers and any reports. The callers are symmetric.
* *ControlPlane*: one session and one run, since nothing but the watch is shared
  between runs; one launcher, one operator request at a time (its steps still
  interleave with all the others), one pause, one break, one crash,
  `MaxRetries = 1`. With one retry both sides of the budget test occur.
* *StreamResume*: three envelopes, two crashes, one retry. A duplicate or a loss
  needs one envelope before the fault and one after; a run bound without its row by
  a crash needs two of them; with one retry both sides of the budget test occur.
  All its invariants are proved for every bound.
* *EventLog*: two writers, three sequence numbers, pages of one row, two breaks
  (rollback, rebuild, lost message, disconnect or crash). An overtaking needs two
  batches, and a third one shows what it does to the client; a page boundary
  between two events needs pages of one. The writers are symmetric. (With four
  numbers and one break the run takes 2.3 million states and holds as well.)
* *RunView*: three batches, two row transitions, three participants. Each property
  relates what was logged first to what came later; the third batch is the one
  that could undo the second, and a row can end and be announced in any position
  between them.
* *RuntimeCalls*: threshold 3 and one halving, the smallest instance of
  "threshold above MaxHalvings + 1" in which a ladder and another caller's
  failures can both matter; three sessions on pages of two, then one; a page limit
  of two; a budget that runs out between and during pages. The breaker's
  invariants and the ladder are proved for all values.
* *WatchStreams*: four signals, so that buffer, item in hand and handled list are
  all occupied across a reconnect; a delay of two ticks, so that a reconnect falls
  inside and outside the pacing window; two strays.
* *WebhookDelivery*: three attempts, as in the code; one event to two webhooks, one
  of them refused before it is sent; two starts of the process.
* *InstanceLocksRecovery*: two instances with two sessions each, two runs.

Deadlock is checked in RunManagerSafety and WatchStreams (whose only rest is
`Stopped`). Elsewhere the system may come to rest when the session is over and the
bounded inputs are used up, so the check is off.

### Fairness

`FairSpec` of ControlPlane assumes weak fairness of each actor's own steps and of
each operation of RunManagerService: they are continuations of promises which
the event loop runs once they are settled. The end of a stream is fair only when
its session is over or its marker aborted: the runtime closes it, or the idle
timeout and the reconnect budget do, and an abort breaks the loop. In
StreamResume the stream's end is fair once the session is over and everything was
read. Agents, operators, breaks, crashes and failing calls owe nothing.
`SessionEndEndsRun` and `OutcomeIsAnnounced` are stated without crashes and
failing calls, because after a finalization that throws nobody tries again until
a restart (`stream-consumer.service.ts:281`). `BoundRunEnds` is stated with
discovery off: with it on, recovery's consumer can attach to a run that discovery
is still driving to `running`, its finalization is refused, and the run stays
running until another snapshot arrives.

RuntimeCalls assumes that time passes, that a call ends (each has a deadline) and
that somebody keeps calling: discovery's fallback, the polls of the consumers, the
readiness probe. `RecoveredIsReached` has the outage end for good as its premise.
WatchStreams assumes that the event loop runs what is ready, that timers fire and
that credentials come or fail; `WatchComesBack` has the runtime stay up as its
premise. WebhookDelivery assumes that each delivery's next step, a request with a
timeout, a timer or a write, happens.

### Mutants

Next to the definition it changes stands a mutant for each property: the UPDATE
without its WHERE, the recheck that takes any terminal status, the cursor outside
the transaction, the sequence allocated outside it, the rebuild without the lock,
live events ignored until the backfill is done, a proposal that takes over a
committed decision, a late message that wakes a swept participant, a reset that
keeps the count, a last page taken for the end of the list, a `return()` that
leaves a parked reader alone, a buffer dropped when its stream ends, and so on.
Each makes its run fail on that property.

## The proofs

`RunManagerProofs`, from `Callers # {}`, `Reports \subseteq SessionState` and
`Faults \in BOOLEAN`:

* `TypeCorrect`, `OutcomesAgree`, `WebhooksAgree`, `DeletesHitTerminalRuns` and
  `Refinement`, for any number of callers.
* `OutcomeAgrees` is not inductive: an emit appends whatever its caller is about
  to announce. The inductive invariant adds `PendingOutcomeAgrees` (a caller
  past its transition is right about the outcome),
  `PendingDeleteIsTerminal`, what a caller at each step can be doing, and that
  webhooks follow the row. The heart of it is that no action moves a row out of
  a terminal status except the delete, so what one caller relied on is not undone
  by another. `Refinement` then maps every step to a step of RunStateMachine or
  to a stutter.

`StreamResumeProofs`, from the bounds being naturals and the switches Booleans:

* `TypeCorrect`; `AtLeastOnce` (`[]NothingLost`, with every fault);
  `ExactlyOnce`, `ResumePointIsExact` and `MarkerIsExact`, up to the three faults,
  and through a bind that fails or is overtaken.
* The inductive invariant is `TypeOK /\ Positions /\ NothingLost /\ (Clean => Exact)`.
  `Positions` ties the read position to the marker: a stream stands exactly at the
  marker, and one past it while an envelope is being persisted; this is what
  `Persist` needs in order not to skip an envelope. `Exact` says that the log is a
  prefix, that the marker of a loop is its length, and so is the cursor of a row that
  exists. For a run without a row it adds `RowlessStart`: the cursor is 0, and as long
  as no loop has been attached the log is empty, so that a marker seeded with 0 is
  right. A crash with envelopes in such a log, or a late row, breaks exactly this.
  The invariant holds all of it or nothing.

`CircuitBreakerProofs`, from `FailureThreshold` and `HistorySize` being positive
naturals and the other parameters naturals, for any set of callers:

* `Allowance` and `HistoryIsTrue`. The inductive invariant is the type and the two
  properties. `DrainUsesBreaker` shows that every step of RuntimeCalls is a step of
  the breaker or leaves it alone, so the invariant is proved once, over
  `BreakerNext`. `RecordKeepsHistory` is the lemma on the ring: appending a state
  other than the last and dropping the oldest entry keeps neighbours different.
* `LadderIsSafe`, from `FailureThreshold > MaxHalvings + 1`: the added invariant
  `LadderInv` says that a listing which met no failure but its own accounts for
  every failure on the count, one for each halving and one more if its budget
  ended it. With `Allowance` the breaker is then closed.

* `DriftIsFair` (`[]MissingWasAway`): `DriftInv` follows the sessions that were
  open ever since the listing began. Those up to the page token have been taken, a
  page takes every one up to its last session, and a page without a successor the
  rest, whatever its size after a halving; so a complete listing has them all.

`ControlPlaneProofs`, from `Launchers \cap Uis = {}`, `UiOps` being operator
requests, natural bounds and Boolean switches, so for any number of launches,
operators, pauses, breaks, crashes and retries, with and without discovery:

* `CompletedMeansResolved`, `NotifiedMeansResolved` and `Refinement`.
* The inductive invariant `IInv` adds to RunManager's own what each actor holds
  in its hands: an undelivered watch event (`WatchInv`), the consumer's snapshot
  (`ConsInv`), the states a launch and discovery bind with (`ExecInv`,
  `DiscInv`). Each is `Truthful`: it says RESOLVED only if the session is
  resolved. The argument is that a resolved session stays so, hence a memory of
  it stays true however late it is acted on, while a memory of anything else
  completes no run. `RunInv` says the same of a `markCompleted` in flight and of
  the row, and that nobody deletes the run.
* The run manager's steps are not proved again. The actors call `RM`, RunManager
  with this module's variables; `RMP` is RunManagerProofs with the same
  variables, and a group of lemmas (`Same...`) shows that the operations of the
  two coincide, so that RunManager's invariant and its step-by-step refinement
  carry over. What is left for `Refinement` is that the actors' own steps
  stutter.

`EventLogProofs`, from `{"none", "rebuild"} \cap Writers = {}`, batches that are
not empty, `PageSize > 0` and natural bounds, for any number of writers:

* `ProjectionIsTheLog`, `ReplaySendsTheLog`, `ClientGetsEventsInOrder`,
  `NothingFallsThrough`.
* None of the four is inductive. `LogInv` is about the holder of the row lock: it
  allocated from the end of the committed rows, the projection it computed is the
  stored one and its own batch, and a rebuild that has read the log still has all
  of it. From this a commit appends at the end, which is why a page read beside a
  commit misses nothing below its cursor (`ReplayInv`).
* `ClientInv` has a part for each phase of `streamRun`: the handler's high mark is
  the client's last id (`HandlerInv`); while only live events reach the client,
  every published event it lacks is excused or still ahead in the queue, with no
  larger number before it (`LiveInv`); and what it has passed over was excused, or
  is not published and will be late when it is (`PassedInv`). `TravelInv` says that
  only committed events travel. The lemmas on queues (`AheadAppend`, `AheadSplit`,
  `FreshFacts`) say what the filter on the high mark lets through.

`RunViewProofs`, from `FramesAssumption` (a frame is one of the four kinds the
provider yields, a snapshot carries a session state, the participants of an
envelope are a list) and `DeclaredAssumption` (a run is created with a list), for
any number of batches and transitions:

* `CommittedIsFinal`, `LateEventsWakeNobody`, `QuorumStaysSettled`,
  `NobodyIsMissing`.
* `EventFacts` is the heart: `After(pr, r, ev)` says what one event of any type may
  do to participants, status, decision and quorum, proved branch by branch of
  `applyEvents`. `BatchFacts` carries it over a batch, `NormalizeFacts` shows that a
  frame becomes a batch with at most one kind of commitment and no lifecycle event
  beside another event, and `PersistFacts` concludes. `SweptStaySwept` needs one
  more conjunct: as long as someone counts as swept the projection is terminal, for
  `touchParticipant` spares a participant only when both are.

`WatchStreamsProofs`, from natural bounds:

* `NoCallOutlivesReader`, `WakeupsReachReader`, `WatchKeepsOrder`.
* `GivenUp` says when a connection is ended, so that `launch()` after late
  credentials finds it; `InOrder` that handled, in hand and buffered form one
  ascending sequence; `Complete` that, until a shutdown, the signal watch has lost none
  of what it received and waits for a new connection only once the old buffer is empty.

`WebhookDeliveryProofs`, from `Blank \subseteq Hooks` and `MaxAttempts > 0`, for any
webhooks, events and restarts:

* `SettledRowsAreTrue`, `ShutdownStaysQuiet`, and `BoundedRequests`: a delivery is
  sent at most `MaxAttempts` times over all processes, and never without a secret.
* Per delivery, `Counts` ties the attempt counter of the loop to the requests
  really made, `Truthful` says that nothing follows a row that says failed, and
  `Once` that `fireEvent` records a delivery at most once, so that no second loop
  works on the same row.

Induction. The provers cannot instantiate the library's induction theorems. Where
a proof goes along a list or a batch it takes the least index at which the claim
fails, which exists since `<` is well founded on the naturals (`LeastNatural`, from
`WFMin`), and refutes it. The value of a recursive function is reached the same
way: `StepsExist` builds a function that satisfies the recursion, and `ApplyEvents`
is then one of those. This gives what each step preserves; what a whole fold
computes is not stated.

Only model-checked: every liveness property (temporal reasoning under fairness
and ENABLED are beyond this prover), and InstanceLocks, whose runs look for a
counterexample.

## Not modelled

Payload contents: decisions, policies, receipts, hashes and tokens are data. gRPC
framing and protobuf decoding, HTTP routing, validation and authentication,
telemetry, dashboards, audit records and the read-only reports (insights,
what-if). Of the modelled parts: tags and archiving of runs, list filters, the
heartbeat of a stream, the pauses of a timed replay, the token cache of the
minter, retention of audit and delivery rows by age, the time limit of a
last-resort finalization. `retryPending` and the branch for send-ack frames are
left out because no code reaches them. PostgreSQL is assumed to make a transaction
atomic and durable, and to serialise transactions on the same row.

## Plan

Done, in this order: the run's state machine and RunManager with its proofs;
ControlPlane, which composes it with its callers; StreamResume with its proofs;
CircuitBreaker and RuntimeCalls with their proofs; EventLog; Normalizer,
Projection and RunView; WatchStreams; WebhookDelivery; InstanceLocks; then the
proofs of WatchStreams, WebhookDelivery, the drift report, EventLog, ControlPlane
and RunView. Every safety property of a passing run is now a theorem.

Next, in order:

1. Action properties as theorems: that a client's last id never goes back, that a
   settled delivery is not reopened.
2. An abstract specification of the event log (append a batch, read a prefix) that
   EventLog implements, and its refinement.
3. A second launcher with the same idempotency key in ControlPlane.
4. Safety of InstanceLocks: what its locks do guarantee while a session lives.
