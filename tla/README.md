# Verification of the SQLite durable workflow engine

TLA+ specifications of the engine in `src/`, the TLC runs that check them on
small instances, and TLAPS proofs of the main safety properties for every
instance.

## The system

A Go library (`package durable`) keeps workflows in one SQLite file.  Workers
lease workflows, run their numbered steps, checkpoint each step and finish the
workflow.  An HTTP server (`cmd/server`) exposes every engine method as a route
and runs the scheduler in a goroutine; a TypeScript SDK calls the routes.

| Component | State | Operations that change it |
|---|---|---|
| Schema (`engine.go`, `types.go`) | five tables, one connection | `New` (open, or reopen after a crash) |
| Leases (`workflow.go`) | `workflows` | `CreateWorkflow`, `AcquireLease`, `RenewLease`, `ReleaseLease`, `CompleteWorkflow`, `FailWorkflow`, `MarkWaiting` |
| Steps (`step.go`) | `workflow_steps`, cursor and version in `workflows` | `StartStep`, `CompleteStep`, `FailStep` |
| Event log (`step.go`) | `workflow_events` | `appendEventTx`, inside the others' transactions |
| Timers and retries (`timer.go`, `retry.go`) | `workflow_timers` | `CreateTimer`, `RetryStep`, `fireExpiredTimers` |
| Scheduler (`scheduler.go`) | the clock reading of the running cycle | `tick`: `fireExpiredTimers`, then `expireLeases` |
| Signals (`signal.go`) | `workflow_signals` | `SendSignal`, `ConsumeSignal` |
| Retry policies (`types.go`) | none | `NextDelay` of three policies |
| HTTP server (`cmd/server`) | requests in a handler | one engine call per route |
| SDK client (`sdks/typescript`) | attempts of the request in flight | `request`: retries whatever failed |
| Example workers (`cmd/example`, `examples/basic.ts`) | the lease they believe in, the loop counter | the step loop; `cmd/example` runs the scheduler in its own process |
| Queries (`engine.go`, `Get...`) | none | they only read |

**Interaction.**  All components meet in the database.  There is one connection
(`SetMaxOpenConns(1)`), so each statement outside a transaction and each
transaction is atomic, and the order of commits is the order of everything.
Nobody calls anybody back: a worker finds out that it lost its lease by the
`ErrLeaseMismatch` of a later call, and that a timer fired by acquiring the
workflow again.

**What is hard.**

* *Handlers are not atomic.*  Every handler reads `time.Now()` before it waits
  for the connection, so it works with an old clock.  `StartStep` and `FailStep`
  check the lease in one query and write in a later transaction.  `RetryStep` is
  two transactions, a scheduler cycle is two transactions with one clock
  reading.
* *Columns rely on one another.*  `ReleaseLease`, `CompleteStep`, `verifyLease`
  and the expiry branch of `AcquireLease` test one column and trust that the
  others agree.
* *Failure.*  Workers die with a lease; the server dies between two
  transactions; a retry leaves its timer behind when the lease check after it
  fails.
* *Time.*  Leases expire while work goes on, timers fire for workflows that
  moved on, a lease may be born expired.
* *Network.*  The SDK gives up a request after a timeout and may repeat it; the
  server goes on with the first attempt.  Leases carry no fencing token: a
  request of an earlier tenure of the same worker id passes every check.
* *Arithmetic.*  Backoff delays are `int64` and unchecked.

`PROJECT.json` lists these hazards with their lines and the properties that
cover them.

## Modules

`Schema` declares the constants, the tables and the process state; the
component modules extend it, and `Engine` composes them.  `Client`, `Mailbox`,
`Deployment`, `Timestamps` and `Example` add to `Engine` what is around it.

| Module | Models | How |
|---|---|---|
| `Schema` | `engine.go`, the row types, `appendEventTx`, `nextSequenceTx` | each table is a variable; `thread` holds the requests that are between two transactions, `sched` the scheduler, `clock` Unix time. `Nows` are the values that a handler committing now may hold in `now` |
| `Leases` | `workflow.go` | one action per method; an action is one transaction |
| `Steps` | `step.go` | `VerifyLease` then `StartStep` or `FailStep` are the two halves of those methods; `CompleteStep` is one action |
| `Timers` | `timer.go`, `retry.go`, `scheduler.go` | `RetryStep` and `RetryStepWait`; `TickStart`, `FireExpiredTimers`, `ExpireLeases` are a cycle |
| `Signals` | `signal.go` | one action per method; a signal is the row number |
| `Backoff` | `types.go` policies, the choice of a policy in `POST /retry` | functions on `Width`-bit integers |
| `LeaseService` | what the engine promises to those who lease | abstract specification: a workflow is free, held by somebody until a time, waived or closed; `Use(k)` is a step of worker `k` on its own lease, `Reclaim` a pass of the service |
| `EventLog` | what a reader of `GetEvents` may rely on | abstract specification of the log of event types |
| `Engine` | the whole engine and its properties | any worker may call any operation at any time: the routes of the server |
| `Timestamps` | `created_at` of events, `started_at` and `completed_at` of steps, `GetEvents`, `AvgStepDuration` | the engine with the times that no operation reads back: every transaction is stamped with the clock reading it uses |
| `Client` | the SDK's `request()` and the requests on their way | `worker` holds the processes, `inflight` the requests: `Fetch`, `FetchAgain`, `Timeout`, `Lose`, `Kill` |
| `Mailbox` | `sendSignal` and `consumeSignal` of the SDK, their routes, the engine | a handler commits (`HandleSend`, `HandleConsume`) and answers later (`Return`); the three counters of `history` say what the calls returned |
| `WorkerProgram` | the loop of `examples/basic.ts`, and the takeover of `engine_recovery_test.go` | `Start`, `GoOn` make the next call, `Resume` goes on with its result; `FirstSteps` says where a new process begins |
| `Deployment` | workers, SDK, handlers of `cmd/server/main.go` and engine together | one action per route that workers use; an attempt that was given up is still handled, its answer is dropped |
| `Example` | `cmd/example/main.go` | one action per statement of `main`, the scheduler beside it |
| `Claims` | sentences of the docs and tests that the code does not keep | one property each, each refuted by a run |
| `EngineProofs`, `LogProofs` | theorems about `Engine` | TLAPS, the second on top of the first |
| `BackoffProofs` | theorems about `Backoff` | TLAPS |
| `DeploymentProofs`, `WorkerProofs` | theorems about `Deployment` | TLAPS |
| `MailboxProofs`, `TimestampsProofs`, `ExampleProofs` | theorems about `Mailbox`, `Timestamps` and `Example` | TLAPS |
| `MCEngine`, `MCTimestamps`, `MCMailbox`, `MCDeployment`, `MCExample`, `MCClaims` | values for TLC | |

Correspondence.  A call that returns an error, "no work" or "no signal" changes
no row, so it is a disabled action; where a caller looks at the answer
(`Deployment`, `Mailbox`, `Example`) it is an action that leaves the tables
alone.  A row that does not exist has status `"ABSENT"`; SQL `NULL` is `None`;
`AUTOINCREMENT` keys are positions in a sequence.  `ORDER BY created_at LIMIT 1`
takes any of the oldest, since SQLite promises no order among equals.  In
`Engine` the workers have no state: they may call anything, which includes every
worker program, two processes with the same worker id, and workers that die.
Definitions named `Faulty...` are defective variants of the definition after
them; nothing uses them, they serve to show that a property notices the defect.

## Properties

* `LeaseConsistent`: exactly RUNNING and WAITING rows have an owner and an
  expiry time, exactly terminal rows a completion time.
* `LogContiguous`: sequence numbers are 1, 2, 3, ... although the schema has no
  unique index for them.
* `RowMatchesLog`: replaying the log gives cursor, version and terminal status.
* `TimersFireOnce`, `SignalsLogged`: rows and events are in step, whatever
  crashes between transactions.
* `CursorCoversSteps`: the cursor is never behind the number of completed steps.
  It may be ahead of it, after `FailStep` over a completed step, and then
  `current_step + 1` is not the next step to run; whether a step may be skipped
  is the matter of `NoStepSkipped`.
* `TerminalFinal`: a finished workflow never changes.
* `LiveLeaseKept`: a RUNNING workflow with a live lease goes to nobody else.
* `ImplementsEventLog`: the log of the engine is a log of `EventLog`: lifecycle
  events alternate as the abstract specification says, and only signals and late
  `STEP_STARTED`/`STEP_FAILED` come out of turn.
* `OneWorker`: no two processes run the steps of one workflow while both count
  on its lease, by their own clocks.
* `NoStepSkipped`, `CursorIsPrefix`: a COMPLETED workflow ran every step; where
  no step fails, the completed steps are the first `current_step` ones, whichever
  step a process begins at.
* `ImplementsLeaseService`: the rows, seen as leases, are a behaviour of
  `LeaseService`, and what a call of worker `k` changes is `k`'s own use of a
  lease (`CallBy(k) => Service!Use(k)`): nobody but its holder waives, returns,
  advances or finishes a lease, and nobody else ends one before its time on the
  real clock; each grant and each completed step has a version of its own.  A
  renewal may write any time, an earlier one too, as the code does.
* `UnrenewedLeaseReclaimed`, `PendingTimerWakes`: the scheduler alone gets an
  abandoned workflow out of RUNNING, and a waiting one with a timer out of
  WAITING.
* `CreatedAtOrder`: `created_at` grows with the sequence number, up to the time a
  handler waits for the connection; only a `TIMER_FIRED` may be older.
  `TestEventsCreatedAtMonotonic` (engine_event_sourcing_test.go:265) asserts that
  it never goes back, of one client that waits for each answer: there every
  reading is taken after the previous commit.
* `SignalOrder`: signals are consumed in the order of sending, up to the same
  time.  Among signals of one second the order is SQLite's and the model takes
  any; `TestMultipleSignalsOrderPreservation` (engine_edge_cases_test.go:541)
  expects the order of insertion, which `ORDER BY created_at` alone does not ask
  for.
* `StepSpans`: `AvgStepDuration` measures the steps that have ended, and its mean
  is negative by no more than that time.  For one client that waits for each
  answer it is not negative, as engine_complex_scenarios_test.go:389 asserts
  (`duration >= 0`): its readings are in the order of its calls.  That the
  FAILED steps are averaged, against engine.go:187-188, is `claim_average`.
* `DeliveredOnce`, `LostOnlyByFailure`, `SentOnceEach`: a signal is delivered at
  most once; each signal that is lost, and each duplicate, is due to an attempt
  of its own that was given up.
* `FailsOnlyExpired`, `Report`: `cmd/example` dereferences no nil, dies only when
  its lease has expired, and reports the workflow that it has finished.
* `IInv`, `DInv`, `WorkerInv`, `OwnerInv`, `ExampleInv`: the inductive invariants
  of the proofs.

## Runs

| Run | Instance | Question |
|---|---|---|
| `timers` | 1 workflow, 2 workers, 3 seconds, lag 1, leases of 1 and 2 s, 2 timers, retries with backoff 1 s and 2 s, 1 crash, fair | lease competition under old clock readings, timers, retries, stale cycles; refinement of `LeaseService`; leases end, waits end; backoff delays against closed forms (bases to 12, caps to 40, counts to 8, 7-bit integers) |
| `steps` | 1 workflow, 2 workers, 2 steps, 1 delayed request (a retry included), 1 signal, 2 seconds | types and numbering, checkpoints under lease loss, refinement of `EventLog`, the proofs' invariant |
| `timestamps` | 1 workflow, 1 worker, 1 step, 1 timer, 2 signals, lag 1 | what the stored times may show |
| `worker` | 2 workers restarted under old ids, 2 requests, 2 steps, 1 repetition, 2 seconds | the loop survives lost answers and deaths when no step fails, beginning at step 1 or after the cursor; the invariant of `WorkerProofs` |
| `worker_retry` | 2 workers, 2 requests, 2 steps that may fail, no repetition, 1 crash, 2 seconds | the same with retries, ids used once, processes that begin after the cursor; the invariant of `WorkerProofs` for this case |
| `signals` | 2 processes, 3 requests, 3 signals, 1 repetition, 2 attempts given up, 1 crash | what is lost and what is duplicated on the way |
| `example` | the two workflows and three steps of the program, leases of 2 s and of its own 10 s, its sleep and 2 seconds before, over and after it | the program with its scheduler; the invariant of `ExampleProofs` |

Bounds.  `MaxTime` seconds are enough for a lease to be taken, to expire, to be
taken again and to expire again; `MaxLag` of 1 lets a handler or a renewal be
later than a whole lease; `MaxEvents` ends the clients' operations (the
scheduler's `TIMER_FIRED` events are exempt, so that no bound ever holds the
scheduler back).  Two workers are what a race for a lease needs, and the code
compares identifiers only for equality, so `SYMMETRY` is sound for them
(`timers`, which checks liveness, uses none).  Operations on different workflows
meet only in the choice of `AcquireLease`, which `example` makes among two.  One `thread` holds one delayed
request while everything else goes on; two delayed requests are independent rows
of `thread` and both see the same tables.  The width 7 of the backoff grid
brings the overflow within reach of bases below 12.

In the runs of `Deployment` two requests in flight are an abandoned attempt and
the one that follows it; `MaxLag` is 0, since the time between sending and
handling a request is already arbitrary (`timers` covers handlers that read an
old clock).  Two steps are the fewest with one that
can be skipped.  The clocks of clients and server are taken to agree, and a
client counts its lease from the moment it asks for it, so `OneWorker` is about
the protocol and not about clock skew.

Where a process begins.  The first loop of `basic.ts` runs from step 1 whatever
`current_step` says (basic.ts:29), its second one from `current_step + 1`
(basic.ts:78), which is also where a process takes over in
engine_recovery_test.go:314-325.  `FirstSteps` has 1, 0 or both for the two.
`worker` lets every new process do either.  `worker_retry` has `{0}`, and
`NoStepSkipped` needs that: with `FirstSteps = {1}` and three workers TLC finds
that a process completes step 1 and dies, a second one begins at step 1, fails
it over the checkpoint, has it retried and waits; a third one completes step 1
again, which takes the cursor to 2, and dies; the second one acquires the
workflow again, goes on at step 3 and completes it.  Step 2 never ran, though no
call was repeated and no id used twice.  `OneWorker` does not depend on it.

What these two runs show together with the refuting ones: `OneWorker` and
`NoStepSkipped` hold when no step fails; and, with processes that begin after the
cursor for `NoStepSkipped`, when the SDK repeats nothing and worker ids are not
used again (the SDK's default is `maxRetries` 0).  With both failing steps and
repeated calls they do not.

`signals` has no clock: no statement of the two operations compares times but
the order of `created_at`, which `timestamps` covers, and at one instant that
order is arbitrary.  Three requests let an abandoned `consumeSignal`, its
repetition and a send be handled in any order, and two failures let one signal
be lost and another duplicated.  `example` lets main take any time up to
`MaxPause` seconds around its sleep, so its lease of 2 seconds may expire in
every part of it, while the one of 10 seconds outlives the sleep, so that its
second `AcquireLease` gets a workflow that still waits through the due timer
alone; it does stop (`CHECK_DEADLOCK FALSE`), at the end of main.
`timestamps` stamps with a lag of one second, enough for two events to be out of
order; it is an upper bound on the wait that the property names.

Fairness.  `FairSpec` (run `timers`) asks for weak fairness of the clock and of the three
steps of the scheduler: `Run` loops until its context is cancelled and never
blocks but on its ticker and the connection.  It asks nothing of clients.  The
clock stops at `MaxTime`, and lease and timer times beyond it are not
generated, so every time in the model is reached.

### Runs that find a disagreement

Each of these checks one sentence of the repository, and TLC finds a behaviour
of the code against it.

| Run | The repository says | The code does |
|---|---|---|
| `claim_owner` | a worker that does not hold the lease gets `ErrLeaseMismatch` (step.go:10) | the check of `StartStep` and `FailStep` is stale when they write |
| `claim_pause` | the workflow pauses until the timer fires (timer.go:9) | it is handed out as soon as its lease expires |
| `claim_one_worker` | only one worker per workflow (sdk.test.ts:385) | a repeated `retryStep` of an earlier tenure turns a live RUNNING workflow into WAITING |
| `claim_skipped` | exactly-once checkpointing, automatic recovery (README.md:14-15, step.go:53) | `FailStep` overwrites a COMPLETED step: a late `failStep` and a repeated `completeStep` count one step twice; the next worker skips a step |
| `claim_average` | the average is across all completed steps (engine.go:187) | the query looks at the two times and not at the status: FAILED steps are averaged |

Noted while modelling, without a run of their own: `ReleaseLease`, `MarkWaiting`
and `expireLeases` write no event, although README.md:12 makes every state
transition one; `expireLeases` leaves the expired leases of WAITING workflows
(timer.go:108); the row that `AcquireLease` returns is read after its commit and
may show a later owner (workflow.go:112); a timer that an early acquisition has
made obsolete stays pending and ends the workflow's next wait (workflow.go:77),
and so does the timer of a `RetryStep` whose `MarkWaiting` was refused
(retry.go:47); a workflow that waits without a timer, for a signal say, is woken
by nobody but a worker that asks for work after its lease has run out;
the cap of an exponential backoff is
not applied to retry count 0 (types.go:116); without a cap its delay is 0 from
retry 64 on (types.go:118, theorem `UncappedOverflows`).

## Proofs

`EngineProofs` proves, for any sets of workflows, workers, threads and steps,
any lease durations and timers, and any bounds:

| Theorem | Statement |
|---|---|
| `Invariance` | `Spec => []IInv` |
| `TypeCorrect`, `LeasesConsistent`, `LogsContiguous` | `Spec => []TypeOK`, `[]LeaseConsistent`, `[]LogContiguous` |
| `TerminalIsFinal` | `Spec => TerminalFinal` |
| `LiveLeaseIsKept` | `Spec => LiveLeaseKept` |

`LogProofs` proves, for the same constants:

| Theorem | Statement |
|---|---|
| `RowsMatchLogs`, `CursorsCoverSteps` | `Spec => []RowMatchesLog`, `[]CursorCoversSteps` |
| `TimersFiredOnce`, `SignalsAreLogged` | `Spec => []TimersFireOnce`, `[]SignalsLogged` |
| `EngineImplementsLeaseService` | `Spec => ImplementsLeaseService` |
| `EngineImplementsEventLog` | `Spec => ImplementsEventLog` |

`DeploymentProofs` and `WorkerProofs` prove, for any numbers of workers, steps,
repetitions and requests, with processes restarted under their old ids or not:

| Theorem | Statement |
|---|---|
| `DeploymentInvariance` | `DeploymentSpec => []DInv` |
| `DeploymentImplementsEngine` | `DeploymentSpec => Spec`, so the theorems above hold behind the SDK and the server |
| `CheckpointsArePrefix` | `StepsFail = FALSE`: `DeploymentSpec => []CursorIsPrefix` |
| `WorkersStaySteady` | `StepsFail = FALSE`: `DeploymentSpec => []WorkerInv` |
| `OneWorkerAtATime`, `NoneSkipped` | `StepsFail = FALSE`: `DeploymentSpec => []OneWorker`, `[]NoStepSkipped` |
| `OwnersKeepTheirPlace` | `SdkRetries = 0`, `RestartSameId = FALSE`: `DeploymentSpec => []OwnerInv` |
| `OneWorkerWithRetries` | `SdkRetries = 0`, `RestartSameId = FALSE`: `DeploymentSpec => []OneWorker` |
| `NoneSkippedWithRetries` | the same and `FirstSteps \subseteq {0}`: `DeploymentSpec => []NoStepSkipped` |

`MailboxProofs` proves, for any numbers of processes, requests, signals and
repetitions:

| Theorem | Statement |
|---|---|
| `SignalsDeliveredOnce` | `MailboxSpec => []DeliveredOnce` |
| `SignalsLostByFailure` | `MailboxSpec => []LostOnlyByFailure` |
| `SignalsSentOnce` | `MailboxSpec => []SentOnceEach` |
| `MailboxImplementsEngine` | `MailboxSpec => Spec` |

`TimestampsProofs` proves, for the constants of `Engine` and any `MaxLag`:

| Theorem | Statement |
|---|---|
| `StampedImplementsEngine` | `StampedSpec => Spec` |
| `SignalsInOrder` | `StampedSpec => []SignalOrder` |
| `CreationTimesInOrder` | `StampedSpec => []CreatedAtOrder` |
| `StepsMeasured` | `StampedSpec => []StepSpans` |

`ExampleProofs` proves, for any number of steps, lease duration and lag, and any
pause of main between two statements:

| Theorem | Statement |
|---|---|
| `ExampleImplementsEngine` | `ExampleSpec => Spec`, so the theorems about `Engine` hold of its tables |
| `ExampleKnowsItsRows` | `ExampleSpec => []ExampleInv` |
| `ExampleFailsOnlyExpired` | `ExampleSpec => []FailsOnlyExpired` |
| `ExampleReports` | `ExampleSpec => []Report` |

`BackoffProofs` proves, for integers of any width, the 64 bits of the code among
them:

| Theorem | Statement |
|---|---|
| `CappedDelaysExact` | any base and cap whose larger one doubled fits the integer, any count from 1: the delay is `base * 2^count` or the cap, the smaller of the two |
| `UncappedDelaysExact` | any base and count: the linear delay is `base * (count + 1)` and the uncapped exponential one `base * 2^count`, where that fits |
| `UncappedOverflows` | any base, and any count from the width of the integer on: the uncapped exponential delay is 0 |
| `CappedExponentialIsExact`, `UncappedIsExact` | `Spec => []CappedExponentialExact`, `[]UncappedExact` |

The assumptions are those named in `Schema`, `Client`, `WorkerProgram` and
`Example`: `None` is neither a worker nor a number, durations are natural
numbers, delays are integers, the steps of a workflow are 1 to `LastStep`.  Of
`cmd/example` it is assumed that its two workflows are all there are, as on the
fresh file that it opens, that there are two steps or more, and that the delay of
the first retry is no longer than the sleep (2 and 3 seconds in main.go).

The theorems about `OneWorker` and `NoStepSkipped` come in two kinds.
`CheckpointsArePrefix`, `OneWorkerAtATime` and `NoneSkipped` assume
`StepsFail = FALSE`, and nothing of repetitions, ids and where processes begin.
`OneWorkerWithRetries` and `NoneSkippedWithRetries` let steps fail, and assume
that the SDK repeats nothing (`maxRetries` 0 is its default) and that no worker
id is used again; `NoneSkippedWithRetries` assumes further that every process
begins after the cursor, so it is about workers like those of
engine_recovery_test.go and not about the first loop of `basic.ts`.  One
of the two kinds is needed: `claim_one_worker` and `claim_skipped` refute the same
formulas with failing steps and a repetition, for failing steps call `failStep`
and `retryStep`, whose effect then outlives the tenure in which they were called.

The argument.  `IInv` adds to the three invariants what they need to be
inductive: no event precedes its workflow (`LogOfExisting`, for
`CreateWorkflow` writes sequence number 1 without looking), a request past its
lease check is for an existing workflow (`RequestsExist`, for its later write
emits an event), and the scheduler's clock reading is not in the future
(`SchedulerBehind`).  There is one lemma per action, over lemmas about what a
row becomes when it is taken, requeued, closed or advanced, and about
`AppendEvents`.  The action properties come from `NextRowStep`, which sums up
what any step may do to one row: a terminal row has no owner and no expiry
time, so no operation's WHERE clause selects it, and an expiry test with a
clock reading that is not in the future fails for a lease that is live now.

The second half of `EngineProofs` goes through the actions once more and states for each what it
does to rows, logs, steps, timers and signals together: a step of the engine is
quiet, changes one row silently, changes one row with one event of the fitting
type, journals something without changing a row, completes or fails a step,
sends a signal, fires timers or expires leases.  `LogProofs` follows these kinds
with lemmas that count the events of a type under `AppendEvents` and the fired
timers under a firing.  `FireExpiredTimers` is the only action that adds several
events at once, so its count is the number of timers that become fired.

Its second half maps each kind to a step of the abstract specifications.  For
`LeaseService` the decisive point is again that every clock reading is at most
the clock: an eligible row is free, waived or over, so that a grant is allowed.  For `EventLog` it is that a
holder's events appear only while the row is RUNNING or WAITING, and the log's
phase is a function of the status.  That a call of worker `k` is `k`'s own use of a
lease goes through the handlers once more (`CallServes`): each compares the
owner's column with the caller, in the transaction that changes the row.

`DInv` adds to `IInv` the types of the clients' state and `AnswersMatch`, which
says what the `live` flag of a request means: its answer would be taken.  It is
needed because `Resume` continues a process according to the call it
waits for: were a live request one of an earlier call, its value would be of the
wrong kind.  Each handler then either takes exactly one step of `Engine`, with
arguments from the sets that `Next` quantifies over, or leaves the tables alone.

`WorkerInv` makes `CursorIsPrefix` and `OneWorker` inductive.  It says of every
row that its completed steps are the first `cursor` ones; of every process that
its next step is at most one beyond the cursor and that, while it counts on its
lease, the row is RUNNING for it at least as long or COMPLETED (`Kept`); and of
every request, however old, that it completes no step beyond the one after the
cursor and finishes only a workflow with all its steps.  A row may be COMPLETED
under a process that counts on its lease, because the process may have begun at
step 1 again while a request of its predecessor with the same id, on its way
still, finishes the workflow.  `OneBeliever` says that there is one such process at
most, for a COMPLETED row no longer tells whose it was.  Cursors never go back and
a live lease ends only through its holder, so an old request stays harmless: it
repeats a step that is completed already, which the code refuses, or it does what
its process would do next.

`OwnerInv` does the same where steps fail.  A late `failStep` may now undo a
checkpoint and a late `retryStep` make a row wait, so neither "the completed steps
are the first ones" nor "an old request is harmless" can be kept.  What can be
kept follows from there being no second attempt: a request that nobody waits for
is that of a process that has ended, and no process has its id again.  Hence a
worker has at most one request on its way (`OneRequest`), every request of a
living process is the call it waits for, a dead one makes no second, and a
process that counts on its lease has it (`ProcessOwning`): this gives `OneWorker`.
Where processes begin after the cursor (`FromCursor`), the owner of a row is
always at the step after the cursor, by its own reckoning and in its request
(`RequestOwning`), whatever it or its predecessors failed, so each step up to the
cursor has run once (`RowOwning`), which is what `NoStepSkipped` says of a
COMPLETED row.

`ExampleInv` says what main knows at each of its statements.  While it holds
its workflow the row is RUNNING under the very lease that it was given, or
requeued and that lease over (`LeaseKnown`): the scheduler is the only other
actor.  Between its two runs the retried workflow is queued again or waits for a
timer that is pending and due when main wakes up (`RetryTimerSet`), and the
other one is as it was created.  So at the second `AcquireLease` every workflow is
eligible, also for a clock reading as old as main's return from the sleep: there is
work, and it is the older one.

`MailInv` makes the three properties of `Mailbox` inductive.  It says that at
most one request can still answer a process, that a consumed signal has arrived
at most once and is otherwise on at most one request (`OneWay`), and it counts
ahead (`Counted`): a request that was given up before its handler ran counts
like the signal it may still take or the row it may still add.  Without that,
the handler of an abandoned `consumeSignal` would lose a signal in a step in
which no attempt is given up.

The two orders of `TimestampsProofs` rest on no stored time being later than the
clock, while a handler's reading is at most `MaxLag` old: whatever is stamped
next is at most that much older than anything before it.  A new signal is
unconsumed, and the consumed one is the oldest, so neither step puts a consumed
signal before a much older one that waits.  `LogContiguous` makes the order of
`GetEvents` the order of insertion.

`StepsMeasured` rests on `SpanInv`: the two times of a step are NULL before its
row is there, or has ended, and no `started_at` is more than `MaxLag` later than
the `completed_at` beside it.  The rest is about the sum in the query: a sum over
a finite set is at least the number of its terms times a bound of each
(`SumBounded`), by induction on the size of the subsets.  No assumption on the
number of workflows is needed, for the rows that a step has ended in are finitely
many.

The delays are an induction over the rounds of the loop.  As long as the cap has
not been returned the delay is `base * 2^i` and at most the larger of base and
cap, so the next doubling fits the integer and is not wrapped around; the round
after which it would exceed the cap returns the cap.  Where doublings do wrap
around, the delay is still `base * 2^i` up to a multiple of `2^Width`
(`RoundsModulo`); from `i = Width` on it is itself a multiple of it, and 0 is the
only one that fits.  Induction and recursion over
numbers are stated for sets and functions at the start of `EngineProofs`
(`SetInduction`: a set of numbers that contains 0 and with each number the next is
`Nat`; `RecursionExists`), for the provers cannot instantiate a lemma that takes
an operator.  `TwoTo` is a recursive function because they know no powers.

Only model-checked: liveness (`UnrenewedLeaseReclaimed`, `PendingTimerWakes`), for
fairness is beyond the proof system; and that the code violates the five claims
above.

## Not modelled

* Payloads, workflow and signal types, `updated_at`: no statement reads them
  back.
* Database errors (disk full, `SQLITE_BUSY` from another process): every
  transaction is rolled back by its deferred `Rollback`, which is the call not
  happening.  Power loss with `synchronous=NORMAL` may lose the last commits.
* Several server processes on one file.  The scheduler is single.
* A clock that is set back; the delay of a handler is bounded by `MaxLag` in
  TLC and arbitrary in the proofs.
* The reads `GetWorkflow`, `GetSteps` and `GetPendingTimers`: one SELECT each
  of rows that the invariants describe.  `GetEvents`, `GetSignals`,
  `AvgStepDuration` and the queries by status are operators of `Timestamps`,
  `Signals` and `Example`.
* Routing, bearer check, JSON and error codes of the HTTP server; the methods of
  the SDK that no example and no signal uses (`renewLease`, `createTimer`,
  `releaseLease`, the reads): each is `request()` with another body, and `Engine`
  has their routes.
* Starvation: `AcquireLease` always hands out the oldest eligible workflow, so
  one that keeps expiring goes before all younger ones.  The code promises no
  fairness between workflows.

## Plan

Order of the whole: tables and leases, timers and scheduler, steps, signals, the
log they share, the engine, its abstract specifications, the clients around it,
the times it stores, its example.  Every safety property that a passing run
checks is also a theorem.
