# A TLA+ model of rsufz

rsufz runs background tasks. Clients hand tasks to an API gateway, which stores
them in PostgreSQL; schedulers pick the tasks that are due and publish them on a
Redis stream; workers read the stream, execute the tasks and record the outcome
in PostgreSQL. This directory holds TLA+ modules that model that system, TLC
configurations that check small instances, and TLAPS proofs for all instances.

## 1. The system

### Components

| component | source | state | operations |
|---|---|---|---|
| task state machine | `internal/domain/task.go` | a task's status, attempts | `TransitionTo`, `IncrementAttempt`, `CanRetry` |
| backoff | `internal/domain/backoff.go` | none | `Delay` |
| cycle check | `internal/domain/dag.go` | none | `CheckCycle` (called by its tests only) |
| store | `internal/adapter/repo/postgres/repo.go`, `migrations/001_init.sql` | tables `tasks`, `task_dependencies` | `Create`, `GetByID`, `FindByIdempotencyKey`, `UpdateTask`, `PickAndMarkRunning`, `Heartbeat`, `ResetStuckRunning`, `List`, `CleanupExpired` |
| broker | `internal/adapter/broker/redis/broker.go` | stream `rsufz:tasks` with its group and pending entries list, stream `rsufz:dlq`, a Go channel per worker | `Publish`, `Subscribe` (`reclaimPending`, `readLoop`), `Ack` |
| scheduler | `internal/usecase/schedule.go` | the batch being published | `Loop`, `tick` |
| monitor | `internal/usecase/heartbeat.go` | none | `Run`, `check` |
| worker | `internal/usecase/execute.go`, `registry.go` | the delivery in process, a copy of its task, the heartbeat ticker | `Run`, `process`, `markCompleted`, `markRetry`, `markFailed` |
| gateway | `internal/usecase/enqueue.go`, `tasks.go`, `internal/adapter/grpcserver` | a request between its two transactions | `EnqueueTask`, `CancelTask`, `RepublishTask`, `GetTask`, `ListTasks`, `StreamTaskUpdates` |
| process | `cmd/*/main.go`, `internal/app`, `internal/platform/shutdown`, `config` | what is open, the members of the errgroup, signal, first error | start-up calls, `errgroup.Go`, `Wait`, deferred closes, exit |
| metrics | `internal/adapter/metrics/prom` | counters | `TaskEnqueued`, `TaskDispatched`, `TaskCompleted`, `TaskFailed`, `TaskRetried`, `Serve` |
| tracing, logging, identifiers | `internal/adapter/trace`, `internal/platform` | none that matters | |

Processes share nothing but the store and the broker. Scheduler and monitor run
in one binary, in two goroutines; a worker is a reader goroutine and a goroutine
that processes one delivery at a time, connected by a channel of capacity 64.

### What is hard about it

Two stores without a common transaction, and processes that may stop anywhere:

- a pick is committed before the tasks are published, so a publish may be lost;
- an outcome is committed before the message is acknowledged, so a message may
  be delivered again for a task that has moved on;
- a pending message may be claimed by another worker, and a running task reset
  by the monitor, while the first worker is alive and only slow;
- a worker decides on a copy of the task that is as old as the handler's run;
- most errors are logged and nothing else;
- counters are incremented before the outcome they count is stored;
- a process stops while calls and streams of its clients are in progress, whose
  context the signal does not cancel;
- a client reads a list page by page while the list changes.

`PROJECT.json` lists each of these hazards at its line with the properties that
are about it. What makes the system correct in spite of them:

| component | correctness |
|---|---|
| life cycle | only allowed transitions, a task starts after its dependencies, a finished task stays as it is |
| scheduler, broker, worker | no running task is silently forgotten, ready tasks get finished |
| worker | attempts counted and bounded, failed tasks in the dead letter stream, no two executions at a time |
| monitor | resets the tasks of dead workers, and only those |
| gateway | one task for each idempotency key, priorities stored as asked, streams that end, pages that miss nothing |
| process | handlers never outlive what they use, a stop ends, the exit code says why |
| metrics | the counters agree with the store |
| cycle check | an error exactly for graphs with a cycle |
| backoff | `min(Max, 2^attempt * Base)` |

## 2. The modules

| module | models | used by |
|---|---|---|
| `Identifiers` | task and worker identifiers | all |
| `Task` | `task.go`: statuses, transition table, retry rule | `TaskRepo` |
| `Backoff` | `backoff.go` on words of `Width` bits | `Worker`, `MCDomain` |
| `CycleCheck` | `dag.go`: the depth-first search, step by step | `MCDomain` |
| `TaskRepo` | the store: one definition per transaction | the processes |
| `Broker` | the stream, its consumer group, the dead letter stream | `Scheduler`, `Worker` |
| `Faults` | failing calls and dying processes, at most `MaxFaults` | the processes |
| `Scheduler` | `tick` in steps, and the monitor's `check` | `Rsufz` |
| `Worker` | reader and `process` in steps | `Rsufz` |
| `Gateway` | enqueue without a key, cancel, republish | `Rsufz`, `IdempotentEnqueue` |
| `Rsufz` | the composition, the clock, fairness, properties | `MCRsufz`, `Retention`, proofs |
| `TaskLifecycle` | abstract specification of a task's life | `Rsufz` (refinement) |
| `Retention` | `Rsufz` with `CleanupExpired` | `MCRetention` |
| `Accounting` | `Rsufz` with the metrics and a count of executions | `MCAccounting` |
| `IdempotentEnqueue` | enqueue with a key: lookup and insert as two steps | `TaskService`, `MCIdempotentEnqueue` |
| `TaskStatus` | the statuses of the protocol (`mapper.go`) | `TaskService`, `Listing` |
| `TaskService` | the gRPC handlers, conversions, `StreamTaskUpdates` | `ApiGateway` |
| `Process` | a binary from `main` to its exit code | `ApiGateway` |
| `ApiGateway` | composition of `Process` and `TaskService` | `MCApiGateway` |
| `Listing` | `ListTasks` and a client that walks through the pages | `MCListing` |
| `MC...` | instances for TLC | |
| `RsufzProofs`, `OutcomeProofs`, `TimingProofs` | theorems about `Rsufz`: types, refinement and dependencies; hand-over and recorded outcomes; timing | |
| `AccountingProofs` | theorems about `Accounting` | |
| `RetentionProofs` | theorems about `Retention` | |
| `GatewayProofs` | theorems about `ApiGateway`: the service, then the process | |
| `ListingProofs` | theorems about `Listing` | |
| `CycleCheckProofs` | theorem about `CycleCheck` | |

Definitions introduced as wrong ("A wrong heartbeat that ...") stand
next to the definition they distort. They are used to see that a property fails
when the code is wrong in that way, never in a specification.

### How the model corresponds to the code

**Store.** `tasks[t]` is the row of `t` without payload, result and error text;
`deps[t]` its dependency rows. Each repository method is one transaction or one
statement and so one atomic definition. Every `mutate` given to `UpdateTask`
begins with `TransitionTo`; a transition that is not allowed rolls back. Rows
locked by a transaction in progress do not exist at the instants of the model, so
`SKIP LOCKED` has no effect: a real pick may pass over a row that is locked
and then rolled back, and takes it one poll later.

**Time.** `wait` counts down to `scheduled_at`, `age` counts up from
`updated_at`, `idle` is the idle time of a pending entry, `hb` the time since a
heartbeat tick. `Elapse` advances all of them. `age`, `idle` and `hb` stop at the
largest value they are compared with, so time is unbounded and the state space is
not. All processes and servers share one clock.

`Prompt = FALSE` lets the clock tick between any two steps: every process may be
arbitrarily slow. The properties of runs `handoff`, `dependencies`, `retention`
and all theorems but those of `TimingProofs` and the first three of
`AccountingProofs` hold in that setting. `Prompt = TRUE` makes the machine fast compared with its timeouts: the
clock ticks only when all that remains is waiting for a handler (at most `MaxRun`
ticks), a timeout or the monitor.

**Broker.** A message is its position in the stream. `last` is the group's
last-delivered ID, `owner` and `idle` are its pending entries list. Redis is
external; the commands do what the code relies on: `XREADGROUP >` returns entries
after `last` and makes them pending, `XAUTOCLAIM` the oldest `ClaimCount` pending
ones idle for `MinIdle`, `XACK` removes an entry whoever owns it, and a group
created at `$` never sees older entries. `lost` is a history variable: the
running tasks whose dispatch was lost, maintained by the steps that lose one
(failed publish, dead scheduler, lost reply of the pick, entries before the
group) and cleared when the task is picked or reset.

**Scheduler.** `Tick` is the committed pick, `PublishNext` one turn of the
publishing loop. A reply that is lost after the effect is the same as a success
everywhere but in `TickError`, `MarkReplyLost`, `ReadError` and `ReclaimError`.

**Worker.** `pc[w]` is the place `process` has reached, one action per call of
store or broker. `HandlerError` decides by the copy `snap`; an error that wraps
`context.Canceled` is not retried, so `fail` is possible at any attempt. A worker
that is shut down cancels its context: all its calls fail from then on. While a
handler runs, this takes `process` out of its loop with `context.Canceled`
(`execute.go:132-148`): it counts a failure (`HandlerError` to `fail`) that it then
cannot store (`CallError` or `WorkerStop`). At any other place it is the same as
dying (`WorkerStop`). The channel includes the entries the reader
still waits to push, and is a set because deliveries are in increasing order.

**Gateway.** A request that fails changes nothing, so only successful ones are
actions. In `IdempotentEnqueue`, where failures are answers, they are modelled.
`TaskService` adds what surrounds the use cases: `ToCmd` converts a request
(a priority keeps its last eight bits), `Valid` is `Validate`, `watch[u]` is the
task of a stream. Schedulers and workers are reduced to `Progress`, any allowed
change of a status. `asked` is a history variable: the priority in the request a
task was created from. A client may go away at any time and a stream's database
call may fail (`StreamBroken`).

**Process.** One life of one of the three binaries, chosen by `Init`. `todo` are
the start-up calls still to make, `open` the deferred closes. A member of the
errgroup is `new`, `up`, or ended with `nil` or `error`; the gRPC server is also
`listening` (between `Listen` and `Serve`) and `stopping` (in `GracefulStop`).
`Cancelled` is the errgroup's context: signalled, or some member has failed.
Closing the listener and waiting for the handlers is what `GracefulStop` of
grpc-go does; `Serve` returns after it, and returns `ErrServerStopped` if it is
called after it. A signal cancels the context of `migrate.Up` and of the pings
(`UsesContext`), which then fail, and of no other call of the start. A ticker with an interval that is not positive panics, which
ends the process without its deferred closes. A killed process is not modelled
here: it holds nothing the store or the broker does not know of, which is what
`AnswerLost` and the faults of `Rsufz` are about.

**Listing.** `order` is the order by `created_at`; a row appears at any place,
because the time is taken before the commit. `Count` and `Select` are the two
statements of `Repo.List`. `Place` is the number of a row in the ordered result
set, so a page is the rows whose place is in the range OFFSET and LIMIT give.
`OffsetLimit` is `2^31` in the code, where offset and page size are of type int32.
The client asks for one page after the other until one is empty.

**Metrics.** No code reads the counters, so `Accounting` derives them from the
steps of `Rsufz`: an outcome is counted when `process` leaves the handler, a
dispatch with its publish, a shutdown during a handler as the failure the code
counts. `executions` counts the starts of a task's handler.

**Cycle check.** The recursion of `dfs` is a stack of frames; a dependency of the
innermost frame is visited in any order.

## 3. The runs

Deadlock is not checked: a system without work rightly stops.

Passing runs:

| run | instance | distinct states | shows |
|---|---|---|---|
| `handoff` | 1 task, 2 workers, 2 messages, 2 faults, cancel and republish | 1.4 M | `TypeOK`, `NoSilentLoss`, `FinalIsFinal` |
| `dependencies` | 2 tasks (two types, priorities, due times), 1 worker, 1 fault | 0.8 M | `DepsRespected`, `ImplementsLifecycle`, `FailedReachesDLQ` |
| `exclusive` | 2 tasks (two types), 2 workers, 2 schedulers, prompt, no faults | 41 k | `StuckMeansDead`, `ExclusiveExecution`, `ExecutionsWithinLimit`, `AttemptsRecorded`, `CountedIsStored`, `OutcomesCounted` |
| `liveness` | 1 task, 2 workers, 2 faults, prompt, fair | 0.16 M | `ReadyTasksFinish` |
| `retention` | 2 tasks, 1 worker, deletion after 1 tick, cancel and republish | 0.9 M | `DeclaredDepsRespected` |
| `gateway` | the 3 binaries; in the gateway 2 tasks, 1 key, 2 requests with it, 1 stream, 2 faults, fair | 68 k | `SameKeySameTask`, `PriorityAsAsked`, `HandlersHavePool`, `ExitCodeTellsCause`, `StreamsOfFinishedEnd`, `StopsUnlessStreamWaits` |
| `listing` | 3 tasks of two types, pages of 1 and 2 | 0.9 M | `PagingMissesNothing`, `TotalCoversPages` |
| `domain` | all Base and Max of 7 bits, attempts -1..8; all graphs of 3 tasks | 48 k | `DelayIsCappedPower`, `VerdictRight`, `CheckEnds` |

`exclusive` meets `OutcomesCounted` without failures only; that it holds with any
number of them is the theorem `NoOutcomeUncounted`.

Runs that end in a violation, each a statement of the documentation the code does
not keep (`findings` in `PROJECT.json` quotes the lines):

| run | statement | what happens |
|---|---|---|
| `republish_failed` | republish is for failed tasks | it resets a running task |
| `attempts_lowered` | `AttemptCount` is the number of attempts so far; every task is processed exactly once | a starting worker claims a message its owner still processes, and the slower of the two stores the count of its old copy |
| `repeat_answered` | the same key gives the same task_id | of two concurrent requests one fails |
| `watch_blocks_stop` | signal and errgroup give a graceful shutdown | a stream on an unfinished task, open when the signal arrives, keeps `GracefulStop` waiting |

More disagreements, without a run of their own:

- `PLAN.md:320-322` rolls a pick back when a publish fails; `schedule.go:73-78`
  commits it first (`PublishError` leaves the task running, as the comment at
  `schedule.go:79` says).
- `metrics.go:42` and `execute.go:223` say failed tasks are sent to the DLQ. The
  status is committed first and the error of the publish ignored, so after a
  failed publish, or a worker that stops in between, a task is failed and in no
  dead letter stream. `FailedReachesDLQ` says how many there may be: one for each
  failure, and none without. Tasks of a type without a handler are failed without
  being counted (`execute.go:106`).
- `task.go:62` calls `AttemptCount` the number of attempts so far, and
  `TestExecute_DLQ` (`execute_test.go:126-127`) has a running task with 3 of 3.
  `process` increments its own copy (`execute.go:143`) and `markFailed` does not
  store it: a task that failed after `RetryLimit` attempts shows `RetryLimit - 1`,
  and the state of that test is never reached. `AttemptsRecorded` states what is
  stored, this missing attempt included. That the stored count stays below the
  limit is a fact the proofs use (`AttemptsBelowLimit` in `OutcomeProofs`), not a
  promise of the code.
- `task.go:63` calls `RetryLimit` the maximal number of attempts. An execution
  whose worker dies, or whose outcome cannot be stored, is not counted, and
  XAUTOCLAIM and `ResetStuckRunning` lead to another one. `ExecutionsWithinLimit`
  is therefore about behaviours without failures; without this condition TLC
  finds two executions of a task with one attempt after one failed call.
- `metrics.go:38` calls a counter the number of completed tasks. A task that a
  client republishes or cancels under its worker is counted (`execute.go:155`)
  before the store refuses the outcome; a task executed twice is counted twice.
  `CountedIsStored` excludes both by its conditions. The other direction,
  `OutcomesCounted`, holds without any.
- `common.proto:27` lets a task start only after all its dependencies are
  completed. `CleanupExpired` deletes cancelled tasks too, and with them the rows
  that keep their dependants waiting (`repo.go:519`; no binary calls it yet).
  `DeclaredDepsRespected` allows for such a dependency and no other.
- `tasks.proto:45` calls `retry_limit` the number of automatic retries,
  `task.go:63` the number of attempts; `CanRetry` treats it as attempts, which is
  what `ExecutionsWithinLimit` states.
- `tasks.proto` numbers pages from 0; `Repo.List` takes 0 and 1 for the first
  page, so a client that follows the proto gets it twice. `PagingMissesNothing`
  covers both ways of counting. It fails when a task leaves the result set during
  the walk (a filter by status, and a task that changes), and would when two tasks
  have one `created_at`: their order is undefined.
- The range of priorities is 0..10 (`tasks.proto:37`); 256 is accepted as 0.
- A signal between `Listen` and `Serve` makes `Serve` return `ErrServerStopped`,
  which is not `context.Canceled`: the exit code is 1 for a stop that was asked
  for. `ExitCodeTellsCause` allows for this case (`ServerStoppedEarly`) and no other.
- Without its precondition `DelayIsCappedPower` fails: `backoff.go:26-27` expects
  an overflowing shift to be zero or negative, but it may be positive and below
  Max (`5 << 62` is `2^62`).

### Bounds, and why they are enough

- `MaxMsgs`: 2 messages in `handoff` are a dispatch and a redispatch, so that a
  stale and a current message of one task are in flight together; 3 in
  `retention`. In `liveness` the bound of 8 is never reached.
- `MaxFaults`: two faults in one behaviour combine a lost call with a dead
  process; one is enough for a dead letter that is lost and for a reply of the
  store that is (`dependencies`).
- `Width = 3` and `BackoffBase = 2` in `handoff`: the first retry shifts the sign
  bit in (`2 << 1` is -4), so a `Delay` without its checks would store a negative
  wait. `TTL = 1` there lets the age of a finished row be seen.
- `HBTimeout`, `MinIdle`, `HBInterval` of one tick in the runs without `Prompt`:
  the clock is arbitrary there, so larger values only add waiting.
- `exclusive` needs `TimeoutsSuffice`: `HBTimeout >= (n-1)*MaxRun + HBInterval`
  and `MinIdle > n*MaxRun`, where `n` is the number of tasks, all of which a
  worker may hold: its values (3 and 5 for `n = 2`, `MaxRun = 2`) are the smallest. With
  `HBTimeout = 2` the monitor resets a task that waits in the channel of a busy
  worker, though `heartbeat.go:12-13` takes a stale `updated_at` for a dead
  worker; with `MinIdle = 4` a starting worker claims a message another one still
  processes.
  The defaults of the code are 30 s for both, with up to 64 deliveries in the
  channel and more in the reader, and handlers without a time limit.
- `Cmds`: a retry limit of 2 has one retry, so both branches of `CanRetry` occur.
- `gateway`: two requests with one key are one race between lookup and insert, in
  which each identifier is used; `IdsLeft` lets no request in that could not
  create a task, so the bound on tasks never blocks a handler. Two faults combine
  a lost answer with a failing member. Environment values 0, 1 and 2 cover an
  interval of zero by itself and by halving.
- `listing`: with three tasks and pages of one or two a walk has several pages
  with tasks inserted before, between and after them; an offset limit of 8 makes
  page 5 of two tasks negative and page 9 the first one again.
- `domain`: three nodes have self-loops, cycles off the start, and a node reached
  on two branches.
- Symmetry is used in the runs without liveness properties; the identifiers of
  tasks, workers, schedulers, keys and requests are interchangeable.

### Fairness

`FairSpec` gives weak fairness to the steps the code's loops repeat: the
scheduler's and the monitor's tickers fire again and again, the reader and
`process` of a worker that is up go on, heartbeats are sent, and the clock
advances. Nothing in the repository starts a worker that is down, so no worker is
assumed to come back: `ReadyTasksFinish` is about the behaviours in which some
worker is up from some time on (`Staffed`), and that one may have started at any
time. A scheduler that stops is modelled as losing its batch and going on; that
scheduler, monitor and some worker run at all is up to the deployment
(`deployments/docker-compose.yml` has no service for them). Handlers return, an assumption
on the handlers that the code does not enforce. Failures have no fairness, and
there are finitely many of them.

`GatewaySpec` gives weak fairness to the process (its goroutines run), to the
database call of each request and to the ticker of each stream. Clients, signals
and the progress of tasks get none: that is why a stop may take for ever
(`watch_blocks_stop`), and `StopsUnlessStreamWaits` says that nothing else can be
the reason. The search of `CheckCycle` is a loop of one goroutine (`MCDomain`).

## 4. The proofs

All theorems hold for every set of workers, schedulers, requests, streams and
keys, every finite set of tasks, all bounds, timeouts and batch sizes and any
number of faults. They use the named assumptions of the modules and nothing else:
`NoWorker`, `NoKey`, `NoCall` and the like are outside the sets they complete,
bounds are natural numbers, `HBInterval` and the read and claim counts are
positive, commands are well formed, page sizes are below `OffsetLimit` (both are
int32 in the code). TLC evaluates the assumptions in the runs.

The theorems of `TimingProofs` and those of `AccountingProofs` but
`NoOutcomeUncounted` are about a system in which the machine is fast (`Prompt`), clients only enqueue (`Operated = {}`) and
the two timeouts are long enough (`TimeoutsSuffice`), and about behaviours up to
the first failure (`faults = 0`). These are hypotheses of the theorems, not
assumptions of the modules; the instance of run `exclusive` satisfies them
(`MCAccounting` assumes `TimeoutsSuffice`, so TLC evaluates it), and none can
be dropped: with shorter timeouts two workers execute one task, as in run
`attempts_lowered`, a
slow process or a failed heartbeat has the monitor reset a task that is being
executed, and republishing dispatches such a task a second time.

| theorem | argument |
|---|---|
| `TypeCorrect`: `Spec => []TypeOK` | `TypeOK` is not inductive: that `TaskOf(w)` is a task needs `JobOK` (a busy worker has a delivery), and that a claimed message is in the stream needs `PendingInStream`. `TypeInv` is the conjunction of the three. |
| `LifecycleImplemented`: `Spec => ImplementsLifecycle` | each store operation is a step of `TaskLifecycle` or a stutter, given `TypeInv`; picks use that a batch is a subset of `Due` |
| `DependenciesRespected`: `Spec => []DepsRespected` | `DispatchedReady`: everything in an outbox or in the stream exists and has completed dependencies. It is inductive because only ready tasks are picked (`DispatchStep`), dependencies are fixed at creation and completed is final (`ReadyStable`). |
| `NothingSilentlyLost`: `Spec => []NoSilentLoss` | `NoSilentLoss` is inductive relative to `TypeInv`: only the pick makes a task running, and it fills the outbox; a message stops carrying its task only after an outcome was recorded or a finished status was read |
| `FinishedStaysFinished`: `Spec => FinalIsFinal` | no transition leaves the two final statuses, and pick, heartbeat and monitor only touch pending or running rows; the clock only adds to `age` and takes from `wait` |
| `FailedTasksKept`: `Spec => []FailedReachesDLQ` | `LetterLost`: a failed task without a dead letter (`NotInDLQ`) appears only when the worker that marks it failed or publishes it moves with a fault; one worker moves per step, so `NotInDLQ` grows by at most one element for each fault |
| `MonitorResetsDeadOnly`: `Spec => [](faults = 0 => StuckMeansDead)` | `TimingInv`, explained below |
| `ExecutionsExclusive`: `Spec => [](faults = 0 => ExclusiveExecution)` | two workers that have one task would hold two messages of it, or one message twice (`FlightUnique`, `OneHolder`) |
| `StartsWithinLimit`: `AccountingSpec => []ExecutionsWithinLimit` | `StartsRecorded`: the starts of a task that has not ended are its recorded attempts and the one in progress, if any; `CopyInv`: the number `markRetry` is about to write is the stored one plus one. With `AttemptsBelowLimit` the starts stay within the limit; that in turn rests on `RetryWithinLimit` (the number a worker in `retry` holds is below the limit of its task, which never changes). |
| `AttemptsMatchStarts`: `AccountingSpec => []AttemptsRecorded` | `StartsRecorded` again, which for a finished task says that one start is not recorded, and `FlightRunning`: a task whose handler has started and whose outcome is not stored is running |
| `CountersMatchStore`: `AccountingSpec => []CountedIsStored` | `StepKinds`: a step creates a task, is one of the four steps of the only worker that has a task (start, refusal, return, storing), or changes neither outcomes nor counters. Each kind moves at most one element between the sets that are counted (`Outcome`), so both sides of each equation change by the same number (`OutcomeCounted`). Retries are counted by the numbered attempts, a set. |
| `NoOutcomeUncounted`: `AccountingSpec => []OutcomesCounted` | no hypotheses. `NewStorer`: a worker gets to store an outcome only from the handler, which is when it is counted; `NewOutcome`: a task gets an outcome only from such a worker, which then is no longer one. So the stored and the waiting outcomes together grow by no more than is counted (`OutcomesGrow`), whoever else executes the task. |
| `CleanupKeepsOrder`: `RetentionSpec => []DeclaredDepsRespected` | dependency rows vanish, so `DispatchedReady` says nothing here. `Over` are the tasks that completed or were deleted after being cancelled. `DeclaredKept`: a declared dependency of a task that is not deleted has its row still or is over. `StartedDone`: the declared dependencies of a task with any trace of a dispatch (its status, an outbox, a message) are over. |
| `CleanupKeepsOrderUnattended`: `Operated = {}` implies `RetentionSpec => []DeclaredDepsCompleted` | only `CancelTask` cancels, so no cancelled task is ever deleted |
| `KeyNamesOneTask`: `GatewaySpec => []SameKeySameTask` | `KeysUnique` (the unique constraint) and `AnswersStored` (a task that was answered exists and has the key of its request), which need `CallOK` (a request between its two transactions carries its own command) and `AbsentHasNoKey` |
| `PriorityReported`: `GatewaySpec => []PriorityAsAsked` | inductive with the same conjuncts: creating a row writes both sides, no other transaction writes the priority |
| `PoolOutlivesHandlers`: `GatewaySpec => []HandlersHavePool` | `ServerBusy`: a handler in progress means a gateway in phase `run` whose gRPC server is up or stopping. `PoolKept`: until the errgroup's `Wait` has returned the pool is still to be opened or open, and in phase `run` nothing is left to open; `Wait` precedes the deferred closes |
| `ExitCodeCorrect`: `GatewaySpec => []ExitCodeTellsCause` | `CauseKnown`: an error recorded by the errgroup comes from a fault, from the cancelled context or from a server stopped before it served, and a member stops or ends only once the group is cancelled |
| `WalkMissesNothing`: `ListingSpec => []PagingMissesNothing` | `StillAhead`: what the client wants and has not seen has a place behind the pages it has read. New rows only increase places (`PlacesGrow`), and a page without rows means that there is no later place, because places have no gaps (`NoGap`: they are an injection of the rows into `1..n`, hence onto it). `NoWrap`: an offset that is not refused is the exact one. |
| `TotalIsEnough`: `ListingSpec => []TotalCoversPages` | `SeenMatch`: what was seen still matches, so the COUNT before a page covers all earlier pages; the last page is empty |
| `CycleVerdictRight`: `CycleSpec => []VerdictRight` | `GrayOnStack` and `StackIsPath`: the gray nodes are the stack, and each frame is reached from those below it, so a gray dependency closes a cycle. `LoopsDone` and `BlackDone`: the dependencies a loop has passed are black, black nodes reach black nodes only and are on no cycle, so none is missed. `Node` need not be finite. |

**The timing invariant.** Two facts depend on each other. While each task has at
most one dispatch in flight, a delivery waits behind the other tasks only, each
for at most `MaxRun`, so its waiting time is bounded. While waiting times are
bounded, neither the monitor nor `XAUTOCLAIM` makes a second dispatch. Neither is
inductive alone; `TimingInv` has three parts:

- `HeldInv`: each delivered message is held in one place (a channel or
  `process`), and every pending entry by a worker that is up;
- `FlightInv`: a task in flight is running, in flight once, and what is in an
  outbox was picked in this instant;
- `YoungInv`: the `age` of a row and the `idle` time of an entry are at most
  `Slack` of what is still in line before them: `MaxRun` for each task that is
  neither this one nor still ahead of it. The bound is about the set of tasks
  ahead, whatever the capacity of the channel. A handler that returns takes its
  task out of the line, which pays for the time it has run (`Spent`). The
  heartbeat keeps the row young, not the pending entry: that is why `MinIdle`
  needs one `MaxRun` more.

`ElapseKeeps` is the step in which `Quiet` is used: time passes only while every
worker that is up either has nothing or is in a handler.

Only model-checked:

- liveness (`ReadyTasksFinish`, `StreamsOfFinishedEnd`, `StopsUnlessStreamWaits`,
  `CheckEnds`), which is out of this prover's reach;
- the statements the violation runs refute, for which a counterexample is all there
  is to show;
- `DelayIsCappedPower`: arithmetic with powers of two modulo a power of two, whose
  laws need induction over the exponent.

## 5. Not modelled

Which gRPC code a refused request gets (`errors.go`) and what the interceptors
log; `LockNextPending` and the outbox table (unused); tracing and logging beyond
their place in start-up and shutdown; settings other than the two durations; the
generated code, but for the statuses and the list of calls. The worker service of
`worker.proto` has no implementation. Messages without a task_id, which no code
publishes. Different clocks. Trimming of the streams (the code never trims). A
lost database or Redis. Two gateways that migrate at the same time.

## 6. What could be added

An abstract work queue (at least once, until an outcome is recorded) that
`Scheduler`, `Broker` and `Worker` together implement, and the proof of that
refinement, for which `NothingSilentlyLost` is the main lemma.
The timing theorems could allow a failure that hits a task other than the one in
question, which needs `TimingInv` task by task.
