# Watchdawg in TLA+

Watchdawg is a daemon that runs health checks (HTTP, gRPC, Kafka, Starlark) on
schedules, publishes their results as Prometheus metrics, sends hooks when a
check succeeds or fails, and keeps an execution history in SQLite behind a
small REST API. This directory holds TLA+ modules for it, TLC configurations
that check them on small instances, and proofs for TLAPS. Line numbers below
are those of the files under `src/`.

    tlc -config sched_retry.cfg MCScheduler     # any run of the table below
    tlapm RecorderProofs.tla                    # any module *Proofs.tla

## 1. Inventory

| component | code | state | operations |
|---|---|---|---|
| scheduler | `healthcheck/scheduler.go`, `retry.go` | checkers, cron entries, root context; per execution: attempt, context with timeout, result | `AddHealthCheck`, `Start`, `Stop`, `executeHealthCheck`, `executeWithRetry` |
| hook notifier | `healthcheck/hooks.go` | one goroutine per hook, a WaitGroup | `NotifySuccess`, `NotifyFailure`, `Close` |
| Kafka publisher | `healthcheck/kafka.go:279-332` | pool of writers | `Publish`, `Close` |
| Kafka checker | `healthcheck/kafka.go:1-277` | map name -> consumer state (last message, its time), a consumer goroutine per check | `Init`, `Execute`, `Cleanup`, `runConsumer`, `consumeMessages` |
| HTTP, gRPC, Starlark checkers | `healthcheck/http.go`, `grpc.go`, `starlark.go` | none; per attempt: the response, the result | `Execute`, `executeOnce` |
| history recorder | `history/recorder.go` | channel of 100 jobs, `done`, the consumer goroutine | `Record`, `Start`, `Stop` |
| history store | `history/store.go` | the table `execution_records` | `NewSQLiteStore`, `Write`, `QueryCheck`, `QueryAll`, `Close` |
| REST API | `history/api.go` | none | `GET /history/{check}`, `GET /history/*` |
| metrics | `metrics/server.go` | gauges, counters, histograms | `Record...` |
| configuration | `config/loader.go`, `models/` | none after loading | `Load`, `validateConfig` |
| Starlark evaluation | `starlarkeval/` | none; per script: its globals | `RunCheckScript`, `RunAssertionScript`, `http_request` |
| daemon | `cmd/watchdawg/main.go` | order of start and shutdown | `main` |

**Interaction.** `main` loads the configuration, registers every check
(a Kafka check starts its consumer here), opens the history, starts the
recorder's goroutine and the HTTP server, then cron. Cron starts a goroutine
per tick; it runs the checker (with retries), sets the gauge, hands the result
to the recorder's channel, starts the hook goroutines and joins them. The
recorder's goroutine is the only writer of the store; API requests read it.
On a signal `main` cancels the context shared by the HTTP server and the
recorder, calls `scheduler.Stop` (cancel consumers, stop cron, wait for the
jobs, clean up, close the publisher), and the deferred `Recorder.Stop` closes
the channel and waits up to 5 s.

**What is hard here**, and what each component has to get right (the lines are
in `PROJECT.json`, "hazards"):

- overlapping executions of one check; the timeout that may expire in an
  attempt, in the pause between two, or among the hooks; panics: every
  execution ends, publishes one outcome, and that outcome decides the hooks;
- the teardown with jobs under way: nothing runs after it, nothing is reopened;
- the recorder's channel at its limit, `select` between a job and the
  cancellation, Stop's timeout, a send on a closed channel: order and no
  silent loss;
- the consumer that panics, fails or is cancelled in any combination; the
  state that is copied under a lock and judged later: verdicts are about the
  last message, readers are not leaked;
- eviction when timestamps arrive out of order, writes fail and retention
  changes between runs: the newest rows stay, the limit holds at all times;
- durations on their way through integer divisions to cron;
- a response that must meet several expectations, and a script that may state
  its verdict in up to four places while the parsed body sits under one of those
  names: which of them decides;
- a loader that validates and fills in defaults in one pass over copies and
  originals, and code behind it that takes the outcome for granted.

## 2. Modules

| module | models | extends / instantiates |
|---|---|---|
| `Execution` | abstract: what an execution of a check promises | |
| `Retrying` | abstract: what the retry loop promises of one execution alone | |
| `Scheduler` | `scheduler.go`, `retry.go`, `hooks.go`, the publisher's pool; attempts as verdicts | `Execution` (refinement) |
| `HistoryLog` | abstract: what a history recorder promises | |
| `Recorder` | `recorder.go` | `HistoryLog` (refinement) |
| `Daemon` | `main.go` | `Scheduler`, `Recorder` (composition) |
| `Store` | `store.go`, `api.go` | |
| `KafkaCheck` | `kafka.go`: consumers and `Execute` | |
| `StarlarkEval` | `eval.go`, `http_client.go`, as operators | |
| `Attempt` | `http.go`, `grpc.go`, `starlark.go`, the assertion of `kafka.go` | `StarlarkEval` |
| `Schedule` | what a duration becomes in `parseSchedule`, and cron's ticks, as operators | |
| `Startup` | `loader.go`, `config.go`, `AddHealthCheck`, `Init` of a Kafka check, ticks | `Schedule` |
| `SchedulerProofs`, `RecorderProofs`, `DaemonProofs`, `StoreProofs`, `KafkaCheckProofs`, `AttemptProofs`, `StartupProofs` | theorems | the module, `TLAPS`; `DaemonProofs` also the proofs of both components; `SchedulerProofs` and `AttemptProofs` also `Retrying` (refinement) |
| `MC...` | values of the constants for TLC | the module |

A definition whose name ends in `_Something` after the name of another (as
`Wake_Stuck`) is a mutated form of it: what a plausible mistake in the code
would be. `PROJECT.json`, "mutants", says which property notices it.

How they fit together: `Startup` ends where `Scheduler` begins, with checks
registered and cron running. `Attempt` is what `Scheduler` knows as an attempt
with a verdict; `AttemptContract` is the part of it that `Scheduler` builds on, and
`Retrying` the specification on which both meet.
`KafkaCheck` is what `Scheduler` knows as `KafkaExecute`. `Daemon` puts
`Scheduler` and `Recorder` under the goroutine of `main`. `Store` is the store
the recorder writes to, between an `Open` and the end of the process.

### Execution and Scheduler

One step per call that another goroutine can observe. `phase` is how far `main`
has driven the scheduler; `Stop` is `RootCancel`, `CronStop`, `AwaitJobs`,
`Cleanup`, `CloseNotifier`, in the order of `Stop`'s calls. `pc[e]` is where
execution `e` is: `attempt` and `calling` (before and inside `executeOnce`),
`sleep` (`retry.go:30`), `up`, `history`, `notify` (`scheduler.go:178-216`),
`hooks` (`wg.Wait`), `done`, or `panicked` (`cron.Recover`). `expired[e]` is the
context of `check.Timeout`, which nothing but the clients and `sendWebhook`
look at. An attempt with an expired context fails at once (`AttemptRefused`),
any other may take any verdict, or panic. `hook[e][h]` is the goroutine of one
hook. `writers` is the publisher's pool, keyed by brokers and topic (`DestOf`), so
hooks of one destination share a writer. `passed` and `failed` count
`RecordCheckAttempt`; `before` is an observer: the executions of the check that had
published when this one was fired. `GaugeIsCurrent` is what is left of "the gauge shows
the latest outcome" when executions overlap: either of two that overlap may win, but no
outcome outlives that of an execution fired after its publication.

`Execution` leaves out attempts, timeouts, hook goroutines and `Stop`: an
execution begins, publishes one outcome, reports it if its check has opted in,
tells the hooks of that outcome, and ends; or it crashes before it has published.
`ImplementsExecution` maps `pc` to its stages.

`Retrying` is about what `Execution` leaves out: the attempts of one execution,
until one is healthy or all have failed, each counted once, none that is still
at its start when the context has expired able to succeed. `Scheduler` implements
it for every execution that is not of a Kafka check (`RetriesAlone`; `Place` maps
`pc`), and `Attempt` implements it for zero retries (`AttemptsOnce`): the steps of
`Scheduler` that leave the outcome of an attempt open allow what the checkers do,
and nothing that the loop relies on is left to the checkers' good will.

Abstracted: message bodies, durations, labels.

### HistoryLog and Recorder

`ch` is the channel, `cpc` the goroutine of `Start`: `select` (the loop),
`write`, `drain` and `drainWrite` (`drain`, a non-blocking receive), `closing`
and `signalling` (the deferred `store.Close` and `close(done)`), `exited`.
`Record` is the non-blocking send: `Enqueue`, `DropFull`, or `SendPanic` on a
closed channel. `WriteJob` may fail, and must once the store is closed. `Stop`
is `StopClose` and then `StopDone` or `StopTimeout`. `accepted`, `handled` and
`mark` are observers. The refinement mapping takes the job in hand and the
channel for the log's pending records; once the consumer has left, what remains
in the channel is lost and counts as dropped (`Lost`): the code keeps
`HistoryLog`'s promise, but the loss after the end is real (finding
`find_history`).

### Daemon

`mainPc` sequences the steps of `main` over the variables of both components;
`RecordHistory` is one step of both. `StartupFailure` is the `os.Exit` of
`main.go:51,64`; after it, and after `Return`, no goroutine takes a step.
`RecordedBeforeSignalKept` is about every execution that was recorded: it is in
the store, or its loss was logged, or the recorder accepted it after the
cancellation. Only of the last kind may `main` return and forget one (finding
`find_history`).

### Store

`table` is what is committed, `view` what the open transaction sees; `Begin`,
`Insert`, `Evict` and `Commit` are the statements of `Write`, `Rollback` any
failure of one, `Exit` the end of the process between any two. `Open` brings
the database up with any configuration. `Newest(R, n)` is the set of results
that `ORDER BY timestamp DESC LIMIT n` may have: ties are not broken, so all
choices are explored. `QueryCheck`, `QueryAll`, `Status`, `Reported` and
`Records` are the REST answers in a state, and `AnswersNewest` quantifies over
all requests, those with a negative limit among them. `committed`, `kept` and `raised` are observers.

### KafkaCheck

`gpc[c]` is the consumer goroutine: `fetching`, `storing` (a message in hand),
`recovering` (after a panic, in the deferred function of `runConsumer`),
`stopped`. `Execs` are executions, any number of which may be under way for one check,
as cron does not wait for the last. `Execute` is `Lookup` (the map, under `k.mu`), `Read`
(the copy under `state.mu`), then `Wait` (no first message: healthy) or `Measure` (the
age of the copy), `PublishAge` (the gauge) and `Judge`, or `JudgePanic` when the assertion
panics; the clock may advance, messages may arrive and other executions may run between
any two. The age in the gauge and the latest verdict may therefore belong to different
executions, and `AgeIsCurrent` claims no more than the code keeps: the gauge holds the age
that some execution has worked out correctly, and none that began after its publication
has published since. The map `consumers` is keyed by name, which the loader does not
require to be unique. `heard`, `truth`, `at` and `before` are observers: the last message
of the check itself, what it was when an execution read the state, when it worked out the
age, and whose ages had been published when it began.

### StarlarkEval and Attempt

A script is known by how it is read (`IsSimpleExpression`, wrapped as
`valid = <expr>`; `Forms` tells an expression, one with statements behind it as
`x; y = 2`, and other statements, which do not parse behind `valid = `) and by the
globals it leaves (`Leaves`: for a full script any combination), of which `RunAssertionScript` and `RunCheckScript` make the
verdict. A value is absent, `True`, `False`, or something else.
`DoHTTPRequest` is one call of `http_request`: the refusals in the order of the
code, the read limit as an integer that wraps at the last int64, the mark of a
truncated body.

`Attempt` is one `executeOnce`, one action per return: `stage` goes from `begin`
(the request is built) over `waiting`, `reading`, `status`, `headers`, `format`
and `script` to `running`, and ends in `done` or, below a panic, in `panicked`.
Starlark and Kafka checks enter at `script` and `format`. The context may expire
between any two steps; `late` remembers that it had at the start. `Redirect` is
`client.Do` following a `Location`, from http to https or back, as often as `MaxRedirects`
allows; `Connects` says which peers may answer then: the scheme is that of the last
request (`plain`), the verification of certificates that of the configuration. `reason` stands
for the message of the result, by the place that writes it. Abstracted: bodies
(whether they parse, and what a JSON body has under the names a script's verdict
may have), text, durations.

### Schedule and Startup

A configuration is what `json.Unmarshal` makes of the file. `Load` is
`validateConfig`: `Valid` collects its errors, `Complete` its defaults. (The code
interleaves the two; nothing uses a configuration that was rejected, so the order
shows only in which error is reported first.) `AddHealthCheck` registers the checks in
order, `InitFails` is Kafka's second parse of the schedule, `Refused` what cron
rejects. `StartCron` picks the time of the day and one duration to follow, `Fire` its
ticks. A field `*/n` matches the multiples of `n` in the range of the field
(`Matches`). Daylight saving time and leap seconds are left out, as is what cron
makes of a user's own expression.

## 3. Runs

| run | instance | shows |
|---|---|---|
| `sched_overlap` | two executions of an HTTP check with one retry, one of a Kafka check, two hooks with one destination; Stop at any moment | `TypeOK`, `GaugeIsCurrent`, `HistoryMatchesOptIn`, `QuietAfterStop`; refinement `ImplementsExecution` |
| `sched_retry` | one execution of each check, two retries, a webhook, a Kafka hook and a broken hook | `RetryContract`, `HooksMatchResult`, `HooksAttemptedInTime`; liveness `EveryExecutionEnds`, `StopReturns` |
| `recorder` | four jobs, a channel of two | `TypeOK`, `InOrder`, `DrainedBeforeExit`, `StoreOutlivesWrites`; liveness `ConsumerEnds`; refinement `ImplementsLog` |
| `daemon` | one recorded execution of each of two checks, one with a hook, a channel of one | `NeverSendsOnClosed`, `RecordedBeforeSignalKept`; liveness `ShutdownTerminates` |
| `store` | four writes, two checks, two timestamps, three configurations | `TypeOK`, `RetentionHeld`, `NewestKept`, `AnswersNewest`, `NeighboursUntouched` |
| `kafka` | an asserting check executed twice, the executions possibly overlapping, three instants, one panic | `TypeOK`, `VerdictJudgesLastMessage`, `AgeIsCurrent`, `OneReader`, `NothingForgotten`; liveness `ConsumersStop` |
| `verdict` | some 150 configurations of all four types; up to one redirect; responses that fail any combination of expectations; every set of globals; up to two `http_request` calls | `TypeOK`, `AttemptContract`, `ExpectationsDecide`, `ScriptSaysSo`, `AnswersHonest` |
| `startup` | some nine thousand configurations, eight start times | `LoadedIsRunnable`, `OwnValuesKept`, `OnlySchedulesFailLate`, `NeverLate`, `ExactWhenEven` |

The violation runs are those of section 4; they use the instances above, or
smaller ones.

**Why the bounds are enough.** *Scheduler*: executions interact only through the
gauge, the set of recorded executions, the pool of writers and `phase`; two
executions of one check and one of another exhibit every pair, and two retries
distinguish the first, a middle and the last attempt. *Recorder*: four jobs overfill a
channel of two with one in hand, so that accepting, dropping and draining all
happen on both sides of the cancellation. *Daemon*: one slot makes the second
record overflow. *Store*: with retentions of one and two, four writes evict
earlier, later and equally old rows, under a raised and a lowered retention.
*KafkaCheck*: an interval of one in a clock of three instants reaches ages below, at and
above the limit; two executions are the least that can overlap, or follow one another,
and a panic may come before, between and after the messages they read. *Attempt*:
expectations are judged one by one, so two codes and two headers show an empty,
a met and an unmet expectation of each kind beside every other; `MaxInt` is 3,
so that bodies below, at and above a limit and the wrapping limit all occur; one
redirect reaches either scheme from either, and a second would start where the first
has ended; a second `http_request` may follow an error, a truncation or the expiry.
*Startup*: fields of a check do not depend on those of another, so a sound check
and one of every shape suffice; the durations include every second around the unit
boundaries and the lengths of an hour and of a day, the start times both sides of
the boundaries of all three cycles.

**Fairness.** The Go runtime runs a goroutine that can run, and the steps that
are assumed to be taken are those it takes by itself: an attempt returns (HTTP
and gRPC calls are bounded by client timeouts and the context; Starlark has
neither recursion nor `while`), a pause of a second ends, a hook call ends
(its client has a timeout, the Kafka writer a bounded number of attempts), the
steps of `Stop` and of `main` follow one another, a write is cut off after 5 s,
`Stop`'s select returns, a cancelled `FetchMessage` returns with an error (strong
fairness: messages may keep coming until the reader notices), a recovering
goroutine goes on. Not assumed: that cron ticks, that a signal arrives, that
messages arrive, that a timeout expires, that anybody calls `Record`.

## 4. Disagreements between code and documents

Each is a run that TLC ends with a counterexample; quotes are in `PROJECT.json`.

| run | property | what happens |
|---|---|---|
| `find_hooks` | `FailureHooksSent` | a check that failed by timing out has an expired context, so its failure webhooks fail too |
| `find_retry` | `NoRetryAfterTimeout` | the retry loop continues after the timeout, one failing attempt per second |
| `find_history` | `HistoryDrainedOnReturn` | records made while `scheduler.Stop` waits for jobs are lost, because the consumer has already left |
| `find_interval` | `FiresEveryInterval` | `2h30m` runs every two hours, `45s` at :00 and :45 |

The models also show, without a run of their own (the definition that shows it is
named first). No property asserts what the code does where a document says otherwise:
the cases are left out of the property, which says so in its comment.

- `KafkaCheck!Lookup`: of two Kafka checks with one name the first is judged by
  the state of the second (`kafka.go:103`; specs/003-kafka-check/spec.md:77 judges a
  check by its most recent message).
- `KafkaCheck!Wait`: without a first message a Kafka check is healthy for ever
  (specs/003, edge cases: "until the silence interval elapses").
- `Scheduler!AddHealthCheck`, `KafkaExecute`: a Kafka check has `check_up = 1` from its
  registration, before anything has run (specs/006-metrics/spec.md:24 and FR-004, :74:
  absent before the first run), and its executions are missing in
  `check_executions_total`. `GaugeIsCurrent` does not judge the gauge of a Kafka check
  before its first outcome.
- `Scheduler!RecordCheckUp`, `KafkaCheck!PublishAge`: of overlapping executions the one
  that began first may publish last, so that the gauges need not show the "most recent
  execution outcome" (FR-004). `GaugeIsCurrent` and `AgeIsCurrent` allow it.
- `Attempt!Redirect`: an HTTP check follows redirects, between schemes too, and judges the
  last response only; no document of the HTTP check mentions it.
- `Store!Status`: a check named `*`, or with a slash, cannot be queried by its name.
- `Startup!Refused`: `500ms` becomes `*/0` and the daemon exits, although the comment of
  `parseSchedule` names it as handled. `Startup!InitFails`: `" 30s"` of a Kafka check
  passes validation, which trims, and fails in `Init`, which does not.
- `Startup!CompleteCheck`: a negative timeout is accepted; every context of the check
  then starts out expired, and it is never healthy.
- `StarlarkEval!RunAssertionScript`: `check()` in an assertion is never called
  (specs/004-assertions/spec.md:39 expects its dict to decide). `ScriptSaysSo` leaves
  assertions that define one out.
- `StarlarkEval!Bool`: a simple expression that is truthy but no bool, as
  `"ok" and 1`, fails (specs/004-assertions/spec.md:15 says "truthy"). `ScriptSaysSo` leaves them out.
- `StarlarkEval!Misread`: a one-line statement without the keywords, as
  `result = {...}`, is wrapped into `valid = result = {...}`, a syntax error (`x; y = 2` is
  not: it becomes `valid = x; y = 2`). The reverse, `Leaves`: a comparison `healthy == x`
  matches the keyword pattern, is run as a full script, leaves no global, and fails.
- `StarlarkEval!ExtractCheckResult`: a global `healthy` that is no boolean counts as
  healthy in a check script, and as unhealthy within a dict.
- `StarlarkEval!ReadLimit`: `max_body_bytes` at the last int64 overflows, and every
  body is empty, without an error.
- `StarlarkEval!DoHTTPRequest` answers with a dict; the examples of specs/008
  (contracts/starlark-http-api.md:50, quickstart.md:22) read `resp.error`, an
  attribute that a dict does not have, as does the comment at `config.go:127`
  with `result.status`.
- `Attempt!Predeclared`: a parsed XML body reaches the script as `None`.
- `Attempt!HeadersMatch`: expected header names are not brought into the canonical form
  of received ones, so `ETag` never matches `Etag` (specs/001-http-check/spec.md:38 knows no
  such condition). `ExpectationsDecide` judges canonical names only.
- `Attempt!Codes`: `"status_code": null` expects the code 0.
- `Attempt!ReadFails`: a body that cannot be read to its end leaves no `HTTPResult`
  (specs/001-http-check/spec.md:83, FR-010: "whenever a response was received"). `ExpectationsDecide` says nothing of the
  details of such a result.

## 5. Proofs

The proofs need only the named assumptions on the constants: for `Scheduler`,
that the configuration is well typed (`ChecksAssumption`, `HooksAssumption`);
for `Recorder`, that the capacity is positive and that `NoJob` is no job; for
`Daemon`, those of `Scheduler` and a positive capacity (`DaemonAssumption`); for
`Store`, that retentions are what the loader lets through (`ConfigsAssumption`)
and limits are integers (`LimitsAssumption`); for `KafkaCheck`, `Attempt` and
`Startup`, that configurations, responses and offsets are well typed, and that a
name with a prefix (`Prefixed`, the concatenation of `loader.go:111`) is not the
empty string. The theorems hold for any number of checks, hooks, retries,
executions, jobs, writes, restarts, panics and calls, and for any configuration,
response and duration.

`SchedulerProofs`
- `TypeCorrect`: `TypeOK`; one step per action.
- `RetriesAsConfigured`: `RetryContract`. By itself it speaks of finished
  executions only. The invariant that carries it says, for each place an
  execution may be in, how its counters relate to the current attempt
  (`OthersKeepRunning`: steps of other executions do not disturb it;
  `StepKeepsLoop`: its own keep it).
- `HooksFollowResult`: `HooksMatchResult`, from an invariant that also says that
  no hook exists before `Notify` and that `healthy` no longer changes then.
- `HistoryFollowsOptIn`: `HistoryMatchesOptIn`, strengthened by what holds between
  `RecordHistory` and the end.
- `TeardownIsQuiet`: `QuietAfterStop`. A job joins its hooks, so without a live
  job no hook is at work (`NoJobNoHook`), and after `CronStop` no job starts.
- `RefinesExecution`: `ImplementsExecution`. Each step of `Scheduler` is a step of
  `Execution` or a stutter; that a registration never follows an execution is
  `RegisteredFirst`.
- `RetriesAlone`: each execution of an HTTP, gRPC or Starlark check implements
  `Retrying`. Its own steps do (`OwnStepRetries`), and the others' do not disturb it
  (`OthersKeepRunning`). One instance per execution is a parametric instance, which
  TLC does not take as a property: this refinement is proved only.
- `GaugeStaysCurrent`: `GaugeIsCurrent`. The execution whose outcome the gauge shows is
  the last that has published, and whoever was fired before that publication cannot
  have it in `before`. `HooksInTime`: `HooksAttemptedInTime`.

`RecorderProofs`
- `TypeCorrect`, `KeepsOrder` (`InOrder` is inductive over the types),
- `LifecycleHolds`: the shutdown protocol as an invariant, which ties
  `cpc`, `storeOpen`, `done`, `stop`, `chClosed` and `mark` together;
  `StoreSafe` (`StoreOutlivesWrites`) follows from it;
- `DrainsBeforeExit`: `DrainedBeforeExit`, from `KeepsOrder` and `LifecycleHolds`:
  the consumer leaves only when the channel is empty (`EmptyMeansHandled`), and
  afterwards only new records enter;
- `KeepsWhatItHandles`: what was handled is written or logged; `KeepsWhatWasMarked`
  adds `DrainsBeforeExit` and is what `Daemon` needs;
- `TracedHolds`: what is written or spoiled was handled; with it
  `StepImplementsLog` shows each step of `Recorder` to be a step of `HistoryLog`
  or a stutter, and `ImplementsLogSafety` concludes `Spec => Log!LogSafety`.

`DaemonProofs`
- `DrivesRecorder`: a behaviour of the daemon is, for the recorder's variables, a
  behaviour of `Recorder`, so that every theorem of `RecorderProofs` holds in the
  composition. `DrivesScheduler` says the same of the scheduler. With both,
  `KeepsBothPromises`: the daemon implements `Execution` and `HistoryLog` (safety) at
  once.
- `RecordsOnce`: the step that the components share. Their views of what was handed
  over, `recorded` of the one and `Seen` of the other, agree at all times
  (`HandedOnHolds`); all other steps leave both alone (`OthersHandNothingOn`). With
  `HistoryFollowsOptIn` of the scheduler, a finished execution has met the recorder
  exactly if its check opted in.
- `ChannelIsSafe`: `NeverSendsOnClosed`. The invariant (`ShutdownOrder`) is the order
  of the shutdown: the channel is closed only in `returning`, which is entered
  when `Stop` has waited for every job, after which no execution can record.
- `ReturnsQuietly`: from the same order and `TeardownIsQuiet` of the scheduler, no job, no
  hook and no writer is left when `main` begins to return, and the context of every
  Kafka consumer is cancelled. The consumers' goroutines are not joined by `Stop` and
  may still be on their way out; that they end is `ConsumersStop`, of `KafkaCheck`.
- `KeepsWhatCameBefore`: `RecordedBeforeSignalKept`. Every recorded execution is
  written, logged or among the accepted (`HandedOn`); up to the mark of the cancellation
  the accepted are handled when the consumer is done (`KeepsWhatWasMarked` of the
  recorder), so one that is missing was accepted after it.

`StoreProofs`
- `NewestAgain`, the lemma on which eviction rests: the newest `n` of the newest `k` of
  `C` and a further row are the newest `n` of all of them, provided `n <= k`. Raising
  the retention is where it fails, hence `raised`.
- `TypeCorrect`; `ConsistentHolds`: what the open transaction sees at each stage
  (`Isolated`), and that the table holds committed rows with ids in the order of the
  writes (`Grounded`). Neither `RetentionHeld` nor `NewestKept` is inductive without
  it: they speak of the table, and the eviction happens in the view.
- `NeighboursAreUntouched`, `RetentionIsHeld`, and `NewestAreKept` follow, the last with
  `Ranked` (a check without a commit has no rows).
- `NewestAreAnswered`: `AnswersNewest`. The rows sorted by time list each row once
  (`SortedListsOnce`, `ListedOnce`), their first `n` are a choice of the newest
  (`FirstAreNewest`), and the records numbered within each check, as `QueryAll` does,
  come to the same (`NumberedAreNewest`).

`KafkaCheckProofs`
- `SoundHolds`: types, `OneReader`, the map of consumers (`Filed`) and what an execution
  has found in it (`Targeted`) in one invariant, because each needs the others: a
  reader is closed only where one is open, and `Read` reads a check that exists.
  `TypeCorrect` and `ReadersNotLeaked` follow.
- `RecentHolds` (the state is that of the last message, not in the future), and
  from it the action property `NothingIsForgotten`.
- `VerdictsAreTrue`: `VerdictJudgesLastMessage`, from the above and `Judged`: an
  execution of a check with a unique name has copied the state of its own consumer.
- `AgesAreCurrent`: `AgeIsCurrent`, with `Followed`: `before` holds only executions that
  had published when this one began, so whoever publishes is in nobody's `before` yet
  and becomes the witness, and a later `Read` or `Measure` does not touch what was
  published (`AgeUndisturbed`).

`AttemptProofs`
- `TypeCorrect`; the operators of `StarlarkEval` get lemmas of their own
  (`LeavesTyped`, `AnswerTyped`, `LimitTyped`).
- `ContractKept`: `AttemptContract`. Each step either goes on, and has counted
  nothing (`ContinueKeepsContract`), or returns (`ReturnKeepsContract`).
- `ExpectationsHold`: `ExpectationsDecide`, from an invariant that says at each stage
  which expectations have been met so far (`UnmetParts`, `UnmetStays`), and of a
  finished attempt which return wrote its reason. Redirects change `plain` only while no
  response is there, so that the peer remains one that `Connects` allows.
- `ScriptsAreHeeded`: `ScriptSaysSo`. The strongest of the four or three statements of a
  script is its first (`StrongestIsFirst`), and the nested conditions of the code come to
  that: `AssertionHeeds` for assertions, `CheckHeeds` for checks whose globals the code
  does not leave open (`Plain`).
- `AttemptsOnce`: an attempt that is not of a Kafka check implements `Retrying` with no
  retries: each return of `executeOnce` is one of its results (`ReturnIsResult`), and a
  script starts, or a request leaves, only with a live context. `JudgedHolds` tells
  where which kind of check can be.
- `AnswersAreHonest`: `AnswersHonest`, by cases on the refusals and the limit
  (`LimitTells`: a limit of one byte more tells a full body from a longer one).

`StartupProofs`
- `CompletedBlocks`, `CompletedCheck`, `CompletedChecks`: what the defaults change, and
  nothing else. With `TakenHolds` (main works with the completed form of a valid
  configuration), `GivenIsKept` concludes `OwnValuesKept`, by way of one lemma per block:
  `CheckIsKept`, `HookIsKept`, `MetricsAreKept`, `HistoryIsKept`.
- `LoadedCanRun`: `LoadedIsRunnable`, field by field from what `Valid` demands and
  `Complete` fills in (`HooksAreSendable`, `NumbersAreRunnable`, `CheckIsRunnable`,
  `HistoryIsBounded`).
- `RegisteredHolds`: the entries are those of the checks registered so far, and
  registration stops only at a check that cannot be registered;
  `SchedulesFailLate` (`OnlySchedulesFailLate`) shows that this is its schedule.
- `EntryOfDuration`: the divisions never lengthen a duration. `NextTickIsFirst`: the next
  tick is the first unit that matches, at most one step away, also where the field wraps
  around. With `TickingHolds`, `NoCheckIsLate` concludes `NeverLate`.
- `EvenEntry`, `NextTickIsEven`, `AlignedHolds`: where steps divide the range, ticks are
  one step apart across the wrap; `EvenDurationsAreExact` concludes `ExactWhenEven`.

Every invariant and action property of the runs that pass is proved for all values of the
constants. Only model-checked: the liveness properties (`EveryExecutionEnds`,
`StopReturns`, `ConsumerEnds`, `ShutdownTerminates`, `ConsumersStop`) and the fairness of
the refinement `ImplementsLog`, of which `ImplementsLogSafety` is the safety part; they
need ENABLED, which is beyond the prover. The other way round, `RetriesAlone`,
`AttemptsOnce`, `RecordsOnce`, `ReturnsQuietly` and the two theorems that `Daemon` drives
its components are proved and not among the properties of a run.

## 6. Not modelled, and the plan

Left out for good: the HTTP server and its shutdown, logging, flags, reading the
configuration file and expanding its environment variables, the Starlark
interpreter, conversion of JSON and XML values, histograms and the exposition format,
the Prometheus, Kafka, gRPC and SQLite libraries beyond how the code uses them. Hazards
without a property are listed in `PROJECT.json` with the reason.

Done: the scheduler, the recorder, the daemon, the store and the Kafka checker with
their proofs; the verdicts (`Attempt`, `StarlarkEval`); the loader and the way to cron
(`Startup`); the pool keyed by destination; `Execution` and its refinement; the message
age gauge; proofs for every safety property of the runs, for the composition and for
schedules; `Retrying`, by which `Attempt` fits into `Scheduler`.

Left:

1. The daemon with Kafka consumers of its own, `KafkaCheck` instantiated in `Daemon`:
   today `Daemon` knows a consumer only as running or not.
2. The merge of the REST API with a store that is closing (hazard `main.go:91`).
3. Proofs: what `Startup` lets through as the assumptions of `Scheduler`, `Store` and
   `KafkaCheck`, whose configurations are so far abstractions of their own.
