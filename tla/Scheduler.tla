------------------------------ MODULE Scheduler ------------------------------
(***************************************************************************)
(* The scheduler of watchdawg (internal/healthcheck/scheduler.go) with the *)
(* execution it drives: the retry loop (retry.go), the attempts of the     *)
(* HTTP, gRPC and Starlark checkers, the single-shot Kafka check, and the  *)
(* hook goroutines (hooks.go).                                             *)
(*                                                                         *)
(* The cron library starts every job in a goroutine of its own and chains  *)
(* no SkipIfStillRunning, so two executions of one check may overlap.      *)
(* Stop runs in the goroutine of main, one step per call it makes.         *)
(***************************************************************************)
EXTENDS Naturals

CONSTANTS
    Checks,         \* the checks of the configuration
    KafkaChecks,    \* those of type kafka
    MaxExecs,       \* bound: number of executions that are fired in all
    CheckOf,        \* CheckOf[e]: the check whose schedule fires execution e
    Retries,        \* Retries[c]: config field `retries`
    Hooks,          \* configured hooks
    KafkaHooks,     \* hooks that publish to Kafka, the others are webhooks
    DestOf,         \* DestOf[h]: brokers and topic of Kafka hook h
    BrokenHooks,    \* hooks whose message template does not parse or execute
    OnSuccess,      \* OnSuccess[c]: hooks of c for a healthy result
    OnFailure,      \* OnFailure[c]: hooks of c for an unhealthy result
    HistoryOn,      \* a history recorder is attached (s.history != nil)
    RecordAll,      \* config field `record_all_healthchecks`
    RecordFlag      \* RecordFlag[c]: config field `record`

Execs == 1 .. MaxExecs

ASSUME ChecksAssumption ==
    /\ KafkaChecks \subseteq Checks
    /\ MaxExecs \in Nat
    /\ CheckOf \in [Execs -> Checks]
    /\ Retries \in [Checks -> Nat]
    /\ RecordFlag \in [Checks -> BOOLEAN]
    /\ HistoryOn \in BOOLEAN
    /\ RecordAll \in BOOLEAN

ASSUME HooksAssumption ==
    /\ KafkaHooks \subseteq Hooks
    /\ DOMAIN DestOf = KafkaHooks
    /\ BrokenHooks \subseteq Hooks
    /\ OnSuccess \in [Checks -> SUBSET Hooks]
    /\ OnFailure \in [Checks -> SUBSET Hooks]

VARIABLES
    phase,      \* how far main has driven the scheduler
    scheduled,  \* checks added to cron
    consumers,  \* Kafka checks whose consumer context is live
    pc,         \* pc[e]: where execution e is
    attempt,    \* attempt[e]: number of the current or last attempt
    expired,    \* expired[e]: the context with check.Timeout has expired
    healthy,    \* healthy[e]: result.Healthy of the finished Execute
    passed,     \* passed[e]: RecordCheckAttempt(healthy = true) calls
    failed,     \* failed[e]: RecordCheckAttempt(healthy = false) calls
    checkUp,    \* checkUp[c]: the gauge watchdawg_check_up
    recorded,   \* executions handed to history.Record
    hook,       \* hook[e][h]: the goroutine of hook h for execution e
    writers,    \* the publisher's pool: destinations with an open writer
    before      \* observer only: before[e]: executions of e's check that had
                \* published their outcome when e was fired

control == <<phase, scheduled, consumers>>
run     == <<pc, attempt, expired, healthy, passed, failed>>
effects == <<checkUp, recorded, hook, writers>>
vars    == <<phase, scheduled, consumers, pc, attempt, expired, healthy,
             passed, failed, checkUp, recorded, hook, writers, before>>

Phases == {"adding", "running", "cancelled", "draining", "drained",
           "cleaned", "closed"}
Ended      == {"done", "panicked"}
Published  == {"history", "notify", "hooks", "done"}
Live       == {"attempt", "calling", "sleep", "up", "history", "notify",
               "hooks"}
HookEnded  == {"sent", "failed", "refused"}
HookStates == {"none", "spawned", "sending"} \cup HookEnded

\* cronCtx is done when the library's job WaitGroup is at zero.
JobsDrained == \A e \in Execs : pc[e] \notin Live

\* Both conditions of scheduler.go:180.
ShouldRecord(c) == HistoryOn /\ (RecordAll \/ RecordFlag[c])

Destinations == {DestOf[h] : h \in KafkaHooks}

HookList(e) == IF healthy[e] THEN OnSuccess[CheckOf[e]]
                             ELSE OnFailure[CheckOf[e]]

GaugeValue(h) == IF h THEN "up" ELSE "down"

\* Executions of check c that have published their outcome.
PublishedOf(c) == {e \in Execs : CheckOf[e] = c /\ pc[e] \in Published}

Init ==
    /\ phase = "adding"
    /\ scheduled = {}
    /\ consumers = {}
    /\ pc = [e \in Execs |-> "idle"]
    /\ attempt = [e \in Execs |-> 0]
    /\ expired = [e \in Execs |-> FALSE]
    /\ healthy = [e \in Execs |-> FALSE]
    /\ passed = [e \in Execs |-> 0]
    /\ failed = [e \in Execs |-> 0]
    /\ checkUp = [c \in Checks |-> "absent"]
    /\ recorded = {}
    /\ hook = [e \in Execs |-> [h \in Hooks |-> "none"]]
    /\ writers = {}
    /\ before = [e \in Execs |-> {}]

-----------------------------------------------------------------------------
(* The goroutine of main. *)

\* Mutant: Init of the Kafka checker is called for every check.
AddHealthCheck_ConsumerForAll(c) ==
    /\ phase = "adding"
    /\ c \notin scheduled
    /\ scheduled' = scheduled \cup {c}
    /\ consumers' = consumers \cup {c}
    /\ UNCHANGED <<phase, run, effects, before>>

\* Kafka's Init starts the consumer and publishes check_up = 1 at once.
AddHealthCheck(c) ==
    /\ phase = "adding"
    /\ c \notin scheduled
    /\ scheduled' = scheduled \cup {c}
    /\ IF c \in KafkaChecks
       THEN /\ consumers' = consumers \cup {c}
            /\ checkUp' = [checkUp EXCEPT ![c] = GaugeValue(TRUE)]
       ELSE UNCHANGED <<consumers, checkUp>>
    /\ UNCHANGED <<phase, run, recorded, hook, writers, before>>

Start ==
    /\ phase = "adding"
    /\ scheduled = Checks
    /\ phase' = "running"
    /\ UNCHANGED <<scheduled, consumers, run, effects, before>>

\* Stop, call by call: s.rootCancel() ...
RootCancel ==
    /\ phase = "running"
    /\ phase' = "cancelled"
    /\ consumers' = {}
    /\ UNCHANGED <<scheduled, run, effects, before>>

\* ... s.cron.Stop(), after which no job starts ...
CronStop ==
    /\ phase = "cancelled"
    /\ phase' = "draining"
    /\ UNCHANGED <<scheduled, consumers, run, effects, before>>

\* Mutant: Stop does not wait for the jobs under way.
AwaitJobs_NoWait ==
    /\ phase = "draining"
    /\ phase' = "drained"
    /\ UNCHANGED <<scheduled, consumers, run, effects, before>>

\* ... <-cronCtx.Done() ...
AwaitJobs ==
    /\ phase = "draining"
    /\ JobsDrained
    /\ phase' = "drained"
    /\ UNCHANGED <<scheduled, consumers, run, effects, before>>

\* ... checker.Cleanup of every checker ...
Cleanup ==
    /\ phase = "drained"
    /\ phase' = "cleaned"
    /\ consumers' = {}
    /\ UNCHANGED <<scheduled, run, effects, before>>

\* ... and s.notifier.Close(), which empties the pool of writers.
CloseNotifier ==
    /\ phase = "cleaned"
    /\ phase' = "closed"
    /\ writers' = {}
    /\ UNCHANGED <<scheduled, consumers, run, checkUp, recorded, hook,
                   before>>

-----------------------------------------------------------------------------
(* An execution: the goroutine that cron starts for one tick. *)

\* Executions of one check start in the order of their numbers.
Tick(e) ==
    /\ phase \in {"running", "cancelled"}
    /\ pc[e] = "idle"
    /\ CheckOf[e] \in scheduled
    /\ \A d \in 1 .. (e - 1) : CheckOf[d] = CheckOf[e] => pc[d] # "idle"
    /\ pc' = [pc EXCEPT ![e] = "attempt"]
    /\ attempt' = [attempt EXCEPT ![e] = 1]
    /\ before' = [before EXCEPT ![e] = PublishedOf(CheckOf[e])]
    /\ UNCHANGED <<control, expired, healthy, passed, failed, effects>>

\* Mutant: the timeout also overwrites the result.
Timeout_Overrides(e) ==
    /\ pc[e] \in Live
    /\ ~expired[e]
    /\ expired' = [expired EXCEPT ![e] = TRUE]
    /\ healthy' = [healthy EXCEPT ![e] = FALSE]
    /\ UNCHANGED <<control, pc, attempt, passed, failed, effects, before>>

\* context.WithTimeout(context.Background(), check.Timeout) runs out.
Timeout(e) ==
    /\ pc[e] \in Live
    /\ ~expired[e]
    /\ expired' = [expired EXCEPT ![e] = TRUE]
    /\ UNCHANGED <<control, pc, attempt, healthy, passed, failed, effects,
                   before>>

\* Mutant: maxAttempts is check.Retries.
EndAttempt_OffByOne(e, ok) ==
    /\ passed' = [passed EXCEPT ![e] = @ + (IF ok THEN 1 ELSE 0)]
    /\ failed' = [failed EXCEPT ![e] = @ + (IF ok THEN 0 ELSE 1)]
    /\ healthy' = [healthy EXCEPT ![e] = ok]
    /\ pc' = [pc EXCEPT ![e] =
                IF ok \/ attempt[e] = Retries[CheckOf[e]]
                THEN "up" ELSE "sleep"]
    /\ UNCHANGED <<control, attempt, expired, effects, before>>

\* fn returned: count the attempt; return the first healthy or the last
\* failed result, otherwise sleep.
EndAttempt(e, ok) ==
    /\ passed' = [passed EXCEPT ![e] = @ + (IF ok THEN 1 ELSE 0)]
    /\ failed' = [failed EXCEPT ![e] = @ + (IF ok THEN 0 ELSE 1)]
    /\ healthy' = [healthy EXCEPT ![e] = ok]
    /\ pc' = [pc EXCEPT ![e] =
                IF ok \/ attempt[e] = Retries[CheckOf[e]] + 1
                THEN "up" ELSE "sleep"]
    /\ UNCHANGED <<control, attempt, expired, effects, before>>

\* executeOnce with an expired context: the client refuses the request.
AttemptRefused(e) ==
    /\ pc[e] = "attempt"
    /\ CheckOf[e] \notin KafkaChecks
    /\ expired[e]
    /\ EndAttempt(e, FALSE)

\* executeOnce with a live context: the request, RPC or script is under way.
AttemptBegin(e) ==
    /\ pc[e] = "attempt"
    /\ CheckOf[e] \notin KafkaChecks
    /\ ~expired[e]
    /\ pc' = [pc EXCEPT ![e] = "calling"]
    /\ UNCHANGED <<control, attempt, expired, healthy, passed, failed,
                   effects, before>>

\* A verdict; one reached just as the context expires may still be healthy.
AttemptEnd(e, ok) ==
    /\ pc[e] = "calling"
    /\ EndAttempt(e, ok)

\* A panic under Execute: the deferred RecordCheckAttempt counts a failed
\* attempt, cron.Recover ends the job.
AttemptPanic(e) ==
    /\ pc[e] = "calling"
    /\ failed' = [failed EXCEPT ![e] = @ + 1]
    /\ pc' = [pc EXCEPT ![e] = "panicked"]
    /\ UNCHANGED <<control, attempt, expired, healthy, passed, effects,
                   before>>

\* Mutant: the pause watches the context, and polls once it has expired.
Wake_Stuck(e) ==
    /\ pc[e] = "sleep"
    /\ IF expired[e]
       THEN UNCHANGED <<pc, attempt>>
       ELSE /\ pc' = [pc EXCEPT ![e] = "attempt"]
            /\ attempt' = [attempt EXCEPT ![e] = @ + 1]
    /\ UNCHANGED <<control, expired, healthy, passed, failed, effects,
                   before>>

\* time.Sleep(time.Second) is over; the context is not looked at.
Wake(e) ==
    /\ pc[e] = "sleep"
    /\ pc' = [pc EXCEPT ![e] = "attempt"]
    /\ attempt' = [attempt EXCEPT ![e] = @ + 1]
    /\ UNCHANGED <<control, expired, healthy, passed, failed, effects,
                   before>>

\* KafkaChecker.Execute: one evaluation, no retry, no RecordCheckAttempt.
KafkaExecute(e, ok) ==
    /\ pc[e] = "attempt"
    /\ CheckOf[e] \in KafkaChecks
    /\ healthy' = [healthy EXCEPT ![e] = ok]
    /\ pc' = [pc EXCEPT ![e] = "up"]
    /\ UNCHANGED <<control, attempt, expired, passed, failed, effects,
                   before>>

KafkaPanic(e) ==
    /\ pc[e] = "attempt"
    /\ CheckOf[e] \in KafkaChecks
    /\ pc' = [pc EXCEPT ![e] = "panicked"]
    /\ UNCHANGED <<control, attempt, expired, healthy, passed, failed,
                   effects, before>>

\* Mutant: the gauge is set on the healthy path only.
RecordCheckUp_HealthyOnly(e) ==
    /\ pc[e] = "up"
    /\ checkUp' = IF healthy[e]
                  THEN [checkUp EXCEPT ![CheckOf[e]] = GaugeValue(TRUE)]
                  ELSE checkUp
    /\ pc' = [pc EXCEPT ![e] = "history"]
    /\ UNCHANGED <<control, attempt, expired, healthy, passed, failed,
                   recorded, hook, writers, before>>

RecordCheckUp(e) ==
    /\ pc[e] = "up"
    /\ checkUp' = [checkUp EXCEPT ![CheckOf[e]] = GaugeValue(healthy[e])]
    /\ pc' = [pc EXCEPT ![e] = "history"]
    /\ UNCHANGED <<control, attempt, expired, healthy, passed, failed,
                   recorded, hook, writers, before>>

\* Mutant: failed executions are not recorded.
RecordHistory_HealthyOnly(e) ==
    /\ pc[e] = "history"
    /\ recorded' = IF ShouldRecord(CheckOf[e]) /\ healthy[e]
                   THEN recorded \cup {e} ELSE recorded
    /\ pc' = [pc EXCEPT ![e] = "notify"]
    /\ UNCHANGED <<control, attempt, expired, healthy, passed, failed,
                   checkUp, hook, writers, before>>

RecordHistory(e) ==
    /\ pc[e] = "history"
    /\ recorded' = IF ShouldRecord(CheckOf[e])
                   THEN recorded \cup {e} ELSE recorded
    /\ pc' = [pc EXCEPT ![e] = "notify"]
    /\ UNCHANGED <<control, attempt, expired, healthy, passed, failed,
                   checkUp, hook, writers, before>>

\* Mutant: the success hooks run whatever the result.
Notify_AlwaysSuccess(e) ==
    /\ pc[e] = "notify"
    /\ hook' = [hook EXCEPT ![e] =
                  [h \in Hooks |-> IF h \in HookList(e) \cup OnSuccess[CheckOf[e]]
                                   THEN "spawned" ELSE @[h]]]
    /\ pc' = [pc EXCEPT ![e] = "hooks"]
    /\ UNCHANGED <<control, attempt, expired, healthy, passed, failed,
                   checkUp, recorded, writers, before>>

\* NotifySuccess or NotifyFailure: one goroutine per hook of the list.
Notify(e) ==
    /\ pc[e] = "notify"
    /\ hook' = [hook EXCEPT ![e] =
                  [h \in Hooks |-> IF h \in HookList(e)
                                   THEN "spawned" ELSE @[h]]]
    /\ pc' = [pc EXCEPT ![e] = "hooks"]
    /\ UNCHANGED <<control, attempt, expired, healthy, passed, failed,
                   checkUp, recorded, writers, before>>

\* Mutant: the first hook to fail cancels the others of the list.
HookRefused_SiblingFailed(e, h) ==
    /\ hook[e][h] = "spawned"
    /\ \/ h \in BrokenHooks
       \/ h \notin KafkaHooks /\ expired[e]
       \/ \E g \in Hooks : hook[e][g] \in {"failed", "refused"}
    /\ hook' = [hook EXCEPT ![e][h] = "refused"]
    /\ UNCHANGED <<control, run, checkUp, recorded, writers, before>>

\* The hook fails before anything is sent: its template is broken, or it is
\* a webhook and the execution's context has expired.
HookRefused(e, h) ==
    /\ hook[e][h] = "spawned"
    /\ h \in BrokenHooks \/ (h \notin KafkaHooks /\ expired[e])
    /\ hook' = [hook EXCEPT ![e][h] = "refused"]
    /\ UNCHANGED <<control, run, checkUp, recorded, writers, before>>

\* writerFor: the pooled writer of a destination is taken, or created. It is
\* shared by all hooks and executions with that destination.
Pooled(h) == IF h \in KafkaHooks THEN writers \cup {DestOf[h]} ELSE writers

\* The request leaves.
HookSend(e, h) ==
    /\ hook[e][h] = "spawned"
    /\ h \notin BrokenHooks
    /\ h \in KafkaHooks \/ ~expired[e]
    /\ hook' = [hook EXCEPT ![e][h] = "sending"]
    /\ writers' = Pooled(h)
    /\ UNCHANGED <<control, run, checkUp, recorded, before>>

\* The outcome that RecordHookExecution counts.
HookEnd(e, h, ok) ==
    /\ hook[e][h] = "sending"
    /\ hook' = [hook EXCEPT ![e][h] = IF ok THEN "sent" ELSE "failed"]
    /\ UNCHANGED <<control, run, checkUp, recorded, writers, before>>

\* Mutant: wg.Done() is skipped for a hook that failed.
JoinHooks_AllSent(e) ==
    /\ pc[e] = "hooks"
    /\ pc' = [pc EXCEPT ![e] =
                IF \A h \in HookList(e) : hook[e][h] = "sent"
                THEN "done" ELSE @]
    /\ UNCHANGED <<control, attempt, expired, healthy, passed, failed,
                   effects, before>>

\* wg.Wait() returns.
JoinHooks(e) ==
    /\ pc[e] = "hooks"
    /\ \A h \in HookList(e) : hook[e][h] \in HookEnded
    /\ pc' = [pc EXCEPT ![e] = "done"]
    /\ UNCHANGED <<control, attempt, expired, healthy, passed, failed,
                   effects, before>>

-----------------------------------------------------------------------------

StopStep == CronStop \/ AwaitJobs \/ Cleanup \/ CloseNotifier

CheckStep(e) ==
    \/ AttemptRefused(e)
    \/ AttemptBegin(e)
    \/ \E ok \in BOOLEAN : AttemptEnd(e, ok)
    \/ AttemptPanic(e)
    \/ Wake(e)
    \/ \E ok \in BOOLEAN : KafkaExecute(e, ok)
    \/ KafkaPanic(e)
    \/ RecordCheckUp(e)

HookStep(e, h) ==
    \/ HookRefused(e, h)
    \/ HookSend(e, h)
    \/ \E ok \in BOOLEAN : HookEnd(e, h, ok)

NotifyStep(e) == Notify(e) \/ JoinHooks(e) \/ \E h \in Hooks : HookStep(e, h)

\* The steps of execution e, all but the start and the passing of time.
JobStep(e) == CheckStep(e) \/ RecordHistory(e) \/ NotifyStep(e)

\* The process has returned from Stop and takes no more steps.
Stopped == phase = "closed" /\ UNCHANGED vars

Next ==
    \/ \E c \in Checks : AddHealthCheck(c)
    \/ Start
    \/ RootCancel
    \/ StopStep
    \/ \E e \in Execs : Tick(e) \/ Timeout(e) \/ JobStep(e)
    \/ Stopped

Spec == Init /\ [][Next]_vars

\* Goroutines that can run do run; calls return (each is bounded by its
\* context or by the 10 s of the hook client). Nothing forces a tick, a
\* timeout or the signal that leads to Stop.
Fairness ==
    /\ WF_vars(StopStep)
    /\ \A e \in Execs : WF_vars(CheckStep(e) \/ RecordHistory(e)
                                \/ Notify(e) \/ JoinHooks(e))
    /\ \A e \in Execs : \A h \in Hooks : WF_vars(HookStep(e, h))

FairSpec == Spec /\ Fairness

-----------------------------------------------------------------------------
(* What the scheduler promises. *)

\* Every variable stays in its range; attempts never exceed retries + 1.
TypeOK ==
    /\ phase \in Phases
    /\ scheduled \subseteq Checks
    /\ consumers \subseteq KafkaChecks
    /\ pc \in [Execs -> Live \cup Ended \cup {"idle"}]
    /\ attempt \in [Execs -> Nat]
    /\ expired \in [Execs -> BOOLEAN]
    /\ healthy \in [Execs -> BOOLEAN]
    /\ passed \in [Execs -> Nat]
    /\ failed \in [Execs -> Nat]
    /\ checkUp \in [Checks -> {"absent", "up", "down"}]
    /\ recorded \subseteq Execs
    /\ hook \in [Execs -> [Hooks -> HookStates]]
    /\ writers \subseteq Destinations
    /\ before \in [Execs -> SUBSET Execs]

\* The retry loop reports healthy after exactly one passing attempt, its
\* last, and unhealthy only when all retries + 1 attempts have failed; the
\* attempt counters agree with the result (retry.go:15-36, and the deferred
\* RecordCheckAttempt of each executeOnce).
RetryContract ==
    \A e \in Execs :
        LET most == Retries[CheckOf[e]] + 1
        IN  (CheckOf[e] \notin KafkaChecks /\ pc[e] \in {"up"} \cup Published)
            => /\ passed[e] + failed[e] = attempt[e]
               /\ attempt[e] <= most
               /\ passed[e] = IF healthy[e] THEN 1 ELSE 0
               /\ ~healthy[e] => attempt[e] = most

\* The gauge of a check shows the outcome of an execution that none has
\* superseded: of two executions that overlap either may publish last, and
\* the older one may win, but never does an outcome outlive one of an
\* execution that was fired after it had been published. A panicked execution
\* takes no part. A check none of whose executions has published has no gauge;
\* what registration announces for a Kafka check is not judged here
\* (scheduler.go:64-68 and 176-178).
GaugeIsCurrent ==
    \A c \in Checks :
        LET published == PublishedOf(c)
        IN  /\ published # {} =>
                 \E d \in published :
                    /\ checkUp[c] = GaugeValue(healthy[d])
                    /\ \A e \in published : d \notin before[e]
            /\ (published = {} /\ c \notin KafkaChecks) => checkUp[c] = "absent"

\* Exactly the finished executions of checks that opted in reach the history,
\* a panicked or unfinished one never does (scheduler.go:180-182).
HistoryMatchesOptIn ==
    \A e \in Execs :
        /\ e \in recorded => /\ ShouldRecord(CheckOf[e])
                             /\ pc[e] \in {"notify", "hooks", "done"}
        /\ (pc[e] = "done" /\ ShouldRecord(CheckOf[e])) => e \in recorded

\* Only hooks of the list that matches the final result run, and each of them
\* has an outcome before the job ends, whatever the others do
\* (scheduler.go:202-216, hooks.go:46-73).
HooksMatchResult ==
    \A e \in Execs : \A h \in Hooks :
        /\ hook[e][h] # "none" =>
              h \in HookList(e) /\ pc[e] \in {"hooks", "done"}
        /\ pc[e] = "done" /\ h \in HookList(e) => hook[e][h] \in HookEnded

\* A hook whose template renders is sent when the execution ends within its
\* timeout; a Kafka hook is handed to the publisher even later.
HooksAttemptedInTime ==
    \A e \in Execs : \A h \in HookList(e) \ BrokenHooks :
        (pc[e] = "done" /\ (~expired[e] \/ h \in KafkaHooks))
        => hook[e][h] # "refused"

\* Checkers are cleaned up and the notifier is closed only when no job and no
\* hook goroutine runs, and none runs afterwards: a late publish would reopen
\* a writer in the closed pool (scheduler.go:131-138, kafka.go:304-317).
QuietAfterStop ==
    /\ phase \in {"drained", "cleaned", "closed"} =>
          \A e \in Execs : /\ pc[e] \notin Live
                           /\ \A h \in Hooks :
                                hook[e][h] \notin {"spawned", "sending"}
    /\ phase = "closed" => writers = {} /\ consumers = {}

\* Every execution that starts ends: retries, sleeps and hooks are bounded.
EveryExecutionEnds == \A e \in Execs : pc[e] \in Live ~> pc[e] \in Ended

\* Stop returns, however many jobs are under way when it is called.
StopReturns == phase = "cancelled" ~> phase = "closed"

-----------------------------------------------------------------------------
(* Refinement. *)

\* The steps of Execution that an execution has taken when it is at a place.
Stage(place) ==
    CASE place \in {"attempt", "calling", "sleep", "up"} -> "running"
      [] place = "history"  -> "published"
      [] place = "notify"   -> "reported"
      [] place = "hooks"    -> "told"
      [] place = "done"     -> "ended"
      [] place = "panicked" -> "crashed"
      [] OTHER              -> "idle"

Outcome(e) == IF pc[e] \in Published THEN GaugeValue(healthy[e]) ELSE "none"

E == INSTANCE Execution WITH
        Opted   <- {c \in Checks : ShouldRecord(c)},
        stage   <- [e \in Execs |-> Stage(pc[e])],
        outcome <- [e \in Execs |-> Outcome(e)],
        gauge   <- checkUp,
        history <- recorded,
        told    <- [e \in Execs |-> {h \in Hooks : hook[e][h] # "none"}]

\* Retries, pauses, timeouts, the hooks' own progress, overlapping executions
\* and the steps of Stop are invisible from outside: gauge, history and hooks
\* see one outcome of an execution, in this order, and nothing of one that
\* panicked (scheduler.go:170-217).
ImplementsExecution == E!Spec

-----------------------------------------------------------------------------
(* What the documents promise and the code does not keep; see the README. *)

\* specs/005-hooks: an unhealthy result makes the failure hooks send.
FailureHooksSent ==
    \A e \in Execs : \A h \in OnFailure[CheckOf[e]] \ BrokenHooks :
        (pc[e] = "done" /\ ~healthy[e]) => hook[e][h] # "refused"

\* specs/001-http-check: once the timeout has expired mid-retry, remaining
\* retries are not attempted.
NoRetryAfterTimeout ==
    [][\A e \in Execs : expired[e] => attempt'[e] = attempt[e]]_vars
=============================================================================
