-------------------------------- MODULE Daemon --------------------------------
(***************************************************************************)
(* The process (cmd/watchdawg/main.go): main registers the checks, opens   *)
(* the history, starts the scheduler, waits for a signal and shuts down in *)
(* the order httpCancel, scheduler.Stop, histRecorder.Stop. Scheduler and  *)
(* Recorder share one step: an execution that is recorded calls Record.    *)
(***************************************************************************)
EXTENDS Naturals, Sequences

CONSTANTS Checks, KafkaChecks, MaxExecs, CheckOf, Retries, Hooks, KafkaHooks,
          DestOf, BrokenHooks, OnSuccess, OnFailure, HistoryOn, RecordAll,
          RecordFlag, Capacity

VARIABLES phase, scheduled, consumers, pc, attempt, expired, healthy, passed,
          failed, checkUp, recorded, hook, writers, before

VARIABLES ch, chClosed, cancelled, cpc, job, storeOpen, done, stop, written,
          spoiled, dropped, panicked, accepted, handled, mark

VARIABLE mainPc  \* where the goroutine of main is; the deferred
                 \* histRecorder.Stop runs in "returning"

S == INSTANCE Scheduler
R == INSTANCE Recorder WITH Jobs <- S!Execs, NoJob <- 0

ASSUME DaemonAssumption ==
    /\ S!ChecksAssumption
    /\ S!HooksAssumption
    /\ Capacity \in Nat \ {0}

schedulerVars == <<phase, scheduled, consumers, pc, attempt, expired, healthy,
                   passed, failed, checkUp, recorded, hook, writers,
                   before>>
recorderVars == <<ch, chClosed, cancelled, cpc, job, storeOpen, done, stop,
                  written, spoiled, dropped, panicked, accepted, handled, mark>>
vars == <<schedulerVars, recorderVars, mainPc>>

Exited == mainPc \in {"returned", "failed"}

\* The goroutine of histRecorder.Start runs once main has opened the store.
HistoryUp == HistoryOn /\ mainPc \notin {"adding", "failed"}

Init == S!Init /\ R!Init /\ mainPc = "adding"

-----------------------------------------------------------------------------
(* The goroutine of main. *)

Register(c) ==
    /\ mainPc = "adding"
    /\ S!AddHealthCheck(c)
    /\ UNCHANGED <<recorderVars, mainPc>>

\* A check that cannot be scheduled or a store that does not open:
\* os.Exit(1), with Kafka consumers possibly already running.
StartupFailure ==
    /\ mainPc = "adding"
    /\ scheduled # Checks \/ HistoryOn
    /\ mainPc' = "failed"
    /\ UNCHANGED <<schedulerVars, recorderVars>>

\* The store is open, the recorder attached and its goroutine started.
WireHistory ==
    /\ mainPc = "adding"
    /\ scheduled = Checks
    /\ mainPc' = "wired"
    /\ UNCHANGED <<schedulerVars, recorderVars>>

StartScheduler ==
    /\ mainPc = "wired"
    /\ S!Start
    /\ mainPc' = "serving"
    /\ UNCHANGED recorderVars

\* <-sigChan
Signal ==
    /\ mainPc = "serving"
    /\ mainPc' = "signalled"
    /\ UNCHANGED <<schedulerVars, recorderVars>>

\* httpCancel() ends the HTTP server and the recorder's context alike.
HttpCancel ==
    /\ mainPc = "signalled"
    /\ R!Cancel
    /\ mainPc' = "stopping"
    /\ UNCHANGED schedulerVars

\* scheduler.Stop()
StopScheduler ==
    /\ mainPc = "stopping"
    /\ S!RootCancel \/ S!StopStep
    /\ mainPc' = IF phase' = "closed" THEN "returning" ELSE "stopping"
    /\ UNCHANGED recorderVars

\* Mutant: histRecorder.Stop() is called beside scheduler.Stop().
StopRecorder_Early ==
    /\ mainPc \in {"stopping", "returning"}
    /\ HistoryOn
    /\ R!StopClose \/ R!StopReturn
    /\ UNCHANGED <<schedulerVars, mainPc>>

\* defer histRecorder.Stop(), if there is a recorder.
StopRecorder ==
    /\ mainPc = "returning"
    /\ HistoryOn
    /\ R!StopClose \/ R!StopReturn
    /\ UNCHANGED <<schedulerVars, mainPc>>

\* Mutant: Stop has no timeout, main polls until the recorder is drained.
Return_AwaitsDrain ==
    /\ mainPc = "returning"
    /\ mainPc' = IF HistoryOn => stop = "returned" THEN "returned" ELSE mainPc
    /\ UNCHANGED <<schedulerVars, recorderVars>>

\* run() returns once the deferred Stop has.
Return ==
    /\ mainPc = "returning"
    /\ HistoryOn => stop \in {"returned", "timedOut"}
    /\ mainPc' = "returned"
    /\ UNCHANGED <<schedulerVars, recorderVars>>

-----------------------------------------------------------------------------
(* The other goroutines. They all end with the process. *)

Fire(e) ==
    /\ ~Exited
    /\ S!Tick(e) \/ S!Timeout(e)
    /\ UNCHANGED <<recorderVars, mainPc>>

Execute(e) ==
    /\ ~Exited
    /\ S!CheckStep(e) \/ S!NotifyStep(e)
    /\ UNCHANGED <<recorderVars, mainPc>>

\* s.history.Record(&check, result), when it is called at all.
RecordHistory(e) ==
    /\ ~Exited
    /\ S!RecordHistory(e)
    /\ IF S!ShouldRecord(CheckOf[e]) THEN R!Record(e) ELSE UNCHANGED recorderVars
    /\ UNCHANGED mainPc

ConsumeHistory ==
    /\ ~Exited
    /\ HistoryUp
    /\ R!ConsumerStep
    /\ UNCHANGED <<schedulerVars, mainPc>>

\* The process is gone.
Gone == Exited /\ UNCHANGED vars

-----------------------------------------------------------------------------

MainStep ==
    \/ \E c \in Checks : Register(c)
    \/ WireHistory
    \/ StartScheduler
    \/ HttpCancel
    \/ StopScheduler
    \/ StopRecorder
    \/ Return

Next ==
    \/ MainStep
    \/ StartupFailure
    \/ Signal
    \/ \E e \in S!Execs : Fire(e) \/ Execute(e) \/ RecordHistory(e)
    \/ ConsumeHistory
    \/ Gone

Spec == Init /\ [][Next]_vars

\* Every goroutine that can run does; no signal need ever come.
FairSpec ==
    /\ Spec
    /\ WF_vars(MainStep)
    /\ WF_vars(ConsumeHistory)
    /\ \A e \in S!Execs : WF_vars(Execute(e) \/ RecordHistory(e))

-----------------------------------------------------------------------------

\* The execution's record is in the store, or its loss has been logged.
AccountedFor(e) ==
    \/ \E i \in DOMAIN written : written[i] = e
    \/ e \in spoiled \cup dropped

\* No job sends on the closed channel: Stop has waited for all of them before
\* the deferred histRecorder.Stop closes it (main.go:69, 91-92,
\* scheduler.go:132, recorder.go:87).
NeverSendsOnClosed == panicked = {}

\* When main returns without Stop timing out, every execution that was recorded
\* is in the store or its loss has been logged; the only ones that can be
\* missing are those the recorder accepted after the shutdown signal was acted
\* on (main.go:69, 91-92, recorder.go:59, 77-79, 87-92).
RecordedBeforeSignalKept ==
    (mainPc = "returned" /\ stop = "returned") =>
        \A e \in recorded :
            \/ AccountedFor(e)
            \/ \E i \in DOMAIN accepted : i > mark /\ accepted[i] = e

\* Once the signal arrives, the process ends.
ShutdownTerminates == mainPc = "signalled" ~> mainPc = "returned"

\* recorder.go:21 and 59, specs/007: Stop drains what remains. Every recorded
\* execution would be accounted for when main returns.
HistoryDrainedOnReturn ==
    (mainPc = "returned" /\ stop = "returned") =>
        \A e \in recorded : AccountedFor(e)
=============================================================================
