----------------------------- MODULE DaemonProofs -----------------------------
(***************************************************************************)
(* Proofs about the composition in Daemon, for any checks, hooks, number   *)
(* of executions and channel capacity: the daemon uses scheduler and       *)
(* recorder only in ways that Scheduler and Recorder allow, so what is     *)
(* proved there holds here; a finished execution crosses from one to the   *)
(* other exactly once; and main's order of the shutdown closes the gap     *)
(* that Recorder leaves open, a send on the closed channel.                *)
(***************************************************************************)
EXTENDS Daemon, TLAPS

P  == INSTANCE RecorderProofs WITH Jobs <- S!Execs, NoJob <- 0
SP == INSTANCE SchedulerProofs

-----------------------------------------------------------------------------
(* The daemon's recorder is a Recorder. *)

\* The assumptions that Recorder makes about its constants.
LEMMA RecorderAssumed ==
    Capacity \in Nat \ {0} /\ 0 \notin S!Execs
BY DaemonAssumption DEF S!Execs

\* A step of the recorder in Daemon is one of Recorder.
LEMMA SameSteps ==
    /\ \A j \in S!Execs : R!Record(j) => P!Record(j)
    /\ R!ConsumerStep => P!ConsumerStep
    /\ R!Cancel => P!Cancel
    /\ R!StopClose => P!StopClose
    /\ R!StopReturn => P!StopReturn
<1> USE DEF R!channel, R!consumer, R!outcome, R!offered,
            P!channel, P!consumer, P!outcome, P!offered
<1>1. \A j \in S!Execs : R!Record(j) => P!Record(j)
    BY DEF R!Record, R!Seen, R!Enqueue, R!DropFull, R!SendPanic,
           P!Record, P!Seen, P!Enqueue, P!DropFull, P!SendPanic
<1>2. R!ConsumerStep => P!ConsumerStep
    <2>1. /\ R!Receive => P!Receive
          /\ R!DrainReceive => P!DrainReceive
        BY DEF R!Receive, R!DrainReceive, R!Take,
               P!Receive, P!DrainReceive, P!Take
    <2>2. /\ R!ReceiveClosed => P!ReceiveClosed
          /\ R!CtxDone => P!CtxDone
          /\ R!DrainEnd => P!DrainEnd
        BY DEF R!ReceiveClosed, R!CtxDone, R!DrainEnd, R!Goto,
               P!ReceiveClosed, P!CtxDone, P!DrainEnd, P!Goto
    <2>3. \A ok \in BOOLEAN : R!WriteJob(ok) => P!WriteJob(ok)
        BY DEF R!WriteJob, R!Writing, P!WriteJob, P!Writing
    <2>4. /\ R!CloseStore => P!CloseStore
          /\ R!SignalDone => P!SignalDone
        BY DEF R!CloseStore, R!SignalDone, P!CloseStore, P!SignalDone
    <2> QED BY <2>1, <2>2, <2>3, <2>4 DEF R!ConsumerStep, P!ConsumerStep
<1>3. (R!Cancel => P!Cancel) /\ (R!StopClose => P!StopClose)
    BY DEF R!Cancel, R!StopClose, P!Cancel, P!StopClose
<1>4. R!StopReturn => P!StopReturn
    BY DEF R!StopReturn, R!StopDone, R!StopTimeout,
           P!StopReturn, P!StopDone, P!StopTimeout
<1> QED BY <1>1, <1>2, <1>3, <1>4

\* Whatever main, the jobs and the signal do, the recorder sees an allowed
\* sequence of Record, Cancel and Stop (main.go:59-76, 91-92).
THEOREM DrivesRecorder == Spec => P!Spec
<1>1. Init => P!Init
    BY DEF Init, R!Init, P!Init
<1>2. [Next]_vars => [P!Next]_(P!vars)
    <2> SUFFICES ASSUME [Next]_vars PROVE P!Next \/ UNCHANGED recorderVars
        BY DEF recorderVars, P!vars
    <2>1. CASE \E c \in Checks : Register(c)
        BY <2>1 DEF Register
    <2>2. CASE StartupFailure \/ WireHistory \/ StartScheduler \/ Signal \/ Return
        BY <2>2 DEF StartupFailure, WireHistory, StartScheduler, Signal, Return
    <2>3. CASE HttpCancel
        BY <2>3, SameSteps DEF HttpCancel, P!Next
    <2>4. CASE StopScheduler
        BY <2>4 DEF StopScheduler
    <2>5. CASE StopRecorder
        BY <2>5, SameSteps DEF StopRecorder, P!Next
    <2>6. ASSUME NEW e \in S!Execs, Fire(e) \/ Execute(e)
          PROVE  UNCHANGED recorderVars
        BY <2>6 DEF Fire, Execute
    <2>7. ASSUME NEW e \in S!Execs, RecordHistory(e)
          PROVE  P!Next \/ UNCHANGED recorderVars
        BY <2>7, SameSteps DEF RecordHistory, P!Next
    <2>8. CASE ConsumeHistory
        BY <2>8, SameSteps DEF ConsumeHistory, P!Next
    <2>9. CASE Gone \/ UNCHANGED vars
        BY <2>9 DEF Gone, vars
    <2> QED BY <2>1, <2>2, <2>3, <2>4, <2>5, <2>6, <2>7, <2>8, <2>9
            DEF Next, MainStep
<1> QED BY <1>1, <1>2, PTL DEF Spec, P!Spec

-----------------------------------------------------------------------------
(* The daemon's scheduler is a Scheduler. *)

\* A step of main on the scheduler in Daemon is one of Scheduler.
LEMMA SameStop ==
    /\ \A c \in Checks : S!AddHealthCheck(c) => SP!AddHealthCheck(c)
    /\ S!Start => SP!Start
    /\ S!RootCancel => SP!RootCancel
    /\ S!StopStep => SP!StopStep
<1> USE DEF S!control, S!run, S!effects, SP!control, SP!run, SP!effects
<1>1. \A c \in Checks : S!AddHealthCheck(c) => SP!AddHealthCheck(c)
    BY DEF S!AddHealthCheck, SP!AddHealthCheck, S!GaugeValue, SP!GaugeValue
<1>2. /\ S!Start => SP!Start
      /\ S!RootCancel => SP!RootCancel
    BY DEF S!Start, SP!Start, S!RootCancel, SP!RootCancel
<1>3. /\ S!CronStop => SP!CronStop
      /\ S!Cleanup => SP!Cleanup
      /\ S!CloseNotifier => SP!CloseNotifier
    BY DEF S!CronStop, SP!CronStop, S!Cleanup, SP!Cleanup,
           S!CloseNotifier, SP!CloseNotifier
<1>4. S!AwaitJobs => SP!AwaitJobs
    BY DEF S!AwaitJobs, SP!AwaitJobs, S!JobsDrained, SP!JobsDrained,
           S!Execs, SP!Execs, S!Live, SP!Live
<1> QED BY <1>1, <1>2, <1>3, <1>4 DEF S!StopStep, SP!StopStep

\* A step of an execution in Daemon is one of Scheduler.
LEMMA SameJobs ==
    ASSUME NEW e \in S!Execs
    PROVE  /\ e \in SP!Execs
           /\ S!Tick(e) => SP!Tick(e)
           /\ S!Timeout(e) => SP!Timeout(e)
           /\ S!CheckStep(e) => SP!CheckStep(e)
           /\ S!RecordHistory(e) => SP!RecordHistory(e)
           /\ S!NotifyStep(e) => SP!NotifyStep(e)
<1> USE DEF S!control, S!run, S!effects, SP!control, SP!run, SP!effects
<1>1. e \in SP!Execs /\ S!Execs = SP!Execs /\ S!Live = SP!Live
    BY DEF S!Execs, SP!Execs, S!Live, SP!Live
<1>2. /\ S!Tick(e) => SP!Tick(e)
      /\ S!Timeout(e) => SP!Timeout(e)
    <2>1. \A c : S!PublishedOf(c) = SP!PublishedOf(c)
        BY <1>1 DEF S!PublishedOf, SP!PublishedOf, S!Published, SP!Published
    <2> QED BY <1>1, <2>1 DEF S!Tick, SP!Tick, S!Timeout, SP!Timeout
<1>3. S!CheckStep(e) => SP!CheckStep(e)
    <2>1. \A ok \in BOOLEAN : S!EndAttempt(e, ok) => SP!EndAttempt(e, ok)
        BY DEF S!EndAttempt, SP!EndAttempt
    <2>2. /\ S!AttemptRefused(e) => SP!AttemptRefused(e)
          /\ \A ok \in BOOLEAN : S!AttemptEnd(e, ok) => SP!AttemptEnd(e, ok)
        BY <2>1 DEF S!AttemptRefused, SP!AttemptRefused,
                    S!AttemptEnd, SP!AttemptEnd
    <2>3. /\ S!AttemptBegin(e) => SP!AttemptBegin(e)
          /\ S!AttemptPanic(e) => SP!AttemptPanic(e)
          /\ S!Wake(e) => SP!Wake(e)
        BY DEF S!AttemptBegin, SP!AttemptBegin, S!AttemptPanic,
               SP!AttemptPanic, S!Wake, SP!Wake
    <2>4. /\ \A ok \in BOOLEAN : S!KafkaExecute(e, ok) => SP!KafkaExecute(e, ok)
          /\ S!KafkaPanic(e) => SP!KafkaPanic(e)
        BY DEF S!KafkaExecute, SP!KafkaExecute, S!KafkaPanic, SP!KafkaPanic
    <2>5. S!RecordCheckUp(e) => SP!RecordCheckUp(e)
        BY DEF S!RecordCheckUp, SP!RecordCheckUp, S!GaugeValue, SP!GaugeValue
    <2> QED BY <2>2, <2>3, <2>4, <2>5 DEF S!CheckStep, SP!CheckStep
<1>4. S!RecordHistory(e) => SP!RecordHistory(e)
    BY DEF S!RecordHistory, SP!RecordHistory, S!ShouldRecord, SP!ShouldRecord
<1>5. S!NotifyStep(e) => SP!NotifyStep(e)
    <2>1. S!HookList(e) = SP!HookList(e) /\ S!HookEnded = SP!HookEnded
        BY DEF S!HookList, SP!HookList, S!HookEnded, SP!HookEnded
    <2>2. /\ S!Notify(e) => SP!Notify(e)
          /\ S!JoinHooks(e) => SP!JoinHooks(e)
        BY <2>1 DEF S!Notify, SP!Notify, S!JoinHooks, SP!JoinHooks
    <2>3. \A h \in Hooks : S!HookStep(e, h) => SP!HookStep(e, h)
        BY DEF S!HookStep, SP!HookStep, S!HookRefused, SP!HookRefused,
               S!HookSend, SP!HookSend, S!HookEnd, SP!HookEnd,
               S!Pooled, SP!Pooled
    <2> QED BY <2>2, <2>3 DEF S!NotifyStep, SP!NotifyStep
<1> QED BY <1>1, <1>2, <1>3, <1>4, <1>5

\* Whatever main does with the recorder and the store, the scheduler sees an
\* allowed sequence of registrations, Start and Stop, and its jobs and hooks
\* run as they would without a daemon (main.go:45-66, 83-92).
THEOREM DrivesScheduler == Spec => SP!Spec
<1>1. Init => SP!Init
    BY DEF Init, S!Init, SP!Init, S!Execs, SP!Execs
<1>2. [Next]_vars => [SP!Next]_(SP!vars)
    <2> SUFFICES ASSUME [Next]_vars PROVE SP!Next \/ UNCHANGED schedulerVars
        BY DEF schedulerVars, SP!vars
    <2>1. CASE \E c \in Checks : Register(c)
        BY <2>1, SameStop DEF Register, SP!Next
    <2>2. CASE StartupFailure \/ WireHistory \/ Signal \/ Return
        BY <2>2 DEF StartupFailure, WireHistory, Signal, Return
    <2>3. CASE StartScheduler
        BY <2>3, SameStop DEF StartScheduler, SP!Next
    <2>4. CASE StopScheduler
        BY <2>4, SameStop DEF StopScheduler, SP!Next
    <2>5. CASE HttpCancel \/ StopRecorder \/ ConsumeHistory
        BY <2>5 DEF HttpCancel, StopRecorder, ConsumeHistory
    <2>6. ASSUME NEW e \in S!Execs, Fire(e) \/ Execute(e) \/ RecordHistory(e)
          PROVE  SP!Next
        BY <2>6, SameJobs
        DEF Fire, Execute, RecordHistory, SP!Next, SP!JobStep
    <2>7. CASE Gone \/ UNCHANGED vars
        BY <2>7 DEF Gone, vars
    <2> QED BY <2>1, <2>2, <2>3, <2>4, <2>5, <2>6, <2>7 DEF Next, MainStep
<1> QED BY <1>1, <1>2, PTL DEF Spec, SP!Spec

\* In the daemon too, what the outside sees of an execution is what Execution
\* promises, and what becomes of the records is what HistoryLog does.
THEOREM KeepsBothPromises == Spec => SP!ImplementsExecution /\ P!Log!LogSafety
<1>1. SP!Spec => SP!ImplementsExecution
    BY DaemonAssumption, SP!RefinesExecution DEF S!Execs, SP!Execs
<1>2. P!Spec => P!Log!LogSafety
    BY RecorderAssumed, P!ImplementsLogSafety
<1> QED BY <1>1, <1>2, DrivesScheduler, DrivesRecorder

-----------------------------------------------------------------------------
(* The step that scheduler and recorder share. *)

\* The executions that the scheduler counts as recorded are those that the
\* recorder has seen.
HandedOn == \A e \in S!Execs : e \in recorded <=> R!Seen(e)

\* All but RecordHistory leave both sides of the step alone.
LEMMA OthersHandNothingOn ==
    ASSUME [Next]_vars, \A e \in S!Execs : ~RecordHistory(e)
    PROVE  UNCHANGED <<recorded, accepted, dropped, panicked>>
<1> USE DEF schedulerVars, recorderVars
<1>1. CASE \E c \in Checks : Register(c)
    BY <1>1 DEF Register, S!AddHealthCheck
<1>2. CASE StartupFailure \/ WireHistory \/ Signal \/ Return \/ Gone
           \/ UNCHANGED vars
    BY <1>2 DEF StartupFailure, WireHistory, Signal, Return, Gone, vars
<1>3. CASE StartScheduler \/ StopScheduler
    BY <1>3 DEF StartScheduler, S!Start, StopScheduler, S!RootCancel,
                S!StopStep, S!CronStop, S!AwaitJobs, S!Cleanup,
                S!CloseNotifier, S!effects
<1>4. CASE HttpCancel \/ StopRecorder
    BY <1>4 DEF HttpCancel, R!Cancel, StopRecorder, R!StopClose, R!StopReturn,
                R!StopDone, R!StopTimeout, R!offered
<1>5. CASE ConsumeHistory
    BY <1>5 DEF ConsumeHistory, R!ConsumerStep, R!Receive, R!DrainReceive,
                R!Take, R!ReceiveClosed, R!CtxDone, R!DrainEnd, R!Goto,
                R!WriteJob, R!CloseStore, R!SignalDone, R!offered
<1>6. ASSUME NEW e \in S!Execs, Fire(e) \/ Execute(e)
      PROVE  UNCHANGED <<recorded, accepted, dropped, panicked>>
    <2>1. UNCHANGED recorderVars
        BY <1>6 DEF Fire, Execute
    <2>2. CASE Fire(e)
        BY <2>1, <2>2 DEF Fire, S!Tick, S!Timeout, S!effects
    <2>3. CASE S!CheckStep(e)
        BY <2>1, <2>3 DEF S!CheckStep, S!AttemptRefused, S!AttemptBegin,
                    S!AttemptEnd, S!EndAttempt, S!AttemptPanic, S!Wake,
                    S!KafkaExecute, S!KafkaPanic, S!RecordCheckUp, S!effects
    <2>4. CASE S!NotifyStep(e)
        BY <2>1, <2>4 DEF S!NotifyStep, S!Notify, S!JoinHooks, S!HookStep,
                    S!HookRefused, S!HookSend, S!HookEnd, S!effects
    <2> QED BY <1>6, <2>2, <2>3, <2>4 DEF Execute
<1> QED BY <1>1, <1>2, <1>3, <1>4, <1>5, <1>6 DEF Next, MainStep

LEMMA HandedOnHolds == Spec => []HandedOn
<1>1. Init => HandedOn
    BY DEF Init, S!Init, R!Init, HandedOn, R!Seen
<1>2. P!TypeOK /\ HandedOn /\ [Next]_vars => HandedOn'
    <2> SUFFICES ASSUME P!TypeOK, HandedOn, [Next]_vars, NEW d \in S!Execs
                 PROVE  d \in recorded' <=> R!Seen(d)'
        BY DEF HandedOn
    <2>1. ASSUME NEW e \in S!Execs, RecordHistory(e)
          PROVE  d \in recorded' <=> R!Seen(d)'
        <3>1. CASE ~S!ShouldRecord(CheckOf[e])
            BY <2>1, <3>1 DEF RecordHistory, S!RecordHistory, recorderVars,
                              HandedOn, R!Seen
        <3>2. CASE S!ShouldRecord(CheckOf[e])
            <4>1. recorded' = recorded \cup {e} /\ R!Record(e)
                BY <2>1, <3>2 DEF RecordHistory, S!RecordHistory
            <4>2. R!Seen(d)' <=> R!Seen(d) \/ d = e
                <5>1. CASE R!Enqueue(e)
                    <6>1. accepted \in Seq(S!Execs)
                        BY DEF P!TypeOK
                    <6>2. accepted' = Append(accepted, e)
                        BY <5>1 DEF R!Enqueue
                    <6>3. (\E i \in DOMAIN accepted' : accepted'[i] = d)
                            <=> (\E i \in DOMAIN accepted : accepted[i] = d)
                                \/ d = e
                        BY <6>1, <6>2
                    <6> QED BY <5>1, <6>3 DEF R!Enqueue, R!Seen
                <5>2. CASE R!DropFull(e) \/ R!SendPanic(e)
                    BY <5>2 DEF R!DropFull, R!SendPanic, R!Seen
                <5> QED BY <4>1, <5>1, <5>2 DEF R!Record
            <4> QED BY <4>1, <4>2 DEF HandedOn
        <3> QED BY <3>1, <3>2
    <2>2. CASE \A e \in S!Execs : ~RecordHistory(e)
        BY <2>2, OthersHandNothingOn DEF HandedOn, R!Seen
    <2> QED BY <2>1, <2>2
<1>3. P!Spec => []P!TypeOK
    BY RecorderAssumed, P!TypeCorrect
<1> QED BY <1>1, <1>2, <1>3, DrivesRecorder, PTL DEF Spec

\* The recorder has seen an execution exactly if it has finished as one that is
\* to be recorded: Record is called once for it, and is never kept waiting by
\* an earlier call (scheduler.go:180-182, recorder.go:43-55).
HandedOnce ==
    \A e \in S!Execs :
        /\ pc[e] = "history" => ~R!Seen(e)
        /\ pc[e] = "done" => (R!Seen(e) <=> S!ShouldRecord(CheckOf[e]))

\* Every result that is to be recorded meets the recorder once, whatever the
\* shutdown and the other executions do meanwhile.
THEOREM RecordsOnce == Spec => []HandedOnce
<1>1. SP!Spec => []SP!HistoryMatchesOptIn
    BY DaemonAssumption, SP!HistoryFollowsOptIn DEF S!Execs, SP!Execs
<1>2. SP!HistoryMatchesOptIn /\ HandedOn => HandedOnce
    BY DEF SP!HistoryMatchesOptIn, HandedOn, HandedOnce, S!Execs, SP!Execs,
           S!ShouldRecord, SP!ShouldRecord
<1> QED BY <1>1, <1>2, DrivesScheduler, HandedOnHolds, PTL

-----------------------------------------------------------------------------
(* The order of the shutdown. *)

JobStates == S!Live \cup S!Ended \cup {"idle"}

\* Stop closes the channel only after main has seen the scheduler closed, and
\* from the end of the drain on no job is under way.
ShutdownOrder ==
    /\ pc \in [S!Execs -> JobStates]
    /\ phase \in {"drained", "cleaned", "closed"} =>
         \A e \in S!Execs : pc[e] \notin S!Live
    /\ mainPc \in {"returning", "returned"} => phase = "closed"
    /\ chClosed => mainPc \in {"returning", "returned"}
    /\ panicked = {}

\* Execution e moves to another place, or none does; only cron starts one,
\* and only before the drain.
OneMoves(e) ==
    \/ pc' = pc
    \/ \E to \in JobStates :
          /\ pc' = [pc EXCEPT ![e] = to]
          /\ pc[e] \in S!Live \/ phase \in {"running", "cancelled"}

\* cron fires e, or its timeout expires.
LEMMA TickMoves ==
    ASSUME NEW e \in S!Execs, S!Tick(e) \/ S!Timeout(e)
    PROVE  phase' = phase /\ OneMoves(e)
BY DEF S!Tick, S!Timeout, S!control, S!Live, OneMoves, JobStates

\* A job is under way at each of its steps; a hook leaves pc alone.
LEMMA ExecuteMoves ==
    ASSUME NEW e \in S!Execs, S!CheckStep(e) \/ S!NotifyStep(e)
    PROVE  phase' = phase /\ OneMoves(e)
<1> USE DEF S!control, S!Live, S!Ended, OneMoves, JobStates
<1>1. ASSUME NEW ok \in BOOLEAN, S!EndAttempt(e, ok),
             pc[e] \in {"attempt", "calling"}
      PROVE  phase' = phase /\ OneMoves(e)
    BY <1>1 DEF S!EndAttempt
<1>2. CASE S!CheckStep(e)
    <2>1. CASE S!AttemptRefused(e) \/ \E ok \in BOOLEAN : S!AttemptEnd(e, ok)
        BY <1>1, <2>1 DEF S!AttemptRefused, S!AttemptEnd
    <2>2. CASE S!AttemptBegin(e) \/ S!AttemptPanic(e) \/ S!Wake(e)
        BY <2>2 DEF S!AttemptBegin, S!AttemptPanic, S!Wake
    <2>3. CASE \/ \E ok \in BOOLEAN : S!KafkaExecute(e, ok)
               \/ S!KafkaPanic(e) \/ S!RecordCheckUp(e)
        BY <2>3 DEF S!KafkaExecute, S!KafkaPanic, S!RecordCheckUp
    <2> QED BY <1>2, <2>1, <2>2, <2>3 DEF S!CheckStep
<1>3. CASE S!NotifyStep(e)
    <2>1. CASE S!Notify(e) \/ S!JoinHooks(e)
        BY <2>1 DEF S!Notify, S!JoinHooks
    <2>2. ASSUME NEW h \in Hooks, S!HookStep(e, h)
          PROVE  phase' = phase /\ pc' = pc
        BY <2>2 DEF S!HookStep, S!HookRefused, S!HookSend, S!HookEnd, S!run
    <2> QED BY <1>3, <2>1, <2>2 DEF S!NotifyStep
<1> QED BY <1>2, <1>3

\* Such a move leaves a drained scheduler alone.
LEMMA MoveKeepsQuiet ==
    ASSUME ShutdownOrder, NEW e \in S!Execs, OneMoves(e), phase' = phase,
           mainPc' = mainPc, chClosed' = chClosed, panicked' = panicked
    PROVE  ShutdownOrder'
<1>1. pc' \in [S!Execs -> JobStates]
    BY DEF ShutdownOrder, OneMoves
<1>2. ASSUME phase \in {"drained", "cleaned", "closed"}
      PROVE  pc' = pc
    BY <1>2 DEF ShutdownOrder, OneMoves
<1> QED BY <1>1, <1>2 DEF ShutdownOrder

\* main takes no turn that breaks the order, and no job starts once the
\* scheduler has been drained.
LEMMA ShutdownOrderHolds == Spec => []ShutdownOrder
<1>1. Init => ShutdownOrder
    BY DEF Init, S!Init, R!Init, ShutdownOrder, JobStates
<1>2. ShutdownOrder /\ [Next]_vars => ShutdownOrder'
    <2> SUFFICES ASSUME ShutdownOrder, [Next]_vars PROVE ShutdownOrder'
        OBVIOUS
    <2> USE DEF ShutdownOrder
    <2>1. CASE \E c \in Checks : Register(c)
        BY <2>1 DEF Register, S!AddHealthCheck, S!run, recorderVars, JobStates
    <2>2. CASE StartupFailure \/ WireHistory \/ Signal \/ Gone \/ UNCHANGED vars
        BY <2>2 DEF StartupFailure, WireHistory, Signal, Gone, vars,
                    schedulerVars, recorderVars
    <2>3. CASE StartScheduler
        BY <2>3 DEF StartScheduler, S!Start, S!run, recorderVars
    <2>4. CASE HttpCancel
        BY <2>4 DEF HttpCancel, R!Cancel, R!channel, R!offered, schedulerVars
    <2>5. CASE StopScheduler
        <3>1. pc' = pc /\ chClosed' = chClosed /\ panicked' = panicked
            BY <2>5 DEF StopScheduler, S!RootCancel, S!StopStep, S!CronStop,
                        S!AwaitJobs, S!Cleanup, S!CloseNotifier, S!run,
                        recorderVars
        <3>2. /\ mainPc = "stopping" /\ ~chClosed
              /\ mainPc' \in {"stopping", "returning"}
              /\ mainPc' = "returning" => phase' = "closed"
            BY <2>5 DEF StopScheduler
        <3>3. phase' \in {"drained", "cleaned", "closed"} =>
                 \A e \in S!Execs : pc[e] \notin S!Live
            BY <2>5 DEF StopScheduler, S!RootCancel, S!StopStep, S!CronStop,
                        S!AwaitJobs, S!JobsDrained, S!Cleanup,
                        S!CloseNotifier
        <3> QED BY <3>1, <3>2, <3>3
    <2>6. CASE StopRecorder
        BY <2>6 DEF StopRecorder, R!StopClose, R!StopReturn, R!StopDone,
                    R!StopTimeout, R!channel, R!offered, schedulerVars
    <2>7. CASE Return
        BY <2>7 DEF Return, schedulerVars, recorderVars
    <2>8. ASSUME NEW e \in S!Execs, Fire(e) \/ Execute(e) PROVE ShutdownOrder'
        <3>1. /\ mainPc' = mainPc /\ chClosed' = chClosed
              /\ panicked' = panicked
            BY <2>8 DEF Fire, Execute, recorderVars
        <3>2. phase' = phase /\ OneMoves(e)
            BY <2>8, TickMoves, ExecuteMoves DEF Fire, Execute
        <3> QED BY <3>1, <3>2, MoveKeepsQuiet
    <2>9. ASSUME NEW e \in S!Execs, RecordHistory(e) PROVE ShutdownOrder'
        <3>1. pc[e] = "history" /\ pc' = [pc EXCEPT ![e] = "notify"]
            BY <2>9 DEF RecordHistory, S!RecordHistory
        <3>2. pc[e] \in S!Live /\ "notify" \in JobStates
            BY <3>1 DEF S!Live, JobStates
        <3>3. OneMoves(e) /\ phase' = phase
            BY <2>9, <3>1, <3>2
            DEF OneMoves, RecordHistory, S!RecordHistory, S!control
        <3>4. phase \notin {"drained", "cleaned", "closed"}
            BY <3>2
        <3>5. ~chClosed
            BY <3>4
        <3>6. chClosed' = chClosed /\ panicked' = panicked /\ mainPc' = mainPc
            BY <2>9, <3>5 DEF RecordHistory, R!Record, R!Enqueue, R!DropFull,
                              R!SendPanic, recorderVars
        <3> QED BY <3>3, <3>6, MoveKeepsQuiet
    <2>10. CASE ConsumeHistory
        BY <2>10 DEF ConsumeHistory, R!ConsumerStep, R!Receive, R!DrainReceive,
                    R!Take, R!ReceiveClosed, R!CtxDone, R!DrainEnd, R!Goto,
                    R!WriteJob, R!CloseStore, R!SignalDone, R!channel,
                    R!offered, schedulerVars
    <2> QED BY <2>1, <2>2, <2>3, <2>4, <2>5, <2>6, <2>7, <2>8, <2>9, <2>10
            DEF Next, MainStep
<1> QED BY <1>1, <1>2, PTL DEF Spec

\* No job meets the closed channel.
THEOREM ChannelIsSafe == Spec => []NeverSendsOnClosed
<1>1. ShutdownOrder => NeverSendsOnClosed
    BY DEF ShutdownOrder, NeverSendsOnClosed
<1> QED BY <1>1, ShutdownOrderHolds, PTL

\* What the scheduler leaves when main returns: no job and no hook under way, no
\* writer in the pool, no consumer with a live context. Stop cancels the
\* consumers' goroutines and does not join them: they may still be on their way
\* out (main.go:91-93, scheduler.go:126-138).
NothingLeft ==
    mainPc \in {"returning", "returned"} =>
        /\ \A e \in S!Execs :
             /\ pc[e] \notin S!Live
             /\ \A h \in Hooks : hook[e][h] \notin {"spawned", "sending"}
        /\ writers = {}
        /\ consumers = {}

\* When main begins to return no job and no hook runs, the pool is empty and the
\* context of every Kafka consumer is cancelled.
THEOREM ReturnsQuietly == Spec => []NothingLeft
<1>1. SP!Spec => []SP!QuietAfterStop
    BY DaemonAssumption, SP!TeardownIsQuiet DEF S!Execs, SP!Execs
<1>2. SP!QuietAfterStop /\ ShutdownOrder => NothingLeft
    BY DEF SP!QuietAfterStop, ShutdownOrder, NothingLeft, S!Execs, SP!Execs,
           S!Live, SP!Live
<1> QED BY <1>1, <1>2, DrivesScheduler, ShutdownOrderHolds, PTL

-----------------------------------------------------------------------------
(* What was recorded before the signal. *)

\* The recorder is cancelled before main begins to return.
Cancelled == mainPc \in {"stopping", "returning", "returned"} => cancelled

LEMMA CancelledHolds == Spec => []Cancelled
<1>1. Init => Cancelled
    BY DEF Init, Cancelled
<1>2. Cancelled /\ [Next]_vars => Cancelled'
    <2> SUFFICES ASSUME Cancelled, [Next]_vars PROVE Cancelled'
        OBVIOUS
    <2>1. CASE MainStep
        BY <2>1 DEF MainStep, Register, WireHistory, StartScheduler,
                    HttpCancel, StopScheduler, StopRecorder, Return,
                    recorderVars, R!Cancel, R!StopClose, R!StopReturn,
                    R!StopDone, R!StopTimeout, Cancelled
    <2>2. CASE StartupFailure \/ Signal \/ Gone \/ UNCHANGED vars
        BY <2>2 DEF StartupFailure, Signal, Gone, vars, recorderVars, Cancelled
    <2>3. ASSUME NEW e \in S!Execs, Fire(e) \/ Execute(e) \/ RecordHistory(e)
          PROVE  Cancelled'
        BY <2>3 DEF Fire, Execute, RecordHistory, R!Record, recorderVars,
                    Cancelled
    <2>4. CASE ConsumeHistory
        BY <2>4 DEF ConsumeHistory, R!ConsumerStep, R!Receive, R!DrainReceive,
                    R!Take, R!ReceiveClosed, R!CtxDone, R!DrainEnd, R!Goto,
                    R!WriteJob, R!CloseStore, R!SignalDone, Cancelled
    <2> QED BY <2>1, <2>2, <2>3, <2>4 DEF Next
<1> QED BY <1>1, <1>2, PTL DEF Spec

\* An execution whose record main leaves behind, neither stored nor logged as
\* lost, was accepted after the shutdown began, unless Stop has timed out.
THEOREM KeepsWhatCameBefore == Spec => []RecordedBeforeSignalKept
<1>1. P!Spec => [](P!TypeOK /\ P!KeptAtTheEnd)
    BY RecorderAssumed, P!TypeCorrect, P!KeepsWhatWasMarked, PTL
<1>2. /\ P!TypeOK /\ P!KeptAtTheEnd
      /\ SP!TypeOK /\ HandedOn /\ Cancelled /\ ShutdownOrder
      => RecordedBeforeSignalKept
    <2> SUFFICES ASSUME P!TypeOK, P!KeptAtTheEnd, SP!TypeOK, HandedOn,
                        Cancelled, ShutdownOrder,
                        mainPc = "returned", stop = "returned",
                        NEW e \in recorded, ~AccountedFor(e)
                 PROVE  \E i \in DOMAIN accepted : i > mark /\ accepted[i] = e
        BY DEF RecordedBeforeSignalKept
    <2>1. e \in S!Execs
        BY DEF SP!TypeOK, SP!Execs, S!Execs
    <2>2. PICK i \in DOMAIN accepted : accepted[i] = e
        BY <2>1 DEF HandedOn, R!Seen, ShutdownOrder, AccountedFor
    <2>3. i \in Nat \ {0} /\ mark \in Nat
        BY DEF P!TypeOK
    <2>4. i \notin 1 .. mark
        BY <2>2 DEF P!KeptAtTheEnd, Cancelled, AccountedFor
    <2> QED BY <2>2, <2>3, <2>4
<1>3. SP!Spec => []SP!TypeOK
    BY DaemonAssumption, SP!TypeCorrect DEF S!Execs, SP!Execs
<1> QED BY <1>1, <1>2, <1>3, DrivesRecorder, DrivesScheduler, HandedOnHolds,
           CancelledHolds, ShutdownOrderHolds, PTL
=============================================================================
