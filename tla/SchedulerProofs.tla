---------------------------- MODULE SchedulerProofs ---------------------------
(***************************************************************************)
(* Proofs about Scheduler for every configuration, every assignment of     *)
(* executions to checks and every number of executions.                    *)
(***************************************************************************)
EXTENDS Scheduler, TLAPS

-----------------------------------------------------------------------------
(* Types. *)

\* A step of main keeps the types.
LEMMA MainKeepsTypes ==
    ASSUME TypeOK,
           \/ \E c \in Checks : AddHealthCheck(c)
           \/ Start \/ RootCancel \/ StopStep \/ UNCHANGED vars
    PROVE  TypeOK'
<1>1. ASSUME NEW c \in Checks, AddHealthCheck(c) PROVE TypeOK'
    <2>1. consumers' \subseteq KafkaChecks /\ scheduled' \subseteq Checks
        BY <1>1 DEF AddHealthCheck, TypeOK
    <2>2. checkUp' \in [Checks -> {"absent", "up", "down"}]
        BY <1>1 DEF AddHealthCheck, TypeOK, GaugeValue
    <2> QED BY <1>1, <2>1, <2>2 DEF AddHealthCheck, TypeOK, run
<1>2. CASE Start \/ RootCancel
    BY <1>2 DEF Start, RootCancel, TypeOK, Phases, run, effects
<1>3. CASE CronStop \/ AwaitJobs \/ Cleanup
    BY <1>3 DEF CronStop, AwaitJobs, Cleanup, TypeOK, Phases, run, effects
<1>4. CASE CloseNotifier
    BY <1>4 DEF CloseNotifier, TypeOK, Phases, run
<1>5. CASE UNCHANGED vars
    BY <1>5 DEF vars, TypeOK
<1> QED BY <1>1, <1>2, <1>3, <1>4, <1>5 DEF StopStep

\* So does a step of an execution that ends an attempt.
LEMMA EndAttemptKeepsTypes ==
    ASSUME TypeOK, NEW e \in Execs, NEW ok \in BOOLEAN, EndAttempt(e, ok)
    PROVE  TypeOK'
<1>1. /\ passed' \in [Execs -> Nat]
      /\ failed' \in [Execs -> Nat]
    BY DEF EndAttempt, TypeOK
<1>2. healthy' \in [Execs -> BOOLEAN]
    BY DEF EndAttempt, TypeOK
<1>3. pc' \in [Execs -> Live \cup Ended \cup {"idle"}]
    BY DEF EndAttempt, TypeOK, Live
<1> QED BY <1>1, <1>2, <1>3 DEF EndAttempt, TypeOK, control, effects

\* A step of an execution keeps the types.
LEMMA JobKeepsTypes ==
    ASSUME TypeOK, NEW e \in Execs, Tick(e) \/ Timeout(e) \/ JobStep(e)
    PROVE  TypeOK'
<1> USE ChecksAssumption, HooksAssumption
<1>1. CASE Tick(e)
    <2>1. before' \in [Execs -> SUBSET Execs]
        BY <1>1 DEF Tick, TypeOK, PublishedOf
    <2> QED BY <1>1, <2>1 DEF Tick, TypeOK, Live, control, effects
<1>2. CASE Timeout(e)
    BY <1>2 DEF Timeout, TypeOK, control, effects
<1>3. CASE AttemptRefused(e) \/ \E ok \in BOOLEAN : AttemptEnd(e, ok)
    BY <1>3, EndAttemptKeepsTypes DEF AttemptRefused, AttemptEnd
<1>4. CASE AttemptBegin(e)
    BY <1>4 DEF AttemptBegin, TypeOK, Live, control, effects
<1>5. CASE Wake(e)
    <2>1. attempt' \in [Execs -> Nat]
        BY <1>5 DEF Wake, TypeOK
    <2> QED BY <1>5, <2>1 DEF Wake, TypeOK, Live, control, effects
<1>6. CASE AttemptPanic(e)
    <2>1. failed' \in [Execs -> Nat]
        BY <1>6 DEF AttemptPanic, TypeOK
    <2> QED BY <1>6, <2>1 DEF AttemptPanic, TypeOK, Ended, control, effects
<1>7. CASE KafkaPanic(e)
    BY <1>7 DEF KafkaPanic, TypeOK, Ended, control, effects
<1>8. ASSUME NEW ok \in BOOLEAN, KafkaExecute(e, ok) PROVE TypeOK'
    BY <1>8 DEF KafkaExecute, TypeOK, Live, control, effects
<1>9. CASE RecordCheckUp(e)
    <2>1. checkUp' \in [Checks -> {"absent", "up", "down"}]
        BY <1>9 DEF RecordCheckUp, TypeOK, GaugeValue
    <2> QED BY <1>9, <2>1 DEF RecordCheckUp, TypeOK, Live, control
<1>10. CASE RecordHistory(e)
    BY <1>10 DEF RecordHistory, TypeOK, Live, control
<1>11. CASE Notify(e)
    <2>1. hook' \in [Execs -> [Hooks -> HookStates]]
        BY <1>11 DEF Notify, TypeOK, HookStates
    <2> QED BY <1>11, <2>1 DEF Notify, TypeOK, Live, control
<1>12. CASE JoinHooks(e)
    BY <1>12 DEF JoinHooks, TypeOK, Ended, control, effects
<1>13. ASSUME NEW h \in Hooks, HookStep(e, h) PROVE TypeOK'
    <2>1. PICK s \in HookStates : hook' = [hook EXCEPT ![e][h] = s]
        BY <1>13 DEF HookStep, HookRefused, HookSend, HookEnd, HookStates,
                     HookEnded
    <2>2. hook' \in [Execs -> [Hooks -> HookStates]]
        BY <2>1 DEF TypeOK
    <2>3. writers' \subseteq Destinations
        BY <1>13 DEF HookStep, HookRefused, HookSend, HookEnd, TypeOK,
                     Pooled, Destinations
    <2> QED BY <1>13, <2>2, <2>3 DEF HookStep, HookRefused, HookSend, HookEnd,
                               TypeOK, control, run
<1> QED BY <1>1, <1>2, <1>3, <1>4, <1>5, <1>6, <1>7, <1>8, <1>9, <1>10,
           <1>11, <1>12, <1>13
        DEF JobStep, CheckStep, NotifyStep

\* Every variable of the scheduler stays in its range.
THEOREM TypeCorrect == Spec => []TypeOK
<1>1. Init => TypeOK
    <2> SUFFICES ASSUME Init PROVE TypeOK
        OBVIOUS
    <2>1. hook \in [Execs -> [Hooks -> HookStates]]
        BY DEF Init, HookStates
    <2> QED BY <2>1 DEF Init, TypeOK, Phases
<1>2. TypeOK /\ [Next]_vars => TypeOK'
    BY MainKeepsTypes, JobKeepsTypes DEF Next, Stopped
<1> QED BY <1>1, <1>2, PTL DEF Spec

-----------------------------------------------------------------------------
(* The retry loop. *)

\* The loop, at each place an execution can be: before the n-th attempt
\* n - 1 attempts have failed and none has passed.
RetryLoop(e) ==
    LET most == Retries[CheckOf[e]] + 1
    IN  CheckOf[e] \notin KafkaChecks =>
          /\ pc[e] = "idle" => passed[e] = 0 /\ failed[e] = 0
          /\ pc[e] \in {"attempt", "calling"} =>
                /\ attempt[e] \in 1 .. most
                /\ passed[e] = 0
                /\ failed[e] = attempt[e] - 1
          /\ pc[e] = "sleep" =>
                /\ attempt[e] \in 1 .. most - 1
                /\ passed[e] = 0
                /\ failed[e] = attempt[e]
          /\ pc[e] \in {"up"} \cup Published =>
                /\ passed[e] + failed[e] = attempt[e]
                /\ attempt[e] <= most
                /\ passed[e] = IF healthy[e] THEN 1 ELSE 0
                /\ ~healthy[e] => attempt[e] = most

\* The variables that RetryLoop(e) speaks of do not change.
SameRun(e) ==
    /\ pc'[e] = pc[e]
    /\ attempt'[e] = attempt[e]
    /\ expired'[e] = expired[e]
    /\ healthy'[e] = healthy[e]
    /\ passed'[e] = passed[e]
    /\ failed'[e] = failed[e]

\* A step of one execution leaves the loops of the others alone.
LEMMA OthersKeepRunning ==
    ASSUME TypeOK, NEW e \in Execs, Tick(e) \/ Timeout(e) \/ JobStep(e),
           NEW d \in Execs, d # e
    PROVE  SameRun(d)
<1> USE DEF SameRun, TypeOK
<1>1. CASE Tick(e) \/ Timeout(e)
    BY <1>1 DEF Tick, Timeout
<1>2. CASE AttemptRefused(e) \/ \E ok \in BOOLEAN : AttemptEnd(e, ok)
    BY <1>2 DEF AttemptRefused, AttemptEnd, EndAttempt
<1>3. CASE AttemptBegin(e) \/ AttemptPanic(e) \/ Wake(e)
    BY <1>3 DEF AttemptBegin, AttemptPanic, Wake
<1>4. CASE KafkaPanic(e) \/ \E ok \in BOOLEAN : KafkaExecute(e, ok)
    BY <1>4 DEF KafkaPanic, KafkaExecute
<1>5. CASE RecordCheckUp(e) \/ RecordHistory(e) \/ Notify(e) \/ JoinHooks(e)
    BY <1>5 DEF RecordCheckUp, RecordHistory, Notify, JoinHooks
<1>6. CASE \E h \in Hooks : HookStep(e, h)
    BY <1>6 DEF HookStep, HookRefused, HookSend, HookEnd, run
<1> QED BY <1>1, <1>2, <1>3, <1>4, <1>5, <1>6
        DEF JobStep, CheckStep, NotifyStep

\* Each step of an execution moves its loop on correctly.
LEMMA StepKeepsLoop ==
    ASSUME TypeOK, NEW e \in Execs, RetryLoop(e),
           Tick(e) \/ Timeout(e) \/ JobStep(e)
    PROVE  RetryLoop(e)'
<1> USE DEF RetryLoop, Published
<1>0. /\ Retries[CheckOf[e]] \in Nat /\ attempt[e] \in Nat
      /\ passed[e] \in Nat /\ failed[e] \in Nat
    BY ChecksAssumption DEF TypeOK
<1>1. CASE Tick(e)
    BY <1>0, <1>1 DEF Tick, TypeOK
<1>2. CASE Timeout(e)
    BY <1>2 DEF Timeout, TypeOK
<1>3. ASSUME NEW ok \in BOOLEAN, EndAttempt(e, ok),
             pc[e] \in {"attempt", "calling"}, CheckOf[e] \notin KafkaChecks
      PROVE  RetryLoop(e)'
    <2>1. /\ passed'[e] = passed[e] + (IF ok THEN 1 ELSE 0)
          /\ failed'[e] = failed[e] + (IF ok THEN 0 ELSE 1)
          /\ healthy'[e] = ok /\ attempt'[e] = attempt[e]
          /\ pc'[e] = IF ok \/ attempt[e] = Retries[CheckOf[e]] + 1
                      THEN "up" ELSE "sleep"
        BY <1>3 DEF EndAttempt, TypeOK
    <2>2. CASE ok
        BY <1>0, <1>3, <2>1, <2>2
    <2>3. CASE ~ok
        BY <1>0, <1>3, <2>1, <2>3
    <2> QED BY <2>2, <2>3
<1>4. CASE AttemptRefused(e) \/ \E ok \in BOOLEAN : AttemptEnd(e, ok)
    BY <1>3, <1>4 DEF AttemptRefused, AttemptEnd
<1>5. CASE AttemptBegin(e) \/ Wake(e)
    BY <1>0, <1>5 DEF AttemptBegin, Wake, TypeOK
<1>6. CASE AttemptPanic(e) \/ KafkaPanic(e)
    BY <1>6 DEF AttemptPanic, KafkaPanic, TypeOK
<1>7. CASE \E ok \in BOOLEAN : KafkaExecute(e, ok)
    BY <1>7 DEF KafkaExecute
<1>8. CASE RecordCheckUp(e) \/ RecordHistory(e) \/ Notify(e) \/ JoinHooks(e)
    BY <1>8 DEF RecordCheckUp, RecordHistory, Notify, JoinHooks, TypeOK
<1>9. CASE \E h \in Hooks : HookStep(e, h)
    BY <1>9 DEF HookStep, HookRefused, HookSend, HookEnd, run
<1> QED BY <1>1, <1>2, <1>4, <1>5, <1>6, <1>7, <1>8, <1>9
        DEF JobStep, CheckStep, NotifyStep

\* Steps of main leave every loop alone.
LEMMA MainKeepsRunning ==
    ASSUME \/ \E c \in Checks : AddHealthCheck(c)
           \/ Start \/ RootCancel \/ StopStep \/ UNCHANGED vars
    PROVE  UNCHANGED run
BY DEF AddHealthCheck, Start, RootCancel, StopStep, CronStop, AwaitJobs,
       Cleanup, CloseNotifier, vars, run

\* Healthy means one passing attempt, the last; unhealthy means that all
\* retries + 1 attempts failed; the counters agree with the result.
THEOREM RetriesAsConfigured == Spec => []RetryContract
<1> DEFINE Loops == \A e \in Execs : RetryLoop(e)
<1>1. Init => Loops
    BY DEF Init, RetryLoop, Published
<1>2. TypeOK /\ Loops /\ [Next]_vars => Loops'
    <2> SUFFICES ASSUME TypeOK, Loops, [Next]_vars, NEW d \in Execs
                 PROVE  RetryLoop(d)'
        OBVIOUS
    <2>1. ASSUME NEW e \in Execs, Tick(e) \/ Timeout(e) \/ JobStep(e)
          PROVE  RetryLoop(d)'
        <3>1. CASE d = e
            BY <2>1, <3>1, StepKeepsLoop
        <3>2. CASE d # e
            <4>1. SameRun(d)
                BY <2>1, <3>2, OthersKeepRunning
            <4> QED BY <4>1 DEF SameRun, RetryLoop
        <3> QED BY <3>1, <3>2
    <2>2. CASE UNCHANGED run
        BY <2>2 DEF run, RetryLoop
    <2> QED BY <2>1, <2>2, MainKeepsRunning DEF Next, Stopped
<1>3. Loops => RetryContract
    BY DEF RetryLoop, RetryContract
<1> QED BY <1>1, <1>2, <1>3, TypeCorrect, PTL DEF Spec

\* An execution as Retrying sees it: before its job begins it is at the start of
\* the first attempt, and what follows the last one is nothing to it.
Place(at) ==
    CASE at \in {"idle", "attempt"} -> "fresh"
      [] at = "calling"             -> "committed"
      [] at = "sleep"               -> "pausing"
      [] at = "panicked"            -> "panicked"
      [] OTHER                      -> "settled"

Alone(e) == INSTANCE Retrying WITH
    Retries <- Retries[CheckOf[e]],
    place   <- Place(pc[e]),
    number  <- IF pc[e] = "idle" THEN 1 ELSE attempt[e],
    expired <- expired[e],
    healthy <- healthy[e],
    passed  <- passed[e],
    failed  <- failed[e]

\* A step of execution e, as Retrying sees it.
LEMMA OwnStepRetries ==
    ASSUME TypeOK, NEW e \in Execs, CheckOf[e] \notin KafkaChecks,
           Tick(e) \/ Timeout(e) \/ JobStep(e)
    PROVE  [Alone(e)!Next]_(Alone(e)!vars)
<1> USE DEF Place, Alone!vars
<1>1. CASE Tick(e)
    BY <1>1 DEF Tick, TypeOK
<1>2. CASE Timeout(e)
    BY <1>2 DEF Timeout, TypeOK, Alone!Expire, Alone!Next
<1>3. ASSUME NEW ok \in BOOLEAN, EndAttempt(e, ok),
             pc[e] \in {"attempt", "calling"}
      PROVE  Alone(e)!Result(ok)
    BY <1>3 DEF EndAttempt, TypeOK, Alone!Result
<1>4. CASE AttemptRefused(e) \/ \E ok \in BOOLEAN : AttemptEnd(e, ok)
    BY <1>3, <1>4 DEF AttemptRefused, AttemptEnd, Alone!Refuse, Alone!Return,
                      Alone!Next
<1>5. CASE AttemptBegin(e)
    BY <1>5 DEF AttemptBegin, TypeOK, Alone!Commit, Alone!Next
<1>6. CASE AttemptPanic(e)
    BY <1>6 DEF AttemptPanic, TypeOK, Alone!Panic, Alone!Next
<1>7. CASE Wake(e)
    BY <1>7 DEF Wake, TypeOK, Alone!Retry, Alone!Next
<1>8. CASE KafkaPanic(e) \/ \E ok \in BOOLEAN : KafkaExecute(e, ok)
    BY <1>8 DEF KafkaPanic, KafkaExecute
<1>9. CASE RecordCheckUp(e) \/ RecordHistory(e) \/ Notify(e) \/ JoinHooks(e)
    BY <1>9 DEF RecordCheckUp, RecordHistory, Notify, JoinHooks, TypeOK
<1>10. CASE \E h \in Hooks : HookStep(e, h)
    BY <1>10 DEF HookStep, HookRefused, HookSend, HookEnd, run
<1> QED BY <1>1, <1>2, <1>4, <1>5, <1>6, <1>7, <1>8, <1>9, <1>10
        DEF JobStep, CheckStep, NotifyStep

\* However many executions run beside it and whatever main does, each one that
\* is not of a Kafka check retries as if it were alone (retry.go:15-36).
THEOREM RetriesAlone ==
    ASSUME NEW e \in Execs, CheckOf[e] \notin KafkaChecks
    PROVE  Spec => Alone(e)!Spec
<1>1. Init => Alone(e)!Init
    BY DEF Init, Alone!Init, Place
<1>2. TypeOK /\ [Next]_vars => [Alone(e)!Next]_(Alone(e)!vars)
    <2> SUFFICES ASSUME TypeOK, [Next]_vars
                 PROVE  [Alone(e)!Next]_(Alone(e)!vars)
        OBVIOUS
    <2>1. ASSUME NEW d \in Execs, Tick(d) \/ Timeout(d) \/ JobStep(d)
          PROVE  [Alone(e)!Next]_(Alone(e)!vars)
        <3>1. CASE d = e
            BY <2>1, <3>1, OwnStepRetries
        <3>2. CASE d # e
            <4>1. SameRun(e)
                BY <2>1, <3>2, OthersKeepRunning
            <4> QED BY <4>1 DEF SameRun, Alone!vars
        <3> QED BY <3>1, <3>2
    <2>2. CASE UNCHANGED run
        BY <2>2 DEF run, Alone!vars
    <2> QED BY <2>1, <2>2, MainKeepsRunning DEF Next, Stopped
<1> QED BY <1>1, <1>2, TypeCorrect, PTL DEF Spec, Alone!Spec

-----------------------------------------------------------------------------
(* Hooks. *)

\* HooksMatchResult, for one execution.
HooksOf(e) ==
    \A h \in Hooks :
        /\ hook[e][h] # "none" =>
              h \in HookList(e) /\ pc[e] \in {"hooks", "done"}
        /\ pc[e] = "done" /\ h \in HookList(e) => hook[e][h] \in HookEnded

\* A step of main touches no hook, one of an execution only its own hooks.
LEMMA MainKeepsHooks ==
    ASSUME \/ \E c \in Checks : AddHealthCheck(c)
           \/ Start \/ RootCancel \/ StopStep \/ UNCHANGED vars
    PROVE  UNCHANGED hook
BY DEF AddHealthCheck, Start, RootCancel, StopStep, CronStop, AwaitJobs,
       Cleanup, CloseNotifier, vars, effects

LEMMA OthersKeepHooks ==
    ASSUME TypeOK, NEW e \in Execs, Tick(e) \/ Timeout(e) \/ JobStep(e),
           NEW d \in Execs, d # e
    PROVE  hook'[d] = hook[d]
<1>1. CASE Notify(e) \/ \E h \in Hooks : HookStep(e, h)
    BY <1>1 DEF Notify, HookStep, HookRefused, HookSend, HookEnd, TypeOK
<1>2. CASE Tick(e) \/ Timeout(e) \/ JoinHooks(e) \/ RecordHistory(e)
    BY <1>2 DEF Tick, Timeout, JoinHooks, RecordHistory, effects
<1>3. CASE CheckStep(e)
    BY <1>3 DEF CheckStep, AttemptRefused, AttemptBegin, AttemptEnd,
                EndAttempt, AttemptPanic, Wake, KafkaExecute, KafkaPanic,
                RecordCheckUp, effects
<1> QED BY <1>1, <1>2, <1>3 DEF JobStep, NotifyStep

\* Each step of an execution keeps its hooks in line with its result.
LEMMA StepKeepsHooks ==
    ASSUME TypeOK, NEW e \in Execs, HooksOf(e),
           Tick(e) \/ Timeout(e) \/ JobStep(e)
    PROVE  HooksOf(e)'
<1> USE DEF HooksOf, HookList, TypeOK
<1>1. CASE Timeout(e)
    BY <1>1 DEF Timeout, effects
<1>2. CASE Tick(e) \/ CheckStep(e) \/ RecordHistory(e)
    \* Before and after the step no hook has been started.
    <2>1. /\ pc[e] \notin {"hooks", "done"} /\ pc'[e] \notin {"hooks", "done"}
          /\ hook' = hook
        BY <1>2 DEF Tick, RecordHistory, CheckStep, AttemptRefused,
                    AttemptBegin, AttemptEnd, EndAttempt, AttemptPanic, Wake,
                    KafkaExecute, KafkaPanic, RecordCheckUp, effects
    <2> QED BY <2>1
<1>3. CASE Notify(e)
    BY <1>3 DEF Notify
<1>4. CASE JoinHooks(e)
    BY <1>4 DEF JoinHooks, effects
<1>5. ASSUME NEW h \in Hooks, HookStep(e, h) PROVE HooksOf(e)'
    <2>1. /\ hook[e][h] \in {"spawned", "sending"}
          /\ hook'[e][h] \in {"sending"} \cup HookEnded
          /\ \A g \in Hooks : g # h => hook'[e][g] = hook[e][g]
          /\ pc' = pc /\ healthy' = healthy
        BY <1>5 DEF HookStep, HookRefused, HookSend, HookEnd, HookEnded, run
    <2>2. h \in HookList(e) /\ pc[e] = "hooks"
        BY <2>1 DEF HookEnded
    <2> QED BY <2>1, <2>2
<1> QED BY <1>1, <1>2, <1>3, <1>4, <1>5 DEF JobStep, NotifyStep

\* Only the hooks of the list that matches the result run, and each has an
\* outcome before its job ends.
THEOREM HooksFollowResult == Spec => []HooksMatchResult
<1>1. Init => HooksMatchResult
    BY DEF Init, HooksMatchResult
<1>2. TypeOK /\ HooksMatchResult /\ [Next]_vars => HooksMatchResult'
    <2> SUFFICES ASSUME TypeOK, \A d \in Execs : HooksOf(d), [Next]_vars,
                        NEW d \in Execs
                 PROVE  HooksOf(d)'
        BY DEF HooksMatchResult, HooksOf
    <2> USE DEF HooksOf, HookList
    <2>1. ASSUME NEW e \in Execs, Tick(e) \/ Timeout(e) \/ JobStep(e)
          PROVE  HooksOf(d)'
        <3>1. CASE d # e
            <4>1. SameRun(d)
                BY <2>1, <3>1, OthersKeepRunning
            <4>2. hook'[d] = hook[d]
                BY <2>1, <3>1, OthersKeepHooks
            <4> QED BY <4>1, <4>2 DEF SameRun
        <3>2. CASE d = e
            BY <2>1, <3>2, StepKeepsHooks
        <3> QED BY <3>1, <3>2
    <2>2. CASE UNCHANGED <<run, hook>>
        BY <2>2 DEF run
    <2> QED BY <2>1, <2>2, MainKeepsRunning, MainKeepsHooks DEF Next, Stopped
<1> QED BY <1>1, <1>2, TypeCorrect, PTL DEF Spec

-----------------------------------------------------------------------------
(* History. *)

\* What is recorded, from the call to the end of the job; the case of an
\* execution that is past the call but not yet done makes it inductive.
RecordedOf(e) ==
    e \in recorded <=> /\ ShouldRecord(CheckOf[e])
                       /\ pc[e] \in {"notify", "hooks", "done"}

\* Exactly the finished executions of checks that opted in are recorded.
THEOREM HistoryFollowsOptIn == Spec => []HistoryMatchesOptIn
<1> DEFINE Inv == \A e \in Execs : RecordedOf(e)
<1>1. Init => Inv
    BY DEF Init, RecordedOf
<1>2. TypeOK /\ Inv /\ [Next]_vars => Inv'
    <2> SUFFICES ASSUME TypeOK, Inv, [Next]_vars, NEW d \in Execs
                 PROVE  RecordedOf(d)'
        OBVIOUS
    <2> USE DEF RecordedOf, ShouldRecord
    <2>1. ASSUME NEW e \in Execs, Tick(e) \/ Timeout(e) \/ CheckStep(e)
          PROVE  RecordedOf(d)'
        <3>1. /\ recorded' = recorded
              /\ pc'[d] = pc[d] \/ {pc[d], pc'[d]} \cap {"notify", "hooks", "done"} = {}
            BY <2>1 DEF Tick, Timeout, CheckStep, AttemptRefused, AttemptBegin,
                        AttemptEnd, EndAttempt, AttemptPanic, Wake,
                        KafkaExecute, KafkaPanic, RecordCheckUp, effects, TypeOK
        <3> QED BY <3>1
    <2>2. ASSUME NEW e \in Execs, RecordHistory(e) PROVE RecordedOf(d)'
        BY <2>2 DEF RecordHistory, TypeOK
    <2>3. ASSUME NEW e \in Execs, NotifyStep(e) PROVE RecordedOf(d)'
        <3>1. /\ recorded' = recorded
              /\ pc'[d] = pc[d] \/ {pc[d], pc'[d]} \subseteq {"notify", "hooks", "done"}
            BY <2>3 DEF NotifyStep, Notify, JoinHooks, HookStep, HookRefused,
                        HookSend, HookEnd, effects, run, TypeOK
        <3> QED BY <3>1
    <2>4. CASE UNCHANGED <<run, recorded>>
        BY <2>4 DEF run
    <2>5. ASSUME \/ \E c \in Checks : AddHealthCheck(c)
                 \/ Start \/ RootCancel \/ StopStep \/ UNCHANGED vars
          PROVE  UNCHANGED <<run, recorded>>
        BY <2>5 DEF AddHealthCheck, Start, RootCancel, StopStep, CronStop,
                    AwaitJobs, Cleanup, CloseNotifier, vars, run, effects
    <2> QED BY <2>1, <2>2, <2>3, <2>4, <2>5 DEF Next, Stopped, JobStep
<1>3. Inv => HistoryMatchesOptIn
    BY DEF RecordedOf, HistoryMatchesOptIn
<1> QED BY <1>1, <1>2, <1>3, TypeCorrect, PTL DEF Spec

-----------------------------------------------------------------------------
(* Stop. *)

\* Without a live job no hook goroutine is at work: a job joins its hooks.
LEMMA NoJobNoHook ==
    ASSUME HooksMatchResult, JobsDrained, NEW e \in Execs, NEW h \in Hooks
    PROVE  hook[e][h] \notin {"spawned", "sending"}
BY DEF HooksMatchResult, JobsDrained, Live, HookEnded

\* QuietAfterStop with what it needs of the steps before: rootCancel has
\* already cancelled every consumer.
Quiet ==
    /\ QuietAfterStop
    /\ phase \notin {"adding", "running"} => consumers = {}

\* Once the jobs have drained none is live, no hook is at work and nothing
\* brings one back; the pool is empty and every consumer cancelled at the end.
THEOREM TeardownIsQuiet == Spec => []QuietAfterStop
<1>1. Init => Quiet
    BY DEF Init, Quiet, QuietAfterStop
<1>2. TypeOK /\ HooksMatchResult /\ Quiet /\ [Next]_vars => Quiet'
    <2> SUFFICES ASSUME TypeOK, HooksMatchResult, Quiet, [Next]_vars
                 PROVE  Quiet'
        OBVIOUS
    <2> USE DEF Quiet, QuietAfterStop
    <2>1. ASSUME NEW e \in Execs, Tick(e) \/ Timeout(e) \/ JobStep(e)
          PROVE  Quiet'
        \* Such a step needs a scheduler that has not drained yet.
        <3>1. phase' = phase /\ consumers' = consumers
            BY <2>1 DEF Tick, Timeout, JobStep, CheckStep, NotifyStep,
                        AttemptRefused, AttemptBegin, AttemptEnd, EndAttempt,
                        AttemptPanic, Wake, KafkaExecute, KafkaPanic,
                        RecordCheckUp, RecordHistory, Notify, JoinHooks,
                        HookStep, HookRefused, HookSend, HookEnd, control
        <3>2. phase \notin {"drained", "cleaned", "closed"}
            <4>1. CASE Tick(e)
                BY <4>1 DEF Tick
            <4>2. CASE Timeout(e) \/ CheckStep(e) \/ RecordHistory(e)
                       \/ Notify(e) \/ JoinHooks(e)
                <5>1. pc[e] \in Live
                    BY <4>2 DEF Timeout, CheckStep, AttemptRefused,
                                AttemptBegin, AttemptEnd, AttemptPanic, Wake,
                                KafkaExecute, KafkaPanic, RecordCheckUp,
                                RecordHistory, Notify, JoinHooks, Live
                <5> QED BY <5>1
            <4>3. CASE \E h \in Hooks : HookStep(e, h)
                BY <4>3 DEF HookStep, HookRefused, HookSend, HookEnd
            <4> QED BY <2>1, <4>1, <4>2, <4>3 DEF JobStep, NotifyStep
        <3> QED BY <3>1, <3>2
    <2>2. CASE UNCHANGED vars \/ Stopped
        BY <2>2 DEF Stopped, vars
    <2>3. CASE Start \/ RootCancel \/ CronStop
               \/ \E c \in Checks : AddHealthCheck(c)
        BY <2>3 DEF Start, RootCancel, CronStop, AddHealthCheck
    <2>4. CASE AwaitJobs
        <3>1. /\ JobsDrained /\ phase' = "drained"
              /\ UNCHANGED <<pc, hook>>
            BY <2>4 DEF AwaitJobs, run, effects
        <3>2. \A e \in Execs : pc[e] \notin Live
            BY <3>1 DEF JobsDrained
        <3>3. \A e \in Execs : \A h \in Hooks :
                 hook[e][h] \notin {"spawned", "sending"}
            BY <3>1, NoJobNoHook
        <3>4. consumers' = {}
            BY <2>4 DEF AwaitJobs
        <3> QED BY <3>1, <3>2, <3>3, <3>4
    <2>5. CASE Cleanup
        BY <2>5 DEF Cleanup, run, effects
    <2>6. CASE CloseNotifier
        BY <2>6 DEF CloseNotifier, run
    <2> QED BY <2>1, <2>2, <2>3, <2>4, <2>5, <2>6 DEF Next, StopStep
<1>3. Quiet => QuietAfterStop
    BY DEF Quiet
<1> QED BY <1>1, <1>2, <1>3, TypeCorrect, HooksFollowResult, PTL DEF Spec

-----------------------------------------------------------------------------
(* Refinement. *)

\* Checks are registered before any execution starts.
NoneYet == phase = "adding" => \A e \in Execs : pc[e] = "idle"

LEMMA RegisteredFirst == Spec => []NoneYet
<1>1. Init => NoneYet
    BY DEF Init, NoneYet
<1>2. TypeOK /\ NoneYet /\ [Next]_vars => NoneYet'
    <2> SUFFICES ASSUME TypeOK, NoneYet, [Next]_vars PROVE NoneYet'
        OBVIOUS
    <2> USE DEF NoneYet
    <2>1. ASSUME NEW e \in Execs, Tick(e) PROVE NoneYet'
        BY <2>1 DEF Tick, control
    <2>2. ASSUME NEW e \in Execs, Timeout(e) \/ JobStep(e) PROVE NoneYet'
        BY <2>2 DEF Timeout, JobStep, CheckStep, NotifyStep, AttemptRefused,
                    AttemptBegin, AttemptEnd, EndAttempt, AttemptPanic, Wake,
                    KafkaExecute, KafkaPanic, RecordCheckUp, RecordHistory,
                    Notify, JoinHooks, HookStep, HookRefused, HookSend,
                    HookEnd, control, run, Live, TypeOK
    <2>3. ASSUME \/ \E c \in Checks : AddHealthCheck(c)
                 \/ Start \/ RootCancel \/ StopStep \/ UNCHANGED vars
          PROVE  NoneYet'
        <3>1. pc' = pc
            BY <2>3, MainKeepsRunning DEF run
        <3>2. phase' = "adding" => phase = "adding"
            BY <2>3 DEF AddHealthCheck, Start, RootCancel, StopStep, CronStop,
                        AwaitJobs, Cleanup, CloseNotifier, vars
        <3> QED BY <3>1, <3>2
    <2> QED BY <2>1, <2>2, <2>3 DEF Next, Stopped
<1> QED BY <1>1, <1>2, TypeCorrect, PTL DEF Spec

\* The hooks that execution e has started.
Told(e) == {h \in Hooks : hook[e][h] # "none"}

\* What Execution sees of one execution does not change.
SameView(e) ==
    /\ Stage(pc[e])' = Stage(pc[e])
    /\ Outcome(e)' = Outcome(e)
    /\ Told(e)' = Told(e)

\* A step that changes no view, nor the gauge, nor the history is a stutter.
LEMMA Stutters ==
    ASSUME \A e \in Execs : SameView(e), UNCHANGED <<checkUp, recorded>>
    PROVE  UNCHANGED E!vars
BY DEF SameView, Told, E!vars

\* No hook of an execution has been started before its "hooks".
LEMMA NotToldYet ==
    ASSUME HooksMatchResult, NEW e \in Execs, pc[e] \notin {"hooks", "done"}
    PROVE  \A h \in Hooks : hook[e][h] = "none"
BY DEF HooksMatchResult

\* A step of one execution leaves the views of the others alone.
LEMMA OthersKeepView ==
    ASSUME TypeOK, NEW e \in Execs, Tick(e) \/ Timeout(e) \/ JobStep(e),
           NEW d \in Execs, d # e
    PROVE  SameView(d)
<1>1. SameRun(d)
    BY OthersKeepRunning
<1>2. hook'[d] = hook[d]
    BY OthersKeepHooks
<1> QED BY <1>1, <1>2 DEF SameRun, SameView, Told, Outcome

\* Retries, pauses, timeouts and the progress of the hooks are stutters.
LEMMA InnerStepStutters ==
    ASSUME TypeOK, HooksMatchResult, NEW e \in Execs,
           \/ Timeout(e) \/ AttemptRefused(e) \/ AttemptBegin(e) \/ Wake(e)
           \/ \E ok \in BOOLEAN : AttemptEnd(e, ok) \/ KafkaExecute(e, ok)
           \/ \E h \in Hooks : HookStep(e, h)
    PROVE  UNCHANGED E!vars
<1>1. SameView(e) /\ UNCHANGED <<checkUp, recorded>>
    <2>1. CASE Timeout(e)
        BY <2>1 DEF Timeout, SameView, Told, Outcome, effects
    <2>2. CASE AttemptRefused(e) \/ AttemptBegin(e) \/ Wake(e)
               \/ \E ok \in BOOLEAN : AttemptEnd(e, ok) \/ KafkaExecute(e, ok)
        <3>1. /\ {pc[e], pc'[e]} \subseteq {"attempt", "calling", "sleep", "up"}
              /\ UNCHANGED effects
            BY <2>2 DEF AttemptRefused, AttemptBegin, Wake, AttemptEnd,
                        EndAttempt, KafkaExecute, TypeOK
        <3>2. Stage(pc[e]) = "running" /\ Stage(pc[e])' = "running"
            BY <3>1 DEF Stage
        <3>3. Outcome(e) = "none" /\ Outcome(e)' = "none"
            BY <3>1 DEF Outcome, Published
        <3> QED BY <3>1, <3>2, <3>3 DEF SameView, Told, effects
    <2>3. ASSUME NEW h \in Hooks, HookStep(e, h)
          PROVE  SameView(e) /\ UNCHANGED <<checkUp, recorded>>
        <3>1. /\ hook[e][h] # "none" /\ hook'[e][h] # "none"
              /\ \A g \in Hooks : g # h => hook'[e][g] = hook[e][g]
              /\ UNCHANGED <<run, checkUp, recorded>>
            BY <2>3 DEF HookStep, HookRefused, HookSend, HookEnd, TypeOK
        <3>2. Told(e)' = Told(e)
            BY <3>1 DEF Told
        <3> QED BY <3>1, <3>2 DEF SameView, Outcome, run
    <2> QED BY <2>1, <2>2, <2>3
<1>2. \A d \in Execs : SameView(d)
    BY <1>1, OthersKeepView DEF JobStep, CheckStep, NotifyStep
<1> QED BY <1>1, <1>2, Stutters

\* The other steps of an execution are the steps of Execution.
LEMMA OuterStepRefines ==
    ASSUME TypeOK, HooksMatchResult, NEW e \in Execs,
           \/ Tick(e) \/ AttemptPanic(e) \/ KafkaPanic(e) \/ RecordCheckUp(e)
           \/ RecordHistory(e) \/ Notify(e) \/ JoinHooks(e)
    PROVE  E!Step(e)
<1> DEFINE stage   == [d \in Execs |-> Stage(pc[d])]
           outcome == [d \in Execs |-> Outcome(d)]
           told    == [d \in Execs |-> {h \in Hooks : hook[d][h] # "none"}]
<1>1. \A d \in Execs \ {e} : SameView(d)
    BY OthersKeepView DEF JobStep, CheckStep, NotifyStep
<1>2. /\ stage' = [stage EXCEPT ![e] = Stage(pc[e])']
      /\ outcome' = [outcome EXCEPT ![e] = Outcome(e)']
      /\ told' = [told EXCEPT ![e] = Told(e)']
    BY <1>1 DEF SameView, Told
<1>3. ASSUME UNCHANGED hook PROVE told' = told
    BY <1>3
<1>4. CASE Tick(e)
    <2>1. /\ pc[e] = "idle" /\ pc'[e] = "attempt"
          /\ UNCHANGED <<checkUp, recorded, hook>>
        BY <1>4 DEF Tick, TypeOK, effects
    <2>2. /\ Stage(pc[e]) = "idle" /\ Stage(pc[e])' = "running"
          /\ Outcome(e) = "none" /\ Outcome(e)' = "none"
        BY <2>1 DEF Stage, Outcome, Published
    <2>3. outcome' = outcome
        BY <1>2, <2>2
    <2> QED BY <1>2, <1>3, <2>1, <2>2, <2>3 DEF E!Step, E!Begin
<1>5. CASE AttemptPanic(e) \/ KafkaPanic(e)
    <2>1. /\ pc[e] \in {"attempt", "calling"} /\ pc'[e] = "panicked"
          /\ UNCHANGED <<checkUp, recorded, hook>>
        BY <1>5 DEF AttemptPanic, KafkaPanic, TypeOK, effects
    <2>2. /\ Stage(pc[e]) = "running" /\ Stage(pc[e])' = "crashed"
          /\ Outcome(e) = "none" /\ Outcome(e)' = "none"
        BY <2>1 DEF Stage, Outcome, Published
    <2>3. outcome' = outcome
        BY <1>2, <2>2
    <2> QED BY <1>2, <1>3, <2>1, <2>2, <2>3 DEF E!Step, E!Crash
<1>6. CASE RecordCheckUp(e)
    <2>1. /\ pc[e] = "up" /\ pc'[e] = "history" /\ UNCHANGED healthy
          /\ checkUp' = [checkUp EXCEPT ![CheckOf[e]] = GaugeValue(healthy[e])]
          /\ UNCHANGED <<recorded, hook>>
        BY <1>6 DEF RecordCheckUp, TypeOK
    <2>2. /\ Stage(pc[e]) = "running" /\ Stage(pc[e])' = "published"
          /\ Outcome(e)' = GaugeValue(healthy[e])
        BY <2>1 DEF Stage, Outcome, Published
    <2>3. GaugeValue(healthy[e]) \in E!Outcomes
        BY DEF GaugeValue, E!Outcomes
    <2>4. E!Publish(e, GaugeValue(healthy[e]))
        BY <1>2, <1>3, <2>1, <2>2 DEF E!Publish
    <2> QED BY <2>3, <2>4 DEF E!Step
<1>7. CASE RecordHistory(e)
    <2>1. /\ pc[e] = "history" /\ pc'[e] = "notify" /\ UNCHANGED healthy
          /\ recorded' = IF ShouldRecord(CheckOf[e])
                         THEN recorded \cup {e} ELSE recorded
          /\ UNCHANGED <<checkUp, hook>>
        BY <1>7 DEF RecordHistory, TypeOK
    <2>2. /\ Stage(pc[e]) = "published" /\ Stage(pc[e])' = "reported"
          /\ Outcome(e)' = Outcome(e)
        BY <2>1 DEF Stage, Outcome, Published
    <2>3. outcome' = outcome
        BY <1>2, <2>2
    <2>4. ShouldRecord(CheckOf[e]) <=>
             CheckOf[e] \in {c \in Checks : ShouldRecord(c)}
        BY ChecksAssumption
    <2> QED BY <1>2, <1>3, <2>1, <2>2, <2>3, <2>4 DEF E!Step, E!Report
<1>8. CASE Notify(e)
    <2>1. /\ pc[e] = "notify" /\ pc'[e] = "hooks" /\ UNCHANGED healthy
          /\ \A h \in Hooks : hook'[e][h] = IF h \in HookList(e)
                                            THEN "spawned" ELSE hook[e][h]
          /\ UNCHANGED <<checkUp, recorded>>
        BY <1>8 DEF Notify, TypeOK
    <2>2. /\ Stage(pc[e]) = "reported" /\ Stage(pc[e])' = "told"
          /\ Outcome(e)' = Outcome(e) /\ Outcome(e) = GaugeValue(healthy[e])
        BY <2>1 DEF Stage, Outcome, Published
    <2>3. outcome' = outcome
        BY <1>2, <2>2
    <2>4. \A h \in Hooks : hook[e][h] = "none"
        BY <2>1, NotToldYet
    <2>5. Told(e)' = {h \in Hooks : h \in HookList(e)}
        BY <2>1, <2>4 DEF Told
    <2>6. HookList(e) \subseteq Hooks
        BY HooksAssumption, ChecksAssumption DEF HookList
    <2>7. HookList(e) = E!HooksOf(CheckOf[e], GaugeValue(healthy[e]))
        BY DEF HookList, E!HooksOf, GaugeValue
    <2>8. Told(e)' = E!HooksOf(CheckOf[e], outcome[e])
        BY <2>2, <2>5, <2>6, <2>7
    <2> QED BY <1>2, <2>1, <2>2, <2>3, <2>8 DEF E!Step, E!Tell
<1>9. CASE JoinHooks(e)
    <2>1. /\ pc[e] = "hooks" /\ pc'[e] = "done" /\ UNCHANGED healthy
          /\ UNCHANGED <<checkUp, recorded, hook>>
        BY <1>9 DEF JoinHooks, TypeOK, effects
    <2>2. /\ Stage(pc[e]) = "told" /\ Stage(pc[e])' = "ended"
          /\ Outcome(e)' = Outcome(e)
        BY <2>1 DEF Stage, Outcome, Published
    <2>3. outcome' = outcome
        BY <1>2, <2>2
    <2> QED BY <1>2, <1>3, <2>1, <2>2, <2>3 DEF E!Step, E!End
<1> QED BY <1>4, <1>5, <1>6, <1>7, <1>8, <1>9

\* A step of main is a stutter or, for a Kafka check, its registration.
LEMMA MainRefines ==
    ASSUME NoneYet,
           \/ \E c \in Checks : AddHealthCheck(c)
           \/ Start \/ RootCancel \/ StopStep \/ UNCHANGED vars
    PROVE  (\E c \in Checks : E!Register(c)) \/ UNCHANGED E!vars
<1>1. UNCHANGED <<run, hook>>
    BY MainKeepsRunning, MainKeepsHooks
<1>2. \A e \in Execs : SameView(e)
    BY <1>1 DEF SameView, Told, Outcome, run
<1>3. UNCHANGED recorded
    BY DEF AddHealthCheck, Start, RootCancel, StopStep, CronStop, AwaitJobs,
           Cleanup, CloseNotifier, vars, effects
<1>4. ASSUME NEW c \in Checks, AddHealthCheck(c), c \in KafkaChecks
      PROVE  E!Register(c)
    <2>1. \A e \in Execs : Stage(pc[e]) = "idle"
        BY <1>4 DEF AddHealthCheck, NoneYet, Stage
    <2>2. checkUp' = [checkUp EXCEPT ![c] = "up"]
        BY <1>4 DEF AddHealthCheck, GaugeValue
    <2> QED BY <1>2, <1>3, <1>4, <2>1, <2>2 DEF E!Register, SameView, Told
<1>5. ASSUME NEW c \in Checks, AddHealthCheck(c), c \notin KafkaChecks
      PROVE  UNCHANGED checkUp
    BY <1>5 DEF AddHealthCheck
<1>6. ASSUME Start \/ RootCancel \/ StopStep \/ UNCHANGED vars
      PROVE  UNCHANGED checkUp
    BY <1>6 DEF Start, RootCancel, StopStep, CronStop, AwaitJobs, Cleanup,
                CloseNotifier, vars, effects
<1> QED BY <1>2, <1>3, <1>4, <1>5, <1>6, Stutters

\* The scheduler implements Execution: retries, timeouts, overlap and Stop
\* change nothing of what gauge, history and hooks see of an execution.
THEOREM RefinesExecution == Spec => ImplementsExecution
<1>1. Init => E!Init
    BY DEF Init, E!Init, Stage, Outcome, Published
<1>2. TypeOK /\ HooksMatchResult /\ NoneYet /\ [Next]_vars => [E!Next]_(E!vars)
    <2> SUFFICES ASSUME TypeOK, HooksMatchResult, NoneYet, [Next]_vars
                 PROVE  [E!Next]_(E!vars)
        OBVIOUS
    <2>1. ASSUME NEW e \in Execs, Tick(e) \/ Timeout(e) \/ JobStep(e)
          PROVE  E!Step(e) \/ UNCHANGED E!vars
        BY <2>1, InnerStepStutters, OuterStepRefines
           DEF JobStep, CheckStep, NotifyStep
    <2> QED BY <2>1, MainRefines DEF Next, Stopped, E!Next
<1> QED BY <1>1, <1>2, TypeCorrect, HooksFollowResult, RegisteredFirst, PTL
        DEF Spec, ImplementsExecution, E!Spec

-----------------------------------------------------------------------------
(* The gauge. *)

\* What an execution found published when it was fired is published still.
Precedes == \A e \in Execs : before[e] \subseteq PublishedOf(CheckOf[e])

\* GaugeIsCurrent, for one check.
GaugeOf(c) ==
    LET published == PublishedOf(c)
    IN  /\ published # {} =>
             \E d \in published :
                /\ checkUp[c] = GaugeValue(healthy[d])
                /\ \A e \in published : d \notin before[e]
        /\ (published = {} /\ c \notin KafkaChecks) => checkUp[c] = "absent"

\* Every step but RecordCheckUp leaves alone what has been published.
LEMMA SilentStep ==
    ASSUME TypeOK, NEW e \in Execs,
           Tick(e) \/ Timeout(e) \/ JobStep(e), ~RecordCheckUp(e)
    PROVE  /\ UNCHANGED checkUp
           /\ \A d \in Execs : /\ pc'[d] \in Published <=> pc[d] \in Published
                               /\ pc[d] \in Published => healthy'[d] = healthy[d]
<1>1. \A d \in Execs : d # e => SameRun(d)
    BY OthersKeepRunning
<1>2. /\ UNCHANGED checkUp
      /\ pc'[e] \in Published <=> pc[e] \in Published
      /\ pc[e] \in Published => healthy'[e] = healthy[e]
    <2> USE DEF Published, TypeOK, control, effects
    <2>1. CASE Tick(e) \/ Timeout(e) \/ AttemptBegin(e) \/ AttemptPanic(e)
               \/ Wake(e) \/ KafkaPanic(e) \/ RecordHistory(e) \/ Notify(e)
               \/ JoinHooks(e)
        BY <2>1 DEF Tick, Timeout, AttemptBegin, AttemptPanic, Wake,
                    KafkaPanic, RecordHistory, Notify, JoinHooks
    <2>2. CASE AttemptRefused(e)
               \/ \E ok \in BOOLEAN : AttemptEnd(e, ok) \/ KafkaExecute(e, ok)
        BY <2>2 DEF AttemptRefused, AttemptEnd, EndAttempt, KafkaExecute
    <2>3. CASE \E h \in Hooks : HookStep(e, h)
        BY <2>3 DEF HookStep, HookRefused, HookSend, HookEnd, run
    <2> QED BY <2>1, <2>2, <2>3 DEF JobStep, CheckStep, NotifyStep
<1> QED BY <1>1, <1>2 DEF SameRun

\* Only Tick sets what an execution has found published.
LEMMA FoundOnce ==
    ASSUME NEW e \in Execs, Timeout(e) \/ JobStep(e)
    PROVE  UNCHANGED before
<1>1. CASE Timeout(e) \/ AttemptBegin(e) \/ AttemptPanic(e) \/ Wake(e)
           \/ KafkaPanic(e) \/ RecordCheckUp(e) \/ RecordHistory(e)
           \/ Notify(e) \/ JoinHooks(e)
    BY <1>1 DEF Timeout, AttemptBegin, AttemptPanic, Wake, KafkaPanic,
                RecordCheckUp, RecordHistory, Notify, JoinHooks
<1>2. CASE AttemptRefused(e)
           \/ \E ok \in BOOLEAN : AttemptEnd(e, ok) \/ KafkaExecute(e, ok)
    BY <1>2 DEF AttemptRefused, AttemptEnd, EndAttempt, KafkaExecute
<1>3. CASE \E h \in Hooks : HookStep(e, h)
    BY <1>3 DEF HookStep, HookRefused, HookSend, HookEnd
<1> QED BY <1>1, <1>2, <1>3 DEF JobStep, CheckStep, NotifyStep

\* The gauge of a check shows an outcome that no later execution has superseded,
\* however executions overlap.
THEOREM GaugeStaysCurrent == Spec => []GaugeIsCurrent
<1> DEFINE Inv == Precedes /\ \A c \in Checks : GaugeOf(c)
<1>1. Init => Inv
    <2> SUFFICES ASSUME Init PROVE Inv
        OBVIOUS
    <2>1. \A c \in Checks : PublishedOf(c) = {}
        BY DEF Init, PublishedOf, Published
    <2> QED BY <2>1 DEF Init, Precedes, GaugeOf
<1>2. TypeOK /\ NoneYet /\ Inv /\ [Next]_vars => Inv'
    <2> SUFFICES ASSUME TypeOK, NoneYet, Inv, [Next]_vars
                 PROVE  Inv'
        OBVIOUS
    <2>1. ASSUME NEW e \in Execs, RecordCheckUp(e) PROVE Inv'
        <3>1. /\ pc[e] = "up" /\ pc' = [pc EXCEPT ![e] = "history"]
              /\ checkUp' = [checkUp EXCEPT ![CheckOf[e]] = GaugeValue(healthy[e])]
              /\ UNCHANGED <<healthy, before>>
            BY <2>1 DEF RecordCheckUp
        <3>2. /\ e \notin PublishedOf(CheckOf[e])
              /\ \A c \in Checks : PublishedOf(c)' =
                    IF c = CheckOf[e] THEN PublishedOf(c) \cup {e} ELSE PublishedOf(c)
            BY <3>1 DEF PublishedOf, Published, TypeOK
        <3>3. CheckOf[e] \in Checks
            BY ChecksAssumption
        \* Nobody has found this outcome published yet.
        <3>4. \A d \in Execs : CheckOf[d] = CheckOf[e] => e \notin before[d]
            BY <3>2 DEF Precedes
        <3>5. Precedes'
            BY <3>1, <3>2, ChecksAssumption DEF Precedes
        <3>6. GaugeOf(CheckOf[e])'
            <4>1. checkUp'[CheckOf[e]] = GaugeValue(healthy'[e])
                BY <3>1, <3>3 DEF TypeOK
            <4>2. \A d \in PublishedOf(CheckOf[e])' : e \notin before'[d]
                BY <3>1, <3>4 DEF PublishedOf
            <4> QED BY <3>2, <3>3, <4>1, <4>2 DEF GaugeOf
        <3>7. ASSUME NEW c \in Checks, c # CheckOf[e] PROVE GaugeOf(c)'
            <4>1. checkUp'[c] = checkUp[c] /\ PublishedOf(c)' = PublishedOf(c)
                BY <3>1, <3>2, <3>7 DEF TypeOK
            <4> QED BY <3>1, <4>1 DEF GaugeOf
        <3> QED BY <3>5, <3>6, <3>7
    <2>2. ASSUME NEW e \in Execs,
                 Tick(e) \/ Timeout(e) \/ JobStep(e), ~RecordCheckUp(e)
          PROVE  Inv'
        <3>1. /\ UNCHANGED checkUp
              /\ \A d \in Execs : /\ pc'[d] \in Published <=> pc[d] \in Published
                                  /\ pc[d] \in Published => healthy'[d] = healthy[d]
            BY <2>2, SilentStep
        <3>2. \A c \in Checks : PublishedOf(c)' = PublishedOf(c)
            BY <3>1 DEF PublishedOf
        <3>3. /\ \A d \in Execs : d # e => before'[d] = before[d]
              /\ \/ before'[e] = before[e]
                 \/ pc[e] = "idle" /\ before'[e] = PublishedOf(CheckOf[e])
            BY <2>2, FoundOnce DEF Tick, TypeOK
        <3>4. Precedes'
            BY <3>2, <3>3, ChecksAssumption DEF Precedes
        <3>5. \A c \in Checks : \A d \in PublishedOf(c) : before'[d] = before[d]
            BY <3>3 DEF PublishedOf, Published
        <3>6. ASSUME NEW c \in Checks PROVE GaugeOf(c)'
            <4>1. \A d \in PublishedOf(c) : healthy'[d] = healthy[d]
                BY <3>1 DEF PublishedOf
            <4> QED BY <3>1, <3>2, <3>5, <4>1 DEF GaugeOf
        <3> QED BY <3>4, <3>6
    <2>3. ASSUME NEW k \in Checks, AddHealthCheck(k) PROVE Inv'
        <3>1. /\ UNCHANGED <<pc, healthy, before>>
              /\ \A e \in Execs : pc[e] = "idle"
            BY <2>3 DEF AddHealthCheck, NoneYet, run
        <3>2. \A c \in Checks \ KafkaChecks : checkUp'[c] = checkUp[c]
            BY <2>3 DEF AddHealthCheck, TypeOK
        <3>3. \A c \in Checks : PublishedOf(c) = {} /\ PublishedOf(c)' = {}
            BY <3>1 DEF PublishedOf, Published
        <3>4. Precedes'
            BY <3>1, <3>3, ChecksAssumption DEF Precedes
        <3> QED BY <3>2, <3>3, <3>4 DEF GaugeOf
    <2>4. ASSUME UNCHANGED <<pc, healthy, checkUp, before>> PROVE Inv'
        BY <2>4 DEF Precedes, GaugeOf, PublishedOf
    <2>5. ASSUME Start \/ RootCancel \/ StopStep \/ UNCHANGED vars
          PROVE  UNCHANGED <<pc, healthy, checkUp, before>>
        BY <2>5 DEF Start, RootCancel, StopStep, CronStop, AwaitJobs, Cleanup,
                    CloseNotifier, vars, run, effects
    <2> QED BY <2>1, <2>2, <2>3, <2>4, <2>5 DEF Next, Stopped
<1>3. Inv => GaugeIsCurrent
    BY DEF GaugeOf, GaugeIsCurrent
<1> QED BY <1>1, <1>2, <1>3, TypeCorrect, RegisteredFirst, PTL DEF Spec

-----------------------------------------------------------------------------
(* Hooks, in time. *)

\* Why a hook of execution e may have been refused; it stays so.
Excused(e) ==
    \A h \in Hooks : hook[e][h] = "refused" =>
        h \in BrokenHooks \/ (h \notin KafkaHooks /\ expired[e])

\* A hook that renders is refused only to a webhook after the timeout.
THEOREM HooksInTime == Spec => []HooksAttemptedInTime
<1> DEFINE Inv == \A e \in Execs : Excused(e)
<1>1. Init => Inv
    BY DEF Init, Excused
<1>2. TypeOK /\ Inv /\ [Next]_vars => Inv'
    <2> SUFFICES ASSUME TypeOK, Inv, [Next]_vars, NEW d \in Execs
                 PROVE  Excused(d)'
        OBVIOUS
    <2> USE DEF Excused
    <2>1. ASSUME NEW e \in Execs, NEW h \in Hooks, HookStep(e, h)
          PROVE  Excused(d)'
        <3>1. \A g \in Hooks : (hook'[d][g] = "refused" /\ hook[d][g] # "refused")
                 => g \in BrokenHooks \/ (g \notin KafkaHooks /\ expired[d])
            <4>1. CASE HookRefused(e, h)
                BY <4>1 DEF HookRefused, TypeOK
            <4>2. CASE HookSend(e, h)
                BY <4>2 DEF HookSend, TypeOK
            <4>3. CASE \E ok \in BOOLEAN : HookEnd(e, h, ok)
                BY <4>3 DEF HookEnd, TypeOK
            <4> QED BY <2>1, <4>1, <4>2, <4>3 DEF HookStep
        <3>2. expired' = expired
            BY <2>1 DEF HookStep, HookRefused, HookSend, HookEnd, run
        <3> QED BY <3>1, <3>2
    <2>2. ASSUME NEW e \in Execs, Notify(e) PROVE Excused(d)'
        BY <2>2 DEF Notify, TypeOK
    <2>3. ASSUME NEW e \in Execs, Timeout(e) PROVE Excused(d)'
        BY <2>3 DEF Timeout, effects, TypeOK
    <2>4. ASSUME UNCHANGED <<hook, expired>> PROVE Excused(d)'
        BY <2>4
    <2>5. ASSUME NEW e \in Execs,
                 Tick(e) \/ CheckStep(e) \/ RecordHistory(e) \/ JoinHooks(e)
          PROVE  UNCHANGED <<hook, expired>>
        BY <2>5 DEF Tick, CheckStep, RecordHistory, JoinHooks, AttemptRefused,
                    AttemptBegin, AttemptEnd, EndAttempt, AttemptPanic, Wake,
                    KafkaExecute, KafkaPanic, RecordCheckUp, effects
    <2>6. ASSUME \/ \E c \in Checks : AddHealthCheck(c)
                 \/ Start \/ RootCancel \/ StopStep \/ UNCHANGED vars
          PROVE  UNCHANGED <<hook, expired>>
        BY <2>6, MainKeepsHooks, MainKeepsRunning DEF run
    <2> QED BY <2>1, <2>2, <2>3, <2>4, <2>5, <2>6
            DEF Next, Stopped, JobStep, NotifyStep
<1>3. Inv => HooksAttemptedInTime
    <2>1. \A e \in Execs : HookList(e) \subseteq Hooks
        BY HooksAssumption, ChecksAssumption DEF HookList
    <2> QED BY <2>1 DEF Excused, HooksAttemptedInTime
<1> QED BY <1>1, <1>2, <1>3, TypeCorrect, PTL DEF Spec
=============================================================================
