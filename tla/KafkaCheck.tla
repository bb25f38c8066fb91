------------------------------ MODULE KafkaCheck ------------------------------
(***************************************************************************)
(* The Kafka liveness check (internal/healthcheck/kafka.go): one consumer  *)
(* goroutine per check, which is restarted when it panics, and executions  *)
(* that read its state under the lock, publish its age and judge it        *)
(* afterwards. Executions of one check may overlap, as cron lets them.     *)
(*                                                                         *)
(* Time is a bounded clock of equal steps. The consumers' map is keyed by  *)
(* the name of the check, which the loader does not require to be unique.  *)
(***************************************************************************)
EXTENDS Integers

CONSTANTS
    Checks,     \* the Kafka checks of the configuration
    Names,      \* their names
    NameOf,     \* NameOf[c]: field `name`
    Interval,   \* Interval[c]: field `schedule` as a duration
    Asserting,  \* checks with an `assertion`
    Execs,      \* bound: the executions that are fired in all
    CheckOf,    \* CheckOf[x]: the check whose schedule fires execution x
    MaxTime,    \* bound of the clock
    MaxPanics,  \* bound: panics of all consumers together
    Good, Bad,  \* messages that satisfy an assertion, and that do not
    None        \* no entry, no message

ASSUME KafkaAssumption ==
    /\ NameOf \in [Checks -> Names]
    /\ Interval \in [Checks -> Nat \ {0}]
    /\ Asserting \subseteq Checks
    /\ CheckOf \in [Execs -> Checks]
    /\ MaxTime \in Nat
    /\ MaxPanics \in Nat
    /\ None \notin Checks
    /\ Good # Bad /\ None \notin {Good, Bad}

VARIABLES
    now,       \* the clock
    stopping,  \* s.rootCtx is cancelled
    consumers, \* k.consumers[name]: the check whose state is filed there
    started,   \* started[c]: when Init ran, or None
    received,  \* state.hasReceivedMessage
    lastTime,  \* state.lastMessageTime
    lastMsg,   \* state.lastMessage
    gpc,       \* gpc[c]: where the consumer goroutine of c is
    inHand,    \* the message it has fetched and not yet stored
    readers,   \* number of open readers of c
    panics,    \* number of panics so far
    xpc,       \* xpc[x]: where execution x is
    target,    \* target[x]: the check whose state it reads
    snap,      \* snap[x]: what it has read: [received, time, msg]
    age,       \* age[x]: the age it has worked out
    verdict,   \* verdict[x]: its verdict
    gauge,     \* the gauge check_message_age_seconds, by name
    heard,     \* observer: [received, time, msg] of the last stored message
    truth,     \* observer: truth[x]: heard of the check when x read its state
    at,        \* observer: at[x]: when x worked out the age
    before     \* observer: before[x]: executions of the check that had
               \* published an age when x began

shared   == <<received, lastTime, lastMsg, heard>>
reader   == <<gpc, inHand, readers, panics>>
exec     == <<xpc, target, snap, age, verdict, gauge, truth, at, before>>
vars     == <<now, stopping, consumers, started, received, lastTime, lastMsg,
              gpc, inHand, readers, panics, xpc, target, snap, age, verdict,
              gauge, heard, truth, at, before>>

Messages    == {Good, Bad}
GoStates    == {"off", "fetching", "storing", "recovering", "stopped"}
Running     == {"fetching", "storing", "recovering"}
Places      == {"idle", "found", "copied", "measured", "judging", "ended"}
Kinds       == {"waiting", "silent", "passed", "failed"}
Snapshots   == [received : BOOLEAN, time : 0 .. MaxTime, msg : Messages \cup {None}]
NoSnapshot  == [received |-> FALSE, time |-> 0, msg |-> None]

Snapshot(c) == [received |-> received[c], time |-> lastTime[c], msg |-> lastMsg[c]]

Init ==
    /\ now = 0
    /\ stopping = FALSE
    /\ consumers = [n \in Names |-> None]
    /\ started = [c \in Checks |-> None]
    /\ received = [c \in Checks |-> FALSE]
    /\ lastTime = [c \in Checks |-> 0]
    /\ lastMsg = [c \in Checks |-> None]
    /\ gpc = [c \in Checks |-> "off"]
    /\ inHand = [c \in Checks |-> None]
    /\ readers = [c \in Checks |-> 0]
    /\ panics = 0
    /\ xpc = [x \in Execs |-> "idle"]
    /\ target = [x \in Execs |-> None]
    /\ snap = [x \in Execs |-> NoSnapshot]
    /\ age = [x \in Execs |-> 0]
    /\ verdict = [x \in Execs |-> None]
    /\ gauge = [n \in Names |-> None]
    /\ heard = [c \in Checks |-> NoSnapshot]
    /\ truth = [x \in Execs |-> NoSnapshot]
    /\ at = [x \in Execs |-> 0]
    /\ before = [x \in Execs |-> {}]

-----------------------------------------------------------------------------

\* Time passes, also inside an execution.
Advance ==
    /\ now < MaxTime
    /\ now' = now + 1
    /\ UNCHANGED <<stopping, consumers, started, shared, reader, exec>>

\* KafkaChecker.Init; a second check of the same name takes over the entry.
InitCheck(c) ==
    /\ ~stopping
    /\ started[c] = None
    /\ started' = [started EXCEPT ![c] = now]
    /\ consumers' = [consumers EXCEPT ![NameOf[c]] = c]
    /\ readers' = [readers EXCEPT ![c] = 1]
    /\ gpc' = [gpc EXCEPT ![c] = "fetching"]
    /\ UNCHANGED <<now, stopping, shared, inHand, panics, exec>>

\* Stop: rootCancel ends every consumer's context; Cleanup finds none left.
Cancel ==
    /\ ~stopping
    /\ \A c \in Checks : started[c] # None
    /\ stopping' = TRUE
    /\ UNCHANGED <<now, consumers, started, shared, reader, exec>>

-----------------------------------------------------------------------------
(* consumeMessages and runConsumer. *)

Fetch(c, m) ==
    /\ gpc[c] = "fetching"
    /\ inHand' = [inHand EXCEPT ![c] = m]
    /\ gpc' = [gpc EXCEPT ![c] = "storing"]
    /\ UNCHANGED <<now, stopping, consumers, started, shared, readers, panics,
                   exec>>

\* Mutant: every error is retried.
FetchError_Retries(c) == gpc[c] = "fetching" /\ UNCHANGED vars

\* FetchMessage fails: with a live context the loop goes on, otherwise the
\* goroutine returns and the deferred Close runs.
FetchError(c) ==
    /\ gpc[c] = "fetching"
    /\ IF stopping
       THEN /\ gpc' = [gpc EXCEPT ![c] = "stopped"]
            /\ readers' = [readers EXCEPT ![c] = @ - 1]
       ELSE UNCHANGED <<gpc, readers>>
    /\ UNCHANGED <<now, stopping, consumers, started, shared, inHand, panics,
                   exec>>

\* Mutant: the time is only set for the first message.
StoreMessage_FirstTime(c) ==
    /\ gpc[c] = "storing"
    /\ lastTime' = [lastTime EXCEPT ![c] = IF received[c] THEN @ ELSE now]
    /\ received' = [received EXCEPT ![c] = TRUE]
    /\ lastMsg' = [lastMsg EXCEPT ![c] = inHand[c]]
    /\ heard' = [heard EXCEPT ![c] =
                   [received |-> TRUE, time |-> now, msg |-> inHand[c]]]
    /\ inHand' = [inHand EXCEPT ![c] = None]
    /\ gpc' = [gpc EXCEPT ![c] = "fetching"]
    /\ UNCHANGED <<now, stopping, consumers, started, readers, panics, exec>>

\* The three fields are set under state.mu.
StoreMessage(c) ==
    /\ gpc[c] = "storing"
    /\ received' = [received EXCEPT ![c] = TRUE]
    /\ lastTime' = [lastTime EXCEPT ![c] = now]
    /\ lastMsg' = [lastMsg EXCEPT ![c] = inHand[c]]
    /\ heard' = [heard EXCEPT ![c] =
                   [received |-> TRUE, time |-> now, msg |-> inHand[c]]]
    /\ inHand' = [inHand EXCEPT ![c] = None]
    /\ gpc' = [gpc EXCEPT ![c] = "fetching"]
    /\ UNCHANGED <<now, stopping, consumers, started, readers, panics, exec>>

\* Mutant: without the defer, a panic leaves the reader open.
Panic_LeaksReader(c) ==
    /\ gpc[c] \in {"fetching", "storing"}
    /\ panics < MaxPanics
    /\ panics' = panics + 1
    /\ gpc' = [gpc EXCEPT ![c] = "recovering"]
    /\ inHand' = [inHand EXCEPT ![c] = None]
    /\ UNCHANGED <<now, stopping, consumers, started, shared, readers, exec>>

\* The deferred reader.Close runs, then the recover of runConsumer.
Panic(c) ==
    /\ gpc[c] \in {"fetching", "storing"}
    /\ panics < MaxPanics
    /\ panics' = panics + 1
    /\ gpc' = [gpc EXCEPT ![c] = "recovering"]
    /\ inHand' = [inHand EXCEPT ![c] = None]
    /\ readers' = [readers EXCEPT ![c] = @ - 1]
    /\ UNCHANGED <<now, stopping, consumers, started, shared, exec>>

\* Mutant: the recover closes the reader that the defer has closed.
Recover_ClosesTwice(c) ==
    /\ gpc[c] = "recovering"
    /\ gpc' = [gpc EXCEPT ![c] = IF stopping THEN "stopped" ELSE "fetching"]
    /\ readers' = [readers EXCEPT ![c] = @ + (IF stopping THEN 0 ELSE 1) - 1]
    /\ UNCHANGED <<now, stopping, consumers, started, shared, inHand, panics,
                   exec>>

\* Mutant: the restarted consumer begins with a fresh state.
Recover_FreshState(c) ==
    /\ gpc[c] = "recovering"
    /\ IF stopping
       THEN gpc' = [gpc EXCEPT ![c] = "stopped"] /\ UNCHANGED readers
       ELSE /\ gpc' = [gpc EXCEPT ![c] = "fetching"]
            /\ readers' = [readers EXCEPT ![c] = @ + 1]
    /\ received' = [received EXCEPT ![c] = FALSE]
    /\ lastTime' = [lastTime EXCEPT ![c] = 0]
    /\ UNCHANGED <<now, stopping, consumers, started, lastMsg, heard, inHand,
                   panics, exec>>

\* A new reader and goroutine, unless the context is cancelled by now.
Recover(c) ==
    /\ gpc[c] = "recovering"
    /\ IF stopping
       THEN gpc' = [gpc EXCEPT ![c] = "stopped"] /\ UNCHANGED readers
       ELSE /\ gpc' = [gpc EXCEPT ![c] = "fetching"]
            /\ readers' = [readers EXCEPT ![c] = @ + 1]
    /\ UNCHANGED <<now, stopping, consumers, started, shared, inHand, panics,
                   exec>>

-----------------------------------------------------------------------------
(* Execute, in a goroutine of cron: one step per access to what others see. *)

\* Executions of check c whose age is, or was, in the gauge.
Aged(c) == {x \in Execs : /\ CheckOf[x] = c
                          /\ truth[x].received
                          /\ xpc[x] \in {"judging", "ended"}}

\* k.consumers[check.Name] under k.mu; the scheduler runs after every Init.
Lookup(x) ==
    /\ xpc[x] = "idle"
    /\ \A d \in Checks : started[d] # None
    /\ target' = [target EXCEPT ![x] = consumers[NameOf[CheckOf[x]]]]
    /\ before' = [before EXCEPT ![x] = Aged(CheckOf[x])]
    /\ xpc' = [xpc EXCEPT ![x] = "found"]
    /\ UNCHANGED <<now, stopping, consumers, started, shared, reader, snap, age,
                   verdict, gauge, truth, at>>

\* The fields are copied under state.mu.
Read(x) ==
    /\ xpc[x] = "found"
    /\ snap' = [snap EXCEPT ![x] = Snapshot(target[x])]
    /\ truth' = [truth EXCEPT ![x] = heard[CheckOf[x]]]
    /\ xpc' = [xpc EXCEPT ![x] = "copied"]
    /\ UNCHANGED <<now, stopping, consumers, started, shared, reader, target,
                   age, verdict, gauge, at, before>>

\* Without a first message the check is healthy and returns at once.
Wait(x) ==
    /\ xpc[x] = "copied"
    /\ ~snap[x].received
    /\ verdict' = [verdict EXCEPT ![x] = "waiting"]
    /\ xpc' = [xpc EXCEPT ![x] = "ended"]
    /\ UNCHANGED <<now, stopping, consumers, started, shared, reader, target,
                   snap, age, gauge, truth, at, before>>

\* Mutant: the age is worked out from the consumer's state, not the copy.
Measure_Fresh(x) ==
    /\ xpc[x] = "copied"
    /\ snap[x].received
    /\ age' = [age EXCEPT ![x] = now - lastTime[target[x]]]
    /\ at' = [at EXCEPT ![x] = now]
    /\ xpc' = [xpc EXCEPT ![x] = "measured"]
    /\ UNCHANGED <<now, stopping, consumers, started, shared, reader, target,
                   snap, verdict, gauge, truth, before>>

\* age := time.Since(lastMsgTime), of the copy.
Measure(x) ==
    /\ xpc[x] = "copied"
    /\ snap[x].received
    /\ age' = [age EXCEPT ![x] = now - snap[x].time]
    /\ at' = [at EXCEPT ![x] = now]
    /\ xpc' = [xpc EXCEPT ![x] = "measured"]
    /\ UNCHANGED <<now, stopping, consumers, started, shared, reader, target,
                   snap, verdict, gauge, truth, before>>

\* RecordMessageAge, under the name of the check.
PublishAge(x) ==
    /\ xpc[x] = "measured"
    /\ gauge' = [gauge EXCEPT ![NameOf[CheckOf[x]]] = age[x]]
    /\ xpc' = [xpc EXCEPT ![x] = "judging"]
    /\ UNCHANGED <<now, stopping, consumers, started, shared, reader, target,
                   snap, age, verdict, truth, at, before>>

Silent(x) == age[x] > Interval[target[x]]

\* The verdict: silence is an age > expectedInterval, otherwise an assertion
\* judges the copied message. It may also fail because it does not run: an
\* error, or an expired context.
Judge(x, ok) ==
    /\ xpc[x] = "judging"
    /\ CheckOf[x] \notin Asserting => ok
    /\ verdict' = [verdict EXCEPT ![x] =
          IF Silent(x) THEN "silent"
          ELSE IF ok /\ (CheckOf[x] \in Asserting => snap[x].msg = Good)
               THEN "passed" ELSE "failed"]
    /\ xpc' = [xpc EXCEPT ![x] = "ended"]
    /\ UNCHANGED <<now, stopping, consumers, started, shared, reader, target,
                   snap, age, gauge, truth, at, before>>

\* The assertion panics; cron's Recover ends the job without a verdict.
JudgePanic(x) ==
    /\ xpc[x] = "judging"
    /\ CheckOf[x] \in Asserting /\ ~Silent(x)
    /\ xpc' = [xpc EXCEPT ![x] = "ended"]
    /\ UNCHANGED <<now, stopping, consumers, started, shared, reader, target,
                   snap, age, verdict, gauge, truth, at, before>>

-----------------------------------------------------------------------------

ConsumerStep(c) ==
    \/ \E m \in Messages : Fetch(c, m)
    \/ FetchError(c)
    \/ StoreMessage(c)
    \/ Panic(c)
    \/ Recover(c)

ExecuteStep(x) ==
    \/ Lookup(x)
    \/ Read(x)
    \/ Wait(x)
    \/ Measure(x)
    \/ PublishAge(x)
    \/ \E ok \in BOOLEAN : Judge(x, ok)
    \/ JudgePanic(x)

\* All goroutines have ended and the clock is at its bound: nothing is left.
AtRest ==
    /\ now = MaxTime
    /\ \A c \in Checks : gpc[c] = "stopped"
    /\ \A x \in Execs : xpc[x] = "ended"
    /\ UNCHANGED vars

Next ==
    \/ Advance
    \/ Cancel
    \/ \E c \in Checks : InitCheck(c) \/ ConsumerStep(c)
    \/ \E x \in Execs : ExecuteStep(x)
    \/ AtRest

Spec == Init /\ [][Next]_vars

\* A cancelled FetchMessage fails although messages may go on arriving: the
\* reader gives up on its context. Recovering goroutines run.
FairSpec ==
    /\ Spec
    /\ \A c \in Checks : /\ SF_vars(stopping /\ FetchError(c))
                         /\ WF_vars(StoreMessage(c))
                         /\ WF_vars(Recover(c))

-----------------------------------------------------------------------------

\* Every variable stays in its range.
TypeOK ==
    /\ now \in 0 .. MaxTime
    /\ stopping \in BOOLEAN
    /\ consumers \in [Names -> Checks \cup {None}]
    /\ started \in [Checks -> 0 .. MaxTime \cup {None}]
    /\ received \in [Checks -> BOOLEAN]
    /\ lastTime \in [Checks -> 0 .. MaxTime]
    /\ lastMsg \in [Checks -> Messages \cup {None}]
    /\ gpc \in [Checks -> GoStates]
    /\ inHand \in [Checks -> Messages \cup {None}]
    /\ readers \in [Checks -> Nat]
    /\ panics \in 0 .. MaxPanics
    /\ xpc \in [Execs -> Places]
    /\ target \in [Execs -> Checks \cup {None}]
    /\ snap \in [Execs -> Snapshots]
    /\ age \in [Execs -> Int]
    /\ verdict \in [Execs -> Kinds \cup {None}]
    /\ gauge \in [Names -> Int \cup {None}]
    /\ heard \in [Checks -> Snapshots]
    /\ truth \in [Execs -> Snapshots]
    /\ at \in [Execs -> 0 .. MaxTime]
    /\ before \in [Execs -> SUBSET Execs]

UniquelyNamed(c) == \A d \in Checks : NameOf[d] = NameOf[c] => d = c

\* A verdict is about the check's own last message as of the moment its state
\* was read, time and content of the same message, although newer ones arrive
\* and other executions run: "waiting" if there was none, "silent" exactly when
\* it was older than the interval when the age was worked out, and "passed"
\* only if that message satisfies the assertion (kafka.go:146-197, 251-259). Of
\* two checks with one name the first is judged by the messages and the
\* interval of the second.
VerdictJudgesLastMessage ==
    \A x \in Execs : UniquelyNamed(CheckOf[x]) /\ verdict[x] # None =>
        LET c       == CheckOf[x]
            trueAge == at[x] - truth[x].time
        IN  /\ verdict[x] = "waiting" <=> ~truth[x].received
            /\ truth[x].received =>
                  (verdict[x] = "silent" <=> trueAge > Interval[c])
            /\ verdict[x] = "passed" /\ c \in Asserting => truth[x].msg = Good
            /\ verdict[x] = "failed" => c \in Asserting

\* The gauge tells the age of the last message as one execution has found it,
\* and that execution has not been superseded: of executions that overlap any
\* may publish last, and the gauge may differ from the age that the latest
\* verdict was about, but no age outlives one of an execution that began after
\* it had been published. Before the first message there is none
\* (kafka.go:157-165, scheduler.go:64-68).
AgeIsCurrent ==
    \A c \in Checks : UniquelyNamed(c) =>
        IF Aged(c) = {} THEN gauge[NameOf[c]] = None
        ELSE \E d \in Aged(c) :
                /\ gauge[NameOf[c]] = at[d] - truth[d].time
                /\ \A x \in Aged(c) : d \notin before[x]

\* Every reader that was created is closed when its goroutine ends or
\* panics, and a check never has two (kafka.go:106, 224, 233).
OneReader ==
    \A c \in Checks :
        readers[c] = IF gpc[c] \in {"fetching", "storing"} THEN 1 ELSE 0

\* What a consumer has learnt survives its restart: a check does not go back
\* to waiting and its last message gets no older (kafka.go:216-230).
NothingForgotten ==
    [][\A c \in Checks : received[c] => /\ received'[c]
                                       /\ lastTime'[c] >= lastTime[c]]_vars

\* Cancelling the scheduler's context ends every consumer, also one that is
\* restarting after a panic.
ConsumersStop == stopping ~> \A c \in Checks : gpc[c] = "stopped"
=============================================================================
