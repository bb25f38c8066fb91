--------------------------- MODULE KafkaCheckProofs ---------------------------
(***************************************************************************)
(* Theorems about KafkaCheck, for any set of checks, names, intervals and  *)
(* any bounds on the clock and on the panics.                              *)
(***************************************************************************)
EXTENDS KafkaCheck, TLAPS

-----------------------------------------------------------------------------
(* Types, readers and the map of consumers. *)

\* An entry of the map belongs to a check of that name, and a check that has
\* been initialised has left an entry, its own or that of a namesake.
Filed ==
    /\ \A n \in Names : consumers[n] # None => NameOf[consumers[n]] = n
    /\ \A c \in Checks : started[c] # None => consumers[NameOf[c]] # None

\* An execution under way has found the entry of its name.
Targeted ==
    \A x \in Execs :
        xpc[x] # "idle" => /\ target[x] \in Checks
                           /\ NameOf[target[x]] = NameOf[CheckOf[x]]

Sound == TypeOK /\ OneReader /\ Filed /\ Targeted

\* The steps of a consumer keep the types, and its one reader.
LEMMA ConsumerKeepsSound ==
    ASSUME Sound, NEW c \in Checks, ConsumerStep(c)
    PROVE  Sound'
<1> USE KafkaAssumption
<1>1. ASSUME NEW m \in Messages, Fetch(c, m) PROVE Sound'
  BY <1>1 DEF Sound, Fetch, TypeOK, OneReader, Filed, Targeted, shared, exec,
              GoStates
<1>2. CASE FetchError(c)
  <2>1. gpc' \in [Checks -> GoStates] /\ readers' \in [Checks -> Int]
    BY <1>2 DEF Sound, FetchError, TypeOK, GoStates
  <2>2. OneReader'
    BY <1>2 DEF Sound, FetchError, TypeOK, OneReader
  <2>3. readers' \in [Checks -> Nat]
    BY <2>1, <2>2 DEF OneReader
  <2>4. TypeOK'
    BY <1>2, <2>1, <2>3 DEF Sound, FetchError, TypeOK, shared, exec
  <2> QED
    BY <1>2, <2>2, <2>4 DEF Sound, FetchError, Filed, Targeted, exec
<1>3. CASE StoreMessage(c)
  <2>1. heard' \in [Checks -> Snapshots]
    <3>1. [received |-> TRUE, time |-> now, msg |-> inHand[c]] \in Snapshots
      BY DEF Sound, TypeOK, Snapshots
    <3> QED BY <1>3, <3>1 DEF Sound, StoreMessage, TypeOK
  <2>2. /\ received' \in [Checks -> BOOLEAN]
        /\ lastTime' \in [Checks -> 0 .. MaxTime]
        /\ lastMsg' \in [Checks -> Messages \cup {None}]
    BY <1>3 DEF Sound, StoreMessage, TypeOK
  <2>3. /\ gpc' \in [Checks -> GoStates]
        /\ inHand' \in [Checks -> Messages \cup {None}]
    BY <1>3 DEF Sound, StoreMessage, TypeOK, GoStates
  <2>4. TypeOK'
    BY <1>3, <2>1, <2>2, <2>3 DEF Sound, StoreMessage, TypeOK, exec
  <2> QED
    BY <1>3, <2>4 DEF Sound, StoreMessage, TypeOK, OneReader, Filed, Targeted,
                      exec
<1>4. CASE Panic(c)
  <2>1. /\ gpc' \in [Checks -> GoStates] /\ readers' \in [Checks -> Int]
        /\ inHand' \in [Checks -> Messages \cup {None}]
        /\ panics' \in 0 .. MaxPanics
    BY <1>4 DEF Sound, Panic, TypeOK, GoStates
  <2>2. OneReader'
    BY <1>4 DEF Sound, Panic, TypeOK, OneReader
  <2>3. readers' \in [Checks -> Nat]
    BY <2>1, <2>2 DEF OneReader
  <2>4. TypeOK'
    BY <1>4, <2>1, <2>3 DEF Sound, Panic, TypeOK, shared, exec
  <2> QED
    BY <1>4, <2>2, <2>4 DEF Sound, Panic, Filed, Targeted, exec
<1>5. CASE Recover(c)
  <2>1. TypeOK'
    BY <1>5 DEF Sound, Recover, TypeOK, shared, exec, GoStates
  <2> QED
    BY <1>5, <2>1, SMTT(30)
    DEF Sound, Recover, TypeOK, OneReader, Filed, Targeted, shared, exec, GoStates
<1> QED BY <1>1, <1>2, <1>3, <1>4, <1>5 DEF ConsumerStep

\* The steps of an execution keep the types, and stay with the entry found.
LEMMA ExecuteKeepsSound ==
    ASSUME Sound, NEW x \in Execs, ExecuteStep(x)
    PROVE  Sound'
<1> USE KafkaAssumption
<1>1. CASE Lookup(x)
  <2> DEFINE e == consumers[NameOf[CheckOf[x]]]
  <2>1. e \in Checks /\ NameOf[e] = NameOf[CheckOf[x]]
    BY <1>1 DEF Sound, TypeOK, Filed, Lookup
  <2>2. before' \in [Execs -> SUBSET Execs]
    BY <1>1 DEF Sound, TypeOK, Lookup, Aged
  <2>3. TypeOK'
    BY <1>1, <2>1, <2>2 DEF Sound, Lookup, TypeOK, shared, reader, Places
  <2>4. Targeted'
    BY <1>1, <2>1 DEF Sound, Lookup, TypeOK, Targeted
  <2> QED
    BY <1>1, <2>3, <2>4 DEF Sound, Lookup, OneReader, Filed, reader
<1>2. CASE Read(x)
  <2>1. target[x] \in Checks
    BY <1>2 DEF Sound, Targeted, Read
  <2>2. Snapshot(target[x]) \in Snapshots
    BY <2>1 DEF Sound, TypeOK, Snapshot, Snapshots
  <2>3. TypeOK'
    BY <1>2, <2>2 DEF Sound, Read, TypeOK, shared, reader, Places
  <2> QED
    BY <1>2, <2>3 DEF Sound, Read, TypeOK, OneReader, Filed, Targeted, reader
<1>3. CASE Wait(x)
  <2>1. TypeOK'
    BY <1>3 DEF Sound, Wait, TypeOK, shared, reader, Places, Kinds
  <2> QED
    BY <1>3, <2>1 DEF Sound, Wait, TypeOK, OneReader, Filed, Targeted, reader
<1>4. CASE Measure(x)
  <2>1. now - snap[x].time \in Int
    BY DEF Sound, TypeOK, Snapshots
  <2>2. TypeOK'
    BY <1>4, <2>1 DEF Sound, Measure, TypeOK, shared, reader, Places
  <2> QED
    BY <1>4, <2>2 DEF Sound, Measure, TypeOK, OneReader, Filed, Targeted, reader
<1>5. CASE PublishAge(x)
  <2>1. TypeOK'
    BY <1>5 DEF Sound, PublishAge, TypeOK, shared, reader, Places
  <2> QED
    BY <1>5, <2>1 DEF Sound, PublishAge, TypeOK, OneReader, Filed, Targeted,
                      reader
<1>6. ASSUME NEW ok \in BOOLEAN, Judge(x, ok) PROVE Sound'
  <2>1. verdict' \in [Execs -> Kinds \cup {None}]
    BY <1>6 DEF Sound, TypeOK, Judge, Kinds
  <2>2. TypeOK'
    BY <1>6, <2>1 DEF Sound, Judge, TypeOK, shared, reader, Places
  <2> QED
    BY <1>6, <2>2 DEF Sound, Judge, TypeOK, OneReader, Filed, Targeted, reader
<1>7. CASE JudgePanic(x)
  <2>1. TypeOK'
    BY <1>7 DEF Sound, JudgePanic, TypeOK, shared, reader, Places
  <2> QED
    BY <1>7, <2>1 DEF Sound, JudgePanic, TypeOK, OneReader, Filed, Targeted,
                      reader
<1> QED BY <1>1, <1>2, <1>3, <1>4, <1>5, <1>6, <1>7 DEF ExecuteStep

\* So do initialisation, cancellation and the clock.
LEMMA OthersKeepSound ==
    ASSUME Sound, Advance \/ Cancel \/ \E c \in Checks : InitCheck(c)
    PROVE  Sound'
<1> USE KafkaAssumption
<1>1. CASE Advance
  BY <1>1 DEF Sound, Advance, TypeOK, OneReader, Filed, Targeted, shared,
              reader, exec
<1>2. CASE Cancel
  BY <1>2 DEF Sound, Cancel, TypeOK, OneReader, Filed, Targeted, shared,
              reader, exec
<1>3. ASSUME NEW c \in Checks, InitCheck(c) PROVE Sound'
  <2>1. TypeOK'
    BY <1>3 DEF Sound, InitCheck, TypeOK, shared, exec, GoStates
  <2>2. OneReader'
    BY <1>3 DEF Sound, InitCheck, TypeOK, OneReader
  <2>3. Filed'
    BY <1>3 DEF Sound, InitCheck, TypeOK, Filed
  <2>4. Targeted'
    BY <1>3 DEF Sound, InitCheck, Targeted, exec
  <2> QED BY <2>1, <2>2, <2>3, <2>4 DEF Sound
<1> QED BY <1>1, <1>2, <1>3

\* Every variable keeps its range, one reader per running consumer, and the
\* executions stay with an entry of their own name.
THEOREM SoundHolds == Spec => []Sound
<1>1. Init => Sound
  <2> SUFFICES ASSUME Init PROVE Sound
    OBVIOUS
  <2> USE KafkaAssumption
  <2>1. NoSnapshot \in Snapshots
    BY DEF NoSnapshot, Snapshots
  <2>2. TypeOK
    <3>1. /\ now \in 0 .. MaxTime
          /\ panics \in 0 .. MaxPanics
          /\ lastTime \in [Checks -> 0 .. MaxTime]
          /\ readers \in [Checks -> Nat]
      BY DEF Init
    <3>2. /\ snap \in [Execs -> Snapshots]
          /\ heard \in [Checks -> Snapshots]
          /\ truth \in [Execs -> Snapshots]
      BY <2>1 DEF Init
    <3>3. /\ gpc \in [Checks -> GoStates]
          /\ xpc \in [Execs -> Places]
      BY DEF Init, GoStates, Places
    <3>4. /\ age \in [Execs -> Int]
          /\ at \in [Execs -> 0 .. MaxTime]
          /\ before \in [Execs -> SUBSET Execs]
      BY DEF Init
    <3> QED BY <3>1, <3>2, <3>3, <3>4 DEF Init, TypeOK
  <2>3. OneReader
    BY DEF Init, OneReader
  <2>4. Filed
    BY DEF Init, Filed
  <2>5. Targeted
    BY DEF Init, Targeted
  <2> QED BY <2>2, <2>3, <2>4, <2>5 DEF Sound
<1>2. Sound /\ [Next]_vars => Sound'
  <2> SUFFICES ASSUME Sound, [Next]_vars PROVE Sound'
    OBVIOUS
  <2>1. CASE UNCHANGED vars
    BY <2>1 DEF Sound, TypeOK, OneReader, Filed, Targeted, vars
  <2>2. CASE Next
    BY <2>1, <2>2, ConsumerKeepsSound, ExecuteKeepsSound, OthersKeepSound
    DEF Next, AtRest
  <2> QED BY <2>1, <2>2
<1> QED BY <1>1, <1>2, PTL DEF Spec

\* Every variable of the Kafka checker stays in its range.
THEOREM TypeCorrect == Spec => []TypeOK
<1>1. Sound => TypeOK
  BY DEF Sound
<1> QED BY <1>1, SoundHolds, PTL

\* A check has exactly one open reader while its consumer runs, none before,
\* afterwards and between a panic and the restart.
THEOREM ReadersNotLeaked == Spec => []OneReader
<1>1. Sound => OneReader
  BY DEF Sound
<1> QED BY <1>1, SoundHolds, PTL

-----------------------------------------------------------------------------
(* Restarts. *)

\* What was stored last is what the state holds, and it is not in the future.
Recent == \A c \in Checks : heard[c] = Snapshot(c) /\ lastTime[c] <= now

\* Only StoreMessage changes the state of a check, all of it at once.
LEMMA RecentKept == Sound /\ Recent /\ [Next]_vars => Recent'
<1> SUFFICES ASSUME Sound, Recent, [Next]_vars PROVE Recent'
  OBVIOUS
<1> USE KafkaAssumption DEF Recent, Snapshot
<1>1. CASE UNCHANGED vars
  BY <1>1 DEF vars
<1>2. CASE Advance
  BY <1>2 DEF Sound, TypeOK, Advance, shared
<1>3. CASE Cancel
  BY <1>3 DEF Cancel, shared
<1>4. ASSUME NEW c \in Checks, InitCheck(c) PROVE Recent'
  BY <1>4 DEF InitCheck, shared
<1>5. ASSUME NEW x \in Execs, ExecuteStep(x) PROVE Recent'
  BY <1>5 DEF ExecuteStep, Lookup, Read, Wait, Measure, PublishAge, Judge,
              JudgePanic, shared
<1>6. ASSUME NEW c \in Checks, StoreMessage(c) PROVE Recent'
  <2> TAKE d \in Checks
  <2>1. CASE d = c
    <3>1. /\ received'[d] = TRUE
          /\ lastTime'[d] = now
          /\ lastMsg'[d] = inHand[c]
          /\ heard'[d] = [received |-> TRUE, time |-> now, msg |-> inHand[c]]
      BY <1>6, <2>1 DEF Sound, TypeOK, StoreMessage
    <3>2. now' = now /\ now \in Nat
      BY <1>6 DEF Sound, TypeOK, StoreMessage
    <3>3. heard'[d] = Snapshot(d)'
      BY <3>1, Zenon
    <3>4. lastTime'[d] <= now'
      BY <3>1, <3>2
    <3> QED BY <3>3, <3>4
  <2>2. CASE d # c
    <3>1. /\ received'[d] = received[d]
          /\ lastTime'[d] = lastTime[d]
          /\ lastMsg'[d] = lastMsg[d]
          /\ heard'[d] = heard[d]
          /\ now' = now
      BY <1>6, <2>2 DEF Sound, TypeOK, StoreMessage
    <3> QED BY <3>1
  <2> QED BY <2>1, <2>2
<1>7. ASSUME NEW c \in Checks, NEW m \in Messages, Fetch(c, m) PROVE Recent'
  BY <1>7 DEF Fetch, shared
<1>8. ASSUME NEW c \in Checks, FetchError(c) \/ Panic(c) \/ Recover(c)
      PROVE  Recent'
  BY <1>8 DEF FetchError, Panic, Recover, shared
<1> QED
  BY <1>1, <1>2, <1>3, <1>4, <1>5, <1>6, <1>7, <1>8
  DEF Next, ConsumerStep, AtRest

\* The observer follows the state of the consumer, whoever takes a step.
THEOREM RecentHolds == Spec => []Recent
<1>1. Init => Recent
  <2> SUFFICES ASSUME Init, NEW c \in Checks
               PROVE  heard[c] = Snapshot(c) /\ lastTime[c] <= now
    BY DEF Recent
  <2>1. heard[c] = NoSnapshot
    BY DEF Init
  <2>2. /\ received[c] = FALSE
        /\ lastTime[c] = 0
        /\ lastMsg[c] = None
        /\ now = 0
    BY DEF Init
  <2>3. heard[c] = Snapshot(c)
    BY <2>1, <2>2, Zenon DEF Snapshot, NoSnapshot
  <2>4. lastTime[c] <= now
    BY <2>2
  <2> QED BY <2>3, <2>4
<1>2. Sound /\ Recent /\ [Next]_vars => Recent'
  BY RecentKept
<1> QED BY <1>1, <1>2, SoundHolds, PTL DEF Spec

\* Panics, restarts and errors of the reader never set a check back.
THEOREM NothingIsForgotten == Spec => NothingForgotten
<1> DEFINE Kept == \A c \in Checks : received[c] => /\ received'[c]
                                                  /\ lastTime'[c] >= lastTime[c]
<1>1. Sound /\ Recent /\ [Next]_vars => [Kept]_vars
  <2> SUFFICES ASSUME Sound, Recent, Next PROVE Kept
    OBVIOUS
  <2> USE KafkaAssumption DEF Sound, TypeOK
  <2>1. CASE UNCHANGED <<received, lastTime>>
    BY <2>1
  <2>2. ASSUME NEW c \in Checks, StoreMessage(c) PROVE Kept
    BY <2>2 DEF StoreMessage, Recent
  <2>3. CASE Advance \/ Cancel \/ \E c \in Checks : InitCheck(c)
    BY <2>1, <2>3 DEF Advance, Cancel, InitCheck, shared
  <2>4. ASSUME NEW x \in Execs, ExecuteStep(x) PROVE Kept
    BY <2>1, <2>4 DEF ExecuteStep, Lookup, Read, Wait, Measure, PublishAge,
                      Judge, JudgePanic, shared
  <2>5. ASSUME NEW c \in Checks, ConsumerStep(c), ~StoreMessage(c) PROVE Kept
    BY <2>1, <2>5 DEF ConsumerStep, Fetch, FetchError, Panic, Recover, shared
  <2>6. CASE AtRest
    BY <2>1, <2>6 DEF AtRest, vars
  <2> QED BY <2>2, <2>3, <2>4, <2>5, <2>6 DEF Next
<1> HIDE DEF Kept
<1>2. Spec => [][Kept]_vars
  BY <1>1, SoundHolds, RecentHolds, PTL DEF Spec
<1> QED BY <1>2 DEF NothingForgotten, Kept

-----------------------------------------------------------------------------
(* Verdicts. *)

\* An execution of a check with a name of its own judges the state of its own
\* consumer, by the age of the message it has copied, and once.
Copied ==
    \A x \in Execs :
        /\ xpc[x] # "ended" => verdict[x] = None
        /\ UniquelyNamed(CheckOf[x]) =>
             /\ xpc[x] \in {"copied", "measured", "judging"} =>
                   snap[x] = truth[x]
             /\ xpc[x] \in {"measured", "judging"} =>
                   /\ snap[x].received
                   /\ age[x] = at[x] - truth[x].time

\* Verdicts are true, and executions have copied the state they will judge.
Judged == Copied /\ VerdictJudgesLastMessage

\* The steps before the verdict give none, and lose nothing of what it needs.
LEMMA ExecutePrepares ==
    ASSUME Sound, Recent, Judged, NEW x \in Execs,
           Lookup(x) \/ Read(x) \/ Measure(x) \/ PublishAge(x)
    PROVE  Judged'
<1> USE KafkaAssumption
<1>1. /\ verdict' = verdict
      /\ verdict[x] = None
      /\ xpc'[x] # "ended"
      /\ \A y \in Execs : y # x => /\ xpc'[y] = xpc[y] /\ snap'[y] = snap[y]
                                   /\ truth'[y] = truth[y] /\ at'[y] = at[y]
                                   /\ age'[y] = age[y]
  BY DEF Lookup, Read, Measure, PublishAge, Sound, TypeOK, Judged, Copied
<1>2. ASSUME UniquelyNamed(CheckOf[x])
      PROVE  /\ xpc'[x] \in {"copied", "measured", "judging"} =>
                   snap'[x] = truth'[x]
             /\ xpc'[x] \in {"measured", "judging"} =>
                   /\ snap'[x].received
                   /\ age'[x] = at'[x] - truth'[x].time
  <2>1. CASE Lookup(x)
    BY <2>1 DEF Lookup, Sound, TypeOK
  <2>2. CASE Read(x)
    <3>1. target[x] = CheckOf[x]
      BY <1>2, <2>2 DEF Read, Sound, Targeted, UniquelyNamed
    <3>2. Snapshot(target[x]) = heard[CheckOf[x]]
      BY <3>1 DEF Recent
    <3> QED
      BY <2>2, <3>2 DEF Read, Sound, TypeOK
  <2>3. CASE Measure(x)
    <3>1. /\ xpc'[x] = "measured" /\ snap' = snap /\ truth' = truth
          /\ snap[x].received /\ at'[x] = now
          /\ age'[x] = now - snap[x].time
      BY <2>3 DEF Measure, Sound, TypeOK
    <3>2. snap[x] = truth[x]
      BY <1>2, <2>3 DEF Measure, Judged, Copied
    <3> QED BY <3>1, <3>2
  <2>4. CASE PublishAge(x)
    BY <1>2, <2>4 DEF PublishAge, Sound, TypeOK, Judged, Copied
  <2> QED BY <2>1, <2>2, <2>3, <2>4
<1>3. Copied'
  BY <1>1, <1>2 DEF Judged, Copied, UniquelyNamed
<1>4. VerdictJudgesLastMessage'
  BY <1>1 DEF Judged, VerdictJudgesLastMessage, UniquelyNamed
<1> QED BY <1>3, <1>4 DEF Judged

\* The last step of an execution judges what it has copied, if it does.
LEMMA ExecuteJudges ==
    ASSUME Sound, Judged, NEW x \in Execs,
           Wait(x) \/ JudgePanic(x) \/ \E ok \in BOOLEAN : Judge(x, ok)
    PROVE  Judged'
<1> USE KafkaAssumption
<1> DEFINE c == CheckOf[x]
           s == truth[x]
<1>1. /\ UNCHANGED <<snap, age, at, truth>>
      /\ xpc'[x] = "ended"
      /\ xpc[x] # "ended"
      /\ \A y \in Execs : y # x => xpc'[y] = xpc[y] /\ verdict'[y] = verdict[y]
  BY DEF Wait, JudgePanic, Judge, Sound, TypeOK
<1>2. Copied'
  BY <1>1 DEF Judged, Copied, UniquelyNamed
<1>3. ASSUME UniquelyNamed(c), verdict'[x] # None
      PROVE  /\ verdict'[x] = "waiting" <=> ~s.received
             /\ s.received =>
                   (verdict'[x] = "silent" <=> at[x] - s.time > Interval[c])
             /\ verdict'[x] = "passed" /\ c \in Asserting => s.msg = Good
             /\ verdict'[x] = "failed" => c \in Asserting
  <2>1. CASE Wait(x)
    <3>1. verdict'[x] = "waiting" /\ ~snap[x].received
      BY <2>1 DEF Wait, Sound, TypeOK
    <3>2. snap[x] = s
      BY <1>3, <2>1 DEF Wait, Judged, Copied
    <3> QED BY <3>1, <3>2
  <2>2. CASE JudgePanic(x)
    BY <1>1, <1>3, <2>2 DEF JudgePanic, Judged, Copied
  <2>3. ASSUME NEW ok \in BOOLEAN, Judge(x, ok)
        PROVE  /\ verdict'[x] = "waiting" <=> ~s.received
               /\ s.received =>
                     (verdict'[x] = "silent" <=> at[x] - s.time > Interval[c])
               /\ verdict'[x] = "passed" /\ c \in Asserting => s.msg = Good
               /\ verdict'[x] = "failed" => c \in Asserting
    <3>1. /\ target[x] = c
          /\ snap[x] = s
          /\ s.received
          /\ age[x] = at[x] - s.time
      BY <1>3, <2>3 DEF Judge, Sound, Targeted, UniquelyNamed, Judged, Copied
    <3>2. /\ c \notin Asserting => ok
          /\ verdict'[x] = IF Silent(x) THEN "silent"
                           ELSE IF ok /\ (c \in Asserting => snap[x].msg = Good)
                                THEN "passed" ELSE "failed"
      BY <2>3 DEF Judge, Sound, TypeOK
    <3>3. Silent(x) <=> at[x] - s.time > Interval[c]
      BY <3>1 DEF Silent
    <3> HIDE DEF c, s
    <3> QED BY <3>1, <3>2, <3>3
  <2> QED BY <2>1, <2>2, <2>3
<1>4. VerdictJudgesLastMessage'
  BY <1>1, <1>3 DEF Judged, VerdictJudgesLastMessage, UniquelyNamed
<1> QED BY <1>2, <1>4 DEF Judged

\* The two are inductive together.
THEOREM JudgedHolds == Spec => []Judged
<1>1. Init => Judged
  BY DEF Init, Judged, Copied, VerdictJudgesLastMessage
<1>2. Sound /\ Recent /\ Judged /\ [Next]_vars => Judged'
  <2> SUFFICES ASSUME Sound, Recent, Judged, [Next]_vars PROVE Judged'
    OBVIOUS
  <2>1. CASE UNCHANGED <<xpc, snap, age, at, truth, verdict>>
    BY <2>1 DEF Judged, Copied, VerdictJudgesLastMessage, UniquelyNamed
  <2>2. CASE Advance \/ Cancel \/ \E c \in Checks : InitCheck(c)
    BY <2>1, <2>2 DEF Advance, Cancel, InitCheck, exec
  <2>3. ASSUME NEW x \in Execs, ExecuteStep(x) PROVE Judged'
    BY <2>3, ExecutePrepares, ExecuteJudges DEF ExecuteStep
  <2>4. ASSUME NEW c \in Checks, ConsumerStep(c) PROVE Judged'
    BY <2>1, <2>4 DEF ConsumerStep, Fetch, FetchError, StoreMessage, Panic,
                      Recover, exec
  <2>5. CASE AtRest \/ UNCHANGED vars
    BY <2>1, <2>5 DEF AtRest, vars
  <2> QED BY <2>2, <2>3, <2>4, <2>5 DEF Next
<1> QED BY <1>1, <1>2, SoundHolds, RecentHolds, PTL DEF Spec

\* A verdict on a check with a name of its own is about its last message.
THEOREM VerdictsAreTrue == Spec => []VerdictJudgesLastMessage
<1>1. Judged => VerdictJudgesLastMessage
  BY DEF Judged
<1> QED BY <1>1, JudgedHolds, PTL

-----------------------------------------------------------------------------
(* Ages. *)

\* What an execution finds published when it begins stays published by others.
Followed == \A x \in Execs : before[x] \subseteq Aged(CheckOf[x])

\* The gauge of a check stays current when nobody publishes: the executions
\* that have published are still the same, and so is what they have found.
LEMMA AgeUndisturbed ==
    ASSUME Followed, AgeIsCurrent, gauge' = gauge,
           \A c \in Checks : Aged(c) \subseteq Aged(c)',
           \A c \in Checks : UniquelyNamed(c) => Aged(c)' = Aged(c),
           \A d \in Execs : d \in Aged(CheckOf[d]) =>
               truth'[d] = truth[d] /\ at'[d] = at[d] /\ before'[d] = before[d],
           \A d \in Execs : before'[d] \in {before[d], Aged(CheckOf[d])}
    PROVE  Followed' /\ AgeIsCurrent'
<1> USE KafkaAssumption
<1>1. Followed'
  BY DEF Followed
<1>2. ASSUME NEW c \in Checks, UniquelyNamed(c)
      PROVE  IF Aged(c)' = {} THEN gauge'[NameOf[c]] = None
             ELSE \E d \in Aged(c)' :
                     /\ gauge'[NameOf[c]] = at'[d] - truth'[d].time
                     /\ \A y \in Aged(c)' : d \notin before'[y]
  <2>1. \A d \in Aged(c) : /\ truth'[d] = truth[d] /\ at'[d] = at[d]
                           /\ before'[d] = before[d]
    BY DEF Aged
  <2>2. IF Aged(c) = {} THEN gauge[NameOf[c]] = None
        ELSE \E d \in Aged(c) :
                /\ gauge[NameOf[c]] = at[d] - truth[d].time
                /\ \A y \in Aged(c) : d \notin before[y]
    BY <1>2 DEF AgeIsCurrent
  <2> QED BY <1>2, <2>1, <2>2
<1>3. AgeIsCurrent'
  BY <1>2 DEF AgeIsCurrent, UniquelyNamed
<1> QED BY <1>1, <1>3

\* A step of an execution that publishes leaves its own age, which no other
\* has seen yet; the others publish nothing.
LEMMA ExecuteAges ==
    ASSUME Sound, Copied, Followed, AgeIsCurrent,
           NEW x \in Execs, ExecuteStep(x)
    PROVE  Followed' /\ AgeIsCurrent'
<1> USE KafkaAssumption
<1>1. CASE PublishAge(x)
  <2> DEFINE c == CheckOf[x]
  <2>1. /\ UNCHANGED <<truth, at, before>>
        /\ xpc[x] = "measured" /\ xpc'[x] = "judging"
        /\ \A y \in Execs : y # x => xpc'[y] = xpc[y]
        /\ gauge'[NameOf[c]] = age[x]
        /\ \A n \in Names : n # NameOf[c] => gauge'[n] = gauge[n]
    BY <1>1 DEF PublishAge, Sound, TypeOK
  <2>2. /\ \A d \in Checks : Aged(d) \subseteq Aged(d)'
        /\ \A d \in Checks : d # c => Aged(d)' = Aged(d)
        /\ \A d \in Checks : x \notin Aged(d)
    BY <2>1 DEF Aged
  <2>3. Followed'
    BY <2>1, <2>2 DEF Followed
  <2>4. ASSUME NEW d \in Checks, UniquelyNamed(d), d # c
        PROVE  NameOf[d] # NameOf[c]
    BY <2>4 DEF UniquelyNamed
  <2>5. ASSUME UniquelyNamed(c)
        PROVE  /\ x \in Aged(c)'
               /\ gauge'[NameOf[c]] = at'[x] - truth'[x].time
               /\ \A y \in Aged(c)' : x \notin before'[y]
    <3>1. snap[x] = truth[x] /\ snap[x].received /\ age[x] = at[x] - truth[x].time
      BY <2>1, <2>5 DEF Copied
    <3>2. x \in Aged(c)'
      BY <2>1, <3>1 DEF Aged
    <3>3. \A y \in Aged(c)' : before[y] \subseteq Aged(c)
      BY DEF Followed, Aged
    <3> QED BY <2>1, <2>2, <3>1, <3>2, <3>3
  <2>6. AgeIsCurrent'
    <3> SUFFICES ASSUME NEW d \in Checks, UniquelyNamed(d)
                 PROVE  IF Aged(d)' = {} THEN gauge'[NameOf[d]] = None
                        ELSE \E y \in Aged(d)' :
                                /\ gauge'[NameOf[d]] = at'[y] - truth'[y].time
                                /\ \A z \in Aged(d)' : y \notin before'[z]
      BY DEF AgeIsCurrent, UniquelyNamed
    <3>1. CASE d = c
      BY <2>5, <3>1
    <3>2. CASE d # c
      BY <2>1, <2>2, <2>4, <3>2 DEF AgeIsCurrent
    <3> QED BY <3>1, <3>2
  <2> QED BY <2>3, <2>6
<1>2. CASE Lookup(x)
  <2>1. /\ UNCHANGED <<gauge, truth, at>>
        /\ xpc[x] = "idle" /\ xpc'[x] = "found"
        /\ \A y \in Execs : y # x => xpc'[y] = xpc[y] /\ before'[y] = before[y]
        /\ before'[x] = Aged(CheckOf[x])
    BY <1>2 DEF Lookup, Sound, TypeOK
  <2>2. \A c \in Checks : Aged(c)' = Aged(c) /\ x \notin Aged(c)
    BY <2>1 DEF Aged
  <2> QED BY <2>1, <2>2, AgeUndisturbed
<1>3. CASE Read(x) \/ Measure(x)
  <2>1. /\ UNCHANGED <<gauge, before>>
        /\ xpc[x] \in {"found", "copied"} /\ xpc'[x] \in {"copied", "measured"}
        /\ \A y \in Execs : y # x => /\ xpc'[y] = xpc[y] /\ truth'[y] = truth[y]
                                     /\ at'[y] = at[y]
    BY <1>3 DEF Read, Measure, Sound, TypeOK
  <2>2. \A c \in Checks : Aged(c)' = Aged(c) /\ x \notin Aged(c)
    BY <2>1 DEF Aged
  <2> QED BY <2>1, <2>2, AgeUndisturbed
<1>4. CASE Wait(x)
  <2>1. /\ UNCHANGED <<gauge, before, truth, at>>
        /\ xpc[x] = "copied" /\ xpc'[x] = "ended" /\ ~snap[x].received
        /\ \A y \in Execs : y # x => xpc'[y] = xpc[y]
    BY <1>4 DEF Wait, Sound, TypeOK
  <2>2. \A c \in Checks : Aged(c) \subseteq Aged(c)'
    BY <2>1 DEF Aged
  <2>3. ASSUME NEW c \in Checks, UniquelyNamed(c) PROVE Aged(c)' = Aged(c)
    <3>1. CheckOf[x] = c => ~truth[x].received
      BY <2>1, <2>3 DEF Copied
    <3> QED BY <2>1, <3>1 DEF Aged
  <2> QED BY <2>1, <2>2, <2>3, AgeUndisturbed
<1>5. CASE JudgePanic(x) \/ \E ok \in BOOLEAN : Judge(x, ok)
  <2>1. /\ UNCHANGED <<gauge, before, truth, at>>
        /\ xpc[x] = "judging" /\ xpc'[x] = "ended"
        /\ \A y \in Execs : y # x => xpc'[y] = xpc[y]
    BY <1>5 DEF JudgePanic, Judge, Sound, TypeOK
  <2>2. \A c \in Checks : Aged(c)' = Aged(c)
    BY <2>1 DEF Aged
  <2> QED BY <2>1, <2>2, AgeUndisturbed
<1> QED BY <1>1, <1>2, <1>3, <1>4, <1>5 DEF ExecuteStep

\* The gauge of a check with a name of its own is an age that an execution has
\* found, and no later execution has: those that overlap publish in any order,
\* but what is published is never older than what an execution that began
\* after it has published.
THEOREM AgesAreCurrent == Spec => []AgeIsCurrent
<1> DEFINE Inv == Followed /\ AgeIsCurrent
<1>1. Init => Inv
  BY KafkaAssumption DEF Init, Followed, AgeIsCurrent, Aged
<1>2. Sound /\ Judged /\ Inv /\ [Next]_vars => Inv'
  <2> SUFFICES ASSUME Sound, Copied, Inv, [Next]_vars PROVE Inv'
    BY DEF Judged
  <2>1. CASE UNCHANGED <<xpc, truth, at, before, gauge>>
    <3>1. \A c \in Checks : Aged(c)' = Aged(c)
      BY <2>1 DEF Aged
    <3> QED BY <2>1, <3>1, AgeUndisturbed
  <2>2. CASE Advance \/ Cancel \/ \E c \in Checks : InitCheck(c)
    BY <2>1, <2>2 DEF Advance, Cancel, InitCheck, exec
  <2>3. ASSUME NEW x \in Execs, ExecuteStep(x) PROVE Inv'
    BY <2>3, ExecuteAges
  <2>4. ASSUME NEW c \in Checks, ConsumerStep(c) PROVE Inv'
    BY <2>1, <2>4 DEF ConsumerStep, Fetch, FetchError, StoreMessage, Panic,
                      Recover, exec
  <2>5. CASE AtRest \/ UNCHANGED vars
    BY <2>1, <2>5 DEF AtRest, vars
  <2> QED BY <2>2, <2>3, <2>4, <2>5 DEF Next
<1> QED BY <1>1, <1>2, SoundHolds, JudgedHolds, PTL DEF Spec
=============================================================================
