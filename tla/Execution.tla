------------------------------ MODULE Execution ------------------------------
(***************************************************************************)
(* What an execution of a check promises, whatever retries, timeouts,      *)
(* overlapping executions and the shutdown make of it: it settles on one   *)
(* outcome and publishes it once; then, and only then, it reports it to    *)
(* the history if the check has opted in, and tells the hooks of that      *)
(* outcome. It may crash, but only before it has published anything.       *)
(* Scheduler implements this specification.                                *)
(***************************************************************************)

CONSTANTS
    Checks,       \* the checks
    KafkaChecks,  \* those that are announced as up when they are registered
    Execs,        \* executions
    CheckOf,      \* CheckOf[e]: the check of execution e
    Opted,        \* checks whose executions are recorded
    OnSuccess, OnFailure  \* hooks of each check, by outcome

VARIABLES
    stage,    \* stage[e]: how far execution e has come
    outcome,  \* outcome[e]: what it has settled on
    gauge,    \* gauge[c]: the published state of check c
    history,  \* executions that were reported
    told      \* told[e]: hooks that execution e has started

vars == <<stage, outcome, gauge, history, told>>

Outcomes == {"up", "down"}

HooksOf(c, ok) == IF ok = "up" THEN OnSuccess[c] ELSE OnFailure[c]

Init ==
    /\ stage = [e \in Execs |-> "idle"]
    /\ outcome = [e \in Execs |-> "none"]
    /\ gauge = [c \in Checks |-> "absent"]
    /\ history = {}
    /\ told = [e \in Execs |-> {}]

\* A registration never follows an execution.
Register(c) ==
    /\ c \in KafkaChecks
    /\ \A e \in Execs : stage[e] = "idle"
    /\ gauge' = [gauge EXCEPT ![c] = "up"]
    /\ UNCHANGED <<stage, outcome, history, told>>

Begin(e) ==
    /\ stage[e] = "idle"
    /\ stage' = [stage EXCEPT ![e] = "running"]
    /\ UNCHANGED <<outcome, gauge, history, told>>

Crash(e) ==
    /\ stage[e] = "running"
    /\ stage' = [stage EXCEPT ![e] = "crashed"]
    /\ UNCHANGED <<outcome, gauge, history, told>>

Publish(e, ok) ==
    /\ stage[e] = "running"
    /\ stage' = [stage EXCEPT ![e] = "published"]
    /\ outcome' = [outcome EXCEPT ![e] = ok]
    /\ gauge' = [gauge EXCEPT ![CheckOf[e]] = ok]
    /\ UNCHANGED <<history, told>>

Report(e) ==
    /\ stage[e] = "published"
    /\ stage' = [stage EXCEPT ![e] = "reported"]
    /\ history' = IF CheckOf[e] \in Opted THEN history \cup {e} ELSE history
    /\ UNCHANGED <<outcome, gauge, told>>

Tell(e) ==
    /\ stage[e] = "reported"
    /\ stage' = [stage EXCEPT ![e] = "told"]
    /\ told' = [told EXCEPT ![e] = HooksOf(CheckOf[e], outcome[e])]
    /\ UNCHANGED <<outcome, gauge, history>>

End(e) ==
    /\ stage[e] = "told"
    /\ stage' = [stage EXCEPT ![e] = "ended"]
    /\ UNCHANGED <<outcome, gauge, history, told>>

Step(e) ==
    \/ Begin(e)
    \/ Crash(e)
    \/ \E ok \in Outcomes : Publish(e, ok)
    \/ Report(e)
    \/ Tell(e)
    \/ End(e)

Next == (\E c \in Checks : Register(c)) \/ (\E e \in Execs : Step(e))

Spec == Init /\ [][Next]_vars
=============================================================================
