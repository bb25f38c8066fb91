------------------------------- MODULE Retrying -------------------------------
(***************************************************************************)
(* What executeWithRetry and executeOnce promise of one execution, alone   *)
(* in the world and whatever a check is: attempts follow one another until *)
(* one is healthy or all have failed; each is counted once, with its own   *)
(* result; one that has not got past the context before it expires can     *)
(* only fail; a panic is counted as a failure and ends the execution.      *)
(*                                                                         *)
(* Scheduler implements this for every execution, and Attempt implements   *)
(* the single attempt that Scheduler leaves open.                          *)
(***************************************************************************)
EXTENDS Naturals

CONSTANT Retries  \* attempts that may follow the first

VARIABLES
    place,    \* where the execution is: "fresh" at the start of an attempt
    number,   \* number of the attempt
    expired,  \* the context has expired
    healthy,  \* the result of the last attempt that has ended
    passed,   \* RecordCheckAttempt calls with a healthy result
    failed    \* ... and with an unhealthy one

vars == <<place, number, expired, healthy, passed, failed>>

Init ==
    /\ place = "fresh"
    /\ number = 1
    /\ expired \in BOOLEAN
    /\ healthy = FALSE
    /\ passed = 0
    /\ failed = 0

Expire ==
    /\ ~expired
    /\ expired' = TRUE
    /\ UNCHANGED <<place, number, healthy, passed, failed>>

\* The attempt has a result.
Result(ok) ==
    /\ healthy' = ok
    /\ passed' = IF ok THEN passed + 1 ELSE passed
    /\ failed' = IF ok THEN failed ELSE failed + 1
    /\ place' = IF ok \/ number = Retries + 1 THEN "settled" ELSE "pausing"
    /\ UNCHANGED <<number, expired>>

\* It fails before anything has left or run.
Refuse == place = "fresh" /\ Result(FALSE)

\* The context was live when it was last looked at.
Commit ==
    /\ place = "fresh"
    /\ ~expired
    /\ place' = "committed"
    /\ UNCHANGED <<number, expired, healthy, passed, failed>>

Return == place = "committed" /\ \E ok \in BOOLEAN : Result(ok)

Panic ==
    /\ place = "committed"
    /\ place' = "panicked"
    /\ failed' = failed + 1
    /\ UNCHANGED <<number, expired, healthy, passed>>

Retry ==
    /\ place = "pausing"
    /\ place' = "fresh"
    /\ number' = number + 1
    /\ UNCHANGED <<expired, healthy, passed, failed>>

Next == Expire \/ Refuse \/ Commit \/ Return \/ Panic \/ Retry

Spec == Init /\ [][Next]_vars
=============================================================================
