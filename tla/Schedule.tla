------------------------------- MODULE Schedule -------------------------------
(***************************************************************************)
(* What a duration in a check's `schedule` becomes: parseSchedule of       *)
(* internal/healthcheck/scheduler.go turns it into a cron expression, in   *)
(* which a field "*/n" matches the multiples of n within its range, so     *)
(* ticks restart at every full minute, hour or day.                        *)
(*                                                                         *)
(* Times are seconds. A tick is located by its position in the cycle of    *)
(* the expression (minute, hour or day), which is all that cron looks at.  *)
(***************************************************************************)
EXTENDS Integers

\* The field of the step: its unit in seconds, and its range.
Seconds == [unit |-> 1, range |-> 60]
Minutes == [unit |-> 60, range |-> 60]
Hours   == [unit |-> 3600, range |-> 24]

Step(field, n) == [unit |-> field.unit, range |-> field.range, step |-> n]
Cycle(spec)    == spec.unit * spec.range

\* Mutant: minutes and hours are rounded up.
ParseDuration_RoundsUp(ms) ==
    LET seconds == ms \div 1000
        minutes == (seconds + 59) \div 60
        hours   == (minutes + 59) \div 60
    IN  CASE seconds < 60                  -> Step(Seconds, seconds)
          [] seconds >= 60 /\ minutes < 60 -> Step(Minutes, minutes)
          [] OTHER                         -> Step(Hours, hours)

\* Mutant: durations of an hour and more stay in the minute field.
ParseDuration_NoHours(ms) ==
    LET seconds == ms \div 1000
    IN  IF seconds < 60 THEN Step(Seconds, seconds)
                        ELSE Step(Minutes, seconds \div 60)

\* parseSchedule of a duration, with Go's integer divisions.
ParseDuration(ms) ==
    LET seconds == ms \div 1000
        minutes == seconds \div 60
        hours   == minutes \div 60
    IN  CASE seconds < 60                  -> Step(Seconds, seconds)
          [] seconds >= 60 /\ minutes < 60 -> Step(Minutes, minutes)
          [] OTHER                         -> Step(Hours, hours)

\* The field of spec matches k units after the beginning of a cycle.
Matches(spec, k) == (k % spec.range) % spec.step = 0

\* The next time that matches, strictly after t.
NextTick(spec, t) ==
    LET k0 == t \div spec.unit
        ks == {k \in (k0 + 1) .. (k0 + spec.range) : Matches(spec, k)}
    IN  spec.unit * (CHOOSE k \in ks : \A j \in ks : k <= j)

\* The duration divides the minute, the hour or the day evenly.
Even(ms) ==
    \E field \in {Seconds, Minutes, Hours} :
        LET quantum == 1000 * field.unit
        IN  /\ ms >= quantum
            /\ ms % quantum = 0
            /\ ms < quantum * field.range
            /\ field.range % (ms \div quantum) = 0
=============================================================================
