-------------------------------- MODULE Startup --------------------------------
(***************************************************************************)
(* From a configuration file to the first ticks: the loader's validation   *)
(* and defaults (internal/config/loader.go), the registration of every     *)
(* check by main (checker.Init of internal/healthcheck/kafka.go and        *)
(* AddHealthCheck of internal/healthcheck/scheduler.go), and cron's ticks. *)
(*                                                                         *)
(* A configuration is what json.Unmarshal makes of the file; an absent     *)
(* field has its zero value. Of texts it says whether they are empty, and  *)
(* of the path of the database which of the loader's rules it breaks. A    *)
(* block that may be absent is a sequence of at most one.                  *)
(***************************************************************************)
EXTENDS Schedule, Sequences, FiniteSets

CONSTANTS
    Configs,     \* configurations that are read
    Offsets,     \* seconds after midnight at which the daemon is started
    Prefixed(_)  \* a name behind the fixed text "watchdawg-"

Types == {"http", "grpc", "kafka", "starlark"}
Paths == {"", "special", "query", "upwards", "file"}

\* A hook entry: the keys it has, and of them the url, topic and brokers.
HookConfig ==
    [kinds : SUBSET {"http", "kafka"}, url : BOOLEAN, method : STRING,
     topic : BOOLEAN, brokers : BOOLEAN]

\* `types` are the keys of its blocks, `target` stands for the url, script,
\* topic or gRPC target in them.
HealthCheck ==
    [name : STRING,
     schedule : [form : {"empty", "duration", "cron", "junk"}, ms : Int,
                 padded : BOOLEAN],
     types : SUBSET Types, target : BOOLEAN, brokers : BOOLEAN,
     method : STRING, maxBody : Int, group : STRING,
     retries : Int, timeout : Int, retention : Int,
     onSuccess : Seq(HookConfig), onFailure : Seq(HookConfig)]

Config ==
    [checks : Seq(HealthCheck),
     metrics : Seq([address : BOOLEAN, type : STRING]),
     history : Seq([path : Paths, retention : Int])]

ASSUME StartupAssumption ==
    /\ Configs \subseteq Config
    /\ Offsets \subseteq Nat
    /\ \A f \in Configs : \A i \in DOMAIN f.checks :
         Prefixed(f.checks[i].name) \in STRING \ {""}

VARIABLES
    given,     \* the configuration as it was read
    config,    \* the configuration that main works with
    stage,     \* how far main has come
    entries,   \* the schedules that cron has taken, in order
    intervals, \* expectedInterval of each check that Kafka's Init has seen
    followed,  \* the check whose ticks are observed, 0 for none
    last,      \* position of its last tick, or of the start, in the cycle
    gap,       \* seconds from that to the tick before, or to the start
    fired      \* number of its ticks so far, 2 stands for more

ticks == <<followed, last, gap, fired>>
vars  == <<given, config, stage, entries, intervals, ticks>>

\* cron's entry for an expression of the user's own.
OwnCron == [unit |-> 0, range |-> 0, step |-> 0]

Init ==
    /\ given \in Configs
    /\ config = given
    /\ stage = "read"
    /\ entries = <<>>
    /\ intervals = <<>>
    /\ followed = 0
    /\ last = 0
    /\ gap = 0
    /\ fired = 0

-----------------------------------------------------------------------------
(* validateConfig: what it rejects, and the defaults it fills in. *)

HookValid(h) ==
    /\ Cardinality(h.kinds) = 1
    /\ "http" \in h.kinds => h.url
    /\ "kafka" \in h.kinds => h.topic /\ h.brokers

CheckValid(c) ==
    /\ c.name # ""
    /\ c.schedule.form # "empty"
    /\ Cardinality(c.types) = 1
    /\ c.target
    /\ "starlark" \in c.types => c.maxBody >= 0
    /\ "kafka" \in c.types => c.brokers /\ c.schedule.form = "duration"
    /\ \A i \in DOMAIN c.onSuccess : HookValid(c.onSuccess[i])
    /\ \A i \in DOMAIN c.onFailure : HookValid(c.onFailure[i])

MetricsValid(m) == m.address /\ m.type \in {"", "prometheus"}

HistoryValid(h, checks) ==
    /\ h.path = "file"
    /\ h.retention >= 0
    /\ \A i \in DOMAIN checks : checks[i].retention >= 0

Valid(f) ==
    /\ f.checks # <<>>
    /\ \A i \in DOMAIN f.checks : CheckValid(f.checks[i])
    /\ \A i \in DOMAIN f.metrics : MetricsValid(f.metrics[i])
    /\ \A i \in DOMAIN f.history : HistoryValid(f.history[i], f.checks)

Default(value, zero, default) == IF value = zero THEN default ELSE value

\* Mutant: the default is set without a look at the method that was given.
CompleteHook_Posts(h) ==
    [h EXCEPT !.method = IF "http" \in h.kinds THEN "POST" ELSE @]

CompleteHook(h) ==
    [h EXCEPT !.method = IF "http" \in h.kinds THEN Default(@, "", "POST") ELSE @]

CompleteHooks(hooks) == [i \in DOMAIN hooks |-> CompleteHook(hooks[i])]

DefaultMaxBody   == 10 * 1024 * 1024
ConsumerGroup(c) == Prefixed(c.name)

\* The defaults within the blocks of a check.
CompleteBlocks(c) ==
    [c EXCEPT
        !.method  = IF "http" \in c.types THEN Default(@, "", "GET") ELSE @,
        !.maxBody = IF "starlark" \in c.types THEN Default(@, 0, DefaultMaxBody) ELSE @,
        !.group   = IF "kafka" \in c.types
                    THEN Default(@, "", ConsumerGroup(c)) ELSE @,
        !.onSuccess = CompleteHooks(@),
        !.onFailure = CompleteHooks(@)]

\* Mutant: the defaults of retries and timeout go to the copy that range
\* makes of each check.
CompleteCheck_LoopCopy(c) == CompleteBlocks(c)

\* Every default is written to the configuration itself, through a pointer
\* or through config.HealthChecks[i]; a negative timeout stays.
CompleteCheck(c) ==
    [CompleteBlocks(c) EXCEPT !.retries = IF @ < 0 THEN 0 ELSE @,
                              !.timeout = Default(@, 0, 30)]

CompleteMetrics(m) == [m EXCEPT !.type = Default(@, "", "prometheus")]
CompleteHistory(h) == [h EXCEPT !.retention = Default(@, 0, 1000)]

Complete(f) ==
    [f EXCEPT
        !.checks  = [i \in DOMAIN @ |-> CompleteCheck(@[i])],
        !.metrics = [i \in DOMAIN @ |-> CompleteMetrics(@[i])],
        !.history = [i \in DOMAIN @ |-> CompleteHistory(@[i])]]

\* config.Load; main exits when it returns an error.
Load ==
    /\ stage = "read"
    /\ IF Valid(given)
       THEN config' = Complete(given) /\ stage' = "adding"
       ELSE UNCHANGED config /\ stage' = "invalid"
    /\ UNCHANGED <<given, entries, intervals, ticks>>

-----------------------------------------------------------------------------
(* Registration and ticks. *)

\* The first checker whose IsMatching holds.
Checker(c) ==
    CASE "http" \in c.types     -> "http"
      [] "grpc" \in c.types     -> "grpc"
      [] "kafka" \in c.types    -> "kafka"
      [] "starlark" \in c.types -> "starlark"
      [] OTHER                  -> "none"

\* Mutant: every checker's Init parses the schedule as it stands.
InitFails_Padded(c) == c.schedule.form # "duration" \/ c.schedule.padded

\* Kafka's Init parses the schedule again, without trimming it.
InitFails(c) ==
    /\ Checker(c) = "kafka"
    /\ c.schedule.form # "duration" \/ c.schedule.padded

\* parseSchedule and cron.AddFunc: cron refuses junk, and a step below 1. An
\* expression of the user's own is cron's business from here on.
Entry(c) == IF c.schedule.form = "duration" THEN ParseDuration(c.schedule.ms)
                                            ELSE OwnCron

Refused(c) ==
    \/ c.schedule.form = "junk"
    \/ c.schedule.form = "duration" /\ Entry(c).step < 1

\* AddHealthCheck, in the order of the configuration; main exits when one
\* fails. Kafka's Init has started its consumer by the time AddFunc fails.
AddHealthCheck ==
    /\ stage = "adding"
    /\ Len(entries) < Len(config.checks)
    /\ LET c == config.checks[Len(entries) + 1]
           matched == Checker(c) # "none" /\ ~InitFails(c)
       IN  /\ intervals' = IF matched
                           THEN Append(intervals, IF Checker(c) = "kafka"
                                                  THEN c.schedule.ms ELSE 0)
                           ELSE intervals
           /\ IF matched /\ ~Refused(c)
              THEN entries' = Append(entries, Entry(c)) /\ UNCHANGED stage
              ELSE UNCHANGED entries /\ stage' = "failed"
    /\ UNCHANGED <<given, config, ticks>>

\* Start, at some time of the day; one of the durations is followed.
StartCron ==
    /\ stage = "adding"
    /\ Len(entries) = Len(config.checks)
    /\ stage' = "running"
    /\ \/ \E i \in DOMAIN entries, t \in Offsets :
            /\ entries[i] # OwnCron
            /\ followed' = i
            /\ last' = t % Cycle(entries[i])
       \/ /\ \A i \in DOMAIN entries : entries[i] = OwnCron
          /\ UNCHANGED <<followed, last>>
    /\ UNCHANGED <<given, config, entries, intervals, gap, fired>>

Fire ==
    /\ stage = "running"
    /\ followed # 0
    /\ LET spec == entries[followed]
           next == NextTick(spec, last)
       IN  /\ gap' = next - last
           /\ last' = next % Cycle(spec)
    /\ fired' = IF fired = 2 THEN 2 ELSE fired + 1
    /\ UNCHANGED <<given, config, stage, entries, intervals, followed>>

\* main has exited, or cron runs the user's own expressions.
Settled ==
    /\ stage \in {"invalid", "failed"} \/ (stage = "running" /\ followed = 0)
    /\ UNCHANGED vars

Next == Load \/ AddHealthCheck \/ StartCron \/ Fire \/ Settled

Spec == Init /\ [][Next]_vars

-----------------------------------------------------------------------------

Loaded == stage \in {"adding", "failed", "running"}

IsSendable(h) == h.kinds = {"kafka"} \/ (h.kinds = {"http"} /\ h.method # "")

IsRunnable(c) ==
    /\ c.retries \in Nat
    /\ c.timeout # 0
    /\ "http" \in c.types => c.method # ""
    /\ "starlark" \in c.types => c.maxBody \in Nat \ {0}
    /\ "kafka" \in c.types => c.group # "" /\ c.schedule.form = "duration"
    /\ \A i \in DOMAIN c.onSuccess : IsSendable(c.onSuccess[i])
    /\ \A i \in DOMAIN c.onFailure : IsSendable(c.onFailure[i])

\* What the loader lets through is what the rest of the program takes for
\* granted, field by field: the loop of executeWithRetry makes at least one
\* attempt, no context starts out expired for want of a timeout, the retention
\* keeps at least one record (loader.go:58-180, retry.go:16, scheduler.go:173).
LoadedIsRunnable ==
    Loaded => /\ \A i \in DOMAIN config.checks : IsRunnable(config.checks[i])
              /\ \A i \in DOMAIN config.history :
                   /\ config.history[i].retention \in Nat \ {0}
                   /\ \A k \in DOMAIN config.checks :
                        config.checks[k].retention \in Nat

Zero(field) == IF field \in {"method", "group", "type"} THEN "" ELSE 0

\* Every field is as it was given, or was a gap that a default may fill.
Kept(old, new, exempt, gaps) ==
    \A f \in DOMAIN old \ exempt :
        new[f] = old[f] \/ (f \in gaps /\ old[f] = Zero(f))

AllKept(old, new, gaps) ==
    /\ Len(new) = Len(old)
    /\ \A i \in DOMAIN old : Kept(old[i], new[i], {}, gaps)

\* A default only ever fills a gap: whatever a check, one of its hooks, the
\* metrics or the history block were given is kept, with negative retries as
\* the one exception (loader.go:85-124, 138, 165, 201).
OwnValuesKept ==
    Loaded =>
        /\ Len(config.checks) = Len(given.checks)
        /\ \A i \in DOMAIN given.checks :
             LET old == given.checks[i]
                 new == config.checks[i]
             IN  /\ Kept(old, new, {"retries", "onSuccess", "onFailure"},
                         {"method", "maxBody", "group", "timeout"})
                 /\ new.retries = IF old.retries < 0 THEN 0 ELSE old.retries
                 /\ AllKept(old.onSuccess, new.onSuccess, {"method"})
                 /\ AllKept(old.onFailure, new.onFailure, {"method"})
        /\ AllKept(given.metrics, config.metrics, {"type"})
        /\ AllKept(given.history, config.history, {"retention"})

\* Once the loader has accepted a configuration only a schedule can keep the
\* daemon from starting: one that cron does not understand, one below a
\* second, or white space around that of a Kafka check, which validation trims
\* and Init does not (loader.go:185, kafka.go:90, scheduler.go:143-157).
OnlySchedulesFailLate ==
    stage = "failed" =>
        LET c == config.checks[Len(entries) + 1]
        IN  \/ c.schedule.form = "junk"
            \/ c.schedule.form = "duration" /\ c.schedule.ms < 1000
            \/ c.types = {"kafka"} /\ c.schedule.padded

\* However a duration is rounded on its way to cron, the check is started at
\* least once per configured interval, from the start of the daemon on. For a
\* Kafka check that is also the interval its Init has parsed, by which the ages
\* are judged: no two ticks are further apart (scheduler.go:145-158,
\* kafka.go:98).
NeverLate ==
    fired > 0 =>
        LET c == config.checks[followed]
        IN  /\ gap * 1000 <= c.schedule.ms
            /\ c.types = {"kafka"} => gap * 1000 <= intervals[followed]

\* A duration that divides the minute, the hour or the day evenly is kept to
\* the second, also across the end of the cycle (scheduler.go:147-157).
ExactWhenEven ==
    LET ms == config.checks[followed].schedule.ms
    IN  (fired = 2 /\ Even(ms)) => gap * 1000 = ms

-----------------------------------------------------------------------------
(* What the documents promise and the code does not keep; see the README. *)

\* README, schedule formats: an interval "runs every N duration".
FiresEveryInterval ==
    fired = 2 => gap * 1000 = config.checks[followed].schedule.ms
=============================================================================
