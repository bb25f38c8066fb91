------------------------------ MODULE MCStartup ------------------------------
(* Instances of Startup for TLC. *)
EXTENDS Startup

Every(ms)    == [form |-> "duration", ms |-> ms, padded |-> FALSE]
Padded(ms)   == [form |-> "duration", ms |-> ms, padded |-> TRUE]
Other(form)  == [form |-> form, ms |-> 0, padded |-> FALSE]

\* Every number of seconds to beyond the first hour, fractions and negative
\* values, and hours around the length of the day.
MCDurations ==
    {1000 * s : s \in 1 .. 150} \cup {1000 * s : s \in 3500 .. 3700}
    \cup {60000 * m : m \in 1 .. 130} \cup {1800000 * h : h \in 1 .. 60}
    \cup {-5000, 0, 500, 999, 1500, 59999, 60001, 3599999, 86400001}

Prefix(name) == "watchdawg-" \o name

MCOffsets == {0, 1, 59, 60, 3599, 3601, 43217, 86399}

Sound(type) ==
    [name |-> "a", schedule |-> Every(30000), types |-> {type},
     target |-> TRUE, brokers |-> TRUE, method |-> "", maxBody |-> 0,
     group |-> "", retries |-> 0, timeout |-> 0, retention |-> 0,
     onSuccess |-> <<>>, onFailure |-> <<>>]

MCHookSet ==
    [kinds : SUBSET {"http", "kafka"}, url : BOOLEAN, method : {"", "PUT"},
     topic : BOOLEAN, brokers : BOOLEAN]
SoundHook == [kinds |-> {"http"}, url |-> TRUE, method |-> "",
              topic |-> FALSE, brokers |-> FALSE]

Alone(c) == [checks |-> <<c>>, metrics |-> <<>>, history |-> <<>>]
Pair(c)  == [checks |-> <<Sound("http"), c>>, metrics |-> <<>>, history |-> <<>>]

\* Schedules of every form and length, for a Kafka check and another one.
Scheduled ==
    {Alone([Sound(t) EXCEPT !.schedule = s]) : t \in {"http", "kafka"},
        s \in {Every(ms) : ms \in MCDurations}}
    \cup {Pair([Sound(t) EXCEPT !.schedule = s]) : t \in {"grpc", "kafka"},
        s \in {Padded(45000), Padded(500), Other("cron"), Other("junk"),
               Other("empty")}}

\* Fields given, absent, negative or missing, for every combination of types.
Fields ==
    {Pair([name |-> n, schedule |-> Every(45000), types |-> ts, target |-> ta,
           brokers |-> br, method |-> m, maxBody |-> b, group |-> g,
           retries |-> r, timeout |-> t, retention |-> 0,
           onSuccess |-> <<>>, onFailure |-> <<>>]) :
        n \in {"", "b"}, ts \in SUBSET Types, ta \in BOOLEAN, br \in BOOLEAN,
        m \in {"", "PUT"}, b \in {-1, 0, 1}, g \in {"", "own"},
        r \in {-2, 0, 2}, t \in {-5, 0, 5}}

\* Hook entries of every shape, also behind a sound one.
Hooked ==
    {Pair([Sound("starlark") EXCEPT !.onSuccess = hs[1], !.onFailure = hs[2]]) :
        hs \in {<<<<h>>, <<>>>> : h \in MCHookSet}
               \cup {<<<<>>, <<SoundHook, h>>>> : h \in MCHookSet}}

\* The blocks beside the checks.
Blocks ==
    {[checks |-> cs, metrics |-> ms, history |-> hs] :
        cs \in {<<>>} \cup {<<[Sound("http") EXCEPT !.retention = r]>> :
                             r \in {-1, 0, 7}},
        ms \in {<<>>} \cup {<<m>> : m \in [address : BOOLEAN,
                              type : {"", "prometheus", "statsd"}]},
        hs \in {<<>>} \cup {<<h>> : h \in [path : Paths,
                              retention : {-1, 0, 7}]}}

MCConfigs == Scheduled \cup Fields \cup Hooked \cup Blocks

\* Schedules alone.
SoloConfigs == Scheduled
=============================================================================
