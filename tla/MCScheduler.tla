----------------------------- MODULE MCScheduler -----------------------------
(* Instances of Scheduler for TLC. *)
EXTENDS Scheduler

CONSTANTS web, topic,        \* an HTTP and a Kafka check
          page, event, note, \* hooks: page is a webhook, event for Kafka
          alerts             \* a topic

MCChecks      == {web, topic}
MCKafkaChecks == {topic}
MCHooks       == {page, event, note}
MCRecordFlag  == [c \in MCChecks |-> c = web]

\* Two executions of web, which may overlap, and one of topic. The hooks event
\* of the one and note of the other publish to the same topic.
MCKafkaHooks == {event, note}
MCDestOf     == [h \in MCKafkaHooks |-> alerts]
MCCheckOf   == <<web, web, topic>>
MCRetries   == [c \in MCChecks |-> IF c = web THEN 1 ELSE 0]
MCOnSuccess == [c \in MCChecks |-> IF c = web THEN {} ELSE {note}]
MCOnFailure == [c \in MCChecks |-> IF c = web THEN {event} ELSE {}]

\* One execution each, with all hooks on one check and two retries. The hook
\* note is a webhook with a broken template.
SoloDestOf    == [h \in {event} |-> alerts]
SoloCheckOf   == <<web, topic>>
SoloRetries   == [c \in MCChecks |-> 2]
SoloOnSuccess == [c \in MCChecks |-> IF c = web THEN {} ELSE {event}]
SoloOnFailure == [c \in MCChecks |-> IF c = web THEN MCHooks ELSE {page}]
=============================================================================
