------------------------------- MODULE MCDaemon -------------------------------
(* Instances of Daemon for TLC. *)
EXTENDS Daemon

CONSTANTS web, rpc, \* an HTTP and a gRPC check
          event,    \* a Kafka hook
          alerts    \* a topic

\* An execution of each check; both are recorded, a failure of web publishes
\* to Kafka.
MCChecks      == {web, rpc}
MCHooks       == {event}
MCDestOf      == [h \in MCHooks |-> alerts]
MCCheckOf     == <<web, rpc>>
MCRetries     == [c \in MCChecks |-> 0]
MCOnSuccess   == [c \in MCChecks |-> {}]
MCOnFailure   == [c \in MCChecks |-> IF c = web THEN {event} ELSE {}]
MCRecordFlag  == [c \in MCChecks |-> TRUE]

\* One execution.
SoloCheckOf   == <<web>>
=============================================================================
