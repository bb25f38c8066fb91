------------------------------- MODULE Recorder -------------------------------
(***************************************************************************)
(* The asynchronous history recorder (internal/history/recorder.go): a     *)
(* buffered Go channel, one consumer goroutine that writes to the store,   *)
(* and two ways to end it, the cancelled context that Start was given and  *)
(* Stop, which closes the channel.                                         *)
(*                                                                         *)
(* Record is called by any number of goroutines; a Go channel operation is *)
(* one atomic step. A job is the record of one execution.                  *)
(***************************************************************************)
EXTENDS Naturals, Sequences

CONSTANTS Jobs,     \* the records that are ever handed to Record
          Capacity, \* channelBufferSize
          NoJob     \* no job is in the consumer's hands

ASSUME CapacityAssumption == Capacity \in Nat \ {0}
ASSUME NoJobAssumption == NoJob \notin Jobs

VARIABLES
    ch,        \* r.ch, oldest first
    chClosed,  \* close(r.ch) has been called
    cancelled, \* the context given to Start is cancelled
    cpc,       \* where the consumer goroutine is
    job,       \* the job in its hands
    storeOpen, \* store.Close has not been called
    done,      \* close(r.done) has been called
    stop,      \* where the caller of Stop is
    written,   \* the jobs that are in the store, in the order of the writes
    spoiled,   \* jobs whose write failed or panicked: logged, then skipped
    dropped,   \* jobs that met a full channel: logged
    panicked,  \* jobs whose send met a closed channel
    accepted,  \* observer: jobs that entered the channel, in order
    handled,   \* observer: jobs the consumer is through with, in order
    mark       \* observer: Len(accepted) at the cancellation

channel  == <<ch, chClosed>>
consumer == <<cpc, job, storeOpen, done>>
outcome  == <<written, spoiled, handled>>
offered  == <<dropped, panicked, accepted>>
vars     == <<ch, chClosed, cancelled, cpc, job, storeOpen, done, stop,
              written, spoiled, dropped, panicked, accepted, handled, mark>>

ConsumerStates == {"select", "write", "drain", "drainWrite", "closing",
                   "signalling", "exited"}
Writing == cpc \in {"write", "drainWrite"}
Left    == cpc \in {"closing", "signalling", "exited"}
InHand  == IF Writing THEN <<job>> ELSE << >>

Seen(j) ==
    \/ \E i \in DOMAIN accepted : accepted[i] = j
    \/ j \in dropped \cup panicked

Init ==
    /\ ch = << >>
    /\ chClosed = FALSE
    /\ cancelled = FALSE
    /\ cpc = "select"
    /\ job = NoJob
    /\ storeOpen = TRUE
    /\ done = FALSE
    /\ stop = "idle"
    /\ written = << >>
    /\ spoiled = {}
    /\ dropped = {}
    /\ panicked = {}
    /\ accepted = << >>
    /\ handled = << >>
    /\ mark = 0

-----------------------------------------------------------------------------
(* Record: a non-blocking send. *)

Enqueue(j) ==
    /\ ~chClosed
    /\ Len(ch) < Capacity
    /\ ch' = Append(ch, j)
    /\ accepted' = Append(accepted, j)
    /\ UNCHANGED <<dropped, panicked>>

\* Mutant: a full channel loses its oldest job instead of the new one.
DropFull_Oldest(j) ==
    /\ ~chClosed
    /\ Len(ch) >= Capacity
    /\ dropped' = dropped \cup {Head(ch)}
    /\ ch' = Append(Tail(ch), j)
    /\ accepted' = Append(accepted, j)
    /\ UNCHANGED panicked

DropFull(j) ==
    /\ ~chClosed
    /\ Len(ch) >= Capacity
    /\ dropped' = dropped \cup {j}
    /\ UNCHANGED <<ch, panicked, accepted>>

\* A send on a closed channel panics even inside a select with a default.
SendPanic(j) ==
    /\ chClosed
    /\ panicked' = panicked \cup {j}
    /\ UNCHANGED <<ch, dropped, accepted>>

Record(j) ==
    /\ ~Seen(j)
    /\ Enqueue(j) \/ DropFull(j) \/ SendPanic(j)
    /\ UNCHANGED <<chClosed, cancelled, consumer, stop, outcome, mark>>

-----------------------------------------------------------------------------
(* Start: the consumer goroutine. *)

Take(from, to) ==
    /\ cpc = from
    /\ ch # << >>
    /\ job' = Head(ch)
    /\ ch' = Tail(ch)
    /\ cpc' = to
    /\ UNCHANGED <<chClosed, cancelled, storeOpen, done, stop, outcome,
                   offered, mark>>

Goto(to) ==
    /\ cpc' = to
    /\ UNCHANGED <<channel, cancelled, job, storeOpen, done, stop, outcome,
                   offered, mark>>

\* case job, ok := <-r.ch
Receive == Take("select", "write")

\* Mutant: the second result of the receive is ignored.
ReceiveClosed_Spins ==
    cpc = "select" /\ chClosed /\ ch = << >> /\ Goto("select")

\* ... with !ok: the channel is closed and empty.
ReceiveClosed == cpc = "select" /\ chClosed /\ ch = << >> /\ Goto("closing")

\* Mutant: the cancelled consumer returns without draining.
CtxDone_NoDrain == cpc = "select" /\ cancelled /\ Goto("closing")

\* Mutant: the cancellation closes the store first.
CtxDone_ClosesStore ==
    /\ cpc = "select"
    /\ cancelled
    /\ cpc' = "drain"
    /\ storeOpen' = FALSE
    /\ UNCHANGED <<channel, cancelled, job, done, stop, outcome, offered,
                   mark>>

\* case <-ctx.Done(): chosen at random when both cases are ready.
CtxDone == cpc = "select" /\ cancelled /\ Goto("drain")

DrainReceive == Take("drain", "drainWrite")

\* !ok or default: drain and then Start return.
DrainEnd == cpc = "drain" /\ ch = << >> /\ Goto("closing")

\* Mutant: the job is still in hand after the write.
WriteJob_KeepsJob(ok) ==
    /\ Writing
    /\ ok => storeOpen
    /\ written' = IF ok THEN Append(written, job) ELSE written
    /\ spoiled' = IF ok THEN spoiled ELSE spoiled \cup {job}
    /\ handled' = Append(handled, job)
    /\ cpc' = IF cpc = "write" THEN "select" ELSE "drain"
    /\ UNCHANGED <<channel, cancelled, job, storeOpen, done, stop, offered,
                   mark>>

\* Mutant: a failed write ends the consumer.
WriteJob_StopsOnError(ok) ==
    /\ Writing
    /\ ok => storeOpen
    /\ written' = IF ok THEN Append(written, job) ELSE written
    /\ spoiled' = IF ok THEN spoiled ELSE spoiled \cup {job}
    /\ handled' = Append(handled, job)
    /\ job' = NoJob
    /\ cpc' = IF ~ok THEN "closing" ELSE IF cpc = "write" THEN "select" ELSE "drain"
    /\ UNCHANGED <<channel, cancelled, storeOpen, done, stop, offered, mark>>

\* writeJob: an error or a panic of the store is logged and the job skipped.
WriteJob(ok) ==
    /\ Writing
    /\ ok => storeOpen
    /\ written' = IF ok THEN Append(written, job) ELSE written
    /\ spoiled' = IF ok THEN spoiled ELSE spoiled \cup {job}
    /\ handled' = Append(handled, job)
    /\ job' = NoJob
    /\ cpc' = IF cpc = "write" THEN "select" ELSE "drain"
    /\ UNCHANGED <<channel, cancelled, storeOpen, done, stop, offered, mark>>

\* The deferred r.store.Close() and then close(r.done).
CloseStore ==
    /\ cpc = "closing"
    /\ cpc' = "signalling"
    /\ storeOpen' = FALSE
    /\ UNCHANGED <<channel, cancelled, job, done, stop, outcome, offered,
                   mark>>

SignalDone ==
    /\ cpc = "signalling"
    /\ cpc' = "exited"
    /\ done' = TRUE
    /\ UNCHANGED <<channel, cancelled, job, storeOpen, stop, outcome,
                   offered, mark>>

-----------------------------------------------------------------------------
(* The owner: cancels the context, calls Stop. *)

Cancel ==
    /\ ~cancelled
    /\ cancelled' = TRUE
    /\ mark' = Len(accepted)
    /\ UNCHANGED <<channel, consumer, stop, outcome, offered>>

StopClose ==
    /\ stop = "idle"
    /\ stop' = "waiting"
    /\ chClosed' = TRUE
    /\ UNCHANGED <<ch, cancelled, consumer, outcome, offered, mark>>

StopDone ==
    /\ stop = "waiting"
    /\ done
    /\ stop' = "returned"
    /\ UNCHANGED <<channel, cancelled, consumer, outcome, offered, mark>>

\* time.After(5s) comes first: the consumer goes on behind Stop's back.
StopTimeout ==
    /\ stop = "waiting"
    /\ stop' = "timedOut"
    /\ UNCHANGED <<channel, cancelled, consumer, outcome, offered, mark>>

-----------------------------------------------------------------------------

ConsumerStep ==
    \/ Receive
    \/ ReceiveClosed
    \/ CtxDone
    \/ DrainReceive
    \/ DrainEnd
    \/ \E ok \in BOOLEAN : WriteJob(ok)
    \/ CloseStore
    \/ SignalDone

StopReturn == StopDone \/ StopTimeout

\* Everything has ended and no job is left to offer.
Ended == done /\ stop \in {"returned", "timedOut"} /\ UNCHANGED vars

Next ==
    \/ \E j \in Jobs : Record(j)
    \/ ConsumerStep
    \/ Cancel
    \/ StopClose
    \/ StopReturn
    \/ Ended

Spec == Init /\ [][Next]_vars

\* The goroutine runs whenever it can (a write is cut off after 5 s), and the
\* select in Stop returns. Nobody has to record, to cancel or to call Stop.
FairSpec == Spec /\ WF_vars(ConsumerStep) /\ WF_vars(StopReturn)

-----------------------------------------------------------------------------

TypeOK ==
    /\ ch \in Seq(Jobs)
    /\ chClosed \in BOOLEAN
    /\ cancelled \in BOOLEAN
    /\ cpc \in ConsumerStates
    /\ job \in Jobs \cup {NoJob}
    /\ job \in Jobs <=> Writing
    /\ storeOpen \in BOOLEAN
    /\ done \in BOOLEAN
    /\ stop \in {"idle", "waiting", "returned", "timedOut"}
    /\ written \in Seq(Jobs)
    /\ spoiled \subseteq Jobs
    /\ dropped \subseteq Jobs
    /\ panicked \subseteq Jobs
    /\ accepted \in Seq(Jobs)
    /\ handled \in Seq(Jobs)
    /\ mark \in Nat

\* No record is lost, doubled or reordered between Record and the store: what
\* was accepted is what was handled, is in hand, or still waits, in that order
\* (recorder.go:50-55, 70-81, 95-107).
InOrder == accepted = handled \o InHand \o ch

\* The consumer gives up on a record only if Record accepted it after the
\* cancellation: everything accepted before is drained, and without a
\* cancellation everything is (recorder.go:59, 77-79, 84, 95-107).
DrainedBeforeExit ==
    Left => IF cancelled THEN mark <= Len(handled) ELSE ch = << >>

\* The store is closed once, by the consumer, after its last write and before
\* Stop can see done (recorder.go:60-63, 85).
StoreOutlivesWrites ==
    /\ Writing => storeOpen
    /\ done \/ stop = "returned" => ~storeOpen /\ Left

\* Cancelling the context or closing the channel ends the consumer.
ConsumerEnds == cancelled \/ chClosed ~> done

\* The recorder is a history log. A job that waits in the channel after the
\* consumer has left is lost: to the log it is a dropped one.
Waiting == IF Left THEN << >> ELSE InHand \o ch
Lost    == IF Left THEN {ch[i] : i \in DOMAIN ch} ELSE {}

Log == INSTANCE HistoryLog WITH
          pending <- Waiting, dropped <- dropped \cup Lost, open <- ~Left

\* Record, Start and Stop together keep the promise of HistoryLog: FIFO
\* writes, losses only by overflow, by a failed write or after the end, and
\* every accepted record eventually written or its failure logged.
ImplementsLog == Log!LogSpec
=============================================================================
