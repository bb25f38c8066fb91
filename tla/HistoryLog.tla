------------------------------ MODULE HistoryLog ------------------------------
(***************************************************************************)
(* What the history recorder promises, without its channel, goroutines and *)
(* shutdown protocol (internal/history/recorder.go:19-22, 42-44, 58-60,    *)
(* 84-85): an offered record is accepted or, when the log is behind by its *)
(* capacity, dropped; accepted records are written one at a time in the    *)
(* order of acceptance, a failed write loses only its own record; the log  *)
(* closes with nothing pending and writes nothing afterwards.              *)
(***************************************************************************)
EXTENDS Naturals, Sequences

CONSTANTS Jobs,     \* the records that are ever offered
          Capacity  \* records that may wait

VARIABLES pending,  \* accepted, not yet written, oldest first
          written,  \* accepted records that are in the store, in order
          spoiled,  \* accepted records whose write failed
          dropped,  \* offered records that were turned away
          open      \* the log still writes

logVars == <<pending, written, spoiled, dropped, open>>

LogInit ==
    /\ pending = << >>
    /\ written = << >>
    /\ spoiled = {}
    /\ dropped = {}
    /\ open = TRUE

Known(j) ==
    \/ \E i \in DOMAIN pending : pending[i] = j
    \/ \E i \in DOMAIN written : written[i] = j
    \/ j \in spoiled \cup dropped

Accept(j) ==
    /\ open
    /\ ~Known(j)
    /\ pending' = Append(pending, j)
    /\ UNCHANGED <<written, spoiled, dropped, open>>

Drop(j) ==
    /\ ~Known(j)
    /\ Len(pending) >= Capacity \/ ~open
    /\ dropped' = dropped \cup {j}
    /\ UNCHANGED <<pending, written, spoiled, open>>

Persist ==
    /\ open
    /\ pending # << >>
    /\ pending' = Tail(pending)
    /\ written' = Append(written, Head(pending))
    /\ UNCHANGED <<spoiled, dropped, open>>

Spoil ==
    /\ open
    /\ pending # << >>
    /\ pending' = Tail(pending)
    /\ spoiled' = spoiled \cup {Head(pending)}
    /\ UNCHANGED <<written, dropped, open>>

Close ==
    /\ open
    /\ pending = << >>
    /\ open' = FALSE
    /\ UNCHANGED <<pending, written, spoiled, dropped>>

LogNext ==
    \/ \E j \in Jobs : Accept(j) \/ Drop(j)
    \/ Persist
    \/ Spoil
    \/ Close

LogSafety == LogInit /\ [][LogNext]_logVars

\* Whatever is pending is eventually written or spoiled.
LogSpec == LogSafety /\ WF_logVars(Persist \/ Spoil)
=============================================================================
