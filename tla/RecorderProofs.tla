---------------------------- MODULE RecorderProofs ----------------------------
(***************************************************************************)
(* Proofs about Recorder for every set of jobs and every channel capacity: *)
(* its types, its safety properties, and that it implements the safety     *)
(* part of HistoryLog.                                                     *)
(***************************************************************************)
EXTENDS Recorder, SequenceTheorems, TLAPS

-----------------------------------------------------------------------------
(* Sequences. *)

\* A sequence that is not empty is its head followed by its tail.
LEMMA HeadThenTail ==
    ASSUME NEW S, NEW s \in Seq(S), s # << >>
    PROVE  <<Head(s)>> \o Tail(s) = s
<1>1. Head(s) \in S /\ Tail(s) \in Seq(S)
    BY HeadTailProperties
<1>2. Head(s) = s[1]
    OBVIOUS
<1>3. <<Head(s)>> \in Seq(S)
    BY <1>1
<1>4. Len(s) \in Nat \ {0}
    BY EmptySeq
<1>5. Len(Tail(s)) = Len(s) - 1 /\ \A i \in 1 .. Len(Tail(s)) : Tail(s)[i] = s[i + 1]
    BY HeadTailProperties
<1> DEFINE t == <<Head(s)>> \o Tail(s)
<1>6. t \in Seq(S) /\ Len(t) = Len(s)
    BY <1>1, <1>3, <1>4, <1>5, ConcatProperties
<1>7. ASSUME NEW i \in 1 .. Len(s) PROVE t[i] = s[i]
    <2>1. t[i] = IF i <= 1 THEN <<Head(s)>>[i] ELSE Tail(s)[i - 1]
        BY <1>1, <1>3, <1>4, <1>5, ConcatProperties
    <2> QED BY <2>1, <1>2, <1>4, <1>5
<1> HIDE DEF t
<1>8. t = s
    BY <1>6, <1>7, SeqEqual
<1> QED BY <1>8 DEF t

-----------------------------------------------------------------------------
(* Types. *)

\* Every variable of the recorder stays in its range, and the consumer holds
\* a job exactly while it writes.
THEOREM TypeCorrect == Spec => []TypeOK
<1>1. Init => TypeOK
    <2> SUFFICES ASSUME Init PROVE TypeOK
        OBVIOUS
    <2>1. job \in Jobs <=> Writing
        BY NoJobAssumption DEF Init, Writing
    <2>2. /\ ch \in Seq(Jobs) /\ written \in Seq(Jobs)
          /\ accepted \in Seq(Jobs) /\ handled \in Seq(Jobs)
        BY DEF Init
    <2>3. cpc \in ConsumerStates /\ mark \in Nat
        BY DEF Init, ConsumerStates
    <2>4. /\ chClosed \in BOOLEAN /\ cancelled \in BOOLEAN
          /\ storeOpen \in BOOLEAN /\ done \in BOOLEAN
        BY DEF Init
    <2>5. /\ job \in Jobs \cup {NoJob}
          /\ spoiled \subseteq Jobs /\ dropped \subseteq Jobs
          /\ panicked \subseteq Jobs
          /\ stop \in {"idle", "waiting", "returned", "timedOut"}
        BY DEF Init
    <2> QED BY <2>1, <2>2, <2>3, <2>4, <2>5 DEF TypeOK
<1>2. TypeOK /\ [Next]_vars => TypeOK'
    <2> SUFFICES ASSUME TypeOK, [Next]_vars PROVE TypeOK'
        OBVIOUS
    <2>1. ASSUME NEW j \in Jobs, Record(j) PROVE TypeOK'
        <3>1. ch' \in Seq(Jobs) /\ accepted' \in Seq(Jobs)
            <4>1. CASE Enqueue(j)
                BY <4>1, AppendProperties DEF TypeOK, Enqueue
            <4>2. CASE DropFull(j) \/ SendPanic(j)
                BY <4>2 DEF TypeOK, DropFull, SendPanic
            <4> QED BY <2>1, <4>1, <4>2 DEF Record
        <3>2. dropped' \subseteq Jobs /\ panicked' \subseteq Jobs
            BY <2>1 DEF TypeOK, Record, Enqueue, DropFull, SendPanic
        <3> QED BY <2>1, <3>1, <3>2 DEF TypeOK, Record, consumer, outcome,
                                        Writing
    <2>2. CASE Receive
        <3>1. Head(ch) \in Jobs /\ Tail(ch) \in Seq(Jobs)
            BY <2>2, HeadTailProperties DEF TypeOK, Receive, Take
        <3> QED BY <2>2, <3>1 DEF TypeOK, Receive, Take, outcome, offered,
                                  Writing, ConsumerStates
    <2>3. CASE DrainReceive
        <3>1. Head(ch) \in Jobs /\ Tail(ch) \in Seq(Jobs)
            BY <2>3, HeadTailProperties DEF TypeOK, DrainReceive, Take
        <3> QED BY <2>3, <3>1 DEF TypeOK, DrainReceive, Take, outcome, offered,
                                  Writing, ConsumerStates
    <2>4. CASE ReceiveClosed \/ CtxDone \/ DrainEnd
        BY <2>4 DEF TypeOK, ReceiveClosed, CtxDone, DrainEnd, Goto, channel,
                    outcome, offered, Writing, ConsumerStates
    <2>5. ASSUME NEW ok \in BOOLEAN, WriteJob(ok) PROVE TypeOK'
        BY <2>5, NoJobAssumption
        DEF TypeOK, WriteJob, channel, offered, Writing, ConsumerStates
    <2>6. CASE CloseStore \/ SignalDone
        BY <2>6 DEF TypeOK, CloseStore, SignalDone, channel, outcome, offered,
                    Writing, ConsumerStates
    <2>7. CASE Cancel
        BY <2>7 DEF TypeOK, Cancel, channel, consumer, outcome, offered,
                    Writing
    <2>8. CASE StopClose \/ StopReturn
        BY <2>8 DEF TypeOK, StopClose, StopReturn, StopDone, StopTimeout,
                    channel, consumer, outcome, offered, Writing
    <2>9. CASE Ended \/ UNCHANGED vars
        BY <2>9 DEF TypeOK, Ended, vars, Writing
    <2> QED BY <2>1, <2>2, <2>3, <2>4, <2>5, <2>6, <2>7, <2>8, <2>9
            DEF Next, ConsumerStep
<1> QED BY <1>1, <1>2, PTL DEF Spec

-----------------------------------------------------------------------------
(* Order: what was accepted is handled, in hand, or waiting. *)

\* No record is lost, doubled or reordered on its way through the channel.
THEOREM KeepsOrder == Spec => []InOrder
<1>1. Init => InOrder
    BY DEF Init, InOrder, InHand, Writing
<1>2. TypeOK /\ InOrder /\ [Next]_vars => InOrder'
    <2> SUFFICES ASSUME TypeOK, InOrder, [Next]_vars PROVE InOrder'
        OBVIOUS
    <2> USE DEF InOrder
    <2>0. InHand \in Seq(Jobs) /\ handled \o InHand \in Seq(Jobs)
        <3>1. InHand \in Seq(Jobs)
            BY DEF TypeOK, InHand
        <3> QED BY <3>1, ConcatProperties DEF TypeOK
    <2>1. ASSUME NEW j \in Jobs, Record(j) PROVE InOrder'
        <3>1. handled' = handled /\ InHand' = InHand
            BY <2>1 DEF Record, consumer, outcome, InHand, Writing
        <3>2. CASE Enqueue(j)
            <4>1. accepted' = accepted \o <<j>>
                BY <3>2, AppendIsConcat DEF TypeOK, Enqueue
            <4>2. ch' = ch \o <<j>>
                BY <3>2, AppendIsConcat DEF TypeOK, Enqueue
            <4>3. <<j>> \in Seq(Jobs) /\ ch \in Seq(Jobs)
                BY DEF TypeOK
            <4>4. ((handled \o InHand) \o ch) \o <<j>>
                    = (handled \o InHand) \o (ch \o <<j>>)
                BY <2>0, <4>3, ConcatAssociative, SMTT(30)
            <4> QED BY <3>1, <4>1, <4>2, <4>4
        <3>3. CASE DropFull(j) \/ SendPanic(j)
            BY <3>1, <3>3 DEF DropFull, SendPanic
        <3> QED BY <2>1, <3>2, <3>3 DEF Record
    <2>2. CASE Receive \/ DrainReceive
        <3>1. /\ ~Writing /\ Writing' /\ ch # << >>
              /\ job' = Head(ch) /\ ch' = Tail(ch)
              /\ accepted' = accepted /\ handled' = handled
            BY <2>2 DEF Receive, DrainReceive, Take, Writing, offered, outcome
        <3>2. InHand = << >> /\ InHand' = <<Head(ch)>>
            BY <3>1 DEF InHand
        <3>3. handled \o InHand = handled
            BY <3>2, ConcatEmptySeq DEF TypeOK
        <3>4. Head(ch) \in Jobs /\ Tail(ch) \in Seq(Jobs)
            BY <3>1, HeadTailProperties DEF TypeOK
        <3>5. <<Head(ch)>> \in Seq(Jobs)
            BY <3>4
        <3>6. (handled \o <<Head(ch)>>) \o Tail(ch)
                = handled \o (<<Head(ch)>> \o Tail(ch))
            BY <3>4, <3>5, ConcatAssociative, SMTT(30) DEF TypeOK
        <3>7. <<Head(ch)>> \o Tail(ch) = ch
            BY <3>1, HeadThenTail DEF TypeOK
        <3> QED BY <3>1, <3>2, <3>3, <3>6, <3>7
    <2>3. CASE ReceiveClosed \/ CtxDone \/ DrainEnd
        <3>1. /\ ~Writing /\ ~Writing'
              /\ ch' = ch /\ accepted' = accepted /\ handled' = handled
            BY <2>3 DEF ReceiveClosed, CtxDone, DrainEnd, Goto, Writing,
                        channel, offered, outcome
        <3> QED BY <3>1 DEF InHand
    <2>4. ASSUME NEW ok \in BOOLEAN, WriteJob(ok) PROVE InOrder'
        <3>1. /\ Writing /\ ~Writing' /\ handled' = Append(handled, job)
              /\ ch' = ch /\ accepted' = accepted
            BY <2>4 DEF WriteJob, Writing, channel, offered
        <3>2. InHand = <<job>> /\ InHand' = << >> /\ job \in Jobs
            BY <3>1 DEF InHand, TypeOK
        <3>3. handled' = handled \o InHand
            BY <3>1, <3>2, AppendIsConcat DEF TypeOK
        <3>4. handled' \o InHand' = handled'
            BY <2>0, <3>2, <3>3, ConcatEmptySeq
        <3> QED BY <3>1, <3>3, <3>4
    <2>5. CASE CloseStore \/ SignalDone
        <3>1. /\ ~Writing /\ ~Writing'
              /\ ch' = ch /\ accepted' = accepted /\ handled' = handled
            BY <2>5 DEF CloseStore, SignalDone, Writing, channel, offered,
                        outcome
        <3> QED BY <3>1 DEF InHand
    <2>6. CASE Cancel \/ StopClose \/ StopReturn \/ Ended \/ UNCHANGED vars
        BY <2>6 DEF Cancel, StopClose, StopReturn, StopDone, StopTimeout,
                    Ended, vars, channel, consumer, outcome, offered, InHand,
                    Writing
    <2> QED BY <2>1, <2>2, <2>3, <2>4, <2>5, <2>6 DEF Next, ConsumerStep
<1> QED BY <1>1, <1>2, TypeCorrect, PTL DEF Spec

-----------------------------------------------------------------------------
(* The end of the consumer. *)

\* Where the consumer can be, given what has been closed and cancelled. Once
\* it has left without a cancellation, the channel is closed and empty, so
\* no record can enter it afterwards.
Lifecycle ==
    /\ cpc \in {"drain", "drainWrite"} => cancelled
    /\ storeOpen <=> cpc \notin {"signalling", "exited"}
    /\ done <=> cpc = "exited"
    /\ stop = "returned" => done
    /\ Left /\ ~cancelled => chClosed /\ ch = << >>
    /\ mark <= Len(accepted)

\* The shutdown protocol of Start and Stop keeps to these places.
THEOREM LifecycleHolds == Spec => []Lifecycle
<1>1. Init => Lifecycle
    BY EmptySeq DEF Init, Lifecycle, Left
<1>2. TypeOK /\ Lifecycle /\ [Next]_vars => Lifecycle'
    <2> SUFFICES ASSUME TypeOK, Lifecycle, [Next]_vars PROVE Lifecycle'
        OBVIOUS
    <2> USE DEF Lifecycle, Left
    <2>1. ASSUME NEW j \in Jobs, Record(j) PROVE Lifecycle'
        <3>1. ~chClosed \/ ch' = ch
            BY <2>1 DEF Record, Enqueue, DropFull, SendPanic
        <3>2. mark <= Len(accepted')
            <4>1. CASE Enqueue(j)
                <5>1. Len(accepted') = Len(accepted) + 1
                    BY <4>1, AppendProperties DEF TypeOK, Enqueue
                <5> QED BY <5>1, LenProperties DEF TypeOK
            <4>2. CASE DropFull(j) \/ SendPanic(j)
                BY <4>2 DEF DropFull, SendPanic
            <4> QED BY <2>1, <4>1, <4>2 DEF Record
        <3> QED BY <2>1, <3>1, <3>2 DEF Record, consumer, outcome
    <2>2. CASE Receive \/ DrainReceive
        BY <2>2 DEF Receive, DrainReceive, Take, outcome, offered
    <2>3. CASE ReceiveClosed \/ CtxDone \/ DrainEnd
        BY <2>3 DEF ReceiveClosed, CtxDone, DrainEnd, Goto, channel, outcome,
                    offered
    <2>4. ASSUME NEW ok \in BOOLEAN, WriteJob(ok) PROVE Lifecycle'
        BY <2>4 DEF WriteJob, Writing, channel, offered
    <2>5. CASE CloseStore
        BY <2>5 DEF CloseStore, channel, outcome, offered
    <2>6. CASE SignalDone
        BY <2>6 DEF SignalDone, channel, outcome, offered
    <2>7. CASE Cancel
        BY <2>7, LenProperties
        DEF TypeOK, Cancel, channel, consumer, outcome, offered
    <2>8. CASE StopClose \/ StopReturn
        BY <2>8 DEF StopClose, StopReturn, StopDone, StopTimeout, channel,
                    consumer, outcome, offered
    <2>9. CASE Ended \/ UNCHANGED vars
        BY <2>9 DEF Ended, vars
    <2> QED BY <2>1, <2>2, <2>3, <2>4, <2>5, <2>6, <2>7, <2>8, <2>9
            DEF Next, ConsumerStep
<1> QED BY <1>1, <1>2, TypeCorrect, PTL DEF Spec

\* The consumer writes to an open store, and Stop sees done only when the
\* store is closed and the consumer has left.
THEOREM StoreSafe == Spec => []StoreOutlivesWrites
<1>1. Lifecycle => StoreOutlivesWrites
    BY DEF Lifecycle, StoreOutlivesWrites, Writing, Left
<1> QED BY <1>1, LifecycleHolds, PTL

\* When the hand and the channel are empty, everything has been handled.
LEMMA EmptyMeansHandled ==
    ASSUME TypeOK, InOrder, ~Writing, ch = << >>
    PROVE  accepted = handled
<1>1. InHand = << >>
    BY DEF InHand
<1>2. handled \in Seq(Jobs)
    BY DEF TypeOK
<1>3. handled \o << >> = handled
    BY <1>2, ConcatEmptySeq
<1> QED BY <1>1, <1>3 DEF InOrder

\* A record is given up only if it was accepted after the cancellation.
THEOREM DrainsBeforeExit == Spec => []DrainedBeforeExit
<1>1. Init => DrainedBeforeExit
    BY DEF Init, DrainedBeforeExit, Left
<1>2. /\ TypeOK /\ InOrder /\ Lifecycle /\ DrainedBeforeExit
      /\ TypeOK' /\ InOrder' /\ Lifecycle' /\ [Next]_vars
      => DrainedBeforeExit'
    <2> SUFFICES ASSUME TypeOK, InOrder, Lifecycle, DrainedBeforeExit,
                        TypeOK', InOrder', Lifecycle', [Next]_vars, Left'
                 PROVE  IF cancelled' THEN mark' <= Len(handled')
                                      ELSE ch' = << >>
        BY DEF DrainedBeforeExit
    <2>1. CASE ~cancelled'
        BY <2>1 DEF Lifecycle
    <2>2. ASSUME cancelled', ~Left PROVE mark' <= Len(handled')
        \* The step left the loop or the drain: the channel is empty.
        <3>1. ReceiveClosed \/ DrainEnd
            BY <2>2 DEF Next, ConsumerStep, Record, Receive, DrainReceive,
                        Take, CtxDone, Goto, WriteJob, CloseStore, SignalDone,
                        Cancel, StopClose, StopReturn, StopDone, StopTimeout,
                        Ended, vars, consumer, Left
        <3>2. /\ ~Writing /\ ch = << >>
              /\ handled' = handled /\ mark' = mark
            BY <3>1 DEF ReceiveClosed, DrainEnd, Goto, Writing, outcome
        <3>3. accepted = handled
            BY <3>2, EmptyMeansHandled
        <3> QED BY <3>2, <3>3 DEF Lifecycle
    <2>3. ASSUME cancelled', Left PROVE mark' <= Len(handled')
        <3>1. ~Writing /\ handled' = handled
            BY <2>3 DEF Next, ConsumerStep, Record, Receive, ReceiveClosed,
                        DrainReceive, DrainEnd, Take, CtxDone, Goto, WriteJob,
                        CloseStore, SignalDone, Cancel, StopClose, StopReturn,
                        StopDone, StopTimeout, Ended, vars, consumer, outcome,
                        Left, Writing
        <3>2. CASE cancelled
            <4>1. mark' = mark
                BY <3>2 DEF Next, ConsumerStep, Record, Receive, ReceiveClosed,
                            DrainReceive, DrainEnd, Take, CtxDone, Goto,
                            WriteJob, CloseStore, SignalDone, Cancel,
                            StopClose, StopReturn, StopDone, StopTimeout,
                            Ended, vars
            <4> QED BY <2>3, <3>1, <3>2, <4>1 DEF DrainedBeforeExit
        <3>3. CASE ~cancelled
            <4>1. Cancel
                BY <2>3, <3>3 DEF Next, ConsumerStep, Record, Receive,
                            ReceiveClosed, DrainReceive, DrainEnd, Take,
                            CtxDone, Goto, WriteJob, CloseStore, SignalDone,
                            StopClose, StopReturn, StopDone, StopTimeout,
                            Ended, vars
            <4>2. ch = << >>
                BY <2>3, <3>3 DEF Lifecycle
            <4>3. accepted = handled
                BY <3>1, <4>2, EmptyMeansHandled
            <4>4. mark' = Len(handled) /\ Len(handled) \in Nat
                BY <4>1, <4>3, LenProperties DEF Cancel, TypeOK
            <4> QED BY <3>1, <4>4
        <3> QED BY <3>2, <3>3
    <2> QED BY <2>1, <2>2, <2>3
<1> QED BY <1>1, <1>2, TypeCorrect, KeepsOrder, LifecycleHolds, PTL DEF Spec

-----------------------------------------------------------------------------
(* What becomes of a record. *)

\* What the consumer is through with is in the store or known to be spoiled.
Kept ==
    \A k \in DOMAIN handled :
        handled[k] \in spoiled \/ \E i \in DOMAIN written : written[i] = handled[k]

\* The consumer does not pass over a record.
THEOREM KeepsWhatItHandles == Spec => []Kept
<1>1. Init => Kept
    BY DEF Init, Kept
<1>2. TypeOK /\ Kept /\ [Next]_vars => Kept'
    <2> SUFFICES ASSUME TypeOK, Kept, [Next]_vars PROVE Kept'
        OBVIOUS
    <2>1. ASSUME NEW ok \in BOOLEAN, WriteJob(ok) PROVE Kept'
        <3>1. /\ job \in Jobs /\ handled' = Append(handled, job)
              /\ written' = (IF ok THEN Append(written, job) ELSE written)
              /\ spoiled' = (IF ok THEN spoiled ELSE spoiled \cup {job})
            BY <2>1 DEF WriteJob, TypeOK
        <3>2. /\ DOMAIN handled' = 1 .. Len(handled) + 1
              /\ DOMAIN handled = 1 .. Len(handled) /\ Len(handled) \in Nat
              /\ \A k \in DOMAIN handled : handled'[k] = handled[k]
              /\ handled'[Len(handled) + 1] = job
            BY <3>1, AppendProperties, LenProperties DEF TypeOK
        <3>3. /\ \A i \in DOMAIN written :
                     i \in DOMAIN written' /\ written'[i] = written[i]
              /\ ok => \E i \in DOMAIN written' : written'[i] = job
            <4>1. CASE ok
                <5>1. /\ DOMAIN written' = 1 .. Len(written) + 1
                      /\ DOMAIN written = 1 .. Len(written)
                      /\ Len(written) \in Nat
                      /\ \A i \in DOMAIN written : written'[i] = written[i]
                      /\ written'[Len(written) + 1] = job
                    BY <3>1, <4>1, AppendProperties, LenProperties DEF TypeOK
                <5> QED BY <5>1
            <4>2. CASE ~ok
                BY <3>1, <4>2
            <4> QED BY <4>1, <4>2
        <3>4. ASSUME NEW k \in DOMAIN handled'
              PROVE  \/ handled'[k] \in spoiled'
                     \/ \E i \in DOMAIN written' : written'[i] = handled'[k]
            <4>1. CASE k \in DOMAIN handled
                <5>1. handled'[k] = handled[k]
                    BY <3>2, <4>1
                <5>2. CASE handled[k] \in spoiled
                    BY <3>1, <5>1, <5>2
                <5>3. ASSUME NEW i \in DOMAIN written, written[i] = handled[k]
                      PROVE  \E d \in DOMAIN written' : written'[d] = handled'[k]
                    BY <3>3, <5>1, <5>3
                <5> QED BY <4>1, <5>2, <5>3 DEF Kept
            <4>2. CASE k = Len(handled) + 1
                BY <3>1, <3>2, <3>3, <4>2
            <4> QED BY <3>2, <3>4, <4>1, <4>2
        <3> QED BY <3>4 DEF Kept
    <2>2. CASE UNCHANGED outcome
        BY <2>2 DEF outcome, Kept
    <2>3. (\E ok \in BOOLEAN : WriteJob(ok)) \/ UNCHANGED outcome
        BY DEF Next, ConsumerStep, Record, Receive, DrainReceive, Take,
               ReceiveClosed, CtxDone, DrainEnd, Goto, CloseStore, SignalDone,
               Cancel, StopClose, StopReturn, StopDone, StopTimeout, Ended,
               vars, outcome
    <2> QED BY <2>1, <2>2, <2>3
<1> QED BY <1>1, <1>2, TypeCorrect, PTL DEF Spec

\* What was accepted before the cancellation is kept when Stop has waited for
\* the end of the consumer.
KeptAtTheEnd ==
    (cancelled /\ stop = "returned") =>
        /\ mark \in Nat
        /\ \A i \in 1 .. mark :
              \/ accepted[i] \in spoiled
              \/ \E k \in DOMAIN written : written[k] = accepted[i]

\* The drain completes before Stop returns, if it does not time out.
THEOREM KeepsWhatWasMarked == Spec => []KeptAtTheEnd
<1>1. TypeOK /\ InOrder /\ Lifecycle /\ DrainedBeforeExit /\ Kept => KeptAtTheEnd
    <2> SUFFICES ASSUME TypeOK, InOrder, Lifecycle, DrainedBeforeExit, Kept,
                        cancelled, stop = "returned",
                        NEW i \in 1 .. mark
                 PROVE  \/ accepted[i] \in spoiled
                        \/ \E k \in DOMAIN written : written[k] = accepted[i]
        BY DEF KeptAtTheEnd, TypeOK
    <2>1. mark \in Nat /\ mark <= Len(handled) /\ ~Writing
        BY DEF TypeOK, Lifecycle, DrainedBeforeExit, Left, Writing
    <2>2. InHand = << >> /\ handled \in Seq(Jobs) /\ ch \in Seq(Jobs)
        BY <2>1 DEF InHand, TypeOK
    <2>3. accepted = handled \o ch
        BY <2>2, ConcatEmptySeq DEF InOrder
    <2>4. Len(handled) \in Nat /\ Len(ch) \in Nat
        BY <2>2, LenProperties
    <2>5. i \in 1 .. Len(handled) + Len(ch) /\ i <= Len(handled)
        BY <2>1, <2>4
    <2>6. accepted[i] = handled[i]
        BY <2>2, <2>3, <2>5, ConcatProperties
    <2>7. i \in DOMAIN handled
        BY <2>2, <2>5, LenProperties
    <2> QED BY <2>6, <2>7 DEF Kept
<1> QED BY <1>1, TypeCorrect, KeepsOrder, LifecycleHolds, DrainsBeforeExit,
           KeepsWhatItHandles, PTL

-----------------------------------------------------------------------------
(* Recorder implements HistoryLog, but for the log's liveness. *)

\* Only handled records are in the store or spoiled.
Traced ==
    /\ \A i \in DOMAIN written : \E k \in DOMAIN handled : handled[k] = written[i]
    /\ \A j \in spoiled : \E k \in DOMAIN handled : handled[k] = j

\* Nothing reaches the store except through the consumer's hands.
THEOREM TracedHolds == Spec => []Traced
<1>1. Init => Traced
    BY DEF Init, Traced
<1>2. TypeOK /\ Traced /\ [Next]_vars => Traced'
    <2> SUFFICES ASSUME TypeOK, Traced, [Next]_vars PROVE Traced'
        OBVIOUS
    <2>1. ASSUME NEW ok \in BOOLEAN, WriteJob(ok) PROVE Traced'
        <3>1. /\ job \in Jobs /\ handled' = Append(handled, job)
              /\ written' = Append(written, job) \/ written' = written
              /\ spoiled' \subseteq spoiled \cup {job}
            BY <2>1 DEF WriteJob, TypeOK
        <3>2. /\ DOMAIN handled' = 1 .. Len(handled) + 1
              /\ DOMAIN handled = 1 .. Len(handled) /\ Len(handled) \in Nat
              /\ \A k \in DOMAIN handled : handled'[k] = handled[k]
              /\ handled'[Len(handled) + 1] = job
            BY <3>1, AppendProperties, LenProperties DEF TypeOK
        <3>3. ASSUME NEW j, \E k \in DOMAIN handled : handled[k] = j
              PROVE  \E k \in DOMAIN handled' : handled'[k] = j
            BY <3>2, <3>3
        <3>4. \E k \in DOMAIN handled' : handled'[k] = job
            BY <3>2
        <3>5. ASSUME NEW i \in DOMAIN written'
              PROVE  \E k \in DOMAIN handled' : handled'[k] = written'[i]
            <4>1. written'[i] = job \/ (i \in DOMAIN written /\ written'[i] = written[i])
                <5>1. CASE written' = written
                    BY <5>1, <3>5
                <5>2. CASE written' = Append(written, job)
                    <6>1. /\ DOMAIN written' = 1 .. Len(written) + 1
                          /\ DOMAIN written = 1 .. Len(written)
                          /\ Len(written) \in Nat
                          /\ \A k \in DOMAIN written : written'[k] = written[k]
                          /\ written'[Len(written) + 1] = job
                        BY <5>2, <3>1, AppendProperties, LenProperties DEF TypeOK
                    <6> QED BY <6>1, <3>5
                <5> QED BY <3>1, <5>1, <5>2
            <4>2. CASE written'[i] = job
                BY <4>2, <3>4
            <4>3. CASE i \in DOMAIN written /\ written'[i] = written[i]
                BY <4>3, <3>3 DEF Traced
            <4> QED BY <4>1, <4>2, <4>3
        <3>6. ASSUME NEW j \in spoiled'
              PROVE  \E k \in DOMAIN handled' : handled'[k] = j
            BY <3>1, <3>3, <3>4, <3>6 DEF Traced
        <3> QED BY <3>5, <3>6 DEF Traced
    <2>2. CASE UNCHANGED outcome
        BY <2>2 DEF outcome, Traced
    <2>3. (\E ok \in BOOLEAN : WriteJob(ok)) \/ UNCHANGED outcome
        BY DEF Next, ConsumerStep, Record, Receive, DrainReceive, Take,
               ReceiveClosed, CtxDone, DrainEnd, Goto, CloseStore, SignalDone,
               Cancel, StopClose, StopReturn, StopDone, StopTimeout, Ended,
               vars, outcome
    <2> QED BY <2>1, <2>2, <2>3
<1> QED BY <1>1, <1>2, TypeCorrect, PTL DEF Spec

\* What the log knows of has been seen by Record.
LEMMA KnownWasSeen ==
    ASSUME TypeOK, InOrder, Traced, NEW j \in Jobs, ~Seen(j), Log!Known(j)
    PROVE  FALSE
<1> DEFINE In(s) == \E i \in DOMAIN s : s[i] = j
<1>1. ~In(accepted) /\ j \notin dropped
    BY DEF Seen
<1>2. InHand \in Seq(Jobs)
    BY DEF TypeOK, InHand
<1>3. /\ handled \in Seq(Jobs) /\ ch \in Seq(Jobs)
      /\ handled \o InHand \in Seq(Jobs) /\ InHand \o ch \in Seq(Jobs)
    BY <1>2, ConcatProperties DEF TypeOK
<1>4. ASSUME NEW s \in Seq(Jobs), NEW t \in Seq(Jobs)
      PROVE  In(s \o t) <=> In(s) \/ In(t)
    <2>1. /\ DOMAIN s = 1 .. Len(s) /\ DOMAIN t = 1 .. Len(t)
          /\ Len(s) \in Nat /\ Len(t) \in Nat
          /\ DOMAIN (s \o t) = 1 .. Len(s) + Len(t)
        BY LenProperties, ConcatProperties
    <2>2. \A i \in 1 .. Len(s) + Len(t) :
            (s \o t)[i] = IF i <= Len(s) THEN s[i] ELSE t[i - Len(s)]
        BY ConcatProperties
    <2>3. ASSUME NEW i \in 1 .. Len(t)
          PROVE  i + Len(s) \in 1 .. Len(s) + Len(t) /\ (s \o t)[i + Len(s)] = t[i]
        BY <2>1, <2>2
    <2>4. ASSUME NEW i \in 1 .. Len(s)
          PROVE  i \in 1 .. Len(s) + Len(t) /\ (s \o t)[i] = s[i]
        BY <2>1, <2>2
    <2>5. In(s) \/ In(t) => In(s \o t)
        BY <2>1, <2>3, <2>4
    <2>6. ASSUME NEW i \in 1 .. Len(s) + Len(t), (s \o t)[i] = j
          PROVE  In(s) \/ In(t)
        <3>1. CASE i <= Len(s)
            BY <2>1, <2>2, <2>6, <3>1
        <3>2. CASE i > Len(s)
            <4>1. i - Len(s) \in 1 .. Len(t) /\ t[i - Len(s)] = j
                BY <2>1, <2>2, <2>6, <3>2
            <4> QED BY <2>1, <4>1
        <3> QED BY <2>1, <3>1, <3>2
    <2> QED BY <2>1, <2>5, <2>6
<1>5. ~In(handled) /\ ~In(InHand) /\ ~In(ch)
    <2> HIDE DEF In
    <2>1. ~In(handled \o InHand) /\ ~In(ch)
        BY <1>1, <1>3, <1>4 DEF InOrder
    <2> QED BY <1>2, <1>3, <1>4, <2>1
<1>6. ~In(InHand \o ch)
    <2> HIDE DEF In
    <2> QED BY <1>2, <1>3, <1>4, <1>5
<1>7. ~In(Waiting) /\ j \notin Lost
    BY <1>5, <1>6 DEF Waiting, Lost
<1>8. ~In(written) /\ j \notin spoiled
    BY <1>5 DEF Traced
<1> QED BY <1>1, <1>7, <1>8 DEF Log!Known

\* Every step of the recorder is a step of the log or leaves it unchanged.
LEMMA StepImplementsLog ==
    ASSUME TypeOK, InOrder, Lifecycle, Traced, [Next]_vars
    PROVE  [Log!LogNext]_(Log!logVars)
<1> USE DEF Log!logVars
<1>0. /\ ch \in Seq(Jobs) /\ InHand \in Seq(Jobs)
      /\ InHand \o ch \in Seq(Jobs)
    <2>1. ch \in Seq(Jobs) /\ InHand \in Seq(Jobs)
        BY DEF TypeOK, InHand
    <2> QED BY <2>1, ConcatProperties
<1>1. ASSUME NEW j \in Jobs, Record(j) PROVE [Log!LogNext]_(Log!logVars)
    <2>1. /\ InHand' = InHand /\ Left' = Left
          /\ written' = written /\ spoiled' = spoiled
        BY <1>1 DEF Record, consumer, outcome, InHand, Writing, Left
    <2>2. ~Log!Known(j)
        BY <1>1, KnownWasSeen DEF Record
    <2>3. CASE Enqueue(j) /\ ~Left
        <3>1. ch' = ch \o <<j>> /\ <<j>> \in Seq(Jobs)
            BY <2>3, <1>0, AppendIsConcat DEF Enqueue
        <3>2. Waiting' = InHand \o (ch \o <<j>>)
            BY <2>1, <2>3, <3>1 DEF Waiting
        <3>3. Append(InHand \o ch, j) = (InHand \o ch) \o <<j>>
            BY <1>0, AppendIsConcat
        <3>4. (InHand \o ch) \o <<j>> = InHand \o (ch \o <<j>>)
            BY <1>0, <3>1, ConcatAssociative
        <3>5. Waiting' = Append(Waiting, j)
            BY <2>3, <3>2, <3>3, <3>4 DEF Waiting
        <3>6. (dropped \cup Lost)' = dropped \cup Lost
            BY <2>1, <2>3 DEF Lost, Enqueue
        <3>7. Log!Accept(j)
            BY <2>1, <2>2, <2>3, <3>5, <3>6 DEF Log!Accept
        <3> QED BY <3>7 DEF Log!LogNext
    <2>4. CASE Enqueue(j) /\ Left
        <3>1. Waiting' = Waiting
            BY <2>1, <2>4 DEF Waiting
        <3>2. {ch'[i] : i \in DOMAIN ch'} = {ch[i] : i \in DOMAIN ch} \cup {j}
            <4>1. /\ DOMAIN ch' = 1 .. Len(ch) + 1 /\ DOMAIN ch = 1 .. Len(ch)
                  /\ Len(ch) \in Nat /\ ch'[Len(ch) + 1] = j
                  /\ \A i \in DOMAIN ch : ch'[i] = ch[i]
                BY <2>4, <1>0, AppendProperties, LenProperties DEF Enqueue
            <4>2. DOMAIN ch' = DOMAIN ch \cup {Len(ch) + 1}
                BY <4>1
            <4> QED BY <4>1, <4>2
        <3>3. (dropped \cup Lost)' = (dropped \cup Lost) \cup {j}
            BY <2>1, <2>4, <3>2 DEF Lost, Enqueue
        <3>4. Log!Drop(j)
            BY <2>1, <2>2, <2>4, <3>1, <3>3 DEF Log!Drop
        <3> QED BY <3>4 DEF Log!LogNext
    <2>5. CASE DropFull(j)
        <3>1. Waiting' = Waiting /\ Lost' = Lost
            BY <2>1, <2>5 DEF Waiting, Lost, DropFull
        <3>2. Len(Waiting) >= Capacity \/ Left
            <4>1. Len(InHand \o ch) = Len(InHand) + Len(ch)
                BY <1>0, ConcatProperties
            <4>2. Len(InHand) \in Nat /\ Len(ch) \in Nat /\ Len(ch) >= Capacity
                BY <1>0, <2>5, LenProperties DEF DropFull
            <4> QED BY <4>1, <4>2, CapacityAssumption DEF Waiting
        <3>3. (dropped \cup Lost)' = (dropped \cup Lost) \cup {j}
            BY <2>5, <3>1 DEF DropFull
        <3>4. Log!Drop(j)
            BY <2>1, <2>2, <3>1, <3>2, <3>3 DEF Log!Drop
        <3> QED BY <3>4 DEF Log!LogNext
    <2>6. CASE SendPanic(j)
        BY <2>1, <2>6 DEF SendPanic, Waiting, Lost
    <2> QED BY <1>1, <2>3, <2>4, <2>5, <2>6 DEF Record
<1>2. CASE Receive \/ DrainReceive
    <2>1. /\ ~Writing /\ Writing' /\ ~Left /\ ~Left' /\ ch # << >>
          /\ job' = Head(ch) /\ ch' = Tail(ch) /\ dropped' = dropped
          /\ written' = written /\ spoiled' = spoiled
        BY <1>2 DEF Receive, DrainReceive, Take, Writing, Left, outcome,
                    offered
    <2>2. Waiting = ch
        BY <1>0, <2>1, ConcatEmptySeq DEF Waiting, InHand
    <2>3. Waiting' = <<Head(ch)>> \o Tail(ch)
        BY <2>1 DEF Waiting, InHand
    <2>4. Waiting' = Waiting
        BY <1>0, <2>1, <2>2, <2>3, HeadThenTail
    <2> QED BY <2>1, <2>4 DEF Lost
<1>3. CASE CtxDone
    BY <1>3 DEF CtxDone, Goto, channel, outcome, offered, Waiting, InHand,
                Writing, Left, Lost
<1>4. CASE ReceiveClosed \/ DrainEnd
    <2>1. /\ ~Writing /\ ~Left /\ Left' /\ ch = << >> /\ ch' = ch
          /\ written' = written /\ spoiled' = spoiled /\ dropped' = dropped
        BY <1>4 DEF ReceiveClosed, DrainEnd, Goto, Writing, Left, channel,
                    outcome, offered
    <2>2. Waiting = << >> /\ Waiting' = << >>
        BY <1>0, <2>1, ConcatEmptySeq DEF Waiting, InHand
    <2>3. Lost = {} /\ Lost' = {}
        BY <2>1 DEF Lost
    <2>4. Log!Close
        BY <2>1, <2>2, <2>3 DEF Log!Close
    <2> QED BY <2>4 DEF Log!LogNext
<1>5. ASSUME NEW ok \in BOOLEAN, WriteJob(ok)
      PROVE  [Log!LogNext]_(Log!logVars)
    <2>1. /\ Writing /\ ~Writing' /\ ~Left /\ ~Left'
          /\ ch' = ch /\ dropped' = dropped /\ job \in Jobs
        BY <1>5 DEF WriteJob, Writing, Left, channel, offered, TypeOK
    <2>2. Waiting = <<job>> \o ch
        BY <2>1 DEF Waiting, InHand
    <2>3. Waiting' = ch
        BY <1>0, <2>1, ConcatEmptySeq DEF Waiting, InHand
    <2>4. <<job>> \in Seq(Jobs) /\ Len(<<job>>) = 1
        BY <2>1
    <2>5. /\ Waiting \in Seq(Jobs) /\ Len(Waiting) = Len(ch) + 1
          /\ Waiting[1] = job
          /\ \A i \in 1 .. Len(ch) : Waiting[i + 1] = ch[i]
        <3>1. Len(ch) \in Nat
            BY <1>0, LenProperties
        <3>2. /\ Waiting \in Seq(Jobs)
              /\ Len(Waiting) = 1 + Len(ch)
              /\ \A i \in 1 .. 1 + Len(ch) :
                   Waiting[i] = IF i <= 1 THEN <<job>>[i] ELSE ch[i - 1]
            BY <1>0, <2>2, <2>4, ConcatProperties
        <3> QED BY <3>1, <3>2
    <2>6. Waiting # << >> /\ Head(Waiting) = job
        <3>1. Len(ch) \in Nat
            BY <1>0, LenProperties
        <3>2. Waiting # << >>
            BY <2>5, <3>1, EmptySeq
        <3> QED BY <2>5, <3>2
    <2>7. Tail(Waiting) = ch
        <3>1. /\ Tail(Waiting) \in Seq(Jobs)
              /\ Len(Tail(Waiting)) = Len(Waiting) - 1
              /\ \A i \in 1 .. Len(Tail(Waiting)) :
                   Tail(Waiting)[i] = Waiting[i + 1]
            BY <2>5, <2>6, HeadTailProperties
        <3>2. Len(ch) \in Nat
            BY <1>0, LenProperties
        <3>3. Len(Tail(Waiting)) = Len(ch)
            BY <2>5, <3>1, <3>2
        <3>4. \A i \in 1 .. Len(ch) : Tail(Waiting)[i] = ch[i]
            BY <2>5, <3>1, <3>3
        <3> QED BY <1>0, <3>1, <3>3, <3>4, SeqEqual
    <2>8. Lost = {} /\ Lost' = {}
        BY <2>1 DEF Lost
    <2>9. CASE ok
        <3>1. written' = Append(written, job) /\ spoiled' = spoiled
            BY <1>5, <2>9 DEF WriteJob
        <3>2. Log!Persist
            BY <2>1, <2>3, <2>6, <2>7, <2>8, <3>1 DEF Log!Persist
        <3> QED BY <3>2 DEF Log!LogNext
    <2>10. CASE ~ok
        <3>1. written' = written /\ spoiled' = spoiled \cup {job}
            BY <1>5, <2>10 DEF WriteJob
        <3>2. Log!Spoil
            BY <2>1, <2>3, <2>6, <2>7, <2>8, <3>1 DEF Log!Spoil
        <3> QED BY <3>2 DEF Log!LogNext
    <2> QED BY <2>9, <2>10
<1>6. CASE CloseStore \/ SignalDone
    BY <1>6 DEF CloseStore, SignalDone, channel, outcome, offered, Waiting,
                InHand, Writing, Left, Lost
<1>7. CASE Cancel \/ StopClose \/ StopReturn \/ Ended \/ UNCHANGED vars
    BY <1>7 DEF Cancel, StopClose, StopReturn, StopDone, StopTimeout, Ended,
                vars, channel, consumer, outcome, offered, Waiting, InHand,
                Writing, Left, Lost
<1> QED BY <1>1, <1>2, <1>3, <1>4, <1>5, <1>6, <1>7 DEF Next, ConsumerStep

\* For every set of jobs and every capacity, a run of the recorder is a run
\* of the log: FIFO writes, each record at most once, losses only by
\* overflow, by a failed write, or after the consumer has left.
THEOREM ImplementsLogSafety == Spec => Log!LogSafety
<1>1. Init => Log!LogInit
    <2> SUFFICES ASSUME Init PROVE Log!LogInit
        OBVIOUS
    <2>1. Waiting = << >> /\ Lost = {} /\ ~Left
        BY ConcatEmptySeq, EmptySeq DEF Init, Waiting, InHand, Writing, Left, Lost
    <2> QED BY <2>1 DEF Init, Log!LogInit
<1>2. TypeOK /\ InOrder /\ Lifecycle /\ Traced /\ [Next]_vars
      => [Log!LogNext]_(Log!logVars)
    BY StepImplementsLog
<1> QED BY <1>1, <1>2, TypeCorrect, KeepsOrder, LifecycleHolds, TracedHolds,
           PTL DEF Spec, Log!LogSafety
=============================================================================
