---------------------------- MODULE IngressProof ----------------------------
(***************************************************************************)
(* Proofs about EventIngress, the producer and the FIFO together, for      *)
(* every depth of either.                                                  *)
(*                                                                         *)
(* Each part keeps what it was proved to keep alone, since a step of the   *)
(* ingress is a step of each part or leaves it.  What only the whole knows *)
(* is LagInv: the two edges that the FIFO's reset lags behind the          *)
(* producer's are too short for the producer to have lost a spike, and     *)
(* both sides of the port count the same transfers.                        *)
(***************************************************************************)
EXTENDS EventIngress, AsyncFifoProof

(* The producer; no trace of its golden reference runs beside it here.      *)
P == INSTANCE EventStreamProof
    WITH FIFO_DEPTH <- PRODUCER_DEPTH, rst_n <- src_rst_n,
         queued_count <- producer_queued_count,
         high_watermark <- producer_high_watermark,
         accepted_count <- producer_accepted_count,
         overflow_sticky <- producer_overflow_sticky,
         telemetry_saturation_sticky <- producer_saturation_sticky,
         MAX_TICKS <- 0, ref_tick <- 1, draining <- FALSE, queue <- <<>>,
         ref_accumulator <- 0, ref_high_watermark <- 0, ref_sequence <- 0,
         sequence_wrap <- FALSE, ref_generated <- 0, ref_accepted <- 0, ref_dropped <- 0,
         dropped_events <- FALSE, telemetry_saturation <- FALSE,
         taken_number <- 0, refused_before <- <<>>, refused_since <- 0

(* The theorems of the producer hold of this one. *)
LEMMA Parameters ==
    /\ P!StreamAssumption /\ P!WidthAssumption /\ P!EntryAssumption
    /\ Events = P!StreamEvents
<1>1. P!StreamAssumption /\ P!WidthAssumption
    BY ProducerAssumption
    DEF P!StreamAssumption, P!WidthAssumption, P!Magnitude,
        Producer!StreamAssumption, Producer!WidthAssumption, Producer!Magnitude
<1>2. Events = P!StreamEvents
    BY WiringAssumption DEF P!StreamEvents, Producer!StreamEvents
<1>3. P!EntryAssumption
    BY <1>2, FifoAssumption DEF P!EntryAssumption
<1> QED
    BY <1>1, <1>2, <1>3

LEMMA SameProducer ==
    /\ Producer!Init <=> P!Init
    /\ Producer!Cleared <=> P!Cleared
    /\ Producer!aer_valid = P!aer_valid
    /\ Producer!aer_event = P!aer_event
    /\ Producer!Pending = P!Pending
BY DEF Producer!Init, P!Init, Producer!Positions, P!Positions,
       Producer!Cleared, P!Cleared, Producer!aer_valid, P!aer_valid,
       Producer!aer_event, P!aer_event, Producer!Pending, P!Pending

LEMMA SameClock ==
    ASSUME NEW sample, NEW valid, NEW ready
    PROVE  Producer!Clock(sample, valid, ready) <=> P!Clock(sample, valid, ready)
BY DEF Producer!Clock, P!Clock,
       Producer!SpikeGenerated, P!SpikeGenerated,
       Producer!accumulator_with_sample, P!accumulator_with_sample,
       Producer!Magnitude, P!Magnitude, Producer!Integrate, P!Integrate,
       Producer!MoveQueue, P!MoveQueue, Producer!EnqueueEvent, P!EnqueueEvent,
       Producer!QueueHasSpace, P!QueueHasSpace,
       Producer!PopEvent, P!PopEvent, Producer!aer_valid, P!aer_valid,
       Producer!increment_pointer, P!increment_pointer,
       Producer!AdvanceIdentity, P!AdvanceIdentity,
       Producer!TakesNumber, P!TakesNumber, Producer!Account, P!Account,
       Producer!DropEvent, P!DropEvent, Producer!Counted, P!Counted,
       Producer!Cleared, P!Cleared

LEMMA ProducerEdge ==
    ASSUME P!Inv, P!RingInv, src_rst_n, UNCHANGED src_rst_n,
           NEW sample \in Samples, NEW valid \in BOOLEAN, NEW ready \in BOOLEAN,
           P!Clock(sample, valid, ready)
    PROVE  /\ P!Inv' /\ P!RingInv' /\ P!NewEvent(sample) \in Events
           /\ P!PopEvent(ready) \in BOOLEAN
           /\ P!EdgeOutcome(sample, P!PopEvent(ready))
BY Parameters, P!EdgeOutcomes

LEMMA ProducerOffers ==
    ASSUME P!Inv, P!RingInv
    PROVE  /\ P!Pending \in Seq(Events) /\ Len(P!Pending) = producer_queued_count
           /\ P!aer_valid => P!aer_event \in Events /\ P!Pending # <<>>
                             /\ P!aer_event = Head(P!Pending)
BY Parameters, P!PendingSequence, P!OfferFacts

LEMMA ProducerClears ==
    ASSUME P!Inv, P!Cleared, src_rst_n' \in BOOLEAN
    PROVE  P!Inv' /\ P!RingInv'
<1>1. P!Inv'
    BY Parameters, P!ClearedInv
<1>2. P!NumberInv'
    BY Parameters, P!NumberCleared
<1> QED
    BY <1>1, <1>2 DEF P!NumberInv

(* The FIFO's port refuses everything while its own reset lags, so the     *)
(* producer has delivered nothing and holds at most the spike of one edge. *)
LagInv ==
    ~src_local_rst_n =>
        /\ producer_queued_count <= (IF src_reset_meta THEN 1 ELSE 0)
        /\ ~producer_saturation_sticky => producer_accepted_count = 0
        /\ PRODUCER_DEPTH >= 2 => ~producer_overflow_sticky

(* What leaves the producer enters the FIFO. *)
SameCount ==
    (~producer_saturation_sticky /\ ~telemetry_saturation_sticky)
        => producer_accepted_count = src_accepted_count

PartsInv == Inv /\ StoredInv /\ P!Inv /\ P!RingInv
PortInv == LagInv /\ SameCount /\ DropMeansBackpressure

-----------------------------------------------------------------------------
(* The wires between the two. *)

LEMMA ProducerTypes ==
    ASSUME P!Inv
    PROVE  /\ producer_queued_count \in Nat /\ PRODUCER_DEPTH \in Nat
           /\ producer_queued_count <= PRODUCER_DEPTH
           /\ producer_accepted_count \in 0 .. TELEMETRY_MAX
           /\ producer_overflow_sticky \in BOOLEAN
           /\ producer_saturation_sticky \in BOOLEAN
           /\ P!aer_valid \in BOOLEAN
           /\ P!aer_valid <=> producer_queued_count # 0
<1>1. PRODUCER_DEPTH \in Nat
    BY Parameters DEF P!StreamAssumption
<1>2. producer_queued_count \in 0 .. PRODUCER_DEPTH
    BY DEF P!Inv, P!TypeOK
<1>3. /\ producer_accepted_count \in 0 .. TELEMETRY_MAX
      /\ producer_overflow_sticky \in BOOLEAN
      /\ producer_saturation_sticky \in BOOLEAN
    BY DEF P!Inv, P!TypeOK
<1> QED
    BY <1>1, <1>2, <1>3 DEF P!aer_valid

(* An edge on which nothing is offered does not look at the event wires.   *)
LEMMA PortEvent ==
    ASSUME NEW valid \in BOOLEAN, NEW event, valid => event \in Events,
           SrcAdvance(valid, event)
    PROVE  \E e \in Events : SrcAdvance(valid, e) /\ (valid => e = event)
<1>1. CASE valid
    BY <1>1
<1>2. CASE ~valid
    <2>1. [polarity |-> 1, tick |-> 0, sequence |-> 0] \in Events
        <3>1. /\ TICK_MODULUS \in Nat \ {0} /\ SEQUENCE_MAX \in Nat
            BY Parameters DEF P!StreamAssumption
        <3>2. 0 \in 0 .. TICK_MODULUS - 1 /\ 0 \in 0 .. SEQUENCE_MAX
              /\ 1 \in {-1, 1}
            BY <3>1
        <3> QED
            BY <3>2, Parameters DEF P!StreamEvents
    <2>2. PICK e \in Events : TRUE
        BY <2>1
    <2>3. SrcAdvance(valid, e)
        BY <1>2 DEF SrcAdvance, SrcWrite, write_event
    <2> QED
        BY <1>2, <2>3
<1> QED
    BY <1>1, <1>2

(* What the source edge does to the producer's side of the port: an event  *)
(* leaves the ring exactly when the FIFO writes one.                       *)
ProducerMoves(wrote) ==
    \E push \in BOOLEAN : \E event :
        /\ push => event \in Events
        /\ P!Pending' = P!Popped(P!Pending, wrote) \o P!Pushed(push, event)
        /\ push => Len(P!Popped(P!Pending, wrote)) < PRODUCER_DEPTH

LEMMA RunningEdge ==
    ASSUME PartsInv, PortInv, src_rst_n, UNCHANGED src_rst_n,
           NEW sample \in Samples, NEW adc_valid \in BOOLEAN,
           NEW event, SrcAdvance(P!aer_valid, event),
           P!Clock(sample, adc_valid, src_ready)
    PROVE  /\ P!Inv' /\ P!RingInv' /\ PortInv'
           /\ ProducerMoves(write_event(P!aer_valid))
<1> DEFINE pop == write_event(P!aer_valid)
<1>1. /\ Inv /\ SrcInv /\ SrcTypeOK /\ P!Inv /\ P!RingInv
      /\ src_ready \in BOOLEAN /\ src_local_rst_n \in BOOLEAN
      /\ src_reset_meta \in BOOLEAN /\ full \in BOOLEAN
      /\ src_accepted_count \in 0 .. TELEMETRY_MAX /\ TELEMETRY_MAX \in Nat
      /\ backpressure_sticky \in BOOLEAN /\ telemetry_saturation_sticky \in BOOLEAN
    BY FifoAssumption DEF PartsInv, Inv, SrcInv, SrcTypeOK, src_ready
<1>2. pop \in BOOLEAN /\ pop = P!PopEvent(src_ready)
    BY DEF write_event, src_ready, P!PopEvent, P!aer_valid
<1>3. /\ P!Inv' /\ P!RingInv' /\ P!NewEvent(sample) \in Events
      /\ P!EdgeOutcome(sample, pop)
    BY <1>1, <1>2, ProducerEdge
<1>4. PICK push \in BOOLEAN, drop \in BOOLEAN :
        /\ P!Pending' = P!Popped(P!Pending, pop) \o P!Pushed(push, P!NewEvent(sample))
        /\ push => Len(P!Popped(P!Pending, pop)) < PRODUCER_DEPTH
        /\ producer_queued_count' = producer_queued_count + (IF push THEN 1 ELSE 0)
                                        - (IF pop THEN 1 ELSE 0)
        /\ producer_overflow_sticky' = (producer_overflow_sticky \/ drop)
        /\ drop => producer_queued_count = PRODUCER_DEPTH /\ ~pop
        /\ ~producer_saturation_sticky' =>
              /\ ~producer_saturation_sticky
              /\ producer_accepted_count' =
                    producer_accepted_count + (IF pop THEN 1 ELSE 0)
    BY <1>3 DEF P!EdgeOutcome
<1>5. ProducerMoves(pop)
    <2>1. PICK e : e = P!NewEvent(sample)
        OBVIOUS
    <2> QED
        BY <1>3, <1>4, <2>1 DEF ProducerMoves
<1>6. /\ producer_queued_count \in Nat /\ PRODUCER_DEPTH \in Nat
      /\ producer_accepted_count \in 0 .. TELEMETRY_MAX
      /\ producer_overflow_sticky \in BOOLEAN
      /\ P!aer_valid \in BOOLEAN /\ (P!aer_valid <=> producer_queued_count # 0)
    BY <1>1, ProducerTypes
<1>7. src_reset_meta' = src_rst_n
      /\ src_local_rst_n' = (src_rst_n /\ src_reset_meta)
    BY DEF SrcAdvance, SrcResetEdge
<1>8. CASE src_local_rst_n
    <2>1. /\ src_accepted_count' = IF pop THEN Saturated(src_accepted_count)
                                          ELSE src_accepted_count
          /\ telemetry_saturation_sticky' =
                (telemetry_saturation_sticky
                    \/ (pop /\ src_accepted_count = TELEMETRY_MAX))
          /\ backpressure_sticky' =
                (backpressure_sticky \/ (P!aer_valid /\ ~src_ready))
        BY <1>8 DEF SrcAdvance, SrcAccount
    <2>2. src_local_rst_n'
        BY <1>1, <1>7, <1>8 DEF SrcInv
    <2>3. LagInv'
        BY <2>2 DEF LagInv
    <2>4. SameCount'
        <3> SUFFICES ASSUME ~producer_saturation_sticky', ~telemetry_saturation_sticky'
                     PROVE  producer_accepted_count' = src_accepted_count'
            BY DEF SameCount
        <3>1. producer_accepted_count = src_accepted_count
            BY <1>4, <2>1 DEF PortInv, SameCount
        <3> HIDE DEF pop
        <3> QED
            BY <1>1, <1>2, <1>4, <2>1, <3>1 DEF Saturated
    <2>5. DropMeansBackpressure'
        <3> SUFFICES ASSUME PRODUCER_DEPTH >= 2, producer_overflow_sticky'
                     PROVE  backpressure_sticky'
            BY DEF DropMeansBackpressure
        <3>1. CASE producer_overflow_sticky
            BY <2>1, <3>1 DEF PortInv, DropMeansBackpressure
        <3>2. CASE drop
            <4>1. P!aer_valid /\ ~pop
                BY <1>4, <1>6, <3>2
            <4>2. ~src_ready
                BY <4>1 DEF write_event
            <4> QED
                BY <2>1, <4>1, <4>2
        <3> QED
            BY <1>4, <3>1, <3>2
    <2> QED
        BY <1>3, <1>5, <2>3, <2>4, <2>5 DEF PortInv
<1>9. CASE ~src_local_rst_n
    <2>1. /\ src_accepted_count' = 0 /\ ~pop
        BY <1>9 DEF SrcAdvance, SrcRegistersCleared, write_event, src_ready
    <2>2. /\ producer_queued_count <= (IF src_reset_meta THEN 1 ELSE 0)
          /\ ~producer_saturation_sticky => producer_accepted_count = 0
          /\ PRODUCER_DEPTH >= 2 => ~producer_overflow_sticky
        BY <1>9 DEF PortInv, LagInv
    <2>3. PRODUCER_DEPTH >= 2 => ~drop
        BY <1>1, <1>4, <1>6, <2>2
    <2>4. PRODUCER_DEPTH >= 2 => ~producer_overflow_sticky'
        BY <1>4, <2>2, <2>3
    <2>5. ~producer_saturation_sticky' => producer_accepted_count' = 0
        BY <1>4, <2>1, <2>2
    <2>6. LagInv'
        <3>1. producer_queued_count' <= producer_queued_count + 1
            BY <1>4, <1>6, <2>1
        <3>2. ASSUME ~src_local_rst_n'
              PROVE  producer_queued_count' <= (IF src_reset_meta' THEN 1 ELSE 0)
            <4>1. ~src_reset_meta /\ src_reset_meta'
                BY <1>1, <1>7, <3>2
            <4>2. producer_queued_count = 0
                BY <1>6, <2>2, <4>1
            <4> QED
                BY <3>1, <4>1, <4>2
        <3> QED
            BY <2>4, <2>5, <3>2 DEF LagInv
    <2>7. SameCount'
        BY <2>1, <2>5 DEF SameCount
    <2>8. DropMeansBackpressure'
        BY <2>4 DEF DropMeansBackpressure
    <2> QED
        BY <1>3, <1>5, <2>6, <2>7, <2>8 DEF PortInv
<1> QED
    BY <1>1, <1>8, <1>9

(* In reset an edge clears what is clear already. *)
LEMMA HeldEdge ==
    ASSUME PartsInv, PortInv, ~src_rst_n, UNCHANGED src_rst_n,
           NEW event, SrcAdvance(P!aer_valid, event), P!Cleared
    PROVE  /\ P!Inv' /\ P!RingInv' /\ PortInv'
           /\ ProducerMoves(write_event(P!aer_valid))
<1>1. /\ Inv /\ SrcInv /\ SrcTypeOK /\ P!Inv /\ P!RingInv /\ src_rst_n' \in BOOLEAN
    BY DEF PartsInv, Inv, SrcInv, SrcTypeOK
<1>2. ~src_reset_meta /\ ~src_local_rst_n
    BY <1>1 DEF SrcInv
<1>3. P!Inv' /\ P!RingInv'
    BY <1>1, ProducerClears
<1>4. /\ producer_queued_count' = 0 /\ producer_accepted_count' = 0
      /\ producer_overflow_sticky' = FALSE
    BY DEF P!Cleared
<1>5. src_accepted_count' = 0 /\ ~write_event(P!aer_valid)
    BY <1>2 DEF SrcAdvance, SrcRegistersCleared, write_event, src_ready
<1>6. PortInv'
    BY <1>4, <1>5 DEF PortInv, LagInv, SameCount, DropMeansBackpressure
<1>7. P!Pending = <<>> /\ P!Pending' = <<>>
    <2>1. producer_queued_count = 0
        BY <1>1, <1>2, ProducerTypes DEF PortInv, LagInv
    <2> QED
        BY <1>4, <2>1 DEF P!Pending
<1>8. P!Pending' = P!Popped(P!Pending, FALSE) \o P!Pushed(FALSE, NoEvent)
    BY <1>7 DEF P!Popped, P!Pushed
<1>9. ProducerMoves(FALSE)
    BY <1>8 DEF ProducerMoves
<1>10. write_event(P!aer_valid) = FALSE
    BY <1>5 DEF write_event
<1> QED
    BY <1>3, <1>6, <1>9, <1>10

(* A source edge of the ingress, in or out of reset. *)
LEMMA SourceEdge ==
    ASSUME PartsInv, PortInv, UNCHANGED src_rst_n,
           NEW sample \in Samples, NEW adc_valid \in BOOLEAN,
           ProducerClock(sample, adc_valid),
           SrcAdvance(Producer!aer_valid, Producer!aer_event)
    PROVE  /\ P!Inv' /\ P!RingInv' /\ PortInv'
           /\ P!aer_valid \in BOOLEAN
           /\ P!aer_valid => P!aer_event \in Events
           /\ \E e \in Events : /\ SrcAdvance(P!aer_valid, e)
                                /\ P!aer_valid => e = P!aer_event
           /\ ProducerMoves(write_event(P!aer_valid))
<1>1. P!Inv /\ P!RingInv
    BY DEF PartsInv
<1>2. /\ P!Clock(sample, adc_valid, src_ready)
      /\ SrcAdvance(P!aer_valid, P!aer_event)
    BY SameClock, SameProducer DEF ProducerClock
<1>3. /\ P!aer_valid \in BOOLEAN
      /\ P!aer_valid => P!aer_event \in Events
    BY <1>1, ProducerTypes, ProducerOffers
<1>4. \E e \in Events : SrcAdvance(P!aer_valid, e) /\ (P!aer_valid => e = P!aer_event)
    BY <1>2, <1>3, PortEvent
<1>5. src_ready \in BOOLEAN /\ src_rst_n \in BOOLEAN
    BY DEF PartsInv, Inv, SrcInv, SrcTypeOK, src_ready
<1>6. CASE src_rst_n
    BY <1>2, <1>3, <1>4, <1>6, RunningEdge
<1>7. CASE ~src_rst_n
    <2>1. P!Cleared
        BY <1>2, <1>7 DEF P!Clock
    <2> QED
        BY <1>2, <1>3, <1>4, <1>7, <2>1, HeldEdge
<1> QED
    BY <1>6, <1>7

-----------------------------------------------------------------------------
(* The two buffers as one queue. *)

(* Two queues in a row, the first handing its oldest event to the second:  *)
(* together they lose what the second gives and gain what the first gets.  *)
Rest(s, gone) == IF gone THEN Tail(s) ELSE s

Handover(c, p, put, took, wrote) ==
    /\ (Rest(c, took) \o (IF wrote THEN <<Head(p)>> ELSE <<>>))
          \o (Rest(p, wrote) \o put) = Rest(c \o p, took) \o put
    /\ Len(Rest(c \o p, took)) = Len(Rest(c, took)) + Len(p)
    /\ Len(Rest(c, took)) \in Nat

LEMMA InARow ==
    ASSUME NEW S, NEW c \in Seq(S), NEW p \in Seq(S), NEW put \in Seq(S),
           NEW took \in BOOLEAN, NEW wrote \in BOOLEAN,
           took => c # <<>>, wrote => p # <<>>
    PROVE  Handover(c, p, put, took, wrote)
<1> DEFINE rest(s, gone) == IF gone THEN Tail(s) ELSE s
           moved == IF wrote THEN <<Head(p)>> ELSE <<>>
           a == rest(c, took)
           b == rest(p, wrote)
<1>1. moved \o b = p /\ moved \in Seq(S) /\ b \in Seq(S)
    <2>1. CASE wrote
        BY <2>1
    <2>2. CASE ~wrote
        BY <2>2
    <2> QED
        BY <2>1, <2>2
<1>2. rest(c \o p, took) = a \o p /\ a \in Seq(S)
    <2>1. CASE took
        BY <2>1
    <2>2. CASE ~took
        BY <2>2
    <2> QED
        BY <2>1, <2>2
<1> HIDE DEF rest, moved, a, b
<1>3. (a \o moved) \o (b \o put) = (a \o (moved \o b)) \o put
    <2>1. a \in Seq(S) /\ moved \in Seq(S) /\ b \in Seq(S) /\ put \in Seq(S)
        BY <1>1, <1>2
    <2> QED
        BY <2>1
<1>4. Len(a \o p) = Len(a) + Len(p) /\ Len(a) \in Nat
    BY <1>2
<1>5. /\ (a \o moved) \o (b \o put) = rest(c \o p, took) \o put
      /\ Len(rest(c \o p, took)) = Len(a) + Len(p) /\ Len(a) \in Nat
    BY <1>1, <1>2, <1>3, <1>4
<1> QED
    BY <1>5 DEF Handover, Rest, rest, moved, a, b

LEMMA IngressTransfer ==
    ASSUME PartsInv, Inv', NEW wrote \in BOOLEAN, NEW took \in BOOLEAN, NEW event,
           wrote => event \in Events /\ P!aer_valid /\ event = P!aer_event,
           PointerStep(wrote, event, took), dst_valid /\ ~took => dst_valid',
           ProducerMoves(wrote)
    PROVE  IngressQueue!Next
<1> DEFINE moved == IF wrote THEN <<event>> ELSE <<>>
           C == Contents  C2 == Contents'
           W == P!Pending  W2 == P!Pending'
<1>1. Inv /\ StoredInv /\ P!Inv /\ P!RingInv
    BY DEF PartsInv
<1>2. /\ Queue!Transfer(moved, took)
      /\ C2 = Rest(C, took) \o moved
      /\ wrote => Len(Rest(C, took)) < DEPTH
    BY <1>1, EdgeTransfers, ContentsStep DEF Rest
<1>3. /\ C \in Seq(Events) /\ Len(C) = Occupancy
      /\ took => C # <<>>
      /\ Occupancy \in Nat /\ Occupancy <= DEPTH
    BY <1>1, ContentsFacts, OfferFacts, OccupancyFacts DEF PointerStep
<1>4. /\ W \in Seq(Events) /\ Len(W) = producer_queued_count
      /\ wrote => W # <<>> /\ event = Head(W)
      /\ producer_queued_count <= PRODUCER_DEPTH /\ PRODUCER_DEPTH \in Nat
    BY <1>1, ProducerOffers, ProducerTypes
<1>4a. PICK push \in BOOLEAN : \E new :
          /\ push => new \in Events
          /\ W2 = Rest(W, wrote) \o P!Pushed(push, new)
          /\ push => Len(Rest(W, wrote)) < PRODUCER_DEPTH
    BY DEF ProducerMoves, P!Popped, Rest
<1>5. PICK new :
          /\ push => new \in Events
          /\ W2 = Rest(W, wrote) \o P!Pushed(push, new)
          /\ push => Len(Rest(W, wrote)) < PRODUCER_DEPTH
    BY <1>4a
<1> DEFINE put == P!Pushed(push, new)
<1>6. put \in Seq(Events) /\ put \in {<<>>} \cup {<<e>> : e \in Events}
      /\ (put # <<>> => push)
    BY <1>5 DEF P!Pushed
<1>7. InTransit = C \o W /\ InTransit' = C2 \o W2
    BY DEF InTransit, Producer!Pending, P!Pending
<1>8. /\ (Rest(C, took) \o (IF wrote THEN <<Head(W)>> ELSE <<>>))
            \o (Rest(W, wrote) \o put) = Rest(C \o W, took) \o put
      /\ Len(Rest(C \o W, took)) = Len(Rest(C, took)) + Len(W)
      /\ Len(Rest(C, took)) \in Nat
    <2>1. Handover(C, W, put, took, wrote)
        <3> HIDE DEF C, W, put
        <3> QED
            BY <1>3, <1>4, <1>6, InARow
    <2> HIDE DEF C, W, put
    <2> QED
        BY <2>1 DEF Handover
<1>9. C2 = Rest(C, took) \o (IF wrote THEN <<Head(W)>> ELSE <<>>)
    BY <1>2, <1>4
<1>10. InTransit' = Rest(InTransit, took) \o put
    BY <1>5, <1>7, <1>8, <1>9
<1>11. put # <<>> => Len(Rest(InTransit, took)) < PRODUCER_DEPTH + DEPTH
    <2> SUFFICES ASSUME put # <<>>
                 PROVE  Len(Rest(C, took)) + Len(W) < PRODUCER_DEPTH + DEPTH
        BY <1>7, <1>8
    <2>1. push /\ DEPTH \in Nat
        BY <1>1, <1>6, OccupancyFacts
    <2>2. CASE wrote
        <3>1. Len(Rest(C, took)) < DEPTH /\ Len(W) <= PRODUCER_DEPTH /\ Len(W) \in Nat
            BY <1>2, <1>4, <2>2
        <3> HIDE DEF C, W
        <3> QED
            BY <1>4, <1>8, <2>1, <3>1
    <2>3. CASE ~wrote
        <3>1. Len(Rest(C, took)) <= DEPTH
            <4>1. CASE took
                <5>1. Len(Tail(C)) = Len(C) - 1
                    <6> HIDE DEF C
                    <6> QED
                        BY <1>3, <4>1
                <5> HIDE DEF C
                <5> QED
                    BY <1>3, <2>1, <4>1, <5>1 DEF Rest
            <4>2. CASE ~took
                BY <1>3, <4>2 DEF Rest
            <4> QED
                BY <4>1, <4>2
        <3>2. Len(W) < PRODUCER_DEPTH /\ Len(W) \in Nat
            <4>1. Len(W) < PRODUCER_DEPTH
                BY <1>5, <2>1, <2>3 DEF Rest
            <4> HIDE DEF W
            <4> QED
                BY <1>4, <4>1
        <3> HIDE DEF C, W
        <3> QED
            BY <1>4, <1>8, <2>1, <3>1, <3>2
    <2> QED
        BY <2>2, <2>3
<1>12. took => Offered # NoEvent
    BY <1>2 DEF Queue!Transfer, Offered
<1>13. IngressQueue!OfferNext(took)
    <2>1. IF Offered # NoEvent /\ ~took
          THEN Offered' = Offered
          ELSE Offered' = NoEvent \/ (C2 # <<>> /\ Offered' = Head(C2))
        BY <1>2 DEF Queue!Transfer, Queue!OfferNext, Offered
    <2>2. ASSUME C2 # <<>> PROVE InTransit' # <<>> /\ Head(InTransit') = Head(C2)
        <3>1. C2 \in Seq(Events) /\ W2 \in Seq(Events)
            <4>1. moved \in Seq(Events)
                BY <1>1
            <4>2. Rest(C, took) \in Seq(Events) /\ Rest(W, wrote) \in Seq(Events)
                <5> HIDE DEF C, W
                <5> QED
                    BY <1>3, <1>4 DEF Rest
            <4>3. /\ C2 = Rest(C, took) \o moved
                  /\ W2 = Rest(W, wrote) \o put /\ put \in Seq(Events)
                BY <1>2, <1>5, <1>6
            <4> HIDE DEF C, C2, W, W2, moved, put
            <4> QED
                BY <4>1, <4>2, <4>3
        <3> HIDE DEF C2, W2
        <3>2. C2 \o W2 # <<>> /\ Head(C2 \o W2) = Head(C2)
            BY <2>2, <3>1
        <3> QED
            BY <1>7, <3>2
    <2> HIDE DEF C2
    <2> QED
        BY <2>1, <2>2 DEF IngressQueue!OfferNext, Offered
<1> HIDE DEF put, C, W, C2, W2
<1>14. IngressQueue!Transfer(put, took)
    BY <1>10, <1>11, <1>12, <1>13 DEF IngressQueue!Transfer, Offered, Rest
<1> QED
    BY <1>6, <1>14 DEF IngressQueue!Next

-----------------------------------------------------------------------------
(* The steps of the whole. *)

LEMMA PartsStay ==
    ASSUME PartsInv, UNCHANGED producerRegs, src_rst_n' \in BOOLEAN
    PROVE  P!Inv' /\ P!RingInv' /\ P!Pending' = P!Pending /\ ProducerMoves(FALSE)
<1>1. P!Inv /\ P!RingInv
    BY DEF PartsInv
<1>2. P!Inv'
    BY <1>1
    DEF producerRegs, P!Inv, P!TypeOK, P!SpikesConserved,
        P!ResidueBelowThreshold, P!OverflowOnlyWhenFull
<1>3. P!RingInv'
    BY <1>1 DEF producerRegs, P!RingInv, P!Entry, P!At, P!Around
<1>4. P!Pending' = P!Pending
    BY DEF producerRegs, P!Pending
<1>5. P!Pending' = P!Popped(P!Pending, FALSE) \o P!Pushed(FALSE, NoEvent)
    <2>1. P!Pending \in Seq(Events)
        BY <1>1, ProducerOffers
    <2> HIDE DEF P!Pending
    <2> QED
        BY <1>4, <2>1 DEF P!Popped, P!Pushed
<1> QED
    BY <1>2, <1>3, <1>4, <1>5 DEF ProducerMoves

(* What follows for the whole from a step seen by the FIFO and by the      *)
(* producer.                                                               *)
LEMMA WholeStep ==
    ASSUME PartsInv, [Next]_vars, P!Inv', P!RingInv', PortInv'
    PROVE  PartsInv' /\ PortInv'
<1>1. Inv'
    BY InvInductive DEF PartsInv
<1>2. StoredInv'
    BY <1>1, QueueStep DEF PartsInv
<1> QED
    BY <1>1, <1>2 DEF PartsInv

LEMMA SrcTickStep ==
    ASSUME PartsInv, PortInv, IngressSrcTick
    PROVE  PartsInv' /\ PortInv' /\ IngressQueue!Next
<1>1. PICK sample \in Samples, adc_valid \in BOOLEAN :
          /\ ProducerClock(sample, adc_valid)
          /\ SrcEdge(Producer!aer_valid, Producer!aer_event)
    BY DEF IngressSrcTick
<1>2. /\ UNCHANGED src_rst_n /\ SrcSample(read_gray)
      /\ UNCHANGED <<src_rst_n, dst_rst_n, dstRegs>>
      /\ SrcAdvance(Producer!aer_valid, Producer!aer_event)
    BY <1>1 DEF SrcEdge
<1> DEFINE valid == P!aer_valid
<1>3. /\ P!Inv' /\ P!RingInv' /\ PortInv'
      /\ valid \in BOOLEAN
      /\ \E e \in Events : SrcAdvance(valid, e) /\ (valid => e = P!aer_event)
      /\ ProducerMoves(write_event(valid))
    BY <1>1, <1>2, SourceEdge
<1> HIDE DEF valid
<1>4. PICK e \in Events : SrcAdvance(valid, e) /\ (valid => e = P!aer_event)
    BY <1>3
<1>5. SrcTick
    BY <1>2, <1>3, <1>4 DEF SrcTick, SrcEdge
<1>6. PartsInv' /\ PortInv'
    BY <1>3, <1>5, WholeStep DEF Next
<1>7. /\ PointerStep(write_event(valid), e, FALSE)
      /\ write_event(valid) \in BOOLEAN
    BY <1>2, <1>3, <1>4, SrcPointer
    DEF PartsInv, Inv, PointerStep, dstRegs, dstPointers
<1>8. write_event(valid) => valid
    BY DEF write_event
<1>9. dst_valid => dst_valid'
    BY <1>2 DEF dst_valid, dstRegs, dstReset, dstPointers
<1>10. IngressQueue!Next
    BY <1>3, <1>4, <1>6, <1>7, <1>8, <1>9, IngressTransfer DEF PartsInv, valid
<1> QED
    BY <1>6, <1>10

LEMMA DstTickStep ==
    ASSUME PartsInv, PortInv, IngressDstTick
    PROVE  PartsInv' /\ PortInv' /\ IngressQueue!Next
<1>1. PICK ready \in BOOLEAN : DstEdge(ready)
    BY DEF IngressDstTick
<1>2. /\ UNCHANGED producerRegs /\ DstAdvance(ready)
      /\ UNCHANGED <<src_rst_n, dst_rst_n, srcRegs>>
    BY <1>1 DEF IngressDstTick, DstEdge
<1>3. src_rst_n' \in BOOLEAN /\ Inv
    BY <1>2 DEF PartsInv, Inv, SrcInv, SrcTypeOK
<1>4. P!Inv' /\ P!RingInv' /\ ProducerMoves(FALSE)
    BY <1>2, <1>3, PartsStay
<1>5. PortInv'
    BY <1>2
    DEF PortInv, LagInv, SameCount, DropMeansBackpressure, producerRegs, srcRegs,
        srcReset, srcTelemetry
<1>6. PartsInv' /\ PortInv'
    BY <1>1, <1>4, <1>5, WholeStep DEF Next, DstTick
<1>7. /\ PointerStep(FALSE, NoEvent, read_event(ready))
      /\ dst_valid /\ ~read_event(ready) => dst_valid'
      /\ read_event(ready) \in BOOLEAN
    BY <1>2, <1>3, DstPointer DEF PointerStep, srcRegs, srcPointers
<1>8. IngressQueue!Next
    BY <1>4, <1>6, <1>7, IngressTransfer DEF PartsInv
<1> QED
    BY <1>6, <1>8

LEMMA BothTickStep ==
    ASSUME PartsInv, PortInv, IngressBothTick
    PROVE  PartsInv' /\ PortInv' /\ IngressQueue!Next
<1>1. PICK sample \in Samples, adc_valid \in BOOLEAN, ready \in BOOLEAN :
          /\ ProducerClock(sample, adc_valid)
          /\ BothEdges(Producer!aer_valid, Producer!aer_event, ready)
    BY DEF IngressBothTick
<1>2. /\ UNCHANGED src_rst_n /\ UNCHANGED dst_rst_n /\ DstAdvance(ready)
      /\ SrcAdvance(Producer!aer_valid, Producer!aer_event)
      /\ \E code \in Torn(read_gray, read_gray') : SrcSample(code)
      /\ \E code \in Torn(write_gray, write_gray') : DstSample(code)
    BY <1>1 DEF BothEdges
<1> DEFINE valid == P!aer_valid
<1>3. /\ P!Inv' /\ P!RingInv' /\ PortInv'
      /\ valid \in BOOLEAN
      /\ \E e \in Events : SrcAdvance(valid, e) /\ (valid => e = P!aer_event)
      /\ ProducerMoves(write_event(valid))
    BY <1>1, <1>2, SourceEdge
<1> HIDE DEF valid
<1>4. PICK e \in Events : SrcAdvance(valid, e) /\ (valid => e = P!aer_event)
    BY <1>3
<1>5. BothTick
    BY <1>2, <1>3, <1>4 DEF BothTick, BothEdges
<1>6. PartsInv' /\ PortInv'
    BY <1>3, <1>5, WholeStep DEF Next
<1>7. Inv /\ SrcInv
    BY DEF PartsInv, Inv
<1>8. /\ PointerStep(write_event(valid), e, read_event(ready))
      /\ dst_valid /\ ~read_event(ready) => dst_valid'
      /\ write_event(valid) \in BOOLEAN /\ read_event(ready) \in BOOLEAN
    BY <1>2, <1>3, <1>4, <1>7, SrcPointer, DstPointer DEF PointerStep
<1>9. write_event(valid) => valid
    BY DEF write_event
<1>10. IngressQueue!Next
    BY <1>3, <1>4, <1>6, <1>8, <1>9, IngressTransfer DEF PartsInv, valid
<1> QED
    BY <1>6, <1>10

LEMMA ResetStep ==
    ASSUME PartsInv, PortInv, IngressAssertResets
    PROVE  PartsInv' /\ PortInv' /\ IngressQueue!Next
<1>1. /\ AssertResets /\ P!Cleared
    BY SameProducer DEF IngressAssertResets
<1>2. /\ src_rst_n' = FALSE /\ src_local_rst_n' = FALSE /\ src_accepted_count' = 0
      /\ write_binary' = 0 /\ read_binary' = 0 /\ dst_local_rst_n' = FALSE
    BY <1>1 DEF AssertResets, SrcRegistersCleared, DstRegistersCleared
<1>3. /\ producer_queued_count' = 0 /\ producer_accepted_count' = 0
      /\ producer_overflow_sticky' = FALSE
    BY <1>1 DEF P!Cleared
<1>4. P!Inv' /\ P!RingInv'
    BY <1>1, <1>2, ProducerClears DEF PartsInv
<1>5. PortInv'
    BY <1>2, <1>3 DEF PortInv, LagInv, SameCount, DropMeansBackpressure
<1>6. PartsInv' /\ PortInv'
    BY <1>1, <1>4, <1>5, WholeStep DEF Next
<1>7. Occupancy' = 0
    BY <1>2, ZeroFacts, DistanceSteps DEF Occupancy
<1>8. InTransit' = <<>>
    <2>1. Contents' = <<>> /\ Producer!Pending' = <<>>
        BY <1>3, <1>7 DEF Contents, Producer!Pending
    <2>2. InTransit' = Contents' \o Producer!Pending'
        BY DEF InTransit
    <2> QED
        BY <2>1, <2>2
<1>9. IngressQueue!Flush
    BY <1>2, <1>8 DEF IngressQueue!Flush, dst_valid
<1> QED
    BY <1>6, <1>9 DEF IngressQueue!Next

LEMMA ReleaseStep ==
    ASSUME PartsInv, PortInv,
           \/ IngressReleaseSrcReset \/ IngressReleaseDstReset
           \/ UNCHANGED ingressVars
    PROVE  PartsInv' /\ PortInv' /\ UNCHANGED IngressQueue!vars
<1>1. /\ ReleaseSrcReset \/ ReleaseDstReset \/ UNCHANGED vars
      /\ UNCHANGED producerRegs /\ UNCHANGED <<srcRegs, dstRegs>>
    BY DEF IngressReleaseSrcReset, IngressReleaseDstReset, ingressVars,
           ReleaseSrcReset, ReleaseDstReset, vars
<1>2. src_rst_n' \in BOOLEAN
    BY <1>1
    DEF PartsInv, Inv, SrcInv, SrcTypeOK, ReleaseSrcReset, ReleaseDstReset, vars
<1>3. P!Inv' /\ P!RingInv' /\ P!Pending' = P!Pending
    BY <1>1, <1>2, PartsStay
<1>4. PortInv'
    BY <1>1
    DEF PortInv, LagInv, SameCount, DropMeansBackpressure, producerRegs, srcRegs,
        srcReset, srcTelemetry
<1>5. PartsInv' /\ PortInv'
    BY <1>1, <1>3, <1>4, WholeStep DEF Next
<1>6. UNCHANGED <<write_binary, read_binary, memory, dst_local_rst_n, empty>>
    BY <1>1 DEF srcRegs, srcPointers, dstRegs, dstReset, dstPointers
<1>7. UNCHANGED <<Contents, dst_valid, dst_event, Producer!Pending>>
    BY <1>1, <1>6 DEF Contents, Occupancy, dst_valid, dst_event, Producer!Pending, producerRegs
<1>8. UNCHANGED IngressQueue!vars
    BY <1>7 DEF IngressQueue!vars, InTransit
<1> QED
    BY <1>5, <1>8

LEMMA IngressStep ==
    PartsInv /\ PortInv /\ [IngressNext]_ingressVars
        => PartsInv' /\ PortInv' /\ [IngressQueue!Next]_(IngressQueue!vars)
BY SrcTickStep, DstTickStep, BothTickStep, ResetStep, ReleaseStep
DEF IngressNext

LEMMA IngressInitially ==
    IngressInit => PartsInv /\ PortInv /\ IngressQueue!Init
<1> SUFFICES ASSUME IngressInit PROVE PartsInv /\ PortInv /\ IngressQueue!Init
    OBVIOUS
<1>1. Init /\ P!Init
    BY SameProducer DEF IngressInit
<1>2. Inv
    BY <1>1, InitInv
<1>3. P!Inv /\ P!NumberInv
    BY <1>1, Parameters, P!InitInv, P!NumberInit
<1>4. Occupancy = 0
    BY <1>1, ZeroFacts, DistanceSteps DEF Init, Occupancy
<1>5. Contents = <<>> /\ StoredInv
    BY <1>4 DEF Contents, StoredInv
<1>6. producer_queued_count = 0 /\ producer_accepted_count = 0
      /\ producer_overflow_sticky = FALSE
    BY <1>1 DEF P!Init
<1>7. PartsInv
    BY <1>2, <1>3, <1>5 DEF PartsInv, P!NumberInv
<1>8. PortInv
    BY <1>1, <1>6 DEF PortInv, LagInv, SameCount, DropMeansBackpressure, Init
<1>9. Producer!Pending = <<>>
    BY <1>6 DEF Producer!Pending
<1>10. InTransit = <<>>
    BY <1>5, <1>9 DEF InTransit
<1>11. IngressQueue!Init
    BY <1>1, <1>10 DEF IngressQueue!Init, Init, dst_valid
<1> QED
    BY <1>7, <1>8, <1>11

LEMMA IngressInvariant == IngressSpec => [](PartsInv /\ PortInv)
<1>1. PartsInv /\ PortInv /\ [IngressNext]_ingressVars => (PartsInv /\ PortInv)'
    BY IngressStep
<1> QED
    BY <1>1, IngressInitially, PTL DEF IngressSpec

(* From the sample to the reader nothing is unaccounted for: a generated   *)
(* spike is delivered, counted as dropped or in one of the buffers, and a  *)
(* drop is on record at the FIFO as backpressure, reset lag included.      *)
THEOREM LossAccounting == IngressSpec => []LossIsAccounted
<1>1. PartsInv /\ PortInv => LossIsAccounted
    <2> SUFFICES ASSUME PartsInv, PortInv PROVE EndToEndConserved
        BY DEF LossIsAccounted, PortInv
    <2> SUFFICES ASSUME ~producer_saturation_sticky, ~telemetry_saturation_sticky,
                        ~dst_telemetry_saturation_sticky
                 PROVE  generated_count = dst_accepted_count + dropped_count
                                            + producer_queued_count + Occupancy
        BY DEF EndToEndConserved
    <2>1. generated_count =
              producer_accepted_count + dropped_count + producer_queued_count
        BY DEF PartsInv, P!Inv, P!SpikesConserved
    <2>2. producer_accepted_count = src_accepted_count
        BY DEF PortInv, SameCount
    <2>3. src_accepted_count = dst_accepted_count + Occupancy
        BY DEF PartsInv, Inv, CountInv, AccountingConserves
    <2>4. /\ dropped_count \in 0 .. TELEMETRY_MAX /\ producer_queued_count \in Nat
          /\ dst_accepted_count \in 0 .. TELEMETRY_MAX /\ Occupancy \in Nat
        BY ProducerTypes, OccupancyFacts
        DEF PartsInv, P!Inv, P!TypeOK, Inv, DstInv, DstTypeOK
    <2> QED
        BY <2>1, <2>2, <2>3, <2>4, FifoAssumption
<1> QED
    BY <1>1, IngressInvariant, PTL

(* The two buffers are one queue of their summed capacity: what the        *)
(* producer admits reaches the reader once, unchanged and in order.        *)
THEOREM IngressImplementsQueue == IngressSpec => ImplementsIngressQueue
<1>1. PartsInv /\ PortInv /\ [IngressNext]_ingressVars
        => [IngressQueue!Next]_(IngressQueue!vars)
    BY IngressStep
<1> QED
    BY <1>1, IngressInitially, IngressInvariant, PTL
    DEF IngressSpec, ImplementsIngressQueue, IngressQueue!Spec

=============================================================================
