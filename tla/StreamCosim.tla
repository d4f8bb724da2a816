----------------------------- MODULE StreamCosim -----------------------------
(***************************************************************************)
(* The RTL of EventStream in lockstep with its golden reference,           *)
(* run_aer_event_stream_reference of tools/aer_event_ingress_reference.py: *)
(* an unbounded tick, a deque in place of the ring, and a pop that comes   *)
(* before the push of the same edge.                                       *)
(*                                                                         *)
(* One trace is an epoch: samples, then drain edges without one.  The      *)
(* harness of tools/aer_event_ingress_cosim.py starts it with four zero    *)
(* samples, the edges its reset release takes.  When the trace ends the    *)
(* reference is put away and the RTL runs on, through resets and gaps.     *)
(*                                                                         *)
(* Beside both a history is kept of what the reader of the port cannot     *)
(* see, the spikes refused between one event and the next, to say what the *)
(* numbers it does see are worth.                                          *)
(***************************************************************************)
EXTENDS EventStream

CONSTANT MAX_TICKS            \* length of the longest trace

ASSUME TraceAssumption == MAX_TICKS \in Nat

VARIABLES
    ref_tick,                 \* source_tick of the loop, MAX_TICKS + 1 after it
    draining,                 \* the samples of the trace are used up
    queue, ref_accumulator, ref_high_watermark, ref_sequence, sequence_wrap,
    ref_generated, ref_accepted, ref_dropped, dropped_events, telemetry_saturation,
    taken_number,             \* history: number of the last event the reader took
    refused_before,           \* history: of a slot, the spikes refused just before its event
    refused_since             \* history: the spikes refused since the last admitted one

tallies == <<ref_generated, ref_accepted, ref_dropped>>
referenceVars == <<ref_tick, draining, queue, ref_accumulator, ref_high_watermark,
                   ref_sequence, sequence_wrap, tallies, dropped_events,
                   telemetry_saturation>>
history == <<taken_number, refused_before, refused_since>>
cosimVars == <<vars, referenceVars, history>>

CosimInit ==
    /\ Init /\ ref_tick = 0 /\ draining = FALSE
    /\ queue = <<>> /\ ref_accumulator = 0 /\ ref_high_watermark = 0
    /\ ref_sequence = 0 /\ sequence_wrap = FALSE
    /\ ref_generated = 0 /\ ref_accepted = 0 /\ ref_dropped = 0
    /\ dropped_events = FALSE /\ telemetry_saturation = FALSE
    /\ taken_number = SEQUENCE_MAX
    /\ refused_before = [slot \in Positions |-> 0] /\ refused_since = 0

-----------------------------------------------------------------------------
saturating_increment(n) == IF n = TELEMETRY_MAX THEN n ELSE n + 1

Fires(sample) ==
    /\ ~draining /\ Magnitude(sample) # 0
    /\ (ref_accumulator + Magnitude(sample)) % MAG_MODULUS >= RATE_THRESHOLD

(* Mutant: the pop of an edge does not make room for its push. *)
RoomBeforePop(popped) == Len(queue) < FIFO_DEPTH

RoomAfterPop(popped) == Len(popped) < FIFO_DEPTH

(* The number n after another; numbers and the counts of the history wrap. *)
Advanced(number, n) ==
    IF number + n > SEQUENCE_MAX THEN number + n - (SEQUENCE_MAX + 1) ELSE number + n

(* What an edge adds to the history: the number taken from the port, and   *)
(* the refusals since the last admitted spike, put down with the next one. *)
Remember(sample, valid, ready) ==
    LET spike == SpikeGenerated(sample, valid)
        read == [slot \in Positions |->
                    IF PopEvent(ready) /\ slot = read_pointer THEN 0 ELSE refused_before[slot]]
    IN  /\ taken_number' = IF PopEvent(ready) THEN aer_event.sequence ELSE taken_number
        /\ refused_before' = IF EnqueueEvent(spike, ready)
                             THEN [read EXCEPT ![write_pointer] = refused_since] ELSE read
        /\ refused_since' = IF EnqueueEvent(spike, ready) THEN 0
                            ELSE IF DropEvent(spike, ready) THEN Advanced(refused_since, 1)
                            ELSE refused_since

Forget == taken_number' = SEQUENCE_MAX /\ refused_since' = 0
          /\ refused_before' = [slot \in Positions |-> 0]

(* One iteration of the loop over source ticks.                            *)
ReferenceEdge(sample, ready) ==
    LET pops == ready /\ queue # <<>>
        popped == IF pops THEN Tail(queue) ELSE queue
        fires == Fires(sample)
        drops == fires /\ ~RoomAfterPop(popped)
        event == [polarity |-> IF sample < 0 THEN -1 ELSE 1,
                  source_tick |-> ref_tick, sequence |-> ref_sequence]
        charge == (ref_accumulator + Magnitude(sample)) % MAG_MODULUS
    IN  /\ queue' = IF fires /\ ~drops THEN Append(popped, event) ELSE popped
        /\ ref_accumulator' = IF draining THEN ref_accumulator
                              ELSE IF fires THEN charge - RATE_THRESHOLD ELSE charge
        /\ ref_high_watermark' = IF Len(queue') > ref_high_watermark
                                 THEN Len(queue') ELSE ref_high_watermark
        /\ ref_sequence' = IF fires THEN (ref_sequence + 1) % (SEQUENCE_MAX + 1)
                           ELSE ref_sequence
        /\ sequence_wrap' = (sequence_wrap \/ (fires /\ ref_sequence' = 0))
        /\ ref_generated' = IF fires THEN saturating_increment(ref_generated) ELSE ref_generated
        /\ ref_accepted' = IF pops THEN saturating_increment(ref_accepted) ELSE ref_accepted
        /\ ref_dropped' = IF drops THEN saturating_increment(ref_dropped) ELSE ref_dropped
        /\ dropped_events' = (dropped_events \/ drops)
        /\ telemetry_saturation' =
              \/ telemetry_saturation
              \/ pops /\ ref_accepted = TELEMETRY_MAX
              \/ fires /\ ref_generated = TELEMETRY_MAX
              \/ drops /\ ref_dropped = TELEMETRY_MAX

Cycle ==
    /\ rst_n /\ ref_tick < MAX_TICKS
    /\ \E sample \in Samples, ready \in BOOLEAN :
          /\ Clock(sample, ~draining, ready) /\ ReferenceEdge(sample, ready)
          /\ Remember(sample, ~draining, ready)
    /\ ref_tick' = ref_tick + 1
    /\ UNCHANGED <<rst_n, draining>>

StartDrain == rst_n /\ ~draining /\ draining' = TRUE
              /\ UNCHANGED <<vars, ref_tick, queue, ref_accumulator, ref_high_watermark,
                             ref_sequence, sequence_wrap, tallies, dropped_events,
                             telemetry_saturation, history>>

Release == ReleaseReset /\ UNCHANGED <<referenceVars, history>>

tracing == ref_tick <= MAX_TICKS

EndTrace ==
    /\ ref_tick = MAX_TICKS /\ ref_tick' = MAX_TICKS + 1 /\ draining' = FALSE
    /\ queue' = <<>> /\ ref_accumulator' = 0 /\ ref_high_watermark' = 0
    /\ ref_sequence' = 0 /\ sequence_wrap' = FALSE
    /\ ref_generated' = 0 /\ ref_accepted' = 0 /\ ref_dropped' = 0
    /\ dropped_events' = FALSE /\ telemetry_saturation' = FALSE
    /\ UNCHANGED <<vars, history>>

(* An edge of the RTL by itself, in reset or out of it. *)
EdgeAlone ==
    /\ \E sample \in Samples, valid, ready \in BOOLEAN :
          /\ Clock(sample, valid, ready)
          /\ IF rst_n THEN Remember(sample, valid, ready) ELSE Forget
    /\ UNCHANGED rst_n

RtlAlone ==
    /\ ~tracing /\ UNCHANGED referenceVars
    /\ \/ EdgeAlone
       \/ AssertReset /\ Forget
       \/ ReleaseReset /\ UNCHANGED history

CosimNext == (tracing /\ (Cycle \/ StartDrain \/ Release)) \/ EndTrace \/ RtlAlone

CosimSpec == CosimInit /\ [][CosimNext]_cosimVars

-----------------------------------------------------------------------------
(* The report of the reference and the ports of the RTL, entry by entry.   *)
Trace == [i \in DOMAIN queue |->
             [polarity |-> queue[i].polarity, tick |-> queue[i].source_tick % TICK_MODULUS,
              sequence |-> queue[i].sequence]]

Report == [queued_events |-> Trace, final_accumulator_q8_8 |-> ref_accumulator,
           counts |-> tallies, high_watermark |-> ref_high_watermark,
           overflow_sticky |-> dropped_events,
           telemetry_saturation_sticky |-> telemetry_saturation,
           sequence_wrap_sticky |-> sequence_wrap]

RtlReport == [queued_events |-> Pending, final_accumulator_q8_8 |-> accumulator,
              counts |-> <<generated_count, accepted_count, dropped_count>>,
              high_watermark |-> high_watermark, overflow_sticky |-> overflow_sticky,
              telemetry_saturation_sticky |-> telemetry_saturation_sticky,
              sequence_wrap_sticky |-> sequence_wrap_sticky]

(* The refusals before an event that is in the ring, oldest first. *)
PendingRefusals == [i \in 1 .. queued_count |->
                       refused_before[(read_pointer + i - 1) % FIFO_DEPTH]]

LastNumber == IF queued_count = 0 THEN taken_number ELSE Pending[queued_count].sequence

(* A number that is missing is a spike that was refused, there and then:   *)
(* each event's number is its predecessor's plus one for every spike       *)
(* refused between the two, and the next number is so far from the last.   *)
GapIsLoss ==
    /\ \A i \in 1 .. queued_count :
          Pending[i].sequence =
              Advanced(IF i = 1 THEN taken_number ELSE Pending[i - 1].sequence,
                       PendingRefusals[i] + 1)
    /\ next_sequence = Advanced(LastNumber, refused_since + 1)

(* While neither numbers nor counters have run out, the numbers that the   *)
(* reader never gets to see are as many as dropped_count says.             *)
MissingAreDropped ==
    (~sequence_wrap_sticky /\ ~telemetry_saturation_sticky)
        => next_sequence - (accepted_count + queued_count) = dropped_count

(* What a reader of the ring concludes from ticks and numbers is true:     *)
(* order, age, and a loss exactly where and as large as numbers miss.      *)
NumbersTellTheLoss == IdentityIncreases /\ GapIsLoss /\ MissingAreDropped

(* After every edge of every trace the reference's report and the RTL agree: *)
(* payloads and order of the queue, counts, high watermark and the stickies. *)
StreamBitTrue == tracing => Report = RtlReport
=============================================================================
