------------------------------ MODULE EventStream ------------------------------
(***************************************************************************)
(* The ordered event producer of hdl/src/sensors/                          *)
(* mif_adc_to_aer_event_stream.sv: an integrate-and-fire accumulator that  *)
(* turns ADC samples into spikes, numbers every spike it generates, and    *)
(* queues it in a bounded ring behind a ready/valid port.  A spike that    *)
(* finds no room is dropped, and its number is spent.                      *)
(*                                                                         *)
(* Samples are q_sample values (ADC_WIDTH = Q_WIDTH, the default, where    *)
(* the conversion is the wire itself).  The address of an event is a       *)
(* function of its polarity and is left out.                               *)
(***************************************************************************)
EXTENDS Integers, Sequences

CONSTANTS Samples,            \* signed codes the converted ADC sample takes
          MAG_MODULUS,        \* 2^MAG_WIDTH, where the accumulator wraps
          RATE_THRESHOLD,     \* magnitude one spike stands for
          FIFO_DEPTH,
          TICK_MODULUS,       \* 2^TICK_WIDTH
          SEQUENCE_MAX,       \* 2^SEQUENCE_WIDTH - 1
          TELEMETRY_MAX,      \* where the accounting counters saturate
          NoEvent             \* a ring entry never written

Magnitude(sample) == IF sample < 0 THEN -sample ELSE sample

ASSUME StreamAssumption ==
    /\ FIFO_DEPTH \in Nat \ {0} /\ TICK_MODULUS \in Nat \ {0}
    /\ SEQUENCE_MAX \in Nat /\ TELEMETRY_MAX \in Nat
    /\ RATE_THRESHOLD \in Nat \ {0} /\ MAG_MODULUS \in Nat
    /\ Samples \subseteq Int

(* The widths of the default build: one threshold is at least the largest  *)
(* magnitude, and the accumulator has a bit more than the magnitude.       *)
ASSUME WidthAssumption ==
    /\ \A s \in Samples : Magnitude(s) <= RATE_THRESHOLD
    /\ 2 * RATE_THRESHOLD <= MAG_MODULUS

VARIABLES
    rst_n, accumulator,
    event_mem, read_pointer, write_pointer, queued_count, high_watermark,
    source_tick, next_sequence,
    generated_count, accepted_count, dropped_count,
    overflow_sticky, telemetry_saturation_sticky, sequence_wrap_sticky,
    tick_wrapped              \* history: source_tick wrapped in this epoch

ring == <<event_mem, read_pointer, write_pointer, queued_count, high_watermark>>
identity == <<source_tick, next_sequence, sequence_wrap_sticky, tick_wrapped>>
telemetry == <<generated_count, accepted_count, dropped_count,
               overflow_sticky, telemetry_saturation_sticky>>
regs == <<accumulator, ring, identity, telemetry>>
vars == <<rst_n, regs>>

StreamEvents == [polarity : {-1, 1}, tick : 0 .. TICK_MODULUS - 1,
                 sequence : 0 .. SEQUENCE_MAX]
Positions == 0 .. FIFO_DEPTH - 1

ASSUME EntryAssumption == NoEvent \notin StreamEvents

TypeOK ==
    /\ rst_n \in BOOLEAN
    /\ accumulator \in 0 .. MAG_MODULUS - 1
    /\ event_mem \in [Positions -> StreamEvents \cup {NoEvent}]
    /\ read_pointer \in Positions /\ write_pointer \in Positions
    /\ queued_count \in 0 .. FIFO_DEPTH /\ high_watermark \in 0 .. FIFO_DEPTH
    /\ source_tick \in 0 .. TICK_MODULUS - 1
    /\ next_sequence \in 0 .. SEQUENCE_MAX
    /\ generated_count \in 0 .. TELEMETRY_MAX
    /\ accepted_count \in 0 .. TELEMETRY_MAX
    /\ dropped_count \in 0 .. TELEMETRY_MAX
    /\ overflow_sticky \in BOOLEAN /\ telemetry_saturation_sticky \in BOOLEAN
    /\ sequence_wrap_sticky \in BOOLEAN /\ tick_wrapped \in BOOLEAN

-----------------------------------------------------------------------------
(* The combinational wires. *)

accumulator_with_sample(sample) == (accumulator + Magnitude(sample)) % MAG_MODULUS

SpikeGenerated(sample, valid) ==
    /\ valid
    /\ Magnitude(sample) # 0
    /\ accumulator_with_sample(sample) >= RATE_THRESHOLD

aer_valid == queued_count # 0
aer_event == event_mem[read_pointer]

PopEvent(ready) == aer_valid /\ ready

(* Mutants: one entry short, and one entry too many. *)
SpaceOneShort(ready) == queued_count < FIFO_DEPTH - 1 \/ PopEvent(ready)
SpaceOneOver(ready) == queued_count <= FIFO_DEPTH \/ PopEvent(ready)

QueueHasSpace(ready) == queued_count < FIFO_DEPTH \/ PopEvent(ready)
EnqueueEvent(spike, ready) == spike /\ QueueHasSpace(ready)

(* Mutant: a pop on the same edge is overlooked. *)
DropDespitePop(spike, ready) == spike /\ queued_count = FIFO_DEPTH

DropEvent(spike, ready) == spike /\ ~QueueHasSpace(ready)

(* Mutant: a dropped spike does not spend its number. *)
NumberIfAdmitted(spike, ready) == EnqueueEvent(spike, ready)

(* Every generated spike takes a number, a dropped one too. *)
TakesNumber(spike, ready) == spike

increment_pointer(p) == IF p = FIFO_DEPTH - 1 THEN 0 ELSE p + 1

Counted(n, event) == IF event /\ n # TELEMETRY_MAX THEN n + 1 ELSE n

-----------------------------------------------------------------------------
(* The parts of one clock edge out of reset. *)

Integrate(sample, valid, spike) ==
    accumulator' = IF ~valid THEN accumulator
                   ELSE IF spike
                   THEN accumulator_with_sample(sample) - RATE_THRESHOLD
                   ELSE accumulator_with_sample(sample)

MoveQueue(sample, spike, ready) ==
    LET push == EnqueueEvent(spike, ready)
        pop == PopEvent(ready)
        event == [polarity |-> IF sample < 0 THEN -1 ELSE 1,
                  tick |-> source_tick, sequence |-> next_sequence]
    IN  /\ queued_count' = queued_count + (IF push THEN 1 ELSE 0)
                                        - (IF pop THEN 1 ELSE 0)
        /\ high_watermark' = IF queued_count' > high_watermark
                             THEN queued_count' ELSE high_watermark
        /\ read_pointer' = IF pop THEN increment_pointer(read_pointer)
                                  ELSE read_pointer
        /\ write_pointer' = IF push THEN increment_pointer(write_pointer)
                                    ELSE write_pointer
        /\ event_mem' = IF push THEN [event_mem EXCEPT ![write_pointer] = event]
                                ELSE event_mem

AdvanceIdentity(spike, ready) ==
    /\ source_tick' = (source_tick + 1) % TICK_MODULUS
    /\ tick_wrapped' = (tick_wrapped \/ source_tick + 1 = TICK_MODULUS)
    /\ next_sequence' = IF ~TakesNumber(spike, ready) THEN next_sequence
                        ELSE IF next_sequence = SEQUENCE_MAX THEN 0
                        ELSE next_sequence + 1
    /\ sequence_wrap_sticky' =
          (sequence_wrap_sticky
              \/ (TakesNumber(spike, ready) /\ next_sequence = SEQUENCE_MAX))

Account(spike, ready) ==
    LET dropped == DropEvent(spike, ready)
    IN  /\ generated_count' = Counted(generated_count, spike)
        /\ accepted_count' = Counted(accepted_count, PopEvent(ready))
        /\ dropped_count' = Counted(dropped_count, dropped)
        /\ overflow_sticky' = (overflow_sticky \/ dropped)
        /\ telemetry_saturation_sticky' =
              \/ telemetry_saturation_sticky
              \/ spike /\ generated_count = TELEMETRY_MAX
              \/ PopEvent(ready) /\ accepted_count = TELEMETRY_MAX
              \/ dropped /\ dropped_count = TELEMETRY_MAX

Cleared ==
    /\ accumulator' = 0
    /\ read_pointer' = 0 /\ write_pointer' = 0
    /\ queued_count' = 0 /\ high_watermark' = 0
    /\ source_tick' = 0 /\ tick_wrapped' = FALSE /\ next_sequence' = 0
    /\ generated_count' = 0 /\ accepted_count' = 0 /\ dropped_count' = 0
    /\ overflow_sticky' = FALSE /\ telemetry_saturation_sticky' = FALSE
    /\ sequence_wrap_sticky' = FALSE
    /\ UNCHANGED event_mem

-----------------------------------------------------------------------------

Init ==
    /\ rst_n = FALSE
    /\ accumulator = 0
    /\ event_mem = [i \in Positions |-> NoEvent]
    /\ read_pointer = 0 /\ write_pointer = 0
    /\ queued_count = 0 /\ high_watermark = 0
    /\ source_tick = 0 /\ tick_wrapped = FALSE /\ next_sequence = 0
    /\ generated_count = 0 /\ accepted_count = 0 /\ dropped_count = 0
    /\ overflow_sticky = FALSE /\ telemetry_saturation_sticky = FALSE
    /\ sequence_wrap_sticky = FALSE

(* One positive edge of clk with the wires adc_sample, adc_valid, ready. *)
Clock(sample, valid, ready) ==
    IF rst_n
    THEN LET spike == SpikeGenerated(sample, valid)
         IN  /\ Integrate(sample, valid, spike)
             /\ MoveQueue(sample, spike, ready)
             /\ AdvanceIdentity(spike, ready)
             /\ Account(spike, ready)
    ELSE Cleared

ClockEdge ==
    /\ \E sample \in Samples, valid, ready \in BOOLEAN :
          Clock(sample, valid, ready)
    /\ UNCHANGED rst_n

AssertReset == rst_n /\ rst_n' = FALSE /\ Cleared

ReleaseReset == ~rst_n /\ rst_n' = TRUE /\ UNCHANGED regs

Next == ClockEdge \/ AssertReset \/ ReleaseReset

Spec == Init /\ [][Next]_vars

-----------------------------------------------------------------------------
(* The events in the ring, oldest first. *)
Pending == [i \in 1 .. queued_count |->
               event_mem[(read_pointer + i - 1) % FIFO_DEPTH]]

(* Every generated spike is delivered, dropped and counted, or still in    *)
(* the ring, in every epoch whose counters have not saturated.             *)
SpikesConserved ==
    ~telemetry_saturation_sticky
        => generated_count = accepted_count + dropped_count + queued_count

(* No spike is owed: the charge left after an edge is below one threshold, *)
(* so subtracting a single threshold per sample loses nothing.             *)
ResidueBelowThreshold == accumulator < RATE_THRESHOLD

(* Until a counter wraps, the events in the ring carry strictly increasing *)
(* ticks and numbers, all older than the next ones.                        *)
IdentityIncreases ==
    /\ ~tick_wrapped =>
          /\ \A i, j \in 1 .. queued_count : i < j => Pending[i].tick < Pending[j].tick
          /\ \A i \in 1 .. queued_count : Pending[i].tick < source_tick
    /\ ~sequence_wrap_sticky =>
          /\ \A i, j \in 1 .. queued_count :
                i < j => Pending[i].sequence < Pending[j].sequence
          /\ \A i \in 1 .. queued_count : Pending[i].sequence < next_sequence

(* An overflow is reported only after the ring was seen full.              *)
OverflowOnlyWhenFull == overflow_sticky => high_watermark = FIFO_DEPTH

(* The producer is a bounded queue: what it admits leaves in order.        *)
Queue == INSTANCE EventQueue
    WITH queue <- Pending, Capacity <- FIFO_DEPTH, Events <- StreamEvents,
         offered <- IF aer_valid THEN aer_event ELSE NoEvent
ImplementsQueue == Queue!Spec
=============================================================================
