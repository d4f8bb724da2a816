--------------------------- MODULE EventStreamProof ---------------------------
(***************************************************************************)
(* Proofs about EventStream for every depth, width and threshold that      *)
(* WidthAssumption allows.                                                 *)
(*                                                                         *)
(* Conservation needs the watermark and the residue at its side: the ring  *)
(* never holds more than FIFO_DEPTH events, a drop means it is full, and   *)
(* the accumulator never reaches its width.  What the numbers tell, and    *)
(* that the ring is a queue, follow from how its entries shift at an edge  *)
(* (Shifted), although the ring is written at one pointer and read at      *)
(* another.  Beside its golden reference the two shift alike (Lockstep).   *)
(***************************************************************************)
EXTENDS MCStreamCosim, SequenceTheorems, TLAPS

Inv ==
    /\ TypeOK
    /\ queued_count <= high_watermark
    /\ SpikesConserved /\ ResidueBelowThreshold /\ OverflowOnlyWhenFull

LEMMA Positive ==
    /\ FIFO_DEPTH \in Nat /\ FIFO_DEPTH >= 1 /\ 0 \in Positions
    /\ TICK_MODULUS \in Nat /\ TICK_MODULUS >= 1 /\ 0 \in 0 .. TICK_MODULUS - 1
    /\ SEQUENCE_MAX \in Nat /\ 0 \in 0 .. SEQUENCE_MAX
    /\ TELEMETRY_MAX \in Nat /\ 0 \in 0 .. TELEMETRY_MAX
    /\ RATE_THRESHOLD \in Nat /\ RATE_THRESHOLD >= 1
    /\ MAG_MODULUS \in Nat /\ MAG_MODULUS >= 2 * RATE_THRESHOLD
    BY StreamAssumption, WidthAssumption DEF Positions

(* A magnitude is at most one threshold. *)
LEMMA MagnitudeBound ==
    ASSUME NEW s \in Samples
    PROVE  Magnitude(s) \in Nat /\ Magnitude(s) <= RATE_THRESHOLD
<1>1. s \in Int
    BY StreamAssumption
<1> QED
    BY <1>1, WidthAssumption DEF Magnitude

(* A residue below one threshold plus a magnitude does not wrap. *)
LEMMA AccumulatorDoesNotWrap ==
    ASSUME Inv, NEW s \in Samples
    PROVE  /\ accumulator_with_sample(s) = accumulator + Magnitude(s)
           /\ accumulator_with_sample(s) \in Nat
           /\ accumulator_with_sample(s) < 2 * RATE_THRESHOLD
           /\ accumulator \in Nat /\ accumulator < RATE_THRESHOLD
<1> DEFINE m == Magnitude(s)
           sum == accumulator + m
<1>1. m \in Nat /\ m <= RATE_THRESHOLD
    BY MagnitudeBound
<1>2. accumulator \in Nat /\ accumulator < RATE_THRESHOLD
    BY Positive DEF Inv, TypeOK, ResidueBelowThreshold
<1> HIDE DEF m
<1>3. sum \in Nat /\ sum < 2 * RATE_THRESHOLD /\ sum < MAG_MODULUS
    BY <1>1, <1>2, Positive
<1> HIDE DEF sum
<1>4. sum % MAG_MODULUS = sum
    BY <1>3, Positive
<1> QED
    BY <1>2, <1>3, <1>4 DEF accumulator_with_sample, sum, m

LEMMA IncrementStays ==
    ASSUME NEW p \in Positions
    PROVE  increment_pointer(p) \in Positions
    BY Positive DEF Positions, increment_pointer

LEMMA CountedCases ==
    ASSUME NEW n \in 0 .. TELEMETRY_MAX, NEW event \in BOOLEAN
    PROVE  /\ Counted(n, event) \in 0 .. TELEMETRY_MAX
           /\ ~event => Counted(n, event) = n
           /\ event /\ n # TELEMETRY_MAX => Counted(n, event) = n + 1
    BY Positive DEF Counted

LEMMA InitInv == Init => Inv
<1> SUFFICES ASSUME Init PROVE Inv
    OBVIOUS
<1>1. TypeOK
    <2>1. 0 \in 0 .. MAG_MODULUS - 1 /\ 0 \in 0 .. FIFO_DEPTH
        BY Positive
    <2> QED
        BY <2>1, Positive DEF Init, TypeOK
<1> QED
    BY <1>1, Positive
    DEF Init, Inv, SpikesConserved, ResidueBelowThreshold, OverflowOnlyWhenFull

LEMMA ClearedInv == Inv /\ Cleared /\ rst_n' \in BOOLEAN => Inv'
<1> SUFFICES ASSUME Inv, Cleared, rst_n' \in BOOLEAN PROVE Inv'
    OBVIOUS
<1>1. TypeOK'
    <2>1. 0 \in 0 .. MAG_MODULUS - 1 /\ 0 \in 0 .. FIFO_DEPTH
        BY Positive
    <2> QED
        BY <2>1, Positive DEF Cleared, Inv, TypeOK
<1> QED
    BY <1>1, Positive
    DEF Cleared, Inv, SpikesConserved, ResidueBelowThreshold, OverflowOnlyWhenFull

-----------------------------------------------------------------------------
(* One clock edge out of reset, part by part. *)

(* One threshold per spike is enough: what is left is below it. *)
LEMMA IntegrateResidue ==
    ASSUME Inv, NEW sample \in Samples, NEW valid \in BOOLEAN,
           Integrate(sample, valid, SpikeGenerated(sample, valid))
    PROVE  accumulator' \in 0 .. MAG_MODULUS - 1 /\ accumulator' < RATE_THRESHOLD
<1> DEFINE sum == accumulator_with_sample(sample)
<1>1. /\ sum \in Nat /\ sum < 2 * RATE_THRESHOLD
      /\ accumulator \in Nat /\ accumulator < RATE_THRESHOLD
      /\ sum = accumulator + Magnitude(sample)
    BY AccumulatorDoesNotWrap
<1>2. CASE ~valid
    BY <1>1, <1>2, Positive DEF Integrate
<1>3. CASE valid /\ SpikeGenerated(sample, valid)
    <2>1. sum >= RATE_THRESHOLD /\ accumulator' = sum - RATE_THRESHOLD
        BY <1>3 DEF Integrate, SpikeGenerated
    <2> QED
        BY <1>1, <2>1, Positive
<1>4. CASE valid /\ ~SpikeGenerated(sample, valid)
    <2>1. accumulator' = sum
        BY <1>4 DEF Integrate
    <2>2. Magnitude(sample) = 0 \/ ~(sum >= RATE_THRESHOLD)
        BY <1>4 DEF SpikeGenerated
    <2>3. sum < RATE_THRESHOLD
        BY <1>1, <2>2, Positive
    <2> QED
        BY <1>1, <2>1, <2>3, Positive
<1> QED
    BY <1>2, <1>3, <1>4

(* The ring's bookkeeping: events enter and leave one at a time, within    *)
(* its depth.                                                              *)
LEMMA QueueBounds ==
    ASSUME Inv, NEW sample \in Samples, NEW spike \in BOOLEAN, NEW ready \in BOOLEAN,
           MoveQueue(sample, spike, ready)
    PROVE  /\ PopEvent(ready) \in BOOLEAN /\ EnqueueEvent(spike, ready) \in BOOLEAN
           /\ queued_count \in 0 .. FIFO_DEPTH /\ queued_count' \in 0 .. FIFO_DEPTH
           /\ queued_count' = queued_count
                 + (IF EnqueueEvent(spike, ready) THEN 1 ELSE 0)
                 - (IF PopEvent(ready) THEN 1 ELSE 0)
           /\ high_watermark' \in 0 .. FIFO_DEPTH
           /\ queued_count' <= high_watermark' /\ high_watermark <= high_watermark'
<1>1. /\ queued_count \in 0 .. FIFO_DEPTH /\ high_watermark \in 0 .. FIFO_DEPTH
      /\ queued_count <= high_watermark
    BY DEF Inv, TypeOK
<1>2. /\ PopEvent(ready) \in BOOLEAN /\ EnqueueEvent(spike, ready) \in BOOLEAN
      /\ PopEvent(ready) => queued_count # 0
      /\ EnqueueEvent(spike, ready) => queued_count < FIFO_DEPTH \/ PopEvent(ready)
    BY DEF PopEvent, aer_valid, EnqueueEvent, QueueHasSpace
<1>3. /\ queued_count' = queued_count
            + (IF EnqueueEvent(spike, ready) THEN 1 ELSE 0)
            - (IF PopEvent(ready) THEN 1 ELSE 0)
      /\ high_watermark' = IF queued_count' > high_watermark
                           THEN queued_count' ELSE high_watermark
    BY DEF MoveQueue
<1>4. queued_count' \in 0 .. FIFO_DEPTH
    BY <1>1, <1>2, <1>3, Positive
<1> QED
    BY <1>1, <1>2, <1>3, <1>4, Positive

LEMMA RingTypes ==
    ASSUME Inv, NEW sample \in Samples, NEW spike \in BOOLEAN, NEW ready \in BOOLEAN,
           MoveQueue(sample, spike, ready)
    PROVE  /\ read_pointer' \in Positions /\ write_pointer' \in Positions
           /\ event_mem' \in [Positions -> StreamEvents \cup {NoEvent}]
<1> DEFINE event == [polarity |-> IF sample < 0 THEN -1 ELSE 1,
                     tick |-> source_tick, sequence |-> next_sequence]
<1>1. /\ read_pointer \in Positions /\ write_pointer \in Positions
      /\ event_mem \in [Positions -> StreamEvents \cup {NoEvent}]
      /\ source_tick \in 0 .. TICK_MODULUS - 1 /\ next_sequence \in 0 .. SEQUENCE_MAX
    BY DEF Inv, TypeOK
<1>2. event \in StreamEvents
    <2>1. (IF sample < 0 THEN -1 ELSE 1) \in {-1, 1}
        OBVIOUS
    <2> QED
        BY <1>1, <2>1 DEF StreamEvents
<1>3. /\ read_pointer' \in {read_pointer, increment_pointer(read_pointer)}
      /\ write_pointer' \in {write_pointer, increment_pointer(write_pointer)}
      /\ event_mem' \in {event_mem, [event_mem EXCEPT ![write_pointer] = event]}
    BY DEF MoveQueue
<1> HIDE DEF event
<1>4. [event_mem EXCEPT ![write_pointer] = event]
          \in [Positions -> StreamEvents \cup {NoEvent}]
    BY <1>1, <1>2
<1> QED
    BY <1>1, <1>3, <1>4, IncrementStays

LEMMA IdentityTypes ==
    ASSUME Inv, NEW spike \in BOOLEAN, NEW ready \in BOOLEAN,
           AdvanceIdentity(spike, ready)
    PROVE  /\ source_tick' \in 0 .. TICK_MODULUS - 1
           /\ next_sequence' \in 0 .. SEQUENCE_MAX
           /\ tick_wrapped' \in BOOLEAN /\ sequence_wrap_sticky' \in BOOLEAN
<1>1. /\ source_tick \in Nat /\ next_sequence \in 0 .. SEQUENCE_MAX
    BY Positive DEF Inv, TypeOK
<1>2. source_tick' \in 0 .. TICK_MODULUS - 1
    <2> DEFINE n == source_tick + 1
    <2>1. n \in Nat /\ TICK_MODULUS \in Nat /\ TICK_MODULUS >= 1
        BY <1>1, Positive
    <2>2. source_tick' = n % TICK_MODULUS
        BY DEF AdvanceIdentity
    <2> HIDE DEF n
    <2>3. n % TICK_MODULUS \in 0 .. TICK_MODULUS - 1
        BY <2>1
    <2> QED
        BY <2>2, <2>3
<1>3. next_sequence' \in 0 .. SEQUENCE_MAX
    BY <1>1, Positive DEF AdvanceIdentity, TakesNumber
<1> QED
    BY <1>2, <1>3 DEF AdvanceIdentity, TakesNumber, Inv, TypeOK

(* Each counter that is not saturated moves with its event. *)
LEMMA AccountCases ==
    ASSUME Inv, NEW spike \in BOOLEAN, NEW ready \in BOOLEAN, Account(spike, ready)
    PROVE  /\ generated_count' \in 0 .. TELEMETRY_MAX
           /\ accepted_count' \in 0 .. TELEMETRY_MAX
           /\ dropped_count' \in 0 .. TELEMETRY_MAX
           /\ overflow_sticky' \in BOOLEAN /\ telemetry_saturation_sticky' \in BOOLEAN
           /\ overflow_sticky' = (overflow_sticky \/ DropEvent(spike, ready))
           /\ ~telemetry_saturation_sticky' =>
                 /\ ~telemetry_saturation_sticky
                 /\ generated_count' = generated_count + (IF spike THEN 1 ELSE 0)
                 /\ accepted_count' =
                       accepted_count + (IF PopEvent(ready) THEN 1 ELSE 0)
                 /\ dropped_count' =
                       dropped_count + (IF DropEvent(spike, ready) THEN 1 ELSE 0)
<1>1. /\ generated_count \in 0 .. TELEMETRY_MAX
      /\ accepted_count \in 0 .. TELEMETRY_MAX
      /\ dropped_count \in 0 .. TELEMETRY_MAX
      /\ overflow_sticky \in BOOLEAN /\ telemetry_saturation_sticky \in BOOLEAN
    BY DEF Inv, TypeOK
<1>2. PopEvent(ready) \in BOOLEAN /\ DropEvent(spike, ready) \in BOOLEAN
    BY DEF PopEvent, aer_valid, DropEvent
<1>3. /\ generated_count' = Counted(generated_count, spike)
      /\ accepted_count' = Counted(accepted_count, PopEvent(ready))
      /\ dropped_count' = Counted(dropped_count, DropEvent(spike, ready))
      /\ overflow_sticky' = (overflow_sticky \/ DropEvent(spike, ready))
      /\ telemetry_saturation_sticky' =
            \/ telemetry_saturation_sticky
            \/ spike /\ generated_count = TELEMETRY_MAX
            \/ PopEvent(ready) /\ accepted_count = TELEMETRY_MAX
            \/ DropEvent(spike, ready) /\ dropped_count = TELEMETRY_MAX
    BY DEF Account
<1>4. /\ generated_count' \in 0 .. TELEMETRY_MAX
      /\ accepted_count' \in 0 .. TELEMETRY_MAX
      /\ dropped_count' \in 0 .. TELEMETRY_MAX
    BY <1>1, <1>2, <1>3, CountedCases
<1>5. ~telemetry_saturation_sticky' =>
          generated_count' = generated_count + (IF spike THEN 1 ELSE 0)
    BY <1>1, <1>3, CountedCases
<1>6. ~telemetry_saturation_sticky' =>
          accepted_count' = accepted_count + (IF PopEvent(ready) THEN 1 ELSE 0)
    BY <1>1, <1>2, <1>3, CountedCases
<1>7. ~telemetry_saturation_sticky' =>
          dropped_count' = dropped_count + (IF DropEvent(spike, ready) THEN 1 ELSE 0)
    BY <1>1, <1>2, <1>3, CountedCases
<1> QED
    BY <1>1, <1>2, <1>3, <1>4, <1>5, <1>6, <1>7

-----------------------------------------------------------------------------
(* One edge out of reset keeps the invariant. *)
LEMMA EdgeInv ==
    ASSUME Inv, rst_n, UNCHANGED rst_n,
           NEW sample \in Samples, NEW valid \in BOOLEAN, NEW ready \in BOOLEAN,
           Clock(sample, valid, ready)
    PROVE  Inv'
<1> DEFINE spike == SpikeGenerated(sample, valid)
<1>1. spike \in BOOLEAN
    BY DEF SpikeGenerated
<1>2. /\ Integrate(sample, valid, spike) /\ MoveQueue(sample, spike, ready)
      /\ AdvanceIdentity(spike, ready) /\ Account(spike, ready)
    BY DEF Clock
<1>3. accumulator' \in 0 .. MAG_MODULUS - 1 /\ accumulator' < RATE_THRESHOLD
    BY <1>2, IntegrateResidue
<1> HIDE DEF spike
<1> DEFINE push == EnqueueEvent(spike, ready)
           pop == PopEvent(ready)
           drop == DropEvent(spike, ready)
<1>4. /\ pop \in BOOLEAN /\ push \in BOOLEAN
      /\ queued_count \in 0 .. FIFO_DEPTH /\ queued_count' \in 0 .. FIFO_DEPTH
      /\ queued_count' = queued_count + (IF push THEN 1 ELSE 0)
                                      - (IF pop THEN 1 ELSE 0)
      /\ high_watermark' \in 0 .. FIFO_DEPTH
      /\ queued_count' <= high_watermark' /\ high_watermark <= high_watermark'
    BY <1>1, <1>2, QueueBounds
<1>5. /\ read_pointer' \in Positions /\ write_pointer' \in Positions
      /\ event_mem' \in [Positions -> StreamEvents \cup {NoEvent}]
    BY <1>1, <1>2, RingTypes
<1>6. /\ source_tick' \in 0 .. TICK_MODULUS - 1
      /\ next_sequence' \in 0 .. SEQUENCE_MAX
      /\ tick_wrapped' \in BOOLEAN /\ sequence_wrap_sticky' \in BOOLEAN
    BY <1>1, <1>2, IdentityTypes
<1>7. /\ generated_count' \in 0 .. TELEMETRY_MAX
      /\ accepted_count' \in 0 .. TELEMETRY_MAX
      /\ dropped_count' \in 0 .. TELEMETRY_MAX
      /\ overflow_sticky' \in BOOLEAN /\ telemetry_saturation_sticky' \in BOOLEAN
      /\ overflow_sticky' = (overflow_sticky \/ drop)
      /\ ~telemetry_saturation_sticky' =>
            /\ ~telemetry_saturation_sticky
            /\ generated_count' = generated_count + (IF spike THEN 1 ELSE 0)
            /\ accepted_count' = accepted_count + (IF pop THEN 1 ELSE 0)
            /\ dropped_count' = dropped_count + (IF drop THEN 1 ELSE 0)
    BY <1>1, <1>2, AccountCases
<1>8. /\ drop \in BOOLEAN
      /\ push => spike /\ ~drop
      /\ drop => spike /\ ~push /\ ~pop /\ ~(queued_count < FIFO_DEPTH)
      /\ spike => push \/ drop
    BY <1>1 DEF EnqueueEvent, DropEvent, QueueHasSpace
<1> HIDE DEF push, pop, drop
<1>9. TypeOK'
    BY <1>3, <1>4, <1>5, <1>6, <1>7 DEF Inv, TypeOK
<1>10. SpikesConserved'
    <2> SUFFICES ASSUME ~telemetry_saturation_sticky'
                 PROVE  generated_count' =
                            accepted_count' + dropped_count' + queued_count'
        BY DEF SpikesConserved
    <2>1. generated_count = accepted_count + dropped_count + queued_count
        BY <1>7 DEF Inv, SpikesConserved
    <2>2. /\ accepted_count \in Nat /\ dropped_count \in Nat
          /\ generated_count \in Nat /\ queued_count \in Nat
        BY <1>4, Positive DEF Inv, TypeOK
    <2>3. (IF spike THEN 1 ELSE 0) = (IF push THEN 1 ELSE 0) + (IF drop THEN 1 ELSE 0)
        BY <1>1, <1>4, <1>8
    <2>4. /\ generated_count' = generated_count + (IF spike THEN 1 ELSE 0)
          /\ accepted_count' = accepted_count + (IF pop THEN 1 ELSE 0)
          /\ dropped_count' = dropped_count + (IF drop THEN 1 ELSE 0)
        BY <1>7
    <2> QED
        BY <1>4, <2>1, <2>2, <2>3, <2>4
<1>11. ResidueBelowThreshold'
    BY <1>3 DEF ResidueBelowThreshold
<1>12. OverflowOnlyWhenFull'
    <2> SUFFICES ASSUME overflow_sticky' PROVE high_watermark' = FIFO_DEPTH
        BY DEF OverflowOnlyWhenFull
    <2>1. high_watermark \in 0 .. FIFO_DEPTH /\ queued_count <= high_watermark
        BY DEF Inv, TypeOK
    <2>2. CASE overflow_sticky
        <3>1. high_watermark = FIFO_DEPTH
            BY <2>2 DEF Inv, OverflowOnlyWhenFull
        <3> QED
            BY <1>4, <2>1, <3>1, Positive
    <2>3. CASE drop
        <3>1. queued_count = FIFO_DEPTH
            BY <1>4, <1>8, <2>3, Positive
        <3> QED
            BY <1>4, <2>1, <3>1, Positive
    <2> QED
        BY <1>7, <2>2, <2>3
<1> QED
    BY <1>4, <1>9, <1>10, <1>11, <1>12 DEF Inv

LEMMA InvInductive == Inv /\ [Next]_vars => Inv'
<1> SUFFICES ASSUME Inv, [Next]_vars PROVE Inv'
    OBVIOUS
<1>1. CASE ClockEdge
    <2>1. PICK sample \in Samples, valid \in BOOLEAN, ready \in BOOLEAN :
              Clock(sample, valid, ready)
        BY <1>1 DEF ClockEdge
    <2>2. UNCHANGED rst_n /\ rst_n \in BOOLEAN
        BY <1>1 DEF ClockEdge, Inv, TypeOK
    <2>3. CASE rst_n
        BY <2>1, <2>2, <2>3, EdgeInv
    <2>4. CASE ~rst_n
        <3>1. Cleared
            BY <2>1, <2>4 DEF Clock
        <3> QED
            BY <2>2, <3>1, ClearedInv
    <2> QED
        BY <2>3, <2>4
<1>2. CASE AssertReset
    BY <1>2, ClearedInv DEF AssertReset
<1>3. CASE ReleaseReset \/ UNCHANGED vars
    <2>1. UNCHANGED regs /\ rst_n' \in BOOLEAN
        BY <1>3 DEF ReleaseReset, vars, Inv, TypeOK
    <2> QED
        BY <2>1
        DEF regs, ring, identity, telemetry, Inv, TypeOK, SpikesConserved,
            ResidueBelowThreshold, OverflowOnlyWhenFull
<1> QED
    BY <1>1, <1>2, <1>3 DEF Next

THEOREM StreamInvariant == Spec => []Inv
BY InitInv, InvInductive, PTL DEF Spec

(* Every register keeps its width, the ring pointers stay in the ring.     *)
THEOREM TypeCorrect == Spec => []TypeOK
<1>1. Inv => TypeOK
    BY DEF Inv
<1> QED
    BY <1>1, StreamInvariant, PTL

(* Every generated spike is delivered, counted as dropped, or queued, for  *)
(* every ring depth and in every epoch whose counters have not saturated.  *)
THEOREM SpikesAreConserved == Spec => []SpikesConserved
<1>1. Inv => SpikesConserved
    BY DEF Inv
<1> QED
    BY <1>1, StreamInvariant, PTL

(* The accumulator owes no spike and never wraps.                          *)
THEOREM ResidueIsBounded == Spec => []ResidueBelowThreshold
<1>1. Inv => ResidueBelowThreshold
    BY DEF Inv
<1> QED
    BY <1>1, StreamInvariant, PTL

(* An overflow is reported only in an epoch whose ring was full.           *)
THEOREM OverflowIsHonest == Spec => []OverflowOnlyWhenFull
<1>1. Inv => OverflowOnlyWhenFull
    BY DEF Inv
<1> QED
    BY <1>1, StreamInvariant, PTL

-----------------------------------------------------------------------------
(* The ring between its two pointers, read as a sequence.                  *)

Around(p, n) == (p + n) % FIFO_DEPTH
At(n) == Around(read_pointer, n)

(* Walking n entries round the ring. *)
LEMMA RingCases ==
    ASSUME NEW p \in Positions, NEW n \in 0 .. FIFO_DEPTH
    PROVE  /\ p \in Nat /\ n \in Nat /\ p < FIFO_DEPTH /\ n <= FIFO_DEPTH
           /\ FIFO_DEPTH \in Nat /\ FIFO_DEPTH >= 1
           /\ (p + n) % FIFO_DEPTH \in Positions
           /\ p + n < FIFO_DEPTH => (p + n) % FIFO_DEPTH = p + n
           /\ p + n >= FIFO_DEPTH => (p + n) % FIFO_DEPTH = p + n - FIFO_DEPTH
<1>1. /\ p \in Nat /\ n \in Nat /\ p < FIFO_DEPTH /\ n <= FIFO_DEPTH
      /\ FIFO_DEPTH \in Nat /\ FIFO_DEPTH >= 1
    BY Positive DEF Positions
<1>2. p + n < FIFO_DEPTH => (p + n) % FIFO_DEPTH = p + n
    BY <1>1
<1>3. p + n >= FIFO_DEPTH => (p + n) % FIFO_DEPTH = p + n - FIFO_DEPTH
    BY <1>1
<1> QED
    BY <1>1, <1>2, <1>3 DEF Positions

(* The truncated increment is a step round the ring. *)
LEMMA IncrementCases ==
    ASSUME NEW p \in Positions
    PROVE  /\ increment_pointer(p) \in Positions
           /\ p = FIFO_DEPTH - 1 => increment_pointer(p) = 0
           /\ p < FIFO_DEPTH - 1 => increment_pointer(p) = p + 1
    BY IncrementStays, Positive DEF Positions, increment_pointer

(* Where the write pointer stands relative to the read pointer, and that   *)
(* the entry it names is not one of the n waiting, unless the ring is full *)
(* and it is the oldest.                                                   *)
LEMMA RingFacts ==
    ASSUME NEW r \in Positions, NEW n \in 0 .. FIFO_DEPTH,
           NEW w, w = Around(r, n)
    PROVE  /\ w \in Positions /\ Around(r, 0) = r
           /\ \A i \in 1 .. FIFO_DEPTH :
                 /\ Around(r, i - 1) \in Positions
                 /\ Around(increment_pointer(r), i - 1)
                       = Around(r, i)
           /\ n < FIFO_DEPTH => increment_pointer(w) = Around(r, n + 1)
           /\ n > 0 => w = Around(increment_pointer(r), n - 1)
           /\ n > 0 => increment_pointer(w)
                          = Around(increment_pointer(r), n)
           /\ \A i \in 1 .. n :
                 i > 1 \/ n < FIFO_DEPTH => Around(r, i - 1) # w
<1> DEFINE D == FIFO_DEPTH
           s == increment_pointer(r)
<1>1. /\ r \in Nat /\ n \in Nat /\ r < D /\ n <= D /\ D \in Nat /\ D >= 1
      /\ w \in Positions
      /\ r + n < D => w = r + n
      /\ r + n >= D => w = r + n - D
    BY RingCases DEF Around
<1>2. /\ s \in Positions
      /\ r = D - 1 => s = 0
      /\ r < D - 1 => s = r + 1
      /\ increment_pointer(w) \in Positions
      /\ w = D - 1 => increment_pointer(w) = 0
      /\ w < D - 1 => increment_pointer(w) = w + 1
      /\ w \in Nat /\ w < D
    BY <1>1, IncrementCases, RingCases
<1>3. (r + 0) % D = r
    BY <1>1, RingCases
<1> HIDE DEF s
<1>4. ASSUME NEW i \in 1 .. D
      PROVE  (r + (i - 1)) % D \in Positions /\ (s + (i - 1)) % D = (r + i) % D
    <2>1. i - 1 \in 0 .. D /\ i \in 0 .. D
        BY <1>1
    <2>2. /\ r + i < D => (r + i) % D = r + i
          /\ r + i >= D => (r + i) % D = r + i - D
          /\ (r + (i - 1)) % D \in Positions
        BY <2>1, RingCases
    <2>3. /\ s + (i - 1) < D => (s + (i - 1)) % D = s + (i - 1)
          /\ s + (i - 1) >= D => (s + (i - 1)) % D = s + (i - 1) - D
        BY <1>2, <2>1, RingCases
    <2> QED
        BY <1>1, <1>2, <2>1, <2>2, <2>3
<1>5. n < D => increment_pointer(w) = (r + (n + 1)) % D
    <2> SUFFICES ASSUME n < D PROVE increment_pointer(w) = (r + (n + 1)) % D
        OBVIOUS
    <2>1. n + 1 \in 0 .. D
        BY <1>1
    <2>2. /\ r + (n + 1) < D => (r + (n + 1)) % D = r + (n + 1)
          /\ r + (n + 1) >= D => (r + (n + 1)) % D = r + (n + 1) - D
        BY <2>1, RingCases
    <2> QED
        BY <1>1, <1>2, <2>2
<1>6. n > 0 => /\ w = (s + (n - 1)) % D
               /\ increment_pointer(w) = (s + n) % D
    <2> SUFFICES ASSUME n > 0
                 PROVE  w = (s + (n - 1)) % D /\ increment_pointer(w) = (s + n) % D
        OBVIOUS
    <2>1. n - 1 \in 0 .. D
        BY <1>1
    <2>2. /\ s + (n - 1) < D => (s + (n - 1)) % D = s + (n - 1)
          /\ s + (n - 1) >= D => (s + (n - 1)) % D = s + (n - 1) - D
        BY <1>2, <2>1, RingCases
    <2>3. /\ s + n < D => (s + n) % D = s + n
          /\ s + n >= D => (s + n) % D = s + n - D
        BY <1>2, RingCases
    <2> QED
        BY <1>1, <1>2, <2>2, <2>3
<1>7. ASSUME NEW i \in 1 .. n, i > 1 \/ n < D
      PROVE  (r + (i - 1)) % D # w
    <2>1. i - 1 \in 0 .. D /\ i - 1 < n /\ (i - 1 > 0 \/ n < D)
        BY <1>1, <1>7
    <2>2. /\ r + (i - 1) < D => (r + (i - 1)) % D = r + (i - 1)
          /\ r + (i - 1) >= D => (r + (i - 1)) % D = r + (i - 1) - D
        BY <2>1, RingCases
    <2> QED
        BY <1>1, <2>1, <2>2
<1> QED
    BY <1>1, <1>3, <1>4, <1>5, <1>6, <1>7 DEF s, Around

-----------------------------------------------------------------------------
(* One edge of the ring. *)

Entry(i) == event_mem[At(i - 1)]
NewEvent(sample) == [polarity |-> IF sample < 0 THEN -1 ELSE 1,
                     tick |-> source_tick, sequence |-> next_sequence]

(* The write pointer is queued_count past the read pointer, and every      *)
(* entry between the two was written.                                      *)
RingInv ==
    /\ write_pointer = At(queued_count)
    /\ \A i \in 1 .. queued_count : Entry(i) \in StreamEvents

(* The entries after an edge: those of before, less the first if it was    *)
(* popped, and the new event behind them if there is one.                  *)
Shifted(push, pop, event) ==
    /\ queued_count' = queued_count + (IF push THEN 1 ELSE 0)
                                    - (IF pop THEN 1 ELSE 0)
    /\ pop => queued_count > 0
    /\ push => queued_count < FIFO_DEPTH \/ pop
    /\ \A i \in 1 .. queued_count' :
          Entry(i)' = LET k == IF pop THEN i + 1 ELSE i
                      IN  IF k <= queued_count THEN Entry(k) ELSE event

(* A clock edge shifts the entries, whatever the wires say. *)
LEMMA RingStep ==
    ASSUME Inv, RingInv, NEW sample \in Samples, NEW spike \in BOOLEAN,
           NEW ready \in BOOLEAN, MoveQueue(sample, spike, ready)
    PROVE  /\ Shifted(EnqueueEvent(spike, ready), PopEvent(ready),
                      NewEvent(sample))
           /\ RingInv'
<1> DEFINE push == EnqueueEvent(spike, ready)
           pop == PopEvent(ready)
           event == NewEvent(sample)
           D == FIFO_DEPTH
           r == read_pointer  r2 == read_pointer'
           w == write_pointer  w2 == write_pointer'
           n == queued_count  n2 == queued_count'
<1>1. /\ pop \in BOOLEAN /\ push \in BOOLEAN
      /\ n \in 0 .. D /\ n2 \in 0 .. D
      /\ n2 = n + (IF push THEN 1 ELSE 0) - (IF pop THEN 1 ELSE 0)
    BY QueueBounds
<1>2. /\ pop => n > 0
      /\ push => n < D \/ pop
    BY <1>1 DEF EnqueueEvent, QueueHasSpace, PopEvent, aer_valid
<1>3. /\ r \in Positions /\ w \in Positions /\ D \in Nat /\ D >= 1
      /\ w = Around(r, n)
      /\ event_mem \in [Positions -> StreamEvents \cup {NoEvent}]
      /\ \A i \in 1 .. n : Entry(i) \in StreamEvents
      /\ r2 \in Positions
    BY Positive, RingTypes DEF Inv, TypeOK, RingInv, At
<1>4. /\ r2 = IF pop THEN increment_pointer(r) ELSE r
      /\ w2 = IF push THEN increment_pointer(w) ELSE w
      /\ event_mem' = IF push THEN [event_mem EXCEPT ![w] = event] ELSE event_mem
    BY DEF MoveQueue, NewEvent
<1>5. event \in StreamEvents
    <2>1. source_tick \in 0 .. TICK_MODULUS - 1 /\ next_sequence \in 0 .. SEQUENCE_MAX
        BY DEF Inv, TypeOK
    <2>2. (IF sample < 0 THEN -1 ELSE 1) \in {-1, 1}
        OBVIOUS
    <2> QED
        BY <2>1, <2>2 DEF StreamEvents, NewEvent
<1> HIDE DEF push, pop, event
<1>6. /\ r = Around(r, 0)
      /\ \A i \in 1 .. D :
            /\ Around(r, i - 1) \in Positions
            /\ Around(increment_pointer(r), i - 1) = Around(r, i)
      /\ n < D => increment_pointer(w) = Around(r, n + 1)
      /\ n > 0 => w = Around(increment_pointer(r), n - 1)
      /\ n > 0 => increment_pointer(w) = Around(increment_pointer(r), n)
      /\ \A i \in 1 .. n : i > 1 \/ n < D => Around(r, i - 1) # w
    BY <1>1, <1>3, RingFacts
<1>7. w2 = Around(r2, n2)
    <2>1. CASE pop /\ push
        <3>1. n2 = n /\ n > 0
            BY <1>1, <1>2, <2>1
        <3> QED
            BY <1>1, <1>3, <1>4, <1>6, <2>1, <3>1
    <2>2. CASE pop /\ ~push
        <3>1. n2 = n - 1 /\ n > 0
            BY <1>1, <1>2, <2>2
        <3> QED
            BY <1>1, <1>3, <1>4, <1>6, <2>2, <3>1
    <2>3. CASE ~pop /\ push
        <3>1. n2 = n + 1 /\ n < D
            BY <1>1, <1>2, <2>3
        <3> QED
            BY <1>1, <1>3, <1>4, <1>6, <2>3, <3>1
    <2>4. CASE ~pop /\ ~push
        <3>1. n2 = n
            BY <1>1, <2>4
        <3> QED
            BY <1>3, <1>4, <2>4, <3>1
    <2> QED
        BY <1>1, <2>1, <2>2, <2>3, <2>4
<1>8. ASSUME NEW i \in 1 .. n2
      PROVE  /\ Entry(i)' = LET k == IF pop THEN i + 1 ELSE i
                            IN  IF k <= n THEN Entry(k) ELSE event
             /\ Entry(i)' \in StreamEvents
    <2> DEFINE k == IF pop THEN i + 1 ELSE i
    <2>1. /\ k \in 1 .. n + 1 /\ i \in 1 .. D /\ (k > n => k = n + 1 /\ push)
          /\ (pop => k > 1) /\ k - 1 \in 0 .. D
        BY <1>1, <1>2, <1>3
    <2>2. Around(r2, i - 1) = Around(r, k - 1)
        <3>1. pop => k - 1 = i
            BY <1>3
        <3> QED
            BY <1>1, <1>3, <1>4, <1>6, <2>1, <3>1
    <2>3. k = n + 1 => Around(r, k - 1) = w
        <3>1. k = n + 1 => k - 1 = n
            BY <1>1
        <3> QED
            BY <1>3, <3>1
    <2>4. k <= n /\ push => Around(r, k - 1) # w
        <3>1. k <= n /\ push => k \in 1 .. n /\ (k > 1 \/ n < D)
            BY <1>1, <1>2, <2>1
        <3> QED
            BY <1>1, <1>3, <1>6, <2>1, <3>1
    <2>5. Around(r, k - 1) \in Positions
        BY <1>3, <2>1, RingCases DEF Around
    <2>6. Entry(i)' = event_mem'[Around(r, k - 1)]
        BY <2>2 DEF Entry, At
    <2>7. CASE k <= n
        <3>1. event_mem'[Around(r, k - 1)] = event_mem[Around(r, k - 1)]
            BY <1>3, <1>4, <2>4, <2>5, <2>7
        <3>2. Entry(k) \in StreamEvents
            BY <1>3, <2>1, <2>7
        <3> QED
            BY <2>6, <2>7, <3>1, <3>2 DEF Entry, At
    <2>8. CASE ~(k <= n)
        <3>1. k = n + 1 /\ push
            BY <1>1, <2>1, <2>8
        <3>2. event_mem'[w] = event
            BY <1>3, <1>4, <3>1
        <3> QED
            BY <1>5, <2>3, <2>6, <2>8, <3>1, <3>2
    <2> QED
        BY <2>7, <2>8
<1>9. RingInv'
    BY <1>7, <1>8 DEF RingInv, At
<1>10. Shifted(push, pop, event)
    BY <1>1, <1>2, <1>8 DEF Shifted
<1> QED
    BY <1>9, <1>10 DEF push, pop, event

-----------------------------------------------------------------------------
(* What the numbers in the ring say. *)

TickOrder ==
    ~tick_wrapped =>
        /\ \A i, j \in 1 .. queued_count : i < j => Entry(i).tick < Entry(j).tick
        /\ \A i \in 1 .. queued_count : Entry(i).tick < source_tick

SequenceOrder ==
    ~sequence_wrap_sticky =>
        /\ \A i, j \in 1 .. queued_count :
              i < j => Entry(i).sequence < Entry(j).sequence
        /\ \A i \in 1 .. queued_count : Entry(i).sequence < next_sequence

NumberInv == RingInv /\ TickOrder /\ SequenceOrder

(* Where entry i of after came from: entry k of before, or the new event.  *)
LEMMA Origin ==
    ASSUME queued_count \in Nat, NEW push \in BOOLEAN, NEW pop \in BOOLEAN,
           NEW event, Shifted(push, pop, event), NEW i \in 1 .. queued_count',
           NEW k, k = IF pop THEN i + 1 ELSE i
    PROVE  /\ i \in Nat /\ k \in Nat /\ queued_count' \in Nat
           /\ k <= queued_count
                => k \in 1 .. queued_count /\ Entry(i)' = Entry(k)
           /\ k > queued_count
                => push /\ k = queued_count + 1 /\ Entry(i)' = event
           /\ push => queued_count' - i = (queued_count - k) + 1
           /\ ~push => queued_count' - i = queued_count - k
<1>1. /\ queued_count' = queued_count + (IF push THEN 1 ELSE 0)
                                      - (IF pop THEN 1 ELSE 0)
      /\ pop => queued_count > 0
      /\ Entry(i)' = IF k <= queued_count THEN Entry(k) ELSE event
    BY DEF Shifted
<1> QED
    BY <1>1

(* A new event is stamped with the latest tick, so the order is kept. *)
LEMMA TickStep ==
    ASSUME Inv, RingInv, TickOrder, NEW sample \in Samples,
           NEW spike \in BOOLEAN, NEW ready \in BOOLEAN,
           NEW push \in BOOLEAN, NEW pop \in BOOLEAN,
           Shifted(push, pop, NewEvent(sample)), AdvanceIdentity(spike, ready)
    PROVE  TickOrder'
<1> SUFFICES ASSUME ~tick_wrapped'
             PROVE  /\ \A i, j \in 1 .. queued_count' :
                          i < j => Entry(i).tick' < Entry(j).tick'
                    /\ \A i \in 1 .. queued_count' :
                          Entry(i).tick' < source_tick'
    BY DEF TickOrder
<1>1. /\ queued_count \in Nat /\ source_tick \in Nat
      /\ TICK_MODULUS \in Nat /\ source_tick < TICK_MODULUS
    BY Positive DEF Inv, TypeOK
<1>2. ~tick_wrapped /\ source_tick' = source_tick + 1
    <2>1. /\ ~tick_wrapped /\ source_tick + 1 # TICK_MODULUS
          /\ source_tick' = (source_tick + 1) % TICK_MODULUS
        BY DEF AdvanceIdentity
    <2> QED
        BY <1>1, <2>1
<1>3. /\ \A i \in 1 .. queued_count :
            Entry(i).tick \in Nat /\ Entry(i).tick < source_tick
      /\ \A i, j \in 1 .. queued_count : i < j => Entry(i).tick < Entry(j).tick
    BY <1>1, <1>2 DEF RingInv, StreamEvents, TickOrder
<1>4. NewEvent(sample).tick = source_tick
    BY DEF NewEvent
<1>5. ASSUME NEW i \in 1 .. queued_count'
      PROVE  Entry(i).tick' < source_tick'
    <2> DEFINE k == IF pop THEN i + 1 ELSE i
    <2>1. /\ k \in Nat
          /\ k <= queued_count
                => k \in 1 .. queued_count /\ Entry(i)' = Entry(k)
          /\ k > queued_count => Entry(i)' = NewEvent(sample)
        BY <1>1, Origin
    <2> QED
        BY <1>1, <1>2, <1>3, <1>4, <2>1
<1>6. ASSUME NEW i \in 1 .. queued_count', NEW j \in 1 .. queued_count', i < j
      PROVE  Entry(i).tick' < Entry(j).tick'
    <2> DEFINE k == IF pop THEN i + 1 ELSE i
               m == IF pop THEN j + 1 ELSE j
    <2>1. /\ k \in Nat /\ i \in Nat
          /\ k <= queued_count
                => k \in 1 .. queued_count /\ Entry(i)' = Entry(k)
          /\ k > queued_count => k = queued_count + 1
        BY <1>1, Origin
    <2>2. /\ m \in Nat /\ j \in Nat
          /\ m <= queued_count
                => m \in 1 .. queued_count /\ Entry(j)' = Entry(m)
          /\ m > queued_count
                => m = queued_count + 1 /\ Entry(j)' = NewEvent(sample)
        BY <1>1, Origin
    <2>3. k < m
        BY <1>6, <2>1, <2>2
    <2> HIDE DEF k, m
    <2>4. k <= queued_count
        BY <1>1, <2>1, <2>2, <2>3
    <2> QED
        BY <1>1, <1>3, <1>4, <2>1, <2>2, <2>3, <2>4
<1> QED
    BY <1>5, <1>6

(* The same of the numbers. *)
LEMMA SequenceStep ==
    ASSUME Inv, RingInv, SequenceOrder, NEW sample \in Samples,
           NEW spike \in BOOLEAN, NEW ready \in BOOLEAN,
           NEW push \in BOOLEAN, NEW pop \in BOOLEAN, push => spike,
           Shifted(push, pop, NewEvent(sample)), AdvanceIdentity(spike, ready)
    PROVE  SequenceOrder'
<1> SUFFICES ASSUME ~sequence_wrap_sticky'
             PROVE  /\ \A i, j \in 1 .. queued_count' :
                          i < j => Entry(i).sequence' < Entry(j).sequence'
                    /\ \A i \in 1 .. queued_count' :
                          Entry(i).sequence' < next_sequence'
    BY DEF SequenceOrder
<1>1. queued_count \in Nat /\ next_sequence \in Nat
    BY Positive DEF Inv, TypeOK
<1>2. /\ ~sequence_wrap_sticky
      /\ next_sequence' = next_sequence + (IF spike THEN 1 ELSE 0)
    <2>1. sequence_wrap_sticky' =
              (sequence_wrap_sticky \/ (spike /\ next_sequence = SEQUENCE_MAX))
        BY DEF AdvanceIdentity, TakesNumber
    <2>2. ~sequence_wrap_sticky /\ ~(spike /\ next_sequence = SEQUENCE_MAX)
        BY <2>1
    <2> QED
        BY <1>1, <2>2 DEF AdvanceIdentity, TakesNumber
<1>3. /\ \A i \in 1 .. queued_count :
            Entry(i).sequence \in Nat /\ Entry(i).sequence < next_sequence
      /\ \A i, j \in 1 .. queued_count :
            i < j => Entry(i).sequence < Entry(j).sequence
    BY <1>1, <1>2, Positive DEF RingInv, StreamEvents, SequenceOrder
<1>4. NewEvent(sample).sequence = next_sequence
    BY DEF NewEvent
<1>5. ASSUME NEW i \in 1 .. queued_count'
      PROVE  Entry(i).sequence' < next_sequence'
    <2> DEFINE k == IF pop THEN i + 1 ELSE i
    <2>1. /\ k \in Nat
          /\ k <= queued_count
                => k \in 1 .. queued_count /\ Entry(i)' = Entry(k)
          /\ k > queued_count => Entry(i)' = NewEvent(sample) /\ push
        BY <1>1, Origin
    <2> QED
        BY <1>1, <1>2, <1>3, <1>4, <2>1
<1>6. ASSUME NEW i \in 1 .. queued_count', NEW j \in 1 .. queued_count', i < j
      PROVE  Entry(i).sequence' < Entry(j).sequence'
    <2> DEFINE k == IF pop THEN i + 1 ELSE i
               m == IF pop THEN j + 1 ELSE j
    <2>1. /\ k \in Nat /\ i \in Nat
          /\ k <= queued_count
                => k \in 1 .. queued_count /\ Entry(i)' = Entry(k)
          /\ k > queued_count => k = queued_count + 1
        BY <1>1, Origin
    <2>2. /\ m \in Nat /\ j \in Nat
          /\ m <= queued_count
                => m \in 1 .. queued_count /\ Entry(j)' = Entry(m)
          /\ m > queued_count
                => m = queued_count + 1 /\ Entry(j)' = NewEvent(sample)
        BY <1>1, Origin
    <2>3. k < m
        BY <1>6, <2>1, <2>2
    <2> HIDE DEF k, m
    <2>4. k <= queued_count
        BY <1>1, <2>1, <2>2, <2>3
    <2> QED
        BY <1>1, <1>3, <1>4, <2>1, <2>2, <2>3, <2>4
<1> QED
    BY <1>5, <1>6

-----------------------------------------------------------------------------
(* The whole invariant of the numbers. *)

LEMMA NumberInit == Init => NumberInv
<1> SUFFICES ASSUME Init PROVE NumberInv
    OBVIOUS
<1>1. queued_count = 0 /\ read_pointer = 0 /\ write_pointer = 0
    BY DEF Init
<1>2. At(queued_count) = 0
    BY <1>1, Positive, RingCases DEF At, Around
<1> QED
    BY <1>1, <1>2 DEF NumberInv, RingInv, TickOrder, SequenceOrder

LEMMA NumberCleared == Cleared => NumberInv'
<1> SUFFICES ASSUME Cleared PROVE NumberInv'
    OBVIOUS
<1>1. queued_count' = 0 /\ read_pointer' = 0 /\ write_pointer' = 0
    BY DEF Cleared
<1>2. At(queued_count)' = 0
    BY <1>1, Positive, RingCases DEF At, Around
<1> QED
    BY <1>1, <1>2 DEF NumberInv, RingInv, TickOrder, SequenceOrder

LEMMA NumberEdge ==
    ASSUME Inv, NumberInv, rst_n, NEW sample \in Samples,
           NEW valid \in BOOLEAN, NEW ready \in BOOLEAN,
           Clock(sample, valid, ready)
    PROVE  NumberInv'
<1> DEFINE spike == SpikeGenerated(sample, valid)
           push == EnqueueEvent(spike, ready)
           pop == PopEvent(ready)
<1>1. /\ MoveQueue(sample, spike, ready) /\ AdvanceIdentity(spike, ready)
      /\ Account(spike, ready)
    BY DEF Clock
<1>2. spike \in BOOLEAN /\ push \in BOOLEAN /\ pop \in BOOLEAN
    BY DEF SpikeGenerated, EnqueueEvent, PopEvent, aer_valid
<1>3. RingInv /\ TickOrder /\ SequenceOrder
    BY DEF NumberInv
<1>4. push => spike
    BY DEF EnqueueEvent
<1> HIDE DEF spike
<1>6. Shifted(push, pop, NewEvent(sample)) /\ RingInv'
    BY <1>1, <1>2, <1>3, RingStep
<1> HIDE DEF push, pop
<1>7. TickOrder'
    BY <1>1, <1>2, <1>3, <1>6, TickStep
<1>8. SequenceOrder'
    BY <1>1, <1>2, <1>3, <1>4, <1>6, SequenceStep
<1> QED
    BY <1>6, <1>7, <1>8 DEF NumberInv

LEMMA NumberStep == Inv /\ NumberInv /\ [Next]_vars => NumberInv'
<1> SUFFICES ASSUME Inv, NumberInv, [Next]_vars PROVE NumberInv'
    OBVIOUS
<1>1. CASE ClockEdge
    <2>1. PICK sample \in Samples, valid \in BOOLEAN, ready \in BOOLEAN :
              Clock(sample, valid, ready)
        BY <1>1 DEF ClockEdge
    <2>2. CASE rst_n
        BY <2>1, <2>2, NumberEdge
    <2>3. CASE ~rst_n
        BY <2>1, <2>3, NumberCleared DEF Clock
    <2> QED
        BY <2>2, <2>3
<1>2. CASE AssertReset
    BY <1>2, NumberCleared DEF AssertReset
<1>3. CASE ReleaseReset \/ UNCHANGED vars
    BY <1>3
    DEF ReleaseReset, vars, regs, ring, identity, telemetry, NumberInv, RingInv,
        TickOrder, SequenceOrder, Entry, At
<1> QED
    BY <1>1, <1>2, <1>3 DEF Next

THEOREM NumberInvariant == Spec => []NumberInv
BY NumberInit, NumberStep, StreamInvariant, PTL DEF Spec

(* Pending, which the properties speak of, lists the entries. *)
LEMMA PendingFacts ==
    ASSUME Inv, RingInv
    PROVE  /\ queued_count \in Nat
           /\ Pending = [i \in 1 .. queued_count |-> Pending[i]]
           /\ \A i \in 1 .. queued_count : Pending[i] = Entry(i)
<1>1. queued_count \in Nat /\ read_pointer \in Nat
    BY Positive DEF Inv, TypeOK, Positions
<1>2. \A i \in 1 .. queued_count : read_pointer + i - 1 = read_pointer + (i - 1)
    BY <1>1
<1> QED
    BY <1>1, <1>2 DEF Pending, Entry, At, Around

-----------------------------------------------------------------------------
(* The producer as a queue. *)

(* A function on an initial segment is a sequence. *)
LEMMA SequenceOf ==
    ASSUME NEW S, NEW n \in Nat, NEW f, f = [i \in 1 .. n |-> f[i]],
           \A i \in 1 .. n : f[i] \in S
    PROVE  f \in Seq(S) /\ Len(f) = n
<1>1. f \in [1 .. n -> S] /\ DOMAIN f = 1 .. n
    OBVIOUS
<1>2. f \in Seq(S)
    BY <1>1, SeqDef
<1>3. Len(f) \in Nat /\ DOMAIN f = 1 .. Len(f)
    BY <1>2, LenProperties
<1> QED
    BY <1>1, <1>2, <1>3

(* Entries that shift as those of the ring do are the tail of the old      *)
(* sequence, if one was taken, with the new event behind it.               *)
ShiftOf(s, t, push, pop, event) ==
    /\ Len(t) = Len(s) + (IF push THEN 1 ELSE 0) - (IF pop THEN 1 ELSE 0)
    /\ pop => Len(s) > 0
    /\ \A i \in 1 .. Len(t) :
          t[i] = LET k == IF pop THEN i + 1 ELSE i
                 IN  IF k <= Len(s) THEN s[k] ELSE event

Popped(s, pop) == IF pop THEN Tail(s) ELSE s
Pushed(push, event) == IF push THEN <<event>> ELSE <<>>

LEMMA ShiftedSequence ==
    ASSUME NEW S, NEW s \in Seq(S), NEW t \in Seq(S), NEW event \in S,
           NEW push \in BOOLEAN, NEW pop \in BOOLEAN,
           ShiftOf(s, t, push, pop, event)
    PROVE  /\ t = Popped(s, pop) \o Pushed(push, event)
           /\ Len(Popped(s, pop)) = Len(s) - (IF pop THEN 1 ELSE 0)
           /\ Popped(s, pop) \in Seq(S)
<1> DEFINE rest == Popped(s, pop)
           put == Pushed(push, event)
           d == IF pop THEN 1 ELSE 0
           c == IF push THEN 1 ELSE 0
<1>1. /\ Len(s) \in Nat /\ Len(t) \in Nat /\ d \in {0, 1} /\ c \in {0, 1}
      /\ Len(t) = Len(s) + c - d
      /\ pop => Len(s) > 0
    BY LenProperties DEF ShiftOf
<1>2. /\ rest \in Seq(S) /\ Len(rest) = Len(s) - d
      /\ \A i \in 1 .. Len(s) - d : rest[i] = s[i + d]
    <2>1. CASE pop
        <3>1. s # <<>>
            BY <1>1, <2>1, EmptySeq
        <3> QED
            BY <1>1, <2>1, <3>1, HeadTailProperties DEF Popped
    <2>2. CASE ~pop
        BY <1>1, <2>2 DEF Popped
    <2> QED
        BY <2>1, <2>2
<1>3. put \in Seq(S) /\ Len(put) = c /\ (push => put[1] = event)
    BY DEF Pushed
<1>4. c = 1 => push
    OBVIOUS
<1>5. \A i \in 1 .. Len(t) : t[i] = IF i + d <= Len(s) THEN s[i + d] ELSE event
    <2>1. \A i \in 1 .. Len(t) : (IF pop THEN i + 1 ELSE i) = i + d
        BY <1>1
    <2> QED
        BY <2>1 DEF ShiftOf
<1> HIDE DEF rest, put, d, c
<1>13. rest \in Seq(S) /\ put \in Seq(S)
    BY <1>2, <1>3
<1>6. /\ rest \o put \in Seq(S)
      /\ Len(rest \o put) = Len(rest) + Len(put)
      /\ \A i \in 1 .. Len(rest) + Len(put) : (rest \o put)[i] =
            IF i <= Len(rest) THEN rest[i] ELSE put[i - Len(rest)]
    BY <1>13, ConcatProperties, Zenon
<1>7. Len(t) = Len(rest \o put)
    BY <1>1, <1>2, <1>3, <1>6
<1>8. ASSUME NEW i \in 1 .. Len(t)
      PROVE  t[i] = (rest \o put)[i]
    <2>1. /\ t[i] = IF i + d <= Len(s) THEN s[i + d] ELSE event
          /\ i \in 1 .. Len(rest) + Len(put) /\ i \in Nat
        BY <1>1, <1>5, <1>6, <1>7
    <2>2. CASE i <= Len(rest)
        <3>1. i + d <= Len(s) /\ i \in 1 .. Len(s) - d
            BY <1>1, <1>2, <2>1, <2>2
        <3> QED
            BY <1>2, <1>6, <2>1, <2>2, <3>1
    <2>3. CASE ~(i <= Len(rest))
        <3>1. c = 1 /\ i - Len(rest) = 1 /\ ~(i + d <= Len(s))
            BY <1>1, <1>2, <1>3, <2>1, <2>3
        <3> QED
            BY <1>3, <1>4, <1>6, <2>1, <2>3, <3>1
    <2> QED
        BY <2>2, <2>3
<1>9. t = rest \o put
    BY <1>6, <1>7, <1>8, SeqEqual
<1> QED
    BY <1>2, <1>9 DEF rest, put, d

(* The pending events as a sequence, before and after an edge.             *)
LEMMA PendingSequence ==
    ASSUME Inv, RingInv
    PROVE  Pending \in Seq(StreamEvents) /\ Len(Pending) = queued_count
<1>1. /\ queued_count \in Nat
      /\ Pending = [i \in 1 .. queued_count |-> Pending[i]]
      /\ \A i \in 1 .. queued_count : Pending[i] \in StreamEvents
    BY PendingFacts DEF RingInv
<1> HIDE DEF Pending
<1> QED
    BY <1>1, SequenceOf

LEMMA PendingNext ==
    ASSUME Inv', RingInv'
    PROVE  /\ Pending' \in Seq(StreamEvents) /\ Len(Pending') = queued_count'
           /\ \A i \in 1 .. queued_count' : Pending'[i] = Entry(i)'
<1>1. queued_count' \in Nat /\ read_pointer' \in Nat
    BY Positive DEF Inv, TypeOK, Positions
<1>2. \A i \in 1 .. queued_count' : read_pointer' + i - 1 = read_pointer' + (i - 1)
    BY <1>1
<1>3. /\ Pending' = [i \in 1 .. queued_count' |-> Pending'[i]]
      /\ \A i \in 1 .. queued_count' : Pending'[i] = Entry(i)'
    BY <1>1, <1>2 DEF Pending, Entry, At, Around
<1>4. \A i \in 1 .. queued_count' : Pending'[i] \in StreamEvents
    BY <1>3 DEF RingInv
<1> HIDE DEF Pending
<1> QED
    BY <1>1, <1>3, <1>4, SequenceOf

LEMMA NewEventType ==
    ASSUME Inv, NEW sample \in Samples
    PROVE  NewEvent(sample) \in StreamEvents
<1>1. source_tick \in 0 .. TICK_MODULUS - 1 /\ next_sequence \in 0 .. SEQUENCE_MAX
    BY DEF Inv, TypeOK
<1>2. (IF sample < 0 THEN -1 ELSE 1) \in {-1, 1}
    OBVIOUS
<1> QED
    BY <1>1, <1>2 DEF StreamEvents, NewEvent

LEMMA PendingStep ==
    ASSUME Inv, Inv', RingInv, RingInv', NEW sample \in Samples,
           NEW push \in BOOLEAN, NEW pop \in BOOLEAN,
           Shifted(push, pop, NewEvent(sample))
    PROVE  /\ Pending' = Popped(Pending, pop) \o Pushed(push, NewEvent(sample))
           /\ push => Len(Popped(Pending, pop)) < FIFO_DEPTH
<1> DEFINE event == NewEvent(sample)
<1>1. /\ Pending \in Seq(StreamEvents) /\ Len(Pending) = queued_count
      /\ queued_count \in Nat /\ queued_count <= FIFO_DEPTH /\ FIFO_DEPTH \in Nat
      /\ \A i \in 1 .. queued_count : Pending[i] = Entry(i)
    <2>1. queued_count \in 0 .. FIFO_DEPTH
        BY DEF Inv, TypeOK
    <2> QED
        BY <2>1, PendingSequence, PendingFacts, Positive
<1>2. /\ Pending' \in Seq(StreamEvents) /\ Len(Pending') = queued_count'
      /\ \A i \in 1 .. queued_count' : Pending'[i] = Entry(i)'
    BY PendingNext
<1>3. /\ queued_count' = queued_count + (IF push THEN 1 ELSE 0)
                                      - (IF pop THEN 1 ELSE 0)
      /\ pop => queued_count > 0
      /\ push => queued_count < FIFO_DEPTH \/ pop
      /\ \A i \in 1 .. queued_count' :
            Entry(i)' = LET k == IF pop THEN i + 1 ELSE i
                        IN  IF k <= queued_count THEN Entry(k) ELSE event
    BY DEF Shifted
<1>4. event \in StreamEvents
    BY NewEventType
<1> HIDE DEF event, Pending
<1>5. \A i \in 1 .. Len(Pending') :
          Pending'[i] = LET k == IF pop THEN i + 1 ELSE i
                        IN  IF k <= Len(Pending) THEN Pending[k] ELSE event
    <2> TAKE i \in 1 .. Len(Pending')
    <2> DEFINE k == IF pop THEN i + 1 ELSE i
    <2>1. Pending'[i] = IF k <= queued_count THEN Entry(k) ELSE event
        BY <1>2, <1>3
    <2>2. k <= queued_count => k \in 1 .. queued_count
        BY <1>1, <1>2, <1>3
    <2> QED
        BY <1>1, <2>1, <2>2
<1>6. /\ Len(Pending') = Len(Pending) + (IF push THEN 1 ELSE 0)
                                     - (IF pop THEN 1 ELSE 0)
      /\ pop => Len(Pending) > 0
    BY <1>1, <1>2, <1>3
<1>7. /\ Pending' = Popped(Pending, pop) \o Pushed(push, event)
      /\ Len(Popped(Pending, pop)) = Len(Pending) - (IF pop THEN 1 ELSE 0)
    <2>1. ShiftOf(Pending, Pending', push, pop, event)
        BY <1>5, <1>6 DEF ShiftOf
    <2> QED
        BY <1>1, <1>2, <1>4, <2>1, ShiftedSequence
<1>8. push => Len(Popped(Pending, pop)) < FIFO_DEPTH
    BY <1>1, <1>3, <1>7
<1> QED
    BY <1>7, <1>8 DEF event

(* What one edge out of reset leaves: the composition with a consumer      *)
(* needs no more of it.                                                    *)
EdgeOutcome(sample, pop) ==
    \E push, drop \in BOOLEAN :
        /\ Pending' = Popped(Pending, pop) \o Pushed(push, NewEvent(sample))
        /\ push => Len(Popped(Pending, pop)) < FIFO_DEPTH
        /\ queued_count' = queued_count + (IF push THEN 1 ELSE 0)
                                        - (IF pop THEN 1 ELSE 0)
        /\ overflow_sticky' = (overflow_sticky \/ drop)
        /\ drop => queued_count = FIFO_DEPTH /\ ~pop
        /\ ~telemetry_saturation_sticky' =>
              /\ ~telemetry_saturation_sticky
              /\ accepted_count' = accepted_count + (IF pop THEN 1 ELSE 0)

LEMMA EdgeOutcomes ==
    ASSUME Inv, RingInv, rst_n, UNCHANGED rst_n,
           NEW sample \in Samples, NEW valid \in BOOLEAN, NEW ready \in BOOLEAN,
           Clock(sample, valid, ready)
    PROVE  /\ Inv' /\ RingInv' /\ NewEvent(sample) \in StreamEvents
           /\ PopEvent(ready) \in BOOLEAN
           /\ EdgeOutcome(sample, PopEvent(ready))
<1> DEFINE spike == SpikeGenerated(sample, valid)
           push == EnqueueEvent(spike, ready)
           drop == DropEvent(spike, ready)
           pop == PopEvent(ready)
<1>1. MoveQueue(sample, spike, ready) /\ Account(spike, ready)
    BY DEF Clock
<1>2. /\ spike \in BOOLEAN /\ push \in BOOLEAN /\ pop \in BOOLEAN
      /\ drop \in BOOLEAN
    BY DEF SpikeGenerated, EnqueueEvent, PopEvent, aer_valid, DropEvent
<1> HIDE DEF spike
<1>3. Inv'
    BY EdgeInv
<1>4. Shifted(push, pop, NewEvent(sample)) /\ RingInv'
    BY <1>1, <1>2, RingStep
<1>5. drop => queued_count = FIFO_DEPTH /\ ~pop
    <2>1. queued_count \in 0 .. FIFO_DEPTH /\ FIFO_DEPTH \in Nat
        BY Positive DEF Inv, TypeOK
    <2> QED
        BY <2>1 DEF DropEvent, QueueHasSpace
<1>6. /\ overflow_sticky' = (overflow_sticky \/ drop)
      /\ ~telemetry_saturation_sticky' =>
            /\ ~telemetry_saturation_sticky
            /\ accepted_count' = accepted_count + (IF pop THEN 1 ELSE 0)
    BY <1>1, <1>2, AccountCases
<1> HIDE DEF push, pop, drop
<1>7. /\ Pending' = Popped(Pending, pop) \o Pushed(push, NewEvent(sample))
      /\ push => Len(Popped(Pending, pop)) < FIFO_DEPTH
    BY <1>2, <1>3, <1>4, PendingStep
<1>8. queued_count' = queued_count + (IF push THEN 1 ELSE 0)
                                   - (IF pop THEN 1 ELSE 0)
    BY <1>4 DEF Shifted
<1>9. EdgeOutcome(sample, pop)
    BY <1>2, <1>5, <1>6, <1>7, <1>8 DEF EdgeOutcome
<1> QED
    BY <1>2, <1>3, <1>4, <1>9, NewEventType DEF pop

Offered == IF aer_valid THEN aer_event ELSE NoEvent

(* The port offers the oldest event, or nothing. *)
LEMMA OfferFacts ==
    Inv /\ RingInv =>
        /\ aer_valid => /\ aer_event = Head(Pending) /\ Pending # <<>>
                        /\ aer_event \in StreamEvents
        /\ aer_valid <=> Offered # NoEvent
<1> SUFFICES ASSUME Inv, RingInv
             PROVE  /\ aer_valid => /\ aer_event = Head(Pending)
                                    /\ Pending # <<>>
                                    /\ aer_event \in StreamEvents
                    /\ aer_valid <=> Offered # NoEvent
    OBVIOUS
<1>1. ASSUME aer_valid
      PROVE  /\ aer_event = Head(Pending) /\ Pending # <<>>
             /\ aer_event \in StreamEvents
    <2>1. /\ Pending \in Seq(StreamEvents) /\ Len(Pending) = queued_count
          /\ queued_count \in Nat /\ queued_count > 0
          /\ \A i \in 1 .. queued_count : Pending[i] = Entry(i)
        BY <1>1, PendingSequence, PendingFacts DEF aer_valid
    <2>2. Pending[1] = Entry(1) /\ Entry(1) \in StreamEvents
        BY <2>1 DEF RingInv
    <2>3. Entry(1) = aer_event
        <3>1. read_pointer \in Positions /\ 1 - 1 = 0
            BY DEF Inv, TypeOK
        <3>2. At(0) = read_pointer
            BY <3>1, Positive, RingCases DEF At, Around
        <3> QED
            BY <3>1, <3>2 DEF Entry, aer_event
    <2> HIDE DEF Pending
    <2>4. Pending # <<>> /\ Head(Pending) = Pending[1]
        BY <2>1
    <2> QED
        BY <2>2, <2>3, <2>4
<1> QED
    BY <1>1, EntryAssumption DEF Offered

(* One edge out of reset is one transfer of the queue. *)
LEMMA EdgeTransfers ==
    ASSUME Inv, Inv', RingInv, RingInv', NEW sample \in Samples,
           NEW push \in BOOLEAN, NEW pop \in BOOLEAN, pop => aer_valid,
           Shifted(push, pop, NewEvent(sample))
    PROVE  Queue!Transfer(Pushed(push, NewEvent(sample)), pop)
<1> DEFINE put == Pushed(push, NewEvent(sample))
<1>1. /\ Pending' = Popped(Pending, pop) \o put
      /\ put # <<>> => Len(Popped(Pending, pop)) < FIFO_DEPTH
    BY PendingStep DEF Pushed
<1>2. /\ aer_valid <=> Offered # NoEvent
      /\ aer_valid => aer_event = Head(Pending) /\ Pending # <<>>
    BY OfferFacts
<1>3. /\ aer_valid' <=> Offered' # NoEvent
      /\ aer_valid' => aer_event' = Head(Pending') /\ Pending' # <<>>
    <2>1. (/\ aer_valid => /\ aer_event = Head(Pending) /\ Pending # <<>>
                           /\ aer_event \in StreamEvents
           /\ aer_valid <=> Offered # NoEvent)'
        BY OfferFacts, PTL
    <2> QED
        BY <2>1
<1>4. Queue!OfferNext(pop)
    <2>1. CASE Offered # NoEvent /\ ~pop
        <3>1. aer_valid /\ Pending # <<>> /\ Popped(Pending, pop) = Pending
            BY <1>2, <2>1 DEF Popped
        <3>2. aer_valid'
            <4>1. queued_count \in Nat /\ queued_count # 0
                BY <3>1 DEF aer_valid, Inv, TypeOK
            <4>2. queued_count' = queued_count + (IF push THEN 1 ELSE 0)
                BY <2>1, <4>1 DEF Shifted
            <4> QED
                BY <4>1, <4>2 DEF aer_valid
        <3>3. Pending \in Seq(StreamEvents) /\ put \in Seq(StreamEvents)
            BY PendingSequence, NewEventType DEF Pushed
        <3> HIDE DEF Pending, put
        <3>4. Head(Pending \o put) = Head(Pending)
            BY <3>1, <3>3
        <3>5. aer_event' = aer_event
            BY <1>1, <1>2, <1>3, <3>1, <3>2, <3>4
        <3> QED
            BY <2>1, <3>1, <3>2, <3>5 DEF Queue!OfferNext, Offered
    <2>2. CASE ~(Offered # NoEvent /\ ~pop)
        BY <1>3, <2>2 DEF Queue!OfferNext, Offered
    <2> QED
        BY <2>1, <2>2
<1>5. pop => Offered # NoEvent
    BY <1>2
<1> HIDE DEF Pending, put
<1>6. Queue!Transfer(put, pop)
    BY <1>1, <1>4, <1>5 DEF Queue!Transfer, Offered, Popped
<1> QED
    BY <1>6 DEF put

LEMMA ClearedFlushes == Cleared => Queue!Flush
<1> SUFFICES ASSUME Cleared PROVE Queue!Flush
    OBVIOUS
<1>1. queued_count' = 0
    BY DEF Cleared
<1>2. Pending' = <<>> /\ ~aer_valid'
    BY <1>1 DEF Pending, aer_valid
<1> QED
    BY <1>2 DEF Queue!Flush

(* Every step of the producer is a step of the queue or leaves it alone.   *)
LEMMA QueueStep ==
    ASSUME Inv, Inv', RingInv, RingInv', [Next]_vars
    PROVE  [Queue!Next]_(Queue!vars)
<1>1. ASSUME NEW sample \in Samples, NEW valid \in BOOLEAN,
             NEW ready \in BOOLEAN, rst_n, Clock(sample, valid, ready)
      PROVE  Queue!Next
    <2> DEFINE spike == SpikeGenerated(sample, valid)
               push == EnqueueEvent(spike, ready)
               pop == PopEvent(ready)
    <2>1. MoveQueue(sample, spike, ready)
        BY <1>1 DEF Clock
    <2>2. /\ spike \in BOOLEAN /\ push \in BOOLEAN /\ pop \in BOOLEAN
          /\ pop => aer_valid
        BY DEF SpikeGenerated, EnqueueEvent, PopEvent, aer_valid
    <2> HIDE DEF spike
    <2>3. Shifted(push, pop, NewEvent(sample))
        BY <2>1, <2>2, RingStep
    <2> HIDE DEF push, pop
    <2>4. Queue!Transfer(Pushed(push, NewEvent(sample)), pop)
        BY <2>2, <2>3, EdgeTransfers
    <2>5. Pushed(push, NewEvent(sample))
              \in {<<>>} \cup {<<e>> : e \in StreamEvents}
        BY NewEventType DEF Pushed
    <2> QED
        BY <2>2, <2>4, <2>5 DEF Queue!Next
<1>2. CASE ClockEdge
    <2>1. PICK sample \in Samples, valid \in BOOLEAN, ready \in BOOLEAN :
              Clock(sample, valid, ready)
        BY <1>2 DEF ClockEdge
    <2>2. CASE rst_n
        BY <1>1, <2>1, <2>2
    <2>3. CASE ~rst_n
        BY <2>1, <2>3, ClearedFlushes DEF Clock, Queue!Next
    <2> QED
        BY <2>2, <2>3
<1>3. CASE AssertReset
    BY <1>3, ClearedFlushes DEF AssertReset, Queue!Next
<1>4. CASE ReleaseReset \/ UNCHANGED vars
    BY <1>4
    DEF ReleaseReset, vars, regs, ring, Queue!vars, Pending, aer_valid, aer_event
<1> QED
    BY <1>2, <1>3, <1>4 DEF Next

(* The producer is a queue of FIFO_DEPTH events: what it admits leaves     *)
(* unchanged, once and in order, a drop never reaches it, and an offer     *)
(* stands until it is taken or the stream is reset.                        *)
THEOREM StreamImplementsQueue == Spec => ImplementsQueue
<1>1. Init => Queue!Init
    BY DEF Init, Queue!Init, Pending, aer_valid
<1>2. Inv /\ Inv' /\ RingInv /\ RingInv' /\ [Next]_vars
        => [Queue!Next]_(Queue!vars)
    BY QueueStep
<1>3. NumberInv => RingInv
    BY DEF NumberInv
<1> QED
    BY <1>1, <1>2, <1>3, StreamInvariant, NumberInvariant, PTL
    DEF Spec, Queue!Spec, ImplementsQueue

-----------------------------------------------------------------------------
(* The producer beside its golden reference.                               *)

ReferenceEvents == [polarity : {-1, 1}, source_tick : Nat, sequence : 0 .. SEQUENCE_MAX]

(* The payload of an event of the reference, and those of a queue of them. *)
PayloadOf(e) == [polarity |-> e.polarity, tick |-> e.source_tick % TICK_MODULUS,
                 sequence |-> e.sequence]
PayloadsOf(s) == [i \in DOMAIN s |-> PayloadOf(s[i])]

(* While a trace runs the two hold the same, the unbounded tick and the    *)
(* deque seen through the widths of the RTL.                               *)
Lockstep ==
    /\ queue \in Seq(ReferenceEvents) /\ PayloadsOf(queue) = Pending
    /\ source_tick = ref_tick % TICK_MODULUS
    /\ next_sequence = ref_sequence /\ sequence_wrap_sticky = sequence_wrap
    /\ accumulator = ref_accumulator /\ high_watermark = ref_high_watermark
    /\ generated_count = ref_generated /\ accepted_count = ref_accepted
    /\ dropped_count = ref_dropped
    /\ overflow_sticky = dropped_events
    /\ telemetry_saturation_sticky = telemetry_saturation

CosimInv ==
    /\ Inv /\ NumberInv
    /\ draining \in BOOLEAN /\ ref_tick \in Nat
    /\ tracing => Lockstep

LEMMA PayloadType ==
    ASSUME NEW e \in ReferenceEvents
    PROVE  PayloadOf(e) \in StreamEvents
<1>1. e.polarity \in {-1, 1} /\ e.source_tick \in Nat /\ e.sequence \in 0 .. SEQUENCE_MAX
    BY DEF ReferenceEvents
<1>2. e.source_tick % TICK_MODULUS \in 0 .. TICK_MODULUS - 1
    BY <1>1, Positive
<1> QED
    BY <1>1, <1>2 DEF PayloadOf, StreamEvents

LEMMA PayloadsType ==
    ASSUME NEW s \in Seq(ReferenceEvents)
    PROVE  /\ PayloadsOf(s) \in Seq(StreamEvents) /\ Len(PayloadsOf(s)) = Len(s)
           /\ \A i \in 1 .. Len(s) : PayloadsOf(s)[i] = PayloadOf(s[i])
<1>1. DOMAIN s = 1 .. Len(s) /\ Len(s) \in Nat /\ \A i \in 1 .. Len(s) : s[i] \in ReferenceEvents
    BY LenProperties, ElementOfSeq
<1>2. /\ PayloadsOf(s) = [i \in 1 .. Len(s) |-> PayloadsOf(s)[i]]
      /\ \A i \in 1 .. Len(s) : PayloadsOf(s)[i] = PayloadOf(s[i])
    BY <1>1 DEF PayloadsOf
<1>3. \A i \in 1 .. Len(s) : PayloadsOf(s)[i] \in StreamEvents
    BY <1>1, <1>2, PayloadType
<1> HIDE DEF PayloadsOf
<1> QED
    BY <1>1, <1>2, <1>3, SequenceOf

(* A pop and a push of the deque are those of its payloads.                *)
LEMMA PayloadsMove ==
    ASSUME NEW s \in Seq(ReferenceEvents), NEW pop \in BOOLEAN, pop => s # <<>>
    PROVE  /\ Popped(s, pop) \in Seq(ReferenceEvents)
           /\ Len(Popped(s, pop)) = Len(s) - (IF pop THEN 1 ELSE 0)
           /\ PayloadsOf(Popped(s, pop)) = Popped(PayloadsOf(s), pop)
<1>1. CASE ~pop
    BY <1>1, LenProperties DEF Popped
<1>2. CASE pop
    <2> DEFINE t == Tail(s)
               p == PayloadsOf(s)
    <2>1. /\ t \in Seq(ReferenceEvents) /\ Len(t) = Len(s) - 1 /\ Len(s) \in Nat
          /\ \A i \in 1 .. Len(t) : t[i] = s[i + 1]
        BY <1>2, HeadTailProperties, LenProperties
    <2>2. p \in Seq(StreamEvents) /\ Len(p) = Len(s)
          /\ \A i \in 1 .. Len(s) : p[i] = PayloadOf(s[i])
        BY PayloadsType
    <2>3. PayloadsOf(t) \in Seq(StreamEvents) /\ Len(PayloadsOf(t)) = Len(t)
          /\ \A i \in 1 .. Len(t) : PayloadsOf(t)[i] = PayloadOf(t[i])
        BY <2>1, PayloadsType
    <2>4. Len(s) > 0
        BY <1>2, <2>1, EmptySeq
    <2> HIDE DEF p, t
    <2>5. /\ Tail(p) \in Seq(StreamEvents) /\ Len(Tail(p)) = Len(p) - 1
          /\ \A i \in 1 .. Len(Tail(p)) : Tail(p)[i] = p[i + 1]
        <3>1. p # <<>>
            BY <2>1, <2>2, <2>4, EmptySeq
        <3> QED
            BY <2>2, <3>1, HeadTailProperties
    <2>6. ASSUME NEW i \in 1 .. Len(t) PROVE PayloadsOf(t)[i] = Tail(p)[i]
        <3>1. i + 1 \in 1 .. Len(s) /\ i \in 1 .. Len(Tail(p))
            BY <2>1, <2>2, <2>5
        <3>2. PayloadsOf(t)[i] = PayloadOf(s[i + 1])
            BY <2>1, <2>3
        <3> QED
            BY <2>2, <2>5, <3>1, <3>2
    <2>7. PayloadsOf(t) = Tail(p)
        BY <2>1, <2>2, <2>3, <2>5, <2>6, SeqEqual
    <2> QED
        BY <1>2, <2>1, <2>7 DEF Popped, p, t
<1> QED
    BY <1>1, <1>2

LEMMA PayloadsAppend ==
    ASSUME NEW s \in Seq(ReferenceEvents), NEW e \in ReferenceEvents
    PROVE  /\ Append(s, e) \in Seq(ReferenceEvents) /\ Len(Append(s, e)) = Len(s) + 1
           /\ PayloadsOf(Append(s, e)) = PayloadsOf(s) \o <<PayloadOf(e)>>
<1> DEFINE t == Append(s, e)
           p == PayloadsOf(s)
           put == <<PayloadOf(e)>>
<1>1. /\ t \in Seq(ReferenceEvents) /\ Len(t) = Len(s) + 1 /\ Len(s) \in Nat
      /\ \A i \in 1 .. Len(s) : t[i] = s[i]
      /\ t[Len(s) + 1] = e
    BY AppendProperties, LenProperties
<1>2. /\ p \in Seq(StreamEvents) /\ Len(p) = Len(s)
      /\ \A i \in 1 .. Len(s) : p[i] = PayloadOf(s[i])
    BY PayloadsType
<1>3. /\ PayloadsOf(t) \in Seq(StreamEvents) /\ Len(PayloadsOf(t)) = Len(t)
      /\ \A i \in 1 .. Len(t) : PayloadsOf(t)[i] = PayloadOf(t[i])
    BY <1>1, PayloadsType
<1>4. put \in Seq(StreamEvents) /\ Len(put) = 1 /\ put[1] = PayloadOf(e)
    BY PayloadType
<1> HIDE DEF p, t, put
<1>8. p \in Seq(StreamEvents) /\ put \in Seq(StreamEvents)
    BY <1>2, <1>4
<1>5. /\ p \o put \in Seq(StreamEvents) /\ Len(p \o put) = Len(p) + Len(put)
      /\ \A i \in 1 .. Len(p) + Len(put) : (p \o put)[i] =
            IF i <= Len(p) THEN p[i] ELSE put[i - Len(p)]
    BY <1>8, ConcatProperties, Zenon
<1>6. ASSUME NEW i \in 1 .. Len(t) PROVE PayloadsOf(t)[i] = (p \o put)[i]
    <2>1. PayloadsOf(t)[i] = PayloadOf(t[i]) /\ i \in 1 .. Len(p) + Len(put)
        BY <1>1, <1>2, <1>3, <1>4
    <2>2. CASE i <= Len(s)
        <3>1. i \in 1 .. Len(s)
            BY <1>1, <2>2
        <3> QED
            BY <1>1, <1>2, <1>5, <2>1, <2>2, <3>1
    <2>3. CASE i > Len(s)
        <3>1. i = Len(s) + 1 /\ i - Len(p) = 1 /\ ~(i <= Len(p))
            BY <1>1, <1>2, <2>3
        <3> QED
            BY <1>1, <1>4, <1>5, <2>1, <3>1
    <2>4. i \in Nat /\ Len(s) \in Nat
        BY <1>1
    <2>5. i <= Len(s) \/ i > Len(s)
        BY <2>4
    <2> QED
        BY <2>2, <2>3, <2>5
<1>7. PayloadsOf(t) = p \o put
    BY <1>1, <1>2, <1>3, <1>4, <1>5, <1>6, SeqEqual
<1> QED
    BY <1>1, <1>7 DEF p, t, put

(* The unbounded tick and the one that wraps stay congruent.               *)
LEMMA NextTick ==
    ASSUME NEW n \in Nat
    PROVE  ((n % TICK_MODULUS) + 1) % TICK_MODULUS = (n + 1) % TICK_MODULUS
<1> DEFINE T == TICK_MODULUS
           c == n % T
           q == n \div T
<1>1. T \in Nat /\ T >= 1
    BY Positive
<1> HIDE DEF T
<1>2. c \in 0 .. T - 1 /\ q \in Int /\ n = T * q + c
    BY <1>1
<1> HIDE DEF c, q
<1>3. n + 1 = T * q + (c + 1)
    BY <1>1, <1>2
<1>4. CASE c + 1 < T
    <2>1. (c + 1) % T = c + 1
        BY <1>1, <1>2, <1>4
    <2>2. (n + 1) % T = c + 1
        BY <1>1, <1>2, <1>3, <1>4
    <2> QED
        BY <2>1, <2>2 DEF c, T
<1>5. CASE c + 1 = T
    <2>1. (c + 1) % T = 0
        BY <1>1, <1>2, <1>5
    <2>2. n + 1 = T * (q + 1)
        BY <1>1, <1>2, <1>3, <1>5
    <2>3. (n + 1) % T = 0
        BY <1>1, <1>2, <2>2
    <2> QED
        BY <2>1, <2>3 DEF c, T
<1> QED
    BY <1>1, <1>2, <1>4, <1>5

(* The next number, taken around either way.                               *)
LEMMA NextNumber ==
    ASSUME NEW n \in 0 .. SEQUENCE_MAX
    PROVE  /\ (n + 1) % (SEQUENCE_MAX + 1) = IF n = SEQUENCE_MAX THEN 0 ELSE n + 1
           /\ (n + 1) % (SEQUENCE_MAX + 1) = 0 <=> n = SEQUENCE_MAX
<1> DEFINE S == SEQUENCE_MAX
<1>1. S \in Nat /\ n \in Nat /\ n <= S
    BY Positive
<1> HIDE DEF S
<1>2. CASE n = S
    BY <1>1, <1>2 DEF S
<1>3. CASE n # S
    <2>1. (n + 1) % (S + 1) = n + 1
        BY <1>1, <1>3
    <2> QED
        BY <1>1, <1>3, <2>1 DEF S
<1> QED
    BY <1>2, <1>3

LEMMA CosimInitially == CosimInit => CosimInv
<1> SUFFICES ASSUME CosimInit PROVE CosimInv
    OBVIOUS
<1>1. Inv /\ NumberInv
    BY InitInv, NumberInit DEF CosimInit
<1>2. queue \in Seq(ReferenceEvents) /\ PayloadsOf(queue) = Pending
    <2>1. queue = <<>> /\ queued_count = 0
        BY DEF CosimInit, Init
    <2>2. /\ queue \in Seq(ReferenceEvents) /\ Len(queue) = 0
          /\ Pending \in Seq(StreamEvents) /\ Len(Pending) = 0
        BY <1>1, <2>1, PendingSequence DEF NumberInv
    <2>3. PayloadsOf(queue) \in Seq(StreamEvents) /\ Len(PayloadsOf(queue)) = 0
        BY <2>2, PayloadsType
    <2> QED
        BY <2>2, <2>3, EmptySeq
<1>3. 0 % TICK_MODULUS = 0
    BY Positive
<1> QED
    BY <1>1, <1>2, <1>3 DEF CosimInit, Init, CosimInv, Lockstep

(* One edge seen by both: they agree on what is generated, popped and      *)
(* dropped, and leave the same behind.                                     *)
LEMMA WiresAgree ==
    ASSUME CosimInv, tracing, NEW sample \in Samples, NEW ready \in BOOLEAN
    PROVE  LET spike == SpikeGenerated(sample, ~draining)
               pops == ready /\ queue # <<>>
               popped == Popped(queue, pops) IN
           /\ Len(queue) = queued_count /\ queued_count \in 0 .. FIFO_DEPTH
           /\ Fires(sample) = spike /\ spike \in BOOLEAN
           /\ PopEvent(ready) = pops /\ pops \in BOOLEAN
           /\ RoomAfterPop(popped) = QueueHasSpace(ready)
           /\ popped \in Seq(ReferenceEvents)
           /\ PayloadsOf(popped) = Popped(Pending, pops)
<1> DEFINE spike == SpikeGenerated(sample, ~draining)
           pops == ready /\ queue # <<>>
           popped == Popped(queue, pops)
<1>0. Lockstep /\ Inv /\ RingInv
    BY DEF CosimInv, NumberInv
<1>1. queue \in Seq(ReferenceEvents) /\ PayloadsOf(queue) = Pending
    BY <1>0 DEF Lockstep
<1>2. Len(queue) = queued_count /\ queued_count \in 0 .. FIFO_DEPTH
    BY <1>0, <1>1, PayloadsType, PendingSequence DEF Inv, TypeOK
<1>3. Fires(sample) = spike /\ spike \in BOOLEAN
    BY <1>0 DEF Lockstep, CosimInv, Fires, SpikeGenerated, accumulator_with_sample
<1>4. PopEvent(ready) = pops /\ pops \in BOOLEAN
    <2>1. queue = <<>> <=> queued_count = 0
        BY <1>1, <1>2, EmptySeq
    <2> QED
        BY <2>1 DEF PopEvent, aer_valid
<1>5. /\ popped \in Seq(ReferenceEvents)
      /\ Len(popped) = Len(queue) - (IF pops THEN 1 ELSE 0)
      /\ PayloadsOf(popped) = Popped(Pending, pops)
    <2>1. pops => queue # <<>>
        OBVIOUS
    <2> HIDE DEF pops
    <2> QED
        BY <1>1, <1>4, <2>1, PayloadsMove
<1>6. RoomAfterPop(popped) = QueueHasSpace(ready)
    <2>1. FIFO_DEPTH \in Nat /\ FIFO_DEPTH >= 1 /\ queued_count \in Nat
          /\ queued_count <= FIFO_DEPTH
        BY <1>2, Positive
    <2>2. pops \in BOOLEAN /\ Len(popped) = queued_count - (IF pops THEN 1 ELSE 0)
        BY <1>2, <1>4, <1>5
    <2> HIDE DEF pops, popped
    <2>3. CASE pops
        BY <1>4, <2>1, <2>2, <2>3 DEF RoomAfterPop, QueueHasSpace
    <2>4. CASE ~pops
        BY <1>4, <2>1, <2>2, <2>4 DEF RoomAfterPop, QueueHasSpace
    <2> QED
        BY <2>3, <2>4
<1> HIDE DEF spike, pops, popped
<1> QED
    BY <1>2, <1>3, <1>4, <1>5, <1>6 DEF spike, pops, popped

(* The queue of the reference after an edge is the ring after it.          *)
LEMMA QueuesAgree ==
    ASSUME CosimInv, tracing, rst_n, UNCHANGED rst_n,
           NEW sample \in Samples, NEW ready \in BOOLEAN,
           Clock(sample, ~draining, ready), ReferenceEdge(sample, ready)
    PROVE  /\ queue' \in Seq(ReferenceEvents) /\ PayloadsOf(queue') = Pending'
           /\ Len(queue') = queued_count'
<1> DEFINE spike == SpikeGenerated(sample, ~draining)
           pops == ready /\ queue # <<>>
           popped == Popped(queue, pops)
           push == EnqueueEvent(spike, ready)
           event == [polarity |-> IF sample < 0 THEN -1 ELSE 1,
                     source_tick |-> ref_tick, sequence |-> ref_sequence]
<1>0. /\ Lockstep /\ Inv /\ RingInv /\ (~draining) \in BOOLEAN /\ ref_tick \in Nat
      /\ next_sequence \in 0 .. SEQUENCE_MAX
    BY DEF CosimInv, NumberInv, Inv, TypeOK
<1>1. /\ Fires(sample) = spike /\ spike \in BOOLEAN
      /\ PopEvent(ready) = pops /\ pops \in BOOLEAN
      /\ RoomAfterPop(popped) = QueueHasSpace(ready)
      /\ popped \in Seq(ReferenceEvents)
      /\ PayloadsOf(popped) = Popped(Pending, pops)
    BY WiresAgree
<1>2. queue' = IF Fires(sample) /\ ~(Fires(sample) /\ ~RoomAfterPop(popped))
               THEN Append(popped, event) ELSE popped
    BY DEF ReferenceEdge, Popped
<1>3. MoveQueue(sample, spike, ready)
    BY DEF Clock
<1>4. push \in BOOLEAN /\ push = (spike /\ QueueHasSpace(ready))
    BY <1>1 DEF EnqueueEvent
<1>5. event \in ReferenceEvents /\ PayloadOf(event) = NewEvent(sample)
    <2>1. /\ event.polarity = (IF sample < 0 THEN -1 ELSE 1)
          /\ event.source_tick = ref_tick /\ event.sequence = ref_sequence
        OBVIOUS
    <2>2. source_tick = ref_tick % TICK_MODULUS /\ next_sequence = ref_sequence
        BY <1>0 DEF Lockstep
    <2>3. event \in ReferenceEvents
        BY <1>0, <2>2 DEF ReferenceEvents
    <2> HIDE DEF event
    <2> QED
        BY <2>1, <2>2, <2>3 DEF PayloadOf, NewEvent
<1> HIDE DEF spike, pops, popped, push, event
<1>6. Inv' /\ RingInv' /\ Shifted(push, pops, NewEvent(sample))
    <2>1. Inv'
        BY <1>0, EdgeInv
    <2>2. /\ Shifted(push, PopEvent(ready), NewEvent(sample))
          /\ RingInv'
        BY <1>0, <1>1, <1>3, RingStep DEF push
    <2> QED
        BY <1>1, <2>1, <2>2
<1>7. Pending' = Popped(Pending, pops) \o Pushed(push, NewEvent(sample))
    BY <1>0, <1>1, <1>4, <1>6, PendingStep
<1>8. queue' = IF push THEN Append(popped, event) ELSE popped
    BY <1>1, <1>2, <1>4
<1>9. queue' \in Seq(ReferenceEvents) /\ PayloadsOf(queue') = Pending'
    <2>1. CASE push
        <3>1. /\ queue' = Append(popped, event)
              /\ Pending' = Popped(Pending, pops) \o <<NewEvent(sample)>>
            BY <1>7, <1>8, <2>1 DEF Pushed
        <3> QED
            BY <1>1, <1>5, <3>1, PayloadsAppend
    <2>2. CASE ~push
        <3>1. queue' = popped /\ Pending' = Popped(Pending, pops) \o <<>>
            BY <1>7, <1>8, <2>2 DEF Pushed
        <3>2. Popped(Pending, pops) \in Seq(StreamEvents)
            BY <1>1, PayloadsType
        <3>3. Popped(Pending, pops) \o <<>> = Popped(Pending, pops)
            BY <3>2, ConcatEmptySeq
        <3> QED
            BY <1>1, <3>1, <3>3
    <2> QED
        BY <1>4, <2>1, <2>2
<1>10. Len(queue') = queued_count'
    BY <1>6, <1>9, PayloadsType, PendingNext
<1> QED
    BY <1>9, <1>10

LEMMA CycleKeeps ==
    ASSUME CosimInv, tracing, Cycle
    PROVE  Lockstep'
<1>1. PICK sample \in Samples, ready \in BOOLEAN :
          Clock(sample, ~draining, ready) /\ ReferenceEdge(sample, ready)
    BY DEF Cycle
<1>2. rst_n /\ UNCHANGED rst_n /\ ref_tick' = ref_tick + 1
    BY DEF Cycle
<1> DEFINE spike == SpikeGenerated(sample, ~draining)
           pops == ready /\ queue # <<>>
           popped == Popped(queue, pops)
           drop == DropEvent(spike, ready)
<1>3. Lockstep /\ Inv /\ draining \in BOOLEAN /\ ref_tick \in Nat
    BY DEF CosimInv
<1>4. /\ queue' \in Seq(ReferenceEvents) /\ PayloadsOf(queue') = Pending'
      /\ Len(queue') = queued_count'
    BY <1>1, <1>2, QueuesAgree
<1>5. /\ Fires(sample) = spike /\ spike \in BOOLEAN
      /\ PopEvent(ready) = pops /\ pops \in BOOLEAN
      /\ RoomAfterPop(popped) = QueueHasSpace(ready)
    BY WiresAgree
<1>6. /\ Integrate(sample, ~draining, spike) /\ MoveQueue(sample, spike, ready)
      /\ AdvanceIdentity(spike, ready) /\ Account(spike, ready)
    BY <1>1, <1>2 DEF Clock
<1>7. drop = (Fires(sample) /\ ~RoomAfterPop(popped)) /\ drop \in BOOLEAN
    BY <1>5 DEF DropEvent
<1>8. source_tick' = ref_tick' % TICK_MODULUS
    <2>1. source_tick' = ((ref_tick % TICK_MODULUS) + 1) % TICK_MODULUS
        BY <1>3, <1>6 DEF AdvanceIdentity, Lockstep
    <2> QED
        BY <1>2, <1>3, <2>1, NextTick
<1>9. next_sequence' = ref_sequence' /\ sequence_wrap_sticky' = sequence_wrap'
    <2>1. next_sequence \in 0 .. SEQUENCE_MAX /\ next_sequence = ref_sequence
          /\ sequence_wrap_sticky = sequence_wrap
        BY <1>3 DEF Inv, TypeOK, Lockstep
    <2>2. /\ ref_sequence' = IF spike THEN (ref_sequence + 1) % (SEQUENCE_MAX + 1)
                             ELSE ref_sequence
          /\ sequence_wrap' = (sequence_wrap \/ (spike /\ ref_sequence' = 0))
        BY <1>1, <1>5 DEF ReferenceEdge
    <2>3. /\ next_sequence' = IF ~spike THEN next_sequence
                              ELSE IF next_sequence = SEQUENCE_MAX THEN 0
                              ELSE next_sequence + 1
          /\ sequence_wrap_sticky' =
                (sequence_wrap_sticky \/ (spike /\ next_sequence = SEQUENCE_MAX))
        BY <1>6 DEF AdvanceIdentity, TakesNumber
    <2>4. /\ (next_sequence + 1) % (SEQUENCE_MAX + 1)
               = IF next_sequence = SEQUENCE_MAX THEN 0 ELSE next_sequence + 1
          /\ (next_sequence + 1) % (SEQUENCE_MAX + 1) = 0 <=> next_sequence = SEQUENCE_MAX
        BY <2>1, NextNumber
    <2> HIDE DEF spike
    <2>5. CASE spike
        BY <2>1, <2>2, <2>3, <2>4, <2>5
    <2>6. CASE ~spike
        BY <2>1, <2>2, <2>3, <2>6
    <2> QED
        BY <1>5, <2>5, <2>6
<1>10. accumulator' = ref_accumulator'
    BY <1>1, <1>3, <1>5, <1>6
    DEF ReferenceEdge, Integrate, accumulator_with_sample, Lockstep
<1>11. high_watermark' = ref_high_watermark'
    <2>1. high_watermark' = IF queued_count' > high_watermark
                            THEN queued_count' ELSE high_watermark
        BY <1>6 DEF MoveQueue
    <2>2. ref_high_watermark' = IF Len(queue') > ref_high_watermark
                                THEN Len(queue') ELSE ref_high_watermark
        BY <1>1 DEF ReferenceEdge
    <2> QED
        BY <1>3, <1>4, <2>1, <2>2 DEF Lockstep
<1>12. /\ generated_count' = ref_generated' /\ accepted_count' = ref_accepted'
       /\ dropped_count' = ref_dropped'
    <2>1. /\ ref_generated' = IF spike THEN saturating_increment(ref_generated) ELSE ref_generated
          /\ ref_accepted' = IF pops THEN saturating_increment(ref_accepted) ELSE ref_accepted
          /\ ref_dropped' = IF drop THEN saturating_increment(ref_dropped) ELSE ref_dropped
        BY <1>1, <1>5, <1>7 DEF ReferenceEdge, Popped
    <2>2. /\ generated_count' = Counted(generated_count, spike)
          /\ accepted_count' = Counted(accepted_count, pops)
          /\ dropped_count' = Counted(dropped_count, drop)
        BY <1>5, <1>6 DEF Account
    <2> HIDE DEF spike, pops, drop
    <2> QED
        BY <1>3, <2>1, <2>2 DEF Lockstep, Counted, saturating_increment
<1>13. overflow_sticky' = dropped_events'
    <2>1. dropped_events' = (dropped_events \/ drop)
        BY <1>1, <1>7 DEF ReferenceEdge, Popped
    <2>2. overflow_sticky' = (overflow_sticky \/ drop)
        BY <1>6 DEF Account
    <2> QED
        BY <1>3, <2>1, <2>2 DEF Lockstep
<1>14. telemetry_saturation_sticky' = telemetry_saturation'
    <2>1. telemetry_saturation' =
              \/ telemetry_saturation
              \/ pops /\ ref_accepted = TELEMETRY_MAX
              \/ spike /\ ref_generated = TELEMETRY_MAX
              \/ drop /\ ref_dropped = TELEMETRY_MAX
        BY <1>1, <1>5, <1>7 DEF ReferenceEdge, Popped
    <2>2. telemetry_saturation_sticky' =
              \/ telemetry_saturation_sticky
              \/ spike /\ generated_count = TELEMETRY_MAX
              \/ pops /\ accepted_count = TELEMETRY_MAX
              \/ drop /\ dropped_count = TELEMETRY_MAX
        BY <1>5, <1>6 DEF Account
    <2> HIDE DEF spike, pops, drop
    <2> QED
        BY <1>3, <2>1, <2>2 DEF Lockstep
<1> QED
    BY <1>4, <1>8, <1>9, <1>10, <1>11, <1>12, <1>13, <1>14 DEF Lockstep

(* Every step of the cosimulation is a step of the RTL, or none of it.     *)
LEMMA CosimDrivesRtl ==
    ASSUME CosimInv, [CosimNext]_cosimVars
    PROVE  [Next]_vars
<1>1. CASE Cycle
    <2>1. (~draining) \in BOOLEAN
        BY DEF CosimInv
    <2>2. ClockEdge
        BY <1>1, <2>1 DEF Cycle, ClockEdge
    <2> QED
        BY <2>2 DEF Next
<1>2. CASE StartDrain \/ EndTrace
    BY <1>2 DEF StartDrain, EndTrace
<1>3. CASE Release
    BY <1>3 DEF Release, Next
<1>4. CASE EdgeAlone
    <2>1. ClockEdge
        BY <1>4 DEF EdgeAlone, ClockEdge
    <2> QED
        BY <2>1 DEF Next
<1>5. CASE RtlAlone /\ ~EdgeAlone
    BY <1>5 DEF RtlAlone, Next
<1>6. CASE UNCHANGED cosimVars
    BY <1>6 DEF cosimVars
<1> QED
    BY <1>1, <1>2, <1>3, <1>4, <1>5, <1>6 DEF CosimNext

(* A step that moves neither side, but for the reset's release.            *)
LEMMA LockstepStays ==
    ASSUME Lockstep, UNCHANGED regs,
           UNCHANGED <<ref_tick, queue, ref_accumulator, ref_high_watermark, ref_sequence,
                       sequence_wrap, tallies, dropped_events, telemetry_saturation>>
    PROVE  Lockstep'
BY DEF Lockstep, regs, ring, identity, telemetry, tallies, Pending

LEMMA CosimStep == CosimInv /\ [CosimNext]_cosimVars => CosimInv'
<1> SUFFICES ASSUME CosimInv, [CosimNext]_cosimVars PROVE CosimInv'
    OBVIOUS
<1>1. Inv' /\ NumberInv'
    BY CosimDrivesRtl, InvInductive, NumberStep DEF CosimInv
<1>2. draining' \in BOOLEAN /\ ref_tick' \in Nat
    <2>1. MAX_TICKS \in Nat /\ draining \in BOOLEAN /\ ref_tick \in Nat
        BY TraceAssumption DEF CosimInv
    <2>2. CASE Cycle
        BY <2>1, <2>2 DEF Cycle
    <2>3. CASE StartDrain
        BY <2>1, <2>3 DEF StartDrain
    <2>4. CASE EndTrace
        <3>1. draining' = FALSE /\ ref_tick' = MAX_TICKS + 1
            BY <2>4 DEF EndTrace
        <3>2. draining' \in BOOLEAN
            BY <3>1, Zenon
        <3>3. ref_tick' \in Nat
            BY <2>1, <3>1
        <3> QED
            BY <3>2, <3>3
    <2>5. CASE Release \/ RtlAlone \/ UNCHANGED cosimVars
        BY <2>1, <2>5 DEF Release, RtlAlone, cosimVars, referenceVars
    <2> QED
        BY <2>2, <2>3, <2>4, <2>5 DEF CosimNext
<1>3. tracing' => Lockstep'
    <2>1. CASE tracing /\ Cycle
        BY <2>1, CycleKeeps
    <2>2. CASE tracing /\ StartDrain
        BY <2>2, LockstepStays DEF CosimInv, StartDrain, vars
    <2>3. CASE tracing /\ Release
        BY <2>3, LockstepStays DEF CosimInv, Release, ReleaseReset, referenceVars
    <2>4. CASE EndTrace
        <3>1. ref_tick' = MAX_TICKS + 1 /\ MAX_TICKS \in Nat
            BY <2>4, TraceAssumption DEF EndTrace
        <3> QED
            BY <3>1 DEF tracing
    <2>5. CASE RtlAlone
        BY <2>5 DEF RtlAlone, referenceVars, tracing
    <2>6. CASE UNCHANGED cosimVars
        BY <2>6, LockstepStays DEF CosimInv, cosimVars, vars, referenceVars, tracing
    <2> QED
        BY <2>1, <2>2, <2>3, <2>4, <2>5, <2>6 DEF CosimNext
<1> QED
    BY <1>1, <1>2, <1>3 DEF CosimInv

(* The golden reference of the event stream is the RTL to the bit after    *)
(* every edge of every trace, for every depth and width and a trace of any *)
(* length: payloads and order of the queue, counts, watermark, stickies.   *)
THEOREM StreamIsBitTrue == CosimSpec => []StreamBitTrue
<1>1. CosimInv => StreamBitTrue
    <2> SUFFICES ASSUME CosimInv, tracing PROVE Report = RtlReport
        BY DEF StreamBitTrue
    <2>1. Lockstep
        BY DEF CosimInv
    <2>2. Trace = PayloadsOf(queue)
        BY DEF Trace, PayloadsOf, PayloadOf
    <2> QED
        BY <2>1, <2>2 DEF Lockstep, Report, RtlReport, tallies
<1> QED
    BY <1>1, CosimInitially, CosimStep, PTL DEF CosimSpec

-----------------------------------------------------------------------------
(* What the numbers are worth to a reader: the history of the refusals.    *)

Refusals(i) == refused_before[At(i - 1)]
Predecessor(i) == IF i = 1 THEN taken_number ELSE Entry(i - 1).sequence

HistoryTypes ==
    /\ taken_number \in 0 .. SEQUENCE_MAX /\ refused_since \in 0 .. SEQUENCE_MAX
    /\ refused_before \in [Positions -> 0 .. SEQUENCE_MAX]

Gaps ==
    /\ \A i \in 1 .. queued_count :
          Entry(i).sequence = Advanced(Predecessor(i), Refusals(i) + 1)
    /\ next_sequence = Advanced(Predecessor(queued_count + 1), refused_since + 1)

NumbersCount ==
    (~sequence_wrap_sticky /\ ~telemetry_saturation_sticky) => next_sequence = generated_count

HistoryInv == HistoryTypes /\ Gaps /\ NumbersCount

(* Which slot entry i of after is in: that of entry k of before, which the *)
(* edge leaves alone, or the one that it writes.                           *)
LEMMA SlotOrigin ==
    ASSUME Inv, RingInv, NEW sample \in Samples, NEW spike \in BOOLEAN,
           NEW ready \in BOOLEAN, MoveQueue(sample, spike, ready),
           NEW i \in 1 .. queued_count', NEW k, k = IF PopEvent(ready) THEN i + 1 ELSE i
    PROVE  /\ At(i - 1)' = At(k - 1) /\ At(k - 1) \in Positions
           /\ k <= queued_count =>
                 /\ EnqueueEvent(spike, ready) => At(k - 1) # write_pointer
                 /\ PopEvent(ready) => At(k - 1) # read_pointer
           /\ k > queued_count => EnqueueEvent(spike, ready) /\ At(k - 1) = write_pointer
<1> DEFINE push == EnqueueEvent(spike, ready)
           pop == PopEvent(ready)
           D == FIFO_DEPTH
           r == read_pointer  r2 == read_pointer'
           w == write_pointer
           n == queued_count  n2 == queued_count'
<1>1. /\ pop \in BOOLEAN /\ push \in BOOLEAN
      /\ n \in 0 .. D /\ n2 \in 0 .. D
      /\ n2 = n + (IF push THEN 1 ELSE 0) - (IF pop THEN 1 ELSE 0)
    BY QueueBounds
<1>2. /\ pop => n > 0
      /\ push => n < D \/ pop
    BY <1>1 DEF EnqueueEvent, QueueHasSpace, PopEvent, aer_valid
<1>3. /\ r \in Positions /\ D \in Nat /\ D >= 1 /\ w = Around(r, n)
      /\ r2 = IF pop THEN increment_pointer(r) ELSE r
    BY Positive, RingTypes DEF Inv, TypeOK, RingInv, At, MoveQueue
<1> HIDE DEF push, pop
<1>4. /\ r = Around(r, 0)
      /\ \A j \in 1 .. D : Around(increment_pointer(r), j - 1) = Around(r, j)
      /\ \A j \in 1 .. n : j > 1 \/ n < D => Around(r, j - 1) # w
    BY <1>1, <1>3, RingFacts
<1>5. /\ k \in 1 .. n + 1 /\ i \in 1 .. D /\ (k > n => k = n + 1 /\ push)
      /\ (pop => k > 1 /\ k - 1 = i) /\ (~pop => k = i) /\ k - 1 \in 0 .. D
    BY <1>1, <1>2, <1>3 DEF pop
<1>6. Around(r2, i - 1) = Around(r, k - 1)
    BY <1>1, <1>3, <1>4, <1>5
<1>7. Around(r, k - 1) \in Positions
    BY <1>3, <1>5, RingCases DEF Around
<1>8. k <= n /\ push => Around(r, k - 1) # w
    <2>1. k <= n /\ push => k \in 1 .. n /\ (k > 1 \/ n < D)
        BY <1>1, <1>2, <1>5
    <2> QED
        BY <1>4, <2>1
<1>9. k <= n /\ pop => Around(r, k - 1) # r
    <2> SUFFICES ASSUME k <= n, pop PROVE Around(r, k - 1) # r
        OBVIOUS
    <2>1. k - 1 >= 1 /\ k - 1 < D /\ k - 1 \in 0 .. D
        BY <1>1, <1>3, <1>5
    <2>2. /\ r \in Nat /\ r < D
          /\ r + (k - 1) < D => (r + (k - 1)) % D = r + (k - 1)
          /\ r + (k - 1) >= D => (r + (k - 1)) % D = r + (k - 1) - D
        BY <1>3, <2>1, RingCases
    <2> QED
        BY <1>3, <2>1, <2>2 DEF Around
<1>10. k > n => Around(r, k - 1) = w
    <2>1. k > n => k - 1 = n
        BY <1>1, <1>5
    <2> QED
        BY <1>3, <2>1
<1> QED
    BY <1>5, <1>6, <1>7, <1>8, <1>9, <1>10 DEF At, push, pop

(* The refusals shift with the entries they precede. *)
LEMMA RefusalsShift ==
    ASSUME Inv, RingInv, HistoryTypes, NEW sample \in Samples, NEW valid \in BOOLEAN,
           NEW ready \in BOOLEAN, NEW spike, spike = SpikeGenerated(sample, valid),
           MoveQueue(sample, spike, ready), Remember(sample, valid, ready),
           NEW i \in 1 .. queued_count', NEW k, k = IF PopEvent(ready) THEN i + 1 ELSE i
    PROVE  Refusals(i)' = IF k <= queued_count THEN Refusals(k) ELSE refused_since
<1>1. spike \in BOOLEAN
    BY DEF SpikeGenerated
<1>2. /\ At(i - 1)' = At(k - 1) /\ At(k - 1) \in Positions
      /\ k <= queued_count =>
            /\ EnqueueEvent(spike, ready) => At(k - 1) # write_pointer
            /\ PopEvent(ready) => At(k - 1) # read_pointer
      /\ k > queued_count => EnqueueEvent(spike, ready) /\ At(k - 1) = write_pointer
    BY <1>1, SlotOrigin
<1> DEFINE read == [slot \in Positions |->
                       IF PopEvent(ready) /\ slot = read_pointer THEN 0 ELSE refused_before[slot]]
           s == At(k - 1)
<1>3. refused_before' = IF EnqueueEvent(spike, ready)
                        THEN [read EXCEPT ![write_pointer] = refused_since] ELSE read
    BY DEF Remember
<1>4. /\ k <= queued_count => refused_before'[s] = refused_before[s]
      /\ ~(k <= queued_count) => refused_before'[s] = refused_since
    <2>1. k \in Int /\ queued_count \in Int
        <3>1. i \in Int
            OBVIOUS
        <3> QED
            BY <3>1 DEF Inv, TypeOK
    <2>2. CASE k <= queued_count
        <3>1. read[s] = refused_before[s]
            BY <1>2, <2>2
        <3>2. refused_before'[s] = read[s]
            BY <1>2, <1>3, <2>2
        <3> QED
            BY <2>2, <3>1, <3>2
    <2>3. CASE ~(k <= queued_count)
        <3>1. k > queued_count
            BY <2>1, <2>3
        <3> QED
            BY <1>2, <1>3, <2>3, <3>1
    <2> QED
        BY <2>2, <2>3
<1> QED
    BY <1>2, <1>4 DEF Refusals

(* What one edge does to the numbers of the events and to the refusals.    *)
LEMMA GapStep ==
    ASSUME Inv, RingInv, HistoryTypes, Gaps, NEW sample \in Samples, NEW valid \in BOOLEAN,
           NEW ready \in BOOLEAN, NEW spike \in BOOLEAN, spike = SpikeGenerated(sample, valid),
           MoveQueue(sample, spike, ready), AdvanceIdentity(spike, ready),
           Remember(sample, valid, ready)
    PROVE  HistoryTypes' /\ Gaps'
<1> DEFINE push == EnqueueEvent(spike, ready)
           pop == PopEvent(ready)
           n == queued_count
           event == NewEvent(sample)
<1>1. Shifted(push, pop, event)
    BY RingStep
<1>2. /\ n \in Nat /\ next_sequence \in 0 .. SEQUENCE_MAX /\ SEQUENCE_MAX \in Nat
      /\ pop \in BOOLEAN /\ push \in BOOLEAN /\ (push => spike) /\ (pop => n > 0)
      /\ read_pointer \in Positions /\ write_pointer \in Positions
    BY Positive DEF Inv, TypeOK, EnqueueEvent, PopEvent, QueueHasSpace, aer_valid
<1>3. /\ taken_number \in 0 .. SEQUENCE_MAX /\ refused_since \in 0 .. SEQUENCE_MAX
      /\ refused_before \in [Positions -> 0 .. SEQUENCE_MAX]
    BY DEF HistoryTypes
<1>4. /\ taken_number' = IF pop THEN Entry(1).sequence ELSE taken_number
      /\ refused_since' = IF push THEN 0
                          ELSE IF spike THEN Advanced(refused_since, 1) ELSE refused_since
    <2>1. read_pointer = At(0)
        BY <1>2, Positive, RingCases DEF At, Around
    <2>2. At(1 - 1) = At(0)
        OBVIOUS
    <2> QED
        BY <2>1, <2>2 DEF Remember, aer_event, Entry, DropEvent, EnqueueEvent
<1>5. next_sequence' = IF spike THEN Advanced(next_sequence, 1) ELSE next_sequence
    BY <1>2 DEF AdvanceIdentity, TakesNumber, Advanced
<1>6. \A i \in 1 .. n : Entry(i) \in StreamEvents /\ Entry(i).sequence \in 0 .. SEQUENCE_MAX
    BY DEF RingInv, StreamEvents
<1>7. event.sequence = next_sequence
    BY DEF NewEvent
<1>8. HistoryTypes'
    <2>1. taken_number' \in 0 .. SEQUENCE_MAX
        BY <1>2, <1>3, <1>4, <1>6
    <2>2. refused_since' \in 0 .. SEQUENCE_MAX
        BY <1>2, <1>3, <1>4 DEF Advanced
    <2>3. refused_before' \in [Positions -> 0 .. SEQUENCE_MAX]
        <3> DEFINE read == [slot \in Positions |->
                      IF PopEvent(ready) /\ slot = read_pointer THEN 0 ELSE refused_before[slot]]
        <3>1. read \in [Positions -> 0 .. SEQUENCE_MAX]
            BY <1>2, <1>3
        <3>2. refused_before' = IF push THEN [read EXCEPT ![write_pointer] = refused_since]
                                ELSE read
            BY DEF Remember
        <3> HIDE DEF read
        <3> QED
            BY <1>2, <1>3, <3>1, <3>2
    <2> QED
        BY <2>1, <2>2, <2>3 DEF HistoryTypes
<1> HIDE DEF push, pop, event
<1>9. /\ queued_count' = n + (IF push THEN 1 ELSE 0) - (IF pop THEN 1 ELSE 0)
      /\ queued_count' \in Nat
    BY <1>1, <1>2 DEF Shifted
(* Entry i and what it follows, before the edge. *)
<1>10. ASSUME NEW i \in 1 .. queued_count' + 1, NEW k, k = IF pop THEN i + 1 ELSE i
       PROVE  /\ k <= n + 1 => Predecessor(i)' = Predecessor(k)
              /\ k > n + 1 => /\ push /\ k = n + 2 /\ i = queued_count' + 1
                              /\ Predecessor(i)' = next_sequence
    <2>1. k \in Nat /\ i \in Nat /\ i >= 1
        BY <1>2, <1>9, <1>10
    <2>2. CASE i = 1
        <3>1. Predecessor(i)' = taken_number'
            BY <2>2 DEF Predecessor
        <3>2. CASE pop
            <4>1. k = 2 /\ k - 1 = 1 /\ k <= n + 1
                BY <1>2, <1>10, <2>2, <3>2
            <4>2. Predecessor(k) = Entry(1).sequence
                BY <4>1 DEF Predecessor
            <4> QED
                BY <1>2, <1>4, <2>1, <3>1, <3>2, <4>1, <4>2
        <3>3. CASE ~pop
            <4>1. k = 1 /\ k <= n + 1
                BY <1>2, <1>10, <2>2, <3>3
            <4>2. Predecessor(k) = taken_number
                BY <4>1 DEF Predecessor
            <4> QED
                BY <1>2, <1>4, <2>1, <3>1, <3>3, <4>1, <4>2
        <3> QED
            BY <3>2, <3>3
    <2>3. CASE i # 1
        <3> DEFINE j == i - 1
                   m == IF pop THEN j + 1 ELSE j
        <3>1. j \in 1 .. queued_count' /\ m = k - 1 /\ m \in Nat /\ m >= 1
            BY <1>2, <1>9, <1>10, <2>1, <2>3
        <3>2. /\ m <= n => Entry(j)' = Entry(m)
              /\ m > n => push /\ m = n + 1 /\ Entry(j)' = event
            BY <1>1, <1>2, <3>1, Origin
        <3> HIDE DEF m
        <3>3. Predecessor(i)' = (Entry(j).sequence)'
            BY <2>1, <2>3 DEF Predecessor
        <3>4. k # 1 /\ Predecessor(k) = Entry(m).sequence
            BY <2>1, <3>1 DEF Predecessor
        <3>5. CASE m <= n
            <4>1. k <= n + 1
                BY <1>2, <2>1, <3>1, <3>5
            <4> QED
                BY <3>2, <3>3, <3>4, <3>5, <4>1, <1>2, <2>1
        <3>6. CASE ~(m <= n)
            <4>1. m > n
                BY <1>2, <3>1, <3>6
            <4>2. k = n + 2 /\ push
                BY <1>2, <2>1, <3>1, <3>2, <4>1
            <4>3. i = queued_count' + 1
                BY <1>2, <1>9, <1>10, <2>1, <4>2
            <4>4. Predecessor(i)' = next_sequence
                BY <1>7, <3>2, <3>3, <4>1
            <4> QED
                BY <1>2, <4>2, <4>3, <4>4
        <3> QED
            BY <3>5, <3>6
    <2> QED
        BY <2>2, <2>3
<1>11. ASSUME NEW i \in 1 .. queued_count'
       PROVE  Entry(i)'.sequence = Advanced(Predecessor(i)', Refusals(i)' + 1)
    <2> DEFINE k == IF pop THEN i + 1 ELSE i
    <2>1. /\ k \in Nat /\ k >= 1
          /\ k <= n => k \in 1 .. n /\ Entry(i)' = Entry(k)
          /\ k > n => push /\ k = n + 1 /\ Entry(i)' = event
        BY <1>1, <1>2, Origin
    <2>2. Refusals(i)' = IF k <= n THEN Refusals(k) ELSE refused_since
        BY RefusalsShift DEF pop
    <2>3. i \in 1 .. queued_count' + 1 /\ k <= n + 1
        BY <1>2, <1>9, <2>1
    <2> HIDE DEF k
    <2>4. Predecessor(i)' = Predecessor(k)
        BY <1>10, <2>3 DEF k
    <2>5. CASE k <= n
        BY <2>1, <2>2, <2>4, <2>5 DEF Gaps
    <2>6. CASE ~(k <= n)
        <3>1. k = n + 1 /\ Entry(i)'.sequence = next_sequence
            BY <1>2, <1>7, <2>1, <2>6
        <3>2. next_sequence = Advanced(Predecessor(k), refused_since + 1)
            BY <3>1 DEF Gaps
        <3> QED
            BY <2>2, <2>4, <2>6, <3>1, <3>2
    <2> QED
        BY <2>5, <2>6
<1>12. next_sequence' = Advanced(Predecessor(queued_count + 1)', refused_since' + 1)
    <2>0. PICK i \in Nat : i = queued_count' + 1
        BY <1>9
    <2>9. PICK k : k = IF pop THEN i + 1 ELSE i
        OBVIOUS
    <2> DEFINE last == Predecessor(n + 1)
    <2>1. /\ i \in 1 .. queued_count' + 1
          /\ push => k = n + 2
          /\ ~push => k = n + 1
        BY <1>2, <1>9, <2>0, <2>9
    <2>2. /\ push => Predecessor(i)' = next_sequence
          /\ ~push => Predecessor(i)' = last
        <3>1. /\ k <= n + 1 => Predecessor(i)' = Predecessor(k)
              /\ k > n + 1 => Predecessor(i)' = next_sequence
            BY <1>10, <2>1, <2>9
        <3> QED
            BY <1>2, <2>1, <3>1
    <2>3. next_sequence = Advanced(last, refused_since + 1)
        BY DEF Gaps
    <2>4. last \in 0 .. SEQUENCE_MAX
        <3>1. n + 1 # 1 => n + 1 - 1 \in 1 .. n /\ n + 1 - 1 = n
            BY <1>2
        <3> QED
            BY <1>2, <1>3, <1>6, <3>1 DEF Predecessor
    <2>5. Predecessor(queued_count + 1)' = Predecessor(i)'
        BY <2>0 DEF Predecessor, Entry
    <2> HIDE DEF last
    <2>6. CASE push
        <3>1. spike /\ refused_since' = 0 /\ Predecessor(i)' = next_sequence
            BY <1>2, <1>4, <2>2, <2>6
        <3> QED
            BY <1>5, <2>5, <3>1
    <2>7. CASE ~push /\ spike
        <3>1. refused_since' = Advanced(refused_since, 1) /\ Predecessor(i)' = last
              /\ next_sequence' = Advanced(next_sequence, 1)
            BY <1>4, <1>5, <2>2, <2>7
        <3>2. Advanced(Advanced(last, refused_since + 1), 1)
                = Advanced(last, Advanced(refused_since, 1) + 1)
            BY <1>2, <1>3, <2>4 DEF Advanced
        <3> QED
            BY <2>3, <2>5, <3>1, <3>2
    <2>8. CASE ~push /\ ~spike
        BY <1>4, <1>5, <2>2, <2>3, <2>5, <2>8
    <2> QED
        BY <2>6, <2>7, <2>8
<1> QED
    BY <1>8, <1>11, <1>12 DEF Gaps

(* Every spike takes a number, so until either runs out they count alike.  *)
LEMMA NumbersCountStep ==
    ASSUME Inv, NumbersCount, NEW spike \in BOOLEAN, NEW ready \in BOOLEAN,
           AdvanceIdentity(spike, ready), Account(spike, ready)
    PROVE  NumbersCount'
<1> SUFFICES ASSUME ~sequence_wrap_sticky', ~telemetry_saturation_sticky'
             PROVE  next_sequence' = generated_count'
    BY DEF NumbersCount
<1>1. next_sequence \in Nat /\ generated_count \in Nat
    BY Positive DEF Inv, TypeOK
<1>2. sequence_wrap_sticky' = (sequence_wrap_sticky \/ (spike /\ next_sequence = SEQUENCE_MAX))
    BY DEF AdvanceIdentity, TakesNumber
<1>3. telemetry_saturation_sticky' =
          \/ telemetry_saturation_sticky
          \/ spike /\ generated_count = TELEMETRY_MAX
          \/ PopEvent(ready) /\ accepted_count = TELEMETRY_MAX
          \/ DropEvent(spike, ready) /\ dropped_count = TELEMETRY_MAX
    BY DEF Account
<1>4. /\ ~sequence_wrap_sticky /\ (spike => next_sequence # SEQUENCE_MAX)
      /\ ~telemetry_saturation_sticky /\ (spike => generated_count # TELEMETRY_MAX)
    BY <1>2, <1>3, Zenon
<1>5. next_sequence = generated_count
    BY <1>4 DEF NumbersCount
<1>6. next_sequence' = IF spike THEN next_sequence + 1 ELSE next_sequence
    BY <1>4 DEF AdvanceIdentity, TakesNumber
<1>7. generated_count' = IF spike THEN generated_count + 1 ELSE generated_count
    BY <1>4 DEF Account, Counted
<1> QED
    BY <1>5, <1>6, <1>7

LEMMA HistoryEdge ==
    ASSUME Inv, RingInv, HistoryInv, rst_n, NEW sample \in Samples, NEW valid \in BOOLEAN,
           NEW ready \in BOOLEAN, Clock(sample, valid, ready), Remember(sample, valid, ready)
    PROVE  HistoryInv'
<1> DEFINE spike == SpikeGenerated(sample, valid)
<1>1. spike \in BOOLEAN
    BY DEF SpikeGenerated
<1>2. /\ MoveQueue(sample, spike, ready) /\ AdvanceIdentity(spike, ready)
      /\ Account(spike, ready)
    BY DEF Clock
<1>3. HistoryTypes /\ Gaps /\ NumbersCount
    BY DEF HistoryInv
<1>4. PICK s \in BOOLEAN : s = spike
    BY <1>1
<1>5. MoveQueue(sample, s, ready) /\ AdvanceIdentity(s, ready) /\ Account(s, ready)
    BY <1>2, <1>4
<1>6. s = SpikeGenerated(sample, valid)
    BY <1>4
<1> HIDE DEF spike
<1>7. HistoryTypes' /\ Gaps'
    BY <1>3, <1>5, <1>6, GapStep
<1>8. NumbersCount'
    BY <1>3, <1>5, NumbersCountStep
<1> QED
    BY <1>7, <1>8 DEF HistoryInv

(* A stream that starts over has lost nothing yet. *)
LEMMA HistoryFresh ==
    ASSUME queued_count = 0, next_sequence = 0, generated_count = 0,
           taken_number = SEQUENCE_MAX, refused_since = 0,
           refused_before = [slot \in Positions |-> 0]
    PROVE  HistoryInv
<1>1. HistoryTypes
    BY Positive DEF HistoryTypes
<1>2. Predecessor(queued_count + 1) = SEQUENCE_MAX
    BY DEF Predecessor
<1>3. next_sequence = Advanced(Predecessor(queued_count + 1), refused_since + 1)
    BY <1>2, Positive DEF Advanced
<1> QED
    BY <1>1, <1>3 DEF HistoryInv, Gaps, NumbersCount

LEMMA HistoryCleared == Cleared /\ Forget => HistoryInv'
<1> SUFFICES ASSUME Cleared, Forget PROVE HistoryInv'
    OBVIOUS
<1>1. /\ queued_count' = 0 /\ next_sequence' = 0 /\ generated_count' = 0
      /\ taken_number' = SEQUENCE_MAX /\ refused_since' = 0
      /\ refused_before' = [slot \in Positions |-> 0]
    BY DEF Cleared, Forget
<1>2. HistoryTypes'
    BY <1>1, Positive DEF HistoryTypes
<1>3. Predecessor(queued_count + 1)' = SEQUENCE_MAX
    BY <1>1 DEF Predecessor
<1>4. next_sequence' = Advanced(Predecessor(queued_count + 1)', refused_since' + 1)
    BY <1>1, <1>3, Positive DEF Advanced
<1> QED
    BY <1>1, <1>2, <1>4 DEF HistoryInv, Gaps, NumbersCount

LEMMA HistoryStays ==
    ASSUME HistoryInv, UNCHANGED regs, UNCHANGED history
    PROVE  HistoryInv'
BY DEF HistoryInv, HistoryTypes, Gaps, NumbersCount, Predecessor, Refusals, Entry, At,
       regs, ring, identity, telemetry, history

LEMMA HistoryStep == Inv /\ NumberInv /\ HistoryInv /\ draining \in BOOLEAN
                        /\ [CosimNext]_cosimVars => HistoryInv'
<1> SUFFICES ASSUME Inv, NumberInv, HistoryInv, draining \in BOOLEAN, [CosimNext]_cosimVars
             PROVE  HistoryInv'
    OBVIOUS
<1>0. RingInv
    BY DEF NumberInv
<1>1. CASE Cycle
    <2>1. PICK sample \in Samples, ready \in BOOLEAN :
              Clock(sample, ~draining, ready) /\ Remember(sample, ~draining, ready)
        BY <1>1 DEF Cycle
    <2>2. rst_n /\ (~draining) \in BOOLEAN
        BY <1>1 DEF Cycle
    <2> QED
        BY <1>0, <2>1, <2>2, HistoryEdge
<1>2. CASE StartDrain \/ Release \/ EndTrace \/ UNCHANGED cosimVars
    <2>1. UNCHANGED regs /\ UNCHANGED history
        BY <1>2 DEF StartDrain, Release, ReleaseReset, EndTrace, cosimVars, vars
    <2> QED
        BY <2>1, HistoryStays
<1>3. CASE RtlAlone
    <2>1. CASE EdgeAlone
        <3>1. PICK sample \in Samples, valid \in BOOLEAN, ready \in BOOLEAN :
                  /\ Clock(sample, valid, ready)
                  /\ IF rst_n THEN Remember(sample, valid, ready) ELSE Forget
            BY <2>1 DEF EdgeAlone
        <3>2. CASE rst_n
            BY <1>0, <3>1, <3>2, HistoryEdge
        <3>3. CASE ~rst_n
            BY <3>1, <3>3, HistoryCleared DEF Clock
        <3> QED
            BY <3>2, <3>3
    <2>2. CASE AssertReset /\ Forget
        BY <2>2, HistoryCleared DEF AssertReset
    <2>3. CASE ReleaseReset /\ UNCHANGED history
        BY <2>3, HistoryStays DEF ReleaseReset
    <2> QED
        BY <1>3, <2>1, <2>2, <2>3 DEF RtlAlone
<1> QED
    BY <1>1, <1>2, <1>3 DEF CosimNext

(* What a reader of the ring concludes from ticks and numbers is true: the *)
(* events are in the order they were generated, a number that is missing   *)
(* between two of them is a spike refused between the two, wraps and       *)
(* saturated counters included, and until those the numbers missing in all *)
(* are as many as dropped_count says.                                      *)
THEOREM NumbersAreHonest == CosimSpec => []NumbersTellTheLoss
<1>1. CosimInit => HistoryInv
    <2> SUFFICES ASSUME CosimInit PROVE HistoryInv
        OBVIOUS
    <2> QED
        BY HistoryFresh DEF CosimInit, Init
<1>2. CosimInv => Inv /\ NumberInv /\ draining \in BOOLEAN
    BY DEF CosimInv
<1>3. Inv /\ NumberInv /\ HistoryInv => NumbersTellTheLoss
    <2> SUFFICES ASSUME Inv, NumberInv, HistoryInv PROVE NumbersTellTheLoss
        OBVIOUS
    <2>1. /\ queued_count \in Nat /\ accepted_count \in Nat /\ dropped_count \in Nat
          /\ \A i \in 1 .. queued_count : Pending[i] = Entry(i)
        BY PendingFacts, Positive DEF NumberInv, Inv, TypeOK
    <2>2. IdentityIncreases
        BY <2>1 DEF IdentityIncreases, NumberInv, TickOrder, SequenceOrder
    <2>3. \A i \in 1 .. queued_count : PendingRefusals[i] = Refusals(i)
        <3>1. read_pointer \in Nat
            BY DEF Inv, TypeOK, Positions
        <3>2. \A i \in 1 .. queued_count : read_pointer + i - 1 = read_pointer + (i - 1)
            BY <2>1, <3>1
        <3> QED
            BY <3>2 DEF PendingRefusals, Refusals, At, Around
    <2>4. Gaps
        BY DEF HistoryInv
    <2>5. GapIsLoss
        <3>1. ASSUME NEW i \in 1 .. queued_count
              PROVE  Pending[i].sequence =
                        Advanced(IF i = 1 THEN taken_number ELSE Pending[i - 1].sequence,
                                 PendingRefusals[i] + 1)
            <4>1. Predecessor(i) = IF i = 1 THEN taken_number ELSE Pending[i - 1].sequence
                <5>1. i # 1 => i - 1 \in 1 .. queued_count
                    BY <2>1
                <5> QED
                    BY <2>1, <5>1 DEF Predecessor
            <4> QED
                BY <2>1, <2>3, <2>4, <4>1 DEF Gaps
        <3>2. Predecessor(queued_count + 1) = LastNumber
            <4>1. queued_count + 1 - 1 = queued_count
                BY <2>1
            <4>2. CASE queued_count = 0
                BY <4>2 DEF Predecessor, LastNumber
            <4>3. CASE queued_count # 0
                <5>1. queued_count + 1 # 1 /\ queued_count \in 1 .. queued_count
                    BY <2>1, <4>3
                <5> QED
                    BY <2>1, <4>1, <4>3, <5>1 DEF Predecessor, LastNumber
            <4> QED
                BY <4>2, <4>3
        <3> QED
            BY <2>4, <3>1, <3>2 DEF GapIsLoss, Gaps
    <2>6. MissingAreDropped
        BY <2>1 DEF MissingAreDropped, HistoryInv, NumbersCount, Inv, SpikesConserved
    <2> QED
        BY <2>2, <2>5, <2>6 DEF NumbersTellTheLoss
<1>4. CosimInv /\ HistoryInv /\ [CosimNext]_cosimVars => HistoryInv'
    BY <1>2, HistoryStep
<1>5. CosimSpec => []CosimInv
    BY CosimInitially, CosimStep, PTL DEF CosimSpec
<1> QED
    BY <1>1, <1>2, <1>3, <1>4, <1>5, PTL DEF CosimSpec

=============================================================================
