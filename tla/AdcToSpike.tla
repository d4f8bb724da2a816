------------------------------ MODULE AdcToSpike ------------------------------
(***************************************************************************)
(* hdl/src/sensors/adc_to_spike_quantiser.sv: an integrate-and-fire        *)
(* accumulator whose spikes wait in one saturating counter per polarity    *)
(* for a single ready/valid output register.  Positive spikes overtake     *)
(* negative ones; a spike that finds its counter full is lost in silence.  *)
(*                                                                         *)
(* Samples are q8_8_sample values.  The address of an event is its         *)
(* polarity: 1 is the base plus the positive offset, -1 the negative.      *)
(***************************************************************************)
EXTENDS Integers

CONSTANTS Samples, MAG_MODULUS, RATE_THRESHOLD,
          SPIKE_COUNTER_MAX     \* 2^SPIKE_COUNTER_WIDTH - 1

q8_8_magnitude(sample) == IF sample < 0 THEN -sample ELSE sample

QuantiserAssumption ==
    /\ RATE_THRESHOLD \in Nat \ {0} /\ SPIKE_COUNTER_MAX \in Nat \ {0}
    /\ MAG_MODULUS \in Nat /\ RATE_THRESHOLD < MAG_MODULUS
    /\ Samples \subseteq Int
    /\ \A s \in Samples : 2 * q8_8_magnitude(s) <= MAG_MODULUS

Polarities == {-1, 1}
Owable == SPIKE_COUNTER_MAX + 2

VARIABLES
    rst_n, rate_accumulator, pending, aer_address, aer_valid,
    adc_open,     \* the acquisition window; closed for good by the sensor
    owed,         \* history: spikes generated less events taken, up to Owable
    overrun       \* history: more was owed once than a counter holds

regs == <<rate_accumulator, pending, aer_address, aer_valid>>
ledger == <<owed, overrun>>
vars == <<rst_n, adc_open, regs, ledger>>

None == [p \in Polarities |-> 0]

TypeOK ==
    /\ rst_n \in BOOLEAN /\ adc_open \in BOOLEAN
    /\ rate_accumulator \in 0 .. MAG_MODULUS - 1
    /\ pending \in [Polarities -> 0 .. SPIKE_COUNTER_MAX]
    /\ aer_address \in Polarities /\ aer_valid \in BOOLEAN
    /\ owed \in [Polarities -> 0 .. Owable] /\ overrun \in BOOLEAN

Init ==
    /\ rst_n = FALSE /\ adc_open = TRUE
    /\ rate_accumulator = 0 /\ pending = None
    /\ aer_address = 1 /\ aer_valid = FALSE
    /\ owed = None /\ overrun = FALSE

-----------------------------------------------------------------------------
accumulator_with_sample(sample) ==
    (rate_accumulator + q8_8_magnitude(sample)) % MAG_MODULUS

spike_ready(sample, adc_valid) ==
    /\ adc_valid
    /\ q8_8_magnitude(sample) # 0
    /\ accumulator_with_sample(sample) >= RATE_THRESHOLD

PolarityOf(sample) == IF sample < 0 THEN -1 ELSE 1

Integrate(sample, adc_valid) ==
    rate_accumulator' =
        IF ~adc_valid THEN rate_accumulator
        ELSE IF spike_ready(sample, adc_valid)
        THEN accumulator_with_sample(sample) - RATE_THRESHOLD
        ELSE accumulator_with_sample(sample)

(* The counters once this edge's spike has joined them.                    *)
Queued(sample, adc_valid) ==
    IF /\ spike_ready(sample, adc_valid)
       /\ pending[PolarityOf(sample)] # SPIKE_COUNTER_MAX
    THEN [pending EXCEPT ![PolarityOf(sample)] = @ + 1]
    ELSE pending

(* Mutant: a waiting positive spike displaces a stalled event. *)
FreesAlways(aer_ready) == aer_ready \/ ~aer_valid \/ pending[1] > 0

Frees(aer_ready) == ~aer_valid \/ aer_ready

(* Mutant: negative spikes wait for a positive one. *)
PresentPositive(queued, aer_ready) ==
    IF ~Frees(aer_ready)
    THEN pending' = queued /\ UNCHANGED <<aer_address, aer_valid>>
    ELSE IF queued[1] # 0
    THEN /\ aer_address' = 1 /\ aer_valid' = TRUE
         /\ pending' = [queued EXCEPT ![1] = @ - 1]
    ELSE pending' = queued /\ aer_valid' = FALSE /\ UNCHANGED aer_address

(* The output register takes a positive spike before a negative one.       *)
Present(queued, aer_ready) ==
    IF ~Frees(aer_ready)
    THEN pending' = queued /\ UNCHANGED <<aer_address, aer_valid>>
    ELSE \/ /\ queued[1] # 0
            /\ aer_address' = 1 /\ aer_valid' = TRUE
            /\ pending' = [queued EXCEPT ![1] = @ - 1]
         \/ /\ queued[1] = 0 /\ queued[-1] # 0
            /\ aer_address' = -1 /\ aer_valid' = TRUE
            /\ pending' = [queued EXCEPT ![-1] = @ - 1]
         \/ /\ queued = None
            /\ pending' = queued /\ aer_valid' = FALSE
            /\ UNCHANGED aer_address

(* What the two ends of the lane see on one edge.                          *)
Observe(sample, adc_valid, aer_ready) ==
    LET spikes(p) == IF spike_ready(sample, adc_valid) /\ PolarityOf(sample) = p
                     THEN 1 ELSE 0
        taken(p) == IF aer_valid /\ aer_ready /\ aer_address = p THEN 1 ELSE 0
        due(p) == owed[p] + spikes(p) - taken(p)
    IN  /\ owed' = [p \in Polarities |-> IF due(p) < 0 THEN 0
                                         ELSE IF due(p) > Owable THEN Owable ELSE due(p)]
        /\ overrun' = (overrun \/ \E p \in Polarities : owed'[p] > SPIKE_COUNTER_MAX)

Cleared ==
    /\ rate_accumulator' = 0 /\ pending' = None
    /\ aer_address' = 1 /\ aer_valid' = FALSE
    /\ owed' = None /\ overrun' = FALSE

ClockWith(sample, adc_valid, aer_ready) ==
    /\ IF rst_n
       THEN /\ Integrate(sample, adc_valid)
            /\ Present(Queued(sample, adc_valid), aer_ready)
            /\ Observe(sample, adc_valid, aer_ready)
       ELSE Cleared
    /\ UNCHANGED <<rst_n, adc_open>>

ClockEdge ==
    \E sample \in Samples, adc_valid, aer_ready \in BOOLEAN :
        /\ adc_valid => adc_open
        /\ ClockWith(sample, adc_valid, aer_ready)

AssertReset == rst_n /\ rst_n' = FALSE /\ Cleared /\ UNCHANGED adc_open

ReleaseReset == ~rst_n /\ rst_n' = TRUE /\ UNCHANGED <<adc_open, regs, ledger>>

CloseAcquisition ==
    adc_open /\ adc_open' = FALSE /\ UNCHANGED <<rst_n, regs, ledger>>

Next == ClockEdge \/ AssertReset \/ ReleaseReset \/ CloseAcquisition

Spec == Init /\ [][Next]_vars

(* The clock runs, and a sink that stalls comes back.                      *)
TakingEdge ==
    \E sample \in Samples, adc_valid \in BOOLEAN :
        /\ adc_valid => adc_open
        /\ ClockWith(sample, adc_valid, TRUE)

FairSpec == Spec /\ WF_vars(TakingEdge)

-----------------------------------------------------------------------------
Presented(p) == IF aer_valid /\ aer_address = p THEN 1 ELSE 0

(* As long as no more is owed than a counter holds, every generated spike  *)
(* is delivered with its polarity, presented, or pending.                  *)
SpikesConserved ==
    ~overrun => \A p \in Polarities : owed[p] = pending[p] + Presented(p)

(* The claim of the formal harness: no address-event is lost when the      *)
(* downstream bus stalls, however long.                                    *)
NothingLostInStall ==
    \A p \in Polarities : owed[p] = pending[p] + Presented(p)

(* Once the acquisition has closed, everything still owed is delivered,    *)
(* unless a reset discards it.                                             *)
WindowDrains == ~adc_open ~> (pending = None /\ ~aer_valid)
=============================================================================
