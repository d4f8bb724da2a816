------------------------------- MODULE AdcCosim -------------------------------
(***************************************************************************)
(* The RTL of AdcToSpike in lockstep with the two references of            *)
(* tools/adc_to_spike_reference.py, as cosim/mif007_adc_to_spike.py runs   *)
(* them: the rate-code reference, which only counts, and the cycle-level   *)
(* model of the valid/ready queue.                                         *)
(*                                                                         *)
(* A trace is samples on consecutive edges, then drain edges without one;  *)
(* closing the acquisition starts the drain.  When the trace ends the      *)
(* references are put away and the RTL runs on with every input it can     *)
(* meet: gaps between samples, resets, a sink that stalls for long.        *)
(***************************************************************************)
EXTENDS AdcToSpike

CONSTANT MAX_CYCLES           \* length of the longest trace

TraceAssumption == MAX_CYCLES \in Nat

VARIABLES
    cycle_index,              \* MAX_CYCLES + 1 once the trace has ended
    rate_reference,           \* accumulator and spike_count of the rate code
    ref_accumulator, ref_pending, ref_valid, ref_address,
    generated, emitted, dropped

queueModel == <<ref_accumulator, ref_pending, ref_valid, ref_address>>
counts == <<generated, emitted, dropped>>
cosimVars == <<vars, cycle_index, rate_reference, queueModel, counts>>

CosimInit ==
    /\ Init /\ cycle_index = 0
    /\ rate_reference = [accumulator |-> 0, spike_count |-> 0]
    /\ ref_accumulator = 0 /\ ref_pending = None /\ ref_valid = FALSE /\ ref_address = 1
    /\ generated = 0 /\ emitted = 0 /\ dropped = 0

-----------------------------------------------------------------------------
(* run_adc_to_spike_reference, one sample.                                 *)
RateCode(sample) ==
    LET magnitude == q8_8_magnitude(sample)
        charge == rate_reference.accumulator + magnitude
        spike == charge >= RATE_THRESHOLD /\ magnitude > 0
    IN  rate_reference' =
            [accumulator |-> IF spike THEN charge - RATE_THRESHOLD ELSE charge,
             spike_count |-> rate_reference.spike_count + (IF spike THEN 1 ELSE 0)]

Fires(sample, adc_valid) ==
    LET magnitude == q8_8_magnitude(sample)
    IN  adc_valid /\ magnitude > 0 /\ ref_accumulator + magnitude >= RATE_THRESHOLD

(* Mutant: a spike that finds its counter full is not counted as dropped. *)
DropsSilently(sample, adc_valid) == FALSE

Drops(sample, adc_valid) ==
    Fires(sample, adc_valid) /\ ref_pending[PolarityOf(sample)] = SPIKE_COUNTER_MAX

(* _rtl_cycle: an accepted output frees the register, the sample joins its *)
(* counter, and a free register takes the next spike, positive ones first. *)
ReferenceCycle(sample, adc_valid, ready) ==
    LET fires == Fires(sample, adc_valid)
        drops == Drops(sample, adc_valid)
        queued == IF fires /\ ref_pending[PolarityOf(sample)] # SPIKE_COUNTER_MAX
                  THEN [ref_pending EXCEPT ![PolarityOf(sample)] = @ + 1]
                  ELSE ref_pending
        waiting == {p \in Polarities : queued[p] # 0}
        first == IF 1 \in waiting THEN 1 ELSE -1
        presents == (ready \/ ~ref_valid) /\ waiting # {}
    IN  /\ ref_accumulator' =
              ref_accumulator + (IF adc_valid THEN q8_8_magnitude(sample) ELSE 0)
                              - (IF fires THEN RATE_THRESHOLD ELSE 0)
        /\ ref_valid' = (presents \/ (ref_valid /\ ~ready))
        /\ ref_address' = IF presents THEN first ELSE ref_address
        /\ ref_pending' = IF presents THEN [queued EXCEPT ![first] = @ - 1] ELSE queued
        /\ generated' = generated + (IF fires THEN 1 ELSE 0)
        /\ emitted' = emitted + (IF presents THEN 1 ELSE 0)
        /\ dropped' = dropped + (IF drops THEN 1 ELSE 0)

Cycle ==
    /\ rst_n /\ cycle_index < MAX_CYCLES
    /\ cycle_index' = cycle_index + 1
    /\ \E sample \in Samples, ready \in BOOLEAN :
          /\ ClockWith(sample, adc_open, ready)
          /\ ReferenceCycle(sample, adc_open, ready)
          /\ IF adc_open THEN RateCode(sample) ELSE UNCHANGED rate_reference

StartDrain == rst_n /\ CloseAcquisition
              /\ UNCHANGED <<cycle_index, rate_reference, queueModel, counts>>

Release == ReleaseReset /\ UNCHANGED <<cycle_index, rate_reference, queueModel, counts>>

tracing == cycle_index <= MAX_CYCLES

EndTrace ==
    /\ cycle_index = MAX_CYCLES /\ cycle_index' = MAX_CYCLES + 1
    /\ rate_reference' = [accumulator |-> 0, spike_count |-> 0]
    /\ ref_accumulator' = 0 /\ ref_pending' = None /\ ref_valid' = FALSE /\ ref_address' = 1
    /\ generated' = 0 /\ emitted' = 0 /\ dropped' = 0
    /\ UNCHANGED vars

RtlAlone(A) ==
    ~tracing /\ A /\ UNCHANGED <<cycle_index, rate_reference, queueModel, counts>>

CosimNext == (tracing /\ (Cycle \/ StartDrain \/ Release)) \/ EndTrace \/ RtlAlone(Next)

CosimSpec == CosimInit /\ [][CosimNext]_cosimVars

-----------------------------------------------------------------------------
(* The claim of the reference: it models the SystemVerilog valid/ready     *)
(* queue exactly.                                                          *)
ModelsQueueExactly ==
    <<rate_accumulator, pending, aer_valid, aer_address>>
        = <<ref_accumulator, ref_pending, ref_valid, ref_address>>

bit_true == rate_reference.spike_count = emitted + dropped

(* With a threshold no single sample exceeds, the reference is the RTL,    *)
(* both references agree on the spikes, and the report calls a trace       *)
(* bit-true exactly when it was drained: nothing still waits for the sink. *)
AdcBitTrue ==
    tracing =>
    /\ ModelsQueueExactly
    /\ rate_reference = [accumulator |-> ref_accumulator, spike_count |-> generated]
    /\ bit_true <=> pending = None
=============================================================================
