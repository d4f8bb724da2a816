------------------------------ MODULE MCLaneParts -----------------------------
(* The parts of the hardware lane that share no wire: the trigger fabric   *)
(* with its references, the ADC quantiser with its own, the synchroniser   *)
(* of a word that crosses between their clocks, and the FIFO that takes    *)
(* events across, here for what it must do eventually.  Each has its       *)
(* reset, so one of them is checked at a time while the others stay in it. *)
(*                                                                         *)
(* Spike counts and confidences lie one below and on their thresholds, and *)
(* the counts one above; samples are three-bit codes: both ends of the     *)
(* negative range, no signal, and the largest positive one.                *)
EXTENDS FabricCosim

CONSTANTS Samples, MAG_MODULUS, RATE_THRESHOLD, SPIKE_COUNTER_MAX,
          WordBits,
          DEPTH, POINTER_WIDTH, Events, NoEvent, TELEMETRY_MAX

VARIABLES
    clocked,                  \* the part whose clock runs
    adc_rst_n, rate_accumulator, pending, aer_address, aer_valid, adc_open, owed, overrun,
    adc_cycle_index, rate_reference, ref_accumulator, ref_pending, ref_valid, ref_address,
    generated, emitted, dropped,
    cdc_rst_n, async_in, meta_q, sync_out, moving, cdc_reference, exact, windows,
    src_rst_n, src_reset_meta, src_local_rst_n, write_binary, write_gray, full, memory,
    read_gray_src_meta, read_gray_src_sync, src_accepted_count, high_watermark,
    backpressure_sticky, telemetry_saturation_sticky,
    dst_rst_n, dst_reset_meta, dst_local_rst_n, read_binary, read_gray, empty,
    write_gray_dst_meta, write_gray_dst_sync, dst_accepted_count, underflow_request_sticky,
    dst_telemetry_saturation_sticky

Adc == INSTANCE AdcCosim WITH rst_n <- adc_rst_n, cycle_index <- adc_cycle_index
Cdc == INSTANCE CdcSynchroniser WITH rst_n <- cdc_rst_n, reference <- cdc_reference
Fifo == INSTANCE AsyncFifo

fabricVars == cosimVars
adcVars ==
    <<adc_rst_n, rate_accumulator, pending, aer_address, aer_valid, adc_open, owed, overrun,
      adc_cycle_index, rate_reference, ref_accumulator, ref_pending, ref_valid, ref_address,
      generated, emitted, dropped>>
cdcVars == <<cdc_rst_n, async_in, meta_q, sync_out, moving, cdc_reference, exact, windows>>
fifoVars ==
    <<src_rst_n, src_reset_meta, src_local_rst_n, write_binary, write_gray, full, memory,
      read_gray_src_meta, read_gray_src_sync, src_accepted_count, high_watermark,
      backpressure_sticky, telemetry_saturation_sticky,
      dst_rst_n, dst_reset_meta, dst_local_rst_n, read_binary, read_gray, empty,
      write_gray_dst_meta, write_gray_dst_sync, dst_accepted_count, underflow_request_sticky,
      dst_telemetry_saturation_sticky>>
laneVars == <<clocked, fabricVars, adcVars, cdcVars, fifoVars>>

ASSUME AdcParameters == Adc!QuantiserAssumption /\ Adc!TraceAssumption

MCSpikeCounts == SPIKE_THRESHOLD - 1 .. SPIKE_THRESHOLD + 1
MCConfidences == {CONFIDENCE_THRESHOLD_Q8_8 - 1, CONFIDENCE_THRESHOLD_Q8_8}
MCSamples == {-4, -1, 0, 3}

LaneInit ==
    /\ CosimInit /\ Adc!CosimInit /\ Cdc!CdcInit /\ Fifo!Init
    /\ clocked \in {"fabric", "adc", "cdc", "fifo"}
    /\ clocked # "cdc" => async_in = [b \in WordBits |-> FALSE]
    /\ clocked # "fabric" => in = [arm |-> FALSE, spike_count |-> SPIKE_THRESHOLD,
                                confidence_q8_8 |-> CONFIDENCE_THRESHOLD_Q8_8,
                                bank_ready |-> FALSE, safety_veto |-> TRUE]

OfFabric(A) == clocked = "fabric" /\ A /\ UNCHANGED <<clocked, adcVars, cdcVars, fifoVars>>
OfAdc(A) == clocked = "adc" /\ A /\ UNCHANGED <<clocked, fabricVars, cdcVars, fifoVars>>
OfCdc(A) == clocked = "cdc" /\ A /\ UNCHANGED <<clocked, fabricVars, adcVars, fifoVars>>
OfFifo(A) == clocked = "fifo" /\ A /\ UNCHANGED <<clocked, fabricVars, adcVars, cdcVars>>

LaneNext ==
    OfFabric(CosimNext) \/ OfAdc(Adc!CosimNext) \/ OfCdc(Cdc!CdcNext) \/ OfFifo(Fifo!Next)

LaneSpec == LaneInit /\ [][LaneNext]_laneVars

(* The clocks of the part that is checked run, and a sink that stalls      *)
(* comes back.  An edge of either clock of the FIFO may coincide with one  *)
(* of the other.                                                           *)
FairLaneSpec ==
    /\ LaneSpec
    /\ WF_laneVars(OfFabric(Cycle \/ EndTrace))
    /\ WF_laneVars(OfFabric(RtlAlone(ClockEdge)))
    /\ WF_laneVars(OfAdc(Adc!Cycle \/ Adc!EndTrace))
    /\ WF_laneVars(OfAdc(Adc!RtlAlone(Adc!TakingEdge)))
    /\ WF_laneVars(OfFifo(Fifo!SrcTick \/ Fifo!BothTick))
    /\ WF_laneVars(OfFifo(Fifo!DstTick \/ Fifo!BothTick))

(* Every spike the quantiser makes is emitted, presented or pending.       *)
SpikesConserved == Adc!SpikesConserved
(* The harness says: no event is lost while the AER bus stalls.            *)
NothingLostInStall == Adc!NothingLostInStall
(* After the acquisition window everything pending gets out.               *)
WindowDrains == Adc!WindowDrains
(* Both references of the quantiser agree with the RTL on every trace.     *)
AdcBitTrue == Adc!AdcBitTrue
(* What leaves the synchroniser was on its wires two edges ago.            *)
CrossesInTwoEdges == Cdc!CrossesInTwoEdges
(* Neither an event nor a writer is stuck at the FIFO.                     *)
NothingStuck == Fifo!NothingStuck
=============================================================================
