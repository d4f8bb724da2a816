----------------------------- MODULE EventIngress -----------------------------
(***************************************************************************)
(* hdl/src/aer/mif_aer_event_ingress.sv: the event producer feeding the    *)
(* asynchronous FIFO.  Both sit on src_clk and share one source edge; the  *)
(* producer is reset by src_rst_n itself, the FIFO by the copy that its    *)
(* synchroniser releases two edges later.                                  *)
(*                                                                         *)
(* This module extends the FIFO, whose names it keeps, and instantiates    *)
(* the producer, whose registers take the names of the ingress ports.      *)
(***************************************************************************)
EXTENDS AsyncFifo

CONSTANTS Samples, MAG_MODULUS, RATE_THRESHOLD, PRODUCER_DEPTH,
          TICK_MODULUS, SEQUENCE_MAX

VARIABLES
    accumulator, event_mem, read_pointer, write_pointer,
    producer_queued_count, producer_high_watermark,
    source_tick, next_sequence, sequence_wrap_sticky, tick_wrapped,
    generated_count, producer_accepted_count, dropped_count,
    producer_overflow_sticky, producer_saturation_sticky

Producer == INSTANCE EventStream
    WITH FIFO_DEPTH <- PRODUCER_DEPTH, rst_n <- src_rst_n,
         queued_count <- producer_queued_count,
         high_watermark <- producer_high_watermark,
         accepted_count <- producer_accepted_count,
         overflow_sticky <- producer_overflow_sticky,
         telemetry_saturation_sticky <- producer_saturation_sticky

ASSUME WiringAssumption == Events = Producer!StreamEvents
(* The producer is built within its own bounds. *)
ASSUME ProducerAssumption ==
    Producer!StreamAssumption /\ Producer!WidthAssumption

producerRegs ==
    <<accumulator, event_mem, read_pointer, write_pointer,
      producer_queued_count, producer_high_watermark,
      source_tick, next_sequence, sequence_wrap_sticky, tick_wrapped,
      generated_count, producer_accepted_count, dropped_count,
      producer_overflow_sticky, producer_saturation_sticky>>
ingressVars == <<vars, producerRegs>>

IngressInit == Producer!Init /\ Init

-----------------------------------------------------------------------------
(* The producer's edge, its ready input wired to the FIFO.                 *)
ProducerClock(sample, adc_valid) ==
    Producer!Clock(sample, adc_valid, src_ready)

IngressSrcTick ==
    \E sample \in Samples, adc_valid \in BOOLEAN :
        /\ ProducerClock(sample, adc_valid)
        /\ SrcEdge(Producer!aer_valid, Producer!aer_event)

IngressDstTick ==
    /\ \E aer_ready \in BOOLEAN : DstEdge(aer_ready)
    /\ UNCHANGED producerRegs

IngressBothTick ==
    \E sample \in Samples, adc_valid, aer_ready \in BOOLEAN :
        /\ ProducerClock(sample, adc_valid)
        /\ BothEdges(Producer!aer_valid, Producer!aer_event, aer_ready)

IngressAssertResets == AssertResets /\ Producer!Cleared

IngressReleaseSrcReset == ReleaseSrcReset /\ UNCHANGED producerRegs

IngressReleaseDstReset == ReleaseDstReset /\ UNCHANGED producerRegs

IngressNext ==
    \/ IngressSrcTick \/ IngressDstTick \/ IngressBothTick
    \/ IngressAssertResets \/ IngressReleaseSrcReset \/ IngressReleaseDstReset

IngressSpec == IngressInit /\ [][IngressNext]_ingressVars

-----------------------------------------------------------------------------
(* End to end, a generated spike is delivered, counted as dropped, or in   *)
(* one of the two buffers.                                                 *)
EndToEndConserved ==
    (/\ ~producer_saturation_sticky
     /\ ~telemetry_saturation_sticky
     /\ ~dst_telemetry_saturation_sticky)
        => generated_count = dst_accepted_count + dropped_count
                                + producer_queued_count + Occupancy

(* A drop is always the FIFO's doing and on record: an epoch with a drop   *)
(* is an epoch in which the FIFO refused an event.  The producer must hold *)
(* the spikes of the two edges the FIFO's reset lags behind its own.       *)
DropMeansBackpressure ==
    PRODUCER_DEPTH >= 2 => (producer_overflow_sticky => backpressure_sticky)

(* Everything between generation and delivery, oldest first.               *)
InTransit == Contents \o Producer!Pending

(* The two buffers together are one queue of their summed capacity: the    *)
(* crossing neither loses, repeats nor reorders what the producer admits.  *)
IngressQueue == INSTANCE EventQueue
    WITH queue <- InTransit, Capacity <- PRODUCER_DEPTH + DEPTH,
         offered <- IF dst_valid THEN dst_event ELSE NoEvent
ImplementsIngressQueue == IngressQueue!Spec

(* The ledger of the whole ingress: nothing unaccounted for, and no drop   *)
(* without its cause on record.                                            *)
LossIsAccounted == EndToEndConserved /\ DropMeansBackpressure
=============================================================================
