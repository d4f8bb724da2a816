---------------------------- MODULE MCEventIngress ----------------------------
(* Samples of one threshold, so that every valid sample is a spike, and    *)
(* events told apart by their number alone, of which there are more than   *)
(* the two buffers hold.                                                   *)
EXTENDS EventIngress

MCSamples == {1}
MCEvents == [polarity : {-1, 1}, tick : {0}, sequence : 0 .. SEQUENCE_MAX]

(* Bound: a shot makes no more spikes than the producer can count.         *)
ShotIsCounted == ~producer_saturation_sticky'

MCIngressNext == IngressNext /\ ShotIsCounted
MCIngressSpec == IngressInit /\ [][MCIngressNext]_ingressVars
=============================================================================
