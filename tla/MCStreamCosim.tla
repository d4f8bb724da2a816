---------------------------- MODULE MCStreamCosim ----------------------------
(* Three-bit samples: the most negative code, whose magnitude is a whole   *)
(* threshold as that of -32768 is in the default build, and one that       *)
(* leaves a residue.                                                       *)
EXTENDS StreamCosim

MCSamples == {-4, 3}
=============================================================================
