----------------------------- MODULE MCAsyncFifo -----------------------------
(* AsyncFifo with the smallest depth the RTL allows, and the facts about   *)
(* its Gray code at the default depth and two larger ones.                 *)
EXTENDS AsyncFifo

Gray(Depth, Width) == INSTANCE GrayCode
    WITH DEPTH <- Depth, POINTER_WIDTH <- Width

ASSUME DeeperGrayCodes ==
    Gray(8, 4)!GrayFacts /\ Gray(16, 5)!GrayFacts /\ Gray(32, 6)!GrayFacts
=============================================================================
