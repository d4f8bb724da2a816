--------------------------- MODULE CdcSynchroniser ---------------------------
(***************************************************************************)
(* hdl/src/aer/mif_aer_cdc_synchroniser.sv, one instance for every bit of  *)
(* a word that crosses into the trigger clock.  Its header admits a single *)
(* bit or a Gray-coded word: one bit moves at a time.                      *)
(*                                                                         *)
(* A bit that moves in the sampling window of an edge lets its first flop  *)
(* resolve to either level; the second flop always takes a resolved level. *)
(* The golden reference of tools/aer_cdc_synchroniser_reference.py runs    *)
(* beside it on the word every edge finds on the wires, and is compared as *)
(* cosim/aer_cdc_synchroniser.py compares; metastability is beyond it.     *)
(***************************************************************************)
CONSTANT WordBits

VARIABLES
    rst_n, async_in, meta_q, sync_out,
    moving,         \* the bits that moved since the last edge
    reference,      \* meta_q and sync_out of the golden reference
    exact,          \* history: no edge since reset met a moving bit
    windows         \* history: the words the wires had before the last edge
                    \* and before the one ahead of it

cdcVars == <<rst_n, async_in, meta_q, sync_out, moving, reference, exact, windows>>

Words == [WordBits -> BOOLEAN]
Low == [b \in WordBits |-> FALSE]

Cleared ==
    /\ meta_q' = Low /\ sync_out' = Low
    /\ reference' = [meta |-> Low, sync |-> Low]
    /\ exact' = TRUE /\ windows' = <<{Low}, {Low}>>

CdcInit ==
    /\ rst_n = FALSE /\ async_in \in Words /\ moving = {}
    /\ meta_q = Low /\ sync_out = Low
    /\ reference = [meta |-> Low, sync |-> Low]
    /\ exact = TRUE /\ windows = <<{Low}, {Low}>>

-----------------------------------------------------------------------------
(* The usage rule: at most one move between two edges, of a single bit.    *)
Move ==
    /\ moving = {}
    /\ \E b \in WordBits : async_in' = [async_in EXCEPT ![b] = ~@] /\ moving' = {b}
    /\ UNCHANGED <<rst_n, meta_q, sync_out, reference, exact, windows>>

(* What the sampling flops may resolve to.                                 *)
Sampled == {w \in Words : \A b \in WordBits \ moving : w[b] = async_in[b]}

(* Mutant: the output also follows the wire.                               *)
FlopsBypassed(level) ==
    /\ meta_q' = level
    /\ sync_out' = [b \in WordBits |-> meta_q[b] /\ level[b]]

Flops(level) ==
    meta_q' = level /\ sync_out' = meta_q

(* run_aer_cdc_synchroniser_reference, one cycle                           *)
ReferenceCycle == reference' = [meta |-> async_in, sync |-> reference.meta]

ClockEdge ==
    /\ rst_n
    /\ \E level \in Sampled : Flops(level)
    /\ ReferenceCycle
    /\ exact' = (exact /\ moving = {})
    /\ windows' = <<{async_in, [b \in WordBits |-> async_in[b] # (b \in moving)]}, windows[1]>>
    /\ moving' = {}
    /\ UNCHANGED <<rst_n, async_in>>

AssertReset == rst_n /\ rst_n' = FALSE /\ Cleared /\ UNCHANGED <<async_in, moving>>

ReleaseReset ==
    /\ ~rst_n /\ rst_n' = TRUE
    /\ UNCHANGED <<async_in, meta_q, sync_out, moving, reference, exact, windows>>

CdcNext == Move \/ ClockEdge \/ AssertReset \/ ReleaseReset

CdcSpec == CdcInit /\ [][CdcNext]_cdcVars

-----------------------------------------------------------------------------
(* The word that comes out is one the wires really had in the sampling     *)
(* window two edges ago: no mixture of two words, no glitch past the       *)
(* second flop, whatever the first flops resolved to.  Where no edge met a *)
(* moving bit the golden reference agrees to the bit.                      *)
CrossesInTwoEdges ==
    /\ meta_q \in windows[1] /\ sync_out \in windows[2]
    /\ exact => reference = [meta |-> meta_q, sync |-> sync_out]
=============================================================================
