------------------------------- MODULE GrayCode -------------------------------
(***************************************************************************)
(* The pointer arithmetic and Gray code of hdl/src/aer/                    *)
(* mif_aer_async_fifo.sv.  A pointer is a number modulo 2 * DEPTH, a code  *)
(* word is a function from bit positions to BOOLEAN.                       *)
(*                                                                         *)
(* GrayFacts lists what the FIFO's argument needs of the code.  These are   *)
(* properties of the definitions below for every power of two; TLC         *)
(* evaluates them at each DEPTH a run uses and at those MCAsyncFifo names. *)
(***************************************************************************)
EXTENDS Integers, FiniteSets

CONSTANTS DEPTH,            \* entries of the FIFO
          POINTER_WIDTH     \* address bits plus the wrap bit

ASSUME DepthAssumption ==
    /\ DEPTH \in Nat /\ DEPTH >= 4
    /\ POINTER_WIDTH \in Nat /\ POINTER_WIDTH >= 3

Pointers == 0 .. 2 * DEPTH - 1
Slots == 0 .. DEPTH - 1
Bits == 0 .. POINTER_WIDTH - 1
Codes == [Bits -> BOOLEAN]

Wrap(n) == n % (2 * DEPTH)
Slot(p) == p % DEPTH
Distance(from, to) == (to - from) % (2 * DEPTH)

BitOf(n, i) == (n \div 2^i) % 2 = 1

ZeroCode == [i \in Bits |-> FALSE]

(* Plain binary on the wires: what a pointer sent without its Gray code    *)
(* looks like.  A mutant of binary_to_gray.                                *)
binary_unencoded == [p \in Pointers |-> [i \in Bits |-> BitOf(p, i)]]

binary_to_gray ==
    [p \in Pointers |-> [i \in Bits |-> BitOf(p, i) # BitOf(p, i + 1)]]

(* Each binary bit is the parity of the Gray bits at and above it.         *)
gray_to_binary ==
    [g \in Codes |->
        CHOOSE p \in Pointers : \A i \in Bits :
            BitOf(p, i) <=>
                Cardinality({j \in i .. POINTER_WIDTH - 1 : g[j]}) % 2 = 1]

(* The word a full write pointer must equal: the read pointer's with its   *)
(* two most significant bits inverted.                                     *)
TopTwoInverted(g) ==
    [i \in Bits |-> IF i >= POINTER_WIDTH - 2 THEN ~g[i] ELSE g[i]]

(* What a register that samples a word while it changes from g to h may    *)
(* hold: every bit that differs is caught before or after its change.      *)
Torn(g, h) ==
    IF g = h THEN {g}
    ELSE {c \in Codes : \A i \in Bits : c[i] = g[i] \/ c[i] = h[i]}

GrayFacts ==
    /\ 2^POINTER_WIDTH = 2 * DEPTH
    /\ binary_to_gray[0] = ZeroCode
    /\ \A p \in Pointers : gray_to_binary[binary_to_gray[p]] = p
    /\ \A p \in Pointers :
          LET g == binary_to_gray[p]
              h == binary_to_gray[Wrap(p + 1)]
          IN  Torn(g, h) = {g, h}
    /\ \A p, q \in Pointers :
          binary_to_gray[p] = TopTwoInverted(binary_to_gray[q])
              <=> p = Wrap(q + DEPTH)

ASSUME GrayAssumption == GrayFacts
=============================================================================
