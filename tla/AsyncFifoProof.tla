---------------------------- MODULE AsyncFifoProof ----------------------------
(***************************************************************************)
(* Proofs about AsyncFifo for every power-of-two depth.                    *)
(*                                                                         *)
(* The six pointers of the design, the two real ones and the four copies   *)
(* in the crossing registers, lie on a circle of 2 * DEPTH positions in    *)
(* the order                                                               *)
(*                                                                         *)
(*    source's copies of read <= read <= destination's copies of write     *)
(*                                    <= write <= DEPTH past the first     *)
(*                                                                         *)
(* which is ChainInv.  Every property follows from it: a stale copy only   *)
(* errs on the safe side.                                                  *)
(***************************************************************************)
EXTENDS AsyncFifo, SequenceTheorems, TLAPS

(* The pointers whose codes the crossing registers hold. *)
RS == gray_to_binary[read_gray_src_sync]
RM == gray_to_binary[read_gray_src_meta]
WS == gray_to_binary[write_gray_dst_sync]
WM == gray_to_binary[write_gray_dst_meta]

(* The pointers in circular order, all within DEPTH of the first. *)
Chain(rs, rm, r, ws, wm, w) ==
    Distance(rs, rm) + Distance(rm, r) + Distance(r, ws)
        + Distance(ws, wm) + Distance(wm, w) <= DEPTH

IsCode(g) == \E p \in Pointers : g = binary_to_gray[p]

(* What each side keeps for itself: its registers hold codes, and held in  *)
(* its local reset it keeps its reset values.                              *)
SrcInv ==
    /\ SrcTypeOK
    /\ write_gray = binary_to_gray[write_binary]
    /\ IsCode(read_gray_src_sync) /\ IsCode(read_gray_src_meta)
    /\ src_local_rst_n => src_reset_meta
    /\ src_reset_meta => src_rst_n
    /\ ~src_local_rst_n =>
          /\ write_binary = 0 /\ full = FALSE
          /\ read_gray_src_meta = ZeroCode /\ read_gray_src_sync = ZeroCode
          /\ src_accepted_count = 0 /\ high_watermark = 0
          /\ telemetry_saturation_sticky = FALSE

DstInv ==
    /\ DstTypeOK
    /\ read_gray = binary_to_gray[read_binary]
    /\ IsCode(write_gray_dst_sync) /\ IsCode(write_gray_dst_meta)
    /\ dst_local_rst_n => dst_reset_meta
    /\ dst_reset_meta => dst_rst_n
    /\ ~dst_local_rst_n =>
          /\ read_binary = 0 /\ empty = TRUE
          /\ write_gray_dst_meta = ZeroCode /\ write_gray_dst_sync = ZeroCode
          /\ dst_accepted_count = 0
          /\ dst_telemetry_saturation_sticky = FALSE

ChainInv == Chain(RS, RM, read_binary, WS, WM, write_binary)

(* The registered flags are sound for the copies that have moved on since. *)
FlagInv ==
    /\ ~full => Distance(RS, write_binary) < DEPTH
    /\ ~empty => Distance(read_binary, WS) > 0

CountInv ==
    /\ Distance(RS, write_binary) <= high_watermark
    /\ high_watermark <= DEPTH
    /\ AccountingConserves

Inv == SrcInv /\ DstInv /\ ChainInv /\ FlagInv /\ CountInv

(* One edge seen by the pointers: a side in its local reset holds, the     *)
(* other moves and samples a code.                                         *)
SrcHold ==
    /\ UNCHANGED <<write_binary, write_gray, full>>
    /\ UNCHANGED <<read_gray_src_meta, read_gray_src_sync>>
    /\ UNCHANGED <<src_accepted_count, high_watermark,
                   telemetry_saturation_sticky>>

SrcMove(wrote, code) ==
    /\ write_binary' \in {write_binary, Wrap(write_binary + 1)}
    /\ write_binary' # write_binary <=> wrote
    /\ wrote => ~full
    /\ write_gray' = binary_to_gray[write_binary']
    /\ full' \in BOOLEAN /\ (full' <=> Distance(RS, write_binary') = DEPTH)
    /\ read_gray_src_sync' = read_gray_src_meta /\ RS' = RM
    /\ read_gray_src_meta' = code
    /\ src_accepted_count' = src_accepted_count
          + (IF wrote /\ src_accepted_count # TELEMETRY_MAX THEN 1 ELSE 0)
    /\ telemetry_saturation_sticky' =
          (telemetry_saturation_sticky
             \/ (wrote /\ src_accepted_count = TELEMETRY_MAX))
    /\ high_watermark' \in {high_watermark, Distance(RS, write_binary')}
    /\ high_watermark' >= Distance(RS, write_binary')

DstHold ==
    /\ UNCHANGED <<read_binary, read_gray, empty>>
    /\ UNCHANGED <<write_gray_dst_meta, write_gray_dst_sync>>
    /\ UNCHANGED <<dst_accepted_count, dst_telemetry_saturation_sticky>>

DstMove(took, code) ==
    /\ read_binary' \in {read_binary, Wrap(read_binary + 1)}
    /\ read_binary' # read_binary <=> took
    /\ took => ~empty
    /\ read_gray' = binary_to_gray[read_binary']
    /\ empty' \in BOOLEAN /\ (empty' <=> read_binary' = WS)
    /\ write_gray_dst_sync' = write_gray_dst_meta /\ WS' = WM
    /\ write_gray_dst_meta' = code
    /\ dst_accepted_count' = dst_accepted_count
          + (IF took /\ dst_accepted_count # TELEMETRY_MAX THEN 1 ELSE 0)
    /\ dst_telemetry_saturation_sticky' =
          (dst_telemetry_saturation_sticky
             \/ (took /\ dst_accepted_count = TELEMETRY_MAX))

-----------------------------------------------------------------------------
(* Arithmetic on the circle, free of the modulus. *)

(* The distance between two pointers is a pointer, given by one case       *)
(* distinction (the truncated subtraction of the estimate ports).          *)
LEMMA DistanceCases ==
    ASSUME NEW a \in Pointers, NEW b \in Pointers
    PROVE  /\ a \in Nat /\ b \in Nat /\ DEPTH \in Nat /\ DEPTH >= 4
           /\ a < 2 * DEPTH /\ b < 2 * DEPTH
           /\ Distance(a, b) \in Pointers /\ Distance(a, b) \in Nat
           /\ Distance(a, b) < 2 * DEPTH
           /\ b >= a => Distance(a, b) = b - a
           /\ b < a => Distance(a, b) = b - a + 2 * DEPTH
<1> DEFINE M == 2 * DEPTH
<1>1. M \in Nat /\ M > 0 /\ a \in 0 .. M - 1 /\ b \in 0 .. M - 1
    BY DepthAssumption DEF Pointers
<1>2. b - a \in Int /\ b - a < M /\ b - a >= -M
    BY <1>1
<1> HIDE DEF M
<1>3. (b - a) % M \in 0 .. M - 1
    BY <1>1, <1>2
<1>4. b >= a => (b - a) % M = b - a
    BY <1>1, <1>2
<1>5. b < a => (b - a) % M = b - a + M
    BY <1>1, <1>2
<1>6. Distance(a, b) = (b - a) % M
    BY DEF Distance, M
<1>7. a \in Nat /\ b \in Nat /\ DEPTH \in Nat /\ DEPTH >= 4
    BY DepthAssumption DEF Pointers
<1> QED
    BY <1>1, <1>3, <1>4, <1>5, <1>6, <1>7 DEF Pointers, M

(* Incrementing a pointer stays on the circle (the truncated addition).    *)
LEMMA WrapCases ==
    ASSUME NEW p \in Pointers
    PROVE  /\ Wrap(p + 1) \in Pointers
           /\ p = 2 * DEPTH - 1 => Wrap(p + 1) = 0
           /\ p < 2 * DEPTH - 1 => Wrap(p + 1) = p + 1
<1> DEFINE M == 2 * DEPTH
<1>1. M \in Nat /\ M > 1 /\ p \in 0 .. M - 1
    BY DepthAssumption DEF Pointers
<1> HIDE DEF M
<1>2. p = M - 1 => (p + 1) % M = 0
    BY <1>1
<1>3. p < M - 1 => (p + 1) % M = p + 1
    BY <1>1
<1> QED
    BY <1>1, <1>2, <1>3 DEF Wrap, Pointers, M

(* The pointer DEPTH ahead of q is the one at distance DEPTH from it.      *)
LEMMA WrapDepth ==
    ASSUME NEW p \in Pointers, NEW q \in Pointers
    PROVE  p = Wrap(q + DEPTH) <=> Distance(q, p) = DEPTH
<1> DEFINE M == 2 * DEPTH
<1>1. /\ DEPTH \in Nat /\ DEPTH >= 4
      /\ p \in 0 .. 2 * DEPTH - 1 /\ q \in 0 .. 2 * DEPTH - 1
      /\ M \in Nat /\ M > 1 /\ M = 2 * DEPTH
    BY DepthAssumption DEF Pointers
<1> HIDE DEF M
<1>2. q + DEPTH < M => (q + DEPTH) % M = q + DEPTH
    BY <1>1
<1>3. q + DEPTH >= M => (q + DEPTH) % M = q + DEPTH - M
    BY <1>1
<1>4. Wrap(q + DEPTH) = (q + DEPTH) % M
    BY DEF Wrap, M
<1>5. /\ p >= q => Distance(q, p) = p - q
      /\ p < q => Distance(q, p) = p - q + M
    BY <1>1, DistanceCases
<1> QED
    BY <1>1, <1>2, <1>3, <1>4, <1>5

(* Distances along an arc shorter than the circle add up.                  *)
LEMMA DistanceAdds ==
    ASSUME NEW a \in Pointers, NEW b \in Pointers, NEW c \in Pointers,
           Distance(a, b) + Distance(b, c) < 2 * DEPTH
    PROVE  Distance(a, c) = Distance(a, b) + Distance(b, c)
<1>1. /\ a \in Nat /\ b \in Nat /\ c \in Nat /\ DEPTH \in Nat
      /\ a < 2 * DEPTH /\ b < 2 * DEPTH /\ c < 2 * DEPTH
    BY DistanceCases
<1>2. /\ b >= a => Distance(a, b) = b - a
      /\ b < a => Distance(a, b) = b - a + 2 * DEPTH
    BY DistanceCases
<1>3. /\ c >= b => Distance(b, c) = c - b
      /\ c < b => Distance(b, c) = c - b + 2 * DEPTH
    BY DistanceCases
<1>4. /\ c >= a => Distance(a, c) = c - a
      /\ c < a => Distance(a, c) = c - a + 2 * DEPTH
    BY DistanceCases
<1> QED
    BY <1>1, <1>2, <1>3, <1>4

(* A pointer's step lengthens the way to it and shortens the way from it.  *)
LEMMA DistanceSteps ==
    ASSUME NEW p \in Pointers, NEW q \in Pointers
    PROVE  /\ Distance(q, q) = 0
           /\ Distance(p, Wrap(p + 1)) = 1
           /\ Distance(q, p) < 2 * DEPTH - 1
                 => Distance(q, Wrap(p + 1)) = Distance(q, p) + 1
           /\ Distance(p, q) > 0
                 => Distance(Wrap(p + 1), q) = Distance(p, q) - 1
<1> DEFINE s == Wrap(p + 1)
<1>1. /\ s \in Pointers
      /\ p = 2 * DEPTH - 1 => s = 0
      /\ p < 2 * DEPTH - 1 => s = p + 1
    BY WrapCases
<1> HIDE DEF s
<1>2. /\ p \in Nat /\ q \in Nat /\ s \in Nat /\ DEPTH \in Nat /\ DEPTH >= 4
      /\ p < 2 * DEPTH /\ q < 2 * DEPTH /\ s < 2 * DEPTH
    BY <1>1, DistanceCases
<1>3. Distance(q, q) = 0
    BY <1>2, DistanceCases
<1>4. /\ s >= p => Distance(p, s) = s - p
      /\ s < p => Distance(p, s) = s - p + 2 * DEPTH
    BY <1>1, DistanceCases
<1>5. /\ p >= q => Distance(q, p) = p - q
      /\ p < q => Distance(q, p) = p - q + 2 * DEPTH
    BY DistanceCases
<1>6. /\ s >= q => Distance(q, s) = s - q
      /\ s < q => Distance(q, s) = s - q + 2 * DEPTH
    BY <1>1, DistanceCases
<1>7. /\ q >= p => Distance(p, q) = q - p
      /\ q < p => Distance(p, q) = q - p + 2 * DEPTH
    BY DistanceCases
<1>8. /\ q >= s => Distance(s, q) = q - s
      /\ q < s => Distance(s, q) = q - s + 2 * DEPTH
    BY <1>1, DistanceCases
<1>9. Distance(p, s) = 1
    BY <1>1, <1>2, <1>4
<1>10. Distance(q, p) < 2 * DEPTH - 1 => Distance(q, s) = Distance(q, p) + 1
    BY <1>1, <1>2, <1>5, <1>6
<1>11. Distance(p, q) > 0 => Distance(s, q) = Distance(p, q) - 1
    BY <1>1, <1>2, <1>7, <1>8
<1> QED
    BY <1>3, <1>9, <1>10, <1>11 DEF s

(* Where a step of the two pointers, to r2 and w2, and of the copies, to   *)
(* rm2 and wm2, leaves the chain: when both sides move, when only the      *)
(* source does and when only the destination does.                         *)
Stepped(rs, rm, rm2, r, r2, ws, wm, wm2, w, w2) ==
    /\ Chain(rm, rm2, r2, wm, wm2, w2)
    /\ Chain(rm, r, r, ws, wm, w2)
    /\ Chain(rs, rm, r2, wm, w, w)
    /\ Distance(rs, w2) <= DEPTH
    /\ Distance(rm, w2) <= Distance(rs, w2)
    /\ Distance(r2, ws) <= Distance(r2, wm)
    /\ Distance(w, w2) = IF w2 = w THEN 0 ELSE 1
    /\ Distance(r, r2) = IF r2 = r THEN 0 ELSE 1
    /\ Distance(r2, w2) = Distance(r, w) + Distance(w, w2) - Distance(r, r2)

(* The step of the chain when both clocks tick, when only the source's     *)
(* does and when only the destination's does.  A crossing copy takes the   *)
(* pointer of the other side before or after its own step.                 *)
LEMMA ChainStep ==
    ASSUME NEW rs \in Pointers, NEW rm \in Pointers, NEW r \in Pointers,
           NEW ws \in Pointers, NEW wm \in Pointers, NEW w \in Pointers,
           NEW r2 \in {r, Wrap(r + 1)}, NEW rm2 \in {r, r2},
           NEW w2 \in {w, Wrap(w + 1)}, NEW wm2 \in {w, w2},
           Chain(rs, rm, r, ws, wm, w),
           r2 # r => Distance(r, ws) > 0,
           w2 # w => Distance(rs, w) < DEPTH
    PROVE  Stepped(rs, rm, rm2, r, r2, ws, wm, wm2, w, w2)
<1>1. r2 \in Pointers /\ w2 \in Pointers /\ rm2 \in Pointers /\ wm2 \in Pointers
    BY WrapCases
<1>2. /\ DEPTH \in Nat /\ DEPTH >= 4
      /\ \A a, b \in Pointers : Distance(a, b) \in Nat
    BY DepthAssumption, DistanceCases
<1>3. /\ Distance(rs, rm) + Distance(rm, r) + Distance(r, ws)
            + Distance(ws, wm) + Distance(wm, w) <= DEPTH
      /\ Distance(rs, w) = Distance(rs, rm) + Distance(rm, w)
      /\ Distance(rm, w) = Distance(rm, r) + Distance(r, w)
      /\ Distance(r, w) = Distance(r, ws) + Distance(ws, w)
      /\ Distance(ws, w) = Distance(ws, wm) + Distance(wm, w)
      /\ Distance(r, wm) = Distance(r, ws) + Distance(ws, wm)
    <2>1. Distance(rs, rm) + Distance(rm, r) + Distance(r, ws)
            + Distance(ws, wm) + Distance(wm, w) <= DEPTH
        BY DEF Chain
    <2>2. Distance(ws, w) = Distance(ws, wm) + Distance(wm, w)
        BY <1>2, <2>1, DistanceAdds
    <2>3. Distance(r, w) = Distance(r, ws) + Distance(ws, w)
        BY <1>2, <2>1, <2>2, DistanceAdds
    <2>4. Distance(rm, w) = Distance(rm, r) + Distance(r, w)
        BY <1>2, <2>1, <2>2, <2>3, DistanceAdds
    <2>5. Distance(rs, w) = Distance(rs, rm) + Distance(rm, w)
        BY <1>2, <2>1, <2>2, <2>3, <2>4, DistanceAdds
    <2>6. Distance(r, wm) = Distance(r, ws) + Distance(ws, wm)
        BY <1>2, <2>1, DistanceAdds
    <2> QED
        BY <2>1, <2>2, <2>3, <2>4, <2>5, <2>6
<1>4. /\ Distance(w, w2) \in {0, 1}
      /\ Distance(wm, w2) = Distance(wm, w) + Distance(w, w2)
      /\ Distance(wm, wm2) + Distance(wm2, w2) = Distance(wm, w2)
      /\ Distance(rs, w) + Distance(w, w2) <= DEPTH
    <2>1. CASE w2 = w
        BY <1>1, <1>2, <1>3, <2>1, DistanceSteps
    <2>2. CASE w2 # w
        <3>1. w2 = Wrap(w + 1) /\ Distance(rs, w) < DEPTH
            BY <2>2
        <3>2. Distance(w, w2) = 1 /\ Distance(w, w) = 0 /\ Distance(w2, w2) = 0
            BY <1>1, <3>1, DistanceSteps
        <3>3. Distance(wm, w) < 2 * DEPTH - 1
            BY <1>2, <1>3
        <3>4. Distance(wm, w2) = Distance(wm, w) + 1
            BY <3>1, <3>3, DistanceSteps
        <3> QED
            BY <1>2, <3>1, <3>2, <3>4
    <2> QED
        BY <2>1, <2>2
<1>5. /\ Distance(r, r2) \in {0, 1}
      /\ Distance(r, r2) + Distance(r2, ws) = Distance(r, ws)
      /\ Distance(r, r2) + Distance(r2, wm) = Distance(r, wm)
      /\ Distance(rm, r2) = Distance(rm, r) + Distance(r, r2)
      /\ Distance(rm, rm2) + Distance(rm2, r2) = Distance(rm, r2)
    <2>1. CASE r2 = r
        BY <1>1, <1>2, <1>3, <2>1, DistanceSteps
    <2>2. CASE r2 # r
        <3>1. r2 = Wrap(r + 1) /\ Distance(r, ws) > 0 /\ Distance(r, wm) > 0
            BY <1>2, <1>3, <2>2
        <3>2. Distance(r, r2) = 1 /\ Distance(r, r) = 0 /\ Distance(r2, r2) = 0
            BY <1>1, <3>1, DistanceSteps
        <3>3. Distance(rm, r) < 2 * DEPTH - 1
            BY <1>2, <1>3
        <3>4. Distance(rm, r2) = Distance(rm, r) + 1
            BY <3>1, <3>3, DistanceSteps
        <3>5. /\ Distance(r2, ws) = Distance(r, ws) - 1
              /\ Distance(r2, wm) = Distance(r, wm) - 1
            BY <3>1, DistanceSteps
        <3> QED
            BY <1>2, <3>2, <3>4, <3>5
    <2> QED
        BY <2>1, <2>2
<1>6. Distance(r, r) = 0 /\ Distance(w, w) = 0
    BY DistanceSteps
<1>7. Chain(rm, r, r, ws, wm, w2)
    BY <1>1, <1>2, <1>3, <1>4, <1>6 DEF Chain
<1>8. Chain(rs, rm, r2, wm, w, w)
    BY <1>1, <1>2, <1>3, <1>5, <1>6 DEF Chain
<1>9. Chain(rm, rm2, r2, wm, wm2, w2)
    BY <1>1, <1>2, <1>3, <1>4, <1>5 DEF Chain
<1>10. /\ Distance(w, w2) = IF w2 = w THEN 0 ELSE 1
       /\ Distance(r, r2) = IF r2 = r THEN 0 ELSE 1
    BY DistanceSteps
<1>11. /\ Distance(rs, w2) = Distance(rs, w) + Distance(w, w2)
       /\ Distance(rm, w2) = Distance(rm, w) + Distance(w, w2)
       /\ Distance(r, w2) = Distance(r, w) + Distance(w, w2)
    BY <1>1, <1>2, <1>3, <1>4, DistanceAdds
<1>12. Distance(r, w2) = Distance(r, r2) + Distance(r2, w2)
    <2>1. Distance(r2, w) = Distance(r2, ws) + Distance(ws, w)
        BY <1>1, <1>2, <1>3, <1>5, DistanceAdds
    <2>2. Distance(r2, w2) = Distance(r2, w) + Distance(w, w2)
        BY <1>1, <1>2, <1>3, <1>4, <1>5, <2>1, DistanceAdds
    <2> QED
        BY <1>1, <1>2, <1>3, <1>4, <1>5, <1>11, <2>1, <2>2
<1>13. Distance(r2, ws) <= Distance(r2, wm)
    BY <1>1, <1>2, <1>3, <1>5
<1>14. Distance(rs, w2) <= DEPTH /\ Distance(rm, w2) <= Distance(rs, w2)
    BY <1>1, <1>2, <1>3, <1>4, <1>11
<1>15. Distance(r2, w2) = Distance(r, w) + Distance(w, w2) - Distance(r, r2)
    BY <1>1, <1>2, <1>11, <1>12
<1> QED
    BY <1>7, <1>8, <1>9, <1>10, <1>13, <1>14, <1>15 DEF Stepped

-----------------------------------------------------------------------------
(* The Gray code seen through GrayFacts. *)

LEMMA CodeFacts ==
    ASSUME NEW p \in Pointers
    PROVE  binary_to_gray[p] \in Codes /\ gray_to_binary[binary_to_gray[p]] = p
<1>1. binary_to_gray[p] = [i \in Bits |-> BitOf(p, i) # BitOf(p, i + 1)]
    BY DEF binary_to_gray
<1>2. binary_to_gray[p] \in Codes
    BY <1>1 DEF Codes
<1> QED
    BY <1>2, GrayAssumption DEF GrayFacts

LEMMA ZeroFacts ==
    /\ 0 \in Pointers /\ ZeroCode = binary_to_gray[0] /\ IsCode(ZeroCode)
    /\ gray_to_binary[ZeroCode] = 0
<1>1. 0 \in Pointers
    BY DepthAssumption DEF Pointers
<1> QED
    BY <1>1, CodeFacts, GrayAssumption DEF GrayFacts, IsCode

(* A word sampled while its pointer steps is the code from before or after *)
(* the step, never a third one.                                            *)
LEMMA TornStep ==
    ASSUME NEW p \in Pointers, NEW q \in {p, Wrap(p + 1)},
           NEW code \in Torn(binary_to_gray[p], binary_to_gray[q])
    PROVE  code = binary_to_gray[p] \/ code = binary_to_gray[q]
<1>1. CASE q = p
    BY <1>1 DEF Torn
<1>2. CASE q # p
    BY <1>2, GrayAssumption DEF GrayFacts
<1> QED
    BY <1>1, <1>2

(* Every crossing register holds the code of one pointer.                  *)
LEMMA CopyFacts ==
    ASSUME SrcInv, DstInv
    PROVE  /\ RS \in Pointers /\ read_gray_src_sync = binary_to_gray[RS]
           /\ RM \in Pointers /\ read_gray_src_meta = binary_to_gray[RM]
           /\ WS \in Pointers /\ write_gray_dst_sync = binary_to_gray[WS]
           /\ WM \in Pointers /\ write_gray_dst_meta = binary_to_gray[WM]
           /\ write_binary \in Pointers /\ read_binary \in Pointers
    BY CodeFacts DEF SrcTypeOK, DstTypeOK, SrcInv, DstInv, IsCode, RS, RM, WS, WM

(* The two registered comparisons, in terms of pointers.                   *)
LEMMA FlagFacts ==
    ASSUME SrcInv, DstInv, NEW p \in Pointers
    PROVE  /\ Full(p) <=> Distance(RS, p) = DEPTH
           /\ Empty(p) <=> p = WS
<1>1. Full(p) <=> binary_to_gray[p] = TopTwoInverted(binary_to_gray[RS])
    BY CopyFacts DEF Full, PointerCode
<1>2. Full(p) <=> Distance(RS, p) = DEPTH
    BY <1>1, CopyFacts, WrapDepth, GrayAssumption DEF GrayFacts
<1>3. Empty(p) <=> binary_to_gray[p] = binary_to_gray[WS]
    BY CopyFacts DEF Empty, PointerCode
<1> QED
    BY <1>2, <1>3, CopyFacts, CodeFacts

-----------------------------------------------------------------------------
(* One edge of one side, as a step of its pointers. *)

LEMMA SrcHolds ==
    ASSUME SrcInv, NEW valid \in BOOLEAN, NEW event \in Events, NEW code,
           SrcAdvance(valid, event), SrcSample(code), ~src_local_rst_n
    PROVE  SrcHold
<1>1. SrcRegistersCleared /\ SrcCrossingCleared
    BY DEF SrcAdvance, SrcSample
<1>2. write_gray = ZeroCode
    BY ZeroFacts DEF SrcInv
<1> QED
    BY <1>1, <1>2 DEF SrcRegistersCleared, SrcCrossingCleared, SrcInv, SrcHold

LEMMA DstHolds ==
    ASSUME DstInv, NEW ready \in BOOLEAN, NEW code,
           DstAdvance(ready), DstSample(code), ~dst_local_rst_n
    PROVE  DstHold
<1>1. DstRegistersCleared /\ DstCrossingCleared
    BY DEF DstAdvance, DstSample
<1>2. read_gray = ZeroCode
    BY ZeroFacts DEF DstInv
<1> QED
    BY <1>1, <1>2 DEF DstRegistersCleared, DstCrossingCleared, DstInv, DstHold

LEMMA SrcMoves ==
    ASSUME SrcInv, DstInv,
           NEW valid \in BOOLEAN, NEW event \in Events, NEW code,
           SrcAdvance(valid, event), SrcSample(code), src_local_rst_n
    PROVE  SrcMove(write_event(valid), code)
<1>1. SrcWrite(valid, event) /\ SrcAccount(valid)
    BY DEF SrcAdvance
<1>2. write_binary \in Pointers /\ Wrap(write_binary + 1) # write_binary
      /\ Wrap(write_binary + 1) \in Pointers
    BY CopyFacts, DistanceSteps, WrapCases
<1>3. write_binary' = WriteNext(valid) /\ write_binary' \in Pointers
    BY <1>1, <1>2 DEF SrcWrite, WriteNext
<1>4. write_binary' # write_binary <=> write_event(valid)
    BY <1>2, <1>3 DEF WriteNext
<1>5. write_gray' = binary_to_gray[write_binary'] /\ full' = Full(write_binary')
    BY <1>1, <1>3 DEF SrcWrite, PointerCode
<1>6. full' \in BOOLEAN /\ (full' <=> Distance(RS, write_binary') = DEPTH)
    BY <1>3, <1>5, FlagFacts DEF Full
<1>7. /\ read_gray_src_sync' = read_gray_src_meta /\ RS' = RM
      /\ read_gray_src_meta' = code
    BY DEF SrcSample, RS, RM
<1>8. QueuedNext(valid) = Distance(RS, write_binary')
    BY <1>3 DEF QueuedNext, read_binary_src_sync, RS
<1>9. Distance(RS, write_binary') \in Nat /\ high_watermark \in Nat
    BY <1>3, CopyFacts, DistanceCases DEF SrcInv, SrcTypeOK, Pointers
<1>10. high_watermark' = IF Distance(RS, write_binary') > high_watermark
                         THEN Distance(RS, write_binary') ELSE high_watermark
    BY <1>1, <1>8 DEF SrcAccount
<1>11. src_accepted_count \in Nat
    BY FifoAssumption DEF SrcInv, SrcTypeOK
<1>12. src_accepted_count' = src_accepted_count
          + (IF write_event(valid) /\ src_accepted_count # TELEMETRY_MAX
             THEN 1 ELSE 0)
    BY <1>1, <1>11 DEF SrcAccount, Saturated
<1>13. telemetry_saturation_sticky' =
          (telemetry_saturation_sticky
             \/ (write_event(valid) /\ src_accepted_count = TELEMETRY_MAX))
    BY <1>1 DEF SrcAccount
<1>14. write_event(valid) => ~full
    BY DEF write_event, src_ready
<1> QED
    BY <1>2, <1>3, <1>4, <1>5, <1>6, <1>7, <1>9, <1>10, <1>12, <1>13, <1>14
    DEF WriteNext, SrcMove

LEMMA DstMoves ==
    ASSUME SrcInv, DstInv, NEW ready \in BOOLEAN, NEW code,
           DstAdvance(ready), DstSample(code), dst_local_rst_n
    PROVE  DstMove(read_event(ready), code)
<1>1. DstRead(ready) /\ DstAccount(ready)
    BY DEF DstAdvance
<1>2. read_binary \in Pointers /\ Wrap(read_binary + 1) # read_binary
      /\ Wrap(read_binary + 1) \in Pointers
    BY CopyFacts, DistanceSteps, WrapCases
<1>3. read_binary' = ReadNext(ready) /\ read_binary' \in Pointers
    BY <1>1, <1>2 DEF DstRead, ReadNext
<1>4. read_binary' # read_binary <=> read_event(ready)
    BY <1>2, <1>3 DEF ReadNext
<1>5. read_gray' = binary_to_gray[read_binary'] /\ empty' = Empty(read_binary')
    BY <1>1, <1>3 DEF DstRead, PointerCode
<1>6. empty' \in BOOLEAN /\ (empty' <=> read_binary' = WS)
    BY <1>3, <1>5, FlagFacts DEF Empty
<1>7. /\ write_gray_dst_sync' = write_gray_dst_meta /\ WS' = WM
      /\ write_gray_dst_meta' = code
    BY DEF DstSample, WS, WM
<1>8. dst_accepted_count \in Nat
    BY FifoAssumption DEF DstInv, DstTypeOK
<1>9. dst_accepted_count' = dst_accepted_count
          + (IF read_event(ready) /\ dst_accepted_count # TELEMETRY_MAX
             THEN 1 ELSE 0)
    BY <1>1, <1>8 DEF DstAccount, Saturated
<1>10. dst_telemetry_saturation_sticky' =
          (dst_telemetry_saturation_sticky
             \/ (read_event(ready) /\ dst_accepted_count = TELEMETRY_MAX))
    BY <1>1 DEF DstAccount
<1>11. read_event(ready) => ~empty
    BY DEF read_event, dst_valid
<1> QED
    BY <1>2, <1>3, <1>4, <1>5, <1>6, <1>7, <1>9, <1>10, <1>11 DEF ReadNext, DstMove

-----------------------------------------------------------------------------
(* Each side preserves what it keeps for itself. *)

LEMMA SrcPreserves ==
    ASSUME Inv, NEW valid \in BOOLEAN, NEW event \in Events, NEW code,
           IsCode(code), SrcAdvance(valid, event), SrcSample(code),
           UNCHANGED src_rst_n
    PROVE  SrcInv'
<1>1. SrcInv /\ DstInv
    BY DEF Inv
<1>2. SrcResetEdge
    BY DEF SrcAdvance
<1>3. CASE src_local_rst_n
    <2>1. SrcMove(write_event(valid), code)
        BY <1>1, <1>3, SrcMoves
    <2>2. write_binary' \in Pointers /\ write_gray' \in Codes
        BY <1>1, <2>1, CopyFacts, WrapCases, CodeFacts DEF SrcMove
    <2>3. high_watermark' \in Pointers
        <3>1. RS \in Pointers /\ high_watermark \in Pointers
            BY <1>1, CopyFacts DEF SrcInv, SrcTypeOK
        <3>2. Distance(RS, write_binary') \in Pointers
            BY <2>2, <3>1, DistanceCases
        <3>3. high_watermark' \in {high_watermark, Distance(RS, write_binary')}
            BY <2>1 DEF SrcMove
        <3> QED
            BY <3>1, <3>2, <3>3
    <2>4. src_accepted_count' \in 0 .. TELEMETRY_MAX
        BY <1>1, <2>1, FifoAssumption DEF SrcMove, SrcInv, SrcTypeOK
    <2>5. SrcWrite(valid, event) /\ SrcAccount(valid)
        BY <1>3 DEF SrcAdvance
    <2>6. memory' \in [Slots -> Events \cup {NoEvent}]
        BY <1>1, <2>5 DEF SrcWrite, SrcInv, SrcTypeOK
    <2>7. backpressure_sticky' \in BOOLEAN /\ telemetry_saturation_sticky' \in BOOLEAN
        BY <1>1, <2>5 DEF SrcAccount, SrcInv, SrcTypeOK
    <2>8. code \in Codes
        BY CodeFacts DEF IsCode
    <2>9. src_local_rst_n' /\ src_reset_meta' /\ src_rst_n'
        BY <1>1, <1>2, <1>3 DEF SrcResetEdge, SrcInv
    <2>10. SrcTypeOK'
        BY <1>1, <1>2, <2>1, <2>2, <2>3, <2>4, <2>6, <2>7, <2>8, <2>9
        DEF SrcMove, SrcInv, SrcTypeOK, SrcResetEdge
    <2> QED
        BY <1>1, <2>1, <2>9, <2>10 DEF SrcMove, SrcInv, IsCode
<1>4. CASE ~src_local_rst_n
    <2>1. SrcHold
        BY <1>1, <1>4, SrcHolds
    <2>2. SrcRegistersCleared
        BY <1>4 DEF SrcAdvance
    <2>3. SrcTypeOK'
        BY <1>1, <1>2, <2>1, <2>2
        DEF SrcHold, SrcRegistersCleared, SrcInv, SrcTypeOK, SrcResetEdge
    <2> QED
        BY <1>1, <1>2, <1>4, <2>1, <2>3
        DEF SrcHold, SrcInv, SrcTypeOK, SrcResetEdge, IsCode
<1> QED
    BY <1>3, <1>4

LEMMA DstPreserves ==
    ASSUME Inv, NEW ready \in BOOLEAN, NEW code,
           IsCode(code), DstAdvance(ready), DstSample(code),
           UNCHANGED dst_rst_n
    PROVE  DstInv'
<1>1. SrcInv /\ DstInv
    BY DEF Inv
<1>2. DstResetEdge
    BY DEF DstAdvance
<1>3. CASE dst_local_rst_n
    <2>1. DstMove(read_event(ready), code)
        BY <1>1, <1>3, DstMoves
    <2>2. read_binary' \in Pointers /\ read_gray' \in Codes
        BY <1>1, <2>1, CopyFacts, WrapCases, CodeFacts DEF DstMove
    <2>3. dst_accepted_count' \in 0 .. TELEMETRY_MAX
        BY <1>1, <2>1, FifoAssumption DEF DstMove, DstInv, DstTypeOK
    <2>4. DstAccount(ready)
        BY <1>3 DEF DstAdvance
    <2>5. /\ underflow_request_sticky' \in BOOLEAN
          /\ dst_telemetry_saturation_sticky' \in BOOLEAN
        BY <1>1, <2>4 DEF DstAccount, DstInv, DstTypeOK
    <2>6. code \in Codes
        BY CodeFacts DEF IsCode
    <2>7. dst_local_rst_n' /\ dst_reset_meta' /\ dst_rst_n'
        BY <1>1, <1>2, <1>3 DEF DstResetEdge, DstInv
    <2>8. DstTypeOK'
        BY <1>1, <1>2, <2>1, <2>2, <2>3, <2>5, <2>6, <2>7
        DEF DstMove, DstInv, DstTypeOK, DstResetEdge
    <2> QED
        BY <1>1, <2>1, <2>7, <2>8 DEF DstMove, DstInv, IsCode
<1>4. CASE ~dst_local_rst_n
    <2>1. DstHold
        BY <1>1, <1>4, DstHolds
    <2>2. DstRegistersCleared
        BY <1>4 DEF DstAdvance
    <2>3. DstTypeOK'
        BY <1>1, <1>2, <2>1, <2>2
        DEF DstHold, DstRegistersCleared, DstInv, DstTypeOK, DstResetEdge
    <2> QED
        BY <1>1, <1>2, <1>4, <2>1, <2>3
        DEF DstHold, DstInv, DstTypeOK, DstResetEdge, IsCode
<1> QED
    BY <1>3, <1>4

LEMMA SrcStays ==
    ASSUME SrcInv, UNCHANGED <<src_rst_n, srcRegs>>
    PROVE  SrcInv' /\ SrcHold
    BY DEF srcRegs, srcReset, srcPointers, srcCrossing, srcTelemetry,
           SrcInv, SrcTypeOK, SrcHold, IsCode

LEMMA DstStays ==
    ASSUME DstInv, UNCHANGED <<dst_rst_n, dstRegs>>
    PROVE  DstInv' /\ DstHold
    BY DEF dstRegs, dstReset, dstPointers, dstCrossing, dstTelemetry,
           DstInv, DstTypeOK, DstHold, IsCode

-----------------------------------------------------------------------------
(* What relates the two sides survives every combination of a side that    *)
(* moves and a side that holds.                                            *)

JointInv == ChainInv /\ FlagInv /\ CountInv

LEMMA BothMove ==
    ASSUME Inv, NEW wrote \in BOOLEAN, NEW took \in BOOLEAN,
           NEW c \in {read_gray, read_gray'}, NEW d \in {write_gray, write_gray'},
           SrcMove(wrote, c), DstMove(took, d)
    PROVE  JointInv'
<1> DEFINE w == write_binary
           r == read_binary
           w2 == write_binary'
           r2 == read_binary'
<1>1. SrcInv /\ DstInv /\ ChainInv /\ FlagInv /\ CountInv
    BY DEF Inv
<1>2. /\ RS \in Pointers /\ RM \in Pointers /\ WS \in Pointers /\ WM \in Pointers
      /\ w \in Pointers /\ r \in Pointers
    BY <1>1, CopyFacts
<1>3. /\ w2 \in {w, Wrap(w + 1)} /\ r2 \in {r, Wrap(r + 1)}
      /\ w2 \in Pointers /\ r2 \in Pointers
    BY <1>2, WrapCases DEF SrcMove, DstMove
<1>4. RS' = RM /\ WS' = WM
    BY DEF SrcMove, DstMove
<1>5. RM' \in {r, r2} /\ WM' \in {w, w2}
    <2>1. /\ read_gray = binary_to_gray[r] /\ write_gray = binary_to_gray[w]
          /\ read_gray' = binary_to_gray[r2] /\ write_gray' = binary_to_gray[w2]
        BY <1>1 DEF SrcInv, DstInv, SrcMove, DstMove
    <2>2. read_gray_src_meta' = c /\ write_gray_dst_meta' = d
        BY DEF SrcMove, DstMove
    <2>3. RM' = gray_to_binary[c] /\ WM' = gray_to_binary[d]
        BY <2>2 DEF RM, WM
    <2> QED
        BY <1>2, <1>3, <2>1, <2>3, CodeFacts
<1>6. (w2 # w => Distance(RS, w) < DEPTH) /\ (r2 # r => Distance(r, WS) > 0)
    BY <1>1 DEF FlagInv, SrcMove, DstMove
<1>7. /\ Chain(RM, RM', r2, WM, WM', w2)
      /\ Distance(RS, w2) <= DEPTH
      /\ Distance(RM, w2) <= Distance(RS, w2)
      /\ Distance(r2, WS) <= Distance(r2, WM)
      /\ Distance(w, w2) = IF w2 = w THEN 0 ELSE 1
      /\ Distance(r, r2) = IF r2 = r THEN 0 ELSE 1
      /\ Distance(r2, w2) = Distance(r, w) + Distance(w, w2) - Distance(r, r2)
    <2>1. Chain(RS, RM, r, WS, WM, w)
        BY <1>1 DEF ChainInv
    <2> DEFINE rs == RS  rm == RM  ws == WS  wm == WM  rm2 == RM'  wm2 == WM'
    <2>2. /\ rs \in Pointers /\ rm \in Pointers /\ ws \in Pointers /\ wm \in Pointers
          /\ r2 \in {r, Wrap(r + 1)} /\ rm2 \in {r, r2}
          /\ w2 \in {w, Wrap(w + 1)} /\ wm2 \in {w, w2}
          /\ w \in Pointers /\ r \in Pointers
          /\ Chain(rs, rm, r, ws, wm, w)
          /\ r2 # r => Distance(r, ws) > 0
          /\ w2 # w => Distance(rs, w) < DEPTH
        BY <1>2, <1>3, <1>5, <1>6, <2>1
    <2> HIDE DEF w, r, w2, r2, rs, rm, ws, wm, rm2, wm2
    <2>3. Stepped(rs, rm, rm2, r, r2, ws, wm, wm2, w, w2)
        BY <2>2, ChainStep, SMTT(60)
    <2> QED
        BY <2>3 DEF Stepped, rs, rm, ws, wm, rm2, wm2
<1>8. DEPTH \in Nat /\ \A a, b \in Pointers : Distance(a, b) \in Nat
    BY DepthAssumption, DistanceCases
<1>9. ChainInv'
    BY <1>4, <1>7 DEF ChainInv
<1>10. FlagInv'
    <2>1. ~full' => Distance(RM, w2) < DEPTH
        BY <1>2, <1>3, <1>7, <1>8 DEF SrcMove
    <2>2. ~empty' => Distance(r2, WM) > 0
        <3>1. r2 # WS => Distance(r2, WS) > 0
            BY <1>2, <1>3, DistanceCases
        <3> QED
            BY <1>2, <1>3, <1>7, <1>8, <3>1 DEF DstMove
    <2>3. Distance(RS', w2) = Distance(RM, w2) /\ Distance(r2, WS') = Distance(r2, WM)
        BY <1>4
    <2> QED
        BY <2>1, <2>2, <2>3 DEF FlagInv
<1>11. CountInv'
    <2>1. Distance(RM, w2) <= high_watermark' /\ high_watermark' <= DEPTH
        <3>1. high_watermark \in Nat /\ high_watermark <= DEPTH
            BY <1>1 DEF CountInv, SrcInv, SrcTypeOK, Pointers
        <3>2. /\ high_watermark' \in {high_watermark, Distance(RS, w2)}
              /\ high_watermark' >= Distance(RS, w2)
            BY DEF SrcMove
        <3> QED
            BY <1>2, <1>3, <1>7, <1>8, <3>1, <3>2
    <2>2. AccountingConserves'
        <3>1. src_accepted_count \in Nat /\ dst_accepted_count \in Nat
            BY <1>1 DEF SrcInv, DstInv, SrcTypeOK, DstTypeOK
        <3>2. /\ Distance(w, w2) = IF wrote THEN 1 ELSE 0
              /\ Distance(r, r2) = IF took THEN 1 ELSE 0
            BY <1>7 DEF SrcMove, DstMove
        <3>3. SUFFICES ASSUME ~telemetry_saturation_sticky',
                              ~dst_telemetry_saturation_sticky'
                       PROVE  src_accepted_count' = dst_accepted_count' + Distance(r2, w2)
            BY DEF AccountingConserves, Occupancy
        <3>4. src_accepted_count = dst_accepted_count + Distance(r, w)
            BY <1>1, <3>3
            DEF CountInv, AccountingConserves, Occupancy, SrcMove, DstMove
        <3>5. src_accepted_count' = src_accepted_count + Distance(w, w2)
            BY <3>1, <3>2, <3>3 DEF SrcMove
        <3>6. dst_accepted_count' = dst_accepted_count + Distance(r, r2)
            BY <3>1, <3>2, <3>3 DEF DstMove
        <3> QED
            BY <1>2, <1>3, <1>7, <1>8, <3>1, <3>4, <3>5, <3>6
    <2>3. Distance(RS', w2) = Distance(RM, w2)
        BY <1>4
    <2> QED
        BY <2>1, <2>2, <2>3 DEF CountInv
<1> QED
    BY <1>9, <1>10, <1>11 DEF JointInv

LEMMA SrcMovesAlone ==
    ASSUME Inv, NEW wrote \in BOOLEAN, SrcMove(wrote, read_gray), DstHold
    PROVE  JointInv'
<1> DEFINE w == write_binary
           r == read_binary
           w2 == write_binary'
<1>1. SrcInv /\ DstInv /\ ChainInv /\ FlagInv /\ CountInv
    BY DEF Inv
<1>2. /\ RS \in Pointers /\ RM \in Pointers /\ WS \in Pointers /\ WM \in Pointers
      /\ w \in Pointers /\ r \in Pointers
    BY <1>1, CopyFacts
<1>3. w2 \in {w, Wrap(w + 1)} /\ w2 \in Pointers
    BY <1>2, WrapCases DEF SrcMove
<1>4. RS' = RM /\ WS' = WS /\ WM' = WM /\ read_binary' = r
    BY DEF SrcMove, DstHold, WS, WM
<1>5. RM' = r
    BY <1>1, <1>2, CodeFacts DEF SrcMove, DstInv, RM
<1>6. w2 # w => Distance(RS, w) < DEPTH
    BY <1>1 DEF FlagInv, SrcMove
<1>7. /\ Chain(RM, r, r, WS, WM, w2)
      /\ Distance(RS, w2) <= DEPTH
      /\ Distance(RM, w2) <= Distance(RS, w2)
      /\ Distance(w, w2) = IF w2 = w THEN 0 ELSE 1
      /\ Distance(r, w2) = Distance(r, w) + Distance(w, w2)
    <2> DEFINE rs == RS  rm == RM  ws == WS  wm == WM
    <2>1. /\ rs \in Pointers /\ rm \in Pointers /\ ws \in Pointers /\ wm \in Pointers
          /\ w2 \in {w, Wrap(w + 1)}
          /\ w \in Pointers /\ r \in Pointers
          /\ Chain(rs, rm, r, ws, wm, w)
          /\ w2 # w => Distance(rs, w) < DEPTH
        BY <1>1, <1>2, <1>3, <1>6 DEF ChainInv
    <2> HIDE DEF w, r, w2, rs, rm, ws, wm
    <2>2. Stepped(rs, rm, r, r, r, ws, wm, w, w, w2)
        BY <2>1, ChainStep, SMTT(60)
    <2>3. Distance(r, r) = 0 /\ Distance(r, w) \in Nat /\ Distance(w, w2) \in Nat
        BY <1>3, <2>1, DistanceSteps, DistanceCases
    <2>4. Distance(r, w2) = Distance(r, w) + Distance(w, w2)
        BY <2>2, <2>3 DEF Stepped
    <2> QED
        BY <2>2, <2>4 DEF Stepped, rs, rm, ws, wm
<1>8. DEPTH \in Nat /\ \A a, b \in Pointers : Distance(a, b) \in Nat
    BY DepthAssumption, DistanceCases
<1>9. ChainInv'
    BY <1>4, <1>5, <1>7 DEF ChainInv
<1>10. FlagInv'
    <2>1. ~full' => Distance(RM, w2) < DEPTH
        BY <1>2, <1>3, <1>7, <1>8 DEF SrcMove
    <2>2. ~empty' => Distance(r, WS) > 0
        BY <1>1 DEF FlagInv, DstHold
    <2>3. /\ Distance(RS', w2) = Distance(RM, w2)
          /\ Distance(read_binary', WS') = Distance(r, WS)
        BY <1>4
    <2> QED
        BY <2>1, <2>2, <2>3 DEF FlagInv
<1>11. CountInv'
    <2>1. Distance(RM, w2) <= high_watermark' /\ high_watermark' <= DEPTH
        <3>1. high_watermark \in Nat /\ high_watermark <= DEPTH
            BY <1>1 DEF CountInv, SrcInv, SrcTypeOK, Pointers
        <3>2. /\ high_watermark' \in {high_watermark, Distance(RS, w2)}
              /\ high_watermark' >= Distance(RS, w2)
            BY DEF SrcMove
        <3> QED
            BY <1>2, <1>3, <1>7, <1>8, <3>1, <3>2
    <2>2. AccountingConserves'
        <3>1. src_accepted_count \in Nat /\ dst_accepted_count \in Nat
            BY <1>1 DEF SrcInv, DstInv, SrcTypeOK, DstTypeOK
        <3>2. Distance(w, w2) = IF wrote THEN 1 ELSE 0
            BY <1>7 DEF SrcMove
        <3>3. SUFFICES ASSUME ~telemetry_saturation_sticky',
                              ~dst_telemetry_saturation_sticky'
                       PROVE  src_accepted_count' = dst_accepted_count' + Distance(r, w2)
            BY <1>4 DEF AccountingConserves, Occupancy
        <3>4. src_accepted_count = dst_accepted_count + Distance(r, w)
            BY <1>1, <3>3
            DEF CountInv, AccountingConserves, Occupancy, SrcMove, DstHold
        <3>5. src_accepted_count' = src_accepted_count + Distance(w, w2)
            BY <3>1, <3>2, <3>3 DEF SrcMove
        <3>6. dst_accepted_count' = dst_accepted_count
            BY DEF DstHold
        <3> QED
            BY <1>2, <1>3, <1>7, <1>8, <3>1, <3>4, <3>5, <3>6
    <2>3. Distance(RS', w2) = Distance(RM, w2)
        BY <1>4
    <2> QED
        BY <2>1, <2>2, <2>3 DEF CountInv
<1> QED
    BY <1>9, <1>10, <1>11 DEF JointInv

LEMMA DstMovesAlone ==
    ASSUME Inv, NEW took \in BOOLEAN, DstMove(took, write_gray), SrcHold
    PROVE  JointInv'
<1> DEFINE w == write_binary
           r == read_binary
           r2 == read_binary'
<1>1. SrcInv /\ DstInv /\ ChainInv /\ FlagInv /\ CountInv
    BY DEF Inv
<1>2. /\ RS \in Pointers /\ RM \in Pointers /\ WS \in Pointers /\ WM \in Pointers
      /\ w \in Pointers /\ r \in Pointers
    BY <1>1, CopyFacts
<1>3. r2 \in {r, Wrap(r + 1)} /\ r2 \in Pointers
    BY <1>2, WrapCases DEF DstMove
<1>4. RS' = RS /\ RM' = RM /\ WS' = WM /\ write_binary' = w
    BY DEF DstMove, SrcHold, RS, RM
<1>5. WM' = w
    BY <1>1, <1>2, CodeFacts DEF DstMove, SrcInv, WM
<1>6. r2 # r => Distance(r, WS) > 0
    BY <1>1 DEF FlagInv, DstMove
<1>7. /\ Chain(RS, RM, r2, WM, w, w)
      /\ Distance(r2, WS) <= Distance(r2, WM)
      /\ Distance(r, r2) = IF r2 = r THEN 0 ELSE 1
      /\ Distance(r2, w) = Distance(r, w) - Distance(r, r2)
    <2> DEFINE rs == RS  rm == RM  ws == WS  wm == WM
    <2>1. /\ rs \in Pointers /\ rm \in Pointers /\ ws \in Pointers /\ wm \in Pointers
          /\ r2 \in {r, Wrap(r + 1)}
          /\ w \in Pointers /\ r \in Pointers
          /\ Chain(rs, rm, r, ws, wm, w)
          /\ r2 # r => Distance(r, ws) > 0
        BY <1>1, <1>2, <1>3, <1>6 DEF ChainInv
    <2> HIDE DEF w, r, r2, rs, rm, ws, wm
    <2>2. Stepped(rs, rm, r, r, r2, ws, wm, w, w, w)
        BY <2>1, ChainStep, SMTT(60)
    <2>3. Distance(w, w) = 0 /\ Distance(r, w) \in Nat /\ Distance(r, r2) \in Nat
        BY <1>3, <2>1, DistanceSteps, DistanceCases
    <2>4. Distance(r2, w) = Distance(r, w) - Distance(r, r2)
        BY <2>2, <2>3 DEF Stepped
    <2> QED
        BY <2>2, <2>4 DEF Stepped, rs, rm, ws, wm
<1>8. DEPTH \in Nat /\ \A a, b \in Pointers : Distance(a, b) \in Nat
    BY DepthAssumption, DistanceCases
<1>9. ChainInv'
    BY <1>4, <1>5, <1>7 DEF ChainInv
<1>10. FlagInv'
    <2>1. ~full' => Distance(RS, w) < DEPTH
        BY <1>1 DEF FlagInv, SrcHold
    <2>2. ~empty' => Distance(r2, WM) > 0
        <3>1. r2 # WS => Distance(r2, WS) > 0
            BY <1>2, <1>3, DistanceCases
        <3> QED
            BY <1>2, <1>3, <1>7, <1>8, <3>1 DEF DstMove
    <2>3. /\ Distance(RS', write_binary') = Distance(RS, w)
          /\ Distance(r2, WS') = Distance(r2, WM)
        BY <1>4
    <2> QED
        BY <2>1, <2>2, <2>3 DEF FlagInv
<1>11. CountInv'
    <2>1. Distance(RS', write_binary') <= high_watermark' /\ high_watermark' <= DEPTH
        BY <1>1, <1>4 DEF CountInv, SrcHold
    <2>2. AccountingConserves'
        <3>1. src_accepted_count \in Nat /\ dst_accepted_count \in Nat
            BY <1>1 DEF SrcInv, DstInv, SrcTypeOK, DstTypeOK
        <3>2. Distance(r, r2) = IF took THEN 1 ELSE 0
            BY <1>7 DEF DstMove
        <3>3. SUFFICES ASSUME ~telemetry_saturation_sticky',
                              ~dst_telemetry_saturation_sticky'
                       PROVE  src_accepted_count' = dst_accepted_count' + Distance(r2, w)
            BY <1>4 DEF AccountingConserves, Occupancy
        <3>4. src_accepted_count = dst_accepted_count + Distance(r, w)
            BY <1>1, <3>3
            DEF CountInv, AccountingConserves, Occupancy, SrcHold, DstMove
        <3>5. src_accepted_count' = src_accepted_count
            BY DEF SrcHold
        <3>6. dst_accepted_count' = dst_accepted_count + Distance(r, r2)
            BY <3>1, <3>2, <3>3 DEF DstMove
        <3> QED
            BY <1>2, <1>3, <1>7, <1>8, <3>1, <3>4, <3>5, <3>6
    <2> QED
        BY <2>1, <2>2 DEF CountInv
<1> QED
    BY <1>9, <1>10, <1>11 DEF JointInv

LEMMA BothHold ==
    ASSUME Inv, SrcHold, DstHold
    PROVE  JointInv'
    BY DEF Inv, SrcHold, DstHold, JointInv, ChainInv, FlagInv, CountInv,
           AccountingConserves, Occupancy, RS, RM, WS, WM

-----------------------------------------------------------------------------
(* The initial states and the shot boundary: everything is zero.           *)

LEMMA Cleared ==
    ASSUME SrcTypeOK, DstTypeOK,
           write_binary = 0, write_gray = ZeroCode, full = FALSE,
           read_gray_src_meta = ZeroCode, read_gray_src_sync = ZeroCode,
           src_accepted_count = 0, high_watermark = 0,
           telemetry_saturation_sticky = FALSE, src_reset_meta = FALSE,
           src_local_rst_n = FALSE,
           read_binary = 0, read_gray = ZeroCode, empty = TRUE,
           write_gray_dst_meta = ZeroCode, write_gray_dst_sync = ZeroCode,
           dst_accepted_count = 0, dst_telemetry_saturation_sticky = FALSE,
           dst_reset_meta = FALSE, dst_local_rst_n = FALSE
    PROVE  Inv
<1>1. SrcInv /\ DstInv
    BY ZeroFacts DEF SrcInv, DstInv
<1>2. RS = 0 /\ RM = 0 /\ WS = 0 /\ WM = 0
    BY ZeroFacts DEF RS, RM, WS, WM
<1>3. Distance(0, 0) = 0 /\ DEPTH \in Nat /\ DEPTH >= 4
    BY ZeroFacts, DistanceSteps, DepthAssumption
<1>4. ChainInv /\ FlagInv /\ CountInv
    BY <1>2, <1>3
    DEF ChainInv, Chain, FlagInv, CountInv, AccountingConserves, Occupancy
<1> QED
    BY <1>1, <1>4 DEF Inv

LEMMA InitInv == Init => Inv
<1> SUFFICES ASSUME Init PROVE Inv
    OBVIOUS
<1>1. 0 \in Pointers /\ ZeroCode \in Codes /\ 0 \in 0 .. TELEMETRY_MAX
    BY ZeroFacts, CodeFacts, FifoAssumption
<1>2. [s \in Slots |-> NoEvent] \in [Slots -> Events \cup {NoEvent}]
    OBVIOUS
<1>3. SrcTypeOK /\ DstTypeOK
    BY <1>1, <1>2 DEF Init, SrcTypeOK, DstTypeOK
<1> QED
    BY <1>3, Cleared DEF Init

LEMMA AssertResetsInv == Inv /\ AssertResets => Inv'
<1> SUFFICES ASSUME Inv, AssertResets PROVE Inv'
    OBVIOUS
<1>1. 0 \in Pointers /\ ZeroCode \in Codes /\ 0 \in 0 .. TELEMETRY_MAX
    BY ZeroFacts, CodeFacts, FifoAssumption
<1>2. /\ SrcTypeOK /\ DstTypeOK
      /\ SrcRegistersCleared /\ SrcCrossingCleared
      /\ DstRegistersCleared /\ DstCrossingCleared
    BY DEF AssertResets, Inv, SrcInv, DstInv
<1>3. /\ src_rst_n' = FALSE /\ src_reset_meta' = FALSE /\ src_local_rst_n' = FALSE
      /\ dst_rst_n' = FALSE /\ dst_reset_meta' = FALSE /\ dst_local_rst_n' = FALSE
    BY DEF AssertResets
<1>4. SrcTypeOK'
    BY <1>1, <1>2, <1>3 DEF SrcRegistersCleared, SrcCrossingCleared, SrcTypeOK
<1>5. DstTypeOK'
    BY <1>1, <1>2, <1>3 DEF DstRegistersCleared, DstCrossingCleared, DstTypeOK
<1>6. SrcInv' /\ DstInv'
    BY <1>2, <1>3, <1>4, <1>5, ZeroFacts
    DEF SrcInv, DstInv, SrcRegistersCleared, SrcCrossingCleared,
        DstRegistersCleared, DstCrossingCleared, IsCode
<1>7. RS' = 0 /\ RM' = 0 /\ WS' = 0 /\ WM' = 0
    BY <1>2, ZeroFacts DEF RS, RM, WS, WM, SrcCrossingCleared, DstCrossingCleared
<1>8. Distance(0, 0) = 0 /\ DEPTH \in Nat /\ DEPTH >= 4
    BY ZeroFacts, DistanceSteps, DepthAssumption
<1>9. ChainInv' /\ FlagInv' /\ CountInv'
    BY <1>2, <1>7, <1>8
    DEF ChainInv, Chain, FlagInv, CountInv, AccountingConserves, Occupancy,
        SrcRegistersCleared, DstRegistersCleared
<1> QED
    BY <1>6, <1>9 DEF Inv

(* Releasing one reset input changes nothing yet. *)
LEMMA ReleaseInv == Inv /\ (ReleaseSrcReset \/ ReleaseDstReset) => Inv'
<1>1. ASSUME Inv, ReleaseSrcReset PROVE Inv'
    <2>1. UNCHANGED <<dst_rst_n, srcRegs, dstRegs>> /\ src_rst_n' = TRUE
        BY <1>1 DEF ReleaseSrcReset
    <2>2. DstInv' /\ DstHold
        BY <1>1, <2>1, DstStays DEF Inv
    <2>3. SrcInv' /\ SrcHold
        BY <1>1, <2>1
        DEF Inv, srcRegs, srcReset, srcPointers, srcCrossing, srcTelemetry,
            SrcInv, SrcTypeOK, SrcHold, IsCode
    <2> QED
        BY <1>1, <2>2, <2>3, BothHold DEF Inv, JointInv
<1>2. ASSUME Inv, ReleaseDstReset PROVE Inv'
    <2>1. UNCHANGED <<src_rst_n, srcRegs, dstRegs>> /\ dst_rst_n' = TRUE
        BY <1>2 DEF ReleaseDstReset
    <2>2. SrcInv' /\ SrcHold
        BY <1>2, <2>1, SrcStays DEF Inv
    <2>3. DstInv' /\ DstHold
        BY <1>2, <2>1
        DEF Inv, dstRegs, dstReset, dstPointers, dstCrossing, dstTelemetry,
            DstInv, DstTypeOK, DstHold, IsCode
    <2> QED
        BY <1>2, <2>2, <2>3, BothHold DEF Inv, JointInv
<1> QED
    BY <1>1, <1>2

(* One edge of the source clock alone. *)
LEMMA SrcTickInv == Inv /\ SrcTick => Inv'
<1> SUFFICES ASSUME Inv, NEW valid \in BOOLEAN, NEW event \in Events,
                    SrcEdge(valid, event)
             PROVE  Inv'
    BY DEF SrcTick
<1>1. SrcAdvance(valid, event) /\ SrcSample(read_gray)
      /\ UNCHANGED <<src_rst_n, dst_rst_n, dstRegs>>
    BY DEF SrcEdge
<1>2. SrcInv /\ DstInv
    BY DEF Inv
<1>3. IsCode(read_gray)
    BY <1>2, CopyFacts DEF DstInv, IsCode
<1>4. SrcInv'
    BY <1>1, <1>3, SrcPreserves
<1>5. DstInv' /\ DstHold
    BY <1>1, <1>2, DstStays
<1>6. JointInv'
    <2>1. CASE src_local_rst_n
        <3>1. SrcMove(write_event(valid), read_gray)
            BY <1>1, <1>2, <2>1, SrcMoves
        <3>2. write_event(valid) \in BOOLEAN
            BY DEF write_event, src_ready
        <3> QED
            BY <1>5, <3>1, <3>2, SrcMovesAlone
    <2>2. CASE ~src_local_rst_n
        BY <1>1, <1>2, <1>5, <2>2, SrcHolds, BothHold
    <2> QED
        BY <2>1, <2>2
<1> QED
    BY <1>4, <1>5, <1>6 DEF Inv, JointInv

(* One edge of the destination clock alone. *)
LEMMA DstTickInv == Inv /\ DstTick => Inv'
<1> SUFFICES ASSUME Inv, NEW ready \in BOOLEAN, DstEdge(ready)
             PROVE  Inv'
    BY DEF DstTick
<1>1. DstAdvance(ready) /\ DstSample(write_gray)
      /\ UNCHANGED <<src_rst_n, dst_rst_n, srcRegs>>
    BY DEF DstEdge
<1>2. SrcInv /\ DstInv
    BY DEF Inv
<1>3. IsCode(write_gray)
    BY <1>2, CopyFacts DEF SrcInv, IsCode
<1>4. DstInv'
    BY <1>1, <1>3, DstPreserves
<1>5. SrcInv' /\ SrcHold
    BY <1>1, <1>2, SrcStays
<1>6. JointInv'
    <2>1. CASE dst_local_rst_n
        <3>1. DstMove(read_event(ready), write_gray)
            BY <1>1, <1>2, <2>1, DstMoves
        <3>2. read_event(ready) \in BOOLEAN
            BY DEF read_event, dst_valid
        <3> QED
            BY <1>5, <3>1, <3>2, DstMovesAlone
    <2>2. CASE ~dst_local_rst_n
        BY <1>1, <1>2, <1>5, <2>2, DstHolds, BothHold
    <2> QED
        BY <2>1, <2>2
<1> QED
    BY <1>4, <1>5, <1>6 DEF Inv, JointInv

(* Whatever a crossing register samples while the word it watches steps is *)
(* the word from before or after.                                          *)
LEMMA SampledCodes ==
    ASSUME Inv, NEW valid \in BOOLEAN, NEW event \in Events, NEW ready \in BOOLEAN,
           SrcAdvance(valid, event), DstAdvance(ready),
           NEW c \in Torn(read_gray, read_gray'), SrcSample(c),
           NEW d \in Torn(write_gray, write_gray'), DstSample(d)
    PROVE  /\ c \in {read_gray, read_gray'} /\ IsCode(c)
           /\ d \in {write_gray, write_gray'} /\ IsCode(d)
<1>1. SrcInv /\ DstInv /\ write_binary \in Pointers /\ read_binary \in Pointers
    BY CopyFacts DEF Inv
<1>2. \E q \in {read_binary, Wrap(read_binary + 1)} : read_gray' = binary_to_gray[q]
    <2>1. CASE dst_local_rst_n
        <3>1. DstMove(read_event(ready), d)
            BY <1>1, <2>1, DstMoves
        <3> QED
            BY <3>1 DEF DstMove
    <2>2. CASE ~dst_local_rst_n
        <3>1. DstHold
            BY <1>1, <2>2, DstHolds
        <3> QED
            BY <1>1, <3>1 DEF DstHold, DstInv
    <2> QED
        BY <2>1, <2>2
<1>3. \E q \in {write_binary, Wrap(write_binary + 1)} : write_gray' = binary_to_gray[q]
    <2>1. CASE src_local_rst_n
        <3>1. SrcMove(write_event(valid), c)
            BY <1>1, <2>1, SrcMoves
        <3> QED
            BY <3>1 DEF SrcMove
    <2>2. CASE ~src_local_rst_n
        <3>1. SrcHold
            BY <1>1, <2>2, SrcHolds
        <3> QED
            BY <1>1, <3>1 DEF SrcHold, SrcInv
    <2> QED
        BY <2>1, <2>2
<1>4. c \in {read_gray, read_gray'} /\ IsCode(c)
    <2>1. PICK q \in {read_binary, Wrap(read_binary + 1)} :
              read_gray' = binary_to_gray[q]
        BY <1>2
    <2>2. read_gray = binary_to_gray[read_binary] /\ q \in Pointers
        BY <1>1, WrapCases DEF DstInv
    <2>3. c \in Torn(binary_to_gray[read_binary], binary_to_gray[q])
        BY <2>1, <2>2
    <2>4. c = binary_to_gray[read_binary] \/ c = binary_to_gray[q]
        BY <1>1, <2>3, TornStep
    <2> QED
        BY <1>1, <2>1, <2>2, <2>4 DEF IsCode
<1>5. d \in {write_gray, write_gray'} /\ IsCode(d)
    <2>1. PICK q \in {write_binary, Wrap(write_binary + 1)} :
              write_gray' = binary_to_gray[q]
        BY <1>3
    <2>2. write_gray = binary_to_gray[write_binary] /\ q \in Pointers
        BY <1>1, WrapCases DEF SrcInv
    <2>3. d \in Torn(binary_to_gray[write_binary], binary_to_gray[q])
        BY <2>1, <2>2
    <2>4. d = binary_to_gray[write_binary] \/ d = binary_to_gray[q]
        BY <1>1, <2>3, TornStep
    <2> QED
        BY <1>1, <2>1, <2>2, <2>4 DEF IsCode
<1> QED
    BY <1>4, <1>5

(* Both clocks at once: the only step in which a copy can be torn. *)
LEMMA BothTickInv == Inv /\ BothTick => Inv'
<1> SUFFICES ASSUME Inv, NEW valid \in BOOLEAN, NEW event \in Events,
                    NEW ready \in BOOLEAN, BothEdges(valid, event, ready)
             PROVE  Inv'
    BY DEF BothTick
<1>1. SrcAdvance(valid, event) /\ DstAdvance(ready)
      /\ UNCHANGED <<src_rst_n, dst_rst_n>>
    BY DEF BothEdges
<1>2. PICK c \in Torn(read_gray, read_gray') : SrcSample(c)
    BY DEF BothEdges
<1>3. PICK d \in Torn(write_gray, write_gray') : DstSample(d)
    BY DEF BothEdges
<1>4. /\ c \in {read_gray, read_gray'} /\ IsCode(c)
      /\ d \in {write_gray, write_gray'} /\ IsCode(d)
    BY <1>1, <1>2, <1>3, SampledCodes
<1>5. SrcInv /\ DstInv
    BY DEF Inv
<1>6. SrcInv' /\ DstInv'
    BY <1>1, <1>2, <1>3, <1>4, SrcPreserves, DstPreserves
<1>7. write_event(valid) \in BOOLEAN /\ read_event(ready) \in BOOLEAN
    BY DEF write_event, src_ready, read_event, dst_valid
<1>8. src_local_rst_n => SrcMove(write_event(valid), c)
    BY <1>1, <1>2, <1>5, SrcMoves
<1>9. ~src_local_rst_n => SrcHold
    BY <1>1, <1>2, <1>5, SrcHolds
<1>10. dst_local_rst_n => DstMove(read_event(ready), d)
    BY <1>1, <1>3, <1>5, DstMoves
<1>11. ~dst_local_rst_n => DstHold
    BY <1>1, <1>3, <1>5, DstHolds
<1>12. JointInv'
    <2>1. CASE src_local_rst_n /\ dst_local_rst_n
        BY <1>4, <1>7, <1>8, <1>10, <2>1, BothMove
    <2>2. CASE src_local_rst_n /\ ~dst_local_rst_n
        <3>1. DstHold /\ c = read_gray
            BY <1>4, <1>11, <2>2 DEF DstHold
        <3> QED
            BY <1>7, <1>8, <2>2, <3>1, SrcMovesAlone
    <2>3. CASE ~src_local_rst_n /\ dst_local_rst_n
        <3>1. SrcHold /\ d = write_gray
            BY <1>4, <1>9, <2>3 DEF SrcHold
        <3> QED
            BY <1>7, <1>10, <2>3, <3>1, DstMovesAlone
    <2>4. CASE ~src_local_rst_n /\ ~dst_local_rst_n
        BY <1>9, <1>11, <2>4, BothHold
    <2> QED
        BY <2>1, <2>2, <2>3, <2>4
<1> QED
    BY <1>6, <1>12 DEF Inv, JointInv

LEMMA InvInductive == Inv /\ [Next]_vars => Inv'
<1> SUFFICES ASSUME Inv, [Next]_vars PROVE Inv'
    OBVIOUS
<1>1. CASE SrcTick
    BY <1>1, SrcTickInv
<1>2. CASE DstTick
    BY <1>2, DstTickInv
<1>3. CASE BothTick
    BY <1>3, BothTickInv
<1>4. CASE AssertResets
    BY <1>4, AssertResetsInv
<1>5. CASE ReleaseSrcReset \/ ReleaseDstReset
    BY <1>5, ReleaseInv
<1>6. CASE UNCHANGED vars
    <2>1. UNCHANGED <<src_rst_n, srcRegs>> /\ UNCHANGED <<dst_rst_n, dstRegs>>
        BY <1>6 DEF vars
    <2> QED
        BY <2>1, SrcStays, DstStays, BothHold DEF Inv, JointInv
<1> QED
    BY <1>1, <1>2, <1>3, <1>4, <1>5, <1>6 DEF Next

THEOREM FifoInvariant == Spec => []Inv
BY InitInv, InvInductive, PTL DEF Spec

-----------------------------------------------------------------------------
(* What the invariant says of the true occupancy. *)
LEMMA OccupancyFacts ==
    ASSUME Inv
    PROVE  /\ Occupancy \in Nat /\ DEPTH \in Nat
           /\ Distance(RS, write_binary) \in Nat
           /\ Distance(read_binary, WS) \in Nat
           /\ Distance(read_binary, WS) <= Occupancy
           /\ Occupancy <= Distance(RS, write_binary)
           /\ Distance(RS, write_binary) <= DEPTH
<1> DEFINE w == write_binary
           r == read_binary
           rs == RS  rm == RM  ws == WS  wm == WM
<1>1. /\ rs \in Pointers /\ rm \in Pointers /\ ws \in Pointers /\ wm \in Pointers
      /\ w \in Pointers /\ r \in Pointers
    BY CopyFacts DEF Inv
<1>2. Distance(rs, rm) + Distance(rm, r) + Distance(r, ws)
          + Distance(ws, wm) + Distance(wm, w) <= DEPTH
    BY DEF Inv, ChainInv, Chain
<1>3. DEPTH \in Nat /\ DEPTH >= 4 /\ \A a, b \in Pointers : Distance(a, b) \in Nat
    BY DepthAssumption, DistanceCases
<1>4. Occupancy = Distance(r, w)
    BY DEF Occupancy
<1> HIDE DEF w, r, rs, rm, ws, wm
<1>5. Distance(ws, w) = Distance(ws, wm) + Distance(wm, w)
    BY <1>1, <1>2, <1>3, DistanceAdds
<1>6. Distance(r, w) = Distance(r, ws) + Distance(ws, w)
    BY <1>1, <1>2, <1>3, <1>5, DistanceAdds
<1>7. Distance(rm, w) = Distance(rm, r) + Distance(r, w)
    BY <1>1, <1>2, <1>3, <1>5, <1>6, DistanceAdds
<1>8. Distance(rs, w) = Distance(rs, rm) + Distance(rm, w)
    BY <1>1, <1>2, <1>3, <1>5, <1>6, <1>7, DistanceAdds
<1>9. /\ Distance(r, w) \in Nat /\ Distance(rs, w) \in Nat /\ Distance(r, ws) \in Nat
      /\ Distance(r, ws) <= Distance(r, w) /\ Distance(r, w) <= Distance(rs, w)
      /\ Distance(rs, w) <= DEPTH
    BY <1>1, <1>2, <1>3, <1>5, <1>6, <1>7, <1>8
<1> QED
    BY <1>3, <1>4, <1>9 DEF w, r, rs, ws

(* Every register keeps its width: counters never pass their ceiling and   *)
(* pointers and their codes stay on the circle, whatever the resets do.    *)
THEOREM TypeCorrect == Spec => []TypeOK
<1>1. Inv => TypeOK
    BY DEF Inv, SrcInv, DstInv, TypeOK
<1> QED
    BY <1>1, FifoInvariant, PTL

(* src_ready, computed from a stale read pointer, admits a write only into *)
(* a free slot.                                                            *)
THEOREM NoOverwriteHolds == Spec => []NoOverwrite
<1>1. Inv => NoOverwrite
    <2> SUFFICES ASSUME Inv, src_ready PROVE Occupancy < DEPTH
        BY DEF NoOverwrite
    <2>1. Distance(RS, write_binary) < DEPTH
        BY DEF Inv, FlagInv, src_ready
    <2> QED
        BY <2>1, OccupancyFacts
<1> QED
    BY <1>1, FifoInvariant, PTL

(* dst_valid, computed from a stale write pointer, offers only an event    *)
(* that was written.                                                       *)
THEOREM NoUnderflowHolds == Spec => []NoUnderflow
<1>1. Inv => NoUnderflow
    <2> SUFFICES ASSUME Inv, dst_valid PROVE Occupancy > 0
        BY DEF NoUnderflow
    <2>1. Distance(read_binary, WS) > 0
        BY DEF Inv, FlagInv, dst_valid
    <2> QED
        BY <2>1, OccupancyFacts
<1> QED
    BY <1>1, FifoInvariant, PTL

(* The two estimate ports bracket the occupancy no side can see.           *)
THEOREM EstimatesBracket == Spec => []EstimatesBracketOccupancy
<1>1. Inv => EstimatesBracketOccupancy
    BY OccupancyFacts
    DEF EstimatesBracketOccupancy, src_queued_estimate, dst_queued_estimate,
        read_binary_src_sync, write_binary_dst_sync, RS, WS
<1> QED
    BY <1>1, FifoInvariant, PTL

(* The high watermark bounds every occupancy and never exceeds DEPTH.      *)
THEOREM WatermarkIsSound == Spec => []WatermarkSound
<1>1. Inv => WatermarkSound
    <2> SUFFICES ASSUME Inv PROVE WatermarkSound
        OBVIOUS
    <2>1. /\ Distance(RS, write_binary) <= high_watermark
          /\ high_watermark <= DEPTH /\ high_watermark \in Nat
        BY DEF Inv, CountInv, SrcInv, SrcTypeOK, Pointers
    <2> QED
        BY <2>1, OccupancyFacts DEF WatermarkSound
<1> QED
    BY <1>1, FifoInvariant, PTL

(* Up to saturation the two accounting counters differ by exactly what is  *)
(* in the FIFO.                                                            *)
THEOREM AccountingIsConserved == Spec => []AccountingConserves
<1>1. Inv => AccountingConserves
    BY DEF Inv, CountInv
<1> QED
    BY <1>1, FifoInvariant, PTL

(* Every judgement by a stale pointer is on the safe side.                 *)
THEOREM OccupancyIsSafe == Spec => []OccupancySafe
<1>1. NoOverwrite /\ NoUnderflow /\ EstimatesBracketOccupancy /\ WatermarkSound
        => OccupancySafe
    BY DEF OccupancySafe
<1> QED
    BY <1>1, NoOverwriteHolds, NoUnderflowHolds, EstimatesBracket,
       WatermarkIsSound, PTL

-----------------------------------------------------------------------------
(* The occupied arc of the memory, read as a sequence.                     *)

(* Walking n steps from a pointer, and the entry of memory a pointer names.*)
LEMMA WalkCases ==
    ASSUME NEW p \in Pointers, NEW n \in 0 .. DEPTH
    PROVE  /\ Wrap(p + n) \in Pointers
           /\ p + n < 2 * DEPTH => Wrap(p + n) = p + n
           /\ p + n >= 2 * DEPTH => Wrap(p + n) = p + n - 2 * DEPTH
<1> DEFINE M == 2 * DEPTH
<1>1. /\ M \in Nat /\ M > 1 /\ p \in 0 .. M - 1 /\ n \in Nat /\ n <= M
    BY DepthAssumption DEF Pointers
<1> HIDE DEF M
<1>2. p + n < M => (p + n) % M = p + n
    BY <1>1
<1>3. p + n >= M => (p + n) % M = p + n - M
    BY <1>1
<1> QED
    BY <1>1, <1>2, <1>3 DEF Wrap, Pointers, M

LEMMA SlotCases ==
    ASSUME NEW p \in Pointers
    PROVE  /\ Slot(p) \in Slots
           /\ p < DEPTH => Slot(p) = p
           /\ p >= DEPTH => Slot(p) = p - DEPTH
<1>1. DEPTH \in Nat /\ DEPTH > 1 /\ p \in Nat /\ p < 2 * DEPTH
    BY DepthAssumption DEF Pointers
<1>2. p < DEPTH => p % DEPTH = p
    BY <1>1
<1>3. p >= DEPTH => p % DEPTH = p - DEPTH
    BY <1>1
<1> QED
    BY <1>1, <1>2, <1>3 DEF Slot, Slots

(* A step of the first pointer renumbers the walk; the walk of the whole   *)
(* distance ends at the second pointer; and no entry on the way, up to     *)
(* DEPTH of them, is the second pointer's.                                 *)
LEMMA ArcFacts ==
    ASSUME NEW r \in Pointers, NEW w \in Pointers, Distance(r, w) <= DEPTH
    PROVE  /\ \A i \in 1 .. DEPTH :
                 /\ Wrap(r + i - 1) \in Pointers
                 /\ Wrap(Wrap(r + 1) + i - 1) = Wrap(r + (i + 1) - 1)
           /\ Wrap(r + (Distance(r, w) + 1) - 1) = w
           /\ Wrap(r + 1 - 1) = r
           /\ Distance(r, w) < DEPTH =>
                 \A i \in 1 .. Distance(r, w) :
                    Slot(Wrap(r + i - 1)) # Slot(w)
<1>1. /\ r \in Nat /\ w \in Nat /\ DEPTH \in Nat /\ DEPTH >= 4
      /\ r < 2 * DEPTH /\ w < 2 * DEPTH
      /\ Distance(r, w) \in Nat
      /\ w >= r => Distance(r, w) = w - r
      /\ w < r => Distance(r, w) = w - r + 2 * DEPTH
    BY DistanceCases
<1>2. ASSUME NEW i \in 1 .. DEPTH
      PROVE  /\ Wrap(r + i - 1) \in Pointers
             /\ Wrap(Wrap(r + 1) + i - 1) = Wrap(r + (i + 1) - 1)
    <2>1. /\ i - 1 \in 0 .. DEPTH /\ i \in 0 .. DEPTH
          /\ r + i - 1 = r + (i - 1) /\ r + (i + 1) - 1 = r + i
          /\ Wrap(r + 1) + i - 1 = Wrap(r + 1) + (i - 1)
        BY <1>1, WrapCases DEF Pointers
    <2>2. /\ Wrap(r + 1) \in Pointers
          /\ r = 2 * DEPTH - 1 => Wrap(r + 1) = 0
          /\ r < 2 * DEPTH - 1 => Wrap(r + 1) = r + 1
        BY WrapCases
    <2> DEFINE s == Wrap(r + 1)
    <2>3. /\ s \in Pointers
          /\ r = 2 * DEPTH - 1 => s = 0
          /\ r < 2 * DEPTH - 1 => s = r + 1
        BY <2>2
    <2> HIDE DEF s
    <2>4. /\ s + (i - 1) < 2 * DEPTH => Wrap(s + (i - 1)) = s + (i - 1)
          /\ s + (i - 1) >= 2 * DEPTH
                => Wrap(s + (i - 1)) = s + (i - 1) - 2 * DEPTH
        BY <2>1, <2>3, WalkCases
    <2>5. /\ r + i < 2 * DEPTH => Wrap(r + i) = r + i
          /\ r + i >= 2 * DEPTH => Wrap(r + i) = r + i - 2 * DEPTH
        BY <2>1, WalkCases
    <2>6. Wrap(r + (i - 1)) \in Pointers
        BY <2>1, WalkCases
    <2>7. Wrap(s + (i - 1)) = Wrap(r + i)
        BY <1>1, <2>3, <2>4, <2>5
    <2> QED
        BY <2>1, <2>6, <2>7 DEF s
<1>3. Wrap(r + Distance(r, w)) = w /\ Wrap(r) = r
    <2>1. Wrap(r + 0) = r + 0
        BY <1>1, WalkCases
    <2>2. Distance(r, w) \in 0 .. DEPTH
        BY <1>1
    <2>3. /\ r + Distance(r, w) < 2 * DEPTH
                => Wrap(r + Distance(r, w)) = r + Distance(r, w)
          /\ r + Distance(r, w) >= 2 * DEPTH
                => Wrap(r + Distance(r, w)) = r + Distance(r, w) - 2 * DEPTH
        BY <2>2, WalkCases
    <2> QED
        BY <1>1, <2>1, <2>3
<1>4. ASSUME Distance(r, w) < DEPTH, NEW i \in 1 .. Distance(r, w)
      PROVE  Slot(Wrap(r + i - 1)) # Slot(w)
    <2> DEFINE p == Wrap(r + (i - 1))
    <2>1. /\ i - 1 \in 0 .. DEPTH /\ i - 1 < Distance(r, w) /\ i - 1 \in Nat
          /\ r + i - 1 = r + (i - 1)
        BY <1>1, <1>4
    <2>2. /\ p \in Pointers
          /\ r + (i - 1) < 2 * DEPTH => p = r + (i - 1)
          /\ r + (i - 1) >= 2 * DEPTH => p = r + (i - 1) - 2 * DEPTH
        BY <2>1, WalkCases
    <2> HIDE DEF p
    <2>3. p \in Nat
        BY <2>2 DEF Pointers
    <2>4. /\ p < DEPTH => Slot(p) = p
          /\ p >= DEPTH => Slot(p) = p - DEPTH
          /\ w < DEPTH => Slot(w) = w
          /\ w >= DEPTH => Slot(w) = w - DEPTH
        BY <2>2, SlotCases
    <2>5. Slot(p) # Slot(w)
        BY <1>1, <1>4, <2>1, <2>2, <2>3, <2>4
    <2> QED
        BY <2>1, <2>5 DEF p
<1>5. r + (Distance(r, w) + 1) - 1 = r + Distance(r, w) /\ r + 1 - 1 = r
    BY <1>1
<1> QED
    BY <1>2, <1>3, <1>4, <1>5

(* Sequences given by their length and elements. *)
LEMMA SequenceOf ==
    ASSUME NEW S, NEW n \in Nat, NEW f, f = [i \in 1 .. n |-> f[i]],
           \A i \in 1 .. n : f[i] \in S
    PROVE  f \in Seq(S) /\ Len(f) = n
<1>1. f \in [1 .. n -> S] /\ DOMAIN f = 1 .. n
    OBVIOUS
<1>2. f \in Seq(S)
    BY <1>1, SeqDef
<1>3. Len(f) \in Nat /\ DOMAIN f = 1 .. Len(f)
    BY <1>2, LenProperties
<1> QED
    BY <1>1, <1>2, <1>3

-----------------------------------------------------------------------------
(* The FIFO as a queue. *)

(* Every entry between the two pointers holds an event that was written.   *)
StoredInv == \A i \in 1 .. Occupancy :
    memory[Slot(Wrap(read_binary + i - 1))] \in Events

LEMMA ContentsFacts ==
    ASSUME Inv, StoredInv
    PROVE  /\ Contents \in Seq(Events) /\ Len(Contents) = Occupancy
           /\ \A i \in 1 .. Occupancy :
                 Contents[i] = memory[Slot(Wrap(read_binary + i - 1))]
<1>1. Occupancy \in Nat
    BY OccupancyFacts
<1>2. /\ Contents = [i \in 1 .. Occupancy |-> Contents[i]]
      /\ \A i \in 1 .. Occupancy :
            Contents[i] = memory[Slot(Wrap(read_binary + i - 1))]
    BY DEF Contents
<1>3. \A i \in 1 .. Occupancy : Contents[i] \in Events
    BY <1>2 DEF StoredInv
<1> HIDE DEF Contents
<1> QED
    BY <1>1, <1>2, <1>3, SequenceOf

(* What an edge does to pointers and memory, whichever clocks tick.        *)
PointerStep(wrote, event, took) ==
    /\ write_binary' = IF wrote THEN Wrap(write_binary + 1) ELSE write_binary
    /\ read_binary' = IF took THEN Wrap(read_binary + 1) ELSE read_binary
    /\ memory' = IF wrote THEN [memory EXCEPT ![Slot(write_binary)] = event]
                          ELSE memory
    /\ wrote => src_ready
    /\ took => dst_valid

(* The entries after a step: those of before, less the first if it was     *)
(* taken, and the written event behind them.                               *)
LEMMA EntriesStep ==
    ASSUME Inv, NEW wrote \in BOOLEAN, NEW took \in BOOLEAN, NEW event,
           PointerStep(wrote, event, took)
    PROVE  /\ Occupancy' = Occupancy + (IF wrote THEN 1 ELSE 0)
                                     - (IF took THEN 1 ELSE 0)
           /\ wrote => Occupancy < DEPTH
           /\ took => Occupancy > 0
           /\ \A i \in 1 .. Occupancy' :
                 memory[Slot(Wrap(read_binary + i - 1))]' =
                    LET k == IF took THEN i + 1 ELSE i
                    IN  IF k <= Occupancy
                        THEN memory[Slot(Wrap(read_binary + k - 1))]
                        ELSE event
<1> DEFINE w == write_binary  r == read_binary
           w2 == write_binary'  r2 == read_binary'
<1>1. /\ w \in Pointers /\ r \in Pointers /\ Occupancy = Distance(r, w)
      /\ Occupancy \in Nat /\ Occupancy <= DEPTH
      /\ DEPTH \in Nat /\ DEPTH >= 4
      /\ memory \in [Slots -> Events \cup {NoEvent}]
    <2>1. SrcInv /\ DstInv
        BY DEF Inv
    <2>2. w \in Pointers /\ r \in Pointers
        BY <2>1, CopyFacts
    <2>3. memory \in [Slots -> Events \cup {NoEvent}]
        BY <2>1 DEF SrcInv, SrcTypeOK
    <2>4. Occupancy \in Nat /\ Occupancy <= DEPTH /\ DEPTH \in Nat
        BY OccupancyFacts
    <2> QED
        BY <2>2, <2>3, <2>4, DepthAssumption DEF Occupancy
<1>2. /\ wrote => Occupancy < DEPTH
      /\ took => Occupancy > 0
    <2>1. wrote => Distance(RS, write_binary) < DEPTH
        BY DEF Inv, FlagInv, src_ready, PointerStep
    <2>2. took => Distance(read_binary, WS) > 0
        BY DEF Inv, FlagInv, dst_valid, PointerStep
    <2> QED
        BY <2>1, <2>2, OccupancyFacts
<1>3. /\ w2 \in Pointers /\ r2 \in Pointers
      /\ w2 = IF wrote THEN Wrap(w + 1) ELSE w
      /\ r2 = IF took THEN Wrap(r + 1) ELSE r
    BY <1>1, WrapCases DEF PointerStep
<1>4. Occupancy' = Distance(r2, w2)
    BY DEF Occupancy
<1>5. Distance(r, w2) = Occupancy + (IF wrote THEN 1 ELSE 0)
    BY <1>1, <1>2, <1>3, DistanceSteps
<1>6. Occupancy' = Occupancy + (IF wrote THEN 1 ELSE 0)
                             - (IF took THEN 1 ELSE 0)
    <2>1. took => Distance(r, w2) > 0
        BY <1>1, <1>2, <1>5
    <2>2. took => Distance(Wrap(r + 1), w2) = Distance(r, w2) - 1
        BY <1>1, <1>3, <2>1, DistanceSteps
    <2> QED
        BY <1>1, <1>3, <1>4, <1>5, <2>2
<1>7. ASSUME NEW i \in 1 .. Occupancy'
      PROVE  memory[Slot(Wrap(read_binary + i - 1))]' =
                LET k == IF took THEN i + 1 ELSE i
                IN  IF k <= Occupancy
                    THEN memory[Slot(Wrap(read_binary + k - 1))]
                    ELSE event
    <2> DEFINE k == IF took THEN i + 1 ELSE i
    <2>1. k \in 1 .. Occupancy + 1 /\ i \in 1 .. DEPTH /\ (k > Occupancy => wrote)
        BY <1>1, <1>2, <1>6
    <2>2. Wrap(r2 + i - 1) = Wrap(r + k - 1)
        BY <1>1, <1>3, <2>1, ArcFacts
    <2>3. k = Occupancy + 1 => Wrap(r + k - 1) = w
        BY <1>1, ArcFacts
    <2>4. k <= Occupancy => Wrap(r + k - 1) \in Pointers
        BY <1>1, <2>1, ArcFacts
    <2>5. k <= Occupancy /\ wrote => Slot(Wrap(r + k - 1)) # Slot(w)
        BY <1>1, <1>2, <2>1, ArcFacts
    <2>6. /\ Slot(w) \in Slots
          /\ k <= Occupancy => Slot(Wrap(r + k - 1)) \in Slots
        BY <1>1, <2>4, SlotCases
    <2>7. memory[Slot(Wrap(read_binary + i - 1))]'
            = memory'[Slot(Wrap(r + k - 1))]
        BY <2>2
    <2>8. CASE k <= Occupancy
        <3>1. memory'[Slot(Wrap(r + k - 1))] = memory[Slot(Wrap(r + k - 1))]
            BY <1>1, <2>5, <2>6, <2>8 DEF PointerStep
        <3> QED
            BY <2>7, <2>8, <3>1
    <2>9. CASE ~(k <= Occupancy)
        <3>1. k = Occupancy + 1 /\ wrote
            BY <1>1, <2>1, <2>9
        <3>2. memory'[Slot(w)] = event
            BY <1>1, <2>6, <3>1 DEF PointerStep
        <3> QED
            BY <2>3, <2>7, <2>9, <3>1, <3>2
    <2> QED
        BY <2>8, <2>9
<1> QED
    BY <1>2, <1>6, <1>7

(* A write stores an event at the end of the arc, a read shortens the arc. *)
LEMMA StoredStep ==
    ASSUME Inv, StoredInv, NEW wrote \in BOOLEAN, NEW took \in BOOLEAN,
           NEW event, wrote => event \in Events, PointerStep(wrote, event, took)
    PROVE  StoredInv'
<1>1. Occupancy \in Nat
    BY OccupancyFacts
<1> SUFFICES ASSUME NEW i \in 1 .. Occupancy'
             PROVE  memory[Slot(Wrap(read_binary + i - 1))]' \in Events
    BY DEF StoredInv
<1> DEFINE k == IF took THEN i + 1 ELSE i
<1>2. k \in Nat /\ k >= 1 /\ (k > Occupancy => wrote)
    BY <1>1, EntriesStep
<1>3. memory[Slot(Wrap(read_binary + i - 1))]' =
        IF k <= Occupancy THEN memory[Slot(Wrap(read_binary + k - 1))]
                          ELSE event
    BY EntriesStep
<1>4. k <= Occupancy => memory[Slot(Wrap(read_binary + k - 1))] \in Events
    BY <1>1, <1>2 DEF StoredInv
<1> QED
    BY <1>1, <1>2, <1>3, <1>4

(* The same of the contents as a sequence. *)
LEMMA ContentsStep ==
    ASSUME Inv, Inv', StoredInv, NEW wrote \in BOOLEAN, NEW took \in BOOLEAN,
           NEW event, wrote => event \in Events, PointerStep(wrote, event, took)
    PROVE  LET rest == IF took THEN Tail(Contents) ELSE Contents
               put == IF wrote THEN <<event>> ELSE <<>>
           IN  /\ Contents' = rest \o put
               /\ wrote => Len(rest) < DEPTH
<1> DEFINE rest == IF took THEN Tail(Contents) ELSE Contents
           put == IF wrote THEN <<event>> ELSE <<>>
           d == IF took THEN 1 ELSE 0
<1>1. /\ Occupancy \in Nat /\ Occupancy' \in Nat /\ DEPTH \in Nat
      /\ wrote => Occupancy < DEPTH
      /\ took => Occupancy > 0
      /\ Occupancy' = Occupancy + (IF wrote THEN 1 ELSE 0) - d
    BY OccupancyFacts, EntriesStep
<1>2. /\ Contents \in Seq(Events) /\ Len(Contents) = Occupancy
      /\ \A i \in 1 .. Occupancy :
            Contents[i] = memory[Slot(Wrap(read_binary + i - 1))]
    BY ContentsFacts
<1>3. /\ Contents' \in Seq(Events) /\ Len(Contents') = Occupancy'
      /\ \A i \in 1 .. Occupancy' :
            Contents'[i] = memory[Slot(Wrap(read_binary + i - 1))]'
    <2>1. /\ Contents' = [i \in 1 .. Occupancy' |-> Contents'[i]]
          /\ \A i \in 1 .. Occupancy' :
                Contents'[i] = memory[Slot(Wrap(read_binary + i - 1))]'
        BY DEF Contents
    <2>2. \A i \in 1 .. Occupancy' : Contents'[i] \in Events
        BY <2>1, StoredStep DEF StoredInv
    <2> HIDE DEF Contents
    <2> QED
        BY <1>1, <2>1, <2>2, SequenceOf
<1>4. /\ rest \in Seq(Events) /\ Len(rest) = Occupancy - d
      /\ \A i \in 1 .. Occupancy - d : rest[i] = Contents[i + d]
    <2>1. CASE took
        <3>1. Contents # <<>>
            BY <1>1, <1>2, <2>1, EmptySeq
        <3> HIDE DEF Contents
        <3> QED
            BY <1>1, <1>2, <2>1, <3>1, HeadTailProperties
    <2>2. CASE ~took
        BY <1>1, <1>2, <2>2
    <2> QED
        BY <2>1, <2>2
<1>5. put \in Seq(Events) /\ Len(put) = (IF wrote THEN 1 ELSE 0)
      /\ (wrote => put[1] = event)
    OBVIOUS
<1> HIDE DEF rest, put, Contents
<1>13. rest \in Seq(Events) /\ put \in Seq(Events)
    BY <1>4, <1>5
<1>6. /\ rest \o put \in Seq(Events)
      /\ Len(rest \o put) = Len(rest) + Len(put)
      /\ \A i \in 1 .. Len(rest) + Len(put) : (rest \o put)[i] =
            IF i <= Len(rest) THEN rest[i] ELSE put[i - Len(rest)]
    BY <1>13, ConcatProperties, Zenon
<1>7. Len(Contents') = Len(rest \o put)
    BY <1>1, <1>3, <1>4, <1>5, <1>6
<1>8. ASSUME NEW i \in 1 .. Len(Contents')
      PROVE  Contents'[i] = (rest \o put)[i]
    <2>1. Contents'[i] = IF i + d <= Occupancy
                         THEN memory[Slot(Wrap(read_binary + (i + d) - 1))]
                         ELSE event
        <3>1. d = (IF took THEN 1 ELSE 0) /\ i \in 1 .. Occupancy' /\ i \in Nat
            BY <1>1, <1>3
        <3>2. (IF took THEN i + 1 ELSE i) = i + d
            BY <3>1
        <3> HIDE DEF d
        <3> QED
            BY <1>3, <3>1, <3>2, EntriesStep
    <2>2. CASE i <= Len(rest)
        <3>1. i + d \in 1 .. Occupancy /\ i \in 1 .. Occupancy - d
              /\ i \in 1 .. Len(rest) + Len(put)
            BY <1>1, <1>3, <1>4, <1>5, <1>6, <1>7, <2>2
        <3>2. (rest \o put)[i] = rest[i] /\ rest[i] = Contents[i + d]
            BY <1>4, <1>6, <2>2, <3>1
        <3>3. Contents[i + d] = memory[Slot(Wrap(read_binary + (i + d) - 1))]
            BY <1>2, <3>1
        <3> QED
            BY <2>1, <3>1, <3>2, <3>3
    <2>3. CASE ~(i <= Len(rest))
        <3>1. wrote /\ i - Len(rest) = 1 /\ ~(i + d <= Occupancy)
              /\ i \in 1 .. Len(rest) + Len(put)
            BY <1>1, <1>3, <1>4, <1>5, <1>6, <1>7, <2>3
        <3> QED
            BY <1>5, <1>6, <2>1, <2>3, <3>1
    <2> QED
        BY <2>2, <2>3
<1>9. Contents' = rest \o put
    BY <1>3, <1>6, <1>7, <1>8, SeqEqual
<1>10. wrote => Len(rest) < DEPTH
    BY <1>1, <1>4
<1> QED
    BY <1>9, <1>10 DEF rest, put

-----------------------------------------------------------------------------
(* Each side's edge as a pointer step, and the offer that must not be      *)
(* withdrawn.                                                              *)
LEMMA SrcPointer ==
    ASSUME SrcInv, NEW valid \in BOOLEAN, NEW event \in Events,
           SrcAdvance(valid, event)
    PROVE  /\ write_binary' = IF write_event(valid)
                              THEN Wrap(write_binary + 1) ELSE write_binary
           /\ memory' = IF write_event(valid)
                        THEN [memory EXCEPT ![Slot(write_binary)] = event]
                        ELSE memory
           /\ write_event(valid) => src_ready
           /\ write_event(valid) \in BOOLEAN
<1>1. CASE src_local_rst_n
    BY <1>1 DEF SrcAdvance, SrcWrite, WriteNext, write_event, src_ready
<1>2. CASE ~src_local_rst_n
    BY <1>2
    DEF SrcInv, SrcAdvance, SrcRegistersCleared, write_event, src_ready
<1> QED
    BY <1>1, <1>2

LEMMA DstPointer ==
    ASSUME Inv, NEW ready \in BOOLEAN, DstAdvance(ready), UNCHANGED dst_rst_n
    PROVE  /\ read_binary' = IF read_event(ready)
                             THEN Wrap(read_binary + 1) ELSE read_binary
           /\ read_event(ready) => dst_valid
           /\ dst_valid /\ ~read_event(ready) => dst_valid'
           /\ read_event(ready) \in BOOLEAN
<1>1. CASE dst_local_rst_n
    <2>1. DstInv /\ SrcInv /\ dst_rst_n /\ dst_reset_meta /\ DstTypeOK
        BY <1>1 DEF Inv, DstInv
    <2>2. /\ DstRead(ready) /\ dst_local_rst_n'
          /\ read_binary' = ReadNext(ready) /\ empty' = Empty(ReadNext(ready))
        BY <1>1, <2>1 DEF DstAdvance, DstResetEdge, DstRead
    <2>3. ASSUME dst_valid, ~read_event(ready) PROVE dst_valid'
        <3>1. Distance(read_binary, WS) > 0 /\ read_binary \in Pointers
            BY <2>3, <2>1, CopyFacts DEF Inv, FlagInv, dst_valid
        <3>2. read_binary # WS
            BY <3>1, DistanceSteps
        <3>3. ~Empty(read_binary)
            BY <2>1, <3>1, <3>2, FlagFacts
        <3>4. ReadNext(ready) = read_binary
            BY <2>3 DEF ReadNext
        <3> QED
            BY <2>2, <3>3, <3>4 DEF dst_valid
    <2> QED
        BY <2>2, <2>3 DEF ReadNext, read_event, dst_valid
<1>2. CASE ~dst_local_rst_n
    BY <1>2
    DEF Inv, DstInv, DstAdvance, DstRegistersCleared, read_event, dst_valid
<1> QED
    BY <1>1, <1>2

Offered == IF dst_valid THEN dst_event ELSE NoEvent

(* An offer is the oldest event. *)
LEMMA OfferFacts ==
    Inv /\ StoredInv =>
        /\ dst_valid => /\ dst_event \in Events /\ Contents # <<>>
                        /\ Head(Contents) = dst_event
        /\ dst_valid <=> Offered # NoEvent
<1> SUFFICES ASSUME Inv, StoredInv
             PROVE  /\ dst_valid => /\ dst_event \in Events /\ Contents # <<>>
                                    /\ Head(Contents) = dst_event
                    /\ dst_valid <=> Offered # NoEvent
    OBVIOUS
<1>1. ASSUME dst_valid
      PROVE  dst_event \in Events /\ Contents # <<>> /\ Head(Contents) = dst_event
    <2>1. Occupancy \in Nat /\ Occupancy > 0
        BY <1>1, OccupancyFacts DEF Inv, FlagInv, dst_valid
    <2>2. /\ Contents \in Seq(Events) /\ Len(Contents) = Occupancy
          /\ Contents[1] = memory[Slot(Wrap(read_binary + 1 - 1))]
        BY <2>1, ContentsFacts
    <2>3. Wrap(read_binary + 1 - 1) = read_binary
        <3>1. /\ read_binary \in Pointers /\ write_binary \in Pointers
              /\ Distance(read_binary, write_binary) <= DEPTH
            BY CopyFacts, OccupancyFacts DEF Inv, Occupancy
        <3> QED
            BY <3>1, ArcFacts
    <2>4. memory[Slot(Wrap(read_binary + 1 - 1))] \in Events
        BY <2>1 DEF StoredInv
    <2> HIDE DEF Contents
    <2>5. Contents # <<>> /\ Head(Contents) = Contents[1]
        BY <2>1, <2>2
    <2> QED
        BY <2>2, <2>3, <2>4, <2>5 DEF dst_event
<1> QED
    BY <1>1, FifoAssumption DEF Offered

(* One edge of either clock or of both is one transfer of the queue.       *)
LEMMA EdgeTransfers ==
    ASSUME Inv, Inv', StoredInv, NEW wrote \in BOOLEAN, NEW took \in BOOLEAN,
           NEW event, wrote => event \in Events, PointerStep(wrote, event, took),
           dst_valid /\ ~took => dst_valid'
    PROVE  Queue!Transfer(IF wrote THEN <<event>> ELSE <<>>, took)
<1> DEFINE rest == IF took THEN Tail(Contents) ELSE Contents
           put == IF wrote THEN <<event>> ELSE <<>>
<1>1. StoredInv'
    BY StoredStep
<1>2. Contents' = rest \o put /\ (wrote => Len(rest) < DEPTH)
    BY ContentsStep
<1>3. /\ dst_valid <=> Offered # NoEvent
      /\ dst_valid => Head(Contents) = dst_event /\ Contents # <<>>
    BY OfferFacts
<1>4. /\ dst_valid' <=> Offered' # NoEvent
      /\ dst_valid' => Head(Contents') = dst_event' /\ Contents' # <<>>
    <2>1. (/\ dst_valid => /\ dst_event \in Events /\ Contents # <<>>
                           /\ Head(Contents) = dst_event
           /\ dst_valid <=> Offered # NoEvent)'
        BY <1>1, OfferFacts, PTL
    <2> QED
        BY <2>1
<1>5. took => Offered # NoEvent
    BY <1>3 DEF PointerStep
<1>6. put # <<>> => Len(rest) < DEPTH
    BY <1>2
<1>7. Queue!OfferNext(took)
    <2>1. CASE Offered # NoEvent /\ ~took
        <3>1. dst_valid /\ dst_valid'
            BY <1>3, <2>1
        <3>2. Contents \in Seq(Events) /\ Contents # <<>> /\ put \in Seq(Events)
            BY <1>3, <3>1, ContentsFacts
        <3> HIDE DEF Contents, put
        <3>3. Head(Contents \o put) = Head(Contents)
            BY <3>2
        <3>4. dst_event' = dst_event
            BY <1>2, <1>3, <1>4, <2>1, <3>1, <3>3
        <3> QED
            BY <2>1, <3>1, <3>4 DEF Queue!OfferNext, Offered
    <2>2. CASE ~(Offered # NoEvent /\ ~took)
        BY <1>4, <2>2 DEF Queue!OfferNext, Offered
    <2> QED
        BY <2>1, <2>2
<1> HIDE DEF Contents
<1> QED
    BY <1>2, <1>5, <1>6, <1>7 DEF Queue!Transfer, Offered

(* Every step of the FIFO is a step of the queue or leaves it alone.       *)
LEMMA QueueStep ==
    ASSUME Inv, Inv', StoredInv, [Next]_vars
    PROVE  StoredInv' /\ [Queue!Next]_(Queue!vars)
<1>1. ASSUME NEW wrote \in BOOLEAN, NEW took \in BOOLEAN, NEW event,
             wrote => event \in Events, PointerStep(wrote, event, took),
             dst_valid /\ ~took => dst_valid'
      PROVE  StoredInv' /\ Queue!Next
    <2> DEFINE put == IF wrote THEN <<event>> ELSE <<>>
    <2>1. Queue!Transfer(put, took)
        BY <1>1, EdgeTransfers
    <2>2. put \in {<<>>} \cup {<<e>> : e \in Events}
        BY <1>1
    <2>3. StoredInv'
        BY <1>1, StoredStep
    <2> HIDE DEF put
    <2> QED
        BY <1>1, <2>1, <2>2, <2>3 DEF Queue!Next
<1>2. SrcInv
    BY DEF Inv
<1>3. ASSUME NEW valid \in BOOLEAN, NEW event \in Events, SrcEdge(valid, event)
      PROVE  StoredInv' /\ Queue!Next
    <2>1. /\ SrcAdvance(valid, event)
          /\ UNCHANGED <<dst_local_rst_n, read_binary, empty>>
        BY <1>3 DEF SrcEdge, dstRegs, dstReset, dstPointers
    <2>2. /\ PointerStep(write_event(valid), event, FALSE)
          /\ write_event(valid) \in BOOLEAN
        BY <1>2, <2>1, SrcPointer DEF PointerStep
    <2>3. dst_valid => dst_valid'
        BY <2>1 DEF dst_valid
    <2> QED
        BY <1>1, <2>2, <2>3
<1>4. ASSUME NEW ready \in BOOLEAN, DstEdge(ready)
      PROVE  StoredInv' /\ Queue!Next
    <2>1. /\ DstAdvance(ready) /\ UNCHANGED <<dst_rst_n, write_binary, memory>>
        BY <1>4 DEF DstEdge, srcRegs, srcPointers
    <2>2. /\ PointerStep(FALSE, NoEvent, read_event(ready))
          /\ dst_valid /\ ~read_event(ready) => dst_valid'
          /\ read_event(ready) \in BOOLEAN
        BY <2>1, DstPointer DEF PointerStep
    <2> QED
        BY <1>1, <2>2
<1>5. ASSUME NEW valid \in BOOLEAN, NEW event \in Events, NEW ready \in BOOLEAN,
             BothEdges(valid, event, ready)
      PROVE  StoredInv' /\ Queue!Next
    <2>1. SrcAdvance(valid, event) /\ DstAdvance(ready) /\ UNCHANGED dst_rst_n
        BY <1>5 DEF BothEdges
    <2>2. /\ PointerStep(write_event(valid), event, read_event(ready))
          /\ dst_valid /\ ~read_event(ready) => dst_valid'
          /\ write_event(valid) \in BOOLEAN /\ read_event(ready) \in BOOLEAN
        BY <1>2, <2>1, SrcPointer, DstPointer DEF PointerStep
    <2> QED
        BY <1>1, <2>2
<1>6. CASE AssertResets
    <2>1. /\ write_binary' = 0 /\ read_binary' = 0 /\ dst_local_rst_n' = FALSE
        BY <1>6 DEF AssertResets, SrcRegistersCleared, DstRegistersCleared
    <2>2. Occupancy' = 0
        BY <2>1, ZeroFacts, DistanceSteps DEF Occupancy
    <2>3. Contents' = <<>> /\ StoredInv'
        BY <2>2 DEF Contents, StoredInv
    <2>4. Queue!Flush
        BY <2>1, <2>3 DEF Queue!Flush, dst_valid
    <2> QED
        BY <2>3, <2>4 DEF Queue!Next
<1>7. CASE ReleaseSrcReset \/ ReleaseDstReset \/ UNCHANGED vars
    <2>1. UNCHANGED <<write_binary, read_binary, memory, dst_local_rst_n, empty>>
        BY <1>7
        DEF ReleaseSrcReset, ReleaseDstReset, vars, srcRegs, dstRegs, dstReset,
            srcPointers, dstPointers
    <2>2. UNCHANGED <<Contents, dst_valid, dst_event, Occupancy>>
        BY <2>1 DEF Contents, dst_valid, dst_event, Occupancy
    <2> QED
        BY <2>1, <2>2 DEF StoredInv, Queue!vars
<1> QED
    BY <1>3, <1>4, <1>5, <1>6, <1>7 DEF Next, SrcTick, DstTick, BothTick

(* The FIFO is a queue of DEPTH events: they leave unchanged, each once,   *)
(* in the order in which they were accepted, and an offer stands until it  *)
(* is taken; only a shot boundary empties it.                              *)
THEOREM FifoImplementsQueue == Spec => ImplementsQueue
<1>1. Init => Queue!Init /\ StoredInv
    <2> SUFFICES ASSUME Init PROVE Queue!Init /\ StoredInv
        OBVIOUS
    <2>1. Occupancy = 0
        BY ZeroFacts, DistanceSteps DEF Init, Occupancy
    <2>2. Contents = <<>> /\ StoredInv
        BY <2>1 DEF Contents, StoredInv
    <2> QED
        BY <2>2 DEF Init, Queue!Init, dst_valid
<1>2. Inv /\ Inv' /\ StoredInv /\ [Next]_vars
        => StoredInv' /\ [Queue!Next]_(Queue!vars)
    BY QueueStep
<1> QED
    BY <1>1, <1>2, FifoInvariant, PTL DEF Spec, Queue!Spec, ImplementsQueue
=============================================================================
