------------------------------- MODULE AsyncFifo -------------------------------
(***************************************************************************)
(* The full-payload asynchronous FIFO of hdl/src/aer/                      *)
(* mif_aer_async_fifo.sv: one writer and one reader, each with its own     *)
(* clock and its own reset synchroniser, that know of each other only      *)
(* through Gray-coded pointers sampled by two registers in a row.          *)
(*                                                                         *)
(* An action is a positive edge of one clock, or of both at once.  Only in *)
(* the last case can a crossing register sample a word while it changes,   *)
(* and then it holds any mixture of the old and the new bits (Torn).       *)
(* The port inputs valid, event and ready are free on every edge.          *)
(***************************************************************************)
EXTENDS GrayCode, Sequences

CONSTANTS Events, NoEvent,   \* payloads, and a memory word never written
          TELEMETRY_MAX      \* where the accounting counters saturate

ASSUME FifoAssumption == TELEMETRY_MAX \in Nat /\ NoEvent \notin Events

VARIABLES
    src_rst_n, src_reset_meta, src_local_rst_n,       \* source reset chain
    write_binary, write_gray, full, memory,           \* source registers
    read_gray_src_meta, read_gray_src_sync,           \* crossing into source
    src_accepted_count, high_watermark, backpressure_sticky,
    telemetry_saturation_sticky,
    dst_rst_n, dst_reset_meta, dst_local_rst_n,       \* destination reset chain
    read_binary, read_gray, empty,                    \* destination registers
    write_gray_dst_meta, write_gray_dst_sync,         \* crossing into destination
    dst_accepted_count, underflow_request_sticky,
    dst_telemetry_saturation_sticky

srcPointers == <<write_binary, write_gray, full, memory>>
srcCrossing == <<read_gray_src_meta, read_gray_src_sync>>
srcReset == <<src_reset_meta, src_local_rst_n>>
srcTelemetry == <<src_accepted_count, high_watermark, backpressure_sticky,
                  telemetry_saturation_sticky>>
srcRegs == <<srcReset, srcPointers, srcCrossing, srcTelemetry>>
dstPointers == <<read_binary, read_gray, empty>>
dstCrossing == <<write_gray_dst_meta, write_gray_dst_sync>>
dstReset == <<dst_reset_meta, dst_local_rst_n>>
dstTelemetry == <<dst_accepted_count, underflow_request_sticky,
                  dst_telemetry_saturation_sticky>>
dstRegs == <<dstReset, dstPointers, dstCrossing, dstTelemetry>>
vars == <<src_rst_n, dst_rst_n, srcRegs, dstRegs>>

SrcTypeOK ==
    /\ src_rst_n \in BOOLEAN /\ src_reset_meta \in BOOLEAN
    /\ src_local_rst_n \in BOOLEAN
    /\ write_binary \in Pointers /\ write_gray \in Codes /\ full \in BOOLEAN
    /\ memory \in [Slots -> Events \cup {NoEvent}]
    /\ read_gray_src_meta \in Codes /\ read_gray_src_sync \in Codes
    /\ src_accepted_count \in 0 .. TELEMETRY_MAX
    /\ high_watermark \in Pointers
    /\ backpressure_sticky \in BOOLEAN /\ telemetry_saturation_sticky \in BOOLEAN

DstTypeOK ==
    /\ dst_rst_n \in BOOLEAN /\ dst_reset_meta \in BOOLEAN
    /\ dst_local_rst_n \in BOOLEAN
    /\ read_binary \in Pointers /\ read_gray \in Codes /\ empty \in BOOLEAN
    /\ write_gray_dst_meta \in Codes /\ write_gray_dst_sync \in Codes
    /\ dst_accepted_count \in 0 .. TELEMETRY_MAX
    /\ underflow_request_sticky \in BOOLEAN
    /\ dst_telemetry_saturation_sticky \in BOOLEAN

TypeOK == SrcTypeOK /\ DstTypeOK

-----------------------------------------------------------------------------
(* The combinational wires. *)

(* Mutant: the pointer crosses in plain binary. *)
PointerUncoded(p) == binary_unencoded[p]

PointerCode(p) == binary_to_gray[p]

src_ready == src_local_rst_n /\ ~full
dst_valid == dst_local_rst_n /\ ~empty

read_binary_src_sync == gray_to_binary[read_gray_src_sync]
write_binary_dst_sync == gray_to_binary[write_gray_dst_sync]
src_queued_estimate == Distance(read_binary_src_sync, write_binary)
dst_queued_estimate == Distance(read_binary, write_binary_dst_sync)

(* Mutant: the word behind the next one is read. *)
WordBehind == memory[Slot(Wrap(read_binary + 1))]

dst_event == memory[Slot(read_binary)]

Full(p) == PointerCode(p) = TopTwoInverted(read_gray_src_sync)

Empty(p) == PointerCode(p) = write_gray_dst_sync

write_event(valid) == valid /\ src_ready
read_event(ready) == dst_valid /\ ready

(* Mutant: the write pointer moves for an offer the FIFO has refused. *)
WriteNextUnguarded(valid) ==
    IF valid THEN Wrap(write_binary + 1) ELSE write_binary

WriteNext(valid) ==
    IF write_event(valid) THEN Wrap(write_binary + 1) ELSE write_binary

(* Mutant: the read pointer moves on ready alone. *)
ReadNextUnguarded(ready) ==
    IF ready THEN Wrap(read_binary + 1) ELSE read_binary

ReadNext(ready) ==
    IF read_event(ready) THEN Wrap(read_binary + 1) ELSE read_binary

QueuedNext(valid) == Distance(read_binary_src_sync, WriteNext(valid))

Saturated(n) == IF n = TELEMETRY_MAX THEN n ELSE n + 1

-----------------------------------------------------------------------------
(* Reset: asserted asynchronously, released through two registers.         *)

SrcRegistersCleared ==
    /\ write_binary' = 0 /\ write_gray' = ZeroCode /\ full' = FALSE
    /\ src_accepted_count' = 0 /\ high_watermark' = 0
    /\ backpressure_sticky' = FALSE /\ telemetry_saturation_sticky' = FALSE
    /\ UNCHANGED memory

DstRegistersCleared ==
    /\ read_binary' = 0 /\ read_gray' = ZeroCode /\ empty' = TRUE
    /\ dst_accepted_count' = 0 /\ underflow_request_sticky' = FALSE
    /\ dst_telemetry_saturation_sticky' = FALSE

SrcCrossingCleared ==
    read_gray_src_meta' = ZeroCode /\ read_gray_src_sync' = ZeroCode
DstCrossingCleared ==
    write_gray_dst_meta' = ZeroCode /\ write_gray_dst_sync' = ZeroCode

SrcResetEdge ==
    /\ src_reset_meta' = src_rst_n
    /\ src_local_rst_n' = (src_rst_n /\ src_reset_meta)

DstResetEdge ==
    /\ dst_reset_meta' = dst_rst_n
    /\ dst_local_rst_n' = (dst_rst_n /\ dst_reset_meta)

(* A shot boundary: both resets fall together, as the module requires.     *)
AssertResets ==
    /\ src_rst_n \/ dst_rst_n
    /\ src_rst_n' = FALSE /\ dst_rst_n' = FALSE
    /\ src_reset_meta' = FALSE /\ src_local_rst_n' = FALSE
    /\ dst_reset_meta' = FALSE /\ dst_local_rst_n' = FALSE
    /\ SrcRegistersCleared /\ SrcCrossingCleared
    /\ DstRegistersCleared /\ DstCrossingCleared

ReleaseSrcReset ==
    /\ ~src_rst_n
    /\ src_rst_n' = TRUE
    /\ UNCHANGED <<dst_rst_n, srcRegs, dstRegs>>

ReleaseDstReset ==
    /\ ~dst_rst_n
    /\ dst_rst_n' = TRUE
    /\ UNCHANGED <<src_rst_n, srcRegs, dstRegs>>

-----------------------------------------------------------------------------
(* One positive edge of src_clk. *)

SrcWrite(valid, event) ==
    /\ write_binary' = WriteNext(valid)
    /\ write_gray' = PointerCode(WriteNext(valid))
    /\ full' = Full(WriteNext(valid))
    /\ memory' = IF write_event(valid)
                 THEN [memory EXCEPT ![Slot(write_binary)] = event]
                 ELSE memory

SrcAccount(valid) ==
    /\ src_accepted_count' =
          IF write_event(valid) THEN Saturated(src_accepted_count)
                                ELSE src_accepted_count
    /\ telemetry_saturation_sticky' =
          (telemetry_saturation_sticky
              \/ (write_event(valid) /\ src_accepted_count = TELEMETRY_MAX))
    /\ backpressure_sticky' = (backpressure_sticky \/ (valid /\ ~src_ready))
    /\ high_watermark' = IF QueuedNext(valid) > high_watermark
                         THEN QueuedNext(valid) ELSE high_watermark

SrcAdvance(valid, event) ==
    /\ SrcResetEdge
    /\ IF src_local_rst_n
       THEN SrcWrite(valid, event) /\ SrcAccount(valid)
       ELSE SrcRegistersCleared

(* Mutant: the second register keeps its own value. *)
SrcSampleStuck(code) ==
    IF src_local_rst_n
    THEN /\ read_gray_src_meta' = code
         /\ UNCHANGED read_gray_src_sync
    ELSE SrcCrossingCleared

SrcSample(code) ==
    IF src_local_rst_n
    THEN /\ read_gray_src_meta' = code
         /\ read_gray_src_sync' = read_gray_src_meta
    ELSE SrcCrossingCleared

(* One positive edge of dst_clk. *)

DstRead(ready) ==
    /\ read_binary' = ReadNext(ready)
    /\ read_gray' = PointerCode(ReadNext(ready))
    /\ empty' = Empty(ReadNext(ready))

DstAccount(ready) ==
    /\ dst_accepted_count' =
          IF read_event(ready) THEN Saturated(dst_accepted_count)
                               ELSE dst_accepted_count
    /\ dst_telemetry_saturation_sticky' =
          (dst_telemetry_saturation_sticky
              \/ (read_event(ready) /\ dst_accepted_count = TELEMETRY_MAX))
    /\ underflow_request_sticky' =
          (underflow_request_sticky \/ (ready /\ ~dst_valid))

DstAdvance(ready) ==
    /\ DstResetEdge
    /\ IF dst_local_rst_n
       THEN DstRead(ready) /\ DstAccount(ready)
       ELSE DstRegistersCleared

DstSample(code) ==
    IF dst_local_rst_n
    THEN /\ write_gray_dst_meta' = code
         /\ write_gray_dst_sync' = write_gray_dst_meta
    ELSE DstCrossingCleared

-----------------------------------------------------------------------------

Init ==
    /\ src_rst_n = FALSE /\ src_reset_meta = FALSE /\ src_local_rst_n = FALSE
    /\ write_binary = 0 /\ write_gray = ZeroCode /\ full = FALSE
    /\ memory = [s \in Slots |-> NoEvent]
    /\ read_gray_src_meta = ZeroCode /\ read_gray_src_sync = ZeroCode
    /\ src_accepted_count = 0 /\ high_watermark = 0
    /\ backpressure_sticky = FALSE /\ telemetry_saturation_sticky = FALSE
    /\ dst_rst_n = FALSE /\ dst_reset_meta = FALSE /\ dst_local_rst_n = FALSE
    /\ read_binary = 0 /\ read_gray = ZeroCode /\ empty = TRUE
    /\ write_gray_dst_meta = ZeroCode /\ write_gray_dst_sync = ZeroCode
    /\ dst_accepted_count = 0 /\ underflow_request_sticky = FALSE
    /\ dst_telemetry_saturation_sticky = FALSE

SrcEdge(valid, event) ==
    /\ SrcAdvance(valid, event)
    /\ SrcSample(read_gray)
    /\ UNCHANGED <<src_rst_n, dst_rst_n, dstRegs>>

DstEdge(ready) ==
    /\ DstAdvance(ready)
    /\ DstSample(write_gray)
    /\ UNCHANGED <<src_rst_n, dst_rst_n, srcRegs>>

BothEdges(valid, event, ready) ==
    /\ SrcAdvance(valid, event)
    /\ DstAdvance(ready)
    /\ \E code \in Torn(read_gray, read_gray') : SrcSample(code)
    /\ \E code \in Torn(write_gray, write_gray') : DstSample(code)
    /\ UNCHANGED <<src_rst_n, dst_rst_n>>

SrcTick == \E valid \in BOOLEAN, event \in Events : SrcEdge(valid, event)
DstTick == \E ready \in BOOLEAN : DstEdge(ready)
BothTick == \E valid, ready \in BOOLEAN, event \in Events :
                BothEdges(valid, event, ready)

Next == \/ SrcTick \/ DstTick \/ BothTick
        \/ AssertResets \/ ReleaseSrcReset \/ ReleaseDstReset

Spec == Init /\ [][Next]_vars

(* A destination edge on which the reader is ready. *)
TakingTick == \/ DstEdge(TRUE)
              \/ \E valid \in BOOLEAN, event \in Events :
                    BothEdges(valid, event, TRUE)

-----------------------------------------------------------------------------
(* True occupancy, which neither side can see. *)
Occupancy == Distance(read_binary, write_binary)

(* Backpressure is sound: a write is admitted only into a slot whose event *)
(* the reader has taken, although the writer judges by a stale pointer.    *)
NoOverwrite == src_ready => Occupancy < DEPTH

(* The reader is offered an event only if one is there, although it judges *)
(* by a stale pointer.                                                     *)
NoUnderflow == dst_valid => Occupancy > 0

(* The telemetry ports err on the safe side: the writer over-estimates the *)
(* occupancy and the reader under-estimates it, both within DEPTH.         *)
EstimatesBracketOccupancy ==
    /\ dst_queued_estimate <= Occupancy
    /\ Occupancy <= src_queued_estimate
    /\ src_queued_estimate <= DEPTH

(* The watermark of an epoch bounds every occupancy of that epoch.         *)
WatermarkSound == Occupancy <= high_watermark /\ high_watermark <= DEPTH

(* While neither counter has saturated their difference is exactly what is *)
(* in the FIFO: nothing is lost or delivered twice.                        *)
AccountingConserves ==
    (~telemetry_saturation_sticky /\ ~dst_telemetry_saturation_sticky)
        => src_accepted_count = dst_accepted_count + Occupancy

(* The FIFO implements the queue it promises to be: events leave unchanged *)
(* in the order they were accepted, and an offered event stays offered.    *)
Contents ==
    [i \in 1 .. Occupancy |-> memory[Slot(Wrap(read_binary + i - 1))]]
Queue == INSTANCE EventQueue
    WITH queue <- Contents, Capacity <- DEPTH,
         offered <- IF dst_valid THEN dst_event ELSE NoEvent
ImplementsQueue == Queue!Spec

(* With both clocks running an event in the FIFO is offered to the reader, *)
(* unless a shot boundary flushes it first.                                *)
QueuedEventIsOffered ==
    (Occupancy > 0 /\ dst_rst_n) ~> (dst_valid \/ ~dst_rst_n)

(* Backpressure is not a deadlock: with a reader that is ready again and   *)
(* again, full clears, or the reading side is in reset.                    *)
FullIsTemporary ==
    WF_vars(TakingTick) => (full ~> (~full \/ ~dst_rst_n))

(* Stale pointers err on the safe side everywhere at once: no slot is      *)
(* overwritten, no empty slot is offered, and the estimates and the        *)
(* watermark of the telemetry bracket what is really there.                *)
OccupancySafe ==
    NoOverwrite /\ NoUnderflow /\ EstimatesBracketOccupancy /\ WatermarkSound

(* Neither an event nor a writer is stuck at the crossing.                 *)
NothingStuck == QueuedEventIsOffered /\ FullIsTemporary
=============================================================================
