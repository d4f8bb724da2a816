----------------------------- MODULE DataBusMock -----------------------------
(***************************************************************************)
(* DataBusMock of src/scpn_mif_core/daq/bus_mock.py: DAQ frames, or blobs  *)
(* that may have been damaged under way, are checked, queued in a ring     *)
(* that drops its oldest frame when full, and replayed first in first out. *)
(*                                                                         *)
(* A blob is the fields of its header and one payload.  The FNV-1a sum     *)
(* takes every byte in by a bijection, so that a payload with one byte     *)
(* damaged has another sum: a sum is the payload it was taken of.  Header  *)
(* fields are not summed: a damaged number or time may pass.               *)
(***************************************************************************)
EXTENDS Integers, Sequences

CONSTANTS RING_CAPACITY,
          LAST,            \* largest sequence number and time tried
          Payloads         \* value vectors tried

BusAssumption == RING_CAPACITY \in Nat \ {0} /\ LAST \in Nat

VARIABLES
    mode,            \* config.mode
    frames,          \* _frames
    dropped_frames,
    bound,           \* _bound_endpoint
    last_sequence, last_t_ns,      \* -1 for None
    last_out,        \* history: the frame emitted last
    counts           \* history: frames taken and emitted

busVars == <<mode, frames, dropped_frames, bound, last_sequence, last_t_ns, last_out, counts>>

DeliveryMode == {"udp_multicast", "pcie_dma_ring"}
Profiles == {"helion_v1", "tae_v1"}
Profile == "helion_v1"          \* config.profile

Endpoints == {"multicast:port", "unicast:port", "multicast", "ring", "blank"}

Unknown == "unknown"
Damages == {"none", "shortened", "magic", "version", "reserved", "value count", "payload"}

Blob == [mode : DeliveryMode \cup {Unknown}, profile : Profiles \cup {Unknown},
         sequence : 0 .. LAST, t_ns : 0 .. LAST,
         sent : Payloads, payload : Payloads, checksum : Payloads, damage : Damages]

BusInit ==
    /\ mode \in DeliveryMode /\ frames = <<>> /\ dropped_frames = 0 /\ bound = "none"
    /\ last_sequence = -1 /\ last_t_ns = -1
    /\ last_out = [sequence |-> -1, t_ns |-> -1] /\ counts = [taken |-> 0, emitted |-> 0]

-----------------------------------------------------------------------------
bind(addr) ==
    /\ IF mode = "udp_multicast" THEN addr = "multicast:port" ELSE addr # "blank"
    /\ bound' = addr
    /\ UNCHANGED <<mode, frames, dropped_frames, last_sequence, last_t_ns, last_out, counts>>

(* encode_daq_frame, with what may happen to the blob before it arrives.   *)
Encoded ==
    {b \in Blob : b.checksum = b.sent /\ (b.payload # b.sent <=> b.damage = "payload")}

(* decode_daq_frame: everything but the numbers is checked.                *)
Decodes(b) ==
    /\ b.damage \notin Damages \ {"none", "payload"}
    /\ b.checksum = b.payload
    /\ b.mode # Unknown /\ b.profile = Profile

(* Mutant: time is held against the frame emitted last. *)
InOrderOfOutput(b) == b.sequence > last_sequence /\ b.t_ns >= last_out.t_ns

(* _validate_replay_order *)
InReplayOrder(b) == b.sequence > last_sequence /\ b.t_ns >= last_t_ns

CountsDrop == mode = "pcie_dma_ring" /\ Len(frames) = RING_CAPACITY

inject_frame(b) ==
    /\ Decodes(b) /\ b.mode = mode /\ InReplayOrder(b)
    /\ dropped_frames' = dropped_frames + (IF CountsDrop THEN 1 ELSE 0)
    /\ frames' = Append(IF Len(frames) = RING_CAPACITY THEN Tail(frames) ELSE frames, b)
    /\ last_sequence' = b.sequence /\ last_t_ns' = b.t_ns
    /\ counts' = [counts EXCEPT !.taken = @ + 1]
    /\ UNCHANGED <<mode, bound, last_out>>

(* Also emit_diagnostic_sample, which names the channels of the frame.     *)
emit_frame ==
    /\ frames # <<>>
    /\ frames' = Tail(frames)
    /\ last_out' = [sequence |-> Head(frames).sequence, t_ns |-> Head(frames).t_ns]
    /\ counts' = [counts EXCEPT !.emitted = @ + 1]
    /\ UNCHANGED <<mode, dropped_frames, bound, last_sequence, last_t_ns>>

BusNext ==
    \/ \E addr \in Endpoints : bind(addr)
    \/ \E b \in Encoded : inject_frame(b)
    \/ emit_frame

BusSpec == BusInit /\ [][BusNext]_busVars

-----------------------------------------------------------------------------
(* What waits in the ring continues what was emitted: numbers go up, times *)
(* do not go down, every payload is the one that was sent, and nothing of  *)
(* another mode or profile came in, whatever damaged, repeated or late     *)
(* blobs arrived between the emissions.                                    *)
ReplaysInOrder ==
    /\ \A n \in 1 .. Len(frames) :
          LET before == IF n = 1 THEN last_out ELSE frames[n - 1] IN
          frames[n].sequence > before.sequence /\ frames[n].t_ns >= before.t_ns
    /\ \A n \in 1 .. Len(frames) :
          /\ frames[n].payload = frames[n].sent
          /\ frames[n].mode = mode /\ frames[n].profile = Profile

(* On the DMA ring every frame taken was emitted, is waiting, or is        *)
(* counted as dropped; the multicast mock drops without counting.          *)
DropsAreCounted ==
    /\ Len(frames) <= RING_CAPACITY
    /\ counts.taken - counts.emitted - Len(frames)
         \in IF mode = "pcie_dma_ring" THEN {dropped_frames} ELSE Nat
    /\ mode = "udp_multicast" => dropped_frames = 0

(* The replay is that of the frames sent, less those counted as dropped.   *)
ReplayIsFaithful == ReplaysInOrder /\ DropsAreCounted
=============================================================================
