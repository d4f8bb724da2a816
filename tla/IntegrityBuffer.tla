---------------------------- MODULE IntegrityBuffer ----------------------------
(***************************************************************************)
(* AerIntegrityBuffer of src/scpn_mif_core/aer/event_integrity.py: the     *)
(* bounded host-side queue that admits AER events only in sequence and     *)
(* time order, refuses the newest when full, and accounts for every offer. *)
(*                                                                         *)
(* An event is what the ordering rules tell apart; its address, channel    *)
(* and polarity are left out, and a push whose address the map refuses is, *)
(* like every push that raises, a step that changes nothing.               *)
(***************************************************************************)
EXTENDS Integers, Sequences

CONSTANTS Capacity,
          SequenceStarts,    \* values of the constructor's sequence_start
          U64_MAX,           \* where sequences, times and counters end
          Times, Sources,    \* timestamps and source ids events carry
          NoTime, Exhausted  \* None as a time, None as a sequence

ASSUME BufferAssumption ==
    /\ U64_MAX \in Nat /\ Capacity \in 1 .. U64_MAX
    /\ SequenceStarts \subseteq 0 .. U64_MAX
    /\ Times \subseteq 0 .. U64_MAX
    /\ NoTime \notin Nat /\ Exhausted \notin Nat

VARIABLES epoch_start,     \* _epoch_sequence_start, fixed by the constructor
          events, expected_sequence, last_t_ns,
          generated, accepted, dropped, high_watermark, overflow_sticky

telemetry == <<generated, accepted, dropped, high_watermark, overflow_sticky>>
bufferVars == <<epoch_start, events, expected_sequence, last_t_ns, telemetry>>

Sequences == 0 .. U64_MAX
RawAerEvent == [sequence : Sequences, t_ns : Times, source : Sources]

BufferTypeOK ==
    /\ epoch_start \in Sequences
    /\ events \in Seq(RawAerEvent) /\ Len(events) <= Capacity
    /\ expected_sequence \in Sequences \cup {Exhausted}
    /\ last_t_ns \in Times \cup {NoTime}
    /\ generated \in 0 .. U64_MAX /\ accepted \in 0 .. U64_MAX
    /\ dropped \in 0 .. U64_MAX /\ high_watermark \in 0 .. Capacity
    /\ overflow_sticky \in BOOLEAN

BufferInit ==
    /\ epoch_start \in SequenceStarts
    /\ events = <<>>
    /\ expected_sequence = epoch_start /\ last_t_ns = NoTime
    /\ generated = 0 /\ accepted = 0 /\ dropped = 0
    /\ high_watermark = 0 /\ overflow_sticky = FALSE

-----------------------------------------------------------------------------
(* Mutant: a regressed timestamp is let through. *)
ResolvesAnyTime(e) == e.sequence = expected_sequence

(* The checks of _resolve_next that do not concern the address.            *)
Resolves(e) ==
    /\ e.sequence = expected_sequence
    /\ last_t_ns # NoTime => e.t_ns >= last_t_ns

Successor(sequence) == IF sequence = U64_MAX THEN Exhausted ELSE sequence + 1

(* push into a full buffer: the offer is counted, the event and its number *)
(* are not.  A counter at its end raises before anything is assigned.      *)
RejectNewest(e) ==
    /\ Resolves(e) /\ Len(events) = Capacity
    /\ generated < U64_MAX /\ dropped < U64_MAX
    /\ generated' = generated + 1 /\ dropped' = dropped + 1
    /\ overflow_sticky' = TRUE
    /\ UNCHANGED <<epoch_start, events, expected_sequence, last_t_ns>>
    /\ UNCHANGED <<accepted, high_watermark>>

Admit(e) ==
    /\ Resolves(e) /\ Len(events) # Capacity
    /\ generated < U64_MAX /\ accepted < U64_MAX
    /\ events' = Append(events, e)
    /\ generated' = generated + 1 /\ accepted' = accepted + 1
    /\ expected_sequence' = Successor(e.sequence)
    /\ last_t_ns' = e.t_ns
    /\ high_watermark' = IF Len(events) + 1 > high_watermark
                         THEN Len(events) + 1 ELSE high_watermark
    /\ UNCHANGED <<epoch_start, dropped, overflow_sticky>>

push == \E e \in RawAerEvent : RejectNewest(e) \/ Admit(e)

pop_oldest ==
    /\ events # <<>>
    /\ events' = Tail(events)
    /\ UNCHANGED <<epoch_start, expected_sequence, last_t_ns, telemetry>>

StartEpoch ==
    /\ expected_sequence' = epoch_start /\ last_t_ns' = NoTime
    /\ generated' = 0 /\ accepted' = 0 /\ dropped' = 0
    /\ high_watermark' = 0 /\ overflow_sticky' = FALSE
    /\ UNCHANGED <<epoch_start, events>>

reset_epoch == events = <<>> /\ StartEpoch

BufferNext == push \/ pop_oldest \/ reset_epoch

-----------------------------------------------------------------------------
(* Building an AerLossTelemetry never raises: push assigns its state       *)
(* before it takes the snapshot it returns, so a snapshot that raised      *)
(* would leave an event admitted whose caller was told it was not.         *)
TelemetryValid ==
    /\ generated = accepted + dropped
    /\ Len(events) <= accepted /\ high_watermark <= accepted
    /\ dropped > 0 => overflow_sticky

(* How many numbers of the epoch were used so far. *)
Issued == IF expected_sequence = Exhausted THEN U64_MAX - epoch_start + 1
          ELSE expected_sequence - epoch_start

(* Every number of the epoch was used by exactly one admitted event: an    *)
(* event refused for want of room keeps its number for the retry.          *)
NumbersAreAdmitted == accepted = Issued

(* The queue is the newest part of the epoch: its numbers run without a    *)
(* gap up to the one expected next, its times never regress, and the time  *)
(* the next event is held to is that of its last.                          *)
QueueIsContiguous ==
    /\ \A i \in 1 .. Len(events) :
          events[i].sequence = epoch_start + accepted - Len(events) + i - 1
    /\ \A i, j \in 1 .. Len(events) : i < j => events[i].t_ns <= events[j].t_ns
    /\ events # <<>> => events[Len(events)].t_ns = last_t_ns

(* What the host may rely on whatever is pushed, refused, popped or reset: *)
(* a snapshot that never raises, a number for every admitted event, and a  *)
(* queue without a gap.                                                    *)
BufferSound == TelemetryValid /\ NumbersAreAdmitted /\ QueueIsContiguous
=============================================================================
