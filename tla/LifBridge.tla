------------------------------- MODULE LifBridge -------------------------------
(***************************************************************************)
(* AerExactCurrentLIFBridge of src/scpn_mif_core/aer/                      *)
(* exact_current_lif_bridge.py, fed from the integrity buffer: batches of  *)
(* one shot are projected into current pulses and run through CONTROL,     *)
(* and the time and sequence cursors move only when CONTROL has returned.  *)
(*                                                                         *)
(* The caller may push, pop, reset, snapshot the queue into a stream and   *)
(* execute a stream in any order, so a stream may be stale or a retry.     *)
(* CONTROL is external: it returns or raises.  Currents are left out.      *)
(***************************************************************************)
EXTENDS IntegrityBuffer

CONSTANTS PulseWidth,       \* pulse_width_ns of the projection spec
          Shots,            \* shot ids
          NoSource,         \* None as a source id
          NoStream          \* no stream has been built yet

ASSUME BridgeAssumption ==
    /\ PulseWidth \in 1 .. U64_MAX
    /\ Shots # {} /\ NoSource \notin Sources

VARIABLES
    shot_id, next_start_ns, next_sequence, source_id,
    stream,        \* the AerEventStream in the caller's hands
    origin,        \* history: the number the shot's first event must carry
    executed       \* history: events CONTROL has run in this shot, in order

bridge == <<shot_id, next_start_ns, next_sequence, source_id>>
history == <<origin, executed>>
lifVars == <<bufferVars, bridge, stream, history>>

AerEventStream ==
    [shot : Shots, start : Sequences, events : Seq(RawAerEvent)]

BridgeTypeOK ==
    /\ shot_id \in Shots
    /\ next_start_ns \in 0 .. U64_MAX
    /\ next_sequence \in Sequences \cup {Exhausted}
    /\ source_id \in Sources \cup {NoSource}
    /\ stream \in AerEventStream \cup {NoStream}
    /\ origin \in Sequences
    /\ executed \in Seq(RawAerEvent)

LifTypeOK == BufferTypeOK /\ BridgeTypeOK

LifInit ==
    /\ BufferInit
    /\ shot_id \in Shots /\ source_id = NoSource
    /\ next_start_ns = 0
    /\ next_sequence = epoch_start /\ origin = epoch_start
    /\ stream = NoStream /\ executed = <<>>

-----------------------------------------------------------------------------
(* AerEventStream(shot_id, ..., buffer.events, sequence_start): the        *)
(* envelope raises unless its numbers run from its declared start.         *)
BuildStream ==
    /\ \E start \in Sequences :
          /\ events # <<>> => start = Head(events).sequence
          /\ stream' = [shot |-> shot_id, start |-> start, events |-> events]
    /\ UNCHANGED <<bufferVars, bridge, history>>

Batch == stream.events
SourceIds == {Batch[i].source : i \in DOMAIN Batch}

(* _require_lossless, with the telemetry the buffer gives at the call.     *)
Lossless ==
    /\ Len(events) = Len(Batch)
    /\ dropped = 0 /\ ~overflow_sticky

(* Mutant: only the start of a pulse must lie in the interval. *)
ProjectsStarts(stop_ns) ==
    /\ stop_ns > next_start_ns
    /\ Lossless
    /\ \A s, t \in SourceIds : s = t
    /\ \A i \in DOMAIN Batch :
          next_start_ns <= Batch[i].t_ns /\ Batch[i].t_ns < stop_ns

(* project_aer_events: one source, and every complete pulse inside the     *)
(* half-open interval.                                                     *)
Projects(stop_ns) ==
    /\ stop_ns > next_start_ns
    /\ Lossless
    /\ \A s, t \in SourceIds : s = t
    /\ \A i \in DOMAIN Batch :
          /\ next_start_ns <= Batch[i].t_ns
          /\ Batch[i].t_ns + PulseWidth <= stop_ns

NextSource == IF Batch = <<>> THEN source_id ELSE Head(Batch).source

(* Everything execute checks before it calls CONTROL.                      *)
Executable(stop_ns) ==
    /\ stream # NoStream
    /\ stream.shot = shot_id
    /\ stream.start = next_sequence
    /\ source_id # NoSource => NextSource = source_id
    /\ Projects(stop_ns)

(* Mutant: the cursor wraps at the end of the u64 space. *)
AdvanceWrapping(n) == (next_sequence + n) % (U64_MAX + 1)

Advance(n) == IF next_sequence + n > U64_MAX THEN Exhausted ELSE next_sequence + n

(* CONTROL returns: the cursors move.                                      *)
Execute ==
    /\ \E stop_ns \in 0 .. U64_MAX :
          /\ Executable(stop_ns)
          /\ next_start_ns' = stop_ns
    /\ next_sequence' = Advance(Len(Batch))
    /\ source_id' = NextSource
    /\ executed' = executed \o Batch
    /\ UNCHANGED <<bufferVars, shot_id, stream, origin>>

(* CONTROL is reset first; if that raises, nothing here has moved.         *)
reset_shot ==
    /\ shot_id' \in Shots
    /\ next_start_ns' = 0 /\ next_sequence' = 0 /\ source_id' = NoSource
    /\ origin' = 0 /\ executed' = <<>>
    /\ UNCHANGED <<bufferVars, stream>>

LifNext ==
    \/ BufferNext /\ UNCHANGED <<bridge, stream, history>>
    \/ BuildStream \/ Execute \/ reset_shot

LifSpec == LifInit /\ [][LifNext]_lifVars

-----------------------------------------------------------------------------
(* Whatever the caller retries, drops or reorders, CONTROL runs the events *)
(* of a shot once each, in order and without a gap, and the cursor names   *)
(* the first one it has not run.                                           *)
ExecutedOnceInOrder ==
    /\ \A i \in DOMAIN executed : executed[i].sequence = origin + i - 1
    /\ next_sequence = LET next == origin + Len(executed)
                       IN  IF next > U64_MAX THEN Exhausted ELSE next

(* The trace of a shot is causal across batches: times never regress, each *)
(* pulse ended before the cursor, and one source drives the whole shot.    *)
ExecutedIsCausal ==
    /\ \A i \in DOMAIN executed :
          /\ executed[i].t_ns + PulseWidth <= next_start_ns
          /\ executed[i].source = source_id
    /\ \A i, j \in DOMAIN executed : i < j => executed[i].t_ns <= executed[j].t_ns
=============================================================================
