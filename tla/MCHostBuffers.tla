----------------------------- MODULE MCHostBuffers -----------------------------
(* The three bounded buffers of the host, which share no state: the        *)
(* integrity buffer with the exact-current bridge it feeds, the spike      *)
(* ring and the ring of the DAQ bus mock; and the dispatch that chooses    *)
(* who keeps such a state, Python or Rust.  One of them is in use, the     *)
(* others stay as they were made.  The integers of the u64 domain are cut  *)
(* to 0 .. U64_MAX, those of the spike ring to 0 .. SPIKE_MAX.             *)
EXTENDS LifBridge, TLC

CONSTANTS CAPACITY, SPIKE_MAX, Addresses, MAX_ACCEPTED, MAX_REJECTED,
          RING_CAPACITY, LAST, Payloads,
          NoTable, Torn, Unread, NoEngine, MAX_CALLS

VARIABLES
    in_use,                   \* the buffer the program works with
    ring, spike_last_t_ns, spike_accepted, evicted, rejected, spike_high_watermark,
    overflowed, pushed, inherited, forgotten,
    mode, frames, dropped_frames, bound, last_sequence, frame_last_t_ns, last_out, counts,
    kernel, dispatch_toml, packaged, cache, extension, engine, given, result

Spike == INSTANCE SpikeBuffer
           WITH U64_MAX <- SPIKE_MAX, events <- ring, last_t_ns <- spike_last_t_ns,
                accepted <- spike_accepted, high_watermark <- spike_high_watermark
Bus == INSTANCE DataBusMock WITH last_t_ns <- frame_last_t_ns
Dispatch == INSTANCE BackendDispatch

ASSUME HostParameters == Spike!SpikeAssumption /\ Bus!BusAssumption

MCTimes == 0 .. U64_MAX - PulseWidth

(* Ids and payloads are only compared with one another. *)
Interchangeable ==
    Permutations(Shots) \cup Permutations(Sources) \cup Permutations(Payloads)

spikeVars ==
    <<ring, spike_last_t_ns, spike_accepted, evicted, rejected, spike_high_watermark,
      overflowed, pushed, inherited, forgotten>>
busVars ==
    <<mode, frames, dropped_frames, bound, last_sequence, frame_last_t_ns, last_out, counts>>
dispatchVars ==
    <<kernel, dispatch_toml, packaged, cache, extension, engine, given, result>>
hostVars == <<in_use, lifVars, spikeVars, busVars, dispatchVars>>

HostInit ==
    /\ in_use \in {"bridge", "spikes", "bus", "dispatch"}
    /\ LifInit /\ Spike!SpikeInit /\ Bus!BusInit /\ Dispatch!DispatchInit
    /\ in_use # "bridge" => epoch_start = 0
    /\ in_use # "bus" => mode = "udp_multicast"
    /\ in_use # "dispatch" =>
          kernel = "capacitor_bank" /\ packaged = {} /\ dispatch_toml = NoTable /\ extension = "absent"

HostNext ==
    \/ in_use = "bridge" /\ LifNext /\ UNCHANGED <<in_use, spikeVars, busVars, dispatchVars>>
    \/ in_use = "spikes" /\ Spike!SpikeNext /\ UNCHANGED <<in_use, lifVars, busVars, dispatchVars>>
    \/ in_use = "bus" /\ Bus!BusNext /\ UNCHANGED <<in_use, lifVars, spikeVars, dispatchVars>>
    \/ in_use = "dispatch" /\ Dispatch!DispatchNext /\ UNCHANGED <<in_use, lifVars, spikeVars, busVars>>

HostSpec == HostInit /\ [][HostNext]_hostVars

(* The ring decodes all of a window, or the loss is on record.             *)
RingHidesNoLoss == Spike!RingHidesNoLoss
(* The bus replays its frames in order and counts those it dropped.        *)
ReplayIsFaithful == Bus!ReplayIsFaithful
(* No backend loses or mixes up the state of an engine.                    *)
DispatchKeepsState == Dispatch!DispatchKeepsState
(* A buffer of the dispatched factory is decoded by the dispatched decode. *)
EveryBufferDecodes == Dispatch!EveryBufferDecodes
=============================================================================
