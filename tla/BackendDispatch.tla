---------------------------- MODULE BackendDispatch ----------------------------
(***************************************************************************)
(* The runtime choice of a backend for a kernel, and the Rust-backed       *)
(* engines it hands out: scpn_mif_core/_dispatch.py, the dispatched_*      *)
(* factories of the packages and their _rust_adapter.py.  A kernel is used *)
(* while the table its order comes from may be rewritten under it.         *)
(*                                                                         *)
(* A table is abstracted to the kernels whose order begins with "rust": a  *)
(* kernel that is missing is Python's.  An engine is abstracted to the     *)
(* calls that made its state, among those both backends have: the adapter  *)
(* of the spike buffer keeps no telemetry and has no reset of it.          *)
(***************************************************************************)
EXTENDS Naturals, Sequences, FiniteSets

CONSTANTS NoTable,     \* the file does not exist
          Torn,        \* a table being written
          Unread,      \* the cache before the first read, or after reload()
          NoEngine,
          MAX_CALLS    \* bound: calls given to an engine

VARIABLES
    kernel,            \* the kernel in use
    dispatch_toml,     \* bench/dispatch.toml, absent from a wheel
    packaged,          \* the snapshot shipped in the wheel
    cache,             \* _dispatch._cache
    extension,         \* the scpn_mif_core_rs this process can find
    engine,            \* what the factory returned
    given,             \* history: the accepted calls the engine's state stands for
    result             \* what the last call came back with

dispatchVars ==
    <<kernel, dispatch_toml, packaged, cache, extension, engine, given, result>>

LifecycleEngines == {"capacitor_bank", "pulsed_shot_fsm", "plasmoid_merger_petri_net"}
KinematicEngines == {"doppler_kuramoto", "moving_frame_upde", "merge_window", "streaming_trigger"}
DiagnosticEngines == {"normalisation", "stress_inject"}
KinematicFunctions == {"sampled_safety_certificate", "trigger_probability"}
Engines == LifecycleEngines \cup KinematicEngines \cup DiagnosticEngines
             \cup {"spike_buffer", "udp_multicast_mock"}
StatelessKernels == KinematicFunctions \cup {"merger_campaign", "faraday_back_emf",
                                            "faraday_recovery_waveform"}

-----------------------------------------------------------------------------
(* The table as one read finds it: the repository's file before the         *)
(* packaged snapshot, and none is an empty one.  A torn file does not       *)
(* parse, or it does with its last kernels missing.                         *)
_read_table_bytes == IF dispatch_toml # NoTable THEN dispatch_toml ELSE packaged

_parse(bytes) == CASE bytes = NoTable -> {{}}
                   [] bytes = Torn    -> {{}, Unread}
                   [] OTHER           -> {bytes}

_load == IF cache # Unread THEN {cache} ELSE _parse(_read_table_bytes)

(* What the import of an adapter gives a factory whose table prefers Rust:  *)
(* an extension without one of its modules raises ModuleNotFoundError, one  *)
(* of another build ImportError, and only the first is ever caught.         *)
Adapter(on_missing) == CASE extension = "importable" -> "rust"
                         [] extension = "partial"    -> on_missing
                         [] OTHER                    -> "raised"

Backend(k, table, on_missing) ==
    IF k \in table /\ extension # "absent" THEN Adapter(on_missing) ELSE "python"

lifecycle(k, table) == Backend(k, table, IF k = "merger_campaign" THEN "raised" ELSE "python")
kinematic(k, table) == Backend(k, table, "raised")
diagnostics(k, table) == Backend(k, table, "raised")
physics(k, table) == Backend(k, table, "raised")
aer(k, table) == Backend(k, table, "python")
daq(k, table) == Backend(k, table, "python")

Chosen(k, table) ==
    CASE k \in LifecycleEngines \cup {"merger_campaign"}    -> lifecycle(k, table)
      [] k \in KinematicEngines \cup KinematicFunctions     -> kinematic(k, table)
      [] k \in DiagnosticEngines                            -> diagnostics(k, table)
      [] k \in {"faraday_back_emf", "faraday_recovery_waveform"} -> physics(k, table)
      [] k = "spike_buffer"                                 -> aer(k, table)
      [] k = "udp_multicast_mock"                           -> daq(k, table)

-----------------------------------------------------------------------------
(* The engines: a Python one keeps its state in its slots, an adapter in    *)
(* the Rust object inside.  Two adapters inherit readers of the slots and   *)
(* keep them up: the bank all of them, the bus the endpoint only.           *)
BindsAt(calls) == {n \in DOMAIN calls : calls[n] = "bind"}
Binds(calls) == [n \in 1 .. Cardinality(BindsAt(calls)) |-> "bind"]

Made(k, backend) == [kernel |-> k, backend |-> backend, inner |-> <<>>, slots |-> <<>>]

Python(e, calls) == [e EXCEPT !.slots = calls]

(* Mutant: the adapter steps the bank inside and leaves the slots behind.   *)
BankWithoutMirror(e, calls) == [e EXCEPT !.inner = calls]

RustBackedCapacitorBank(e, calls) == [e EXCEPT !.inner = calls, !.slots = calls]
RustBackedDataBusMock(e, calls) == [e EXCEPT !.inner = calls, !.slots = Binds(calls)]
RustBackedLifecycle(e, calls) == [e EXCEPT !.inner = calls]
RustBackedKinematic(e, calls) == [e EXCEPT !.inner = calls]
RustBackedDiagnostics(e, calls) == [e EXCEPT !.inner = calls]
RustBackedSpikeBuffer(e, calls) == [e EXCEPT !.inner = calls]

After(e, calls) ==
    IF e.backend = "python" THEN Python(e, calls)
    ELSE CASE e.kernel = "capacitor_bank"     -> RustBackedCapacitorBank(e, calls)
           [] e.kernel = "udp_multicast_mock" -> RustBackedDataBusMock(e, calls)
           [] e.kernel \in KinematicEngines   -> RustBackedKinematic(e, calls)
           [] e.kernel \in DiagnosticEngines  -> RustBackedDiagnostics(e, calls)
           [] e.kernel = "spike_buffer"       -> RustBackedSpikeBuffer(e, calls)
           [] OTHER                           -> RustBackedLifecycle(e, calls)

(* What a reader of the engine sees: state, events, log or frames; and, of  *)
(* the bank's inherited helpers and the bus's endpoint, the slots.          *)
State(e) == IF e.backend = "python" THEN e.slots ELSE e.inner
Inherited(e) == IF e.kernel = "udp_multicast_mock" THEN Binds(e.slots) ELSE e.slots

(* Calls that add to the state, and the engines whose state a call starts   *)
(* over: a reset, a clear, the next diagnostic stream.  A merger net is     *)
(* reset with a seed: without one the adapter starts again from seed 0,     *)
(* where Python draws on from where it was.                                 *)
Calls(k) == CASE k = "udp_multicast_mock" -> {"bind", "inject"}
              [] k \in DiagnosticEngines  -> {}
              [] OTHER                    -> {"step"}
StartedOver == LifecycleEngines \cup DiagnosticEngines
                 \cup {"merge_window", "streaming_trigger", "spike_buffer"}

-----------------------------------------------------------------------------
dispatched ==
    /\ \E table \in _load :
          /\ cache' = table
          /\ LET backend == IF table = Unread THEN "raised" ELSE Chosen(kernel, table) IN
             /\ result' = [kind |-> backend]
             /\ IF backend = "raised" \/ kernel \in StatelessKernels
                THEN UNCHANGED <<engine, given>>
                ELSE engine' = Made(kernel, backend) /\ given' = <<>>
    /\ UNCHANGED <<kernel, dispatch_toml, packaged, extension>>

call ==
    /\ engine # NoEngine
    /\ \E calls \in {Append(given, c) : c \in Calls(kernel)}
                      \cup (IF kernel \in StartedOver THEN {<<"anew">>} ELSE {}) :
          /\ Len(calls) <= MAX_CALLS
          /\ given' = calls /\ engine' = After(engine, calls)
    /\ result' = [kind |-> "called"]
    /\ UNCHANGED <<kernel, dispatch_toml, packaged, cache, extension>>

(* The Python decode takes a SpikeBuffer and raises TypeError for anything  *)
(* else, the adapter of a Rust buffer included.                             *)
decode_spike_features(e) ==
    IF e.backend = "python" THEN [kind |-> "decoded", of |-> e.slots] ELSE [kind |-> "refused"]

(* The decode takes a buffer from wherever the caller had it.  The table is *)
(* asked about a rate only, and Rust decodes none but the Rust buffers.     *)
dispatched_decode_spike_features ==
    /\ kernel = "spike_buffer" /\ engine # NoEngine
    /\ \E strategy \in {"rate", "temporal", "isi"} :
          IF strategy # "rate"
          THEN result' = decode_spike_features(engine) /\ UNCHANGED cache
          ELSE \E table \in _load :
                 /\ cache' = table
                 /\ LET backend == IF table = Unread THEN "raised" ELSE aer("decode_rate", table) IN
                    result' = CASE backend = "raised" -> [kind |-> "raised"]
                                [] backend = "rust" /\ engine.backend = "rust" ->
                                      [kind |-> "decoded", of |-> engine.inner]
                                [] OTHER -> decode_spike_features(engine)
    /\ UNCHANGED <<kernel, dispatch_toml, packaged, extension, engine, given>>

reload ==
    /\ cache' = Unread
    /\ UNCHANGED <<kernel, dispatch_toml, packaged, extension, engine, given, result>>

Tables == SUBSET ({kernel} \cup (IF kernel = "spike_buffer" THEN {"decode_rate"} ELSE {}))

(* update_dispatch rewrites the table in place.                             *)
rewrite_dispatch ==
    /\ dispatch_toml # NoTable
    /\ \/ dispatch_toml' = Torn
       \/ dispatch_toml = Torn /\ dispatch_toml' \in Tables
    /\ UNCHANGED <<kernel, packaged, cache, extension, engine, given, result>>

DispatchInit ==
    /\ kernel \in Engines \cup StatelessKernels
    /\ packaged \in Tables /\ dispatch_toml \in {packaged, NoTable}
    /\ extension \in {"absent", "partial", "incompatible", "importable"}
    /\ cache = Unread /\ engine = NoEngine /\ given = <<>> /\ result = [kind |-> "none"]

DispatchNext ==
    \/ dispatched \/ call \/ dispatched_decode_spike_features \/ reload \/ rewrite_dispatch

DispatchSpec == DispatchInit /\ [][DispatchNext]_dispatchVars

-----------------------------------------------------------------------------
(* Whatever backend the table of the day chose, and however the table and   *)
(* the cache moved since, a reader of an engine sees what its calls made of *)
(* it, through the adapter and through the helpers it inherits from Python; *)
(* a decode that gives features gives those of the buffer it was handed, an *)
(* engine refused by one is a Rust buffer and keeps its state; and any      *)
(* other call that worked with Python fails only for a table that does not  *)
(* parse or for an extension that cannot be imported.                       *)
DispatchKeepsState ==
    /\ engine # NoEngine =>
          /\ State(engine) = given
          /\ engine.kernel = "capacitor_bank" => Inherited(engine) = given
          /\ engine.kernel = "udp_multicast_mock" => Inherited(engine) = Binds(given)
    /\ result.kind = "decoded" => result.of = given
    /\ result.kind = "refused" => engine # NoEngine /\ engine.backend = "rust"
    /\ result.kind = "raised" =>
          \/ cache = Unread
          \/ extension = "incompatible"
          \/ extension = "partial" /\ kernel \notin LifecycleEngines
                /\ kernel \notin {"spike_buffer", "udp_multicast_mock"}

(* A buffer of the dispatched factory is decoded by the dispatched decode,  *)
(* as the backend for the strategy, whichever it is, takes every buffer the *)
(* adapter exposes the Python API on.                                       *)
EveryBufferDecodes == result.kind # "refused"
=============================================================================
