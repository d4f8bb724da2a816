# Formal models of SCPN-MIF-CORE

TLA+ specifications of the stateful parts of SCPN-MIF-CORE, the control core for
merging two field-reversed plasmoids: the RTL that carries address-events from
the sensors and decides when to fire, the Python lane that checks, replays and
decides on the host, and the producers of the evidence a release is published
with. TLC checks each specification on a small instance; TLAPS proves for every
value of the constants what those checks say of safety.

Paths below are relative to the repository.

## 1. The system

```
 ADC ──> quantiser ────────────────> AER port                  (older, single clock)
 ADC ──> event stream producer ──> asynchronous FIFO ──> consumer clock
         └──────────── event ingress ───────────┘
                                                │ raw events (software)
                                                v
                    AerIntegrityBuffer ──> AerEventStream ──> exact-current LIF bridge ──> scpn-control

 bits, Gray words ──> CDC synchroniser ──> trigger clock                                  (RTL)
 merge evidence ──> trigger fabric (debounce, one-shot) ──> fast veto gate ──> actuator   (RTL)
 phases, positions ──> merge-window monitor ┐
                       safety envelope ─────┴> streaming trigger / batch trigger          (Python)
 noise model ──> trigger probability, fire time         diagnostics ──> stress campaign   (Python)
 observations ──> plasmoid-merger Petri net, pulsed-shot FSM <──> capacitor bank          (Python)
 frames, spikes ──> DAQ bus mock, spike buffer          every kernel ──> backend dispatch (Python)

 MIF decision ──> CONTROL ──> fabric ──> Fusion  = full-chain run ──> manifest
 proofs, results, siblings, sources ──> claims, bundles, matrix, derived files ──> release gate
```

| part | state | operations | talks to | hard behaviour |
|---|---|---|---|---|
| trigger fabric, `hdl/src/triggers/mif_trigger_fabric.sv` | hold counter, one-shot latch | clock edge, asynchronous reset, combinational outputs | wires from evidence, bank, veto, arm | outputs move between edges; break and re-lock; reset over a lock |
| fast veto gate, `mif_fast_veto_gate.sv` | none | combinational | between trigger and actuator | a veto inside the firing cycle |
| asynchronous FIFO, `hdl/src/aer/mif_aer_async_fifo.sv` | memory, two pointers and their Gray codes, four crossing registers, two reset synchronisers, telemetry | edge of either clock, both at once, reset asserted and released | producer and consumer by ready/valid | metastable samples, stale pointers, resets leaving at different times, wrap |
| event stream producer, `hdl/src/sensors/mif_adc_to_aer_event_stream.sv` | accumulator, ring, tick, sequence, telemetry | clock edge, reset | FIFO by ready/valid | overflow, pop and push on one edge, wraps, saturation |
| event ingress, `mif_aer_event_ingress.sv` | its two parts | their edges | producer wired to FIFO | two different resets on one clock |
| quantiser, `hdl/src/sensors/adc_to_spike_quantiser.sv` | accumulator, two saturating pending counters, presented event | clock edge, reset | AER sink by ready/valid | saturation in a stall, starvation of one polarity |
| CDC synchroniser, `hdl/src/aer/mif_aer_cdc_synchroniser.sv` | two flops per bit | clock edge, reset | wires of another domain | a bit that moves in the sampling window |
| references and cosimulation, `tools/*_reference.py`, `cosim/`, `tools/*_cosim.py` | a model of each RTL block | one call per trace | the RTL's outputs | widths, order of pop and push, what a report leaves out |
| integrity buffer, `src/scpn_mif_core/aer/event_integrity.py` | queue, expected number, last time, counters | `push`, `pop_oldest`, `reset_epoch`, snapshot into a stream | caller | a refused event must leave no trace; end of the u64 space; reset under load |
| LIF bridge, `aer/exact_current_lif_bridge.py` | time cursor, sequence cursor, source | `execute`, `reset_shot` | buffer's telemetry, scpn-control | stale streams, retries, CONTROL raising half way |
| spike buffer, `aer/spike_buffer.py` | drop-oldest ring, lifetime telemetry | `push`, `pop_oldest`, `clear`, telemetry reset, decode | caller | an eviction inside the window that is decoded |
| DAQ bus mock, `daq/bus_mock.py` | drop-oldest ring, endpoint, last number and time | `bind`, `inject_frame`, `emit_frame` | caller | damaged, repeated and late blobs; two delivery modes |
| backend dispatch, `_dispatch.py`, the `dispatched_*` factories, `_rust_adapter.py` | cached table | lookup, `reload`, engine calls | `bench/dispatch.toml`, its packaged copy, the extension | a table rewritten under a reader; adapters that mirror only a part of the state |
| streaming trigger, `kinematic/streaming_trigger.py`, `merge_window.py`, `safety_certificate.py`, `merge_trigger.py` | latched decision, streak, previous separation | `push`, `reset` | caller; batch pipeline as its counterpart | precedence of veto, lock and bank; agreement with the batch decision |
| trigger probability, fire time, `kinematic/trigger_probability.py`, `fire_time.py` | distribution over streak states | one recursion over an approach | the decision law it forecasts | a recursion against an exponential number of paths |
| stress injection, `diagnostics/stress_inject.py`, `cosim/stress_to_fabric.py` | time of the last frame, window quantiser | one frame, one window | quantiser reference | jitter against spacing, restart of the accumulator |
| merger Petri net, `lifecycle/plasmoid_merger_petri_net.py` | token, pending transition, dwell, audit log | `step`, `reset` | caller | dwell across broken guards, unsafe ticks, random holds |
| pulsed-shot FSM, `lifecycle/pulsed_shot_fsm.py` | state, transition time, audit log | `step`, `transition_to`, `reset` | caller, bank telemetry | minimum burn after manual steps and resets |
| capacitor bank, `lifecycle/capacitor_bank.py` | voltage, current | `step`, `discharge`, `recharge_status`, feasibility | caller | books of a discharge when the load pumps back; wrong polarity |
| full-chain run, `full_chain/runtime.py` | results so far, artifacts | `run_full_chain_demo` | CONTROL, fabric, Fusion, a directory | death between two artifacts; a second run over the first |
| formal evidence, `tools/formal_manifest.py`, `run_formal.py`, `emit_studio_formal_claim.py`, `evidence.py` | manifest, page, status, claim, bundle | write, check, run, emit | checkout, Hub | edits between any two of them |
| evidence bundles, `evidence.py`, `studio/` | none but what is emitted | map, validate, seal | platform | two lanes that must not disagree; damage under way |
| ecosystem matrix, `ecosystem.py`, `tools/generate_compatibility_matrix.py` | two files | write, check | sibling checkouts | siblings edited during the inspection |
| derived files and release, `tools/`, `.github/workflows/release.yml` | committed files, ledger, receipt | generate, check, review, commit, release | one another | order of generators, death between two writes, stale gates |

There are no threads in the Python parts: each object is driven by one caller,
and the freedom is the order of the caller's calls. Between processes there is
real concurrency: sibling checkouts, tables and files change while they are
read. The RTL is concurrent in earnest: two unrelated clocks, asynchronous resets,
wires that move at any time.

What makes each part correct is what its properties say (section 4); the hazards
behind them are listed line by line in `PROJECT.json`.

## 2. Modules

| module | what it is |
|---|---|
| `TriggerFabric` | fabric and gate; registers, input wires, histories of the sampled lock and the pulses seen at the actuator |
| `FabricCosim` | extends it with both golden references in lockstep |
| `CdcSynchroniser` | the two flops of every bit, with the reference beside them |
| `AdcToSpike`, `AdcCosim` | the quantiser; the same in lockstep with its two references |
| `GrayCode` | pointers, their codes, torn samples; `GrayFacts` are the facts about the code that everything rests on |
| `EventQueue` | the abstract queue: bounded, first in first out, an offered event stays offered until taken |
| `AsyncFifo` | both sides of the FIFO, `SrcEdge`, `DstEdge`, `BothEdges`, the resets |
| `EventStream`, `StreamCosim` | the producer, whose `Clock` is its whole `always_ff` block; the same in lockstep with its reference |
| `EventIngress` | extends `AsyncFifo`, instantiates `EventStream`, joins their source edges |
| `IntegrityBuffer`, `LifBridge` | the host buffer, and the bridge that extends it |
| `SpikeBuffer`, `DataBusMock` | the two drop-oldest rings |
| `BackendDispatch` | table, cache, factories and adapters of one kernel |
| `BatchTrigger` | the batch decision as a pure function of a trace |
| `StreamingTrigger` | the causal engine, extending `BatchTrigger` so the two can be compared |
| `TriggerForecast` | propagation of sensor noise through the decision law, choice of the fire instant |
| `StressChain` | fault injection and windowed spike counts, beside the clean stream and a quantiser that is never restarted |
| `PlasmoidMerger` | the one-safe net |
| `PulsedShot`, `CapacitorBank` | the eight-state ring; the bank on an integer grid |
| `FullChain` | extends `TriggerFabric`: one demo run after another on one directory, dying anywhere |
| `FormalEvidence` | one proof task from checkout to claim and bundle |
| `EvidenceBundles` | the two lanes of mappers, the validator, the seal |
| `Ecosystem` | matrix rows read from checkouts that are edited meanwhile; the two files |
| `ReleaseGate` | generators, their checks, the review, the gates, the release |
| `MC*` | constants for TLC that a `.cfg` cannot express, and compositions of independent parts |
| `*Proof` | theorems, each extending the module it is about |

`SpikeBuffer!Decode` gives what the code returns, or which of its two exceptions it
raises (`"overflowed"`, `"out_of_range"`).

`MCAsyncFifo` also evaluates `GrayFacts` for depths 8, 16 and 32.

*Which compositions are about interaction.* `EventIngress` wires producer to
FIFO; `LifBridge` works on what `IntegrityBuffer` hands out; `StreamingTrigger`
and `TriggerForecast` are compared with the batch decision; the three `*Cosim`
modules and `CdcSynchroniser` step RTL and reference on one stimulus; `FullChain`
drives `TriggerFabric`. `MCLaneParts`, `MCHostBuffers`, `MCLifecycle`,
`MCStreamingTrigger` and `MCEvidence` on the other hand put parts side by side
that share no state: in a behaviour of theirs one part is at work and the others
stay in their initial state (in `MCLaneParts` reset is held on the others). Since
no part reads another's variables, nothing is lost by it, and the state space is
the sum of the parts' and not their product.

### How state and actions correspond to the code

*RTL.* A register is a variable of its name. A clock edge is one action that
computes every next value from the old ones, which is what non-blocking
assignments do; a combinational signal is an operator. An asynchronous reset is
an action of its own, since its edge needs no clock. The word a register samples
from the other clock domain while it changes is any bitwise mixture of the old
and the new (`GrayCode!Torn`). When both clocks rise together, both sides read
old values. Inputs are chosen afresh at every edge.

In the fabric the wires may also move between two edges (`WiresMove`). `settled`
says whether they have kept to the clock since the arming began. A pulse is
counted where the actuator is, behind the veto gate.

The FIFO's contract asks the integrator to reset both sides at each shot
boundary; `AssertResets` is that, and the two releases come in any order.
Events are members of a small set; the fields of an event are the ones the code
orders or compares.

*Cosimulation.* A harness releases reset once and feeds one trace; the RTL and
the reference take each stimulus in one step and are compared after it. At any
point the trace may end. Then the reference is put away and the RTL runs on with
every input it can meet, so the properties of the RTL alone are checked in the
same run.

*Python.* A method is one action. A method that raises before it assigns
anything is a step that changes nothing and is left out; where a method changes
state and may raise afterwards (`push`, which validates its telemetry last), the
change is in the action and `TelemetryValid` says it never raises. `execute`
calls CONTROL before it moves a cursor: if CONTROL raises nothing here changes.
`None` is a model value.

*Files.* A digest is the content it was taken of. A generator that writes two
files is two steps with a possible death between them; where half a file matters
it is `Torn`. The content of a derived file in `ReleaseGate` is the versions of
what it was computed from.

*Real numbers* enter by comparison only, with two exceptions. A sample of the
streaming trigger is a separation on a grid, whether it lies in the merge window,
and its time or none. The envelope is computed in integers with contraction and
disturbance as fractions of `UNIT`. An observation of the merger net, and a sample
of the pulsed shot, is the set of thresholds it passes; for the net any set is
possible (the code's rule that the coalescence asymmetry does not exceed the abort
asymmetry is not used, so the model has more observations than the code). A random
hold is a choice, allowed only if the frozen spec is stochastic. The exceptions
compute: `CapacitorBank` solves the Crank-Nicolson step exactly for C = L = 1 and
a half step of 1, and leaves a step out whose solution is no integer;
`TriggerForecast` counts probabilities in parts of `SURE` per channel and scales
sums by the samples so far, so that the recursion and the sum over all paths can
be compared without rounding. `Phi` need only be increasing and symmetric, on a
set of slacks that contains the negative of each. The error of a noisy separation
is one of finitely many equally likely `Draws`; it is read by two checks, its own
and, contracted, that of the next sample, so `SURE` is the number of pairs of draws.

*Histories.* Variables marked `history` in the modules (executed trace, sampled
locks, ticks a guard has held, owed spikes, refusals beside the ring, evictions a
telemetry reset forgot, the charge noise added, the runs of draws that trip no
check, the trace of an approach, what was seen of a sibling) are only recorded,
never read by an action.

### Assumptions that are not in the code

* `BackendDispatch`: what the extension is (absent, partial, of another version,
  importable) is fixed for a process; the merger net is reset with a seed; an
  engine is given the calls both backends have, which for the Rust-backed spike
  buffer leaves out the telemetry.
* `Ecosystem`: what is installed beside a checkout does not change during a
  behaviour.
* `FormalEvidence`: whether a proof succeeds depends on its inputs alone.
* `ReleaseGate`: one generator at a time; every file exists from the start; a
  review reads a clean HEAD and dates the ledger that day; a file is dirty once
  touched since the last commit; a torn dispatch table still parses for the
  rewriter, with kernels missing; a torn README cannot be refreshed; the timing
  package depends on the formal tasks only, the budget on the Python references.
* `DataBusMock`: one damaged byte changes the FNV-1a sum; header fields are not
  summed and may be damaged unnoticed.

## 3. Runs

| run | module, bounds | distinct question |
|---|---|---|
| `lane` | `MCLaneParts`: hold of 4, traces of up to 9 cycles and then the RTL alone, counts 7..9 and confidences 127, 128 around the thresholds; samples -4, -1, 0, 3 with magnitudes mod 8, threshold 4, counters up to 2; two crossing bits; a FIFO of depth 4, one payload, counters at 0 | firing instant, one-shot, glitches, quantiser, CDC, each against its references; liveness of fabric, quantiser and FIFO |
| `stream` | `MCStreamCosim`: ring of 2, ticks mod 3, numbers 0..3, counters up to 3, traces of up to 7 ticks | identity, accounting, queue, reference |
| `fifo` | `MCAsyncFifo`: depth 4 (the smallest the RTL allows), two payloads, counters up to 7 | safety and the queue |
| `ingress` | `MCEventIngress`: FIFO of 4 behind a ring of 2, numbers 0..7, shots of up to 11 spikes | producer and FIFO composed: where every event is, and which comes out |
| `host_buffers` | `MCHostBuffers`: capacity 2, numbers and times 0..4, epochs starting at 0 or 3, two sources, two shots; spike ring of 2 with times to 3, four accepted and one refused push; bus ring of 2; three calls to an engine | buffer and bridge together, the two rings, dispatch |
| `lifecycle` | `MCLifecycle`: the default delays 1, 2, 2, 3, deterministic and stochastic; minimum burn 4, up to 2 ticks between samples; resistance 0 or 2, voltage up to 3, range 5, two steps a discharge | net, shot, bank; termination |
| `streaming` | `MCStreamingTrigger`: approaches of up to 4 samples, lock after 2, separations 0, 3, 5, 7, tolerance 2; campaigns of 6 frames in windows of 3, jitter 2, noise of -1, 0 or 2 codes, spacings 1 and 5, counts up to 2; forecasts of up to 3 samples, draws -1 and 1, two noise models | decision and envelope, injected faults, forecast |
| `evidence` | `MCEvidence`: hold of 3, 5 RTL cycles, 2 runs; 2 versions of a file; one result mapped; one sibling, or two, one edit, 2 calls; one death, 2 commits, one day with a maximal age of 0 | chain, proofs, bundles, matrix, release |
| `quantiser_stall` | `MCLaneParts`, counters up to 2 | violated: nothing is lost in a stall |
| `fabric_registered` | `MCLaneParts`, hold of 3 | violated: ADR 0008 says the trigger is registered |
| `fabric_hold_one` | `MCLaneParts`, hold of 1 | violated: one pulse per arming |
| `dispatch_decode` | `MCHostBuffers`, as `host_buffers` | violated: every dispatched buffer decodes |

*Why the bounds are enough.* Each bound is there so that its boundary is
crossed. The FIFO's pointers go round twice their depth and its counters
saturate (7 is above the depth, so accounting is seen full and exact before it
stops). The stream's ring wraps every two events, its tick wraps at 3
and its number at 4, its counters stop at 3, so a saturated, a wrapped and a fresh epoch all occur;
seven ticks are longer than any of these cycles. The quantiser's counters saturate
at two, and a sample of the magnitude of the threshold makes a spike at once. A
hold of four cycles lets a lock break at each position of the count, and nine
cycles hold two complete locks. The buffer's number space ends after five events,
so exhaustion, the last number, and an epoch that begins close to the end are
reached with a queue of two. Both rings overflow on the third event, and the fourth push leaves one more after
a reset of the telemetry has forgotten an eviction. Three calls
are one more than an adapter needs to fall behind its mirror and one to start
over. The three merger delays differ, so a dwell carried from one stage to another
would show; a minimum burn of 4 takes at least two samples of any spacing. The
bank rings through zero to the wrong polarity within two steps, and past its
range. Four samples are two locks' worth: a violation before, with and after the
lock, and a lock after a broken streak. Separations up to 7 lie beyond what the
envelope of the tolerance allows at every sample. Six frames are two
windows, so a residue can be carried over a restart, and two spikes fill the counter; frames 1 apart with a jitter of 2 change places, frames 5 apart
must not. Three samples pass one draw through two checks. One death and two runs
leave an old artifact of every kind beside a new one. One
result is mapped, because no bundle reads another; two siblings are enough for an
edit between their rows (`MatrixHolds` is about any number); two commits are a release and the reviewed commit
before it; one day is enough to make a receipt stale. What must hold for every
size is proved (section 5).

A shot of `ingress` makes at most as many spikes as the producer's counters can
count (`ShotIsCounted`; the saturated counters are met in `stream` and `fifo`).
Eleven spikes fill both buffers, lose some, and take the FIFO's pointers round; the
number wraps after eight, so the six events in transit differ in it (unless a run of
losses stands between them), and one that is lost, repeated, changed or out of order
between the producer's ring and the reader shows. The FIFO of `lane` counts nothing
because no liveness depends on it. Sources, shots and payloads are interchangeable in `host_buffers`, which checks no
liveness, and are declared symmetric there.

`streaming` and `evidence` allow a state without a successor, because an approach,
a campaign and a bounded number of edits, deaths and days end. Everywhere else TLC
looks for deadlocks.

### Fairness

* RTL: the clocks run. Weak fairness of the lockstep cycle and, once the RTL is
  alone, of its clock edge; in the FIFO each clock ticks again and again, alone or
  together with the other; nothing is assumed of resets or inputs.
  `FullIsTemporary` assumes, in the property, a reader that is ready again and
  again. In the quantiser a sink that stalls comes back (`TakingEdge`): without it
  nothing can be promised, and the AER protocol requires it.
* Merger: the caller keeps sampling (`WF` of `step`), as its campaigns do in a
  loop. `MergeCompletes` assumes draws that do not hold for ever. The code's
  generator is a linear congruential one of full period, so with any firing
  probability above its resolution it cannot; this is the only place where
  probability is turned into fairness.
* Pulsed shot: the controller keeps sampling a plasma that passes the thresholds
  (`WF` of `NominalStep`). A shot whose plasma never does stays where it is, in
  the code as in the model.
* All other parts promise nothing eventually: their callers may stop.

## 4. Properties

*Fabric.* `FiresAtHold`: the actuator sees a fire in exactly the cycle that
completes the hold, once, earned by a full hold of sampled locks whatever glitches
between edges, and never withheld after it. `AtMostOnePulsePerArming`.
`PersistentLockFires`. `CosimBitTrue`: both references agree with the RTL in every
output and register on every trace, and the report counts and dates the pulses.

*Quantiser.* `SpikesConserved` by polarity below saturation. `WindowDrains`: when
the acquisition window has closed, everything pending gets out. `AdcBitTrue`: the
references agree, and the report's verdict is true exactly of a drained trace.

*CDC.* `CrossesInTwoEdges`: what comes out was on the wires in the sampling window
two edges ago, whatever a first flop resolved to.

*FIFO.* `OccupancySafe`: stale pointers err on the safe side everywhere at once
(no overwrite, no underflow, bracketing estimates, sound watermark).
`AccountingConserves` until a counter saturates. `ImplementsQueue`: it refines
`EventQueue`. `NothingStuck`: a queued event is offered, full is temporary.

*Producer.* `SpikesConserved`. `NumbersTellTheLoss`: until a wrap is on record,
tick and number in the ring strictly increase; the number of an event is that of
the one before it plus one for every spike refused between the two; and until a
number or a counter runs out, the numbers nobody sees are as many as the drop
counter says. `StreamBitTrue`: the reference reports what the RTL holds after every edge.
`ImplementsQueue`.

*Ingress.* `LossIsAccounted`: both buffers and the drop counters add up to what
was generated; and with a ring of at least two, a drop is always preceded by
recorded backpressure (with one slot the two edges by which the FIFO leaves reset
later than the producer can drop a spike with none on record).
`ImplementsIngressQueue`: together they refine one queue of the summed capacity.

*Buffer and bridge.* `BufferSound`: the self-validating snapshot never raises,
every admitted event has its number, the queue has no gap. `ExecutedOnceInOrder`:
whatever the caller retries, CONTROL runs the events of a shot once each, in
order, without a gap. `ExecutedIsCausal`: times do not regress across batches,
each pulse ends before the cursor, one source drives the shot.

*Rings.* `RingHidesNoLoss`: a window that starts after everything evicted decodes
as if nothing had been; one that comes out short does so in an epoch whose
telemetry has the overflow on record, or after a reset of the telemetry that
forgot an eviction; and an epoch tells of an overflow exactly if it lost something,
across clears and epochs. `ReplayIsFaithful`: the bus replays
in order and undamaged, whatever repeated, late or damaged blobs came between the
emissions, and the DMA ring counts what it drops.

*Dispatch.* `DispatchKeepsState`: whatever the table said when an engine was made,
and however table and cache moved since, a reader sees what the engine's calls
made of it, also through helpers inherited from Python; a decode that gives
features gives those of the buffer it was handed; one is refused only to a Rust
buffer, which keeps its state; and anything else fails only for an unreadable
table or an extension that cannot be imported.

*Streaming trigger.* `DecisionIsExact`: the causal decision is the batch decision
on the approach cut at its first lock, and the observables name the first lock and
the first violation. Hence (`AgreesWithBatch`, a part of it) an armed decision is
the batch decision on the whole approach, unless a violation comes strictly after
the first lock, which the causal lane cannot have known.
`SafeMeansWithinTolerance`: the runtime counterpart of the Lean envelope theorem.

*Faults and forecast.* `FaultsAreBounded`: jitter reorders no frames that are
spaced by more than twice its magnitude (which the campaigns check and the chain to
the fabric does not), and takes no time below zero; losses never add spike evidence
to a window; noise adds no more than its charge pays for, and one spike for each
silent sample it woke; and restarting the accumulator in every window costs no more
than what the previous one left in it. `PlanIsCausal`: an
instant planned on the nominal approach is the one at which the causal trigger
fires on it, and where that one fires and nothing is planned the approach is
violated later; the policy of the widest margin plans for the same approaches, no
earlier, in a lock and with no smaller margin.
`ForecastIsSound` has three parts. `LawOfIndependentChecks`: if every check drew
its own noise, the recursion over streak states and the product of survivals would
give, to the last part, the chance of each decision over every path.
`ErrsTowardsFire`: on the approach itself, where a separation's error is shared by
two checks, independence is an approximation (the code's docstring says so), and it
errs to one side: an approach survives, and fires, with at most the chance the
forecast gives. Without noise the forecast is the decision itself.

*Lifecycle.* `ShotIsLawful`: the log is a lap of the ring, and a burn nobody cut
short lasted its minimum in sampled time, also when entered by hand or after a
reset. `ShotCompletes`. `BankAccounts`: reported delivery is what load and
resistance took, a recharge projection promises no energy that was not supplied,
and a weaker pulse is never less feasible. `LeavesOnTime`: a stage of the merger
is left no earlier, and in a deterministic net no later, than its guard has held
for its delay; an unsafe tick aborts at once; the log is the token's path.
`MergeCompletes`.

*Evidence.* `TriggerIsUnanimous`: the fabric of the chain fires only if MIF, both
permits of CONTROL and the bank agree, and once. `ManifestIsTruthful`: a chain
manifest lies beside the complete artifacts of one run only. `GatesAreHonest`:
what the formal gates passed is what was proved; an admitted claim that passed
speaks of this checkout; the Hub voids only bundles of a drifted manifest.
`ClaimsStayHonest`: the two lanes admit the same results, the canonical one
claims no more, and less only where a validation was not re-run at its source; and
no one change of a legacy bundle under way, to any value its field can hold, gets a
measurement through the validator as a proof (what the validator does not stop is
noted below). `MatrixIsHonest`: a row lets MIF integrate only on surfaces that a
moment of the checkout or the package installed beside it showed, all in one moment
if nobody edited the checkout, and so for the rows on both pages a passing check
leaves. `ReleaseIsConsistent`: in what is released every derived file but the
dispatch table is the one its sources give, the bundle digests the files beside it,
and the receipt is of a fresh review of the commit before.

Types are not among the runs' properties: they are theorems, or conjuncts of the
inductive invariants of section 5.

Each property of a passing run has a mutant in `PROJECT.json`: a plausible bug of
the code, named `Mutant` in the module, under which TLC finds the property
violated.

### Disagreements with the documentation

1. **The trigger is combinational.** ADR 0008 (`docs/adr/0008-combinational-fast-veto-lane.md:36-37`,
   `:44-45`) and the gate's header (`mif_fast_veto_gate.sv:23-24`) call it
   registered, influenced by the veto only through the next edge. It is a wire
   (`mif_trigger_fabric.sv:84-85`) and moves with the inputs. Run `fabric_registered`.
   A consequence outside the checked premise: a veto that comes and goes inside
   the firing cycle makes the actuator see two pulses of one arming.
2. **A hold of one cycle.** `mif_trigger_fabric.sv:38-39` promises one pulse per
   arming; with `LOCK_HOLD_CYCLES = 1`, which the reference model admits, the
   trigger is high for as long as reset is held over a lock. Run `fabric_hold_one`.
3. **A stall can lose a spike.** The quantiser's harness says no event is lost
   when the bus stalls; a saturated pending counter discards one silently
   (`adc_to_spike_quantiser.sv:93-99`). Run `quantiser_stall`.
4. **A dispatched buffer may not decode.** `dispatched_decode_spike_features`
   promises to "Decode AER features through the fastest available backend for the
   strategy." (`aer/__init__.py:80`), and the adapter is an "Adapter exposing the
   Python spike-buffer API on top of the PyO3 buffer." (`aer/_rust_adapter.py:33`).
   The Python decode raises `TypeError` for it (`spike_buffer.py:230-231`): always
   for `temporal` and `isi`, and for `rate` once the table prefers Python. Run
   `dispatch_decode`. The buffer's state survives the refusal (`DispatchKeepsState`).

Noted in reading and not claimed as findings.

* *Trigger.* An unarmed streaming lane holds through a lock the batch pipeline
  decides, since the latter has no arm input. The first lock time of an untimed
  lock is taken by a later timed one (`merge_window.py:115`). The forecast's
  independence of consecutive checks (`trigger_probability.py:39-44`) overstates the
  chance to fire; `ErrsTowardsFire` shows the direction and no bound on the size.
  The chain to the fabric (`cosim/stress_to_fabric.py:37-69`) makes no spacing
  check, so its time stamps may change places; its codes keep frame order.
* *Lifecycle.* `PlasmoidMergerPetriNet.copy` copies the generator's state where
  its docstring says "independently seeded"; a stochastic hold applies to an abort
  too, which the next safe observation then cancels. `transition_to` asks no guard,
  so a manual step may leave burn early. A bank at negative voltage passes the
  natural-peak test whatever the pulse. A discharge that raises midway has
  advanced the bank.
* *Host.* After a producer overflow the integrity buffer refuses everything until
  both ends restart: the number it waits for has been spent. `reset_shot` puts the
  bridge's cursor at 0 while a buffer may start at another number. The DAQ
  checksum does not cover the header. `SpikeBuffer.reset_telemetry` forgets an
  eviction whose gap is still in reach of a window: the decode comes out short and
  `overflowed` is false (`spike_buffer.py:168-174`).
* *Dispatch.* `RustBackedPlasmoidMergerPetriNet.reset(None)` starts from seed 0
  where Python draws on; the Rust-backed spike buffer lacks `telemetry` and
  `reset_telemetry`; the merger, Doppler and moving-frame adapters lack `copy`;
  the unguarded factories (campaigns, kinematic, physics, diagnostics) raise on a
  partial extension where the guarded ones fall back; a reader during
  `update_dispatch`'s rewrite may cache a torn or empty table until `reload`.
* *References.* The quantiser reference accumulates without a bound where the RTL
  has a width; the windowed counts restart an accumulator the RTL keeps.
* *Evidence.* No gate runs `update_dispatch --check`, and each write restamps
  `last_updated`, which stales the FAIR bundle; two Faraday result files map to one
  kernel, and the last wins; the gates are not run again at the tag, so a check
  that depends on the date may be stale; nothing enforces that the release commit
  changes only receipt and bundle; the FAIR bundle's reproduction commands omit
  the formal-manifest, timing, budget and dispatch checks; the matrix's note
  "Runtime import is non-authoritative" is also put on rows that are
  `blocked_runtime` (`ecosystem.py:617-618`). A package installed in the environment
  makes module and contract surfaces and the import ready that the checkout lacks
  (`ecosystem.py:510-560`, `:624-642`). `validate_studio_bundle` recomputes no
  digest and compares nothing with the result: a status, admission, exactness or
  result changed to another valid value passes (`evidence.py:479-486`). A claim
  emitted between a move of the tree and the next run gate rests on a stale status
  (`emit_studio_formal_claim.py:42-55`); only that gate keeps it from use. A ledger
  edited after its receipt is not compared with it again. Two concurrent runs of
  the full chain may both find one directory empty (`runtime.py:638`, `:675`).

## 5. Proofs

Eight modules, all checked to the last leaf. The constants are arbitrary within
the named `ASSUME`s of the modules they are declared in; TLC evaluates each of
them on every run.

| module | for every | proves |
|---|---|---|
| `LaneProof` | hold, thresholds, counter and sample widths, word width, length of a trace | types, that glitches keep the hold, `FiresAtHold`, `AtMostOnePulsePerArming`, `CosimBitTrue`; `SpikesConserved`, `AdcBitTrue`; `CrossesInTwoEdges` |
| `AsyncFifoProof` | power-of-two depth, payloads, saturation point | types, `OccupancySafe`, `AccountingConserves`, `ImplementsQueue` |
| `EventStreamProof` | depth, widths, threshold allowed by `WidthAssumption`, length of a trace | types, `SpikesConserved`, that the accumulator owes no spike, that overflow means a full ring, `NumbersTellTheLoss`, `StreamBitTrue`, `ImplementsQueue` |
| `IngressProof` | depth of the ring and of the FIFO | `LossIsAccounted`, `ImplementsIngressQueue` |
| `HostProof` | capacities, u64 bound, epoch origin, pulse width, sources, shots, payloads; calls and tables | types, `BufferSound`, `ExecutedOnceInOrder`, `ExecutedIsCausal`; `RingHidesNoLoss`; `ReplayIsFaithful`; `DispatchKeepsState` |
| `LifecycleProof` | delays; minimum burn; resistances, voltages, powers, number of steps | types, `LeavesOnTime`; `ShotIsLawful`; `BankAccounts` |
| `StreamingTriggerProof` | envelope with contraction + disturbance at most 1, debounce, trace length; ADC range, threshold, window, noise, jitter, spacing, counter width; slacks, draws, symmetric distribution, noisy channels | types, `DecisionIsExact` and the part `AgreesWithBatch` on its own, `SafeMeansWithinTolerance`; `FaultsAreBounded`; `PlanIsCausal`, and of `ForecastIsSound` the part `LawOfIndependentChecks` |
| `EvidenceProof` | hold, trajectories, results, file contents, siblings, ages, numbers of edits, calls and deaths | `TriggerIsUnanimous`, `ManifestIsTruthful`, `GatesAreHonest`, `ClaimsStayHonest`, `MatrixIsHonest`, `ReleaseIsConsistent` |

`AtMostOnePulsePerArming` and `FiresAtHold` are proved for a hold of at least two
(for one the first is false, run `fabric_hold_one`), and `AdcBitTrue` under the
hypothesis `SamplesFit`: no magnitude is above the threshold, and threshold and
magnitude fit the accumulator together. Beyond it the property is not true,
because the reference's accumulator has no width; the default build is within it.

The arguments:

* *Fabric.* While a lock lasts, the countdown and the number of sampled locks add
  up to the hold. The countdown is at its last step exactly one sampled lock
  before the hold is complete, and whether this arming has pulsed is what the
  latch remembers once an edge has seen the pulse.
* *References.* A comparison after every cycle is not inductive: two lanes may
  agree on every output now and not at the next edge. The invariants say that the
  reference is in the state of the RTL, register by register (`FabricInv`,
  `TraceInv`), and for the producer, whose reference keeps a list where the RTL
  keeps a ring, that the list is the ring read from its read pointer, with ticks
  that have not wrapped beside ticks that have (`Lockstep`). That the report is
  the actuator's history, or calls a trace bit-true exactly when it is drained,
  follows from the same correspondence.
* *Quantiser.* What was presented, what is pending and what was delivered add up
  by polarity; a saturated counter is excluded by the premise of the property.
* *CDC.* The second flop holds what the first one held, and at most one bit moves
  in a sampling window, so the first resolved to one of the words then on the wires.
* *FIFO.* Six pointers, the two true ones and the four copies in the crossing
  registers, stand on a circle of twice the depth in a fixed order: the source's
  copies of read, read, the destination's copies of write, write, and write at
  most the depth past the first. None of the properties is inductive without
  that order, since each flag is decided on the stalest copy of the other side.
  The proof moves each pointer on the circle and shows that it stays between its
  neighbours, with torn samples taken care of by `GrayFacts` (neighbouring codes
  differ in one bit, so a torn sample is the old or the new code). `GrayFacts`
  is an assumption of the proofs and TLC evaluates it for depths 4, 8, 16 and 32.
* *Queues.* For the refinements the abstract queue is read off the memory from the
  read pointer on, and `StoredInv` (`RingInv` for the producer) says that each of
  these places holds an event. A write appends because the circular order keeps
  its place clear of all that is stored; a read takes the head; the offer stands
  because the copy of the write pointer only moves towards the write pointer. A
  shot boundary empties both. For the ingress the abstract queue is the FIFO's
  followed by the producer's, and a transfer between them is a stutter.
* *Producer.* Conservation needs the watermark and the residue beside it: the ring
  is never above its depth, a drop means it is full, and the accumulator stays
  below one threshold, so it neither wraps nor owes a second spike. What the
  numbers tell follows from how an edge shifts the ring, with the last entry below
  the next number and the present tick, and from the refusals kept beside the ring:
  before each entry, and since the last one, as many as numbers were spent unseen.
  Summed over what was taken and what is stored they are the drop counter.
* *Ingress.* Each part keeps what it was proved to keep alone, since a step of the
  whole is a step or a stutter of each part. What only the whole knows is `LagInv`:
  while the FIFO's reset still lags behind the producer's, too few edges have
  passed for the producer to have lost a spike, and both ends of the port between
  them have counted the same transfers.
* *Buffer and bridge.* The buffer's invariant relates the expected number, the
  queue and the epoch's counters; the bridge's relates its two cursors to the
  executed trace. A stream in the caller's hands is contiguous by construction,
  so a batch that starts at the cursor extends the trace without a gap however
  stale it is.
* *Spike ring.* The ring is the end of everything pushed, which is in the order of
  time, and as many were evicted as are missing from it. A window that starts
  after the last one evicted therefore selects the same events from both; that
  decoding them gives the same channels is an induction over the events. A window
  that loses something therefore begins no later than an evicted event, and what
  the ring misses beyond the count of its epoch was lost before the epoch began.
* *Bus.* The number and time held against the next frame are those of the frame
  taken last, be it queued or already emitted (`LatestIsHeld`), so the queue
  continues what went out.
* *Dispatch.* Whichever backend an engine has, what a reader sees of it, directly
  or through inherited helpers, is what its calls made (`StandsFor`); an engine
  remains the one it was made while table and cache move, so a decode that turned
  away an engine turned away a Rust one.
* *Merger.* In a place the token can leave, `dwell` is the smaller of the ticks
  the pending guard has held and the ticks spent in this place, and every other
  guard that could fire there has just failed.
* *Shot.* The time since the last transition is the time sampled in the present
  state, and the log is a lap of the ring that ends in it.
* *Bank.* A discharge is a fold over its loads. It is shown to be a recursion over
  rounds, and after each round what was delivered and drawn is what the voltage
  lost (`RoundsKeepBooks`). The bank is the one of the model, whose unit circuit
  (section 2) steps from integers to integers.
* *Streaming trigger.* The engine's few variables are shown to be summaries of the
  history trace (streak = length of the last run of candidates, first violation =
  least violating index), the decision to name the first lock and whether a
  violation came before it; the batch decision is then taken on the cut approach.
  The envelope bound grows by one numerical tolerance per sample, which is what
  the code's comparison allows.
* *Stress.* What a quantiser was given is threshold times spikes plus accumulator.
  For two of them `Exceeds` bounds both the distance of these totals and, since a
  sample makes at most one spike whatever the charge, that of the spikes, by a
  budget of charge and of woken samples. A common sample keeps the bound, a lost
  one only lowers one side, noise spends from the budget, and a restart begins with
  what the other one carries. Saturating the counts shrinks the distance. A frame
  leaves within one jitter of its slot, and slots are `dt_ns` apart.
* *Plan.* The first lock of the nominal approach is unique, and where the causal
  trigger fires on it; the widest margin is taken over a set that contains it.
* *Forecast.* The recursion holds a handful of numbers and the reference is a sum
  over all paths, so the invariant (`ForecastInv`) names the paths each number
  stands for: the entry for streak `m`, times the survival, is the weight of the
  paths that neither locked nor were violated and end in `m` candidates; what is
  not locked, times the survival, is that of all that hold; the fire probability
  is that of the paths that lock first. Comparing totals alone would not be
  inductive: the chance to lock next is that of the longest streak. A path of one
  sample more is one of the shorter paths continued in one of four ways
  (candidate or not, violated or not), each a multiple of the old weight
  (`SumBySample`), and which of the shorter paths get into each kind is a fact
  about paths without numbers (`BeforeHeld`, `BeforeFired`, `BeforeStreaked`).
  The draws do not enter: the law holds for any per-check chance.
* *Evidence.* One producer works at a time, so a step of the whole is for each a
  step of its own or a stutter. Each invariant says how far a run, a call or a
  generator has come and what therefore lies on disk, whole or torn, between two
  deaths: a run starts in an empty directory and writes its manifest last; what a
  check has seen is what was there when it looked; the receipt names the content reviewed.

*Induction over data* is done without the library's induction theorems, which
take an operator: `LeastNatural` gives the least member of a set of naturals from
the well-foundedness of their order, `NaturalSet` the induction principle for sets.
A fold is then a function of a position, and the set of positions at which the
claim holds is all of them. The two lemmas are repeated in the three modules that
use them, which have no module in common. The forecast needs more: `SubsetInduction`
is the same for the parts of a finite set, and from it follow that a fold by a
commutative operation exists, that it may begin with any element (`AnyFirst`) and
that it depends on nothing outside the set. The sum and the product of the model are
two such folds; a sum over a union, along an injection and of zeros come out of that.
The operations are functions (`Adding`, `Multiplying`), since lemmas that take an
operator cannot be used.

*Checked by TLC only.* Liveness (`NothingStuck`, `PersistentLockFires`,
`WindowDrains`, `MergeCompletes`, `ShotCompletes`), because fairness and enabledness
are beyond the prover. Of `ForecastIsSound` the part `ErrsTowardsFire`, a correlation
inequality over the draws of a path, and the noise-free case. Every other safety
property of the passing runs is stated by a theorem. The runs that end in a violation show a disagreement on one instance,
which is all they need to.

## 6. Reproducing

```
tlc -workers 2 -config AsyncFifo.cfg MCAsyncFifo
tlapm AsyncFifoProof.tla
```

and so on for each run and proof listed in `PROJECT.json`.

## 7. Plan

Built in this order: the fabric (the decision to fire), the FIFO (the hardest
concurrency), producer and ingress (composition), buffer and bridge (the host's
end of the same events), quantiser, streaming trigger, merger net; then the
golden references and cosimulations, CDC, pulsed shot and bank, the two rings,
stress and forecast, the full chain, and the producers of evidence up to the
release; last the backend dispatch.

What is left is producer to host: `EventStream` composed with `IntegrityBuffer`.
After an overflow the producer has spent the number the buffer waits for; the
property is that this is always detected and never becomes an unnoticed gap.

## 8. Not modelled

| part | why |
|---|---|
| code of the Rust, Julia, Go and Mojo lanes | ports of the same algorithms; agreement is a matter of parity tests |
| Lean development | already a proof; its envelope theorem is met again as `SafeMeansWithinTolerance` |
| Doppler-Kuramoto, moving-frame UPDE, correlated noise | floating-point integration and statistics |
| Faraday recovery, fusion contracts, normalisation of diagnostics | stateless numerics and validation |
| closed-form RLC response of the bank | floating-point numerics |
| federation, interop and campaign documents, command line | validated once in memory, hashed or printed; no evolving state |
| current trace inside one projected interval, address maps and digests | pure functions whose failure raises before any state changes |
| the merger's `copy`, export to scpn-control and counted campaigns | a copy evolves as the net does; the campaigns' claims are the properties |
| build and upload after the release gates | external services |
| `hdl/formal` harnesses | bounded checks of the same RTL; read for what they promise |
| other tools, benchmarks, docs, web | measurement and presentation around the system |
