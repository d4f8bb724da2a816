------------------------------ MODULE FullChain ------------------------------
(***************************************************************************)
(* run_full_chain_demo of src/scpn_mif_core/full_chain/runtime.py: the     *)
(* nominal and the safety-veto case, each evaluated twice, through MIF,    *)
(* CONTROL, the trigger fabric and the Fusion actuator, then the evidence  *)
(* bundle, its manifest last.  The fabric is that of TriggerFabric, driven *)
(* with one stimulus for RTL_CYCLES edges.                                 *)
(*                                                                         *)
(* What the numerics and the sibling packages compute is left open: a      *)
(* report, the two permits, a trajectory are choices, made again for every *)
(* evaluation.  The process may die at any point; the directory survives.  *)
(***************************************************************************)
EXTENDS TriggerFabric, Sequences

CONSTANTS RTL_CYCLES,
          Trajectories,       \* records [summary, detail] of the Fusion run
          NoTrajectory,       \* None
          MAX_RUNS            \* bound: invocations on one output directory

ChainAssumption ==
    /\ RTL_CYCLES \in Nat /\ MAX_RUNS \in Nat
    /\ NoTrajectory \notin Trajectories
    /\ \A t \in Trajectories : t.summary # "not invoked"

Plan == <<"nominal", "safety_veto", "nominal", "safety_veto">>
Artifacts == <<"nominal.json", "safety_veto.json", "fusion_trajectory.npz", "summary.md">>
Files == {"nominal.json", "safety_veto.json", "fusion_trajectory.npz", "summary.md",
          "chain_manifest.json"}

VARIABLES
    phase, runs,
    report,                   \* MergeTriggerReport and permits of the case
    cycle, trigger_count,
    results,                  \* FullChainCaseResults so far, in Plan order
    disk                      \* each file: absent, torn, or complete with its content

chainVars == <<vars, phase, runs, report, cycle, trigger_count, results, disk>>

Reports == [lock_achieved : BOOLEAN, safety_passed : BOOLEAN, bank_feasible : BOOLEAN,
            neuro : BOOLEAN, scheduler : BOOLEAN]

ChainInit ==
    /\ Init /\ phase = "idle" /\ runs = 0
    /\ report \in {r \in Reports : r = [f \in DOMAIN r |-> FALSE]}
    /\ cycle = 0 /\ trigger_count = 0 /\ results = <<>>
    /\ disk = [f \in Files |-> [state |-> "absent"]]

-----------------------------------------------------------------------------
outcome(r) ==
    IF ~r.safety_passed THEN "ABORT_UNSAFE"
    ELSE IF ~r.lock_achieved THEN "HOLD_NO_LOCK"
    ELSE IF ~r.bank_feasible THEN "ABORT_BANK_INFEASIBLE"
    ELSE "FIRE"

(* The marking of the Petri net admits fire when all three places are full. *)
float_permit(r) == r.lock_achieved /\ r.safety_passed /\ r.bank_feasible

control_permit(r) == r.neuro /\ r.scheduler

(* Mutant: the scheduler's permit does not arm the fabric. *)
StimulusArmed(r) ==
    [arm |-> TRUE, spike_count |-> SPIKE_THRESHOLD,
     confidence_q8_8 |-> IF r.lock_achieved THEN CONFIDENCE_THRESHOLD_Q8_8 ELSE 0,
     bank_ready |-> r.bank_feasible, safety_veto |-> ~r.safety_passed \/ ~r.neuro]

(* _aer_stimulus: the diagnostic stream is at full scale in every window.  *)
Stimulus(r) ==
    [arm |-> r.scheduler, spike_count |-> SPIKE_THRESHOLD,
     confidence_q8_8 |-> IF r.lock_achieved THEN CONFIDENCE_THRESHOLD_Q8_8 ELSE 0,
     bank_ready |-> r.bank_feasible, safety_veto |-> ~r.safety_passed \/ ~r.neuro]

actuator_admitted ==
    outcome(report) = "FIRE" /\ control_permit(report) /\ trigger_count = 1

(* What _run_case enforces of the finished case; a violation raises.       *)
CaseHolds(name) ==
    /\ report.lock_achieved          \* first_lock_time_s is not None
    /\ \/ name = "nominal" /\ actuator_admitted
       \/ /\ name = "safety_veto"
          /\ outcome(report) = "ABORT_UNSAFE"
          /\ ~control_permit(report) /\ trigger_count = 0
          /\ Stimulus(report).safety_veto

Result(name, trajectory) ==
    [payload |-> [case |-> name, report |-> report, trigger_count |-> trigger_count,
                  fusion |-> IF trajectory = NoTrajectory THEN "not invoked"
                             ELSE trajectory.summary],
     trajectory |-> trajectory]

(* Mutant: the trajectories' samples are not compared. *)
ReplaysPayload(first, second) == first.payload = second.payload

(* verify_full_chain_replay *)
Replays(first, second) ==
    first.payload = second.payload /\ first.trajectory = second.trajectory

-----------------------------------------------------------------------------
Missing(f) == disk[f].state = "absent"
Complete(f) == disk[f].state = "complete"

EmptyDestination == \A f \in Files : Missing(f)

(* The checkouts and the Verilator build are there.                        *)
Start ==
    /\ phase = "idle" /\ runs < MAX_RUNS /\ EmptyDestination
    /\ phase' = "evaluate" /\ runs' = runs + 1 /\ results' = <<>>
    /\ UNCHANGED <<vars, report, cycle, trigger_count, disk>>

(* A case up to its stimulus: the stochastic permit must agree with the    *)
(* float path, and a fresh simulation of the fabric takes the stimulus.    *)
Evaluate ==
    /\ phase = "evaluate" /\ Len(results) < Len(Plan)
    /\ report' \in {r \in Reports : r.neuro = float_permit(r)}
    /\ phase' = "rtl" /\ cycle' = 0 /\ trigger_count' = 0
    /\ rst_n' = TRUE /\ in' = Stimulus(report')
    /\ hold_counter' = RELOAD /\ fired_q' = FALSE
    /\ consec' = 0 /\ settled' = TRUE /\ pulses' = 0
    /\ UNCHANGED <<runs, results, disk>>

RtlCycle ==
    /\ phase = "rtl" /\ cycle < RTL_CYCLES
    /\ ClockEdge /\ UNCHANGED in
    /\ cycle' = cycle + 1
    /\ trigger_count' = trigger_count + (IF trigger THEN 1 ELSE 0)
    /\ UNCHANGED <<phase, runs, report, results, disk>>

Conclude ==
    /\ phase = "rtl" /\ cycle = RTL_CYCLES
    /\ CaseHolds(Plan[Len(results) + 1])
    /\ \E trajectory \in IF actuator_admitted THEN Trajectories ELSE {NoTrajectory} :
          results' = Append(results, Result(Plan[Len(results) + 1], trajectory))
    /\ phase' = "evaluate"
    /\ UNCHANGED <<vars, runs, report, cycle, trigger_count, disk>>

Verify ==
    /\ phase = "evaluate" /\ Len(results) = Len(Plan)
    /\ Replays(results[1], results[3]) /\ Replays(results[2], results[4])
    /\ phase' = "write"
    /\ UNCHANGED <<vars, runs, report, cycle, trigger_count, results, disk>>

Content(f) ==
    [state |-> "complete", run |-> runs,
     of |-> IF f = "nominal.json" THEN results[1].payload
                          ELSE IF f = "safety_veto.json" THEN results[2].payload
                          ELSE IF f = "fusion_trajectory.npz" THEN results[1].trajectory
                          ELSE <<results[1].payload, results[2].payload>>]

(* The artifacts one after another: a write truncates, then completes.     *)
WriteArtifact ==
    /\ phase = "write"
    /\ \E i \in DOMAIN Artifacts :
          /\ \A j \in 1 .. i - 1 : Complete(Artifacts[j])
          /\ ~Complete(Artifacts[i])
          /\ disk' = [disk EXCEPT ![Artifacts[i]] =
                         IF @.state = "absent" THEN [state |-> "torn"] ELSE Content(Artifacts[i])]
    /\ UNCHANGED <<vars, phase, runs, report, cycle, trigger_count, results>>

(* Provenance and digests are read back from the disk, then the manifest   *)
(* is written the same way.                                                *)
WriteManifest ==
    /\ phase = "write"
    /\ \A i \in DOMAIN Artifacts : Complete(Artifacts[i])
    /\ \/ /\ Missing("chain_manifest.json")
          /\ disk' = [disk EXCEPT !["chain_manifest.json"] = [state |-> "torn"]]
          /\ UNCHANGED phase
       \/ /\ disk["chain_manifest.json"].state = "torn"
          /\ disk' = [disk EXCEPT !["chain_manifest.json"] =
                         [state |-> "complete",
                          artifacts |-> [i \in DOMAIN Artifacts |-> disk[Artifacts[i]]],
                          run |-> runs]]
          /\ phase' = "idle"
    /\ UNCHANGED <<vars, runs, report, cycle, trigger_count, results>>

(* An exception or the death of the process, wherever it is.               *)
Abandon ==
    /\ phase # "idle" /\ phase' = "idle"
    /\ UNCHANGED <<vars, runs, report, cycle, trigger_count, results, disk>>

ChainNext == Start \/ Evaluate \/ RtlCycle \/ Conclude \/ Verify
             \/ WriteArtifact \/ WriteManifest \/ Abandon

ChainSpec == ChainInit /\ [][ChainNext]_chainVars

-----------------------------------------------------------------------------
(* The fabric alone is as strict as the three-way admission in front of    *)
(* the actuator: it never fires unless MIF, both CONTROL permits and the   *)
(* bank agree, and then once.                                              *)
TriggerIsUnanimous ==
    trigger_count > 0 => /\ outcome(report) = "FIRE" /\ control_permit(report)
                         /\ trigger_count = 1

(* A manifest is only ever found beside the complete artifacts it lists,   *)
(* all of one run, in which the nominal case actuated, the veto did not,   *)
(* and both replayed to the last sample.                                   *)
ManifestIsTruthful ==
    Complete("chain_manifest.json") =>
        LET manifest == disk["chain_manifest.json"]
        IN  /\ \A i \in DOMAIN Artifacts :
                  /\ disk[Artifacts[i]] = manifest.artifacts[i]
                  /\ manifest.artifacts[i].run = manifest.run
            /\ manifest.artifacts[1].of.fusion # "not invoked"
            /\ manifest.artifacts[2].of.fusion = "not invoked"
            /\ manifest.run = runs =>
                  \A i \in 1 .. 2 : results[i] = results[i + 2]
=============================================================================
