---------------------------- MODULE EvidenceProof ----------------------------
(***************************************************************************)
(* Proofs about the evidence of MCEvidence, for every choice of contents,  *)
(* trajectories, results, siblings and bounds.  One producer works at a    *)
(* time, so a step of the whole is, for every producer, a step of its own  *)
(* or a stutter; each argument is then about one component.                *)
(***************************************************************************)
EXTENDS MCEvidence, TLAPS

LEMMA OneAtWork ==
    [EvidenceNext]_evidenceVars =>
        /\ [ChainNext]_chainVars
        /\ [Formal!Next]_formalVars
        /\ [Bundles!Next]_bundleVars
        /\ [Matrix!EcosystemNext]_ecosystemVars
        /\ [Gate!ReleaseNext]_releaseVars
<1> SUFFICES ASSUME [EvidenceNext]_evidenceVars
             PROVE  /\ ChainNext \/ UNCHANGED chainVars
                    /\ Formal!Next \/ UNCHANGED formalVars
                    /\ Bundles!Next \/ UNCHANGED bundleVars
                    /\ Matrix!EcosystemNext \/ UNCHANGED ecosystemVars
                    /\ Gate!ReleaseNext \/ UNCHANGED releaseVars
    OBVIOUS
<1>1. CASE EvidenceNext
    BY <1>1, Zenon DEF EvidenceNext
<1>2. CASE UNCHANGED evidenceVars
    BY <1>2, Zenon DEF evidenceVars
<1> QED
    BY <1>1, <1>2

-----------------------------------------------------------------------------
(* The formal lane.  A gate that is green was passed in this very checkout: *)
(* an edit or a new manifest turns all of them off, so the manifest pins    *)
(* the present tree, the proof ran on it, and an admitted claim was sealed  *)
(* when the manifest matched it.                                            *)
FormalInv ==
    /\ tree = [f \in Formal!InputFiles |-> tree[f]]
    /\ manifest # NoManifest =>
          manifest.depends_on = [f \in Formal!InputFiles |-> manifest.depends_on[f]]
    /\ "manifest" \in green => manifest = Formal!build_manifest
    /\ "run" \in green => tree \in Provable
    /\ "claim" \in green /\ claim.admission = "admitted" => claim.dependencies = tree
    /\ bundle # NoBundle => bundle.subject_digest = bundle.pinned["hdl/src"]

LEMMA FormalInit == Formal!Init => FormalInv
    BY DEF Formal!Init, FormalInv, Formal!Trees

LEMMA ManifestPinsTree ==
    /\ Formal!build_manifest.depends_on = [f \in Formal!InputFiles |-> tree[f]]
    BY DEF Formal!build_manifest, Formal!DependsOn

LEMMA FormalStep == FormalInv /\ [Formal!Next]_formalVars => FormalInv'
<1> SUFFICES ASSUME FormalInv, [Formal!Next]_formalVars PROVE FormalInv'
    OBVIOUS
<1>1. CASE Formal!Edit
    BY <1>1 DEF FormalInv, Formal!Edit
<1>2. CASE Formal!WriteManifest
    BY <1>2, ManifestPinsTree DEF FormalInv, Formal!WriteManifest
<1>3. CASE Formal!CheckManifest
    BY <1>3 DEF FormalInv, Formal!CheckManifest, Formal!build_manifest, Formal!DependsOn
<1>4. CASE Formal!RunFormal
    BY <1>4 DEF FormalInv, Formal!RunFormal, Formal!build_manifest, Formal!DependsOn
<1>5. CASE Formal!EmitClaim
    BY <1>5 DEF FormalInv, Formal!EmitClaim, Formal!build_manifest, Formal!DependsOn
<1>6. CASE Formal!CheckClaim
    <2>1. claim.admission = "admitted" => claim.dependencies = tree
        BY <1>6 DEF FormalInv, Formal!CheckClaim, Formal!SealedClaim, Formal!established,
                    Formal!dependencies_match, Formal!Emittable
    <2> QED
        BY <1>6, <2>1 DEF FormalInv, Formal!CheckClaim, Formal!build_manifest, Formal!DependsOn
<1>7. CASE Formal!EmitBundle
    BY <1>7 DEF FormalInv, Formal!EmitBundle, Formal!build_manifest, Formal!DependsOn
<1>8. CASE UNCHANGED formalVars
    BY <1>8 DEF FormalInv, formalVars, Formal!build_manifest, Formal!DependsOn
<1> QED
    BY <1>1, <1>2, <1>3, <1>4, <1>5, <1>6, <1>7, <1>8 DEF Formal!Next

LEMMA FormalHonest == FormalInv => GatesAreHonest
<1> SUFFICES ASSUME FormalInv PROVE GatesAreHonest
    OBVIOUS
<1>1. Formal!GatesKeepProofHonest
    BY ManifestPinsTree DEF FormalInv, Formal!GatesKeepProofHonest
<1>2. Formal!GreenClaimHolds
    BY DEF FormalInv, Formal!GreenClaimHolds
<1>3. Formal!HubVoidsOnlyDrift
    BY DEF FormalInv, Formal!HubVoidsOnlyDrift
<1> QED
    BY <1>1, <1>2, <1>3 DEF GatesAreHonest, Formal!GatesAreHonest

(* What the gates of the formal lane passed is what was proved, whatever   *)
(* was edited, regenerated or emitted in between, for every set of inputs  *)
(* for which the proof succeeds.                                           *)
THEOREM GreenMeansProved == EvidenceSpec => []GatesAreHonest
<1>1. EvidenceInit => FormalInv
    BY FormalInit DEF EvidenceInit
<1>2. FormalInv /\ [EvidenceNext]_evidenceVars => FormalInv'
    BY OneAtWork, FormalStep
<1> QED
    BY <1>1, <1>2, FormalHonest, PTL DEF EvidenceSpec

-----------------------------------------------------------------------------
(* The demonstration.  While the fabric runs it is driven by the stimulus  *)
(* of the present report, and a pulse it has counted is remembered in its  *)
(* one-shot; what the count says of the report outlives the run.           *)
Unanimous == outcome(report) = "FIRE" /\ control_permit(report)

CountInv ==
    /\ trigger_count \in {0, 1}
    /\ trigger_count = 1 => Unanimous
    /\ phase = "rtl" =>
          /\ in = Stimulus(report) /\ report \in Reports
          /\ report.neuro = float_permit(report)
          /\ rst_n = TRUE
          /\ trigger_count = 1 => fired_q = TRUE

LEMMA StimulusAgrees ==
    ASSUME report \in Reports, report.neuro = float_permit(report),
           in = Stimulus(report), lock_now
    PROVE  Unanimous /\ in.arm = TRUE
    BY DEF lock_now, LockWith, Stimulus, Reports, float_permit, Unanimous,
           outcome, control_permit

LEMMA CountStep == CountInv /\ [ChainNext]_chainVars => CountInv'
<1> SUFFICES ASSUME CountInv, [ChainNext]_chainVars PROVE CountInv'
    OBVIOUS
<1>1. CASE Evaluate
    BY <1>1 DEF CountInv, Evaluate, Unanimous, float_permit
<1>2. CASE RtlCycle
    <2>1. /\ phase = "rtl" /\ phase' = "rtl" /\ report' = report /\ in' = in
          /\ rst_n = TRUE /\ rst_n' = TRUE
          /\ in = Stimulus(report) /\ report \in Reports
          /\ report.neuro = float_permit(report)
          /\ Unanimous' = Unanimous
        BY <1>2 DEF CountInv, RtlCycle, ClockEdge, Unanimous
    <2>2. trigger => Unanimous /\ in.arm = TRUE /\ trigger_count = 0
        BY <2>1, StimulusAgrees DEF trigger, fire_pulse, PulseWith, lock_now, CountInv
    <2>3. fired_q' = (in.arm /\ (fired_q \/ fire_pulse))
        BY <1>2, <2>1 DEF RtlCycle, ClockEdge, FiredNext
    <2>4. in.arm \in BOOLEAN /\ (trigger_count = 1 => in.arm = TRUE)
        BY <2>1 DEF CountInv, Stimulus, Reports, Unanimous, control_permit
    <2>5. CASE trigger
        <3>1. trigger_count' = 1
            BY <1>2, <2>2, <2>5 DEF RtlCycle
        <3>2. fired_q' = TRUE
            BY <2>2, <2>3, <2>5, Zenon DEF trigger
        <3> QED
            BY <2>1, <2>2, <2>5, <3>1, <3>2 DEF CountInv
    <2>6. CASE ~trigger
        <3>1. trigger_count' = trigger_count
            BY <1>2, <2>6 DEF RtlCycle, CountInv
        <3>2. trigger_count = 1 => fired_q' = TRUE
            BY <2>1, <2>3, <2>4 DEF CountInv
        <3> QED
            BY <2>1, <3>1, <3>2 DEF CountInv
    <2> QED
        BY <2>5, <2>6
<1>3. CASE Start \/ Conclude \/ Verify \/ WriteArtifact \/ WriteManifest \/ Abandon
    <2>1. phase' # "rtl" /\ UNCHANGED <<report, trigger_count>>
        BY <1>3 DEF CountInv, Start, Conclude, Verify, WriteArtifact, WriteManifest, Abandon
    <2> QED
        BY <2>1 DEF CountInv, Unanimous
<1>4. CASE UNCHANGED chainVars
    BY <1>4 DEF CountInv, chainVars, vars, regs, Unanimous
<1> QED
    BY <1>1, <1>2, <1>3, <1>4 DEF ChainNext

(* For every hold, threshold and number of edges the fabric alone is as    *)
(* strict as the admission in front of the actuator, and pulses once.      *)
THEOREM FabricIsUnanimous == EvidenceSpec => []TriggerIsUnanimous
<1>1. EvidenceInit => CountInv
    BY DEF EvidenceInit, ChainInit, CountInv
<1>2. CountInv /\ [EvidenceNext]_evidenceVars => CountInv'
    BY OneAtWork, CountStep
<1>3. CountInv => TriggerIsUnanimous
    BY DEF CountInv, TriggerIsUnanimous, Unanimous
<1> QED
    BY <1>1, <1>2, <1>3, PTL DEF EvidenceSpec

-----------------------------------------------------------------------------
(* The bundle of the demonstration.  The directory is empty until all four *)
(* cases are there and replayed, and it is never used again: everything in *)
(* it comes from the results of the present run.                           *)
Kept == {"nominal.json", "safety_veto.json", "fusion_trajectory.npz", "summary.md"}

ResultInv(n) ==
    LET result == results[n]
    IN  /\ result = [payload |-> result.payload, trajectory |-> result.trajectory]
        /\ n \in {1, 3} => result.payload.fusion # "not invoked"
        /\ n \in {2, 4} => result.payload.fusion = "not invoked"

ResultsInv ==
    /\ results \in Seq(UNION {{results[n]} : n \in DOMAIN results}) /\ Len(results) <= 4
    /\ \A n \in 1 .. Len(results) : ResultInv(n)

Replayed == /\ Len(results) = 4
            /\ results[1] = results[3] /\ results[2] = results[4]

DiskInv ==
    /\ disk = [f \in Files |-> disk[f]]
    /\ \A f \in Kept : Complete(f) => disk[f] = Content(f)
    /\ Complete("chain_manifest.json") =>
          /\ disk["chain_manifest.json"].run = runs
          /\ \A i \in 1 .. 4 :
                /\ Complete(Artifacts[i])
                /\ disk["chain_manifest.json"].artifacts[i] = disk[Artifacts[i]]

PhaseInv ==
    /\ phase \in {"idle", "evaluate", "rtl", "write"}
    /\ phase \in {"evaluate", "rtl"} => EmptyDestination
    /\ phase = "rtl" => Len(results) < 4
    /\ phase = "write" \/ ~EmptyDestination => Replayed

BundleInv == ResultsInv /\ DiskInv /\ PhaseInv

LEMMA ArtifactFacts ==
    /\ DOMAIN Artifacts = 1 .. 4 /\ Len(Artifacts) = 4
    /\ Artifacts[1] = "nominal.json" /\ Artifacts[2] = "safety_veto.json"
    /\ Artifacts[3] = "fusion_trajectory.npz" /\ Artifacts[4] = "summary.md"
    /\ \A i \in 1 .. 4 : Artifacts[i] \in Kept
    /\ Kept \subseteq Files /\ "chain_manifest.json" \in Files \ Kept
<1>1. Artifacts = <<"nominal.json", "safety_veto.json", "fusion_trajectory.npz", "summary.md">>
    BY DEF Artifacts
<1>2. \A i \in 1 .. 4 : i = 1 \/ i = 2 \/ i = 3 \/ i = 4
    OBVIOUS
<1> QED
    BY <1>1, <1>2 DEF Kept, Files

LEMMA BundleInit == ChainInit => BundleInv
<1> SUFFICES ASSUME ChainInit PROVE BundleInv
    OBVIOUS
<1>1. /\ results = <<>> /\ phase = "idle" /\ disk = [f \in Files |-> [state |-> "absent"]]
    BY DEF ChainInit
<1>2. \A f \in Files : Missing(f) /\ ~Complete(f)
    BY <1>1 DEF Missing, Complete
<1>3. ResultsInv
    BY <1>1 DEF ResultsInv
<1>4. DiskInv
    BY <1>1, <1>2, ArtifactFacts DEF DiskInv
<1>5. PhaseInv
    BY <1>1, <1>2 DEF PhaseInv, EmptyDestination
<1> QED
    BY <1>3, <1>4, <1>5 DEF BundleInv

(* Results and directory untouched, only the phase moves. *)
LEMMA PhaseOnly ==
    ASSUME BundleInv, UNCHANGED <<runs, results, disk>>,
           phase' = phase \/ phase' = "idle"
    PROVE  BundleInv'
<1>1. ResultsInv'
    BY DEF BundleInv, ResultsInv, ResultInv
<1>2. DiskInv'
    BY DEF BundleInv, DiskInv, Complete, Content
<1>3. EmptyDestination' = EmptyDestination /\ Replayed' = Replayed
    BY DEF EmptyDestination, Missing, Replayed
<1>4. PhaseInv'
    BY <1>3 DEF BundleInv, PhaseInv
<1> QED
    BY <1>1, <1>2, <1>4 DEF BundleInv

LEMMA EmptyDisk ==
    ASSUME EmptyDestination, DiskInv, disk' = disk
    PROVE  DiskInv' /\ EmptyDestination'
<1>1. \A f \in Files : ~Complete(f)' /\ ~Complete(f)
    BY DEF EmptyDestination, Missing, Complete
<1>2. disk' = [f \in Files |-> disk'[f]]
    BY DEF DiskInv
<1>3. EmptyDestination'
    BY DEF EmptyDestination, Missing
<1> QED
    BY <1>1, <1>2, <1>3, ArtifactFacts DEF DiskInv

LEMMA StartStep == BundleInv /\ Start => BundleInv'
<1> SUFFICES ASSUME BundleInv, Start PROVE BundleInv'
    OBVIOUS
<1>1. DiskInv' /\ EmptyDestination'
    BY EmptyDisk DEF BundleInv, Start
<1>2. ResultsInv'
    BY DEF Start, ResultsInv
<1>3. PhaseInv'
    BY <1>1 DEF Start, PhaseInv
<1> QED
    BY <1>1, <1>2, <1>3 DEF BundleInv

LEMMA EvaluateStep == BundleInv /\ Evaluate => BundleInv'
<1> SUFFICES ASSUME BundleInv, Evaluate PROVE BundleInv'
    OBVIOUS
<1>1. Len(Plan) = 4
    BY DEF Plan
<1>2. DiskInv' /\ EmptyDestination'
    BY EmptyDisk DEF BundleInv, PhaseInv, Evaluate
<1>3. ResultsInv'
    BY DEF BundleInv, Evaluate, ResultsInv, ResultInv
<1>4. PhaseInv'
    BY <1>1, <1>2 DEF Evaluate, PhaseInv
<1> QED
    BY <1>2, <1>3, <1>4 DEF BundleInv

LEMMA PlanFacts ==
    /\ Plan[1] = "nominal" /\ Plan[2] = "safety_veto"
    /\ Plan[3] = "nominal" /\ Plan[4] = "safety_veto" /\ Len(Plan) = 4
    BY DEF Plan

(* A case that was concluded actuated exactly if it is a nominal one. *)
LEMMA ConcludedCase ==
    ASSUME ChainAssumption, NEW n \in 1 .. 4, CaseHolds(Plan[n]),
           NEW t \in IF actuator_admitted THEN Trajectories ELSE {NoTrajectory},
           NEW r, r = Result(Plan[n], t)
    PROVE  /\ r = [payload |-> r.payload, trajectory |-> r.trajectory]
           /\ n \in {1, 3} => r.payload.fusion # "not invoked"
           /\ n \in {2, 4} => r.payload.fusion = "not invoked"
<1>1. n = 1 \/ n = 2 \/ n = 3 \/ n = 4
    OBVIOUS
<1>2. r.payload.fusion = (IF t = NoTrajectory THEN "not invoked" ELSE t.summary)
    BY DEF Result
<1>3. r = [payload |-> r.payload, trajectory |-> r.trajectory]
    BY DEF Result
<1>4. n \in {1, 3} => t \in Trajectories
    BY <1>1, PlanFacts DEF CaseHolds
<1>5. n \in {2, 4} => t = NoTrajectory
    BY <1>1, PlanFacts DEF CaseHolds, actuator_admitted
<1> QED
    BY <1>2, <1>3, <1>4, <1>5 DEF ChainAssumption

LEMMA ConcludeStep == ChainAssumption /\ BundleInv /\ Conclude => BundleInv'
<1> SUFFICES ASSUME ChainAssumption, BundleInv, Conclude PROVE BundleInv'
    OBVIOUS
<1>1. /\ results \in Seq(UNION {{results[m]} : m \in DOMAIN results})
      /\ Len(results) \in Nat /\ Len(results) < 4
    BY DEF BundleInv, ResultsInv, PhaseInv, Conclude
<1>n. PICK n \in 1 .. 4 : n = Len(results) + 1
    BY <1>1
<1>2. PICK t \in IF actuator_admitted THEN Trajectories ELSE {NoTrajectory} :
          results' = Append(results, Result(Plan[n], t))
    BY <1>n DEF Conclude
<1>3. /\ Len(results') = n /\ results'[n] = Result(Plan[n], t)
      /\ \A m \in 1 .. Len(results) : results'[m] = results[m]
      /\ DOMAIN results' = 1 .. n
    BY <1>1, <1>2, <1>n
<1>4. CaseHolds(Plan[n])
    BY <1>n DEF Conclude
<1>5. ResultInv(n)'
    <2>1. results'[n] = Result(Plan[n], t)
        BY <1>3
    <2> QED
        BY <1>4, <2>1, ConcludedCase DEF ResultInv
<1>6. \A m \in 1 .. n : m = n \/ m \in 1 .. Len(results)
    BY <1>1, <1>n
<1>7. \A m \in 1 .. n : ResultInv(m)'
    <2>1. \A m \in 1 .. Len(results) : ResultInv(m)
        BY DEF BundleInv, ResultsInv
    <2>2. \A m \in 1 .. Len(results) : ResultInv(m)'
        BY <1>3, <2>1 DEF ResultInv
    <2> QED
        BY <1>5, <1>6, <2>2
<1>8. results' \in Seq(UNION {{results'[m]} : m \in DOMAIN results'})
    BY <1>1, <1>2, <1>3
<1>9. ResultsInv'
    BY <1>3, <1>7, <1>8 DEF ResultsInv
<1>10. DiskInv' /\ EmptyDestination'
    BY EmptyDisk DEF BundleInv, PhaseInv, Conclude
<1>11. PhaseInv'
    BY <1>10 DEF Conclude, PhaseInv
<1> QED
    BY <1>9, <1>10, <1>11 DEF BundleInv

LEMMA SameResults ==
    ASSUME ResultsInv, Replayed, results' = results PROVE ResultsInv' /\ Replayed'
    BY DEF ResultsInv, ResultInv, Replayed

LEMMA VerifyStep == BundleInv /\ Verify => BundleInv'
<1> SUFFICES ASSUME BundleInv, Verify PROVE BundleInv'
    OBVIOUS
<1>1. Len(results) = 4 /\ \A n \in 1 .. 4 : ResultInv(n)
    BY PlanFacts DEF BundleInv, ResultsInv, Verify
<1>2. Replayed
    <2>1. \A n \in {1, 2, 3, 4} :
              results[n] = [payload |-> results[n].payload, trajectory |-> results[n].trajectory]
        <3> SUFFICES ASSUME NEW n \in 1 .. 4
                     PROVE  results[n] = [payload |-> results[n].payload,
                                          trajectory |-> results[n].trajectory]
            OBVIOUS
        <3>1. ResultInv(n)
            BY <1>1
        <3> QED
            BY <3>1, Zenon DEF ResultInv
    <2>2. /\ results[1].payload = results[3].payload
          /\ results[1].trajectory = results[3].trajectory
          /\ results[2].payload = results[4].payload
          /\ results[2].trajectory = results[4].trajectory
        BY DEF Verify, Replays
    <2>3. results[1] = results[3]
        BY <2>1, <2>2, Zenon
    <2>4. results[2] = results[4]
        BY <2>1, <2>2, Zenon
    <2> QED
        BY <1>1, <2>3, <2>4 DEF Replayed
<1>3. ResultsInv' /\ Replayed'
    BY <1>2 DEF BundleInv, Verify, ResultsInv, ResultInv, Replayed
<1>4. DiskInv' /\ EmptyDestination'
    BY EmptyDisk DEF BundleInv, PhaseInv, Verify
<1>5. PhaseInv'
    BY <1>3, <1>4 DEF PhaseInv, Verify
<1> QED
    BY <1>3, <1>4, <1>5 DEF BundleInv

LEMMA ArtifactStep == BundleInv /\ WriteArtifact => BundleInv'
<1> SUFFICES ASSUME BundleInv, WriteArtifact PROVE BundleInv'
    OBVIOUS
<1>1. PICK i \in 1 .. 4 :
          /\ ~Complete(Artifacts[i])
          /\ disk' = [disk EXCEPT ![Artifacts[i]] =
                         IF @.state = "absent" THEN [state |-> "torn"]
                         ELSE Content(Artifacts[i])]
    BY ArtifactFacts DEF WriteArtifact
<1>2. PICK a \in Kept : a = Artifacts[i]
    BY ArtifactFacts
<1>3. PICK v : v = IF disk[a].state = "absent" THEN [state |-> "torn"] ELSE Content(a)
    OBVIOUS
<1>4. /\ disk' = [disk EXCEPT ![a] = v] /\ disk = [f \in Files |-> disk[f]]
      /\ a \in Files /\ a # "chain_manifest.json"
    BY <1>1, <1>2, <1>3, ArtifactFacts DEF BundleInv, DiskInv
<1>5. /\ disk' = [f \in Files |-> disk'[f]] /\ disk'[a] = v
      /\ \A f \in Files : f # a => disk'[f] = disk[f]
    BY <1>4
<1>6. v.state = "complete" => v = Content(a)
    BY <1>3
<1>7. ~Complete("chain_manifest.json")
    BY <1>1 DEF BundleInv, DiskInv
<1>8. \A f \in Kept : Content(f)' = Content(f)
    BY DEF WriteArtifact, Content
<1>9. DiskInv'
    <2>1. \A f \in Kept : Complete(f)' => disk'[f] = Content(f)'
        BY <1>5, <1>6, <1>8, ArtifactFacts DEF BundleInv, DiskInv, Complete
    <2>2. ~Complete("chain_manifest.json")'
        BY <1>4, <1>5, <1>7, ArtifactFacts DEF Complete
    <2> QED
        BY <1>5, <2>1, <2>2 DEF DiskInv
<1>10. ResultsInv' /\ Replayed'
    <2>1. ResultsInv /\ Replayed /\ results' = results
        BY DEF BundleInv, PhaseInv, WriteArtifact
    <2> QED
        BY <2>1, SameResults
<1>11. PhaseInv'
    BY <1>10 DEF PhaseInv, WriteArtifact
<1> QED
    BY <1>9, <1>10, <1>11 DEF BundleInv

LEMMA ManifestStep == BundleInv /\ WriteManifest => BundleInv'
<1> SUFFICES ASSUME BundleInv, WriteManifest PROVE BundleInv'
    OBVIOUS
<1> DEFINE M == "chain_manifest.json"
<1>1. PICK v : /\ disk' = [disk EXCEPT ![M] = v]
               /\ \/ v.state = "torn"
                  \/ v = [state |-> "complete",
                          artifacts |-> [i \in DOMAIN Artifacts |-> disk[Artifacts[i]]],
                          run |-> runs]
    <2>1. CASE disk' = [disk EXCEPT ![M] = [state |-> "torn"]]
        <3>1. [state |-> "torn"].state = "torn"
            OBVIOUS
        <3> QED
            BY <2>1, <3>1
    <2>2. CASE disk' = [disk EXCEPT ![M] =
                           [state |-> "complete",
                            artifacts |-> [i \in DOMAIN Artifacts |-> disk[Artifacts[i]]],
                            run |-> runs]]
        BY <2>2
    <2> QED
        BY <2>1, <2>2 DEF WriteManifest
<1>2. disk = [f \in Files |-> disk[f]] /\ M \in Files /\ M \notin Kept /\ Kept \subseteq Files
    BY ArtifactFacts DEF BundleInv, DiskInv
<1>3. /\ disk' = [f \in Files |-> disk'[f]] /\ disk'[M] = v
      /\ \A f \in Kept : disk'[f] = disk[f]
    BY <1>1, <1>2
<1>4. /\ \A i \in 1 .. 4 : Complete(Artifacts[i])
      /\ UNCHANGED <<runs, results>>
    BY ArtifactFacts DEF WriteManifest
<1>5. \A f \in Kept : Complete(f)' = Complete(f) /\ Content(f)' = Content(f)
    BY <1>3, <1>4 DEF Complete, Content
<1>6. \A f \in Kept : Complete(f)' => disk'[f] = Content(f)'
    BY <1>3, <1>5 DEF BundleInv, DiskInv
<1>7. Complete(M)' => /\ disk'[M].run = runs'
                      /\ \A i \in 1 .. 4 :
                            /\ Complete(Artifacts[i])'
                            /\ disk'[M].artifacts[i] = disk'[Artifacts[i]]
    <2> SUFFICES ASSUME Complete(M)'
                 PROVE  /\ v.run = runs
                        /\ \A i \in 1 .. 4 : /\ Complete(Artifacts[i])'
                                             /\ v.artifacts[i] = disk'[Artifacts[i]]
        BY <1>3, <1>4
    <2>1. v = [state |-> "complete",
               artifacts |-> [i \in DOMAIN Artifacts |-> disk[Artifacts[i]]], run |-> runs]
        BY <1>1, <1>3 DEF Complete
    <2> QED
        BY <1>3, <1>4, <1>5, <2>1, ArtifactFacts
<1>8. DiskInv'
    BY <1>3, <1>6, <1>7 DEF DiskInv
<1>9. ResultsInv' /\ Replayed'
    <2>1. ResultsInv /\ Replayed
        BY DEF BundleInv, PhaseInv, WriteManifest
    <2> QED
        BY <1>4, <2>1, SameResults
<1>10. PhaseInv'
    <2>1. phase' \in {"idle", "write"}
        BY DEF WriteManifest
    <2> QED
        BY <1>9, <2>1 DEF PhaseInv
<1> QED
    BY <1>8, <1>9, <1>10 DEF BundleInv

LEMMA BundleStep == ChainAssumption /\ BundleInv /\ [ChainNext]_chainVars => BundleInv'
<1> SUFFICES ASSUME ChainAssumption, BundleInv, [ChainNext]_chainVars PROVE BundleInv'
    OBVIOUS
<1>1. CASE RtlCycle
    <2>1. UNCHANGED <<runs, results, disk>> /\ phase' = phase
        BY <1>1 DEF RtlCycle
    <2> QED
        BY <2>1, PhaseOnly
<1>2. CASE Abandon
    <2>1. UNCHANGED <<runs, results, disk>> /\ phase' = "idle"
        BY <1>2 DEF Abandon
    <2> QED
        BY <2>1, PhaseOnly
<1>3. CASE UNCHANGED chainVars
    <2>1. UNCHANGED <<runs, results, disk>> /\ phase' = phase
        BY <1>3 DEF chainVars
    <2> QED
        BY <2>1, PhaseOnly
<1> QED
    BY <1>1, <1>2, <1>3, StartStep, EvaluateStep, ConcludeStep, VerifyStep, ArtifactStep,
       ManifestStep DEF ChainNext

LEMMA BundleTruthful == BundleInv => ManifestIsTruthful
<1> SUFFICES ASSUME BundleInv, Complete("chain_manifest.json")
             PROVE  LET manifest_read == disk["chain_manifest.json"]
                    IN  /\ \A i \in DOMAIN Artifacts :
                              /\ disk[Artifacts[i]] = manifest_read.artifacts[i]
                              /\ manifest_read.artifacts[i].run = manifest_read.run
                        /\ manifest_read.artifacts[1].of.fusion # "not invoked"
                        /\ manifest_read.artifacts[2].of.fusion = "not invoked"
                        /\ manifest_read.run = runs =>
                              \A i \in 1 .. 2 : results[i] = results[i + 2]
    BY DEF ManifestIsTruthful
<1>1. /\ disk["chain_manifest.json"].run = runs
      /\ \A i \in 1 .. 4 : disk["chain_manifest.json"].artifacts[i] = Content(Artifacts[i])
      /\ \A i \in 1 .. 4 : disk["chain_manifest.json"].artifacts[i] = disk[Artifacts[i]]
    BY ArtifactFacts DEF BundleInv, DiskInv
<1>2. Replayed /\ ResultInv(1) /\ ResultInv(2)
    <2>1. ~EmptyDestination
        BY ArtifactFacts DEF EmptyDestination, Missing, Complete
    <2>2. Replayed
        BY <2>1 DEF BundleInv, PhaseInv
    <2> QED
        BY <2>2 DEF BundleInv, ResultsInv, Replayed
<1>3. \A f \in Kept : Content(f).run = runs
    BY DEF Content
<1>4. /\ Content("nominal.json").of = results[1].payload
      /\ Content("safety_veto.json").of = results[2].payload
    BY DEF Content
<1>5. \A i \in 1 .. 2 : results[i] = results[i + 2]
    <2>1. \A i \in 1 .. 2 : i = 1 \/ i = 2
        OBVIOUS
    <2> QED
        BY <1>2, <2>1 DEF Replayed
<1> DEFINE M == disk["chain_manifest.json"]
<1>6. \A i \in 1 .. 4 : disk[Artifacts[i]] = M.artifacts[i] /\ M.artifacts[i].run = M.run
    BY <1>1, <1>3, ArtifactFacts
<1>7. M.artifacts[1].of = results[1].payload /\ M.artifacts[2].of = results[2].payload
    BY <1>1, <1>4, ArtifactFacts
<1>8. M.artifacts[1].of.fusion # "not invoked" /\ M.artifacts[2].of.fusion = "not invoked"
    BY <1>2, <1>7 DEF ResultInv
<1> QED
    BY <1>5, <1>6, <1>8, ArtifactFacts

(* A manifest is found only beside the complete artifacts it lists, all of *)
(* one run that actuated, was vetoed and replayed, wherever that or an     *)
(* earlier run died.                                                       *)
THEOREM ManifestHolds == EvidenceSpec => []ManifestIsTruthful
<1>1. EvidenceInit => BundleInv
    BY BundleInit DEF EvidenceInit
<1>2. BundleInv /\ [EvidenceNext]_evidenceVars => BundleInv'
    BY OneAtWork, BundleStep, EvidenceParameters
<1> QED
    BY <1>1, <1>2, BundleTruthful, PTL DEF EvidenceSpec

-----------------------------------------------------------------------------
(* The lanes of the mappers.  Until it is damaged the legacy bundle is what *)
(* the mapper built of the request; the one change it may suffer makes a    *)
(* measurement proven, or gives it a certificate, but not both.  The        *)
(* canonical one is lowered, never raised.                                  *)
LegacyRecords == [Bundles!Checked \cup {"result"} -> Bundles!Values]

LegacyInv ==
    /\ legacy \in LegacyRecords /\ request \in Bundles!Calls /\ ~Bundles!Raises(request)
    /\ ~damaged => \E result \in Results : legacy = Bundles!LegacyBundle(request, result)
    /\ legacy.evidence_kind = "formally-proven" /\ legacy.formal_certificate = "well-formed" =>
          request.verb = "prove"

CanonicalInv ==
    /\ canonical = [schema |-> canonical.schema, digest |-> canonical.digest,
                    freshness |-> canonical.freshness, status |-> canonical.status,
                    admission |-> canonical.admission, attestation |-> canonical.attestation]
    /\ canonical.admission = Bundles!legacy_admission(request)
    /\ Bundles!Strength[canonical.status] <= Bundles!Strength[Bundles!legacy_status(request)]
    /\ canonical.status # Bundles!legacy_status(request) =>
          /\ Bundles!legacy_status(request) = "reference-validated"
          /\ canonical.freshness # "verified-at-source"
    /\ canonical.status = "reference-validated" =>
          /\ canonical.freshness = "verified-at-source"
          /\ canonical.admission = "admitted" /\ canonical.schema # "evaluate"

EnvelopeInv ==
    /\ envelope.unit.attestation = "absent" /\ envelope.mode = "recompute"
    /\ envelope.exactness = "bit-exact" => envelope.unit.schema # "benchmark"

ClaimInv ==
    /\ legacy # None => LegacyInv
    /\ canonical # None => legacy # None /\ CanonicalInv
    /\ envelope # None => EnvelopeInv
    /\ admitted => legacy # None /\ Bundles!Conforms(legacy)

LEMMA CallCases ==
    ASSUME NEW c \in Bundles!Calls
    PROVE  \/ c.verb = "evaluate" /\ c.fired \in BOOLEAN
           \/ c.verb = "prove"
           \/ c.verb = "cosimulate" /\ c.bit_true \in BOOLEAN
           \/ /\ c.verb = "benchmark"
              /\ c.status \in Bundles!CLAIM_STATUSES \cup {"malformed"}
              /\ c.exactness \in Bundles!EXACTNESS_MODES \cup {"malformed"}
    BY DEF Bundles!Calls

LEMMA MapperTexts ==
    ASSUME NEW c \in Bundles!Calls
    PROVE  /\ c.verb \in {"evaluate", "prove", "cosimulate", "benchmark"}
           /\ Bundles!legacy_status(c) \in Bundles!CLAIM_STATUSES \cup {"malformed"}
           /\ Bundles!legacy_status(c) = "malformed" =>
                 c.verb = "benchmark" /\ c.status = "malformed"
           /\ c.verb = "benchmark" => Bundles!legacy_status(c) = c.status
           /\ Bundles!legacy_admission(c) \in {"admitted", "rejected"}
           /\ Bundles!legacy_exactness(c) \in
                 Bundles!EXACTNESS_MODES \cup {"malformed", "absent"}
           /\ c.verb # "benchmark" => Bundles!legacy_exactness(c) # "malformed"
           /\ c.verb = "benchmark" => Bundles!legacy_exactness(c) = c.exactness
           /\ c.verb # "prove" => Bundles!legacy_exactness(c) # "absent"
<1>1. CASE c.verb = "evaluate"
    BY <1>1, CallCases DEF Bundles!legacy_status, Bundles!legacy_admission,
       Bundles!legacy_exactness, Bundles!CLAIM_STATUSES, Bundles!EXACTNESS_MODES
<1>2. CASE c.verb = "prove"
    BY <1>2, CallCases DEF Bundles!legacy_status, Bundles!legacy_admission,
       Bundles!legacy_exactness, Bundles!CLAIM_STATUSES, Bundles!EXACTNESS_MODES
<1>3. CASE c.verb = "cosimulate"
    BY <1>3, CallCases DEF Bundles!legacy_status, Bundles!legacy_admission,
       Bundles!legacy_exactness, Bundles!CLAIM_STATUSES, Bundles!EXACTNESS_MODES
<1>4. CASE c.verb = "benchmark"
    BY <1>4, CallCases DEF Bundles!legacy_status, Bundles!legacy_admission,
       Bundles!legacy_exactness, Bundles!CLAIM_STATUSES, Bundles!EXACTNESS_MODES
<1> QED
    BY <1>1, <1>2, <1>3, <1>4, CallCases

(* What the fields of a bundle can hold. *)
LEMMA FieldTexts ==
    /\ Bundles!CLAIM_STATUSES \cup {"malformed"} \subseteq Bundles!Values
    /\ {"evaluate", "prove", "cosimulate", "benchmark"} \subseteq Bundles!Values
    /\ {"admitted", "rejected", "absent", "well-formed", "simulator", "2"} \subseteq Bundles!Values
    /\ Bundles!EXACTNESS_MODES \subseteq Bundles!Values
    /\ {"measured", "formally-proven"} \subseteq Bundles!Values
    /\ Results \subseteq Bundles!Values
<1>1. \A f \in Bundles!Checked : Bundles!FieldValues(f) \subseteq Bundles!Values
    BY DEF Bundles!Values
<1>2. /\ "status" \in Bundles!Checked /\ "schema" \in Bundles!Checked
      /\ "admission" \in Bundles!Checked /\ "exactness" \in Bundles!Checked
      /\ "evidence_kind" \in Bundles!Checked /\ "digest" \in Bundles!Checked
      /\ "substrate" \in Bundles!Checked /\ "scpn_evidence_level" \in Bundles!Checked
      /\ "formal_certificate" \in Bundles!Checked
    BY DEF Bundles!Checked
<1>3. Bundles!FieldValues("status") = {"malformed"} \cup Bundles!CLAIM_STATUSES
    BY DEF Bundles!FieldValues
<1>4. Bundles!FieldValues("schema") =
          {"malformed"} \cup {"evaluate", "prove", "cosimulate", "benchmark"}
    BY DEF Bundles!FieldValues
<1>5. Bundles!FieldValues("admission") = {"malformed"} \cup {"admitted", "rejected", "absent"}
    BY DEF Bundles!FieldValues
<1>6. Bundles!FieldValues("exactness") =
          {"malformed"} \cup (Bundles!EXACTNESS_MODES \cup {"absent"})
    BY DEF Bundles!FieldValues
<1>7. Bundles!FieldValues("evidence_kind") = {"malformed"} \cup Bundles!EVIDENCE_KINDS
    BY DEF Bundles!FieldValues
<1>8. Bundles!FieldValues("digest") = {"malformed"} \cup Results
    BY DEF Bundles!FieldValues
<1>9. Bundles!FieldValues("substrate") = {"malformed"} \cup {"simulator", "fpga", "absent"}
    BY DEF Bundles!FieldValues
<1>10. Bundles!FieldValues("scpn_evidence_level") = {"malformed"} \cup Bundles!EVIDENCE_LEVELS
    BY DEF Bundles!FieldValues
<1>11. Bundles!FieldValues("formal_certificate") = {"malformed"} \cup {"well-formed", "absent"}
    BY DEF Bundles!FieldValues
<1>12. "measured" \in Bundles!EVIDENCE_KINDS /\ "formally-proven" \in Bundles!EVIDENCE_KINDS
       /\ "2" \in Bundles!EVIDENCE_LEVELS
    BY DEF Bundles!EVIDENCE_KINDS, Bundles!EVIDENCE_LEVELS
<1> QED
    BY <1>1, <1>2, <1>3, <1>4, <1>5, <1>6, <1>7, <1>8, <1>9, <1>10, <1>11, <1>12

LEMMA LegacyTyped ==
    ASSUME NEW c \in Bundles!Calls, NEW result \in Results
    PROVE  Bundles!LegacyBundle(c, result) \in LegacyRecords
<1> DEFINE Values == Bundles!Values
<1>1. /\ c.verb \in Values /\ Bundles!legacy_status(c) \in Values
      /\ Bundles!legacy_admission(c) \in Values /\ Bundles!legacy_exactness(c) \in Values
    BY MapperTexts, FieldTexts
<1>2. /\ result \in Values /\ "well-formed" \in Values /\ "2" \in Values
      /\ "formally-proven" \in Values /\ "measured" \in Values /\ "absent" \in Values
      /\ "simulator" \in Values
    BY FieldTexts
<1> HIDE DEF Values
<1>3. Bundles!LegacyBundle(c, result) \in [Bundles!Checked \cup {"result"} -> Values]
    BY <1>1, <1>2 DEF Bundles!LegacyBundle, Bundles!Checked
<1> QED
    BY <1>3 DEF LegacyRecords, Values

(* What the check makes of an undamaged bundle. *)
LEMMA FreshConforms ==
    ASSUME Bundles!BundlesAssumption,
           NEW c \in Bundles!Calls, NEW result \in Results,
           NEW b, b = Bundles!LegacyBundle(c, result)
    PROVE  Bundles!Conforms(b) <=>
               (c.verb = "benchmark" => c.status # "malformed" /\ c.exactness # "malformed")
<1>1. /\ b.schema = c.verb /\ b.digest = result /\ b.status = Bundles!legacy_status(c)
      /\ b.admission = Bundles!legacy_admission(c) /\ b.exactness = Bundles!legacy_exactness(c)
      /\ b.ro_crate_profile = "well-formed" /\ b.activity = "well-formed"
      /\ b.agent = "well-formed" /\ b.scpn_evidence_level = "2"
      /\ b.attestation = "well-formed"
      /\ b.evidence_kind = IF c.verb = "prove" THEN "formally-proven" ELSE "measured"
      /\ b.numeric_provenance = IF c.verb = "prove" THEN "absent" ELSE "well-formed"
      /\ b.formal_certificate = IF c.verb = "prove" THEN "well-formed" ELSE "absent"
      /\ b.substrate = IF c.verb = "cosimulate" THEN "simulator" ELSE "absent"
    BY DEF Bundles!LegacyBundle
<1>2. result # "malformed"
    BY DEF Bundles!BundlesAssumption
<1>3. \A f \in {"schema", "ro_crate_profile", "digest", "activity", "agent",
                "scpn_evidence_level", "evidence_kind", "admission", "attestation",
                "substrate"} : b[f] # "malformed"
    BY <1>1, <1>2, MapperTexts
<1>4. b.status \in Bundles!CLAIM_STATUSES <=> b.status # "malformed"
    BY <1>1, MapperTexts DEF Bundles!CLAIM_STATUSES
<1>5. (b.numeric_provenance = "well-formed" => b.exactness \in Bundles!EXACTNESS_MODES)
          <=> b.exactness # "malformed"
    <2>1. CASE c.verb = "prove"
        BY <1>1, <2>1, MapperTexts DEF Bundles!EXACTNESS_MODES
    <2>2. CASE c.verb # "prove"
        BY <1>1, <2>2, MapperTexts DEF Bundles!EXACTNESS_MODES
    <2> QED
        BY <2>1, <2>2
<1>6. b.evidence_kind = "formally-proven" => b.formal_certificate = "well-formed"
    BY <1>1
<1>7. Bundles!Conforms(b) <=> b.status # "malformed" /\ b.exactness # "malformed"
    BY <1>3, <1>4, <1>5, <1>6 DEF Bundles!Conforms
<1> QED
    BY <1>1, <1>7, MapperTexts

LEMMA CanonicalFresh ==
    ASSUME NEW c \in Bundles!Calls, NEW result \in Results, NEW freshness,
           NEW b, b = Bundles!CanonicalBundle(c, result, freshness), b # None
    PROVE  /\ b = [schema |-> b.schema, digest |-> b.digest, freshness |-> b.freshness,
                   status |-> b.status, admission |-> b.admission,
                   attestation |-> b.attestation]
           /\ b.admission = Bundles!legacy_admission(c)
           /\ Bundles!Strength[b.status] <= Bundles!Strength[Bundles!legacy_status(c)]
           /\ b.status # Bundles!legacy_status(c) =>
                 /\ Bundles!legacy_status(c) = "reference-validated"
                 /\ b.freshness # "verified-at-source"
           /\ b.status = "reference-validated" =>
                 /\ b.freshness = "verified-at-source"
                 /\ b.admission = "admitted" /\ b.schema # "evaluate"
<1>1. b = [schema |-> c.verb, digest |-> result, freshness |-> freshness,
           status |-> Bundles!canonical_status(c, freshness),
           admission |-> Bundles!canonical_admission(c), attestation |-> "absent"]
    BY DEF Bundles!CanonicalBundle
<1>2. Bundles!canonical_admission(c) = Bundles!legacy_admission(c)
    BY CallCases DEF Bundles!canonical_admission, Bundles!legacy_admission
<1>3. /\ Bundles!canonical_status(c, freshness) # Bundles!legacy_status(c) =>
            /\ Bundles!legacy_status(c) = "reference-validated"
            /\ freshness # "verified-at-source"
            /\ Bundles!canonical_status(c, freshness) = "bounded-model"
      /\ Bundles!canonical_status(c, freshness) = "reference-validated" =>
            /\ freshness = "verified-at-source"
            /\ Bundles!legacy_status(c) = "reference-validated"
    BY DEF Bundles!canonical_status
<1>4. Bundles!legacy_status(c) = "reference-validated" =>
          Bundles!canonical_admission(c) = "admitted" /\ c.verb # "evaluate"
    <2>1. CASE c.verb = "evaluate"
        BY <2>1, CallCases DEF Bundles!legacy_status
    <2>2. CASE c.verb = "cosimulate"
        BY <2>2, CallCases DEF Bundles!legacy_status, Bundles!canonical_admission
    <2>3. CASE c.verb = "prove" \/ c.verb = "benchmark"
        BY <2>3 DEF Bundles!canonical_admission
    <2> QED
        BY <2>1, <2>2, <2>3, CallCases
<1>5. Bundles!Strength[Bundles!canonical_status(c, freshness)]
          <= Bundles!Strength[Bundles!legacy_status(c)]
    <2>1. /\ Bundles!Strength["reference-validated"] = 2 /\ Bundles!Strength["bounded-model"] = 1
          /\ \A x \in Bundles!CLAIM_STATUSES : Bundles!Strength[x] \in 0 .. 2
        BY DEF Bundles!Strength, Bundles!CLAIM_STATUSES
    <2>2. Bundles!legacy_status(c) # "malformed"
        BY DEF Bundles!CanonicalBundle
    <2>3. Bundles!legacy_status(c) \in Bundles!CLAIM_STATUSES
        BY <2>2, MapperTexts
    <2>4. CASE Bundles!canonical_status(c, freshness) = Bundles!legacy_status(c)
        BY <2>1, <2>3, <2>4
    <2>5. CASE Bundles!canonical_status(c, freshness) # Bundles!legacy_status(c)
        BY <1>3, <2>1, <2>5
    <2> QED
        BY <2>4, <2>5
<1> QED
    BY <1>1, <1>2, <1>3, <1>4, <1>5

LEMMA EmitStep == Bundles!BundlesAssumption /\ ClaimInv /\ Bundles!Emit => ClaimInv'
<1> SUFFICES ASSUME Bundles!BundlesAssumption, ClaimInv, Bundles!Emit PROVE ClaimInv'
    OBVIOUS
<1>1. PICK c \in Bundles!Calls, result \in Results, freshness \in Bundles!Freshness :
          /\ ~Bundles!Raises(c) /\ request' = c
          /\ legacy' = Bundles!LegacyBundle(c, result)
          /\ canonical' = Bundles!CanonicalBundle(c, result, freshness)
          /\ admitted' = FALSE /\ envelope' = None /\ damaged' = FALSE
    BY DEF Bundles!Emit
<1>2. legacy' \in LegacyRecords /\ legacy' # None
    BY <1>1, LegacyTyped DEF Bundles!BundlesAssumption, LegacyRecords
<1>3. legacy'.evidence_kind = "formally-proven" => c.verb = "prove"
    BY <1>1 DEF Bundles!LegacyBundle
<1>4. LegacyInv'
    <2>1. legacy' = Bundles!LegacyBundle(request', result)
        BY <1>1
    <2>2. /\ request' \in Bundles!Calls /\ ~Bundles!Raises(request')
          /\ legacy'.evidence_kind = "formally-proven" => request'.verb = "prove"
        BY <1>1, <1>3
    <2> QED
        BY <1>2, <2>1, <2>2 DEF LegacyInv
<1>5. canonical' # None => CanonicalInv'
    <2> SUFFICES ASSUME canonical' # None PROVE CanonicalInv'
        OBVIOUS
    <2>1. canonical' = Bundles!CanonicalBundle(request', result, freshness)
          /\ request' \in Bundles!Calls
        BY <1>1
    <2> QED
        BY <2>1, CanonicalFresh DEF CanonicalInv
<1> QED
    BY <1>1, <1>2, <1>4, <1>5 DEF ClaimInv

(* One field changes: a measurement has no certificate to go with its kind. *)
LEMMA DamageStep == Bundles!BundlesAssumption /\ ClaimInv /\ Bundles!Damage => ClaimInv'
<1> SUFFICES ASSUME Bundles!BundlesAssumption, ClaimInv, Bundles!Damage PROVE ClaimInv'
    OBVIOUS
<1>1. /\ legacy # None /\ LegacyInv /\ ~admitted /\ ~damaged /\ damaged' = TRUE
      /\ UNCHANGED <<request, canonical, admitted, envelope>>
    BY DEF Bundles!Damage, ClaimInv
<1> DEFINE Fields == Bundles!Checked \cup {"result"}
<1>2. PICK f \in Fields, v \in Bundles!Values : legacy' = [legacy EXCEPT ![f] = v]
    <2>1. CASE \E f \in Bundles!Checked : \E v \in Bundles!FieldValues(f) :
                  legacy' = [legacy EXCEPT ![f] = v]
        BY <2>1 DEF Bundles!Values
    <2>2. CASE \E r \in Results : legacy' = [legacy EXCEPT !.result = r]
        BY <2>2, FieldTexts
    <2> QED
        BY <2>1, <2>2 DEF Bundles!Damage
<1>3. "evidence_kind" \in Fields /\ "formal_certificate" \in Fields
    BY DEF Bundles!Checked
<1>4. /\ request.verb # "prove" =>
            legacy.evidence_kind = "measured" /\ legacy.formal_certificate = "absent"
    <2>1. PICK result \in Results : legacy = Bundles!LegacyBundle(request, result)
        BY <1>1 DEF LegacyInv
    <2> QED
        BY <2>1 DEF Bundles!LegacyBundle
<1> HIDE DEF Fields
<1>5. legacy \in [Fields -> Bundles!Values]
    BY <1>1 DEF LegacyInv, LegacyRecords, Fields
<1>6. /\ legacy' \in [Fields -> Bundles!Values]
      /\ \A g \in Fields : g # f => legacy'[g] = legacy[g]
    BY <1>2, <1>5
<1>7. \/ legacy'.evidence_kind = legacy.evidence_kind
      \/ legacy'.formal_certificate = legacy.formal_certificate
    BY <1>3, <1>6
<1>8. /\ legacy' \in LegacyRecords /\ legacy' # None
      /\ request' = request /\ damaged' = TRUE
    BY <1>1, <1>6 DEF LegacyRecords, Fields, Bundles!BundlesAssumption
<1>9. legacy'.evidence_kind = "formally-proven" /\ legacy'.formal_certificate = "well-formed" =>
          request.verb = "prove"
    BY <1>4, <1>7
<1>10. LegacyInv'
    BY <1>1, <1>8, <1>9 DEF LegacyInv
<1> QED
    BY <1>1, <1>8, <1>10 DEF ClaimInv, CanonicalInv, EnvelopeInv

LEMMA SignStep == ClaimInv /\ Bundles!Sign => ClaimInv'
<1> SUFFICES ASSUME ClaimInv, Bundles!Sign PROVE ClaimInv'
    OBVIOUS
<1>1. /\ canonical # None /\ legacy # None /\ CanonicalInv
      /\ canonical' = [canonical EXCEPT !.attestation = "well-formed"]
      /\ UNCHANGED <<request, legacy, admitted, envelope, damaged>>
    BY DEF Bundles!Sign, ClaimInv
<1>2. canonical' = [schema |-> canonical.schema, digest |-> canonical.digest,
                    freshness |-> canonical.freshness, status |-> canonical.status,
                    admission |-> canonical.admission, attestation |-> "well-formed"]
    BY <1>1 DEF CanonicalInv
<1>3. CanonicalInv'
    BY <1>1, <1>2 DEF CanonicalInv
<1> QED
    BY <1>1, <1>3 DEF ClaimInv, LegacyInv, EnvelopeInv

LEMMA SealStep == ClaimInv /\ Bundles!seal_mif_evidence => ClaimInv'
<1> SUFFICES ASSUME ClaimInv, Bundles!seal_mif_evidence PROVE ClaimInv'
    OBVIOUS
<1>1. EnvelopeInv'
    BY DEF Bundles!seal_mif_evidence, EnvelopeInv, Bundles!EXACTNESS_BY_SCHEMA
<1> QED
    BY <1>1 DEF ClaimInv, Bundles!seal_mif_evidence, LegacyInv, CanonicalInv

LEMMA ValidateStep == ClaimInv /\ Bundles!Validate => ClaimInv'
<1> SUFFICES ASSUME ClaimInv, Bundles!Validate PROVE ClaimInv'
    OBVIOUS
<1>1. /\ legacy # None /\ LegacyInv /\ Bundles!Conforms(legacy)
      /\ UNCHANGED <<request, legacy, canonical, envelope, damaged>>
    BY DEF ClaimInv, Bundles!Validate
<1>2. Bundles!Conforms(legacy)'
    BY <1>1 DEF Bundles!Conforms
<1> QED
    BY <1>1, <1>2 DEF ClaimInv, LegacyInv, CanonicalInv, EnvelopeInv

LEMMA ClaimStep ==
    Bundles!BundlesAssumption /\ ClaimInv /\ [Bundles!Next]_bundleVars => ClaimInv'
<1>1. ClaimInv /\ UNCHANGED bundleVars => ClaimInv'
    BY DEF ClaimInv, LegacyInv, CanonicalInv, EnvelopeInv, bundleVars
<1> QED
    BY <1>1, EmitStep, DamageStep, SignStep, SealStep, ValidateStep DEF Bundles!Next

LEMMA ClaimsHonest == Bundles!BundlesAssumption /\ ClaimInv => ClaimsStayHonest
<1> SUFFICES ASSUME Bundles!BundlesAssumption, ClaimInv PROVE ClaimsStayHonest
    OBVIOUS
<1>1. legacy # None /\ ~damaged =>
          (Bundles!Conforms(legacy) <=>
              (request.verb = "benchmark" =>
                  request.status # "malformed" /\ request.exactness # "malformed"))
    <2> SUFFICES ASSUME legacy # None, ~damaged
                 PROVE  Bundles!Conforms(legacy) <=>
                           (request.verb = "benchmark" =>
                               request.status # "malformed" /\ request.exactness # "malformed")
        OBVIOUS
    <2>1. request \in Bundles!Calls
          /\ \E result \in Results : legacy = Bundles!LegacyBundle(request, result)
        BY DEF ClaimInv, LegacyInv
    <2> QED
        BY <2>1, FreshConforms
<1>2. admitted /\ legacy.evidence_kind = "formally-proven" => request.verb = "prove"
    BY DEF ClaimInv, LegacyInv, Bundles!Conforms
<1> QED
    BY <1>1, <1>2 DEF ClaimInv, CanonicalInv, EnvelopeInv, ClaimsStayHonest,
       Bundles!ClaimsStayHonest

(* For every result and every request: the canonical lane claims no more   *)
(* than the legacy one, and less only of what was not re-run; and no       *)
(* single change on the way makes a proof of a measurement.                *)
THEOREM ClaimsHold == EvidenceSpec => []ClaimsStayHonest
<1>1. EvidenceInit => ClaimInv
    BY DEF EvidenceInit, Bundles!Init, ClaimInv
<1>2. ClaimInv /\ [EvidenceNext]_evidenceVars => ClaimInv'
    BY OneAtWork, ClaimStep, EvidenceParameters
<1>3. ClaimInv => ClaimsStayHonest
    BY ClaimsHonest, EvidenceParameters
<1> QED
    BY <1>1, <1>2, <1>3, PTL DEF EvidenceSpec

-----------------------------------------------------------------------------
(* The release.  HEAD keeps its green gates only while no file is touched,  *)
(* and the only receipt there can be, if it is whole, is that of a review   *)
(* which found nothing.                                                     *)
ClaimSupported(c) == c.public => c.passed /\ ~c.blocked

ReceiptInv(receipt) ==
    /\ receipt.reviewed_utc \in Nat
    /\ ClaimSupported(receipt.ledger_sha256)

DispatchTable(d) ==
    /\ d = [whole |-> d.whole, results |-> d.results, last_updated |-> d.last_updated]
    /\ d.whole \in BOOLEAN

GateInv ==
    /\ today \in Nat /\ ledger.updated_utc \in Nat /\ dirty \in BOOLEAN
    /\ repository = [f \in Gate!Files |-> repository[f]]
    /\ repository["receipt"] # Torn => ReceiptInv(repository["receipt"])
    /\ DispatchTable(repository["dispatch"])
    /\ required_gates = "success" /\ ~dirty => Gate!core_gate
    /\ released => ReleaseIsConsistent

ReleaseConsistent ==
    /\ \A f \in DOMAIN Gate!Derived : repository[f] = Gate!Derived[f]
    /\ repository["snapshot"] = repository["dispatch"] /\ repository["dispatch"].whole
    /\ repository["bundle"] = [results |-> source["results"], digests |-> Gate!Hashed(repository)]
    /\ repository["receipt"].reviewed_commit = commit - 1
    /\ today - repository["receipt"].reviewed_utc <= MAX_AGE_DAYS
    /\ ClaimSupported(repository["receipt"].ledger_sha256)

LEMMA ConsistentMeans == ReleaseIsConsistent <=> (released => ReleaseConsistent)
    BY DEF ReleaseIsConsistent, Gate!ReleaseIsConsistent, ReleaseConsistent, ClaimSupported

LEMMA GateFiles ==
    /\ "receipt" \in Gate!Files /\ "dispatch" \in Gate!Files
    /\ "receipt" \notin Gate!Generators /\ "dispatch" \notin Gate!Generators
    BY DEF Gate!Files, Gate!CORE_ARTIFACTS, Gate!Generators

LEMMA ReceiptOfLedger ==
    ASSUME ledger.updated_utc \in Nat, Gate!_claim_findings(ledger.claim)
    PROVE  ReceiptInv(Gate!build_review_receipt)
    BY DEF ReceiptInv, ClaimSupported, Gate!_claim_findings, Gate!build_review_receipt

LEMMA GateInit == Gate!ReleaseInit => GateInv
<1> SUFFICES ASSUME Gate!ReleaseInit PROVE GateInv
    OBVIOUS
<1>1. /\ today = 0 /\ dirty = FALSE /\ required_gates = "none" /\ released = FALSE
      /\ ledger.updated_utc = 0 /\ Gate!_claim_findings(ledger.claim)
    BY DEF Gate!ReleaseInit
<1>2. /\ repository = [f \in Gate!Files |-> repository[f]]
      /\ repository["receipt"] = Gate!build_review_receipt
      /\ repository["dispatch"] = [whole |-> TRUE, results |-> 1, last_updated |-> 0]
    BY GateFiles DEF Gate!ReleaseInit
<1>3. ReceiptInv(repository["receipt"])
    <2>1. ReceiptInv(Gate!build_review_receipt)
        BY <1>1, ReceiptOfLedger
    <2> QED
        BY <1>2, <2>1
<1>4. today \in Nat /\ ledger.updated_utc \in Nat /\ dirty \in BOOLEAN
    <2>1. today = 0 /\ ledger.updated_utc = 0
        BY <1>1
    <2>2. dirty \in BOOLEAN
        BY <1>1
    <2> QED
        BY <2>1, <2>2
<1>5. required_gates # "success" /\ ~released
    BY <1>1
<1>6. DispatchTable(repository["dispatch"])
    <2>1. PICK d : d = [whole |-> TRUE, results |-> 1, last_updated |-> 0]
        OBVIOUS
    <2>2. d.whole = TRUE /\ d.results = 1 /\ d.last_updated = 0
        BY <2>1
    <2>3. DispatchTable(d)
        BY <2>1, <2>2, Zenon DEF DispatchTable
    <2>4. repository["dispatch"] = d
        BY <1>2, <2>1
    <2> QED
        BY <2>3, <2>4
<1> QED
    BY <1>2, <1>3, <1>4, <1>5, <1>6 DEF GateInv

(* No generator writes the receipt, and only one the dispatch table. *)
LEMMA OutputsAreOthers ==
    ASSUME NEW generator \in Gate!Generators
    PROVE  /\ Gate!Completed(generator) \in 0 .. Len(Gate!Outputs(generator))
           /\ \A n \in 1 .. Len(Gate!Outputs(generator)) :
                 /\ Gate!Outputs(generator)[n] # "receipt"
                 /\ generator # "update_dispatch" =>
                       Gate!Outputs(generator)[n] # "dispatch"
<1>1. CASE generator = "update_dispatch"
    <2>1. Gate!Outputs(generator) = <<"dispatch", "snapshot">>
        BY <1>1 DEF Gate!Outputs
    <2>2. \A n \in 1 .. 2 : n = 1 \/ n = 2
        OBVIOUS
    <2> QED
        BY <1>1, <2>1, <2>2 DEF Gate!Completed
<1>2. CASE generator = "capability_manifest"
    <2>1. Gate!Outputs(generator) = <<"capability_manifest", "capability_snapshot", "readme">>
        BY <1>2 DEF Gate!Outputs
    <2>2. \A n \in 1 .. 3 : n = 1 \/ n = 2 \/ n = 3
        OBVIOUS
    <2>3. Len(Gate!Outputs(generator)) = 3
        BY <2>1
    <2>4. Gate!Completed(generator) \in 0 .. 3
        BY <2>3 DEF Gate!Completed
    <2>5. \A n \in 1 .. 3 : Gate!Outputs(generator)[n] # "receipt"
                          /\ Gate!Outputs(generator)[n] # "dispatch"
        BY <2>1, <2>2
    <2> QED
        BY <2>3, <2>4, <2>5
<1>3. CASE generator # "update_dispatch" /\ generator # "capability_manifest"
    <2>1. Gate!Outputs(generator) = <<generator>>
        BY <1>3 DEF Gate!Outputs
    <2>2. Len(<<generator>>) = 1 /\ <<generator>>[1] = generator
        OBVIOUS
    <2>3. Gate!Completed(generator) = 1
        BY <1>3, <2>1, <2>2 DEF Gate!Completed
    <2>4. generator # "receipt" /\ generator # "dispatch"
        BY GateFiles
    <2>5. \A n \in 1 .. 1 : n = 1
        OBVIOUS
    <2> QED
        BY <2>1, <2>2, <2>3, <2>4, <2>5
<1> QED
    BY <1>1, <1>2, <1>3

LEMMA WrittenKeepsReceipt ==
    ASSUME NEW generator \in Gate!Generators, NEW half \in BOOLEAN,
           NEW n \in 0 .. Gate!Completed(generator),
           half => n < Gate!Completed(generator)
    PROVE  /\ DispatchTable(repository["dispatch"]) =>
                 DispatchTable(Gate!Written(generator, n, half)["dispatch"])
           /\ Gate!Written(generator, n, half) =
                 [f \in Gate!Files |-> Gate!Written(generator, n, half)[f]]
           /\ Gate!Written(generator, n, half)["receipt"] = repository["receipt"]
<1> DEFINE out == Gate!Outputs(generator)
           len == Len(Gate!Outputs(generator))
           done == Gate!Completed(generator)
<1>1. /\ done \in 0 .. len /\ \A m \in 1 .. len : out[m] # "receipt"
      /\ generator # "update_dispatch" => \A m \in 1 .. len : out[m] # "dispatch"
    BY OutputsAreOthers
<1>2. len \in Nat
    BY <1>1
<1> HIDE DEF out, len, done
<1>3. ~\E m \in 1 .. n : out[m] = "receipt"
    BY <1>1, <1>2 DEF done
<1>4. ~(half /\ out[n + 1] = "receipt")
    BY <1>1, <1>2 DEF done
<1>5. /\ Gate!Written(generator, n, half) =
            [f \in Gate!Files |-> Gate!Written(generator, n, half)[f]]
      /\ Gate!Written(generator, n, half)["receipt"] = repository["receipt"]
    BY <1>3, <1>4, GateFiles DEF Gate!Written, out
<1>6. \/ Gate!Written(generator, n, half)["dispatch"] = repository["dispatch"]
      \/ Gate!Written(generator, n, half)["dispatch"] = Gate!rewrite_dispatch
      \/ Gate!Written(generator, n, half)["dispatch"] =
            [repository["dispatch"] EXCEPT !.whole = FALSE]
    <2>1. CASE generator = "update_dispatch"
        BY <2>1, GateFiles DEF Gate!Written, Gate!NewContent, Gate!TornContent
    <2>2. CASE generator # "update_dispatch"
        <3>1. ~\E m \in 1 .. n : out[m] = "dispatch"
            BY <1>1, <1>2, <2>2 DEF done
        <3>2. ~(half /\ out[n + 1] = "dispatch")
            BY <1>1, <1>2, <2>2 DEF done
        <3> QED
            BY <3>1, <3>2, GateFiles DEF Gate!Written, out
    <2> QED
        BY <2>1, <2>2
<1>7. ASSUME DispatchTable(repository["dispatch"])
      PROVE  DispatchTable(Gate!Written(generator, n, half)["dispatch"])
    <2> DEFINE d == repository["dispatch"]
    <2>1. /\ d.whole \in BOOLEAN
          /\ d = [whole |-> d.whole, results |-> d.results, last_updated |-> d.last_updated]
        BY <1>7 DEF DispatchTable
    <2>2. DispatchTable([d EXCEPT !.whole = FALSE])
        <3>1. PICK e : e = [d EXCEPT !.whole = FALSE]
            OBVIOUS
        <3>2. DOMAIN d = {"whole", "results", "last_updated"}
            BY <2>1
        <3>3. /\ DOMAIN e = {"whole", "results", "last_updated"}
              /\ e = [x \in {"whole", "results", "last_updated"} |-> e[x]]
            BY <3>1, <3>2
        <3>4. e.whole = FALSE
            BY <3>1, <3>2
        <3>5. e = [whole |-> e.whole, results |-> e.results, last_updated |-> e.last_updated]
            BY <3>3
        <3> QED
            BY <3>1, <3>4, <3>5 DEF DispatchTable
    <2>3. DispatchTable(Gate!rewrite_dispatch)
        BY <2>1 DEF DispatchTable, Gate!rewrite_dispatch
    <2> QED
        BY <1>6, <1>7, <2>2, <2>3
<1> QED
    BY <1>5, <1>7

LEMMA SameFiles ==
    ASSUME UNCHANGED <<source, repository>>
    PROVE  Gate!core_gate' <=> Gate!core_gate
<1>1. \A f : Gate!Buildable(f)' <=> Gate!Buildable(f)
    BY DEF Gate!Buildable
<1>2. \A f : Gate!Build(f)' = Gate!Build(f)
    BY Zenon DEF Gate!Build, Gate!build_budget, Gate!build_manifest, Gate!build_package,
       Gate!build_dashboard, Gate!build_capability_manifest, Gate!Inventory,
       Gate!build_bundle, Gate!Hashed
<1>3. \A f : Gate!Matches(f)' <=> Gate!Matches(f)
    BY <1>1, <1>2 DEF Gate!Matches
<1> QED
    BY <1>3, Zenon DEF Gate!core_gate, Gate!check_budget, Gate!check_manifest, Gate!check_package,
       Gate!check_dashboard, Gate!check_bundle, Gate!assert_outputs_current,
       Gate!DispatchTests

(* A change of the files: a clean repository is the one there was. *)
LEMMA ChangedFiles ==
    ASSUME GateInv, NEW t, Gate!Changed(t), t = [f \in Gate!Files |-> t[f]],
           t["receipt"] # Torn => ReceiptInv(t["receipt"]),
           DispatchTable(t["dispatch"]), released' = FALSE,
           UNCHANGED <<source, ledger, commit, required_gates, today>>
    PROVE  GateInv'
<1>1. /\ repository' = t /\ dirty' \in BOOLEAN
      /\ ~dirty' => ~dirty /\ repository' = repository
    BY DEF Gate!Changed, GateInv
<1>2. ~dirty' /\ required_gates' = "success" => Gate!core_gate'
    BY <1>1, SameFiles DEF GateInv
<1>3. (repository["receipt"] # Torn => ReceiptInv(repository["receipt"]))'
    BY <1>1 DEF ReceiptInv, ClaimSupported
<1>4. DispatchTable(repository["dispatch"])'
    BY <1>1 DEF DispatchTable
<1> QED
    BY <1>1, <1>2, <1>3, <1>4 DEF GateInv

LEMMA GenerateStep ==
    ASSUME GateInv, NEW generator \in Gate!Generators, Gate!write(generator) PROVE GateInv'
<1> DEFINE done == Gate!Completed(generator)
<1>1. done \in Nat
    BY OutputsAreOthers
<1> HIDE DEF done
<1>2. PICK n \in 0 .. done, half \in BOOLEAN :
          (half => n < done) /\ Gate!Changed(Gate!Written(generator, n, half))
    <2>1. CASE Gate!Changed(Gate!Written(generator, Gate!Completed(generator), FALSE))
        <3>1. done \in 0 .. done /\ FALSE \in BOOLEAN
            BY <1>1
        <3> QED
            BY <2>1, <3>1 DEF done
    <2>2. CASE \E n \in 0 .. Gate!Completed(generator) - 1, half \in BOOLEAN :
                   Gate!Changed(Gate!Written(generator, n, half))
        <3>1. PICK n \in 0 .. done - 1, half \in BOOLEAN :
                  Gate!Changed(Gate!Written(generator, n, half))
            BY <2>2 DEF done
        <3>2. n \in 0 .. done /\ n < done
            BY <1>1
        <3> QED
            BY <3>1, <3>2
    <2> QED
        BY <2>1, <2>2 DEF Gate!write
<1>3. PICK t : t = Gate!Written(generator, n, half)
    OBVIOUS
<1>4. /\ t = [f \in Gate!Files |-> t[f]] /\ t["receipt"] = repository["receipt"]
      /\ DispatchTable(t["dispatch"])
    BY <1>2, <1>3, WrittenKeepsReceipt DEF done, GateInv
<1>5. /\ released' = FALSE
      /\ UNCHANGED <<source, ledger, commit, required_gates, today>>
    BY DEF Gate!write
<1>6. Gate!Changed(t)
    BY <1>2, <1>3
<1>7. t["receipt"] # Torn => ReceiptInv(t["receipt"])
    BY <1>4 DEF GateInv
<1> QED
    BY <1>4, <1>5, <1>6, <1>7, ChangedFiles

LEMMA ReceiptStep == GateInv /\ Gate!Emit => GateInv'
<1> SUFFICES ASSUME GateInv, Gate!Emit PROVE GateInv'
    OBVIOUS
<1>1. PICK v \in {Gate!build_review_receipt, Torn} :
          Gate!Changed([repository EXCEPT !["receipt"] = v])
    BY DEF Gate!Emit
<1>2. PICK t : t = [repository EXCEPT !["receipt"] = v]
    OBVIOUS
<1>3. repository = [f \in Gate!Files |-> repository[f]]
    BY DEF GateInv
<1>4. /\ t = [f \in Gate!Files |-> t[f]] /\ t["receipt"] = v
      /\ t["dispatch"] = repository["dispatch"]
    BY <1>2, <1>3, GateFiles
<1>5. ReceiptInv(Gate!build_review_receipt)
    BY ReceiptOfLedger DEF GateInv, Gate!Emit
<1>6. t["receipt"] # Torn => ReceiptInv(t["receipt"])
    BY <1>4, <1>5
<1>7. /\ released' = FALSE /\ Gate!Changed(t)
      /\ UNCHANGED <<source, ledger, commit, required_gates, today>>
    BY <1>1, <1>2 DEF Gate!Emit
<1>8. DispatchTable(t["dispatch"])
    BY <1>4 DEF GateInv
<1> QED
    BY <1>4, <1>6, <1>7, <1>8, ChangedFiles

(* Which builder makes which file. *)
LEMMA BuildCases ==
    /\ Gate!Build("budget") = Gate!build_budget
    /\ Gate!Build("formal_manifest") = Gate!build_manifest
    /\ Gate!Build("timing_package") = Gate!build_package
    /\ Gate!Build("dashboard") = Gate!build_dashboard
    /\ Gate!Build("bundle") = Gate!build_bundle
    /\ Gate!Build("capability_manifest") = Gate!build_capability_manifest
    /\ Gate!Build("capability_snapshot") = Gate!build_capability_manifest
    /\ Gate!Build("readme") = Gate!build_capability_manifest
<1>1. Gate!Build("budget") = Gate!build_budget
    BY DEF Gate!Build, Gate!CapabilityFiles
<1>2. Gate!Build("formal_manifest") = Gate!build_manifest
    BY DEF Gate!Build, Gate!CapabilityFiles
<1>3. Gate!Build("timing_package") = Gate!build_package
    BY DEF Gate!Build, Gate!CapabilityFiles
<1>4. Gate!Build("dashboard") = Gate!build_dashboard
    BY DEF Gate!Build, Gate!CapabilityFiles
<1>5. Gate!Build("bundle") = Gate!build_bundle
    BY DEF Gate!Build, Gate!CapabilityFiles
<1>6. Gate!Build("capability_manifest") = Gate!build_capability_manifest
    BY DEF Gate!Build, Gate!CapabilityFiles
<1>7. Gate!Build("capability_snapshot") = Gate!build_capability_manifest
    BY DEF Gate!Build, Gate!CapabilityFiles
<1>8. Gate!Build("readme") = Gate!build_capability_manifest
    BY DEF Gate!Build, Gate!CapabilityFiles
<1> QED
    BY <1>1, <1>2, <1>3, <1>4, <1>5, <1>6, <1>7, <1>8

(* What passed the gates is what its sources give, all the way down. *)
LEMMA GatesPassDerived ==
    ASSUME Gate!core_gate, DispatchTable(repository["dispatch"])
    PROVE  /\ \A f \in DOMAIN Gate!Derived : repository[f] = Gate!Derived[f]
           /\ repository["snapshot"] = repository["dispatch"] /\ repository["dispatch"].whole
           /\ repository["bundle"] =
                 [results |-> source["results"], digests |-> Gate!Hashed(repository)]
<1>1. /\ Gate!Matches("budget") /\ Gate!Matches("formal_manifest")
      /\ Gate!Matches("timing_package") /\ Gate!Matches("dashboard")
      /\ Gate!Matches("bundle") /\ \A f \in Gate!CapabilityFiles : Gate!Matches(f)
      /\ repository["snapshot"] = repository["dispatch"] /\ repository["dispatch"].whole
    BY DEF Gate!core_gate, Gate!check_budget, Gate!check_manifest, Gate!check_package,
       Gate!check_dashboard, Gate!check_bundle, Gate!assert_outputs_current,
       Gate!DispatchTests
<1>2. repository["budget"] = [references |-> source["references"]]
    BY <1>1, BuildCases DEF Gate!Matches, Gate!build_budget
<1>3. repository["formal_manifest"] = [rtl |-> source["rtl"], tasks |-> source["tasks"]]
    BY <1>1, BuildCases DEF Gate!Matches, Gate!build_manifest
<1>4. repository["timing_package"] = [tasks |-> source["tasks"]]
    <2>1. repository["formal_manifest"].tasks = source["tasks"]
        BY <1>3
    <2> QED
        BY <1>1, <2>1, BuildCases DEF Gate!Matches, Gate!build_package
<1>5. repository["dashboard"] = [results |-> source["results"], keys |-> TRUE]
    <2>1. repository["dashboard"] = Gate!build_dashboard
        BY <1>1, BuildCases DEF Gate!Matches
    <2>2. repository["dispatch"].whole = TRUE
        BY <1>1 DEF DispatchTable
    <2> QED
        BY <2>1, <2>2, Zenon DEF Gate!build_dashboard
<1>6. repository["bundle"] =
          [results |-> source["results"], digests |-> Gate!Hashed(repository)]
    BY <1>1, BuildCases DEF Gate!Matches, Gate!build_bundle
<1>7. /\ repository["capability_manifest"] = [inventory |-> source["inventory"]]
      /\ repository["capability_snapshot"] = [inventory |-> source["inventory"]]
      /\ repository["readme"] = [inventory |-> source["inventory"]]
    <2>1. {"capability_manifest", "capability_snapshot", "readme"} = Gate!CapabilityFiles
        BY DEF Gate!CapabilityFiles
    <2> QED
        BY <1>1, <2>1, BuildCases
           DEF Gate!Matches, Gate!build_capability_manifest, Gate!Inventory
<1>8. \A f \in DOMAIN Gate!Derived : repository[f] = Gate!Derived[f]
    <2>1. DOMAIN Gate!Derived = {"budget", "formal_manifest", "timing_package", "dashboard",
              "capability_manifest", "capability_snapshot", "readme"}
        BY DEF Gate!Derived
    <2>2. /\ Gate!Derived["budget"] = [references |-> source["references"]]
          /\ Gate!Derived["formal_manifest"] =
                [rtl |-> source["rtl"], tasks |-> source["tasks"]]
          /\ Gate!Derived["timing_package"] = [tasks |-> source["tasks"]]
          /\ Gate!Derived["dashboard"] = [results |-> source["results"], keys |-> TRUE]
          /\ Gate!Derived["capability_manifest"] = [inventory |-> source["inventory"]]
          /\ Gate!Derived["capability_snapshot"] = [inventory |-> source["inventory"]]
          /\ Gate!Derived["readme"] = [inventory |-> source["inventory"]]
        BY DEF Gate!Derived
    <2> QED
        BY <1>2, <1>3, <1>4, <1>5, <1>7, <2>1, <2>2
<1> QED
    BY <1>1, <1>6, <1>8

LEMMA ReleaseStep == Gate!GateAssumption /\ GateInv /\ Gate!Release => GateInv'
<1> SUFFICES ASSUME Gate!GateAssumption, GateInv, Gate!Release PROVE GateInv'
    OBVIOUS
<1>1. /\ ~dirty /\ required_gates = "success" /\ Gate!core_gate
      /\ UNCHANGED <<source, repository, ledger, commit, dirty, required_gates, today>>
    BY DEF GateInv, Gate!Release
<1>2. /\ repository["receipt"] # Torn
      /\ repository["receipt"].reviewed_commit = commit - 1
      /\ repository["receipt"].reviewed_utc + MAX_AGE_DAYS >= today
    BY DEF Gate!Release, Gate!validate_review_receipt
<1>3. /\ repository["receipt"].reviewed_utc \in Nat
      /\ ClaimSupported(repository["receipt"].ledger_sha256)
    BY <1>2 DEF GateInv, ReceiptInv
<1>4. today - repository["receipt"].reviewed_utc <= MAX_AGE_DAYS
    <2>1. today \in Nat /\ MAX_AGE_DAYS \in Nat
        BY DEF GateInv, Gate!GateAssumption
    <2> QED
        BY <1>2, <1>3, <2>1
<1>5. ReleaseConsistent
    <2>1. DispatchTable(repository["dispatch"])
        BY DEF GateInv
    <2> QED
        BY <1>1, <1>2, <1>3, <1>4, <2>1, GatesPassDerived DEF ReleaseConsistent
<1>6. ReleaseConsistent'
    <2>1. Gate!Derived' = Gate!Derived /\ Gate!Hashed(repository)' = Gate!Hashed(repository)
        BY <1>1 DEF Gate!Derived, Gate!Hashed
    <2> QED
        BY <1>1, <1>5, <2>1 DEF ReleaseConsistent
<1>7. ReleaseIsConsistent'
    BY <1>6, ConsistentMeans, PTL
<1>8. Gate!core_gate'
    BY <1>1, SameFiles
<1> QED
    BY <1>1, <1>7, <1>8 DEF GateInv, ReceiptInv, ClaimSupported, DispatchTable

(* Steps that touch no file of the repository and release nothing. *)
LEMMA OtherStep ==
    ASSUME GateInv, repository' = repository, released' = FALSE,
           today' \in Nat, ledger'.updated_utc \in Nat, dirty' \in BOOLEAN,
           required_gates' = "success" /\ ~dirty' => Gate!core_gate'
    PROVE  GateInv'
    BY DEF GateInv, ReceiptInv, ClaimSupported, DispatchTable

LEMMA GateStep == Gate!GateAssumption /\ GateInv /\ [Gate!ReleaseNext]_releaseVars => GateInv'
<1> SUFFICES ASSUME Gate!GateAssumption, GateInv, [Gate!ReleaseNext]_releaseVars PROVE GateInv'
    OBVIOUS
<1>0. today \in Nat /\ ledger.updated_utc \in Nat /\ dirty \in BOOLEAN
    BY DEF GateInv
<1>1. CASE Gate!Review
    <2>1. /\ ~dirty /\ UNCHANGED <<source, repository, dirty, required_gates, today>>
          /\ released' = FALSE
        BY <1>1 DEF Gate!Review
    <2>2. ledger'.updated_utc \in Nat
        BY <1>0, <1>1 DEF Gate!Review
    <2>3. required_gates' = "success" /\ ~dirty' => Gate!core_gate'
        BY <2>1, SameFiles DEF GateInv
    <2> QED
        BY <1>0, <2>1, <2>2, <2>3, OtherStep
<1>2. CASE Gate!Edit
    <2>1. /\ dirty' = TRUE /\ released' = FALSE /\ UNCHANGED <<repository, ledger, today>>
        BY <1>2 DEF Gate!Edit
    <2> QED
        BY <1>0, <2>1, OtherStep
<1>3. CASE Gate!Commit
    <2>1. /\ dirty' = FALSE /\ required_gates' = "none" /\ released' = FALSE
          /\ UNCHANGED <<repository, ledger, today>>
        BY <1>3 DEF Gate!Commit
    <2> QED
        BY <1>0, <2>1, OtherStep
<1>4. CASE Gate!RunGates
    <2>1. /\ released' = FALSE /\ UNCHANGED <<source, repository, ledger, dirty, today>>
          /\ required_gates' = "success" => Gate!core_gate
        BY <1>4 DEF Gate!RunGates
    <2>2. required_gates' = "success" /\ ~dirty' => Gate!core_gate'
        BY <2>1, SameFiles
    <2> QED
        BY <1>0, <2>1, <2>2, OtherStep
<1>5. CASE Gate!Day
    <2>1. /\ today' = today + 1 /\ released' = FALSE
          /\ UNCHANGED <<source, repository, ledger, dirty, required_gates>>
        BY <1>5 DEF Gate!Day
    <2>2. today' \in Nat
        BY <1>0, <2>1
    <2>3. required_gates' = "success" /\ ~dirty' => Gate!core_gate'
        BY <2>1, SameFiles DEF GateInv
    <2> QED
        BY <1>0, <2>1, <2>2, <2>3, OtherStep
<1>6. CASE UNCHANGED releaseVars
    <2>1. /\ UNCHANGED <<source, repository, ledger, commit, dirty, required_gates, today>>
          /\ released' = released
        BY <1>6 DEF releaseVars
    <2>2. Gate!core_gate' <=> Gate!core_gate
        BY <2>1, SameFiles
    <2>3. ReleaseIsConsistent' <=> ReleaseIsConsistent
        BY <2>1 DEF ReleaseIsConsistent, Gate!ReleaseIsConsistent, Gate!Derived, Gate!Hashed
    <2> QED
        BY <2>1, <2>2, <2>3 DEF GateInv, ReceiptInv, ClaimSupported, DispatchTable
<1> QED
    BY <1>1, <1>2, <1>3, <1>4, <1>5, <1>6, GenerateStep, ReceiptStep, ReleaseStep
       DEF Gate!ReleaseNext

(* For every ledger, age and number of edits, commits, days and crashes:   *)
(* what is released holds the files its sources give, the dispatch table   *)
(* apart, and a fresh receipt of a review that lets no claim be public     *)
(* against its evidence.                                                   *)
THEOREM ReleaseHolds == EvidenceSpec => []ReleaseIsConsistent
<1>1. EvidenceInit => GateInv
    BY GateInit DEF EvidenceInit
<1>2. GateInv /\ [EvidenceNext]_evidenceVars => GateInv'
    BY OneAtWork, GateStep, EvidenceParameters
<1>3. GateInv => ReleaseIsConsistent
    BY ConsistentMeans DEF GateInv
<1> QED
    BY <1>1, <1>2, <1>3, PTL DEF EvidenceSpec

-----------------------------------------------------------------------------
(* The matrix.  Every checkout an inspection can meet is among those seen  *)
(* since the call began, so what it reads is true of one of them; rows and *)
(* pages then stay as they are until the next call.                        *)
AllSpecs == {Matrix!SIBLINGS[n] : n \in 1 .. 5}
KnownSpecs == {spec \in AllSpecs : spec.key \in keys}

StatusesOf(kind) ==
    CASE kind = "file"     -> {"ready", "blocked_surface"}
      [] kind = "names"    -> {"ready", "deferred"}
      [] kind = "module"   -> {"blocked_runtime", "ready", "blocked_surface"}
      [] kind = "contract" -> {"blocked_runtime", "blocked_surface", "ready_with_blockers", "ready"}

Kinds == {"file", "names", "module", "contract"}

(* A checkout that was there, or what is installed beside it, has what was found. *)
ShownBy(spec, found, n, c) ==
    /\ c.exists /\ Matrix!Provided(spec.key, spec.surfaces[n], c)
    /\ n \in Matrix!Provider(spec.key, spec.surfaces[n], c).has
    /\ spec.surfaces[n] = "contract" /\ found = "ready" =>
          ~Matrix!Provider(spec.key, spec.surfaces[n], c).blocked

SurfaceInv(spec, surfaces, n) ==
    /\ surfaces[n] \in StatusesOf(spec.surfaces[n])
    /\ surfaces[n] \in Matrix!Ready => \E c \in seen[spec.key] : ShownBy(spec, surfaces[n], n, c)

(* The row in work is of this sibling: its version, its import and every    *)
(* surface read so far are those of a checkout seen.                        *)
RowOf(spec, r) ==
    /\ r = [f \in {"begun", "version", "import", "surfaces"} |-> r[f]]
    /\ \E c \in seen[spec.key] : c.exists /\ c.version = r.version
    /\ r.import = "ok" => \E c \in seen[spec.key] :
          c.exists /\ Matrix!Provided(spec.key, "module", c)
    /\ r.surfaces = [n \in DOMAIN spec.surfaces |-> r.surfaces[n]]
    /\ \A n \in DOMAIN r.surfaces : r.surfaces[n] # "unread" => SurfaceInv(spec, r.surfaces, n)

RowInv ==
    /\ Len(siblings) < Len(Matrix!Specs)
    /\ RowOf(Matrix!Current, row)

PagesInv ==
    passed_check => call = "idle" /\ markdown.siblings = siblings /\ json.siblings = siblings

MatrixInv ==
    /\ siblings \in Seq(UNION {{siblings[n]} : n \in DOMAIN siblings})
    /\ seen = [key \in keys |-> seen[key]]
    /\ code_root = [key \in keys |-> code_root[key]]
    /\ call # "idle" => \A key \in keys : code_root[key] \in seen[key]
    /\ \A n \in 1 .. Len(siblings) :
          siblings[n].key \in keys /\ Matrix!RowIsHonest(siblings[n])
    /\ row = Matrix!Blank \/ RowInv
    /\ PagesInv

LEMMA SiblingsOf ==
    /\ Matrix!SIBLINGS[1] = [key |-> "sc-neurocore-engine", current_gate |-> TRUE,
                             surfaces |-> <<"file", "file">>]
    /\ Matrix!SIBLINGS[2] = [key |-> "scpn-phase-orchestrator", current_gate |-> TRUE,
                             surfaces |-> <<"file", "file", "file">>]
    /\ Matrix!SIBLINGS[3] = [key |-> "scpn-control", current_gate |-> TRUE,
                             surfaces |-> <<"module">>]
    /\ Matrix!SIBLINGS[4] = [key |-> "scpn-fusion-core", current_gate |-> TRUE,
                             surfaces |-> <<"contract">>]
    /\ Matrix!SIBLINGS[5] = [key |-> "scpn-quantum-control", current_gate |-> FALSE,
                             surfaces |-> <<"file", "names">>]
    BY DEF Matrix!SIBLINGS, Matrix!Sibling

LEMMA SpecsAreKnown ==
    /\ Matrix!Specs \in Seq(KnownSpecs)
    /\ \A n \in 1 .. Len(Matrix!Specs) : Matrix!Specs[n] \in KnownSpecs
<1>1. \A n \in 1 .. 5 : Matrix!SIBLINGS[n].key \in keys => Matrix!SIBLINGS[n] \in KnownSpecs
    BY DEF KnownSpecs, AllSpecs
<1>2. \A n \in 1 .. 5 : Matrix!Chosen(n) \in Seq(KnownSpecs)
    BY <1>1 DEF Matrix!Chosen
<1>3. /\ Matrix!Chosen(1) \in Seq(KnownSpecs) /\ Matrix!Chosen(2) \in Seq(KnownSpecs)
      /\ Matrix!Chosen(3) \in Seq(KnownSpecs) /\ Matrix!Chosen(4) \in Seq(KnownSpecs)
      /\ Matrix!Chosen(5) \in Seq(KnownSpecs)
    BY <1>2
<1>4. Matrix!Specs \in Seq(KnownSpecs)
    BY <1>3 DEF Matrix!Specs
<1> QED
    BY <1>4

(* What the surfaces of a sibling are, and what its row may then say. *)
LEMMA SpecSurfaces ==
    ASSUME NEW spec \in AllSpecs
    PROVE  /\ spec = [key |-> spec.key, current_gate |-> spec.current_gate,
                      surfaces |-> spec.surfaces]
           /\ spec.current_gate \in BOOLEAN
           /\ spec.surfaces # <<>> /\ 1 \in DOMAIN spec.surfaces
           /\ \A n \in DOMAIN spec.surfaces : spec.surfaces[n] \in Kinds
           /\ spec.current_gate => \A n \in DOMAIN spec.surfaces : spec.surfaces[n] # "names"
           /\ \A n \in DOMAIN spec.surfaces :
                 spec.surfaces[n] \in {"module", "contract"} => DOMAIN spec.surfaces = {n}
           /\ spec.key = "sc-neurocore-engine" =>
                 \A n \in DOMAIN spec.surfaces : spec.surfaces[n] = "file"
<1>1. PICK i \in 1 .. 5 : spec = Matrix!SIBLINGS[i]
    BY DEF AllSpecs
<1>2. CASE i = 1
    <2>1. spec = [key |-> "sc-neurocore-engine", current_gate |-> TRUE,
                  surfaces |-> <<"file", "file">>]
        BY <1>1, <1>2, SiblingsOf
    <2>2. \A n \in 1 .. 2 : n = 1 \/ n = 2
        OBVIOUS
    <2> QED
        BY <2>1, <2>2 DEF Kinds
<1>3. CASE i = 2
    <2>1. spec = [key |-> "scpn-phase-orchestrator", current_gate |-> TRUE,
                  surfaces |-> <<"file", "file", "file">>]
        BY <1>1, <1>3, SiblingsOf
    <2>2. \A n \in 1 .. 3 : n = 1 \/ n = 2 \/ n = 3
        OBVIOUS
    <2> QED
        BY <2>1, <2>2 DEF Kinds
<1>4. CASE i = 3
    <2>1. spec = [key |-> "scpn-control", current_gate |-> TRUE, surfaces |-> <<"module">>]
        BY <1>1, <1>4, SiblingsOf
    <2>2. 1 .. 1 = {1}
        OBVIOUS
    <2> QED
        BY <2>1, <2>2 DEF Kinds
<1>5. CASE i = 4
    <2>1. spec = [key |-> "scpn-fusion-core", current_gate |-> TRUE, surfaces |-> <<"contract">>]
        BY <1>1, <1>5, SiblingsOf
    <2>2. 1 .. 1 = {1}
        OBVIOUS
    <2> QED
        BY <2>1, <2>2 DEF Kinds
<1>6. CASE i = 5
    <2>1. spec = [key |-> "scpn-quantum-control", current_gate |-> FALSE,
                  surfaces |-> <<"file", "names">>]
        BY <1>1, <1>6, SiblingsOf
    <2>2. \A n \in 1 .. 2 : n = 1 \/ n = 2
        OBVIOUS
    <2> QED
        BY <2>1, <2>2 DEF Kinds
<1> QED
    BY <1>2, <1>3, <1>4, <1>5, <1>6

LEMMA FinishedRow ==
    ASSUME NEW spec \in AllSpecs, NEW surfaces, DOMAIN surfaces = DOMAIN spec.surfaces,
           \A n \in DOMAIN surfaces : SurfaceInv(spec, surfaces, n),
           NEW import, NEW r, r.key = spec.key, r.current_gate = spec.current_gate,
           r.kinds = spec.surfaces, r.import = import, r.surfaces = surfaces,
           r.status = Matrix!_sibling_status(spec, import, surfaces),
           \E c \in seen[spec.key] : c.exists /\ c.version = r.version,
           import = "ok" => \E c \in seen[spec.key] :
               c.exists /\ Matrix!Provided(spec.key, "module", c)
    PROVE  Matrix!RowIsHonest(r)
<1>1. ASSUME ~Matrix!integration_gated(r)
      PROVE  /\ spec.current_gate
             /\ ~Matrix!Shows(surfaces, "blocked_surface")
             /\ \A n \in DOMAIN surfaces : surfaces[n] \in Matrix!Ready
    <2>1. spec.current_gate /\ r.status \notin {"blocked_runtime", "blocked_surface"}
        BY <1>1 DEF Matrix!integration_gated
    <2>2. ~Matrix!Shows(surfaces, "blocked_surface")
        BY <2>1 DEF Matrix!_sibling_status
    <2> SUFFICES ASSUME NEW n \in DOMAIN surfaces PROVE surfaces[n] \in Matrix!Ready
        BY <2>1, <2>2
    <2>3. surfaces[n] \in StatusesOf(spec.surfaces[n]) /\ surfaces[n] # "blocked_surface"
        BY <2>2 DEF SurfaceInv, Matrix!Shows
    <2>4. spec.surfaces[n] \in Kinds /\ spec.surfaces[n] # "names"
        BY <2>1, SpecSurfaces
    <2>5. CASE spec.surfaces[n] = "file"
        BY <2>3, <2>5 DEF StatusesOf, Matrix!Ready
    <2>6. CASE spec.surfaces[n] \in {"module", "contract"}
        <3>1. DOMAIN surfaces = {n} /\ spec.key # "sc-neurocore-engine"
            BY <2>6, SpecSurfaces
        <3>2. surfaces[n] # "blocked_runtime"
            <4> SUFFICES ASSUME surfaces[n] = "blocked_runtime" PROVE FALSE
                OBVIOUS
            <4>1. /\ Matrix!Shows(surfaces, "blocked_runtime")
                  /\ ~Matrix!Shows(surfaces, "ready_with_blockers")
                BY <3>1 DEF Matrix!Shows
            <4>2. Matrix!_sibling_status(spec, import, surfaces) = "blocked_runtime"
                BY <2>1, <2>2, <3>1, <4>1 DEF Matrix!_sibling_status
            <4> QED
                BY <2>1, <4>2
        <3>3. surfaces[n] \in {"ready", "ready_with_blockers"}
            <4>1. CASE spec.surfaces[n] = "module"
                BY <2>3, <3>2, <4>1 DEF StatusesOf
            <4>2. CASE spec.surfaces[n] = "contract"
                BY <2>3, <3>2, <4>2 DEF StatusesOf
            <4> QED
                BY <2>6, <4>1, <4>2
        <3> QED
            BY <3>3 DEF Matrix!Ready
    <2> QED
        BY <2>4, <2>5, <2>6 DEF Kinds
<1>2. ~Matrix!integration_gated(r) =>
          /\ Matrix!symbols_present(r)
          /\ \A n \in DOMAIN r.surfaces : \E c \in seen[r.key] : Matrix!Shown(r, n, c)
    <2> SUFFICES ASSUME ~Matrix!integration_gated(r)
                 PROVE  /\ Matrix!symbols_present(r)
                        /\ \A n \in DOMAIN surfaces :
                              \E c \in seen[spec.key] : Matrix!Shown(r, n, c)
        OBVIOUS
    <2>1. surfaces # <<>>
        BY SpecSurfaces
    <2>2. Matrix!symbols_present(r)
        BY <1>1, <2>1 DEF Matrix!symbols_present
    <2>3. \A n \in DOMAIN surfaces : \E c \in seen[spec.key] : ShownBy(spec, surfaces[n], n, c)
        BY <1>1 DEF SurfaceInv
    <2>4. \A n \in DOMAIN surfaces : \A c : ShownBy(spec, surfaces[n], n, c) => Matrix!Shown(r, n, c)
        BY DEF ShownBy, Matrix!Shown
    <2> QED
        BY <2>2, <2>3, <2>4
<1>3. ~Matrix!integration_gated(r) /\ ~Matrix!evidence_blocked(r) =>
          /\ r.status = "ready" /\ r.import = "ok"
          /\ \E c \in seen[r.key] : c.exists /\ Matrix!Provided(r.key, "module", c)
    <2> SUFFICES ASSUME ~Matrix!integration_gated(r), ~Matrix!evidence_blocked(r)
                 PROVE  r.status = "ready" /\ import = "ok"
        OBVIOUS
    <2>1. /\ spec.current_gate /\ ~Matrix!Shows(surfaces, "blocked_surface")
          /\ r.status # "blocked_runtime"
          /\ r.status \notin {"ready_with_blockers", "ready_with_hardware_gate"}
        BY <1>1 DEF Matrix!integration_gated, Matrix!evidence_blocked, Matrix!Outstanding
    <2> QED
        BY <2>1 DEF Matrix!_sibling_status
<1> QED
    BY <1>2, <1>3 DEF Matrix!RowIsHonest

(* A row that lacks its checkout, or that is deferred, lets nobody integrate. *)
LEMMA MissingRow ==
    ASSUME NEW r, r.status = "missing_repo" PROVE Matrix!RowIsHonest(r)
    BY DEF Matrix!RowIsHonest, Matrix!integration_gated

(* What was seen stays seen. *)
LEMMA SeenGrows ==
    ASSUME NEW r, Matrix!RowIsHonest(r), seen[r.key] \subseteq seen'[r.key],
           installed' = installed
    PROVE  Matrix!RowIsHonest(r)'
<1>0. /\ \A n, c : Matrix!Shown(r, n, c) => Matrix!Shown(r, n, c)'
      /\ \A c : Matrix!Provided(r.key, "module", c) => Matrix!Provided(r.key, "module", c)'
    BY DEF Matrix!Shown, Matrix!Provided, Matrix!Provider
<1>1. ASSUME ~Matrix!integration_gated(r)
      PROVE  /\ Matrix!symbols_present(r)
             /\ \E c \in seen'[r.key] : c.exists /\ c.version = r.version
             /\ \A n \in DOMAIN r.surfaces : \E c \in seen'[r.key] : Matrix!Shown(r, n, c)'
    <2>1. /\ Matrix!symbols_present(r)
          /\ \E c \in seen[r.key] : c.exists /\ c.version = r.version
          /\ \A n \in DOMAIN r.surfaces : \E c \in seen[r.key] : Matrix!Shown(r, n, c)
        BY <1>1 DEF Matrix!RowIsHonest
    <2> QED
        BY <1>0, <2>1
<1>2. ASSUME ~Matrix!integration_gated(r), ~Matrix!evidence_blocked(r)
      PROVE  /\ r.status = "ready" /\ r.import = "ok"
             /\ \E c \in seen'[r.key] : c.exists /\ Matrix!Provided(r.key, "module", c)'
    <2>1. /\ r.status = "ready" /\ r.import = "ok"
          /\ \E c \in seen[r.key] : c.exists /\ Matrix!Provided(r.key, "module", c)
        BY <1>2 DEF Matrix!RowIsHonest
    <2> QED
        BY <1>0, <2>1
<1>3. /\ Matrix!symbols_present(r)' <=> Matrix!symbols_present(r)
      /\ Matrix!integration_gated(r)' <=> Matrix!integration_gated(r)
      /\ Matrix!evidence_blocked(r)' <=> Matrix!evidence_blocked(r)
    BY DEF Matrix!symbols_present, Matrix!integration_gated, Matrix!evidence_blocked
<1> QED
    BY <1>1, <1>2, <1>3 DEF Matrix!RowIsHonest

LEMMA SameRow ==
    ASSUME NEW r, NEW n, siblings'[n] = r, Matrix!RowIsHonest(r)'
    PROVE  Matrix!RowIsHonest(siblings[n])'
<1>1. /\ \A m, c : Matrix!Shown(r, m, c)' <=> Matrix!Shown(siblings[n], m, c)'
      /\ \A c : Matrix!Provided(r.key, "module", c)' <=>
                    Matrix!Provided(siblings[n].key, "module", c)'
    BY DEF Matrix!Shown, Matrix!Provided, Matrix!Provider
<1> QED
    BY <1>1 DEF Matrix!RowIsHonest, Matrix!symbols_present, Matrix!integration_gated,
       Matrix!evidence_blocked

(* Rows that stay, while at most more is seen. *)
LEMMA RowsStay ==
    ASSUME MatrixInv, keys' = keys, installed' = installed, NEW n \in 1 .. Len(siblings),
           siblings'[n] = siblings[n],
           \A key \in keys : seen[key] \subseteq seen'[key]
    PROVE  siblings'[n].key \in keys' /\ Matrix!RowIsHonest(siblings[n])'
<1>1. PICK r : r = siblings[n]
    OBVIOUS
<1>2. r.key \in keys /\ Matrix!RowIsHonest(r) /\ siblings'[n] = r
    BY <1>1 DEF MatrixInv
<1>3. Matrix!RowIsHonest(r)'
    BY <1>2, SeenGrows
<1>4. Matrix!RowIsHonest(siblings[n])'
    BY <1>2, <1>3, SameRow
<1> QED
    BY <1>2, <1>4

LEMMA CurrentIsKnown ==
    ASSUME Len(siblings) \in Nat, Len(siblings) < Len(Matrix!Specs)
    PROVE  Matrix!Current \in AllSpecs /\ Matrix!Current.key \in keys
<1>1. Len(siblings) + 1 \in 1 .. Len(Matrix!Specs)
    BY SpecsAreKnown
<1> QED
    BY <1>1, SpecsAreKnown DEF Matrix!Current, KnownSpecs

LEMMA SameSpecs ==
    ASSUME keys' = keys
    PROVE  Matrix!Specs' = Matrix!Specs
    BY DEF Matrix!Specs, Matrix!Chosen

(* The row in work, while at most more is seen. *)
LEMMA RowOfStays ==
    ASSUME NEW spec, NEW r, RowOf(spec, r), seen[spec.key] \subseteq seen'[spec.key],
           installed' = installed
    PROVE  RowOf(spec, r)'
<1>1. /\ \A n, c : ShownBy(spec, r.surfaces[n], n, c) => ShownBy(spec, r.surfaces[n], n, c)'
      /\ \A c : Matrix!Provided(spec.key, "module", c) => Matrix!Provided(spec.key, "module", c)'
    BY DEF ShownBy, Matrix!Provided, Matrix!Provider
<1>2. \A n : SurfaceInv(spec, r.surfaces, n) => SurfaceInv(spec, r.surfaces, n)'
    BY <1>1 DEF SurfaceInv
<1> QED
    BY <1>1, <1>2 DEF RowOf

LEMMA RowHere ==
    ASSUME NEW spec, NEW r, RowOf(spec, r)', Matrix!Current' = spec, row' = r,
           Len(siblings') < Len(Matrix!Specs')
    PROVE  RowInv'
<1>1. \A n : SurfaceInv(spec, r.surfaces, n)' <=> SurfaceInv(Matrix!Current, row.surfaces, n)'
    BY DEF SurfaceInv, ShownBy, Matrix!Provided, Matrix!Provider
<1>2. \A c : Matrix!Provided(spec.key, "module", c)' <=>
                Matrix!Provided(Matrix!Current.key, "module", c)'
    BY DEF Matrix!Provided
<1> QED
    BY <1>1, <1>2 DEF RowInv, RowOf

LEMMA RowStays ==
    ASSUME MatrixInv, UNCHANGED <<keys, installed, row, siblings>>,
           \A key \in keys : seen[key] \subseteq seen'[key]
    PROVE  (row = Matrix!Blank \/ RowInv)'
<1>1. CASE row = Matrix!Blank
    BY <1>1 DEF Matrix!Blank
<1>2. CASE RowInv
    <2>1. Len(siblings) \in Nat /\ Len(siblings) < Len(Matrix!Specs)
        BY <1>2 DEF MatrixInv, RowInv
    <2>2. Matrix!Specs' = Matrix!Specs /\ Matrix!Current' = Matrix!Current
        BY SameSpecs DEF Matrix!Current
    <2>3. PICK spec, r : spec = Matrix!Current /\ r = row
        OBVIOUS
    <2>4. spec.key \in keys /\ seen[spec.key] \subseteq seen'[spec.key]
        BY <2>1, <2>3, CurrentIsKnown
    <2>5. RowOf(spec, r)'
        BY <1>2, <2>3, <2>4, RowOfStays DEF RowInv
    <2>6. Len(siblings') < Len(Matrix!Specs')
        BY <2>1, <2>2
    <2> QED
        BY <2>2, <2>3, <2>5, <2>6, RowHere
<1> QED
    BY <1>1, <1>2 DEF MatrixInv

(* Steps that leave the rows alone. *)
LEMMA QuietStep ==
    ASSUME MatrixInv, UNCHANGED <<keys, installed, row, siblings>>,
           seen' = [key \in keys |-> seen'[key]],
           code_root' = [key \in keys |-> code_root'[key]],
           \A key \in keys : seen[key] \subseteq seen'[key],
           call' # "idle" => \A key \in keys : code_root'[key] \in seen'[key],
           PagesInv'
    PROVE  MatrixInv'
<1>1. siblings' \in Seq(UNION {{siblings'[n]} : n \in DOMAIN siblings'})
    BY DEF MatrixInv
<1>2. \A n \in 1 .. Len(siblings') :
          siblings'[n].key \in keys' /\ Matrix!RowIsHonest(siblings[n])'
    BY RowsStay
<1>3. (row = Matrix!Blank \/ RowInv)'
    BY RowStays
<1> QED
    BY <1>1, <1>2, <1>3 DEF MatrixInv

LEMMA FinishStep ==
    ASSUME MatrixInv, call # "idle", Matrix!Reading, row' = Matrix!Blank,
           NEW r, siblings' = Append(siblings, r), r.key \in keys, Matrix!RowIsHonest(r)
    PROVE  MatrixInv'
<1>1. /\ UNCHANGED <<keys, installed, seen, code_root, call, passed_check, markdown, json>>
      /\ siblings \in Seq(UNION {{siblings[n]} : n \in DOMAIN siblings}) /\ ~passed_check
      /\ Len(siblings) \in Nat
    BY DEF Matrix!Reading, MatrixInv, PagesInv
<1>2. /\ Len(siblings') = Len(siblings) + 1 /\ siblings'[Len(siblings) + 1] = r
      /\ \A n \in 1 .. Len(siblings) : siblings'[n] = siblings[n]
      /\ siblings' \in Seq(UNION {{siblings'[n]} : n \in DOMAIN siblings'})
    BY <1>1
<1>3. \A n \in 1 .. Len(siblings') :
          siblings'[n].key \in keys' /\ Matrix!RowIsHonest(siblings[n])'
    <2> SUFFICES ASSUME NEW n \in 1 .. Len(siblings')
                 PROVE  siblings'[n].key \in keys' /\ Matrix!RowIsHonest(siblings[n])'
        OBVIOUS
    <2>1. CASE n \in 1 .. Len(siblings)
        <3>1. siblings'[n] = siblings[n] /\ \A key \in keys : seen[key] \subseteq seen'[key]
            BY <1>1, <1>2, <2>1
        <3> QED
            BY <1>1, <2>1, <3>1, RowsStay
    <2>2. CASE n = Len(siblings) + 1
        <3>1. siblings'[n] = r
            BY <1>2, <2>2
        <3>2. Matrix!RowIsHonest(r)'
            BY <1>1, SeenGrows
        <3>3. Matrix!RowIsHonest(siblings[n])'
            BY <3>1, <3>2, SameRow
        <3> QED
            BY <1>1, <3>1, <3>3
    <2> QED
        BY <1>1, <1>2, <2>1, <2>2
<1>4. row' = Matrix!Blank'
    BY DEF Matrix!Blank
<1> QED
    BY <1>1, <1>2, <1>3, <1>4 DEF MatrixInv, PagesInv

LEMMA BeginStep ==
    ASSUME MatrixInv, NEW purpose \in {"write", "check"}, Matrix!Begin(purpose)
    PROVE  MatrixInv'
<1>1. /\ row' = Matrix!Blank /\ siblings' = <<>> /\ passed_check' = FALSE
      /\ seen' = [key \in keys |-> {code_root[key]}] /\ UNCHANGED <<keys, installed, code_root>>
    BY DEF Matrix!Begin
<1>2. row' = Matrix!Blank'
    BY <1>1 DEF Matrix!Blank
<1>3. /\ seen' = [key \in keys' |-> seen'[key]]
      /\ \A key \in keys' : code_root'[key] \in seen'[key]
    BY <1>1
<1>4. siblings' \in Seq(UNION {{siblings'[n]} : n \in DOMAIN siblings'}) /\ Len(siblings') = 0
    BY <1>1
<1> QED
    BY <1>1, <1>2, <1>3, <1>4 DEF MatrixInv, PagesInv

LEMMA BeginRowStep == MatrixInv /\ Matrix!BeginRow => MatrixInv'
<1> SUFFICES ASSUME MatrixInv, Matrix!BeginRow PROVE MatrixInv'
    OBVIOUS
<1>1. /\ call # "idle" /\ Len(siblings) \in Nat /\ Len(siblings) < Len(Matrix!Specs)
      /\ Matrix!Reading
    BY DEF MatrixInv, PagesInv, Matrix!BeginRow, Matrix!Inspecting
<1>2. PICK spec \in AllSpecs : spec = Matrix!Current /\ spec.key \in keys
    BY <1>1, CurrentIsKnown
<1>3. CASE Matrix!Source.exists
    <2>1. /\ row' = [begun |-> TRUE, version |-> Matrix!Source.version, import |-> "pending",
                     surfaces |-> [n \in DOMAIN spec.surfaces |-> "unread"]]
          /\ UNCHANGED siblings
        BY <1>2, <1>3 DEF Matrix!BeginRow
    <2>2. UNCHANGED <<keys, installed, seen, code_root, call, passed_check, markdown, json>>
        BY <1>1 DEF Matrix!Reading
    <2>3. Matrix!Source \in seen[spec.key]
        BY <1>1, <1>2 DEF MatrixInv, PagesInv, Matrix!Source
    <2>4. Matrix!Specs' = Matrix!Specs /\ Matrix!Current' = spec
        BY <1>2, <2>1, <2>2, SameSpecs DEF Matrix!Current
    <2>5. RowInv'
        <3>1. /\ row' = [f \in {"begun", "version", "import", "surfaces"} |-> row'[f]]
              /\ row'.surfaces = [n \in DOMAIN spec.surfaces |-> row'.surfaces[n]]
              /\ \A n \in DOMAIN row'.surfaces : row'.surfaces[n] = "unread"
              /\ row'.version = Matrix!Source.version /\ row'.import = "pending"
            BY <2>1
        <3>2. \E c \in seen[spec.key] : c.exists /\ c.version = row'.version
            BY <1>3, <2>3, <3>1
        <3>3. PICK r : r = row'
            OBVIOUS
        <3>4. RowOf(spec, r)'
            BY <2>2, <3>1, <3>2, <3>3 DEF RowOf
        <3> QED
            BY <1>1, <2>1, <2>4, <3>3, <3>4, RowHere
    <2>6. \A n \in 1 .. Len(siblings') :
              siblings'[n].key \in keys' /\ Matrix!RowIsHonest(siblings[n])'
        BY <2>1, <2>2, RowsStay
    <2> QED
        BY <2>1, <2>2, <2>5, <2>6 DEF MatrixInv, PagesInv
<1>4. CASE ~Matrix!Source.exists
    <2>1. PICK r : /\ r.key = spec.key /\ r.status = "missing_repo"
                   /\ siblings' = Append(siblings, r)
        <3> DEFINE x == [key |-> spec.key, current_gate |-> spec.current_gate,
                         kinds |-> spec.surfaces,
                         version |-> row.version, import |-> row.import,
                         status |-> "missing_repo", surfaces |-> <<>>]
        <3>1. siblings' = Append(siblings, x)
            BY <1>2, <1>4 DEF Matrix!BeginRow, Matrix!Finish
        <3>2. x.key = spec.key /\ x.status = "missing_repo"
            OBVIOUS
        <3> HIDE DEF x
        <3> QED
            BY <3>1, <3>2
    <2>2. row' = Matrix!Blank
        BY <1>4 DEF Matrix!BeginRow, Matrix!Finish
    <2> QED
        BY <1>1, <1>2, <2>1, <2>2, MissingRow, FinishStep
<1> QED
    BY <1>3, <1>4

(* What a surface shows is of its kind, and found only where it is. *)
LEMMA StatusFound ==
    ASSUME NEW spec, spec = Matrix!Current, NEW n, spec.surfaces[n] \in Kinds,
           NEW found \in Matrix!SurfaceStatuses(spec.surfaces[n], n)
    PROVE  /\ found \in StatusesOf(spec.surfaces[n]) /\ found # "unread"
           /\ found \in Matrix!Ready => ShownBy(spec, found, n, Matrix!Source)
<1> DEFINE kind == spec.surfaces[n]
           provided == Matrix!Provided(spec.key, kind, Matrix!Source)
           package == Matrix!Provider(spec.key, kind, Matrix!Source)
           has == Matrix!Source.exists /\ provided /\ n \in package.has
<1>1. CASE kind = "file"
    <2>1. found \in {"ready", "blocked_surface"} /\ (found = "ready" => has)
        BY <1>1 DEF Matrix!SurfaceStatuses, Matrix!Imported
    <2> QED
        BY <1>1, <2>1 DEF StatusesOf, Matrix!Ready, ShownBy
<1>2. CASE kind = "names"
    <2>1. found \in {"ready", "deferred"} /\ (found = "ready" => has)
        BY <1>2 DEF Matrix!SurfaceStatuses, Matrix!Imported
    <2> QED
        BY <1>2, <2>1 DEF StatusesOf, Matrix!Ready, ShownBy
<1>3. CASE kind \in Matrix!Imported /\ ~provided
    <2>1. found = "blocked_runtime" /\ kind \in {"module", "contract"}
        BY <1>3 DEF Matrix!SurfaceStatuses, Matrix!Imported
    <2> QED
        BY <2>1 DEF StatusesOf, Matrix!Ready
<1>4. CASE kind = "module" /\ provided
    <2>1. found \in {"ready", "blocked_surface", "blocked_runtime"} /\ (found = "ready" => has)
        BY <1>4 DEF Matrix!SurfaceStatuses, Matrix!Imported
    <2> QED
        BY <1>4, <2>1 DEF StatusesOf, Matrix!Ready, ShownBy
<1>5. CASE kind = "contract" /\ provided
    <2>1. found \in {"blocked_runtime",
                     Matrix!inspect_fusion_frc_contract(has, package.blocked)}
        BY <1>5 DEF Matrix!SurfaceStatuses, Matrix!Imported
    <2>2. /\ found \in {"ready", "blocked_surface", "blocked_runtime", "ready_with_blockers"}
          /\ found \in {"ready", "ready_with_blockers"} => has
          /\ found = "ready" => ~package.blocked
        BY <2>1 DEF Matrix!inspect_fusion_frc_contract
    <2> QED
        BY <1>5, <2>2 DEF StatusesOf, Matrix!Ready, ShownBy
<1> QED
    BY <1>1, <1>2, <1>3, <1>4, <1>5 DEF Kinds, Matrix!Imported

LEMMA ImportStep == MatrixInv /\ Matrix!RuntimeImport => MatrixInv'
<1> SUFFICES ASSUME MatrixInv, Matrix!RuntimeImport PROVE MatrixInv'
    OBVIOUS
<1>1. PICK import \in {"error", "ok"} :
          /\ row' = [row EXCEPT !.import = import] /\ Matrix!Source.exists
          /\ import = "ok" => Matrix!Provided(Matrix!Current.key, "module", Matrix!Source)
    BY DEF Matrix!RuntimeImport
<1>2. /\ UNCHANGED <<keys, installed, seen, code_root, call, passed_check, markdown, json, siblings>>
      /\ row.import = "pending"
    BY DEF Matrix!RuntimeImport, Matrix!Reading
<1>3. RowInv
    BY <1>2 DEF MatrixInv, PagesInv, Matrix!Blank
<1>4. Matrix!Specs' = Matrix!Specs /\ Matrix!Current' = Matrix!Current
    BY <1>2, SameSpecs DEF Matrix!Current
<1>5. PICK spec : spec = Matrix!Current
    OBVIOUS
<1>0. /\ row = [f \in {"begun", "version", "import", "surfaces"} |-> row[f]]
      /\ RowOf(spec, row) /\ Matrix!Source \in seen[spec.key]
    <2>1. call # "idle" /\ Len(siblings) \in Nat /\ Len(siblings) < Len(Matrix!Specs)
        BY <1>3 DEF Matrix!RuntimeImport, Matrix!Inspecting, MatrixInv
    <2>2. spec.key \in keys
        BY <1>5, <2>1, CurrentIsKnown
    <2> QED
        BY <1>3, <1>5, <2>1, <2>2 DEF RowInv, RowOf, MatrixInv, Matrix!Source
<1>6. /\ row'.version = row.version /\ row'.surfaces = row.surfaces /\ row'.import = import
      /\ row' = [f \in {"begun", "version", "import", "surfaces"} |-> row'[f]]
    BY <1>0, <1>1
<1>7. RowInv'
    <2>1. PICK r : r = row'
        OBVIOUS
    <2>2. RowOf(spec, r)
        BY <1>0, <1>1, <1>5, <1>6, <2>1 DEF RowOf
    <2>3. RowOf(spec, r)'
        BY <1>2, <2>2, RowOfStays
    <2> QED
        BY <1>2, <1>3, <1>4, <1>5, <2>1, <2>3, RowHere DEF RowInv
<1>8. \A n \in 1 .. Len(siblings') :
          siblings'[n].key \in keys' /\ Matrix!RowIsHonest(siblings[n])'
    BY <1>2, RowsStay
<1> QED
    BY <1>2, <1>7, <1>8 DEF MatrixInv, PagesInv

LEMMA SurfaceStep == MatrixInv /\ Matrix!ReadSurface => MatrixInv'
<1> SUFFICES ASSUME MatrixInv, Matrix!ReadSurface PROVE MatrixInv'
    OBVIOUS
<1>1. /\ call # "idle" /\ Len(siblings) \in Nat /\ Len(siblings) < Len(Matrix!Specs)
      /\ Matrix!Reading /\ row.import \in {"ok", "error"}
      /\ UNCHANGED <<keys, installed, seen, code_root, call, passed_check, markdown, json>>
    BY DEF MatrixInv, PagesInv, Matrix!ReadSurface, Matrix!Inspecting, Matrix!Reading
<1>2. PICK spec \in AllSpecs : spec = Matrix!Current /\ spec.key \in keys
    BY <1>1, CurrentIsKnown
<1>3. RowInv
    BY <1>1 DEF MatrixInv, PagesInv, Matrix!Blank
<1>0. PICK n \in Matrix!Unread : \E found, surfaces :
          /\ found \in Matrix!SurfaceStatuses(spec.surfaces[n], n)
          /\ surfaces = [row.surfaces EXCEPT ![n] = found]
          /\ IF Matrix!Unread = {n}
             THEN Matrix!Finish(Matrix!_sibling_status(spec, row.import, surfaces), surfaces)
             ELSE row' = [row EXCEPT !.surfaces = surfaces] /\ UNCHANGED siblings
    BY <1>2 DEF Matrix!ReadSurface
<1>4. PICK found, surfaces :
          /\ found \in Matrix!SurfaceStatuses(spec.surfaces[n], n)
          /\ surfaces = [row.surfaces EXCEPT ![n] = found]
          /\ IF Matrix!Unread = {n}
             THEN Matrix!Finish(Matrix!_sibling_status(spec, row.import, surfaces), surfaces)
             ELSE row' = [row EXCEPT !.surfaces = surfaces] /\ UNCHANGED siblings
    BY <1>0
<1>5. /\ n \in DOMAIN row.surfaces
      /\ row.surfaces = [m \in DOMAIN spec.surfaces |-> row.surfaces[m]]
      /\ \A m \in DOMAIN row.surfaces :
            row.surfaces[m] # "unread" => SurfaceInv(spec, row.surfaces, m)
      /\ RowOf(spec, row)
    BY <1>2, <1>3 DEF Matrix!Unread, RowInv, RowOf
<1>6. /\ DOMAIN surfaces = DOMAIN spec.surfaces /\ surfaces[n] = found
      /\ surfaces = [m \in DOMAIN spec.surfaces |-> surfaces[m]]
      /\ \A m \in DOMAIN surfaces : m # n => surfaces[m] = row.surfaces[m]
    BY <1>4, <1>5
<1>7. SurfaceInv(spec, surfaces, n) /\ found # "unread"
    <2>1. spec.surfaces[n] \in Kinds
        BY <1>5, SpecSurfaces
    <2>2. /\ found \in StatusesOf(spec.surfaces[n]) /\ found # "unread"
          /\ found \in Matrix!Ready => ShownBy(spec, found, n, Matrix!Source)
        BY <1>2, <1>4, <2>1, StatusFound
    <2>3. Matrix!Source \in seen[spec.key]
        BY <1>1, <1>2 DEF MatrixInv, PagesInv, Matrix!Source
    <2> QED
        BY <1>6, <2>2, <2>3 DEF SurfaceInv
<1>8. \A m \in DOMAIN surfaces : surfaces[m] # "unread" => SurfaceInv(spec, surfaces, m)
    BY <1>5, <1>6, <1>7 DEF SurfaceInv
<1>9. CASE Matrix!Unread = {n}
    <2>1. \A m \in DOMAIN surfaces : SurfaceInv(spec, surfaces, m)
        <3>1. \A m \in DOMAIN surfaces : m # n => row.surfaces[m] # "unread"
            BY <1>5, <1>6, <1>9 DEF Matrix!Unread
        <3> QED
            BY <1>6, <1>7, <1>8, <3>1
    <2>2. row' = Matrix!Blank
        BY <1>4, <1>9 DEF Matrix!Finish
    <2>3. PICK r : /\ r.key = spec.key /\ r.current_gate = spec.current_gate
                   /\ r.kinds = spec.surfaces
                   /\ r.version = row.version /\ r.import = row.import
                   /\ r.status = Matrix!_sibling_status(spec, row.import, surfaces)
                   /\ r.surfaces = surfaces /\ siblings' = Append(siblings, r)
        <3> DEFINE x == [key |-> spec.key, current_gate |-> spec.current_gate,
                         kinds |-> spec.surfaces, version |-> row.version, import |-> row.import,
                         status |-> Matrix!_sibling_status(spec, row.import, surfaces),
                         surfaces |-> surfaces]
        <3>1. siblings' = Append(siblings, x)
            BY <1>2, <1>4, <1>9 DEF Matrix!Finish
        <3>2. /\ x.key = spec.key /\ x.current_gate = spec.current_gate
              /\ x.kinds = spec.surfaces
              /\ x.version = row.version /\ x.import = row.import
              /\ x.status = Matrix!_sibling_status(spec, row.import, surfaces)
              /\ x.surfaces = surfaces
            OBVIOUS
        <3> HIDE DEF x
        <3> QED
            BY <3>1, <3>2
    <2>4. Matrix!RowIsHonest(r)
        <3>1. /\ \E c \in seen[spec.key] : c.exists /\ c.version = r.version
              /\ r.import = "ok" => \E c \in seen[spec.key] :
                    c.exists /\ Matrix!Provided(spec.key, "module", c)
            BY <1>5, <2>3 DEF RowOf
        <3> QED
            BY <1>6, <2>1, <2>3, <3>1, FinishedRow
    <2> QED
        BY <1>1, <1>2, <2>2, <2>3, <2>4, FinishStep
<1>10. CASE Matrix!Unread # {n}
    <2>1. row' = [row EXCEPT !.surfaces = surfaces] /\ UNCHANGED siblings
        BY <1>4, <1>10
    <2>2. row = [f \in {"begun", "version", "import", "surfaces"} |-> row[f]]
        BY <1>5 DEF RowOf
    <2>3. /\ row'.version = row.version /\ row'.surfaces = surfaces /\ row'.import = row.import
          /\ row' = [f \in {"begun", "version", "import", "surfaces"} |-> row'[f]]
        BY <2>1, <2>2
    <2>4. Matrix!Specs' = Matrix!Specs /\ Matrix!Current' = spec
        BY <1>1, <1>2, <2>1, SameSpecs DEF Matrix!Current
    <2>5. PICK r : r = row'
        OBVIOUS
    <2>6. RowInv'
        <3>1. RowOf(spec, r)
            BY <1>5, <1>6, <1>8, <2>3, <2>5 DEF RowOf
        <3>2. RowOf(spec, r)'
            BY <1>1, <3>1, RowOfStays
        <3>3. Len(siblings') < Len(Matrix!Specs')
            BY <1>1, <2>1, <2>4
        <3> QED
            BY <2>4, <2>5, <3>2, <3>3, RowHere
    <2>7. \A m \in 1 .. Len(siblings') :
              siblings'[m].key \in keys' /\ Matrix!RowIsHonest(siblings[m])'
        BY <1>1, <2>1, RowsStay
    <2> QED
        BY <1>1, <2>1, <2>6, <2>7 DEF MatrixInv, PagesInv
<1> QED
    BY <1>9, <1>10

(* A file may be written, compared or abandoned, a checkout edited. *)
LEMMA RestStep ==
    ASSUME MatrixInv,
           Matrix!Check \/ Matrix!WritePage \/ Matrix!WriteJson \/ Matrix!Die
           \/ UNCHANGED ecosystemVars
    PROVE  MatrixInv'
<1>1. UNCHANGED <<keys, installed, row, siblings, seen, code_root>>
    BY DEF Matrix!Check, Matrix!WritePage, Matrix!WriteJson, Matrix!Die, ecosystemVars
<1>2. /\ seen' = [key \in keys |-> seen'[key]]
      /\ code_root' = [key \in keys |-> code_root'[key]]
      /\ \A key \in keys : seen[key] \subseteq seen'[key]
    BY <1>1 DEF MatrixInv, PagesInv
<1>3. call' # "idle" => call # "idle"
    BY DEF Matrix!Check, Matrix!WritePage, Matrix!WriteJson, Matrix!Die, ecosystemVars,
       Matrix!Reported
<1>4. call' # "idle" => \A key \in keys : code_root'[key] \in seen'[key]
    BY <1>1, <1>3 DEF MatrixInv, PagesInv
<1>5. PagesInv'
    <2>1. CASE Matrix!Check
        <3> SUFFICES ASSUME passed_check'
                     PROVE  /\ call' = "idle" /\ markdown'.siblings = siblings'
                            /\ json'.siblings = siblings'
            BY DEF PagesInv
        <3>1. Matrix!UpToDate /\ call' = "idle" /\ UNCHANGED <<siblings, markdown, json>>
            BY <2>1 DEF Matrix!Check
        <3>2. markdown = Matrix!Report /\ json = Matrix!Report
            BY <3>1 DEF Matrix!UpToDate
        <3>3. Matrix!Report.siblings = siblings
            BY DEF Matrix!Report
        <3> QED
            BY <3>1, <3>2, <3>3
    <2>2. CASE Matrix!WritePage \/ Matrix!WriteJson \/ Matrix!Die
        <3>1. call # "idle" /\ passed_check' = passed_check
            BY <2>2 DEF Matrix!WritePage, Matrix!WriteJson, Matrix!Die, Matrix!Reported
        <3> QED
            BY <3>1 DEF MatrixInv, PagesInv
    <2>3. CASE UNCHANGED ecosystemVars
        BY <2>3 DEF MatrixInv, PagesInv, ecosystemVars
    <2> QED
        BY <2>1, <2>2, <2>3
<1> QED
    BY <1>1, <1>2, <1>4, <1>5, QuietStep

LEMMA CheckoutStep == MatrixInv /\ Matrix!Edit => MatrixInv'
<1> SUFFICES ASSUME MatrixInv, Matrix!Edit PROVE MatrixInv'
    OBVIOUS
<1>1. PICK key, checkout :
          /\ key \in keys
          /\ code_root' = [code_root EXCEPT ![key] = checkout]
          /\ seen' = [seen EXCEPT ![key] =
                         IF call = "idle" THEN @ ELSE @ \cup {checkout}]
    BY DEF Matrix!Edit
<1>2. UNCHANGED <<keys, installed, call, row, siblings, markdown, json, passed_check>>
    BY DEF Matrix!Edit
<1>3. /\ seen = [k \in keys |-> seen[k]] /\ code_root = [k \in keys |-> code_root[k]]
      /\ call # "idle" => \A k \in keys : code_root[k] \in seen[k]
    BY DEF MatrixInv, PagesInv
<1>4. /\ seen' = [k \in keys |-> seen'[k]] /\ code_root' = [k \in keys |-> code_root'[k]]
      /\ \A k \in keys : seen[k] \subseteq seen'[k]
    BY <1>1, <1>3
<1>5. ASSUME call # "idle", NEW k \in keys PROVE code_root'[k] \in seen'[k]
    <2>1. CASE k = key
        <3>1. checkout \in seen'[key]
            BY <1>1, <1>3, <1>5
        <3>2. code_root'[key] = checkout
            BY <1>1, <1>3
        <3> QED
            BY <2>1, <3>1, <3>2
    <2>2. CASE k # key
        <3>1. code_root'[k] = code_root[k]
            BY <1>1, <2>2
        <3> QED
            BY <1>3, <1>4, <1>5, <3>1
    <2> QED
        BY <2>1, <2>2
<1>6. PagesInv'
    BY <1>2 DEF MatrixInv, PagesInv
<1> QED
    BY <1>2, <1>4, <1>5, <1>6, QuietStep

LEMMA MatrixStep == MatrixInv /\ [Matrix!EcosystemNext]_ecosystemVars => MatrixInv'
    BY BeginStep, BeginRowStep, ImportStep, SurfaceStep, RestStep, CheckoutStep
       DEF Matrix!EcosystemNext

LEMMA MatrixInit == Matrix!EcosystemInit => MatrixInv
<1> SUFFICES ASSUME Matrix!EcosystemInit PROVE MatrixInv
    OBVIOUS
<1>1. /\ siblings = <<>> /\ row = Matrix!Blank /\ call = "idle" /\ passed_check = FALSE
      /\ seen = [key \in keys |-> {}]
      /\ code_root = [key \in keys |-> Matrix!Pristine(Matrix!SpecOf(key))]
    BY DEF Matrix!EcosystemInit
<1>2. siblings \in Seq(UNION {{siblings[n]} : n \in DOMAIN siblings}) /\ Len(siblings) = 0
    BY <1>1
<1>3. seen = [key \in keys |-> seen[key]] /\ code_root = [key \in keys |-> code_root[key]]
    BY <1>1
<1> QED
    BY <1>1, <1>2, <1>3 DEF MatrixInv, PagesInv

(* For every set of siblings and whatever is edited while they are looked  *)
(* at: a row shows only what a checkout that was there had, or the package  *)
(* installed beside it; and so do the pages that pass a check.             *)
THEOREM MatrixHolds == EvidenceSpec => []MatrixIsHonest
<1>1. EvidenceInit => MatrixInv
    BY MatrixInit DEF EvidenceInit
<1>2. MatrixInv /\ [EvidenceNext]_evidenceVars => MatrixInv'
    BY OneAtWork, MatrixStep
<1>3. MatrixInv => MatrixIsHonest
    <2> SUFFICES ASSUME MatrixInv PROVE MatrixIsHonest
        OBVIOUS
    <2>1. \A n \in DOMAIN siblings : Matrix!RowIsHonest(siblings[n])
        BY DEF MatrixInv
    <2>2. passed_check => markdown.siblings = siblings /\ json.siblings = siblings
        BY DEF MatrixInv, PagesInv
    <2> QED
        BY <2>1, <2>2 DEF MatrixIsHonest, Matrix!MatrixIsHonest
<1> QED
    BY <1>1, <1>2, <1>3, PTL DEF EvidenceSpec

=============================================================================
