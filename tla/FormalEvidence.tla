---------------------------- MODULE FormalEvidence ----------------------------
(***************************************************************************)
(* How a SymbiYosys proof becomes evidence: tools/formal_manifest.py pins  *)
(* the inputs of a task, tools/run_formal.py leaves a status in the build  *)
(* tree, tools/emit_studio_formal_claim.py seals a claim from both         *)
(* (sealed_claim.py), and evidence.py wraps the manifest entry into a      *)
(* bundle whose certificate the Hub compares with the RTL.                 *)
(*                                                                         *)
(* One task with three inputs; a digest is the content itself.  Whether    *)
(* the proof succeeds depends on the inputs alone.                         *)
(***************************************************************************)
CONSTANTS Contents,           \* versions an input file can have
          Provable,           \* input sets for which the proof succeeds
          NoManifest, NoClaim, NoBundle    \* files not generated yet

InputFiles == {"task.sby", "hdl/formal", "hdl/src"}
Trees == [InputFiles -> Contents]

EvidenceAssumption == Provable \subseteq Trees

VARIABLES
    tree,                     \* the checkout
    mode,                     \* [options] mode of the task
    manifest, catalogue_doc,  \* formal_manifest.json and the rendered catalogue
    status,                   \* build/.../status, "absent" before the first run
    claim, bundle,            \* sealed claim and formal-proof bundle
    green                     \* history: gates passed since the last edit

vars == <<tree, mode, manifest, catalogue_doc, status, claim, bundle, green>>

Init ==
    /\ tree \in Trees /\ mode \in {"prove", "cover", "bmc"}
    /\ manifest = NoManifest /\ catalogue_doc = NoManifest
    /\ status = "absent" /\ claim = NoClaim /\ bundle = NoBundle /\ green = {}

-----------------------------------------------------------------------------
(* Mutant: the formal wrapper of a proof is not one of its inputs. *)
DependsOnRtl == [f \in {"task.sby", "hdl/src"} |-> tree[f]]

(* The depends_on records of build_manifest.                               *)
DependsOn == [f \in InputFiles |-> tree[f]]

build_manifest == [mode |-> mode, expected_status |-> "pass", depends_on |-> DependsOn]

(* The catalogue page names task, mode and properties, no digest.          *)
render_catalogue(m) == [mode |-> m.mode]

Edit ==
    /\ \E f \in InputFiles, c \in Contents :
          c # tree[f] /\ tree' = [tree EXCEPT ![f] = c]
    /\ green' = {}
    /\ UNCHANGED <<mode, manifest, catalogue_doc, status, claim, bundle>>

(* write_manifest: the manifest, then the page; it may die in between.     *)
WriteManifest ==
    /\ manifest' = build_manifest
    /\ \/ catalogue_doc' = render_catalogue(build_manifest)
       \/ UNCHANGED catalogue_doc
    /\ green' = {}
    /\ UNCHANGED <<tree, mode, status, claim, bundle>>

(* check_manifest *)
CheckManifest ==
    /\ manifest = build_manifest
    /\ catalogue_doc = render_catalogue(build_manifest)
    /\ green' = green \cup {"manifest"}
    /\ UNCHANGED <<tree, mode, manifest, catalogue_doc, status, claim, bundle>>

(* run_formal.py re-runs the task in a fresh work directory.               *)
RunFormal ==
    /\ status' = IF tree \in Provable THEN "pass" ELSE "fail"
    /\ green' = IF tree \in Provable THEN green \cup {"run"} ELSE green \ {"run"}
    /\ UNCHANGED <<tree, mode, manifest, catalogue_doc, claim, bundle>>

-----------------------------------------------------------------------------
dependencies_match == \A f \in DOMAIN manifest.depends_on : manifest.depends_on[f] = tree[f]

established ==
    status = "pass" /\ manifest.expected_status = "pass" /\ dependencies_match

(* build_formal_proof_sealed_claim                                         *)
SealedClaim ==
    [dependencies |-> manifest.depends_on, observed_status |-> status,
     admission |-> IF established THEN "admitted" ELSE "rejected"]

Emittable == manifest # NoManifest /\ manifest.mode \in {"prove", "cover"}

EmitClaim ==
    /\ Emittable /\ status # "absent"
    /\ claim' = SealedClaim /\ green' = green \ {"claim"}
    /\ UNCHANGED <<tree, mode, manifest, catalogue_doc, status, bundle>>

(* emit_studio_formal_claim.py --check                                     *)
CheckClaim ==
    /\ Emittable /\ status # "absent" /\ claim = SealedClaim
    /\ green' = green \cup {"claim"}
    /\ UNCHANGED <<tree, mode, manifest, catalogue_doc, status, claim, bundle>>

(* formal_proof_evidence: the certificate carries the digests of the .sby  *)
(* script and of the first RTL source.                                     *)
EmitBundle ==
    /\ Emittable
    /\ bundle' = [proof_digest |-> manifest.depends_on["task.sby"],
                  subject_digest |-> manifest.depends_on["hdl/src"],
                  pinned |-> manifest.depends_on]
    /\ UNCHANGED <<tree, mode, manifest, catalogue_doc, status, claim, green>>

Next == Edit \/ WriteManifest \/ CheckManifest \/ RunFormal
        \/ EmitClaim \/ CheckClaim \/ EmitBundle

Spec == Init /\ [][Next]_vars

-----------------------------------------------------------------------------
(* In a checkout that passed the manifest gate and the proof run, every    *)
(* input of the proof is pinned as it is and the proof holds for it.       *)
GatesKeepProofHonest ==
    {"manifest", "run"} \subseteq green =>
        tree \in Provable /\ manifest.depends_on = tree

(* If the claim passed its gate there too, an admitted claim speaks of     *)
(* exactly this checkout, whose proof holds.                               *)
GreenClaimHolds ==
    {"run", "claim"} \subseteq green /\ claim.admission = "admitted" =>
        claim.dependencies = tree /\ tree \in Provable

(* The Hub compares only the digest of the RTL: a bundle it voids is one   *)
(* of a manifest that has drifted.                                         *)
HubVoidsOnlyDrift ==
    bundle # NoBundle /\ bundle.subject_digest # tree["hdl/src"] => bundle.pinned # tree

(* The gates together: what they passed is what was proved.                *)
GatesAreHonest == GatesKeepProofHonest /\ GreenClaimHolds /\ HubVoidsOnlyDrift
=============================================================================
