------------------------------ MODULE MCEvidence ------------------------------
(* What the repository says of itself, and how it comes to say it: the     *)
(* demonstration run and its bundle of files, the formal manifest and its  *)
(* claims, the evidence bundles of a single result, the compatibility      *)
(* matrix, and the derived files up to a release.  One of the producers    *)
(* runs at a time: what they share is only read by the others, and its     *)
(* content is abstracted there to what is read.                            *)
(*                                                                         *)
(* Trajectories differ in the summary, or only in a sample the payload     *)
(* does not carry.  Inputs of a proof have two versions; it needs the      *)
(* first of the RTL under the first of the wrapper, or of the script.  A   *)
(* review finds a claim that may be public, or one that is still blocked.  *)
EXTENDS FullChain

CONSTANTS Contents, Provable, NoManifest, NoClaim, NoBundle,
          None, Results,
          KeySets, MAX_EDITS, MAX_CALLS, Nothing, Torn,
          LedgerClaims, MAX_AGE_DAYS, MAX_CRASHES, MAX_COMMITS, MAX_DAYS

VARIABLES
    producer,                 \* who is at work
    tree, mode, manifest, catalogue_doc, status, claim, bundle, green,
    request, legacy, canonical, admitted, envelope, damaged,
    keys, code_root, installed, sibling_edits, calls, call, generated_at_utc, row,
    siblings, markdown, json, passed_check, seen,
    source, repository, ledger, commit, dirty, required_gates, today, edits,
    crashes, released

Formal == INSTANCE FormalEvidence
Bundles == INSTANCE EvidenceBundles
Matrix == INSTANCE Ecosystem
Gate == INSTANCE ReleaseGate

ASSUME EvidenceParameters ==
    /\ ChainAssumption /\ Formal!EvidenceAssumption
    /\ Bundles!BundlesAssumption /\ Gate!GateAssumption

MCTrajectories == {[summary |-> "a", detail |-> 1], [summary |-> "a", detail |-> 2],
                   [summary |-> "b", detail |-> 1]}
MCProvable ==
    {t \in [{"task.sby", "hdl/formal", "hdl/src"} -> Contents] :
        t["hdl/src"] = 1 /\ 1 \in {t["hdl/formal"], t["task.sby"]}}
MCKeySets ==
    {{"sc-neurocore-engine", "scpn-quantum-control"}, {"scpn-phase-orchestrator"},
     {"scpn-control"}, {"scpn-fusion-core"}}
MCLedgerClaims == [public : {TRUE}, blocked : BOOLEAN, passed : {TRUE}]

formalVars == <<tree, mode, manifest, catalogue_doc, status, claim, bundle, green>>
bundleVars == <<request, legacy, canonical, admitted, envelope, damaged>>
ecosystemVars == <<keys, code_root, installed, sibling_edits, calls, call,
                   generated_at_utc, row, siblings, markdown, json, passed_check, seen>>
releaseVars == <<source, repository, ledger, commit, dirty, required_gates,
                 today, edits, crashes, released>>
evidenceVars == <<producer, chainVars, formalVars, bundleVars, ecosystemVars, releaseVars>>

(* Only the producer at work starts from every one of its initial states.  *)
EvidenceInit ==
    /\ producer \in {"demo", "formal", "mappers", "matrix", "release"}
    /\ Matrix!EcosystemInit
    /\ producer # "matrix" =>
          keys = {"scpn-fusion-core"} /\ \A key \in keys : installed[key] = Nothing
    /\ Formal!Init
    /\ producer # "formal" => mode = "bmc" /\ \A f \in DOMAIN tree : tree[f] = 1
    /\ ChainInit
    /\ producer # "demo" => in = [arm |-> FALSE, spike_count |-> 0, confidence_q8_8 |-> 0,
                                  bank_ready |-> FALSE, safety_veto |-> TRUE]
    /\ Bundles!Init /\ Gate!ReleaseInit

EvidenceNext ==
    \/ /\ producer = "demo" /\ ChainNext
       /\ UNCHANGED <<producer, formalVars, bundleVars, ecosystemVars, releaseVars>>
    \/ /\ producer = "formal" /\ Formal!Next
       /\ UNCHANGED <<producer, chainVars, bundleVars, ecosystemVars, releaseVars>>
    \/ /\ producer = "mappers" /\ Bundles!Next
       /\ UNCHANGED <<producer, chainVars, formalVars, ecosystemVars, releaseVars>>
    \/ /\ producer = "matrix" /\ Matrix!EcosystemNext
       /\ UNCHANGED <<producer, chainVars, formalVars, bundleVars, releaseVars>>
    \/ /\ producer = "release" /\ Gate!ReleaseNext
       /\ UNCHANGED <<producer, chainVars, formalVars, bundleVars, ecosystemVars>>

EvidenceSpec == EvidenceInit /\ [][EvidenceNext]_evidenceVars

(* What the formal gates passed is what was proved.                        *)
GatesAreHonest == Formal!GatesAreHonest
(* No lane of the mappers claims more than its result supports.            *)
ClaimsStayHonest == Bundles!ClaimsStayHonest
(* Rows and pages of the matrix say only what was inspected.               *)
MatrixIsHonest == Matrix!MatrixIsHonest
(* A release carries the files its sources give, freshly reviewed.         *)
ReleaseIsConsistent == Gate!ReleaseIsConsistent
=============================================================================
