---------------------------- MODULE EvidenceBundles ----------------------------
(***************************************************************************)
(* MIF's results as evidence: one result is mapped by the dependency-free  *)
(* lane (evidence.py) and by the canonical one (studio/evidence.py), the   *)
(* legacy bundle travels and is checked by validate_studio_bundle, the     *)
(* canonical one is sealed (studio/evidence_seal.py), unless the           *)
(* platform's signer came first.                                           *)
(*                                                                         *)
(* Of a bundle the fields a check reads are kept.  "absent" is None or no  *)
(* such key, "malformed" a value of the wrong shape or outside its         *)
(* enumeration, "well-formed" stands for the free texts.  A digest is the  *)
(* content it was taken of.                                                *)
(***************************************************************************)
EXTENDS Naturals

CONSTANTS None,               \* nothing emitted yet
          Results             \* contents a result payload can have

VARIABLES
    request,                  \* what the mappers were last called with
    legacy, canonical,        \* the bundles they returned
    admitted,                 \* legacy passed validate_studio_bundle
    envelope,
    damaged                   \* history: legacy was changed on its way

vars == <<request, legacy, canonical, admitted, envelope, damaged>>

CLAIM_STATUSES == {"reference-validated", "bounded-model", "bounded-support", "validation-gap",
                   "external-dependency-blocked", "roadmap", "toolchain-gated"}
EXACTNESS_MODES == {"bit-exact", "tolerance-aware"}
EVIDENCE_KINDS == {"measured", "curated", "formally-proven"}
EVIDENCE_LEVELS == {"0", "1", "2", "3"}
PROOF_MODES == {"prove", "cover"}
Freshness == {"verified-at-source", "traceable-unchecked"}

(* Arguments of the four mappers; `inputs' is what depends_on lists.       *)
Calls ==
    [verb : {"evaluate"}, fired : BOOLEAN]
    \cup [verb : {"prove"}, mode : PROOF_MODES \cup {"bmc"},
          inputs : SUBSET {"script", "rtl"}]
    \cup [verb : {"cosimulate"}, bit_true : BOOLEAN]
    \cup [verb : {"benchmark"}, status : CLAIM_STATUSES \cup {"malformed"},
          exactness : EXACTNESS_MODES \cup {"malformed"}]

Init ==
    /\ request = None /\ legacy = None /\ canonical = None
    /\ admitted = FALSE /\ envelope = None /\ damaged = FALSE

-----------------------------------------------------------------------------
(* A task that is no proof, or whose script is not pinned, raises.         *)
Raises(c) == c.verb = "prove" /\ (c.mode \notin PROOF_MODES \/ "script" \notin c.inputs)

(* The claim boundaries of the legacy mappers.                             *)
legacy_status(c) ==
    CASE c.verb = "evaluate"   -> "bounded-model"
      [] c.verb = "prove"      -> "reference-validated"
      [] c.verb = "cosimulate" -> IF c.bit_true THEN "reference-validated" ELSE "validation-gap"
      [] c.verb = "benchmark"  -> c.status

legacy_admission(c) ==
    IF (c.verb = "evaluate" /\ ~c.fired) \/ (c.verb = "cosimulate" /\ ~c.bit_true)
    THEN "rejected" ELSE "admitted"

legacy_exactness(c) ==
    CASE c.verb = "evaluate"   -> "tolerance-aware"
      [] c.verb = "prove"      -> "absent"
      [] c.verb = "cosimulate" -> "bit-exact"
      [] c.verb = "benchmark"  -> c.exactness

(* build_evidence_bundle *)
LegacyBundle(c, result) ==
    [schema |-> c.verb, ro_crate_profile |-> "well-formed", result |-> result,
     digest |-> result, activity |-> "well-formed", agent |-> "well-formed",
     scpn_evidence_level |-> "2",
     evidence_kind |-> IF c.verb = "prove" THEN "formally-proven" ELSE "measured",
     status |-> legacy_status(c), admission |-> legacy_admission(c),
     numeric_provenance |-> IF c.verb = "prove" THEN "absent" ELSE "well-formed",
     exactness |-> legacy_exactness(c), attestation |-> "well-formed",
     formal_certificate |-> IF c.verb = "prove" THEN "well-formed" ELSE "absent",
     substrate |-> IF c.verb = "cosimulate" THEN "simulator" ELSE "absent"]

(* Mutant: a bit-true run is validated however long ago it was checked. *)
StatusOfVerdict(c, freshness) == legacy_status(c)

(* _freshness_compatible_status, and what cosim_evidence writes out: a     *)
(* validated claim whose source was not re-run is lowered.                 *)
canonical_status(c, freshness) ==
    IF legacy_status(c) = "reference-validated" /\ freshness # "verified-at-source"
    THEN "bounded-model" ELSE legacy_status(c)

canonical_admission(c) ==
    CASE c.verb = "evaluate"   -> IF c.fired THEN "admitted" ELSE "rejected"
      [] c.verb = "cosimulate" -> IF c.bit_true THEN "admitted" ELSE "rejected"
      [] OTHER                 -> "admitted"

(* The SDK's types admit no status outside the enumeration.                *)
CanonicalBundle(c, result, freshness) ==
    IF legacy_status(c) = "malformed" THEN None
    ELSE [schema |-> c.verb, digest |-> result, freshness |-> freshness,
          status |-> canonical_status(c, freshness), admission |-> canonical_admission(c),
          attestation |-> "absent"]

(* Bound: one result in a behaviour.                                       *)
Emit ==
    /\ request = None
    /\ \E c \in Calls, result \in Results, freshness \in Freshness :
          /\ ~Raises(c)
          /\ request' = c
          /\ legacy' = LegacyBundle(c, result)
          /\ canonical' = CanonicalBundle(c, result, freshness)
          /\ admitted' = FALSE /\ envelope' = None /\ damaged' = FALSE

(* The fields of the legacy bundle that are checked, and what they can     *)
(* hold on arrival.  The substrate is one of its enumeration or none.      *)
Checked == {"schema", "ro_crate_profile", "activity", "agent", "scpn_evidence_level",
            "evidence_kind", "status", "admission", "numeric_provenance", "exactness",
            "attestation", "formal_certificate", "substrate", "digest"}

FieldValues(f) ==
    {"malformed"} \cup
    CASE f = "schema"              -> {"evaluate", "prove", "cosimulate", "benchmark"}
      [] f = "scpn_evidence_level" -> EVIDENCE_LEVELS
      [] f = "evidence_kind"       -> EVIDENCE_KINDS
      [] f = "status"              -> CLAIM_STATUSES
      [] f = "admission"           -> {"admitted", "rejected", "absent"}
      [] f = "exactness"           -> EXACTNESS_MODES \cup {"absent"}
      [] f \in {"numeric_provenance", "formal_certificate"} -> {"well-formed", "absent"}
      [] f = "substrate"           -> {"simulator", "fpga", "absent"}
      [] f = "digest"              -> Results
      [] OTHER                     -> {"well-formed"}

Values == UNION {FieldValues(f) : f \in Checked}

(* None is not a bundle, and every result has a digest.                    *)
BundlesAssumption ==
    /\ "malformed" \notin Results
    /\ None \notin [Checked \cup {"result"} -> Values]

(* A field of the legacy bundle changes on its way to the consumer: it is  *)
(* lost, or becomes another that its field can hold, or the result does.   *)
Damage ==
    /\ legacy # None /\ ~damaged /\ ~admitted
    /\ \/ \E f \in Checked : \E v \in FieldValues(f) \ {legacy[f]} :
              legacy' = [legacy EXCEPT ![f] = v]
       \/ \E r \in Results \ {legacy.result} : legacy' = [legacy EXCEPT !.result = r]
    /\ damaged' = TRUE
    /\ UNCHANGED <<request, canonical, admitted, envelope>>

(* validate_studio_bundle finds no issue.                                  *)
Conforms(b) ==
    /\ \A f \in {"schema", "ro_crate_profile", "digest", "activity", "agent",
                 "scpn_evidence_level", "evidence_kind", "admission", "attestation",
                 "substrate"} : b[f] # "malformed"
    /\ b.status \in CLAIM_STATUSES
    /\ b.numeric_provenance = "well-formed" => b.exactness \in EXACTNESS_MODES
    /\ b.evidence_kind = "formally-proven" => b.formal_certificate = "well-formed"

Validate ==
    /\ legacy # None /\ Conforms(legacy) /\ ~admitted
    /\ admitted' = TRUE
    /\ UNCHANGED <<request, legacy, canonical, envelope, damaged>>

(* The platform's signer attests the canonical bundle.                     *)
Sign ==
    /\ canonical # None /\ canonical.attestation = "absent"
    /\ canonical' = [canonical EXCEPT !.attestation = "well-formed"]
    /\ UNCHANGED <<request, legacy, admitted, envelope, damaged>>

(* seal_mif_evidence: in recompute mode, and never over an attestation.    *)
EXACTNESS_BY_SCHEMA ==
    [s \in {"evaluate", "prove", "cosimulate"} |-> "bit-exact"]

seal_mif_evidence ==
    /\ canonical # None /\ envelope = None /\ canonical.attestation = "absent"
    /\ envelope' = [unit |-> canonical, mode |-> "recompute",
                    exactness |-> IF canonical.schema \in DOMAIN EXACTNESS_BY_SCHEMA
                                  THEN EXACTNESS_BY_SCHEMA[canonical.schema]
                                  ELSE "procedure-reproducibility"]
    /\ UNCHANGED <<request, legacy, canonical, admitted, damaged>>

Next == Emit \/ Damage \/ Validate \/ Sign \/ seal_mif_evidence

Spec == Init /\ [][Next]_vars

-----------------------------------------------------------------------------
(* How much of a result a status claims: that it was validated against a   *)
(* reference, that it is supported within a bound, or neither.             *)
Strength ==
    [s \in CLAIM_STATUSES |->
        IF s = "reference-validated" THEN 2
        ELSE IF s \in {"bounded-model", "bounded-support"} THEN 1 ELSE 0]

(* Whatever a caller passes: the two lanes agree on whether a result is    *)
(* admitted; the canonical one claims no more than the legacy one, less    *)
(* only where a validation was not re-run at its source, and validation    *)
(* only for what was re-run and passed; an envelope holds an unattested    *)
(* bundle and calls nothing bit-exact that measures time; a legacy bundle  *)
(* fails its own check only if the caller gave a status or an exactness    *)
(* that does not exist; and no single change under way lets a measurement  *)
(* through that check as a proof.                                          *)
ClaimsStayHonest ==
    /\ canonical # None =>
          /\ legacy # None /\ canonical.admission = legacy_admission(request)
          /\ Strength[canonical.status] <= Strength[legacy_status(request)]
          /\ canonical.status # legacy_status(request) =>
                /\ legacy_status(request) = "reference-validated"
                /\ canonical.freshness # "verified-at-source"
          /\ canonical.status = "reference-validated" =>
                /\ canonical.freshness = "verified-at-source"
                /\ canonical.admission = "admitted" /\ canonical.schema # "evaluate"
    /\ envelope # None =>
          /\ envelope.unit.attestation = "absent" /\ envelope.mode = "recompute"
          /\ envelope.exactness = "bit-exact" => envelope.unit.schema # "benchmark"
    /\ legacy # None /\ ~damaged =>
          (Conforms(legacy) <=>
              (request.verb = "benchmark" =>
                  request.status # "malformed" /\ request.exactness # "malformed"))
    /\ admitted /\ legacy.evidence_kind = "formally-proven" => request.verb = "prove"
=============================================================================
