SPECIFICATION EvidenceSpec
CONSTANTS
    LOCK_HOLD_CYCLES = 3
    SPIKE_THRESHOLD = 1
    CONFIDENCE_THRESHOLD_Q8_8 = 1
    SpikeCounts = {0, 1}
    Confidences = {0, 1}
    RTL_CYCLES = 5
    Trajectories <- MCTrajectories
    NoTrajectory = none
    MAX_RUNS = 2
    Contents = {1, 2}
    Provable <- MCProvable
    NoManifest = no_manifest
    NoClaim = no_claim
    NoBundle = no_bundle
    None = None
    Results = {r, s}
    KeySets <- MCKeySets
    MAX_EDITS = 1
    MAX_CALLS = 2
    Nothing = nothing
    Torn = torn
    LedgerClaims <- MCLedgerClaims
    MAX_AGE_DAYS = 0
    MAX_CRASHES = 1
    MAX_COMMITS = 2
    MAX_DAYS = 1
INVARIANTS
    TriggerIsUnanimous
    ManifestIsTruthful
    GatesAreHonest
    ClaimsStayHonest
    MatrixIsHonest
    ReleaseIsConsistent
CHECK_DEADLOCK FALSE
