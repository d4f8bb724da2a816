SPECIFICATION LaneSpec
CONSTANTS
    LOCK_HOLD_CYCLES = 3
    SPIKE_THRESHOLD = 8
    CONFIDENCE_THRESHOLD_Q8_8 = 128
    SpikeCounts <- MCSpikeCounts
    Confidences <- MCConfidences
    Samples <- MCSamples
    MAG_MODULUS = 8
    RATE_THRESHOLD = 4
    SPIKE_COUNTER_MAX = 2
    MAX_CYCLES = 2
    WordBits = {b0, b1}
    DEPTH = 4
    POINTER_WIDTH = 3
    Events = {e1}
    NoEvent = none
    TELEMETRY_MAX = 0
PROPERTY TriggerIsRegistered
