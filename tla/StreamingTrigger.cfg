SPECIFICATION TriggerSpec
CONSTANTS
    consecutive_samples = 2
    TOLERANCE = 2
    CONTRACTION = 1
    DISTURBANCE = 1
    UNIT = 2
    NUMERICAL_TOLERANCE = 1
    Separations <- MCSeparations
    Times <- MCTimes
    NoTime = NoTime
    MaxSamples = 4
    Codes <- MCCodes
    ADC_MAX = 3
    NoiseSteps <- MCNoiseSteps
    MIN_JITTER = 2
    MAX_JITTER = 2
    Spacings = {1, 5}
    RATE_THRESHOLD = 2
    WINDOW = 3
    FRAMES = 6
    SPIKE_COUNT_MAX = 2
    SURE = 4
    Phi <- MCPhi
    Draws <- MCDraws
    Noises <- MCNoises
    MAX_APPROACH = 3
INVARIANTS DecisionIsExact SafeMeansWithinTolerance FaultsAreBounded
           PlanIsCausal ForecastIsSound
CHECK_DEADLOCK FALSE
