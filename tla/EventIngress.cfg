SPECIFICATION MCIngressSpec
CONSTANTS
    DEPTH = 4
    POINTER_WIDTH = 3
    Events <- MCEvents
    NoEvent = none
    TELEMETRY_MAX = 11
    Samples <- MCSamples
    MAG_MODULUS = 2
    RATE_THRESHOLD = 1
    PRODUCER_DEPTH = 2
    TICK_MODULUS = 1
    SEQUENCE_MAX = 7
INVARIANT LossIsAccounted
PROPERTY ImplementsIngressQueue
