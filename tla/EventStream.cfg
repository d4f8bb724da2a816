SPECIFICATION CosimSpec
CONSTANTS
    Samples <- MCSamples
    MAG_MODULUS = 8
    RATE_THRESHOLD = 4
    FIFO_DEPTH = 2
    TICK_MODULUS = 3
    SEQUENCE_MAX = 3
    TELEMETRY_MAX = 3
    NoEvent = none
    MAX_TICKS = 7
INVARIANTS SpikesConserved NumbersTellTheLoss StreamBitTrue
PROPERTY ImplementsQueue
