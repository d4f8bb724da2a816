SPECIFICATION FairLifecycleSpec
CONSTANTS
    contact_delay_ticks = 1
    reconnection_delay_ticks = 2
    coalescence_delay_ticks = 2
    phase_lock_delay_ticks = 3
    Longest = 3
    MIN_BURN = 4
    MAX_ELAPSE = 2
    R_VALUES = {0, 2}
    VOLTAGE_MAX = 3
    POWER = 1
    RANGE = 5
    MAX_PEAK = 2
    MAX_STEPS = 2
INVARIANTS ShotIsLawful BankAccounts
PROPERTIES LeavesOnTime MergeCompletes ShotCompletes
