SPECIFICATION Spec
CONSTANTS
    DEPTH = 4
    POINTER_WIDTH = 3
    TELEMETRY_MAX = 7
    Events = {e1, e2}
    NoEvent = none
INVARIANTS OccupancySafe AccountingConserves
PROPERTY ImplementsQueue
