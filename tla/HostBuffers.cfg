SPECIFICATION HostSpec
SYMMETRY Interchangeable
CONSTANTS
    Capacity = 2
    SequenceStarts = {0, 3}
    U64_MAX = 4
    Times <- MCTimes
    Sources = {a, b}
    NoTime = NoTime
    Exhausted = Exhausted
    PulseWidth = 2
    Shots = {s1, s2}
    NoSource = NoSource
    NoStream = NoStream
    CAPACITY = 2
    SPIKE_MAX = 3
    Addresses = {0, 1}
    MAX_ACCEPTED = 4
    MAX_REJECTED = 1
    RING_CAPACITY = 2
    LAST = 3
    Payloads = {p, q}
    NoTable = NoTable
    Torn = Torn
    Unread = Unread
    NoEngine = NoEngine
    MAX_CALLS = 3
INVARIANTS BufferSound ExecutedOnceInOrder ExecutedIsCausal RingHidesNoLoss ReplayIsFaithful
           DispatchKeepsState
