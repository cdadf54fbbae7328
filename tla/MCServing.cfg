CONSTANTS
    Requests = {r1, r2, r3}
    MaxInFlight = 1
    MaxQueued = 1
    NumTokens = 2
    MaxAttempts = 3
    RecoversAt = 3
    FailIndex = 1
SYMMETRY RequestSymmetry
SPECIFICATION ServingSpec
CHECK_DEADLOCK FALSE
INVARIANTS
    SlotsMatchStreams
    OneTerminalEvent
    EndsForCause
