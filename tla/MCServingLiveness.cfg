CONSTANTS
    Requests = {r1, r2}
    MaxInFlight = 1
    MaxQueued = 1
    NumTokens = 2
    MaxAttempts = 3
    RecoversAt = 3
    FailIndex = 1
SPECIFICATION LoopSpec
CHECK_DEADLOCK FALSE
PROPERTIES
    RequestsEnd
    DisconnectFreesSlot
