CONSTANTS
    Requests = {r1, r2, r3, r4, r5}
    MaxInFlight = 2
    MaxQueued = 2
SPECIFICATION LimiterSpec
INVARIANTS
    CountersExact
    WithinBounds
PROPERTY ImplementsSemaphore
