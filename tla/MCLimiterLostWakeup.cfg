CONSTANTS
    Requests = {r1, r2, r3}
    MaxInFlight = 1
    MaxQueued = 2
SPECIFICATION LimiterSpec
INVARIANT FreeSlotWakesSomeone
