CONSTANTS
    Keys = {k1, k2, k3}
    Capacity = 2
    Unit = 3
    RefillRates <- Rates
    MaxTrackedKeys = 2
    MaxTime = 5
    MaxGiven = 2
    NoBucket = NoBucket
    NoRetry = NoRetry
SYMMETRY KeySymmetry
SPECIFICATION RateSpec
CHECK_DEADLOCK FALSE
INVARIANTS
    SpendingBounded
    StoreBounded
    RetryAfterHonest
