SPECIFICATION StoreSpec
CONSTANTS
    Requests = {r1, r2}
    Fixtures = {"RET-001", "RET-003"}
    Unlisted = "unlisted"
    Sources = {"KOGAN-GUARANTEE", "FAULT-MINOR"}
    Cites <- MCCites
    NeedReview = {"RET-001"}
    Callers = {"ann", "bob", "gus"}
    Operators = {"ann", "bob"}
    Stranger = "stranger"
    Keys = {"early", "late", "other", "guest", "alien"}
    Asks <- MCAsks
    Within <- MCWithin
    AgentRuns = 3
    MaxRuns = 4
    Nothing = Nothing
SYMMETRY RequestsAlike
INVARIANTS RunIsWhole FailureIsCollision DecisionWhole ReadWhole
PROPERTY DecisionKept
