SPECIFICATION FairSpec
CONSTANTS
    j1 = j1
    j2 = j2
    j3 = j3
    w1 = w1
    w2 = w2
    w3 = w3
    None = None
    Expired = Expired
    Job = {j1, j2}
    Worker = {w1, w2}
    Reasoning = TRUE
    MaxAttempts = 2
    AttemptLimit = 6
    FailureLimit = 2
    MaxFaults = 2
    MaxStalls = 1
CHECK_DEADLOCK FALSE
INVARIANTS
    OneProcessor
    AttemptsCharged
PROPERTIES
    ImplementsBoard
    FinishedForGood
    EveryJobEnds
