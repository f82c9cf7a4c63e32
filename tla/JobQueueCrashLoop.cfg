SPECIFICATION FairSpec
CONSTANTS
    j1 = j1
    j2 = j2
    j3 = j3
    w1 = w1
    w2 = w2
    w3 = w3
    None = None
    Expired = Expired
    Job = {j1}
    Worker = {w1, w2}
    Reasoning = FALSE
    MaxAttempts = 2
    AttemptLimit = 3
    FailureLimit = 2
    MaxFaults = 3
    MaxStalls = 0
CHECK_DEADLOCK FALSE
PROPERTIES
    EveryJobEnds
