SPECIFICATION Spec
CONSTANTS
    p1 = p1
    p2 = p2
    g1 = g1
    g2 = g2
    NoSignal = NoSignal
    Process = {p1, p2}
    Facts <- MCFacts
    MaxProcesses = 1
    MaxEvents = 2
    CriticalCapacity = 2
    AuxiliaryCapacity = 2
    Distance = 1
    MaxTime = 2
    MaxRecords = 4
INVARIANTS
    Accounted
    TimelineInv
    EvidenceSound
    NothingOverlooked
    LossSeen
