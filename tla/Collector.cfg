SPECIFICATION CollectorSpec
CONSTANTS
    r1 = r1
    r2 = r2
    r3 = r3
    None = None
    Request = {r1, r2, r3}
    MaxSequence = 3
    MaxRenewed = 2
    MaxBatch = 2
    MaxResets = 1
    Firing = {2}
    Resolved = {3}
    Health = {1}
    q1 = q1
    q2 = q2
    q3 = q3
    q4 = q4
    n1 = n1
    n2 = n2
    n3 = n3
    Call = {q1, q2, q3, q4}
    Identity = {n1, n2, n3}
    Capacity = 3
    PerIdentity = 2
    MaxIdentities = 2
SYMMETRY Symmetry
CHECK_DEADLOCK FALSE
INVARIANTS
    SafeRemoval
    AlertNewest
    NoLockCycle
    PerIdentityBound
PROPERTIES
    ImplementsLedger
