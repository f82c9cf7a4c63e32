SPECIFICATION FairSpec
CONSTANTS
    netlink = netlink
    socket = socket
    Publisher = {netlink, socket}
    BatchSize = 2
    MaxRetries = 1
    WakeCapacity = 1
    MaxRecords = 2
    QueuedModulus = 4
    MaxSequence = 2
    MaxCrashes = 1
    MaxStray = 1
    MaxExpired = 1
CHECK_DEADLOCK FALSE
INVARIANTS
    NothingLost
PROPERTIES
    ImplementsQueue
    EventualDelivery
