SPECIFICATION Spec
CONSTANTS
    p1 = p1
    sh = sh
    vi = vi
    c1 = c1
    c2 = c2
    Unnamed = Unnamed
    Gone = Gone
    Pids = {p1}
    Names = {sh, vi}
    Clients = {c1, c2}
    QueueLimit = 1
    MaxClients = 2
    KernelBuffer = 1
    MaxEvents = 2
    MaxCalls = 2
CHECK_DEADLOCK FALSE
INVARIANTS
    EventsAccounted
    SlotsAccounted
    TreeTruthful
PROPERTIES
    TroubleShown
