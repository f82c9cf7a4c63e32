SPECIFICATION AgentSpec
CONSTANTS
    d1 = d1
    netlink = netlink
    socket = socket
    worker = worker
    None = None
    Daemon = {d1}
    Publisher = {netlink, socket}
    Worker = {worker}
    DaemonOf <- OneDaemonOf
    Pid = {1, 2}
    BatchSize = 2
    MaxRecords = 3
    MaxSequence = 4
    MaxMessages = 5
    MaxCrashes = 2
    MaxFaults = 2
    p1 = p1
    p2 = p2
    w1 = w1
    w2 = w2
    Alert = {w1, w2}
    ProcessId = {f, g}
    Operator = {"operator"}
    MaxTransitions <- TransitionsOf
    a = a
    b = b
    Absent = Absent
    Partial = Partial
    Processes = {a, b}
    MaxCommands = 2
    MaxKills = 1
    CaseCommands = {a, b}
    MaxCases = 2
    MaxCaseCrashes = 1
    Sizes = {1, 2}
    Limit = 2
    f = f
    g = g
    m1 = m1
    m2 = m2
    Missing = Missing
    Corrupt = Corrupt
    IndexCommands = {a, b}
    Files = {f, g}
    Models = {m1, m2}
    FileSizes = {0, 1}
    MaxEdits = 1
    MaxChanges = 1
    MaxSeconds = 2
    MaxIndexCommands = 2
    p3 = p3
    p4 = p4
    sda = sda
    s1 = s1
    f1 = f1
    NoProcess = NoProcess
    Proc = {p1, p2, p3, p4}
    Device = {sda}
    Socket = {s1}
    File = {f1}
    DefaultDisk = sda
    Snapshots <- GraphSnapshots
    Disks <- GraphDisks
    Batch = {1, 2}
    Foreign = 9
    NotGiven = NotGiven
    MaxDelay = 1
    MaxEntries = 2
    Symbol = {"tick", "dollar", "star", "hash", "space", "newline", "wide"}
    Wide = {"wide"}
    Lookahead = 3
    MaxText = 4
    NotHere = NotHere
SYMMETRY Symmetry
CHECK_DEADLOCK FALSE
INVARIANTS
    TypeOK
    SequenceUnique
    NothingLost
    TempsAccounted
    PublishedDurable
    OriginalKept
    SecretReachable
    SavedKept
    RetentionExact
    OneModel
    NoStaleEntry
    NoCauseMissed
    ThreeBusiestUntraced
    ChunksDoNotShow
    ExactlyAccepted
PROPERTIES
    ImplementsLog
    PublishedOnce
    OperatorHolds
