SPECIFICATION IndexSpec
CONSTANTS
    a = a
    b = b
    f = f
    g = g
    m1 = m1
    m2 = m2
    IndexCommands = {a}
    Files = {f, g}
    Models = {m1, m2}
    FileSizes = {0, 1}
    Missing = Missing
    Corrupt = Corrupt
    MaxEdits = 1
    MaxChanges = 1
    MaxSeconds = 2
    MaxIndexCommands = 2
SYMMETRY Symmetry
CHECK_DEADLOCK FALSE
INVARIANTS
    NeverCompared
