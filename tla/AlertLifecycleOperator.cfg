SPECIFICATION AlertSpec
CONSTANTS
    a1 = a1
    a2 = a2
    p1 = p1
    p2 = p2
    Alert = {a1, a2}
    ProcessId = {p1, p2}
    Operator = {"operator"}
    MaxTransitions <- TransitionsOf
SYMMETRY Symmetry
CHECK_DEADLOCK FALSE
PROPERTIES
    DecisionStands
