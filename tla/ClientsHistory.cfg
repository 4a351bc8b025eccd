SPECIFICATION ClientSpec
CONSTANTS
    n1 = n1
    n2 = n2
    n3 = n3
    Node <- MCNode
    None = None
    Noop = "noop"
    Command = {"w"}
    Faults = {}
    MaxTerm = 2
    MaxLog = 2
    MaxVoteCalls = 2
    MaxAppendCalls = 1
SYMMETRY MCSymmetry
VIEW MCClientView
CONSTRAINT ClientBound
INVARIANTS
    ClientTypeOK
    CommittedIsStored
    AckedIsOnMajority
    SettledReadIsFresh
CHECK_DEADLOCK FALSE
