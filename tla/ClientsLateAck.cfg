SPECIFICATION ClientSpec
CONSTANTS
    n1 = n1
    n2 = n2
    n3 = n3
    n4 = n4
    n5 = n5
    Node <- MCNode
    None = None
    Noop = "noop"
    Command = {"w"}
    Faults = {}
    MaxTerm = 3
    MaxLog = 2
    MaxVoteCalls = 4
    MaxAppendCalls = 2
CONSTRAINT LateAckScript
INVARIANT
    AckedIsDurable
CHECK_DEADLOCK FALSE
