SPECIFICATION GapSpec
CONSTANTS
    n1 = n1
    n2 = n2
    n3 = n3
    Node <- MCNode
    None = None
    Noop = "noop"
    Command = {"c1"}
    Faults = {}
    MaxTerm = 4
    MaxLog = 2
    MaxVoteCalls = 2
    MaxAppendCalls = 1
CONSTRAINT ProposeGapScript
INVARIANT
    LeaderCompleteness
CHECK_DEADLOCK FALSE
