SPECIFICATION Spec
CONSTANTS
    n1 = n1
    n2 = n2
    n3 = n3
    Node <- MCNode
    None = None
    Noop = "noop"
    Command = {}
    Faults = {"disk"}
    MaxTerm = 4
    MaxLog = 3
    MaxVoteCalls = 2
    MaxAppendCalls = 1
SYMMETRY MCSymmetry
VIEW MCWinnersView
CONSTRAINT Rivals
INVARIANTS
    LogMatching
    LeaderCompleteness
    StateMachineSafety
CHECK_DEADLOCK FALSE
