SPECIFICATION Spec
CONSTANTS
    n1 = n1
    n2 = n2
    n3 = n3
    Node <- MCNode
    None = None
    Noop = "noop"
    Command = {}
    Faults = {"crash", "delay"}
    MaxTerm = 2
    MaxLog = 2
    MaxVoteCalls = 2
    MaxAppendCalls = 1
SYMMETRY MCSymmetry
VIEW MCView
CONSTRAINT EveryTermIsWon
INVARIANTS
    RaftTypeOK
PROPERTIES
    CommitNeverDecreases
    ReplicatedLogSpec
    ElectionSpec
CHECK_DEADLOCK FALSE
