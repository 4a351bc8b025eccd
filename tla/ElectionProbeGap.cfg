SPECIFICATION Spec
CONSTANTS
    n1 = n1
    n2 = n2
    n3 = n3
    Node <- MCNode
    None = None
    MaxTerm = 2
    MaxVoteCalls = 3
    LastEntry <- MCOneLastEntry
    Faults = {"crash", "delay"}
    Windows = {"probe"}
SYMMETRY MCSymmetry
INVARIANT
    ElectionSafety
