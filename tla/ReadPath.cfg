SPECIFICATION Spec
CONSTANTS
    Worker = {w1, w2}
    Reader = {r1, r2}
    MaxIndex = 2
VIEW MCView
INVARIANTS
    AppliedInOrder
    BatchIsFresh
    OneRoundAtATime
PROPERTIES
    JoinedReaderLeaves
    AppliedReaderReturns
    CommittedIsApplied
