SPECIFICATION Spec
CONSTANTS
    NoState = NoState
    MaxTerm = 4
    MaxLog = 3
CONSTRAINT NoCallAfterFailure
INVARIANTS
    CrashLosesNothing
    OffsetsAreRight
    AppendAfterIsClosedForm
    SavedStateSurvives
    LogTermIsSaved
PROPERTY
    SharedStaysShared
