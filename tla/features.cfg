SPECIFICATION Spec
CONSTANTS
    NumFeatures = 3
    MaxRuns = 4
    MaxCuts = 2
INVARIANTS TypeOK CompletedRunsUnlock DoneIsEnabled
PROPERTIES StoredIsKept ImplementsStore
CHECK_DEADLOCK FALSE
