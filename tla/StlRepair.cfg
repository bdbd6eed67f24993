SPECIFICATION Spec
CONSTANTS
    Stems = 2
    MaxFiles = 2
    MaxRuns = 2
CHECK_DEADLOCK FALSE
INVARIANTS
    Undoable
    Harmless
    FailureExplained
