SPECIFICATION Spec
CONSTANTS
    Jobs = {j1, j2}
    MaxProcs = 3
    MaxWorkers = 1
    LastNode = 2
    MaxAttempts = 2
    MaxFaults = 1
    NodeFailures <- AllFailures
    Overlap = TRUE
SYMMETRY JobSymmetry
INVARIANTS
    CompleteHasReport
    RowIntegrity
    NoSilentStall
PROPERTIES
    CompleteIsFinal
    ImplementsContract
\* The bounds end every behaviour: no job left, no process left to start.
CHECK_DEADLOCK FALSE
