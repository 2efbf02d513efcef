SPECIFICATION Spec
CONSTANTS
    Jobs = {j1, j2}
    MaxProcs = 2
    MaxWorkers = 2
    LastNode = 8
    MaxAttempts = 3
    MaxFaults = 3
    NodeFailures <- AllFailures
    Overlap = FALSE
SYMMETRY JobSymmetry
INVARIANTS
    TypeOK
    CompleteHasReport
    RowIntegrity
    NoSilentStall
    StageNotAhead
PROPERTIES
    RecoverySparesLiveJobs
    ImplementsContract
\* The bounds end every behaviour: no job left, no process left to start.
CHECK_DEADLOCK FALSE
