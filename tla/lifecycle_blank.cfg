SPECIFICATION Spec
CONSTANTS
    Jobs = {j1}
    MaxProcs = 1
    MaxWorkers = 1
    LastNode = 2
    MaxAttempts = 1
    MaxFaults = 0
    NodeFailures <- AllFailures
    Overlap = FALSE
INVARIANTS
    FailuresAreReported
\* The bounds end every behaviour: no job left, no process left to start.
CHECK_DEADLOCK FALSE
