SPECIFICATION FairSpec
CONSTANTS
    Jobs = {j1}
    MaxProcs = 2
    MaxWorkers = 1
    LastNode = 2
    MaxAttempts = 1
    MaxFaults = 0
    NodeFailures <- SaidFailures
    Overlap = FALSE
PROPERTIES
    PollingEnds
\* The bounds end every behaviour: no job left, no process left to start.
CHECK_DEADLOCK FALSE
