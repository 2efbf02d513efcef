SPECIFICATION FairSpec
CONSTANTS
    Requests = {r1, r2}
    Calls = {r1, r2}
    NoExecutor = NoExecutor
    MaxWorkers = 1
    MaxRetries = 1
    RetryAfters = {30, 429}
    Documents <- MCDocuments
    Editions <- MCEditions
    Sections <- MCSections
    MaxLoads = 2
INVARIANTS
    TypeOK
    RetryDiscipline
    ErrorTellsCause
    PoolsBound
    CleanLoadComplete
PROPERTIES
    EveryJobEnds
\* The jobs and the loads are over in the end.
CHECK_DEADLOCK FALSE
