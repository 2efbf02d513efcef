SPECIFICATION FairSpec
CONSTANTS
    Job = j1
    MaxPolls = 3
    LastStage = 2
    LateCompletion = TRUE
INVARIANTS
    TypeOK
    ProgressNotAhead
    RedirectHasReport
PROPERTIES
    NoPollAfterOutcome
    ProgressNeverBack
    PollingStops
\* The job ends and so does the polling.
CHECK_DEADLOCK FALSE
