SPECIFICATION Spec
CONSTANTS
    Job = j1
    MaxPolls = 2
    LastStage = 1
    LateCompletion = FALSE
INVARIANTS
    OutcomeIsShown
\* The job ends and so does the polling.
CHECK_DEADLOCK FALSE
