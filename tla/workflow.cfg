SPECIFICATION FairSpec
CONSTANTS
    Runs = {r1, r2}
    MaxWorkers = 1
INVARIANTS
    TypeOK
    CloneConfined
    CloneDirRemoved
    ParseReadsWholeClone
    InputsPresent
    StageTellsNode
    OutcomeIsRecorded
PROPERTIES
    EveryRunEnds
\* Every run is over in the end.
CHECK_DEADLOCK FALSE
