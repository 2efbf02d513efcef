SPECIFICATION WorkerSpec
CONSTANTS
    Runs = {r1}
    MaxWorkers = 1
PROPERTIES
    CloneTimeoutIsHard
\* Every run is over in the end.
CHECK_DEADLOCK FALSE
