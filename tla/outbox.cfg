SPECIFICATION FairSpec
CONSTANTS
    p1 = p1
    p2 = p2
    j1 = j1
    Procs = {p1, p2}
    Jobs = {j1}
    Knows <- Configured
    Detached <- AsDetached
    MaxRetries = 2
    MaxCrashes = 2
    MaxFailures = 1
    NoFile = NoFile
CHECK_DEADLOCK FALSE
INVARIANTS
    NoJobLost
    OutcomeIsTrue
PROPERTIES
    EveryJobSettles
