SPECIFICATION FairSpec
CONSTANTS
    MaxVer = 2
    MaxTurns = 2
    MaxSeq = 2
    MaxNow = 1
    MaxIdleSaves = 1
    MaxFailures = 1
    MaxCrashes = 1
    NoFile = NoFile
    NoSnap = NoSnap
CHECK_DEADLOCK FALSE
INVARIANTS
    AckedSurvives
    BarrierIsNewest
    NoStaleSidecar
PROPERTIES
    RestartNeverGoesBack
    TurnIsSettled
