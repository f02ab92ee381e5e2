\* Every input of three jobs over arrival times, burst bounds and CPU times that
\* include 0, 1 and values that make the 3-bit counters wrap.
SPECIFICATION FairSpec
CONSTANTS
    N = 3
    Word = 8
    ArrivalTimes = {0, 2}
    BurstBounds = {1, 2}
    CpuTimes = {0, 1, 5}
INVARIANTS
    TypeOK
    PlacesAgree
    FcfsOrder
    IdleOnlyBeforeArrivals
    TimeAccounting
    ReportsRepeat
PROPERTIES
    
    RunToCompletion
    Terminates
\* The program stops after the third report.
CHECK_DEADLOCK FALSE
