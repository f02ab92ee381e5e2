\* The jobs of sample_io/input/input-2.
SPECIFICATION Spec
CONSTANTS
    N = 2
    Word = 64
    ArrivalTimes = {0}
    BurstBounds = {1}
    CpuTimes = {5}
INVARIANT Alternates
CHECK_DEADLOCK FALSE
