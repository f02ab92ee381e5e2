\* One processor, two processes that register, one perhaps twice, and one PID that is
\* used again; two tasks that write and read.  Nobody unloads the module: both
\* properties promise nothing from then on.
SPECIFICATION FairSpec
CONSTANTS
    Tasks = {t1, t2}
    Pids = {p1, p2}
    Entries = {e1, e2}
    None = None
    Head = Head
    Poison = Poison
    Smp = FALSE
    MayUnload = FALSE
    ReadSizes = {1, 3}
    Cap = 1
    LineLen = 2
    MaxTime = 0
    MaxForks = 1
PROPERTIES
    DeadPurged
    CatEnds
