\* One processor: the timer's softirq interrupts kmlab_exit.
SPECIFICATION Spec
CONSTANTS
    Tasks = {t1, t2}
    Pids = {p1, p2}
    Entries = {e1, e2}
    None = None
    Head = Head
    Poison = Poison
    Smp = FALSE
    MayUnload = TRUE
    ReadSizes = {1, 3}
    Cap = 1
    LineLen = 2
    MaxTime = 1
    MaxForks = 1
SYMMETRY Symmetry
INVARIANT CleanupCursorsLive
CHECK_DEADLOCK FALSE
