\* Two processors: the timer's softirq runs while a task reads the file.
SPECIFICATION Spec
CONSTANTS
    Tasks = {t1, t2}
    Pids = {p1, p2}
    Entries = {e1, e2}
    None = None
    Head = Head
    Poison = Poison
    Smp = TRUE
    MayUnload = TRUE
    ReadSizes = {1, 3}
    Cap = 1
    LineLen = 2
    MaxTime = 1
    MaxForks = 1
SYMMETRY Symmetry
INVARIANT ReaderCursorLive
CHECK_DEADLOCK FALSE
