\* One processor: two tasks, a list of up to two entries, two processes.
SPECIFICATION Spec
CONSTANTS
    Tasks = {t1, t2}
    Pids = {p1, p2}
    Entries = {e1, e2}
    None = None
    Head = Head
    Poison = Poison
    Smp = FALSE
    MayUnload = TRUE
    ReadSizes = {1, 3}
    Cap = 1
    LineLen = 2
    MaxTime = 1
    MaxForks = 1
SYMMETRY Symmetry
INVARIANTS
    TypeOK
    ListIntact
    CursorsLive
    EntriesOwned
    ReadOvershoot
    QuietWhenGone
PROPERTIES
    PassIsExact
    RegistrationsKept
\* The module may be unloaded, and a crash ends everything.
CHECK_DEADLOCK FALSE
