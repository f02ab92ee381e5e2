\* Trees of up to three entries with two names, and every file they are saved to.
SPECIFICATION Spec
CONSTANTS
    Addr = {n1, n2, n3}
    Root = Root
    Null = Null
    Names = {a, b}
    Slash = Slash
    NoFile = NoFile
SYMMETRY Symmetry
INVARIANTS
    TypeOK
    TreeIntact
    RoundTrip
    PwdOfFirstEntries
PROPERTIES
    LostByRmOnly
    ReloadAdds
    FsSpec
