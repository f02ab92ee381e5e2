\* A directory with two entries of one name.
SPECIFICATION Spec
CONSTANTS
    Addr = {n1, n2, n3}
    Root = Root
    Null = Null
    Names = {a, b}
    Slash = Slash
    NoFile = NoFile
SYMMETRY Symmetry
INVARIANTS
    NoDuplicateNames
