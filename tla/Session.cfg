SPECIFICATION Spec
CONSTANTS
    p1 = p1
    p2 = p2
    Paths = {p1, p2}
    BadPath = BadPath
    NoPath = NoPath
    CLOSEFILE = CLOSEFILE
    Null = Null
    BUFFER_SIZE = 2
    MaxEntries = 2
    MallocMayFail = TRUE
SYMMETRY Sym
INVARIANT SessionTypeOK
INVARIANT WireAligned
INVARIANT SessionAgrees
INVARIANT ObjectsOwned
