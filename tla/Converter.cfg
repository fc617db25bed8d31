SPECIFICATION MCSpec
CONSTANTS
    Thread = {t1, t2}
    ext = ext
    base = base
    Name <- MCName
    Base <- MCBase
    Codepage = ext
    Data = {d1, d2, d3, d4, d5, d6, d7, d8}
    Cnv = {c1, c2, c3, c4, c5, c6}
    Static = Static
    Failures = {"file", "table", "hash", "create"}
    Clients = {"open", "default", "package", "test", "clone", "flush"}
    MaxCalls = 4
    Null = Null
SYMMETRY Symmetry
INVARIANTS
    RefCountsExact
    SharedDataLives
    OneOwner
PROPERTIES
    FlushComplete
    CleanupFrees
