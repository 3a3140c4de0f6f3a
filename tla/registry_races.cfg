SPECIFICATION Spec
CONSTANTS
    Threads = {t1, t2}
    Paths = {p1, p2}
    Callers = {c1, c2}
    Closers = {k1, k2}
    MaxThreads = 1
    MaxRestarts = 1
    NoPath = NoPath
    Unborn = Unborn
    Root = Root
    RootPath = RootPath
    None = None
SYMMETRY Symmetry
INVARIANTS Identity PathsOwned CountCovers LimitKept
CHECK_DEADLOCK FALSE
