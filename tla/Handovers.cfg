SPECIFICATION HandoversSpec
CONSTANTS
    k1 = k1
    l1 = l1
    p1 = p1
    x1 = x1
    Callers = {c1, c2}
    Cards = {k1}
    Links = {l1}
    Patches = {p1}
    Fixed = {x1}
    Ends <- LinkEnds
    PatchOf <- PatchTarget
    MaxCalls = 3
    MaxEdits = 1
    Jobs = {j1, j2, j3}
    Workers = {w1, w2}
    MaxJobs = 2
    WithLocal = {j1, j2}
    NoJob = nojob
    Attempts = {a1, a2}
    Parses = {r1, r2}
    FlushEvery = 2
    MaxLines = 3
    HalfBytes = 3
    MaxChunk = 4
    MaxPushed = 12
INVARIANTS
    TypesOK
    CopiesBounded
    RowIsTrue
    RunsOnceEach
    LinesKept
    RingBounded
CHECK_DEADLOCK FALSE
