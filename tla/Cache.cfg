SPECIFICATION BSpec
CONSTANTS
    p = p
    q = q
    t1 = t1
    t2 = t2
    c1 = c1
    r1 = r1
    r2 = r2
    Place = {p, q}
    TokenId = {t1, t2}
    Color = {c1}
    DedupId = {}
    NoDedup = NoDedup
    None = None
    TailCap = 2
    DedupCap = 1
    ByteSizes = {1}
    MaxEvents = 3
    MaxClears = 1
    Caller = {r1, r2}
    Inputs <- MCInputs
SYMMETRY Symmetry
CONSTRAINT AfterClear
INVARIANTS
    CTypeOK
    CacheCoherent
    ReadsFresh
    BroadcastsDelta
