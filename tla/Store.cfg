SPECIFICATION Spec
CONSTANTS
    p = p
    q = q
    t1 = t1
    t2 = t2
    c1 = c1
    c2 = c2
    d1 = d1
    d2 = d2
    Place = {p, q}
    TokenId = {t1, t2}
    Color = {c1, c2}
    DedupId = {d1, d2}
    NoDedup = NoDedup
    None = None
    TailCap = 2
    DedupCap = 2
    ByteSizes = {1, 2}
    MaxEvents = 3
    Inputs <- MCInputs
INVARIANTS
    TypeOK
    TailWithinCap
    DedupWindowSound
PROPERTY ImplementsLog
