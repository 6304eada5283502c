SPECIFICATION Spec
CONSTANTS
    claim = claim
    held = held
    body = body
    result = result
    out = out
    grant = grant
    work = work
    exit = exit
    finally = finally
    loop = loop
    http = http
    c1 = c1
    Place = {claim, held, body, result, out}
    TokenId = {1, 2, 3, 4, 5, 6, 7, 8, 9, 10}
    Color = {c1}
    DedupId = {}
    NoDedup = NoDedup
    None = None
    TailCap = 2
    DedupCap = 1
    ByteSizes = {1}
    MaxEvents = 20
    Inputs = {}
    Caller = {loop, http}
    Transition = {grant, work, exit, finally}
    Pre <- MCPre
    Post <- MCPost
    Finalizer = {finally}
    Effect = {work}
    Hooked = {work}
    Bridging = {finally}
    Terminal = {out}
    Loop = loop
    HttpEval = {http}
    Reader = {}
    Firer = {}
    Injected = {claim}
    Outcomes = {"ok"}
    MaxSteps = 2
    MaxFinalizerSteps = 2
    MaxDefers = 1
    MaxInjections = 1
PROPERTIES
    NoLostWakeup
