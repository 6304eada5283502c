SPECIFICATION Spec
CONSTANTS
    c1 = c1
    c2 = c2
    c3 = c3
    Claimant = {c1, c2, c3}
    Runner = {r1}
    None = None
    Capacity = 2
    Concurrency = 1
    Satisfies <- AnyRunner
    Fault = {}
    Load <- Quiet
    MaxMints = 2
CHECK_DEADLOCK FALSE
INVARIANTS
    AtMostConcurrency
