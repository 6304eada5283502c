SPECIFICATION FairSpec
CONSTANTS
    m1 = m1
    m2 = m2
    timer = timer
    http = http
    Message = {m1, m2}
    Instance = {1, 2, 3}
    Timer = timer
    Http = http
    None = None
    Load <- ClosingLoad
    MaxPending = 0
    MaxFirings = 2
CHECK_DEADLOCK FALSE
PROPERTIES
    EveryTokenFires
