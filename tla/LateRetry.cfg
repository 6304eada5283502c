SPECIFICATION Spec
CONSTANTS
    src = src
    dst = dst
    loop = loop
    lsn = lsn
    h1 = h1
    h2 = h2
    ccl = ccl
    cid = cid
    Net = {src, dst}
    Source = src
    Target = dst
    Loop = loop
    Listener = lsn
    Canceller = {h1}
    Work = {1}
    Cancel = ccl
    Token = {1, ccl}
    CancelId = cid
    RequestId = {cid}
    NoId = NoId
    None = None
    Unseeded = {NoId}
    Faults = {"Timeout", "WindowEnds"}
    MaxFaults = 2
    Prompt = FALSE
CHECK_DEADLOCK FALSE
INVARIANTS
    OneTokenPerId
