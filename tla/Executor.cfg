SPECIFICATION FairSpec
CONSTANTS
    s1 = s1
    s2 = s2
    Slot = {s1, s2}
    None = None
    Layout <- Layouts
    MaxDeliver = 3
CHECK_DEADLOCK FALSE
INVARIANTS
    TypeOK
    LiveRunRegistered
    
    OneBody

    
