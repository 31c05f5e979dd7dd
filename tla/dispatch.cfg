SPECIFICATION FairSpec
CONSTANTS
    s1 = s1
    s2 = s2
    Senders = {s1, s2}
    MaxDevice = 2
    Low = 1
    Target = 1
    MaxSends = 2
    Bounds <- SideBySide
INVARIANTS
    KeysServe
    SendsHold
PROPERTIES
    PoolsRefilled
CHECK_DEADLOCK FALSE
