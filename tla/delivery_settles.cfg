SPECIFICATION FairSpec
CONSTANTS
    Ciphertexts = {a, b}
    Blocked = {b}
    NoSocket = NoSocket
    MaxRows = 2
    MaxSockets = 3
    MaxUpsets = 1
    MaxFaults = 0
    HalfOpen = FALSE
    Extension = FALSE
INVARIANTS
    AckAfterDurableWrite
    NoStrandedRow
PROPERTIES
    EveryRowSettles
CHECK_DEADLOCK FALSE
