SPECIFICATION Spec
CONSTANTS
    Ciphertexts = {a, b}
    Blocked = {b}
    NoSocket = NoSocket
    MaxRows = 2
    MaxSockets = 2
    MaxUpsets = 0
    MaxFaults = 0
    HalfOpen = TRUE
    Extension = FALSE
INVARIANTS
    NoStrandedRow
CHECK_DEADLOCK FALSE
