SPECIFICATION Spec
CONSTANTS
    Ciphertexts = {a, b}
    Blocked = {b}
    NoSocket = NoSocket
    MaxRows = 2
    MaxSockets = 2
    MaxUpsets = 1
    MaxFaults = 1
    HalfOpen = FALSE
    Extension = TRUE
INVARIANTS
    IInv
    NothingVanishes
    OneRowPerCiphertext
    PushTargetsLiveHandler
PROPERTIES
    ImplementsMailbox
CHECK_DEADLOCK FALSE
