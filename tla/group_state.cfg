SPECIFICATION Spec
CONSTANTS
    a = a
    a2 = a2
    b = b
    b2 = b2
    Nobody = Nobody
    Devices = {a, b}
    Owner <- OwnDevice
    Founder = a
    Kinds <- AdminAndMember
    TriedPolicies <- AskOrOpen
    TriedRoles = {0, 1}
    PageSize = 2
    MaxRev = 3
    MaxUpsets = 0
    Background = {}
INVARIANTS
    SubmissionsHold
    LinesAreTrue
CHECK_DEADLOCK FALSE
