SPECIFICATION Spec
CONSTANTS
    a = a
    a2 = a2
    b = b
    b2 = b2
    Nobody = Nobody
    Devices = {a, b, b2}
    Owner <- TwoOfB
    Founder = a
    Kinds <- InviteAndLeave
    TriedPolicies = {}
    TriedRoles = {0}
    PageSize = 2
    MaxRev = 5
    MaxUpsets = 0
    Background = {}
INVARIANTS
    BoundWhileMember
CHECK_DEADLOCK FALSE
