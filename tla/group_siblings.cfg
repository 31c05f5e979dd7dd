SPECIFICATION FairSpec
CONSTANTS
    a = a
    a2 = a2
    b = b
    b2 = b2
    Nobody = Nobody
    Devices = {a, a2}
    Owner <- OneAccount
    Founder = a
    Kinds <- Editors
    TriedPolicies = {}
    TriedRoles = {0, 1}
    PageSize = 2
    MaxRev = 2
    MaxUpsets = 2
    Background = {a2}
INVARIANTS
    CacheIsARevision
PROPERTIES
    EveryDeviceBinds
CHECK_DEADLOCK FALSE
