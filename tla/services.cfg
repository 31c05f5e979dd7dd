SPECIFICATION Spec
CONSTANTS
    ann = ann
    bea = bea
    bot = bot
    bob = bob
    ann1 = ann1
    ann2 = ann2
    bea1 = bea1
    bot1 = bot1
    bob1 = bob1
    c1 = c1
    c2 = c2
    People = {ann, bea, bot, bob}
    Callers = {c1, c2}
    Nobody = Nobody
    Installs = {ann1, ann2, bea1, bot1, bob1}
    Bots = {bot, bob}
    Of <- OfWhom
    Limits <- ServiceLimits
    o1 = o1
    o2 = o2
    Requests = {o1, o2}
    MaxIds = 2
    MaxKeys = 2
    MaxOrders = 4
    u1 = u1
    u2 = u2
    Uploaders = {u1, u2}
    Quota = 1
    MaxSlots = 2
    MaxMishaps = 1
    MaxSaves = 2
    e1 = e1
    e2 = e2
    h1 = h1
    h2 = h2
    Calls = {e1, e2}
    Phones = {h1, h2}
    Placements <- OneOrTwoPhones
    MaxChanges = 2
    MaxLapses = 1
    club = club
    PushGroups = {club}
    MaxTokens = 2
    MaxCalls = 3
    MaxFailures = 2
INVARIANTS
    NotLockedOut
    DevicesFit
    AdmittedOnce
    ConsentedLogins
    DeletionIsWhole
    GateHolds
    AttachmentsHold
    ShownWasPublished
    WakeupsReachDevice
PROPERTIES
    LinkSettles
    AttachmentsSettle
    PictureFollows
    OldPseudonymsFade
CHECK_DEADLOCK FALSE
