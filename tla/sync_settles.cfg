SPECIFICATION SyncSpec
CONSTANTS
    d1 = d1
    d2 = d2
    Devices = {d1, d2}
    MaxRecord = 2
    Writers <- OneShared
    Deletions = {3}
    PullLimit = 1
    MaxEdits = 3
    MaxFaults = 1
    MayFail = {"abort", "reply", "apply"}
    OffLock = {1}
    Mine = {d1, d2}
    MaxHappenings = 3
INVARIANTS
    SyncHolds
    NoEditLost
    
PROPERTIES
    Converges
    OnlyRacesForget
    DevicesAgree
CHECK_DEADLOCK FALSE
