SPECIFICATION Spec
CONSTANTS
    a = a
    b = b
    p = p
    Mine = {a, b}
    Theirs = {p}
    MaxTexts = 2
    MaxTimes = 2
    Bounds <- SideBySide
CHECK_DEADLOCK FALSE
INVARIANT DevicesConverge
PROPERTIES HistoryHonest HistorySettles
