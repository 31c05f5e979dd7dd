SPECIFICATION Spec
CONSTANTS
    g1 = g1
    g2 = g2
    Groups = {g1, g2}
    FirstRow = 1
    Limits <- Together
CHECK_DEADLOCK FALSE
INVARIANTS InboxHolds SubscribedToAll
PROPERTY EveryMessageSettles
