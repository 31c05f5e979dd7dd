SPECIFICATION Spec
CONSTANTS
    g1 = g1
    g2 = g2
    Groups = {g1, g2}
    FirstRow = 9
    Limits <- Replaced
CHECK_DEADLOCK FALSE
INVARIANT KeyAfterRecovery
