SPECIFICATION FairSpec
CONSTANTS
    k1 = k1  k2 = k2  k3 = k3
    Keys = {k1, k2, k3}
    Label <- MCLabel
    InitialTables <- MCTables
    Requests = {r1}
    Admins = {a1, a2}
    Teams = {t1}
    None = None
    Window = 0
    DownThreshold = 2
    MaxTime = 1
    MaxWrites = 3
    MaxFaults = 1
INVARIANTS KeysConsistent DownIsEarned
PROPERTY DownKeyRecovers
CHECK_DEADLOCK FALSE
