SPECIFICATION FairSpec
CONSTANTS
    k1 = k1
    k2 = k2
    Keys = {k1, k2}
    Procs = {p1, p2}
    Calls = {c1, c2}
    Hosts = {h1}
    EventIds = {e1}
    Editors = {x1, x2}
    None = None
    Retentions = {1, 2}
    InitialMode = "webhook"
    Day = 2
    Anchors = {1}
    Intervals = {1}
    Overlaps = {1, 2}
    DefaultOverlap = 1
    InitialKeys = {k1}
    InitialPolicy <- MCInitialPolicy
    RotationBatch = 1
    MaxTime = 3
    MaxCommands = 2
    MaxTokens = 1
    MaxSecrets = 8
    MaxFaults = 1
INVARIANTS SupersededDies AlertsAreConfirmed
PROPERTIES ClaimHonoursPolicy LoopKeepsUp
CHECK_DEADLOCK FALSE
