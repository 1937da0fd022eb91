SPECIFICATION Spec
CONSTANTS
    s1 = s1
    s2 = s2
    m1 = m1
    m2 = m2
    u1 = u1
    v1 = v1
    NoCaller = NoCaller
    NoBudget = NoBudget
    Slots = {s1, s2}
    Members = {m1, m2}
    FlatUsers = {}
    InitialBudget <- TwoMembers
    OrgCeiling = 2
    TeamCeiling = 2
    MaxCost = 2
    PeriodMonths = 1
    OnPeriodEnd = "rollover"
    Cached = {m2}
    Removable = {m1}
    Viewers = {v1}
    MaxMonth = 1
    MaxRequests = 3
SYMMETRY Symmetric
INVARIANT MemberReserveKept
PROPERTY RemovalCutsAccess
