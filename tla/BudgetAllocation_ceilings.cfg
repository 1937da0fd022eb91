SPECIFICATION Spec
CHECK_DEADLOCK FALSE
CONSTANTS
    c1 = c1
    c2 = c2
    c3 = c3
    t1 = t1
    t2 = t2
    u1 = u1
    u2 = u2
    r1 = r1
    None = None
    Absent = Absent
    Calls = {c1, c2, c3}
    Memberships <- OneTeam
    InitialRows <- OneMember
    InitialCeiling <- SecondOpen
    InitialOrg <- OrgRow
    Teams = {t1, t2}
    Users = {u1, u2}
    Requests = {r1}
    Amounts = {1, 3}
    Operations = {"add", "update", "approve", "reassign", "ceiling", "org", "create", "delete", "remove", "restore", "rollover", "submit", "reject"}
    MaxCalls = 3
INVARIANT BudgetsWithinCeilings
INVARIANT NoCircularWait
PROPERTY ResolutionIsFinal
SYMMETRY Symmetric
