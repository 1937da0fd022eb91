SPECIFICATION FairSpec
CONSTANTS
    u1 = u1  u2 = u2  t1 = t1
    Users = {u1, u2}
    Teams = {t1}
    UserTeams <- MCUserTeams
    Calls = {r1, r2}
    Admins = {a1}
    None = None  Org = Org
    Rules <- MCRules
    Writable = {t1, u1}
    InitialRule <- MCRule
    Window = 2
    MaxPolls = 1
    TokensUsed = {1}
    MaxTime = 2
    MaxWrites = 1
    MaxFaults = 1
INVARIANT BurstBounded
PROPERTY QueuedIsAnswered
CHECK_DEADLOCK FALSE
