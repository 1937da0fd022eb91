SPECIFICATION ScheduleSpec
CONSTANTS
    t1 = t1  s1 = s1  a1 = a1  a2 = a2
    Accounts = {s1}
    Teams = {t1}
    TeamOf <- MCTeamOf
    Days = {0, 1}
    HoursPerDay = 3
    Windows <- MCWindows
    Zones = {0, 1}
    Overrides = {o1}
    Requests = {r1}
    Admins = {a1, a2}
    Unset = Unset  Org = Org  Zone = Zone
    InitialRow <- MCRow
    MaxClock = 2
    MaxWrites = 2
    MaxRestarts = 1
INVARIANTS CacheAsCommitted
PROPERTY CommittedWindowsHold
CHECK_DEADLOCK FALSE
