SPECIFICATION FairSpec
CONSTANTS
    Teams = {t1, t2}
    KeyIds = {k1, k2, k3, k4}
    CredIds = {i1, i2}
    SessionIds = {s1, s2}
    Codes = {d1}
    Calls = {c1, c2, p1, p2}
    Procs = {p1, p2}
    None = None
    Cap = 2
    MaxCalls = 3
    MaxSecrets = 7
    MaxCrashes = 1
INVARIANTS KeyCapBounded DeactivationCutsOff CredentialDeliveredOnce
PROPERTY CommandsEnd
CHECK_DEADLOCK FALSE
