SPECIFICATION CanarySpec
CONSTANTS
    m1 = m1
    m2 = m2
    h1 = h1
    a = a
    b = b
    g = g
    t1 = t1
    t2 = t2
    Customs = {m1, m2}
    Hosted = {h1}
    Names = {a, b}
    Registry = {g}
    Targets = {t1, t2}
    Chains <- MCChains
    Procs = {p1, p2}
    Console = {p1}
    ActiveModels <- MCActive
    Prompts = {q1}
    PerTick = 1
    Window = 2
    InitialRuns = 1
    MaxRuns = 3
    Handlers = {e1, e2}
    Calls = {c1}
    None = None
    Static = Static
    InitialTables <- MCInitialTables
    MaxChain <- MCMaxChain
    MaxOps = 3
INVARIANTS NamesDisjoint VerifiedWasTested CacheAsCommitted BaselineStandsOnRuns
CHECK_DEADLOCK FALSE
