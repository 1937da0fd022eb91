SPECIFICATION Spec
CHECK_DEADLOCK FALSE
CONSTANTS
    custom = custom
    static = static
    secret = secret
    None = None
    Requests = {r1}
    Writers = {w1}
    Models = {custom, static}
    Static = {static}
    Prompts = {secret}
    Sensitive = {secret}
    Region <- Zone
    Fallbacks <- Chain
    InitialRow <- Degrading
    Values <- Changes
    StoreMayFail = TRUE
    MaxRequests = 2
    MaxWrites = 2
INVARIANT EntryFresh
INVARIANT EnforcedAsCommitted
PROPERTY GateSpec
