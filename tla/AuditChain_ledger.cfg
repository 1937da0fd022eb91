SPECIFICATION Spec
CONSTANTS
    e1 = e1
    e2 = e2
    e3 = e3
    e4 = e4
    w1 = w1
    w2 = w2
    a1 = a1
    a2 = a2
    NoTxn = NoTxn
    Entries = {e1, e2, e3, e4}
    Writers = {w1, w2}
    Admins = {a1}
SYMMETRY Symmetric
CHECK_DEADLOCK FALSE
INVARIANT ChainIntact
PROPERTY BackfillCoversHistory
