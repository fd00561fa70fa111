\* One key; two mode requests and a country lookup at once.
CONSTANTS
    k1 = k1
    Pubkeys = {k1}
    Handlers = {p1, p2}
    Lookups = {t1}
    Signed <- MCSigned
    Countries = {c1}
    Skew = 1
    Window = 2
    MaxTime = 2
    Buckets = {x, y}
    MaxRequests = 2
    MaxLookups = 1
    LimitWindow = 2
    MaxTracked = 1
    AllowUntrusted = FALSE
    NULL = NULL
SPECIFICATION Spec
SYMMETRY Symmetry
INVARIANTS AckedHolds NoEvidenceOfAnon WithinBudget
PROPERTIES OnlyOwnersSwitch ImplementsStore
