\* One zap, reported by two requests at once; two servers that may take each
\* other's claim over.
CONSTANTS
    Hashes = {h1}
    Zapped = {h1}
    Servers = {s1, s2}
    Keyed = {s1, s2}
    Handlers = {p1, p2}
    Limit = 1
    MaxFaults = 1
    NULL = NULL
SPECIFICATION FairSpec
INVARIANTS TypeOK NothingLost
PROPERTIES ReceiptStored ImplementsStore
