\* One zap, one server, one request; nothing crashes.
CONSTANTS
    Hashes = {h1}
    Zapped = {h1}
    Servers = {s1}
    Keyed = {s1}
    Handlers = {p1}
    Limit = 2
    MaxFaults = 0
    NULL = NULL
SPECIFICATION FairSpec
PROPERTY ReceiptPublished
