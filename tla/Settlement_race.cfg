\* One invoice, two requests at once: every interleaving of the settlers.
CONSTANTS
    Hashes = {h1}
    Users = {u1, u2}
    Handlers = {p1, p2}
    Traffic = {"mint", "ssp", "client", "zap", "batch", "blink", "expire", "verify"}
    Legacy = {}
    NULL = NULL
    Junk = Junk
    Nobody = Nobody
    Sats = 3
    MaxCancels = 1
    MaxErrors = 1
SPECIFICATION Spec
SYMMETRY Symmetry
INVARIANTS TypeOK StoredIsPaid PaidNotExpired QueuedIsSettled ToldIsStored HandedIsRecorded
PROPERTIES PreimageKept OwnersOnly ImplementsStore
