\* One request stops half-way.
CONSTANTS
    Hashes = {h1}
    Users = {u1}
    Handlers = {p1, p2}
    Traffic = {"mint", "ssp", "expire"}
    Legacy = {}
    NULL = NULL
    Junk = Junk
    Nobody = Nobody
    Sats = 3
    MaxCancels = 1
    MaxErrors = 0
SPECIFICATION FairSpec
PROPERTY ZapQueued
