\* One invoice; two requests may stop half-way, the SSP repeats its callback.
CONSTANTS
    Hashes = {h1}
    Users = {u1}
    Handlers = {p1, p2}
    Traffic = {"mint", "ssp", "client", "batch", "expire"}
    Legacy = {}
    NULL = NULL
    Junk = Junk
    Nobody = Nobody
    Sats = 3
    MaxCancels = 2
    MaxErrors = 0
SPECIFICATION FairSpec
PROPERTIES WebhookQueued ZapQueuedUnlessStopped
