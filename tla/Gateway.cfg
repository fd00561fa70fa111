\* Two servers on one database; one stops once and one change of the domains.
CONSTANTS
    s1 = s1
    d1 = d1
    d2 = d2
    k1 = k1
    Servers = {s1, s2}
    Config <- MCConfig
    Domains = {d1, d2}
    Stored = {d2}
    Keys = {k1}
    Serials = {c1}
    Tokens <- MCTokens
    Scopes = {"blink:accounts:create"}
    Foreign = Foreign
    MaxStops = 1
    MaxEdits = 1
    MaxWithdrawals = 1
    NULL = NULL
SPECIFICATION FairSpec
INVARIANTS SecretsAgree WithdrawnStaysOut
PROPERTIES DomainsSettle WebhookRegistered
