\* Two deliveries of one domain; one server with one permit.
CONSTANTS
    i1 = i1
    i2 = i2
    i3 = i3
    d1 = d1
    d2 = d2
    Ids = {i1, i2}
    Domains = {d1}
    DomainOf <- MCDomainOf
    Servers = {s1}
    Permits = 1
    Stale = 1
    RetryDelay <- MCRetryDelay
    MaxOverdue = 2
    MaxRetries = 2
    MaxFaults = 1
    MaxEdits = 1
    MaxCleanups = 1
    Slow = {}
    NULL = NULL
    Never = Never
SPECIFICATION FairSpec
PROPERTY Attempted
