\* Two deliveries of one domain, two servers; the tasks of i2 may outlive their claims.
CONSTANTS
    i1 = i1
    i2 = i2
    i3 = i3
    d1 = d1
    d2 = d2
    Ids = {i1, i2}
    Domains = {d1}
    DomainOf <- MCDomainOf
    Servers = {s1, s2}
    Permits = 1
    Stale = 1
    RetryDelay <- MCRetryDelay
    MaxOverdue = 0
    MaxRetries = 0
    MaxFaults = 1
    MaxEdits = 1
    MaxCleanups = 0
    Slow = {i2}
    NULL = NULL
    Never = Never
SPECIFICATION Spec
INVARIANTS TypeOK OneTask NotSentAgain
PROPERTY ImplementsStore
SYMMETRY Symmetry
