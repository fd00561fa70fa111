\* One account registers two names at once.
CONSTANTS
    k1 = k1
    k2 = k2
    alice = alice
    bob = bob
    phone = phone
    Pubkeys = {k1}
    BlinkAccounts = {}
    Usernames = {alice, bob}
    Phones = {}
    Handlers = {p1, p2}
    Statements <- MCRenames
    Typed = {k1}
    Created = {}
    Migrations = {}
    Slow = {}
    Window = 1
    MaxTime = 1
    NULL = NULL
SPECIFICATION Spec
INVARIANT OneUsername
