\* Two keys, two usernames and a phone; two requests at once.
CONSTANTS
    k1 = k1
    k2 = k2
    alice = alice
    bob = bob
    phone = phone
    Pubkeys = {k1, k2}
    BlinkAccounts = {x1}
    Usernames = {alice, bob}
    Phones = {phone}
    Handlers = {p1, p2}
    Statements <- MCStatements
    Typed = {k1, k2}
    Created = {{bob, phone}, {alice}}
    Migrations <- MCMigrations
    Slow = {}
    Window = 1
    MaxTime = 2
    NULL = NULL
SPECIFICATION Spec
SYMMETRY Symmetry
INVARIANTS TypeOK SingleUse ClaimedWasActed
PROPERTIES LostByConsent ImplementsStore
