\* Two payers on one server, a name that may change hands once.
CONSTANTS
    alice = alice
    bob = bob
    Payers = {p1, p2}
    Servers = {s1}
    Keyed = {s1}
    Accounts = {alice, bob}
    ProviderOf <- MCProviderOf
    WalletsOf <- MCWalletsOf
    Names = {"username"}
    Holdable <- MCHoldable
    Identifiers <- MCIdentifiers
    Asks <- MCAsks
    CallbackDomain = cb
    Domain = d
    NULL = NULL
    ZapHash = ZapHash
    OtherHash = OtherHash
    MinSendable = 1000
    MaxSendable = 4000
    Fallback = 3000
    MaxU64 = 2500
    Rates = {1, 2}
    MaxEdits = 1
    MaxDrifts = 1
    MaxOutages = 1
SPECIFICATION Spec
SYMMETRY Symmetry
INVARIANTS OfferStands InvoiceAsAsked NotForAnon
