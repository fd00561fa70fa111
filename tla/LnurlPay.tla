------------------------------ MODULE LnurlPay ------------------------------
(***************************************************************************)
(* A payer's way to an invoice: the discovery of a lightning address, and  *)
(* the callback with an amount that answers an invoice.                    *)
(*                                                                         *)
(* Between the two, and between any two awaits of one, the name may change *)
(* hands, its default wallet or its description may change, the owner may  *)
(* become anonymous, Blink's rate may move and its minimum, which a server *)
(* keeps for five minutes, may lapse.  Nothing of the discovery is stored: *)
(* the callback only has what its URL says.                                *)
(*                                                                         *)
(* One action is one await.  Whether a host is served is the subject of    *)
(* Gateway, what is stored before the invoice is answered of Settlement.   *)
(***************************************************************************)
EXTENDS Naturals, Sequences, FiniteSets

CONSTANTS
    Payers, Servers, Accounts,
    Keyed,          \* servers configured with Nostr keys
    ProviderOf,     \* account -> "spark" or "blink"
    WalletsOf,      \* account -> the wallets whose ids a Blink account has
    Names,          \* stored identifiers
    Holdable,       \* name -> the recipients it may belong to
    Identifiers,    \* what payers ask for
    Asks,           \* what they send to the callback
    CallbackDomain, \* the configured callback domain, or NULL
    Domain, NULL,
    ZapHash,        \* the hash of a zap request
    OtherHash,      \* the hash of something else
    MinSendable, MaxSendable,
    Fallback,       \* BLINK_USD_MIN_SENDABLE_FALLBACK_MSAT
    MaxU64,         \* where a conversion overflows
    Rates,          \* what one US cent may be worth in satoshis
    MaxEdits, MaxDrifts, MaxOutages

Wallets == {"btc", "usd"}
ExpiryLimit == [btc |-> 86400, usd |-> 300]

(* What resolve_recipient_by_identifier finds: a row of a Spark account    *)
(* with a default wallet, or of a Blink account without one, is an error.  *)
Recipient ==
    {to \in [account: Accounts, default: Wallets \cup {NULL}, description: {1, 2}] :
        (to.default = NULL) = (ProviderOf[to.account] = "spark")}

ASSUME RecipientAssumption ==
    /\ ProviderOf \in [Accounts -> {"spark", "blink"}]
    /\ WalletsOf \in [Accounts -> SUBSET Wallets]
    /\ Holdable \in [Names -> SUBSET Recipient]
    /\ NULL \notin Recipient /\ CallbackDomain # Domain /\ Keyed \subseteq Servers
ASSUME NumberAssumption ==
    /\ {MinSendable, MaxSendable, Fallback, MaxU64} \subseteq Nat
    /\ Rates \subseteq Nat /\ {MaxEdits, MaxDrifts, MaxOutages} \subseteq Nat

(* What the query of a callback may hold.                                  *)
Ask == [amount: Nat \cup {NULL}, longComment: BOOLEAN,
        zap: [genuine: BOOLEAN, amount: Nat \cup {NULL}] \cup {NULL},
        expiry: Nat \cup {NULL}]

ASSUME AskAssumption ==
    /\ Asks \subseteq Ask
    /\ Domain # NULL
    /\ NULL \notin Asks \cup Nat \cup Wallets
         \cup {"invalid", "anon", "amount", "range", "comment", "zap", "expiry"}

VARIABLES
    row,        \* account_identifiers of Domain: name -> recipient
    mode,       \* stored account mode
    usdMin,     \* server -> its fresh usd_min_sendable_cache
    rate,       \* Blink's current rate
    req,        \* payer -> the request under way, or its end
    held,       \* payer -> what the name asked for resolved to since the discovery
    owners,     \* payer -> and since the callback began
    receiving,  \* payer -> accounts that were not anonymous at some time since then
    edits, drifts, outages

world == <<row, mode, rate, edits, drifts>>
seen == <<held, owners, receiving>>
vars == <<row, mode, usdMin, rate, req, held, owners, receiving, edits, drifts, outages>>

(* name, wallet: what was asked for.  offer: what the discovery answered.  *)
(* to: what the name resolved to.  usd: an estimate to be kept.  invoice:  *)
(* what was answered.  asked: what the provider was asked for before.      *)
Idle == [pc |-> "idle", at |-> NULL, name |-> NULL, wallet |-> NULL, offer |-> NULL,
         ask |-> NULL, to |-> NULL, usd |-> 0, asked |-> NULL, invoice |-> NULL,
         result |-> NULL]

Init ==
    /\ row \in [Names -> UNION {Holdable[n] : n \in Names} \cup {NULL}]
    /\ \A n \in Names : row[n] \in Holdable[n] \cup {NULL}
    /\ mode = [a \in Accounts |-> NULL]
    /\ usdMin = [s \in Servers |-> NULL]
    /\ rate \in Rates
    /\ req = [p \in Payers |-> Idle]
    /\ held = [p \in Payers |-> {}] /\ owners = held
    /\ receiving = [p \in Payers |-> {}]
    /\ edits = 0 /\ drifts = 0 /\ outages = 0

(***************************************************************************)
(* Identifiers.  An identifier has a base, in its canonical spelling or    *)
(* not, and what follows each further plus sign; a leading one belongs to  *)
(* a phone number.                                                         *)
(***************************************************************************)

(* split_final_wallet_modifier: one modifier at most.                      *)
SplitFinalWalletModifier(id) ==
    IF id.mods = <<>> THEN NULL
    ELSE IF Len(id.mods) = 1 /\ id.mods[1] \in Wallets THEN id.mods[1] ELSE "invalid"

(* checked_to_username and checked_to_phone_number: the canonical spelling *)
(* of the base, unless it is neither.                                      *)
Checked(base) == IF base \in {"legacy", "badphone"} THEN NULL ELSE base

(* identifier.rs                                                           *)
ParseIdentifier(id) ==
    LET wallet == SplitFinalWalletModifier(id)
    IN IF wallet = "invalid" \/ Checked(id.base) = NULL THEN NULL
       ELSE [name |-> Checked(id.base), wallet |-> wallet]

(* A username from before usernames were checked; it cannot be told from   *)
(* one with a modifier.                                                    *)
LegacyCandidate(id) == id.base = "legacy" /\ id.mods = <<>>

(* parse_public_identifier_for_public_route                                *)
ParsePublicIdentifier(id) ==
    IF LegacyCandidate(id) THEN [name |-> "legacy", wallet |-> NULL] ELSE ParseIdentifier(id)

(* Mutant of CallbackIdentifier: the modifier is lost.                     *)
CallbackIdentifierBare(intent) ==
    [base |-> intent.name, canonical |-> TRUE, mods |-> <<>>]

CallbackIdentifier(intent) ==
    [base |-> intent.name, canonical |-> TRUE,
     mods |-> IF intent.wallet = NULL THEN <<>> ELSE <<intent.wallet>>]

BuildCallbackUrl(id) ==
    IF CallbackDomain = NULL THEN [host |-> Domain, domain |-> NULL, id |-> id]
    ELSE [host |-> CallbackDomain, domain |-> Domain, id |-> id]

(* handle_invoice takes the host for the domain, handle_invoice_for_domain *)
(* the path, and only on the callback domain.                              *)
DomainOfCallback(url) ==
    IF url.domain = NULL THEN url.host
    ELSE IF url.host = CallbackDomain THEN url.domain ELSE NULL

Resolve(domain, name) == IF domain = Domain /\ name \in Names THEN row[name] ELSE NULL

Metadata(to, id) == [description |-> to.description, identifier |-> id]

(***************************************************************************)
(* Requests.                                                               *)
(***************************************************************************)
At(p, pc) == req[p].pc = pc
Become(p, r) == req' = [req EXCEPT ![p] = r]
Goto(p, pc) == req' = [req EXCEPT ![p].pc = pc]
End(p, result) == req' = [req EXCEPT ![p].pc = "done", ![p].result = result]

Wallet(r) == IF r.wallet # NULL THEN r.wallet ELSE r.to.default
IsBlinkUsd(r) == ProviderOf[r.to.account] = "blink" /\ Wallet(r) = "usd"

Greater(a, b) == IF a > b THEN a ELSE b

(* Mutant of TooLittle: the minimum itself is refused.                     *)
TooLittleOrEqual(amount, min) == amount <= min

TooLittle(amount, min) == amount < min

(* With the minimum a discovery makes an offer of it, and a callback goes  *)
(* on to the provider.                                                     *)
Offer(r, min) ==
    LET id == CallbackIdentifier([name |-> r.name, wallet |-> r.wallet])
    IN [url |-> BuildCallbackUrl(id), min |-> min, meta |-> Metadata(r.to, id),
        wallet |-> r.wallet]

Decide(p, r, usd) ==
    LET min == IF IsBlinkUsd(r) THEN Greater(usd, MinSendable) ELSE MinSendable
    IN IF r.ask = NULL
       THEN IF min > MaxSendable THEN Become(p, [r EXCEPT !.pc = "done", !.result = "error"])
            ELSE Become(p, [Idle EXCEPT !.pc = "offer", !.name = r.name, !.offer = Offer(r, min)])
       ELSE IF TooLittle(r.ask.amount, min)
            THEN Become(p, [r EXCEPT !.pc = "done", !.result = "range"])
            ELSE Become(p, [r EXCEPT !.pc = "create", !.usd = 0])

(* resolve_min_sendable_msat                                               *)
ResolveMinSendable(p, r) ==
    IF IsBlinkUsd(r) THEN Become(p, [r EXCEPT !.pc = "minimum"]) ELSE Decide(p, r, 0)

(***************************************************************************)
(* handle_lnurl_pay: the mode of the owner plays no part.                  *)
(***************************************************************************)
Discover(p, s, id) ==
    /\ At(p, "idle")
    /\ LET intent == ParsePublicIdentifier(id)
           to == IF intent = NULL THEN NULL ELSE Resolve(Domain, intent.name)
       IN IF to = NULL
          THEN End(p, "unknown") /\ UNCHANGED held
          ELSE /\ ResolveMinSendable(p, [Idle EXCEPT !.at = s, !.name = intent.name,
                                             !.wallet = intent.wallet, !.to = to])
               /\ held' = [held EXCEPT ![p] = {to}]
    /\ UNCHANGED <<world, usdMin, owners, receiving, outages>>

(***************************************************************************)
(* BlinkProvider::usd_min_sendable_msat                                    *)
(***************************************************************************)
ReadMinimum(p) ==
    /\ At(p, "minimum")
    /\ IF usdMin[req[p].at] # NULL THEN Decide(p, req[p], usdMin[req[p].at])
       ELSE Goto(p, "estimate")
    /\ UNCHANGED <<world, seen, usdMin, outages>>

(* One satoshi more than a cent is worth; checked_add and checked_mul.     *)
EstimateMinimum(p) ==
    /\ At(p, "estimate")
    /\ LET msat == (rate + 1) * 1000
       IN IF msat > MaxU64 THEN Decide(p, req[p], Fallback)
          ELSE Become(p, [req[p] EXCEPT !.pc = "keep", !.usd = msat])
    /\ UNCHANGED <<world, seen, usdMin, outages>>

EstimateFails(p) ==
    /\ At(p, "estimate") /\ outages < MaxOutages
    /\ outages' = outages + 1
    /\ Decide(p, req[p], Fallback)
    /\ UNCHANGED <<world, seen, usdMin>>

(* The write lock is awaited: a later estimate may have been kept before.  *)
KeepMinimum(p) ==
    /\ At(p, "keep")
    /\ usdMin' = [usdMin EXCEPT ![req[p].at] = req[p].usd]
    /\ Decide(p, req[p], req[p].usd)
    /\ UNCHANGED <<world, seen, outages>>

(***************************************************************************)
(* handle_invoice_for_resolved_domain                                      *)
(***************************************************************************)
Callback(p, s, ask) ==
    /\ At(p, "offer")
    /\ LET url == req[p].offer.url
           intent == ParsePublicIdentifier(url.id)
           to == Resolve(DomainOfCallback(url), intent.name)
           r == [req[p] EXCEPT !.at = s, !.ask = ask, !.to = to, !.wallet = intent.wallet]
       IN /\ Become(p, IF to = NULL THEN [r EXCEPT !.pc = "done", !.result = "unknown"]
                       ELSE [r EXCEPT !.pc = "mode"])
          /\ owners' = [owners EXCEPT ![p] = {to}]
    /\ receiving' = [receiving EXCEPT ![p] = {a \in Accounts : mode[a] # "anon"}]
    /\ UNCHANGED <<world, usdMin, held, outages>>

(* callback_expiry_for_provider refuses what exceeds the wallet's limit.   *)
TooLong(r) ==
    /\ ProviderOf[r.to.account] = "blink" /\ r.ask.expiry # NULL
    /\ Wallet(r) = NULL \/ r.ask.expiry > ExpiryLimit[Wallet(r)]

(* validate_nostr_zap_request.  genuine: of its kind, signed and with the  *)
(* tags it needs; amount: what its amount tag says, if it has one.         *)
ValidateZapRequest(amount, zap) == zap.genuine /\ zap.amount \in {NULL, amount}

(* What is refused without asking anyone, in this order.                   *)
Refusal(r) ==
    IF r.ask.amount = NULL \/ r.ask.amount % 1000 # 0 THEN "amount"
    ELSE IF TooLittle(r.ask.amount, MinSendable) \/ r.ask.amount > MaxSendable THEN "range"
    ELSE IF r.ask.longComment THEN "comment"
    ELSE IF r.ask.zap # NULL /\ ~(r.at \in Keyed /\ ValidateZapRequest(r.ask.amount, r.ask.zap))
         THEN "zap"
    ELSE IF TooLong(r) THEN "expiry" ELSE NULL

Proceed(p) ==
    IF Refusal(req[p]) # NULL THEN End(p, Refusal(req[p])) ELSE ResolveMinSendable(p, req[p])

(* Only Spark accounts have a mode.                                        *)
ReadMode(p) ==
    /\ At(p, "mode")
    /\ IF ProviderOf[req[p].to.account] = "spark" /\ mode[req[p].to.account] = "anon"
       THEN End(p, "anon") ELSE Proceed(p)
    /\ UNCHANGED <<world, seen, usdMin, outages>>

(* Mutant of ReadModeFails: minting goes on.                               *)
ReadModeFailsOpen(p) ==
    /\ At(p, "mode") /\ outages < MaxOutages
    /\ outages' = outages + 1
    /\ Proceed(p)
    /\ UNCHANGED <<world, seen, usdMin>>

ReadModeFails(p) ==
    /\ At(p, "mode") /\ outages < MaxOutages
    /\ ProviderOf[req[p].to.account] = "spark"
    /\ outages' = outages + 1
    /\ End(p, "error")
    /\ UNCHANGED <<world, seen, usdMin>>

(* Minutes, rounded up.                                                    *)
ExpiryMinutes(seconds) == (seconds + 59) \div 60

(* What the provider is asked for: Spark has no USD wallet, and Blink has  *)
(* those whose ids are known.                                              *)
Supported(r) ==
    IF ProviderOf[r.to.account] = "spark" THEN r.wallet # "usd"
    ELSE Wallet(r) # NULL /\ Wallet(r) \in WalletsOf[r.to.account]

DescriptionHash(r) ==
    IF r.ask.zap # NULL THEN ZapHash ELSE Metadata(r.to, r.offer.url.id)

Wanted(r) ==
    LET blink == ProviderOf[r.to.account] = "blink"
    IN [account |-> r.to.account, wallet |-> IF blink THEN Wallet(r) ELSE "btc",
        hash |-> DescriptionHash(r), amount |-> r.ask.amount,
        expiry |-> IF blink /\ r.ask.expiry # NULL THEN 60 * ExpiryMinutes(r.ask.expiry)
                   ELSE r.ask.expiry]

(* What it answers: an invoice for this, or for another text or amount.    *)
(* Whom it pays, into which wallet and for how long is the provider's      *)
(* affair: nobody compares it with what was asked for.                     *)
ProviderInvoices(r) ==
    [hash: {DescriptionHash(r), OtherHash}, amount: {r.ask.amount, r.ask.amount + 1000}]

CheckInvoice(r, invoice) ==
    invoice.hash = DescriptionHash(r) /\ invoice.amount = r.ask.amount

CreateInvoice(p) ==
    /\ At(p, "create") /\ Supported(req[p])
    /\ \E invoice \in ProviderInvoices(req[p]) :
          IF CheckInvoice(req[p], invoice)
          THEN Become(p, [req[p] EXCEPT !.pc = "done", !.result = "invoiced",
                                        !.asked = Wanted(req[p]), !.invoice = invoice])
          ELSE End(p, "error")
    /\ UNCHANGED <<world, seen, usdMin, outages>>

(* The provider does not have the wallet, or fails.                        *)
CreateFails(p) ==
    /\ At(p, "create")
    /\ End(p, "error")
    /\ UNCHANGED <<world, seen, usdMin, outages>>

(* A payer gives up an offer, or is done.                                  *)
Leave(p) ==
    /\ req[p].pc \in {"offer", "done"}
    /\ Become(p, Idle)
    /\ held' = [held EXCEPT ![p] = {}]
    /\ owners' = [owners EXCEPT ![p] = {}]
    /\ receiving' = [receiving EXCEPT ![p] = {}]
    /\ UNCHANGED <<world, usdMin, outages>>

(***************************************************************************)
(* Meanwhile.                                                              *)
(***************************************************************************)

(* What the names asked for resolve to from now on.                        *)
Observe ==
    LET now(p) == IF req[p].name \in Names THEN {row'[req[p].name]} ELSE {}
    IN /\ held' = [p \in Payers |-> held[p] \cup now(p)]
       /\ owners' = [p \in Payers |-> IF owners[p] = {} THEN {} ELSE owners[p] \cup now(p)]

(* A name is registered, anew or with another description, unregistered or *)
(* transferred: Registry.                                                  *)
ChangeRow(n, to) ==
    /\ edits < MaxEdits /\ row[n] # to
    /\ edits' = edits + 1
    /\ row' = [row EXCEPT ![n] = to]
    /\ Observe
    /\ UNCHANGED <<mode, usdMin, rate, req, receiving, drifts, outages>>

(* update_blink_default_wallet: all names of the account.                  *)
WithDefaultWallet(a, w) ==
    [n \in Names |-> IF row[n] # NULL /\ row[n].account = a
                     THEN [row[n] EXCEPT !.default = w] ELSE row[n]]

(* update_internal_blink_account                                           *)
UpdateBlinkAccount(a, w) ==
    /\ edits < MaxEdits /\ ProviderOf[a] = "blink"
    /\ edits' = edits + 1
    /\ row' = WithDefaultWallet(a, w)
    /\ Observe
    /\ UNCHANGED <<mode, usdMin, rate, req, receiving, drifts, outages>>

(* AccountMode                                                             *)
SetMode(a, m) ==
    /\ edits < MaxEdits /\ ProviderOf[a] = "spark" /\ mode[a] # m
    /\ edits' = edits + 1
    /\ mode' = [mode EXCEPT ![a] = m]
    /\ receiving' = [p \in Payers |-> IF m # "anon" /\ owners[p] # {}
                                      THEN receiving[p] \cup {a} ELSE receiving[p]]
    /\ UNCHANGED <<row, usdMin, rate, req, held, owners, drifts, outages>>

Drift(r) ==
    /\ drifts < MaxDrifts /\ rate # r
    /\ drifts' = drifts + 1
    /\ rate' = r
    /\ UNCHANGED <<row, mode, usdMin, req, seen, edits, outages>>

(* USD_MIN_SENDABLE_CACHE_TTL has passed.                                  *)
Lapse(s) ==
    /\ usdMin[s] # NULL
    /\ usdMin' = [usdMin EXCEPT ![s] = NULL]
    /\ UNCHANGED <<world, req, seen, outages>>

Request(p) ==
    \/ \E s \in Servers : \/ \E id \in Identifiers : Discover(p, s, id)
                          \/ \E ask \in Asks : Callback(p, s, ask)
    \/ ReadMinimum(p) \/ EstimateMinimum(p) \/ EstimateFails(p) \/ KeepMinimum(p)
    \/ ReadMode(p) \/ ReadModeFails(p) \/ CreateInvoice(p) \/ CreateFails(p) \/ Leave(p)

Next ==
    \/ \E p \in Payers : Request(p)
    \/ \E n \in Names : \E to \in Holdable[n] \cup {NULL} : ChangeRow(n, to)
    \/ \E a \in Accounts :
          \/ \E m \in {"anon", "enhanced"} : SetMode(a, m)
          \/ \E w \in Wallets : UpdateBlinkAccount(a, w)
    \/ \E r \in Rates : Drift(r)
    \/ \E s \in Servers : Lapse(s)

Spec == Init /\ [][Next]_vars

(***************************************************************************)
(* Properties.                                                             *)
(***************************************************************************)
Invoiced(p) == At(p, "done") /\ req[p].invoice # NULL

(* An offer stands: while the name keeps its recipient, Blink its rate and *)
(* nothing fails, an amount within the offer is not out of range and the   *)
(* callback finds the recipient, on whichever server and whatever other    *)
(* requests do to the kept minimum.                                        *)
OfferStands ==
    \A p \in Payers :
        /\ At(p, "done") /\ req[p].ask # NULL /\ req[p].ask.amount # NULL
        /\ req[p].ask.amount \in req[p].offer.min .. MaxSendable
        /\ Cardinality(held[p]) = 1 /\ drifts = 0 /\ outages = 0
        => req[p].result \notin {"range", "unknown"}

(* The payer gets the invoice of the offer: for the amount and with the    *)
(* metadata of the discovery unless the recipient changed since; for a zap *)
(* it commits to the zap request and pays what that says.  The provider    *)
(* was asked to pay someone who had the name since the callback began, in  *)
(* the wallet the address names, as long as the payer asked and less than  *)
(* a minute longer.                                                        *)
InvoiceAsAsked ==
    \A p \in Payers : Invoiced(p) =>
        LET invoice == req[p].invoice
            asked == req[p].asked
            ask == req[p].ask
        IN /\ invoice.amount = ask.amount
           /\ ask.zap # NULL =>
                invoice.hash = ZapHash /\ ask.zap.amount \in {NULL, invoice.amount}
           /\ ask.zap = NULL /\ Cardinality(held[p]) = 1
                => invoice.hash = req[p].offer.meta
           /\ \E to \in owners[p] : to # NULL /\ to.account = asked.account
           /\ req[p].offer.wallet # NULL => asked.wallet = req[p].offer.wallet
           /\ ask.expiry # NULL => asked.expiry \in ask.expiry .. ask.expiry + 59

(* No invoice is minted for an account that was anonymous from before the  *)
(* callback began: the mode is read for the account the name resolved to,  *)
(* and nothing is minted if it cannot be read.                             *)
NotForAnon ==
    \A p \in Payers : Invoiced(p) => req[p].asked.account \in receiving[p]
=============================================================================
