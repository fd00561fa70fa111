--------------------------- MODULE LnurlPayProofs ---------------------------
(***************************************************************************)
(* What a payer can rely on from the discovery to the invoice, for any     *)
(* number of payers, servers, names, accounts and rates, and however often *)
(* names, wallets, modes and rates change and providers fail.              *)
(***************************************************************************)
EXTENDS LnurlPay, FiniteSetTheorems, TLAPS

Modifier == Wallets \cup {NULL}
Ids == {CallbackIdentifier([name |-> n, wallet |-> w]) : n \in Names, w \in Modifier}
Offers == [url: {BuildCallbackUrl(id) : id \in Ids}, min: Nat,
           meta: [description: {1, 2}, identifier: Ids], wallet: Modifier]
Hashes == [description: {1, 2}, identifier: Ids] \cup {ZapHash}
Invoices == [hash: Hashes, amount: Nat]
Orders == [account: Accounts, wallet: Wallets, hash: Hashes, amount: Nat,
           expiry: Nat \cup {NULL}]
Pricing == {"minimum", "estimate", "keep"}
Results == {"unknown", "error", "anon", "amount", "range", "comment", "zap", "expiry"}
Req == [pc: {"idle", "offer", "mode", "create", "done"} \cup Pricing,
        at: Servers \cup {NULL}, name: Names \cup {NULL}, wallet: Modifier,
        offer: Offers \cup {NULL}, ask: Asks \cup {NULL}, to: Recipient \cup {NULL},
        usd: Nat, asked: Orders \cup {NULL}, invoice: Invoices \cup {NULL},
        result: Results \cup {"invoiced", NULL}]

(* Blink neither changed its rate nor failed so far.                       *)
Steady == drifts = 0 /\ outages = 0

(* What Blink's minimum is estimated at, and the least amount of an offer. *)
Estimate == IF (rate + 1) * 1000 > MaxU64 THEN Fallback ELSE (rate + 1) * 1000
Least(to, wallet) ==
    IF IsBlinkUsd([to |-> to, wallet |-> wallet]) THEN Greater(Estimate, MinSendable)
    ELSE MinSendable

Tables ==
    /\ row \in [Names -> Recipient \cup {NULL}]
    /\ mode \in [Accounts -> {NULL, "anon", "enhanced"}]
    /\ \A a \in Accounts : ProviderOf[a] = "blink" => mode[a] # "anon"
    /\ usdMin \in [Servers -> Nat \cup {NULL}]
    /\ Steady => \A s \in Servers : usdMin[s] \in {NULL, Estimate}
    /\ rate \in Rates /\ drifts \in Nat /\ outages \in Nat

(***************************************************************************)
(* What holds of a request R, given what its name resolved to since the    *)
(* discovery (H) and since the callback began (O), who was not anonymous   *)
(* since then (G), and whether Blink was steady.                           *)
(***************************************************************************)
Same(H) == \A x, y \in H : x = y

IdOf(R) == CallbackIdentifier([name |-> R.name, wallet |-> R.offer.wallet])

(* The identifier in the callback's URL is read back as it was meant.      *)
RoundTrip(n, w) ==
    ParsePublicIdentifier(CallbackIdentifier([name |-> n, wallet |-> w]))
      = [name |-> n, wallet |-> w]

(* The offer was computed from a recipient that the name had.              *)
OfferOK(steady, R, H) ==
    /\ R.name \in Names /\ R.offer \in Offers /\ row[R.name] \in H
    /\ RoundTrip(R.name, R.offer.wallet)
    /\ R.offer.url = BuildCallbackUrl(IdOf(R))
    /\ R.offer.min >= MinSendable
    /\ \E to \in H : /\ to \in Recipient
                     /\ R.offer.meta = Metadata(to, IdOf(R))
                     /\ steady => R.offer.min = Least(to, R.offer.wallet)

Here(R, H) ==
    /\ R.at \in Servers /\ R.name \in Names /\ R.to \in Recipient
    /\ R.to \in H /\ row[R.name] \in H /\ R.invoice = NULL

Called(steady, R, H, O, G) ==
    /\ OfferOK(steady, R, H) /\ R.wallet = R.offer.wallet /\ O # {}
    /\ \A a \in Accounts : mode[a] # "anon" => a \in G

(* A request whose least amount is being looked up.                        *)
Ready(steady, R, H, O, G) ==
    /\ Here(R, H)
    /\ R.ask = NULL => O = {} /\ RoundTrip(R.name, R.wallet)
    /\ R.ask # NULL => /\ Called(steady, R, H, O, G) /\ R.to \in O
                       /\ Refusal(R) = NULL /\ R.to.account \in G

Stands(steady, R, H) ==
    /\ steady /\ R.ask # NULL /\ R.ask.amount # NULL
    /\ R.ask.amount \in R.offer.min .. MaxSendable /\ Same(H)
    => R.result \notin {"range", "unknown"}

Minted(R, H, O, G) ==
    /\ R.asked.account \in G
    /\ \E to \in O : to # NULL /\ to.account = R.asked.account
    /\ R.offer.wallet # NULL => R.asked.wallet = R.offer.wallet
    /\ R.invoice.amount = R.ask.amount
    /\ R.ask.expiry # NULL => R.asked.expiry \in R.ask.expiry .. R.ask.expiry + 59
    /\ R.ask.zap # NULL =>
         R.invoice.hash = ZapHash /\ R.ask.zap.amount \in {NULL, R.invoice.amount}
    /\ R.ask.zap = NULL /\ Same(H) => R.invoice.hash = R.offer.meta

OK(steady, R, H, O, G) ==
    /\ R \in Req /\ IsFiniteSet(H)
    /\ R.pc = "idle" => R = Idle /\ O = {}
    /\ R.pc \in Pricing => Ready(steady, R, H, O, G)
    /\ R.pc = "keep" => (steady => R.usd = Estimate)
    /\ R.pc = "offer" => OfferOK(steady, R, H) /\ O = {} /\ R.ask = NULL /\ R.invoice = NULL
    /\ R.pc = "mode" => R.ask # NULL /\ Called(steady, R, H, O, G) /\ Here(R, H) /\ R.to \in O
    /\ R.pc = "create" => R.ask # NULL /\ Ready(steady, R, H, O, G)
    /\ R.pc = "done" => Stands(steady, R, H) /\ (R.invoice # NULL => Minted(R, H, O, G))

PayersOK == \A p \in Payers : OK(Steady, req[p], held[p], owners[p], receiving[p])

IInv ==
    /\ Tables /\ PayersOK
    /\ req \in [Payers -> Req] /\ DOMAIN held = Payers
    /\ DOMAIN owners = Payers /\ DOMAIN receiving = Payers

(* What the properties say, from what holds of every request.              *)
LEMMA Conclude == IInv => OfferStands /\ InvoiceAsAsked /\ NotForAnon
<1> SUFFICES ASSUME IInv
             PROVE  OfferStands /\ InvoiceAsAsked /\ NotForAnon
  OBVIOUS
<1>1. ASSUME NEW p \in Payers
      PROVE  /\ OK(Steady, req[p], held[p], owners[p], receiving[p])
             /\ IsFiniteSet(held[p])
             /\ Cardinality(held[p]) = 1 => Same(held[p])
  <2>1. OK(Steady, req[p], held[p], owners[p], receiving[p])
    BY DEF IInv, PayersOK
  <2>2. IsFiniteSet(held[p])
    BY <2>1 DEF OK
  <2>3. ASSUME Cardinality(held[p]) = 1
        PROVE  Same(held[p])
    <3>1. \E x : held[p] = {x}
      BY <2>2, <2>3, FS_Singleton
    <3> QED
      BY <3>1 DEF Same
  <2> QED
    BY <2>1, <2>2, <2>3
<1>2. OfferStands
  BY <1>1 DEF OfferStands, OK, Stands, Steady, At
<1>3. ASSUME NEW p \in Payers, Invoiced(p)
      PROVE  Minted(req[p], held[p], owners[p], receiving[p])
  BY <1>1, <1>3 DEF OK, Invoiced, At
<1>4. InvoiceAsAsked
  BY <1>1, <1>3 DEF InvoiceAsAsked, Minted
<1>5. NotForAnon
  BY <1>3 DEF NotForAnon, Minted
<1> QED
  BY <1>2, <1>4, <1>5

(***************************************************************************)
(* The operators.                                                          *)
(***************************************************************************)
LEMMA Constants ==
    /\ ProviderOf \in [Accounts -> {"spark", "blink"}]
    /\ NULL \notin Recipient /\ NULL \notin Asks /\ NULL \notin Nat /\ NULL \notin Wallets
    /\ Asks \subseteq Ask /\ MinSendable \in Nat /\ MaxSendable \in Nat
    /\ Fallback \in Nat /\ MaxU64 \in Nat /\ Rates \subseteq Nat
  BY RecipientAssumption, NumberAssumption, AskAssumption

(* What is parsed from an identifier is parsed again from the one that the *)
(* callback's URL carries: the spelling and the modifier survive.          *)
LEMMA ParsedAgain ==
    ASSUME NEW id, NEW i, i = ParsePublicIdentifier(id), i # NULL
    PROVE  RoundTrip(i.name, i.wallet) /\ i.wallet \in Modifier
<1> USE AskAssumption DEF Modifier, Wallets
<1>1. CASE LegacyCandidate(id)
  <2>1. i = [name |-> "legacy", wallet |-> NULL]
    BY <1>1 DEF ParsePublicIdentifier
  <2> QED
    BY <2>1 DEF RoundTrip, ParsePublicIdentifier, CallbackIdentifier, LegacyCandidate
<1>2. CASE ~LegacyCandidate(id)
  <2> DEFINE w == SplitFinalWalletModifier(id)
  <2>1. w \in Modifier \cup {"invalid"}
    BY DEF SplitFinalWalletModifier
  <2>2. /\ w # "invalid" /\ id.base \notin {"legacy", "badphone"}
        /\ i = [name |-> id.base, wallet |-> w] /\ id.base # NULL
    BY <1>2 DEF ParsePublicIdentifier, ParseIdentifier, Checked
  <2> HIDE DEF w
  <2> DEFINE c == CallbackIdentifier(i)
  <2>3. /\ c.base = id.base
        /\ c.mods = IF w = NULL THEN <<>> ELSE <<w>>
    BY <2>2 DEF CallbackIdentifier
  <2>4. c = CallbackIdentifier([name |-> i.name, wallet |-> i.wallet])
    BY <2>2
  <2> HIDE DEF c
  <2>5. SplitFinalWalletModifier(c) = w
    <3>1. CASE w = NULL
      BY <2>3, <3>1 DEF SplitFinalWalletModifier
    <3>2. CASE w # NULL
      <4>1. c.mods = <<w>> /\ w \in Wallets
        BY <2>1, <2>2, <2>3, <3>2
      <4>2. Len(c.mods) = 1 /\ c.mods[1] = w /\ c.mods # <<>>
        BY <4>1
      <4> QED
        BY <4>1, <4>2 DEF SplitFinalWalletModifier
    <3> QED
      BY <3>1, <3>2
  <2>6. ParsePublicIdentifier(c) = [name |-> id.base, wallet |-> w]
    BY <2>2, <2>3, <2>5 DEF ParsePublicIdentifier, ParseIdentifier, Checked, LegacyCandidate
  <2> QED
    BY <2>1, <2>2, <2>4, <2>6 DEF RoundTrip
<1> QED
  BY <1>1, <1>2

(* The callback's URL leads back to the domain of the discovery.           *)
LEMMA DomainAgain ==
    ASSUME NEW id
    PROVE  DomainOfCallback(BuildCallbackUrl(id)) = Domain /\ BuildCallbackUrl(id).id = id
  BY AskAssumption DEF DomainOfCallback, BuildCallbackUrl

LEMMA EstimateType == Tables => Estimate \in Nat
<1> SUFFICES ASSUME Tables
             PROVE  Estimate \in Nat
  OBVIOUS
<1>1. rate \in Nat
  BY Constants DEF Tables
<1>2. (rate + 1) * 1000 \in Nat
  BY <1>1
<1> QED
  BY <1>2, Constants DEF Estimate

(* What is refused depends on these fields alone.                          *)
LEMMA SameRefusal ==
    ASSUME NEW q, NEW r, q.ask = r.ask, q.at = r.at, q.to = r.to, q.wallet = r.wallet
    PROVE  Refusal(q) = Refusal(r) /\ IsBlinkUsd(q) = IsBlinkUsd(r)
  BY DEF Refusal, IsBlinkUsd, TooLong, Wallet

(* A request that is not refused has an amount within the configured range *)
(* and, if it is a zap, pays what the zap request says.                    *)
LEMMA Admitted ==
    ASSUME NEW r \in Req, r.ask # NULL, Refusal(r) = NULL
    PROVE  /\ r.ask \in Ask /\ r.ask.amount \in MinSendable .. MaxSendable
           /\ r.ask.zap # NULL => r.ask.zap.amount \in {NULL, r.ask.amount}
<1>1. r.ask \in Ask
  BY Constants DEF Req
<1>2. /\ r.ask.amount \in Nat /\ ~TooLittle(r.ask.amount, MinSendable)
      /\ ~(r.ask.amount > MaxSendable)
      /\ r.ask.zap # NULL => ValidateZapRequest(r.ask.amount, r.ask.zap)
  BY <1>1, AskAssumption DEF Refusal, Ask
<1> QED
  BY <1>1, <1>2, Constants DEF TooLittle, ValidateZapRequest

LEMMA RefusedFor ==
    ASSUME NEW r
    PROVE  Refusal(r) \in {"amount", "range", "comment", "zap", "expiry", NULL}
  BY DEF Refusal

(***************************************************************************)
(* Steps.                                                                  *)
(***************************************************************************)

(* What the world may do to a request that does not move: what was seen    *)
(* accumulates.                                                            *)
Accrues(R, H, O, G, H2, O2, G2) ==
    /\ H \subseteq H2 /\ IsFiniteSet(H2) /\ O \subseteq O2 /\ (O = {} <=> O2 = {})
    /\ G \subseteq G2
    /\ R.name \in Names /\ row[R.name] \in H => row'[R.name] \in H2
    /\ O # {} /\ (\A a \in Accounts : mode[a] # "anon" => a \in G)
         => \A a \in Accounts : mode'[a] # "anon" => a \in G2

LEMMA WorldMoves ==
    ASSUME NEW st \in BOOLEAN, NEW st2 \in BOOLEAN, st2 => st /\ UNCHANGED rate,
           NEW R, NEW H, NEW O, NEW G, NEW H2, NEW O2, NEW G2,
           OK(st, R, H, O, G), Accrues(R, H, O, G, H2, O2, G2)
    PROVE  OK(st2, R, H2, O2, G2)'
<1> USE DEF Accrues
<1>1. OfferOK(st, R, H) => OfferOK(st2, R, H2)'
  <2> SUFFICES ASSUME OfferOK(st, R, H)
               PROVE  OfferOK(st2, R, H2)'
    OBVIOUS
  <2>1. PICK to \in H : /\ to \in Recipient /\ R.offer.meta = Metadata(to, IdOf(R))
                        /\ st => R.offer.min = Least(to, R.offer.wallet)
    BY DEF OfferOK
  <2>2. st2 => Least(to, R.offer.wallet)' = Least(to, R.offer.wallet)
    BY DEF Least, Estimate
  <2>3. to \in H2 /\ row'[R.name] \in H2
    BY DEF OfferOK
  <2> QED
    BY <2>1, <2>2, <2>3 DEF OfferOK
<1>2. Here(R, H) => Here(R, H2)'
  BY DEF Here
<1>3. Called(st, R, H, O, G) => Called(st2, R, H2, O2, G2)'
  BY <1>1 DEF Called
<1>4. Ready(st, R, H, O, G) => Ready(st2, R, H2, O2, G2)'
  BY <1>2, <1>3 DEF Ready
<1>5. Same(H2) => Same(H)
  BY DEF Same
<1>6. Stands(st, R, H) => Stands(st2, R, H2)'
  BY <1>5 DEF Stands
<1>7. Minted(R, H, O, G) => Minted(R, H2, O2, G2)'
  BY <1>5 DEF Minted
<1>8. st2 /\ R.usd = Estimate => R.usd = Estimate'
  BY DEF Estimate
<1> QED
  BY <1>1, <1>2, <1>3, <1>4, <1>6, <1>7, <1>8 DEF OK

(* What was seen for one payer becomes this, and stays for the others.     *)
Seen(p, h, o, g) ==
    /\ DOMAIN held' = Payers /\ DOMAIN owners' = Payers /\ DOMAIN receiving' = Payers
    /\ held'[p] = h /\ owners'[p] = o /\ receiving'[p] = g
    /\ \A q \in Payers \ {p} :
          held'[q] = held[q] /\ owners'[q] = owners[q] /\ receiving'[q] = receiving[q]

(* A step of one payer.  Whether Blink was steady is the only thing that   *)
(* may change for the others.                                              *)
LEMMA PayerMoves ==
    ASSUME IInv, NEW p \in Payers, NEW r, NEW h, NEW o, NEW g, NEW st2 \in BOOLEAN,
           req' = [req EXCEPT ![p] = r], Seen(p, h, o, g),
           UNCHANGED <<row, mode, rate, drifts>>, Tables',
           st2 = Steady', st2 => Steady, OK(st2, r, h, o, g)
    PROVE  IInv'
<1> SUFFICES ASSUME NEW st \in BOOLEAN, st = Steady
             PROVE  IInv'
  BY DEF Steady
<1>1. ASSUME NEW q \in Payers
      PROVE  OK(Steady, req[q], held[q], owners[q], receiving[q])'
  <2>1. CASE q = p
    <3>1. Accrues(r, h, o, g, h, o, g)
      BY DEF Accrues, OK
    <3>2. OK(st2, r, h, o, g)'
      BY <3>1, WorldMoves
    <3>3. req'[q] = r /\ held'[q] = h /\ owners'[q] = o /\ receiving'[q] = g
      BY <2>1 DEF IInv, Seen
    <3> QED
      BY <3>2, <3>3
  <2>2. CASE q # p
    <3>1. OK(Steady, req[q], held[q], owners[q], receiving[q])
      BY DEF IInv, PayersOK
    <3> SUFFICES ASSUME NEW R, NEW H, NEW O, NEW G, R = req[q], H = held[q],
                        O = owners[q], G = receiving[q]
                 PROVE  OK(Steady, req[q], held[q], owners[q], receiving[q])'
      OBVIOUS
    <3>2. OK(st, R, H, O, G) /\ Accrues(R, H, O, G, H, O, G)
      BY <3>1 DEF Accrues, OK
    <3>3. OK(st2, R, H, O, G)'
      BY <3>2, WorldMoves
    <3>4. req'[q] = R /\ held'[q] = H /\ owners'[q] = O /\ receiving'[q] = G
      BY <2>2 DEF IInv, Seen
    <3> QED
      BY <3>3, <3>4
  <2> QED
    BY <2>1, <2>2
<1>2. r \in Req
  BY DEF OK
<1> QED
  BY <1>1, <1>2 DEF IInv, PayersOK, Seen

(* A step of the world.                                                    *)
LEMMA NobodyMoves ==
    ASSUME IInv, UNCHANGED req, Tables', Steady' => Steady /\ UNCHANGED rate,
           DOMAIN held' = Payers, DOMAIN owners' = Payers, DOMAIN receiving' = Payers,
           \A q \in Payers : Accrues(req[q], held[q], owners[q], receiving[q],
                                     held'[q], owners'[q], receiving'[q])
    PROVE  IInv'
<1> SUFFICES ASSUME NEW st \in BOOLEAN, NEW st2 \in BOOLEAN, st = Steady, st2 = Steady'
             PROVE  IInv'
  BY DEF Steady
<1>1. ASSUME NEW q \in Payers
      PROVE  OK(Steady, req[q], held[q], owners[q], receiving[q])'
  <2> SUFFICES ASSUME NEW R, NEW H, NEW O, NEW G, NEW H2, NEW O2, NEW G2,
                      R = req[q], H = held[q], O = owners[q], G = receiving[q],
                      H2 = held'[q], O2 = owners'[q], G2 = receiving'[q]
               PROVE  OK(Steady, req[q], held[q], owners[q], receiving[q])'
    OBVIOUS
  <2>1. OK(st, R, H, O, G) /\ Accrues(R, H, O, G, H2, O2, G2)
    BY DEF IInv, PayersOK
  <2>2. OK(st2, R, H2, O2, G2)'
    BY <2>1, WorldMoves
  <2> QED
    BY <2>2
<1> QED
  BY <1>1 DEF IInv, PayersOK

(* Decide as a function.                                                   *)
Outcome(r, usd) ==
    LET min == IF IsBlinkUsd(r) THEN Greater(usd, MinSendable) ELSE MinSendable
    IN IF r.ask = NULL
       THEN IF min > MaxSendable THEN [r EXCEPT !.pc = "done", !.result = "error"]
            ELSE [Idle EXCEPT !.pc = "offer", !.name = r.name, !.offer = Offer(r, min)]
       ELSE IF TooLittle(r.ask.amount, min)
            THEN [r EXCEPT !.pc = "done", !.result = "range"]
            ELSE [r EXCEPT !.pc = "create", !.usd = 0]

LEMMA DecideOutcome ==
    ASSUME NEW p, NEW r, NEW usd, Decide(p, r, usd)
    PROVE  req' = [req EXCEPT ![p] = Outcome(r, usd)]
  BY DEF Decide, Outcome, Become

LEMMA IdleType == Idle \in Req
  BY DEF Idle, Req, Modifier

(* The fields that Ready and Called look at.                               *)
Alike(q, r) ==
    /\ q.ask = r.ask /\ q.at = r.at /\ q.to = r.to /\ q.wallet = r.wallet
    /\ q.name = r.name /\ q.offer = r.offer /\ q.invoice = r.invoice

LEMMA ReadyAlike ==
    ASSUME NEW q, NEW r, Alike(q, r), NEW st, NEW H, NEW O, NEW G
    PROVE  /\ Ready(st, r, H, O, G) => Ready(st, q, H, O, G)
           /\ Called(st, r, H, O, G) => Called(st, q, H, O, G)
           /\ OfferOK(st, r, H) => OfferOK(st, q, H)
           /\ Here(r, H) => Here(q, H)
<1>1. OfferOK(st, r, H) => OfferOK(st, q, H)
  BY DEF OfferOK, IdOf, Alike
<1>2. Here(r, H) => Here(q, H)
  BY DEF Here, Alike
<1>3. Called(st, r, H, O, G) => Called(st, q, H, O, G)
  BY <1>1 DEF Called, Alike
<1>4. Refusal(q) = Refusal(r)
  BY SameRefusal DEF Alike
<1> QED
  BY <1>1, <1>2, <1>3, <1>4 DEF Ready, Alike

(* A discovery ends with an offer of the least amount.                     *)
LEMMA OfferMade ==
    ASSUME NEW st \in BOOLEAN, NEW r \in Req, NEW H, NEW O, NEW G, IsFiniteSet(H),
           Ready(st, r, H, O, G), r.ask = NULL,
           NEW min \in Nat, min >= MinSendable, st => min = Least(r.to, r.wallet)
    PROVE  OK(st, [Idle EXCEPT !.pc = "offer", !.name = r.name, !.offer = Offer(r, min)],
              H, O, G)
<1> DEFINE f == Offer(r, min)
           q == [Idle EXCEPT !.pc = "offer", !.name = r.name, !.offer = f]
           id == CallbackIdentifier([name |-> r.name, wallet |-> r.wallet])
<1>1. /\ Here(r, H) /\ O = {} /\ RoundTrip(r.name, r.wallet)
      /\ r.name \in Names /\ r.to \in Recipient /\ r.to \in H /\ row[r.name] \in H
      /\ r.wallet \in Modifier
  BY DEF Ready, Here, Req
<1>2. id \in Ids
  BY <1>1 DEF Ids
<1>3. f = [url |-> BuildCallbackUrl(id), min |-> min, meta |-> Metadata(r.to, id),
           wallet |-> r.wallet]
  BY DEF Offer
<1>4. Metadata(r.to, id) \in [description: {1, 2}, identifier: Ids]
  BY <1>1, <1>2 DEF Metadata, Recipient
<1> HIDE DEF id
<1>5. f \in Offers
  BY <1>1, <1>2, <1>3, <1>4 DEF Offers
<1> HIDE DEF f
<1>6. /\ q \in Req /\ q.pc = "offer" /\ q.name = r.name /\ q.offer = f
      /\ q.ask = NULL /\ q.invoice = NULL
  <2>1. Idle \in Req /\ Idle.ask = NULL /\ Idle.invoice = NULL
    BY IdleType DEF Idle
  <2> QED
    BY <1>1, <1>5, <2>1 DEF Req
<1> HIDE DEF q
<1>7. IdOf(q) = id
  BY <1>3, <1>6 DEF IdOf, id
<1>8. OfferOK(st, q, H)
  BY <1>1, <1>3, <1>5, <1>6, <1>7 DEF OfferOK
<1>9. OK(st, q, H, O, G)
  BY <1>1, <1>6, <1>8 DEF OK, Pricing
<1> QED
  BY <1>9 DEF q, f

(* A callback is refused for its amount only if the offer, made for        *)
(* another recipient, at another rate or in an outage, was for less.       *)
LEMMA Decided ==
    ASSUME Tables, NEW st \in BOOLEAN, NEW r \in Req, NEW H, NEW O, NEW G, IsFiniteSet(H),
           Ready(st, r, H, O, G), NEW usd \in Nat, st /\ IsBlinkUsd(r) => usd = Estimate
    PROVE  OK(st, Outcome(r, usd), H, O, G)
<1> USE DEF Results
<1> DEFINE min == IF IsBlinkUsd(r) THEN Greater(usd, MinSendable) ELSE MinSendable
<1>1. min \in Nat /\ min >= MinSendable
  BY Constants DEF Greater
<1>2. IsBlinkUsd([to |-> r.to, wallet |-> r.wallet]) = IsBlinkUsd(r)
  BY DEF IsBlinkUsd, Wallet
<1>3. st => min = Least(r.to, r.wallet)
  BY <1>2 DEF Least
<1>4. Outcome(r, usd) =
        IF r.ask = NULL
        THEN IF min > MaxSendable THEN [r EXCEPT !.pc = "done", !.result = "error"]
             ELSE [Idle EXCEPT !.pc = "offer", !.name = r.name, !.offer = Offer(r, min)]
        ELSE IF TooLittle(r.ask.amount, min)
             THEN [r EXCEPT !.pc = "done", !.result = "range"]
             ELSE [r EXCEPT !.pc = "create", !.usd = 0]
  BY DEF Outcome
<1> HIDE DEF min
<1>5. r.invoice = NULL
  BY DEF Ready, Here
<1>6. CASE r.ask = NULL /\ min > MaxSendable
  <2> DEFINE q == [r EXCEPT !.pc = "done", !.result = "error"]
  <2>1. q \in Req /\ q.pc = "done" /\ q.ask = NULL /\ q.invoice = NULL
    BY <1>5, <1>6 DEF Req
  <2>2. Outcome(r, usd) = q
    BY <1>4, <1>6
  <2> HIDE DEF q
  <2> QED
    BY <2>1, <2>2 DEF OK, Stands, Pricing
<1>7. CASE r.ask = NULL /\ ~(min > MaxSendable)
  <2> DEFINE q == [Idle EXCEPT !.pc = "offer", !.name = r.name, !.offer = Offer(r, min)]
  <2>1. OK(st, q, H, O, G)
    BY <1>1, <1>3, <1>7, OfferMade
  <2>2. Outcome(r, usd) = q
    BY <1>4, <1>7
  <2> HIDE DEF q
  <2> QED
    BY <2>1, <2>2
<1>8. ASSUME r.ask # NULL
      PROVE  r.ask.amount \in Nat
  BY <1>8, Admitted, Constants DEF Ready
<1>9. CASE r.ask # NULL /\ TooLittle(r.ask.amount, min)
  <2> DEFINE q == [r EXCEPT !.pc = "done", !.result = "range"]
  <2>1. /\ q \in Req /\ q.pc = "done" /\ q.ask = r.ask /\ q.offer = r.offer
        /\ q.invoice = NULL
    BY <1>5 DEF Req
  <2>2. OfferOK(st, r, H) /\ r.wallet = r.offer.wallet /\ r.to \in H
    BY <1>9 DEF Ready, Called, Here
  <2>3. ASSUME st, Same(H)
        PROVE  r.offer.min = min
    BY <1>3, <2>2, <2>3 DEF OfferOK, Same
  <2>4. r.ask.amount < min
    BY <1>9 DEF TooLittle
  <2>5. Stands(st, q, H)
    BY <1>1, <1>8, <1>9, <2>1, <2>3, <2>4, Constants DEF Stands
  <2>6. Outcome(r, usd) = q
    BY <1>4, <1>9
  <2> HIDE DEF q
  <2> QED
    BY <2>1, <2>5, <2>6 DEF OK, Pricing
<1>10. CASE r.ask # NULL /\ ~TooLittle(r.ask.amount, min)
  <2> DEFINE q == [r EXCEPT !.pc = "create", !.usd = 0]
  <2>1. q \in Req /\ q.pc = "create" /\ Alike(q, r)
    BY DEF Req, Alike
  <2>2. Outcome(r, usd) = q
    BY <1>4, <1>10
  <2> HIDE DEF q
  <2>3. Ready(st, q, H, O, G) /\ q.ask # NULL
    BY <1>10, <2>1, ReadyAlike DEF Alike
  <2> QED
    BY <2>1, <2>2, <2>3 DEF OK, Pricing
<1> QED
  BY <1>6, <1>7, <1>9, <1>10

(***************************************************************************)
(* The actions of a payer.                                                 *)
(***************************************************************************)
Of(p, st, R, H, O, G) ==
    /\ st = Steady /\ R = req[p] /\ H = held[p] /\ O = owners[p] /\ G = receiving[p]

LEMMA OfOK ==
    ASSUME IInv, NEW p \in Payers, NEW st, NEW R, NEW H, NEW O, NEW G,
           Of(p, st, R, H, O, G)
    PROVE  OK(st, R, H, O, G) /\ R \in Req /\ IsFiniteSet(H)
<1>1. OK(Steady, req[p], held[p], owners[p], receiving[p])
  BY DEF IInv, PayersOK
<1>2. OK(st, R, H, O, G)
  BY <1>1 DEF Of
<1> QED
  BY <1>2 DEF OK

(* A step that only moves the request.                                     *)
LEMMA Moves ==
    ASSUME IInv, NEW p \in Payers, NEW st \in BOOLEAN, NEW R, NEW H, NEW O, NEW G,
           Of(p, st, R, H, O, G), UNCHANGED <<world, seen, usdMin, outages>>,
           NEW r, req' = [req EXCEPT ![p] = r], OK(st, r, H, O, G)
    PROVE  IInv'
<1>1. Tables' /\ UNCHANGED <<row, mode, rate, drifts>>
  BY DEF IInv, Tables, Steady, Estimate, world
<1>2. Steady' = Steady
  BY DEF Steady, world
<1>3. Seen(p, H, O, G)
  BY DEF Seen, seen, Of, IInv
<1> QED
  BY <1>1, <1>2, <1>3, PayerMoves DEF Of

(* A step in which the database or Blink fails.                            *)
LEMMA MovesInOutage ==
    ASSUME IInv, NEW p \in Payers, NEW st \in BOOLEAN, NEW R, NEW H, NEW O, NEW G,
           Of(p, st, R, H, O, G), UNCHANGED <<world, seen, usdMin>>, outages' = outages + 1,
           NEW r, req' = [req EXCEPT ![p] = r], OK(FALSE, r, H, O, G)
    PROVE  IInv'
<1>1. outages' \in Nat \ {0}
  BY DEF IInv, Tables
<1>2. Steady' = FALSE
  BY <1>1 DEF Steady
<1>3. Tables' /\ UNCHANGED <<row, mode, rate, drifts>>
  BY <1>1, <1>2 DEF IInv, Tables, world
<1>4. Seen(p, H, O, G)
  BY DEF Seen, seen, Of, IInv
<1> QED
  BY <1>2, <1>3, <1>4, PayerMoves

LEMMA Weaker ==
    ASSUME NEW st, NEW R, NEW H, NEW O, NEW G, Ready(st, R, H, O, G)
    PROVE  Ready(FALSE, R, H, O, G)
  BY DEF Ready, Called, OfferOK

(* A request that ends without an invoice.                                 *)
LEMMA Ends ==
    ASSUME NEW st, NEW R \in Req, NEW H, NEW O, NEW G, IsFiniteSet(H), R.invoice = NULL,
           NEW x \in Results,
           x \in {"unknown", "range"} => Stands(st, [R EXCEPT !.pc = "done", !.result = x], H)
    PROVE  OK(st, [R EXCEPT !.pc = "done", !.result = x], H, O, G)
<1> DEFINE q == [R EXCEPT !.pc = "done", !.result = x]
<1>1. q \in Req /\ q.pc = "done" /\ q.invoice = NULL /\ q.result = x
  BY DEF Req
<1> HIDE DEF q
<1>2. Stands(st, q, H)
  <2>1. CASE x \in {"unknown", "range"}
    BY <2>1 DEF q
  <2>2. CASE x \notin {"unknown", "range"}
    BY <1>1, <2>2 DEF Stands
  <2> QED
    BY <2>1, <2>2
<1>3. OK(st, q, H, O, G)
  BY <1>1, <1>2 DEF OK, Pricing
<1> QED
  BY <1>3 DEF q

LEMMA EndIs ==
    ASSUME IInv, NEW p \in Payers, NEW R, R = req[p], NEW x, End(p, x)
    PROVE  req' = [req EXCEPT ![p] = [R EXCEPT !.pc = "done", !.result = x]]
  BY DEF IInv, End

(* resolve_min_sendable_msat for a request that may go on.                 *)
LEMMA Resolved ==
    ASSUME Tables, NEW st \in BOOLEAN, NEW r \in Req, NEW H, NEW O, NEW G, IsFiniteSet(H),
           Ready(st, r, H, O, G), NEW p, ResolveMinSendable(p, r)
    PROVE  \E q : req' = [req EXCEPT ![p] = q] /\ OK(st, q, H, O, G)
<1>1. CASE IsBlinkUsd(r)
  <2> DEFINE q == [r EXCEPT !.pc = "minimum"]
  <2>1. req' = [req EXCEPT ![p] = q]
    BY <1>1 DEF ResolveMinSendable, Become
  <2>2. q \in Req /\ q.pc = "minimum" /\ Alike(q, r)
    BY DEF Req, Alike, Pricing
  <2> HIDE DEF q
  <2>3. Ready(st, q, H, O, G)
    BY <2>2, ReadyAlike
  <2>4. OK(st, q, H, O, G)
    BY <2>2, <2>3 DEF OK, Pricing
  <2> QED
    BY <2>1, <2>4
<1>2. CASE ~IsBlinkUsd(r)
  <2>1. Decide(p, r, 0)
    BY <1>2 DEF ResolveMinSendable
  <2>2. req' = [req EXCEPT ![p] = Outcome(r, 0)]
    BY <2>1, DecideOutcome
  <2>3. OK(st, Outcome(r, 0), H, O, G)
    BY <1>2, Decided
  <2> QED
    BY <2>2, <2>3
<1> QED
  BY <1>1, <1>2

(* BlinkProvider::usd_min_sendable_msat                                    *)
LEMMA PricingKeeps ==
    ASSUME IInv, NEW p \in Payers,
           ReadMinimum(p) \/ EstimateMinimum(p) \/ EstimateFails(p) \/ KeepMinimum(p)
    PROVE  IInv'
<1> SUFFICES ASSUME NEW st \in BOOLEAN, NEW R, NEW H, NEW O, NEW G, Of(p, st, R, H, O, G)
             PROVE  IInv'
  BY DEF Of, Steady
<1>1. /\ OK(st, R, H, O, G) /\ R \in Req /\ IsFiniteSet(H) /\ R = req[p] /\ st = Steady
      /\ Tables
  BY OfOK DEF Of, IInv
<1>2. R.pc \in Pricing
  BY <1>1 DEF ReadMinimum, EstimateMinimum, EstimateFails, KeepMinimum, At, Pricing
<1>3. Ready(st, R, H, O, G) /\ R.at \in Servers
  BY <1>1, <1>2 DEF OK, Ready, Here
<1>4. Estimate \in Nat
  BY <1>1, EstimateType
<1>5. CASE ReadMinimum(p)
  <2>1. UNCHANGED <<world, seen, usdMin, outages>>
    BY <1>5 DEF ReadMinimum
  <2>2. CASE usdMin[R.at] # NULL
    <3> SUFFICES ASSUME NEW u, u = usdMin[R.at]
                 PROVE  IInv'
      OBVIOUS
    <3>1. u \in Nat /\ (st => u = Estimate)
      BY <1>1, <1>3, <2>2 DEF Tables
    <3>2. Decide(p, R, u)
      BY <1>1, <1>5, <2>2 DEF ReadMinimum
    <3> DEFINE r == Outcome(R, u)
    <3>3. req' = [req EXCEPT ![p] = r] /\ OK(st, r, H, O, G)
      BY <1>1, <1>3, <3>1, <3>2, DecideOutcome, Decided
    <3> HIDE DEF r
    <3> QED
      BY <2>1, <3>3, Moves
  <2>3. CASE usdMin[R.at] = NULL
    <3> DEFINE r == [R EXCEPT !.pc = "estimate"]
    <3>1. req' = [req EXCEPT ![p] = r]
      BY <1>1, <1>5, <2>3 DEF ReadMinimum, Goto, IInv
    <3>2. r \in Req /\ r.pc = "estimate" /\ Alike(r, R)
      BY <1>1 DEF Req, Pricing, Alike
    <3> HIDE DEF r
    <3>3. Ready(st, r, H, O, G)
      BY <1>3, <3>2, ReadyAlike
    <3>4. OK(st, r, H, O, G)
      BY <1>1, <3>2, <3>3 DEF OK, Pricing
    <3> QED
      BY <2>1, <3>1, <3>4, Moves
  <2> QED
    BY <2>2, <2>3
<1>6. CASE EstimateMinimum(p)
  <2> DEFINE msat == (rate + 1) * 1000
  <2>1. UNCHANGED <<world, seen, usdMin, outages>>
    BY <1>6 DEF EstimateMinimum
  <2>2. CASE msat > MaxU64
    <3>1. Decide(p, R, Fallback) /\ Fallback = Estimate
      BY <1>1, <1>6, <2>2 DEF EstimateMinimum, Estimate
    <3> DEFINE r == Outcome(R, Fallback)
    <3>2. req' = [req EXCEPT ![p] = r] /\ OK(st, r, H, O, G)
      BY <1>1, <1>3, <3>1, DecideOutcome, Decided, Constants
    <3> HIDE DEF r
    <3> QED
      BY <2>1, <3>2, Moves
  <2>3. CASE ~(msat > MaxU64)
    <3> SUFFICES ASSUME NEW u, u = msat
                 PROVE  IInv'
      OBVIOUS
    <3> DEFINE r == [R EXCEPT !.pc = "keep", !.usd = u]
    <3>1. req' = [req EXCEPT ![p] = r]
      BY <1>1, <1>6, <2>3 DEF EstimateMinimum, Become
    <3>2. u = Estimate /\ u \in Nat
      BY <1>4, <2>3 DEF Estimate
    <3>3. r \in Req /\ r.pc = "keep" /\ Alike(r, R) /\ r.usd = u
      BY <1>1, <3>2 DEF Req, Pricing, Alike
    <3> HIDE DEF r
    <3>4. Ready(st, r, H, O, G)
      BY <1>3, <3>3, ReadyAlike
    <3>5. OK(st, r, H, O, G)
      BY <1>1, <3>2, <3>3, <3>4 DEF OK, Pricing
    <3> QED
      BY <2>1, <3>1, <3>5, Moves
  <2> QED
    BY <2>2, <2>3
<1>7. CASE EstimateFails(p)
  <2>1. /\ UNCHANGED <<world, seen, usdMin>> /\ outages' = outages + 1
        /\ Decide(p, R, Fallback)
    BY <1>1, <1>7 DEF EstimateFails
  <2>2. Ready(FALSE, R, H, O, G)
    BY <1>3, Weaker
  <2> DEFINE r == Outcome(R, Fallback)
  <2>3. req' = [req EXCEPT ![p] = r] /\ OK(FALSE, r, H, O, G)
    BY <1>1, <2>1, <2>2, DecideOutcome, Decided, Constants
  <2> HIDE DEF r
  <2> QED
    BY <2>1, <2>3, MovesInOutage
<1>8. CASE KeepMinimum(p)
  <2>1. /\ UNCHANGED <<world, seen, outages>> /\ usdMin' = [usdMin EXCEPT ![R.at] = R.usd]
        /\ Decide(p, R, R.usd)
    BY <1>1, <1>8 DEF KeepMinimum
  <2>2. R.usd \in Nat /\ (st => R.usd = Estimate)
    BY <1>1, <1>8 DEF OK, KeepMinimum, At, Req
  <2>3. UNCHANGED <<row, mode, rate, drifts>> /\ Steady' = Steady /\ Estimate' = Estimate
    BY <2>1 DEF world, Steady, Estimate
  <2>4. Tables'
    BY <1>1, <2>1, <2>2, <2>3 DEF Tables
  <2>5. Seen(p, H, O, G)
    BY <2>1 DEF Seen, seen, Of, IInv
  <2> DEFINE r == Outcome(R, R.usd)
  <2>6. req' = [req EXCEPT ![p] = r] /\ OK(st, r, H, O, G)
    BY <1>1, <1>3, <2>1, <2>2, DecideOutcome, Decided
  <2> HIDE DEF r
  <2> QED
    BY <1>1, <2>3, <2>4, <2>5, <2>6, PayerMoves
<1> QED
  BY <1>5, <1>6, <1>7, <1>8

(* handle_lnurl_pay                                                        *)
LEMMA DiscoverKeeps ==
    ASSUME IInv, NEW p \in Payers, NEW s \in Servers, NEW id, Discover(p, s, id)
    PROVE  IInv'
<1> SUFFICES ASSUME NEW st \in BOOLEAN, NEW R, NEW H, NEW O, NEW G, Of(p, st, R, H, O, G)
             PROVE  IInv'
  BY DEF Of, Steady
<1>1. /\ OK(st, R, H, O, G) /\ R \in Req /\ IsFiniteSet(H) /\ R = req[p] /\ st = Steady
      /\ Tables
  BY OfOK DEF Of, IInv
<1>2. R = Idle /\ O = {}
  BY <1>1 DEF Discover, At, OK
<1>3. UNCHANGED <<world, usdMin, owners, receiving, outages>>
  BY DEF Discover
<1>4. UNCHANGED <<row, mode, rate, drifts>> /\ Steady' = Steady /\ Tables'
  BY <1>1, <1>3 DEF world, Steady, Estimate, Tables
<1> DEFINE i == ParsePublicIdentifier(id)
<1> SUFFICES ASSUME NEW to, to = IF i = NULL THEN NULL ELSE Resolve(Domain, i.name)
             PROVE  IInv'
  OBVIOUS
<1>5. CASE to = NULL
  <2>1. End(p, "unknown") /\ UNCHANGED held
    BY <1>5 DEF Discover
  <2> DEFINE r == [R EXCEPT !.pc = "done", !.result = "unknown"]
  <2>2. req' = [req EXCEPT ![p] = r]
    BY <1>1, <2>1, EndIs
  <2>3. R.ask = NULL /\ R.invoice = NULL
    BY <1>2 DEF Idle
  <2>4. r.ask = NULL
    BY <1>1, <2>3 DEF Req
  <2>5. Stands(st, r, H)
    BY <2>4 DEF Stands
  <2>6. OK(st, r, H, O, G)
    BY <1>1, <2>3, <2>5, Ends DEF Results
  <2> HIDE DEF r
  <2> QED
    BY <1>3, <2>1, <2>2, <2>6, Moves DEF seen
<1>6. CASE to # NULL
  <2> DEFINE q == [Idle EXCEPT !.at = s, !.name = i.name, !.wallet = i.wallet, !.to = to]
  <2>1. ResolveMinSendable(p, q) /\ held' = [held EXCEPT ![p] = {to}]
    BY <1>6 DEF Discover
  <2>2. i # NULL /\ i.name \in Names /\ to = row[i.name] /\ to \in Recipient
    BY <1>1, <1>6 DEF Resolve, Tables
  <2>3. RoundTrip(i.name, i.wallet) /\ i.wallet \in Modifier
    BY <2>2, ParsedAgain
  <2>4. Idle \in Req /\ Idle.ask = NULL /\ Idle.invoice = NULL
    BY IdleType DEF Idle
  <2> HIDE DEF i
  <2>5. /\ q \in Req /\ q.at = s /\ q.name = i.name /\ q.wallet = i.wallet /\ q.to = to
        /\ q.ask = NULL /\ q.invoice = NULL
    BY <2>2, <2>3, <2>4 DEF Req
  <2> HIDE DEF q
  <2>6. Ready(st, q, {to}, O, G)
    BY <1>2, <2>2, <2>3, <2>5 DEF Ready, Here
  <2>7. IsFiniteSet({to})
    BY FS_Singleton
  <2>8. PICK r : req' = [req EXCEPT ![p] = r] /\ OK(st, r, {to}, O, G)
    BY <1>1, <2>1, <2>5, <2>6, <2>7, Resolved
  <2>9. Seen(p, {to}, O, G)
    BY <1>3, <2>1 DEF Seen, Of, IInv
  <2> QED
    BY <1>1, <1>4, <2>8, <2>9, PayerMoves
<1> QED
  BY <1>5, <1>6

LEMMA CallType ==
    ASSUME NEW R \in Req, NEW s \in Servers, NEW ask \in Asks, NEW w \in Modifier,
           NEW to \in Recipient \cup {NULL}
    PROVE  [R EXCEPT !.at = s, !.ask = ask, !.to = to, !.wallet = w] \in Req
<1> DEFINE q == [R EXCEPT !.at = s]
           x == [q EXCEPT !.ask = ask]
           y == [x EXCEPT !.to = to]
<1>1. q \in Req
  BY DEF Req
<1> HIDE DEF q
<1>2. x \in Req
  BY <1>1 DEF Req
<1> HIDE DEF x
<1>3. y \in Req
  BY <1>2 DEF Req
<1> HIDE DEF y
<1>4. [y EXCEPT !.wallet = w] \in Req
  BY <1>3 DEF Req
<1> QED
  BY <1>4 DEF q, x, y

(* handle_invoice_for_resolved_domain up to the mode: the name resolves to *)
(* what it has now, and if that is nobody it changed since the discovery.  *)
LEMMA CallbackKeeps ==
    ASSUME IInv, NEW p \in Payers, NEW s \in Servers, NEW ask \in Asks, Callback(p, s, ask)
    PROVE  IInv'
<1> SUFFICES ASSUME NEW st \in BOOLEAN, NEW R, NEW H, NEW O, NEW G, Of(p, st, R, H, O, G)
             PROVE  IInv'
  BY DEF Of, Steady
<1>1. /\ OK(st, R, H, O, G) /\ R \in Req /\ IsFiniteSet(H) /\ R = req[p] /\ st = Steady
      /\ Tables
  BY OfOK DEF Of, IInv
<1>2. OfferOK(st, R, H) /\ O = {} /\ R.invoice = NULL
  BY <1>1 DEF Callback, At, OK
<1>3. UNCHANGED <<world, usdMin, held, outages>>
  BY DEF Callback
<1>4. UNCHANGED <<row, mode, rate, drifts>> /\ Steady' = Steady /\ Tables'
  BY <1>1, <1>3 DEF world, Steady, Estimate, Tables
<1> SUFFICES ASSUME NEW to, to = row[R.name], NEW g, g = {a \in Accounts : mode[a] # "anon"}
             PROVE  IInv'
  OBVIOUS
<1> DEFINE q == [R EXCEPT !.at = s, !.ask = ask, !.to = to, !.wallet = R.offer.wallet]
           r == IF to = NULL THEN [q EXCEPT !.pc = "done", !.result = "unknown"]
                ELSE [q EXCEPT !.pc = "mode"]
<1>5. /\ req' = [req EXCEPT ![p] = r] /\ owners' = [owners EXCEPT ![p] = {to}]
      /\ receiving' = [receiving EXCEPT ![p] = g]
  <2> DEFINE url == R.offer.url
             i == ParsePublicIdentifier(url.id)
  <2>1. DomainOfCallback(url) = Domain /\ url.id = IdOf(R)
    BY <1>2, DomainAgain DEF OfferOK
  <2>2. i.name = R.name /\ i.wallet = R.offer.wallet
    BY <1>2, <2>1 DEF OfferOK, RoundTrip, IdOf
  <2>3. Resolve(DomainOfCallback(url), i.name) = to
    BY <1>2, <2>1, <2>2 DEF Resolve, OfferOK
  <2> QED
    BY <1>1, <2>2, <2>3 DEF Callback, Become
<1>6. /\ to \in Recipient \cup {NULL} /\ to \in H /\ R.offer \in Offers
      /\ R.name \in Names
  BY <1>1, <1>2 DEF OfferOK, Tables
<1>7. /\ q \in Req /\ q.at = s /\ q.ask = ask /\ q.to = to /\ q.wallet = R.offer.wallet
      /\ q.name = R.name /\ q.offer = R.offer /\ q.invoice = NULL
  <2>1. R.offer.wallet \in Modifier
    BY <1>6 DEF Offers
  <2>2. q \in Req
    BY <1>1, <1>6, <2>1, CallType
  <2> QED
    BY <1>1, <1>2, <2>2 DEF Req
<1> HIDE DEF q
<1>8. ASSUME NEW x, x.name = R.name, x.offer = R.offer
      PROVE  OfferOK(st, x, H)
  BY <1>2, <1>8 DEF OfferOK, IdOf
<1>9. OK(st, r, H, {to}, g)
  <2>1. CASE to = NULL
    <3> DEFINE x == [q EXCEPT !.pc = "done", !.result = "unknown"]
    <3>1. ~Same(H)
      BY <1>2, <1>6, <2>1, Constants DEF OfferOK, Same
    <3>2. Stands(st, x, H)
      BY <3>1 DEF Stands
    <3>3. OK(st, x, H, {to}, g)
      BY <1>1, <1>7, <3>2, Ends DEF Results
    <3>4. r = x
      BY <2>1
    <3> HIDE DEF x, r
    <3> QED
      BY <3>3, <3>4
  <2>2. CASE to # NULL
    <3>1. /\ r \in Req /\ r.pc = "mode" /\ r.at = s /\ r.ask = ask /\ r.to = to
          /\ r.wallet = R.offer.wallet /\ r.name = R.name /\ r.offer = R.offer
          /\ r.invoice = NULL
      BY <1>7, <2>2 DEF Req
    <3> HIDE DEF r
    <3>2. OfferOK(st, r, H)
      BY <1>8, <3>1
    <3>3. Called(st, r, H, {to}, g)
      BY <3>1, <3>2 DEF Called
    <3>4. Here(r, H)
      BY <1>6, <2>2, <3>1 DEF Here
    <3> QED
      BY <1>1, <3>1, <3>3, <3>4, Constants DEF OK, Pricing
  <2> QED
    BY <2>1, <2>2
<1>10. Seen(p, H, {to}, g)
  BY <1>3, <1>5 DEF Seen, Of, IInv
<1> HIDE DEF r
<1> QED
  BY <1>1, <1>4, <1>5, <1>9, <1>10, PayerMoves

LEMMA LeaveKeeps ==
    ASSUME IInv, NEW p \in Payers, Leave(p)
    PROVE  IInv'
<1>1. /\ req' = [req EXCEPT ![p] = Idle] /\ held' = [held EXCEPT ![p] = {}]
      /\ owners' = [owners EXCEPT ![p] = {}] /\ receiving' = [receiving EXCEPT ![p] = {}]
      /\ UNCHANGED <<world, usdMin, outages>>
  BY DEF Leave, Become
<1>2. UNCHANGED <<row, mode, rate, drifts>> /\ Steady' = Steady /\ Tables'
  BY <1>1 DEF world, Steady, Estimate, Tables, IInv
<1>3. Seen(p, {}, {}, {})
  BY <1>1 DEF Seen, IInv
<1> SUFFICES ASSUME NEW st \in BOOLEAN, st = Steady
             PROVE  IInv'
  BY DEF Steady
<1>4. Idle.pc = "idle"
  BY DEF Idle
<1>5. OK(st, Idle, {}, {}, {})
  BY <1>4, IdleType, FS_EmptySet DEF OK, Pricing
<1> QED
  BY <1>1, <1>2, <1>3, <1>5, PayerMoves

(* An amount within the offer is within the configured range.              *)
LEMMA RangeRefused ==
    ASSUME NEW st, NEW r \in Req, NEW H, r.ask # NULL, OfferOK(st, r, H),
           Refusal(r) = "range", r.ask.amount \in r.offer.min .. MaxSendable
    PROVE  FALSE
<1>1. r.offer.min \in Nat /\ r.offer.min >= MinSendable /\ r.ask \in Ask
  BY Constants DEF OfferOK, Offers, Req
<1>2. r.ask.amount \in Nat
  BY <1>1, Constants
<1>3. TooLittle(r.ask.amount, MinSendable) \/ r.ask.amount > MaxSendable
  BY AskAssumption DEF Refusal
<1> QED
  BY <1>1, <1>2, <1>3, Constants DEF TooLittle

(* The mode is read for the account that the name resolved to.             *)
LEMMA ReadModeKeeps ==
    ASSUME IInv, NEW p \in Payers, ReadMode(p) \/ ReadModeFails(p)
    PROVE  IInv'
<1> SUFFICES ASSUME NEW st \in BOOLEAN, NEW R, NEW H, NEW O, NEW G, Of(p, st, R, H, O, G)
             PROVE  IInv'
  BY DEF Of, Steady
<1>1. /\ OK(st, R, H, O, G) /\ R \in Req /\ IsFiniteSet(H) /\ R = req[p] /\ st = Steady
      /\ Tables
  BY OfOK DEF Of, IInv
<1>2. /\ R.ask # NULL /\ Called(st, R, H, O, G) /\ Here(R, H) /\ R.to \in O
      /\ R.invoice = NULL
  BY <1>1 DEF ReadMode, ReadModeFails, At, OK, Here
<1>3. R.to.account \in Accounts /\ OfferOK(st, R, H)
  BY <1>2 DEF Here, Called, Recipient
<1>4. CASE ReadModeFails(p)
  <2> DEFINE r == [R EXCEPT !.pc = "done", !.result = "error"]
  <2>1. /\ UNCHANGED <<world, seen, usdMin>> /\ outages' = outages + 1
        /\ End(p, "error")
    BY <1>4 DEF ReadModeFails
  <2>2. req' = [req EXCEPT ![p] = r]
    BY <1>1, <2>1, EndIs
  <2>3. OK(FALSE, r, H, O, G)
    BY <1>1, <1>2, Ends DEF Results
  <2> HIDE DEF r
  <2> QED
    BY <2>1, <2>2, <2>3, MovesInOutage
<1>5. CASE ReadMode(p)
  <2>1. UNCHANGED <<world, seen, usdMin, outages>>
    BY <1>5 DEF ReadMode
  <2>2. ASSUME NEW x \in Results, End(p, x),
               x = "range" => Stands(st, [R EXCEPT !.pc = "done", !.result = x], H),
               x # "unknown"
        PROVE  IInv'
    <3> DEFINE r == [R EXCEPT !.pc = "done", !.result = x]
    <3>1. req' = [req EXCEPT ![p] = r]
      BY <1>1, <2>2, EndIs
    <3>2. OK(st, r, H, O, G)
      BY <1>1, <1>2, <2>2, Ends
    <3> HIDE DEF r
    <3> QED
      BY <2>1, <3>1, <3>2, Moves
  <2>3. CASE ProviderOf[R.to.account] = "spark" /\ mode[R.to.account] = "anon"
    BY <1>1, <1>5, <2>2, <2>3 DEF ReadMode, Results
  <2>4. CASE ~(ProviderOf[R.to.account] = "spark" /\ mode[R.to.account] = "anon")
    <3>1. Proceed(p)
      BY <1>1, <1>5, <2>4 DEF ReadMode
    <3>2. mode[R.to.account] # "anon"
      BY <1>1, <1>3, <2>4, Constants DEF Tables
    <3>3. CASE Refusal(R) = NULL
      <4>1. ResolveMinSendable(p, R)
        BY <1>1, <3>1, <3>3 DEF Proceed
      <4>2. R.to.account \in G
        BY <1>2, <1>3, <3>2 DEF Called
      <4>3. Ready(st, R, H, O, G)
        BY <1>2, <3>3, <4>2 DEF Ready
      <4>4. PICK r : req' = [req EXCEPT ![p] = r] /\ OK(st, r, H, O, G)
        BY <1>1, <4>1, <4>3, Resolved
      <4> QED
        BY <2>1, <4>4, Moves
    <3>4. CASE Refusal(R) # NULL
      <4> SUFFICES ASSUME NEW x, x = Refusal(R)
                   PROVE  IInv'
        OBVIOUS
      <4>1. End(p, x)
        BY <1>1, <3>1, <3>4 DEF Proceed
      <4>2. x \in {"amount", "range", "comment", "zap", "expiry"}
        BY <3>4, RefusedFor
      <4>3. x \in Results /\ x # "unknown"
        BY <4>2 DEF Results
      <4>4. ASSUME x = "range"
            PROVE  Stands(st, [R EXCEPT !.pc = "done", !.result = x], H)
        <5> DEFINE q == [R EXCEPT !.pc = "done", !.result = x]
        <5>1. q.ask = R.ask /\ q.offer = R.offer
          BY <1>1 DEF Req
        <5>2. ~(R.ask.amount \in R.offer.min .. MaxSendable)
          BY <1>1, <1>2, <1>3, <4>4, RangeRefused
        <5> QED
          BY <5>1, <5>2 DEF Stands
      <4> QED
        BY <2>2, <4>1, <4>3, <4>4
    <3> QED
      BY <3>3, <3>4
  <2> QED
    BY <2>3, <2>4
<1> QED
  BY <1>4, <1>5

(* An answer that passes the check is the invoice that was asked for.      *)
LEMMA InvoiceChecked ==
    ASSUME NEW st, NEW r \in Req, NEW H, NEW O, NEW G, r.ask # NULL, Ready(st, r, H, O, G),
           Supported(r), NEW v \in ProviderInvoices(r), CheckInvoice(r, v),
           NEW q, q.offer = r.offer, q.ask = r.ask, q.invoice = v, q.asked = Wanted(r)
    PROVE  v \in Invoices /\ Wanted(r) \in Orders /\ Minted(q, H, O, G)
<1>1. /\ Called(st, r, H, O, G) /\ r.to \in O /\ r.to \in H /\ r.to \in Recipient
      /\ r.to.account \in G /\ r.to # NULL /\ Refusal(r) = NULL
  BY Constants DEF Ready, Here
<1>2. OfferOK(st, r, H) /\ r.wallet = r.offer.wallet /\ r.offer.wallet \in Modifier
  BY <1>1 DEF Called, OfferOK, Offers
<1>3. /\ r.ask \in Ask /\ r.ask.amount \in Nat
      /\ r.ask.zap # NULL => r.ask.zap.amount \in {NULL, r.ask.amount}
  BY <1>1, Admitted, Constants
<1>4. r.offer.url.id = IdOf(r) /\ IdOf(r) \in Ids
  BY <1>2, DomainAgain DEF OfferOK, IdOf, Ids
<1>5. r.to.account \in Accounts /\ r.to.description \in {1, 2} /\ r.to.default \in Modifier
  BY <1>1 DEF Recipient, Modifier
<1> DEFINE blink == ProviderOf[r.to.account] = "blink"
           expiry == IF blink /\ r.ask.expiry # NULL THEN 60 * ExpiryMinutes(r.ask.expiry)
                     ELSE r.ask.expiry
           w == IF blink THEN Wallet(r) ELSE "btc"
<1>6. /\ Wanted(r) = [account |-> r.to.account, wallet |-> w, hash |-> DescriptionHash(r),
                       amount |-> r.ask.amount, expiry |-> expiry]
      /\ v.hash = DescriptionHash(r) /\ v.amount = r.ask.amount
      /\ v = [hash |-> v.hash, amount |-> v.amount]
  BY DEF ProviderInvoices, Wanted, CheckInvoice
<1>7. w \in Wallets /\ (r.offer.wallet # NULL => w = r.offer.wallet)
  <2>1. CASE blink
    BY <1>2, <1>5, <2>1, RecipientAssumption DEF Supported, Wallet
  <2>2. CASE ~blink
    BY <1>2, <1>5, <2>2, Constants DEF Supported, Wallets, Modifier
  <2> QED
    BY <2>1, <2>2
<1>8. /\ expiry \in Nat \cup {NULL}
      /\ r.ask.expiry # NULL => expiry \in r.ask.expiry .. r.ask.expiry + 59
  <2>1. r.ask.expiry \in Nat \cup {NULL}
    BY <1>3 DEF Ask
  <2>2. ASSUME NEW e \in Nat
        PROVE  /\ 60 * ExpiryMinutes(e) \in Nat
               /\ e <= 60 * ExpiryMinutes(e) /\ 60 * ExpiryMinutes(e) <= e + 59
    BY DEF ExpiryMinutes
  <2> QED
    BY <2>1, <2>2
<1>9. DescriptionHash(r) \in Hashes
  BY <1>4, <1>5 DEF DescriptionHash, Metadata, Hashes
<1>10. ASSUME r.ask.zap = NULL, Same(H)
       PROVE  DescriptionHash(r) = r.offer.meta
  BY <1>1, <1>2, <1>4, <1>10 DEF DescriptionHash, OfferOK, Same
<1> HIDE DEF w, expiry
<1>11. v \in Invoices /\ Wanted(r) \in Orders
  BY <1>3, <1>5, <1>6, <1>7, <1>8, <1>9 DEF Invoices, Orders
<1>12. r.ask.zap # NULL => v.hash = ZapHash
  BY <1>6 DEF DescriptionHash
<1>13. Minted(q, H, O, G)
  BY <1>1, <1>3, <1>6, <1>7, <1>8, <1>10, <1>12 DEF Minted
<1> QED
  BY <1>11, <1>13

LEMMA DoneType ==
    ASSUME NEW R \in Req
    PROVE  [R EXCEPT !.pc = "done", !.result = "invoiced"] \in Req
<1> DEFINE q == [R EXCEPT !.pc = "done"]
<1>1. q \in Req
  BY DEF Req
<1> HIDE DEF q
<1>2. [q EXCEPT !.result = "invoiced"] \in Req
  BY <1>1 DEF Req
<1> QED
  BY <1>2 DEF q

LEMMA CreateKeeps ==
    ASSUME IInv, NEW p \in Payers, CreateInvoice(p) \/ CreateFails(p)
    PROVE  IInv'
<1> SUFFICES ASSUME NEW st \in BOOLEAN, NEW R, NEW H, NEW O, NEW G, Of(p, st, R, H, O, G)
             PROVE  IInv'
  BY DEF Of, Steady
<1>1. /\ OK(st, R, H, O, G) /\ R \in Req /\ IsFiniteSet(H) /\ R = req[p] /\ st = Steady
  BY OfOK DEF Of, IInv
<1>2. R.ask # NULL /\ Ready(st, R, H, O, G) /\ R.invoice = NULL
  BY <1>1 DEF CreateInvoice, CreateFails, At, OK, Ready, Here
<1>3. UNCHANGED <<world, seen, usdMin, outages>>
  BY DEF CreateInvoice, CreateFails
<1>4. CASE End(p, "error")
  <2> DEFINE r == [R EXCEPT !.pc = "done", !.result = "error"]
  <2>1. req' = [req EXCEPT ![p] = r]
    BY <1>1, <1>4, EndIs
  <2>2. OK(st, r, H, O, G)
    BY <1>1, <1>2, Ends DEF Results
  <2> HIDE DEF r
  <2> QED
    BY <1>3, <2>1, <2>2, Moves
<1>5. ASSUME Supported(R), NEW v \in ProviderInvoices(R), CheckInvoice(R, v),
             Become(p, [R EXCEPT !.pc = "done", !.result = "invoiced",
                                  !.asked = Wanted(R), !.invoice = v])
      PROVE  IInv'
  <2> DEFINE r == [R EXCEPT !.pc = "done", !.result = "invoiced",
                            !.asked = Wanted(R), !.invoice = v]
  <2>1. /\ r.pc = "done" /\ r.result = "invoiced" /\ r.invoice = v /\ r.asked = Wanted(R)
        /\ r.offer = R.offer /\ r.ask = R.ask
    BY <1>1 DEF Req
  <2>2. v \in Invoices /\ Wanted(R) \in Orders /\ Minted(r, H, O, G)
    <3> HIDE DEF r
    <3> QED
      BY <1>1, <1>2, <1>5, <2>1, InvoiceChecked
  <2>3. r \in Req
    <3> DEFINE q == [R EXCEPT !.pc = "done", !.result = "invoiced"]
    <3>1. q \in Req
      BY <1>1, DoneType
    <3>2. r = [q EXCEPT !.asked = Wanted(R), !.invoice = v]
      OBVIOUS
    <3> HIDE DEF q, r
    <3>3. [q EXCEPT !.asked = Wanted(R), !.invoice = v] \in Req
      BY <2>2, <3>1 DEF Req
    <3> QED
      BY <3>2, <3>3
  <2>4. req' = [req EXCEPT ![p] = r]
    BY <1>5 DEF Become
  <2> HIDE DEF r
  <2>5. OK(st, r, H, O, G)
    BY <1>1, <2>1, <2>2, <2>3 DEF OK, Pricing, Stands
  <2> QED
    BY <1>3, <2>4, <2>5, Moves
<1> QED
  BY <1>1, <1>4, <1>5 DEF CreateInvoice, CreateFails

(***************************************************************************)
(* The world.                                                              *)
(***************************************************************************)

(* A change of the rows is seen by every request that named one.           *)
LEMMA RowsChange ==
    ASSUME IInv, Observe, row' \in [Names -> Recipient \cup {NULL}],
           UNCHANGED <<mode, usdMin, rate, req, receiving, drifts, outages>>
    PROVE  IInv'
<1>1. Tables' /\ Steady' = Steady
  BY DEF IInv, Tables, Steady, Estimate
<1>2. DOMAIN held' = Payers /\ DOMAIN owners' = Payers /\ DOMAIN receiving' = Payers
  BY DEF IInv, Observe
<1>3. ASSUME NEW q \in Payers
      PROVE  Accrues(req[q], held[q], owners[q], receiving[q], held'[q], owners'[q], receiving'[q])
  <2> DEFINE now == IF req[q].name \in Names THEN {row'[req[q].name]} ELSE {}
  <2>1. /\ held'[q] = held[q] \cup now
        /\ owners'[q] = IF owners[q] = {} THEN {} ELSE owners[q] \cup now
        /\ receiving'[q] = receiving[q]
    BY DEF Observe
  <2>2. IsFiniteSet(held[q])
    BY DEF IInv, PayersOK, OK
  <2>3. IsFiniteSet(now)
    BY FS_Singleton, FS_EmptySet
  <2>4. req[q].name \in Names => row'[req[q].name] \in now
    OBVIOUS
  <2> HIDE DEF now
  <2>5. IsFiniteSet(held[q] \cup now)
    BY <2>2, <2>3, FS_Union
  <2> QED
    BY <2>1, <2>4, <2>5 DEF Accrues
<1> QED
  BY <1>1, <1>2, <1>3, NobodyMoves

(* A step that no request sees.                                            *)
LEMMA NobodySees ==
    ASSUME IInv, UNCHANGED <<req, held, owners, receiving, row, mode>>, Tables',
           Steady' => Steady /\ UNCHANGED rate
    PROVE  IInv'
<1>1. \A q \in Payers : IsFiniteSet(held[q])
  BY DEF IInv, PayersOK, OK
<1>2. \A q \in Payers : Accrues(req[q], held[q], owners[q], receiving[q],
                                held'[q], owners'[q], receiving'[q])
  BY <1>1 DEF Accrues
<1>3. DOMAIN held' = Payers /\ DOMAIN owners' = Payers /\ DOMAIN receiving' = Payers
  BY DEF IInv
<1> QED
  BY <1>2, <1>3, NobodyMoves

LEMMA WorldKeeps ==
    ASSUME IInv,
           \/ \E n \in Names : \E to \in Holdable[n] \cup {NULL} : ChangeRow(n, to)
           \/ \E a \in Accounts :
                 \/ \E m \in {"anon", "enhanced"} : SetMode(a, m)
                 \/ \E w \in Wallets : UpdateBlinkAccount(a, w)
           \/ \E r \in Rates : Drift(r)
           \/ \E s \in Servers : Lapse(s)
    PROVE  IInv'
<1>1. ASSUME NEW n \in Names, NEW to \in Holdable[n] \cup {NULL}, ChangeRow(n, to)
      PROVE  IInv'
  <2>1. to \in Recipient \cup {NULL}
    BY RecipientAssumption
  <2>2. row' \in [Names -> Recipient \cup {NULL}]
    BY <1>1, <2>1 DEF ChangeRow, IInv, Tables
  <2> QED
    BY <1>1, <2>2, RowsChange DEF ChangeRow
<1>2. ASSUME NEW a \in Accounts, NEW w \in Wallets, UpdateBlinkAccount(a, w)
      PROVE  IInv'
  <2>1. row \in [Names -> Recipient \cup {NULL}] /\ ProviderOf[a] = "blink"
    BY <1>2 DEF IInv, Tables, UpdateBlinkAccount
  <2>2. ASSUME NEW to \in Recipient, to.account = a
        PROVE  [to EXCEPT !.default = w] \in Recipient
    BY <2>1, <2>2, Constants DEF Recipient
  <2>3. row' \in [Names -> Recipient \cup {NULL}]
    BY <1>2, <2>1, <2>2 DEF UpdateBlinkAccount, WithDefaultWallet
  <2> QED
    BY <1>2, <2>3, RowsChange DEF UpdateBlinkAccount
<1>3. ASSUME NEW a \in Accounts, NEW m \in {"anon", "enhanced"}, SetMode(a, m)
      PROVE  IInv'
  <2>1. /\ ProviderOf[a] = "spark" /\ mode' = [mode EXCEPT ![a] = m]
        /\ receiving' = [p \in Payers |-> IF m # "anon" /\ owners[p] # {}
                                          THEN receiving[p] \cup {a} ELSE receiving[p]]
        /\ UNCHANGED <<row, usdMin, rate, req, held, owners, drifts, outages>>
    BY <1>3 DEF SetMode
  <2>2. Tables' /\ Steady' = Steady
    BY <1>3, <2>1 DEF IInv, Tables, Steady, Estimate
  <2>3. DOMAIN held' = Payers /\ DOMAIN owners' = Payers /\ DOMAIN receiving' = Payers
    BY <1>3, <2>1 DEF IInv
  <2>4. ASSUME NEW q \in Payers
        PROVE  Accrues(req[q], held[q], owners[q], receiving[q],
                       held'[q], owners'[q], receiving'[q])
    <3>1. IsFiniteSet(held[q])
      BY <1>3 DEF IInv, PayersOK, OK
    <3>2. receiving'[q] = IF m # "anon" /\ owners[q] # {}
                          THEN receiving[q] \cup {a} ELSE receiving[q]
      BY <2>1
    <3>3. \A b \in Accounts : mode'[b] = IF b = a THEN m ELSE mode[b]
      BY <1>3, <2>1 DEF IInv, Tables
    <3> QED
      BY <2>1, <3>1, <3>2, <3>3 DEF Accrues
  <2> QED
    BY <1>3, <2>1, <2>2, <2>3, <2>4, NobodyMoves
<1>4. ASSUME NEW r \in Rates, Drift(r)
      PROVE  IInv'
  <2>1. drifts' \in Nat \ {0}
    BY <1>4 DEF Drift, IInv, Tables
  <2>2. ~Steady'
    BY <2>1 DEF Steady
  <2>3. Tables'
    BY <1>4, <2>1, <2>2 DEF Drift, IInv, Tables
  <2> QED
    BY <1>4, <2>2, <2>3, NobodySees DEF Drift, seen
<1>5. ASSUME NEW s \in Servers, Lapse(s)
      PROVE  IInv'
  <2>1. UNCHANGED <<row, mode, rate, drifts, outages, req, held, owners, receiving>>
    BY <1>5 DEF Lapse, world, seen
  <2>2. Steady' = Steady /\ Estimate' = Estimate
    BY <2>1 DEF Steady, Estimate
  <2>3. Tables'
    BY <1>5, <2>1, <2>2 DEF Lapse, IInv, Tables
  <2> QED
    BY <1>5, <2>1, <2>2, <2>3, NobodySees
<1> QED
  BY <1>1, <1>2, <1>3, <1>4, <1>5

LEMMA Initially == Init => IInv
<1> SUFFICES ASSUME Init
             PROVE  IInv
  OBVIOUS
<1>1. row \in [Names -> Recipient \cup {NULL}]
  BY RecipientAssumption DEF Init
<1>2. Tables
  BY <1>1, AskAssumption, Constants DEF Init, Tables, Steady
<1>3. Idle.pc = "idle" /\ Idle \in Req
  BY IdleType DEF Idle
<1>4. OK(Steady, Idle, {}, {}, {})
  BY <1>3, FS_EmptySet DEF OK, Pricing
<1>5. /\ req = [p \in Payers |-> Idle] /\ held = [p \in Payers |-> {}]
      /\ owners = [p \in Payers |-> {}] /\ receiving = [p \in Payers |-> {}]
  BY DEF Init
<1> QED
  BY <1>2, <1>3, <1>4, <1>5 DEF IInv, PayersOK

LEMMA Inductive == IInv /\ [Next]_vars => IInv'
<1> SUFFICES ASSUME IInv, [Next]_vars
             PROVE  IInv'
  OBVIOUS
<1>1. CASE UNCHANGED vars
  <2>1. Tables' /\ Steady' = Steady
    BY <1>1 DEF vars, IInv, Tables, Steady, Estimate
  <2> QED
    BY <1>1, <2>1, NobodySees DEF vars
<1>2. ASSUME NEW p \in Payers, Request(p)
      PROVE  IInv'
  BY <1>2, DiscoverKeeps, CallbackKeeps, PricingKeeps, ReadModeKeeps, CreateKeeps, LeaveKeeps
     DEF Request
<1> QED
  BY <1>1, <1>2, WorldKeeps DEF Next

(* An offer stands: an amount within it is not out of range and finds its  *)
(* recipient while the name, the rate and Blink stay as they were, however *)
(* many requests refresh, lapse or share the kept minimum meanwhile.       *)
THEOREM OffersHold == Spec => []OfferStands
<1>1. IInv => OfferStands
  BY Conclude
<1> QED
  BY <1>1, Initially, Inductive, PTL DEF Spec

(* The invoice that a payer gets is the one asked for, whoever gets the    *)
(* name or changes its wallet between the discovery and the answer.        *)
THEOREM InvoicesAreAsAsked == Spec => []InvoiceAsAsked
<1>1. IInv => InvoiceAsAsked
  BY Conclude
<1> QED
  BY <1>1, Initially, Inductive, PTL DEF Spec

(* No invoice is minted for an account that was anonymous all along since  *)
(* the callback began, also if its mode cannot be read.                    *)
THEOREM AnonGetsNoInvoice == Spec => []NotForAnon
<1>1. IInv => NotForAnon
  BY Conclude
<1> QED
  BY <1>1, Initially, Inductive, PTL DEF Spec
=============================================================================
