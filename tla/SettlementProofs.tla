-------------------------- MODULE SettlementProofs --------------------------
(***************************************************************************)
(* For every set of invoices, users and concurrent requests: the tables    *)
(* and the requests of Settlement keep their types, a stored preimage is a *)
(* genuine one and is never lost, a paid invoice is not expired, work is   *)
(* only queued, and settlement only confirmed, for a stored preimage, a    *)
(* report changes no invoice of another user, and every step on the tables *)
(* is one the SQLite adapter's contract allows.                            *)
(*                                                                         *)
(* The inductive invariant has two halves.  TablesInv relates the tables   *)
(* to what happened on Lightning.  RequestInv says what each request may   *)
(* rely on between two statements: a minting request owns a hash that      *)
(* nobody outside has seen, a request about to store holds a preimage of a *)
(* paid invoice, a request about to queue has stored it.  Grows is what    *)
(* one request's step may do to what another one relies on.  The second    *)
(* part adds OInv, on whose invoice it is, in the same way.                *)
(***************************************************************************)
EXTENDS Settlement, TLAPS

MintSteps == {"upsert_zap", "insert_comment", "create_invoice", "answer_pr"}
ReportSteps == {"verify", "lookup", "lookup_zap", "status", "mark", "read", "store"}
AfterSteps == {"enqueue", "notify", "insert", "answer"}

Recorded(h) == invoice[h] # NULL /\ invoice[h].domain

TablesInv ==
    /\ Legacy \subseteq handed /\ paid \subseteq handed /\ handed \subseteq minted
    /\ \A h \in Legacy : invoice[h] # NULL => Settled(h)
    /\ StoredIsPaid
    /\ PaidNotExpired
    /\ QueuedIsSettled
    /\ ToldIsStored
    /\ HandedIsRecorded

MintInv(p) ==
    req[p].pc \in MintSteps =>
        /\ req[p].row \in Row
        /\ req[p].row.preimage = NULL
        /\ req[p].row.domain
        /\ \E h \in Hashes : req[p].hs = {h}
        /\ req[p].hs \subseteq minted \ handed
        /\ At(p, "answer_pr") => \A h \in req[p].hs : Recorded(h)

ReportInv(p) ==
    req[p].pc \in ReportSteps =>
        /\ req[p].src # "batch"
        /\ \E h \in Hashes : req[p].hs = {h}
        /\ req[p].pre \in paid \cup {NULL, Junk}
        /\ At(p, "store") =>
             /\ req[p].row \in Row
             /\ req[p].row.domain
             /\ \A h \in req[p].hs : /\ req[p].pre = h
                                     /\ h \in paid \ Legacy
                                     /\ invoice[h] # NULL

BatchInv(p) == req[p].pc \in {"filter", "upsert_paid"} =>
                 req[p].src = "batch" /\ req[p].hs \subseteq paid

AfterInv(p) ==
    /\ req[p].pc \in AfterSteps /\ req[p].src # "batch" => \A h \in req[p].hs : Settled(h)
    /\ At(p, "enqueue") => \A h \in req[p].aff : Settled(h)
    /\ At(p, "insert") => \A h \in req[p].aff : Settled(h) /\ invoice[h].domain

RequestInv(p) == MintInv(p) /\ ReportInv(p) /\ BatchInv(p) /\ AfterInv(p)

MintApart ==
    \A p, q \in Handlers :
        p # q /\ req[p].pc \in MintSteps /\ req[q].pc \in MintSteps
            => req[p].hs \cap req[q].hs = {}

IInv == TypeOK /\ TablesInv /\ MintApart /\ \A p \in Handlers : RequestInv(p)

(* What one step does to the tables as the other requests see them.        *)
Grows ==
    /\ paid \subseteq paid' /\ minted \subseteq minted'
    /\ \A h \in Hashes : Settled(h) => Settled(h)' /\ invoice'[h].preimage = invoice[h].preimage
    /\ \A h \in Hashes : invoice[h] # NULL => invoice'[h] # NULL
    /\ \A h \in Hashes : Recorded(h) => Recorded(h)'

(* A request that does not move keeps what it relies on while the tables   *)
(* grow, provided its minted invoice is not handed out behind its back.    *)
LEMMA GrowsKeepsRequest ==
    ASSUME NEW q \in Handlers, TypeOK, RequestInv(q), Grows, req'[q] = req[q],
           req[q].pc \in MintSteps => req[q].hs \cap handed' = {}
    PROVE  RequestInv(q)'
<1> USE DEF At
<1>h. req[q].hs \subseteq Hashes /\ req[q].aff \subseteq Hashes
  BY DEF TypeOK, Request
<1>1. MintInv(q)'
  BY <1>h DEF RequestInv, MintInv, Grows
<1>2. ReportInv(q)'
  BY <1>h DEF RequestInv, ReportInv, Grows
<1>3. BatchInv(q)'
  BY <1>h DEF RequestInv, BatchInv, Grows
<1>4. AfterInv(q)'
  BY <1>h DEF RequestInv, AfterInv, Grows, Settled, Recorded
<1> QED BY <1>1, <1>2, <1>3, <1>4 DEF RequestInv

(* A step that leaves the table invoices alone and only adds to what was   *)
(* minted and paid makes the tables grow.                                  *)
LEMMA SameInvoicesGrow ==
    ASSUME UNCHANGED invoice, paid \subseteq paid', minted \subseteq minted'
    PROVE  Grows
BY DEF Grows, Settled, Recorded

(* The step of one request p, once it is known that the tables grew and    *)
(* that p itself is in order, preserves the requests' half.                *)
LEMMA OthersKeep ==
    ASSUME NEW p \in Handlers, IInv, TypeOK', Grows, RequestInv(p)',
           \A q \in Handlers \ {p} : req'[q] = req[q],
           handed' = handed \/
             (req[p].pc \in MintSteps /\ handed' = handed \cup req[p].hs)
    PROVE  \A q \in Handlers : RequestInv(q)'
<1> SUFFICES ASSUME NEW q \in Handlers \ {p} PROVE RequestInv(q)'
  OBVIOUS
<1>1. req[q].pc \in MintSteps => req[q].hs \cap handed' = {}
  <2>1. req[q].pc \in MintSteps => req[q].hs \cap handed = {}
    BY DEF IInv, RequestInv, MintInv
  <2>2. req[q].pc \in MintSteps /\ req[p].pc \in MintSteps
          => req[q].hs \cap req[p].hs = {}
    BY DEF IInv, MintApart
  <2> QED BY <2>1, <2>2
<1> QED BY <1>1, GrowsKeepsRequest DEF IInv

(* Minting requests stay apart when p keeps its hash or leaves minting.    *)
LEMMA StayApart ==
    ASSUME NEW p \in Handlers, MintApart,
           \A q \in Handlers \ {p} : req'[q] = req[q],
           req'[p].pc \in MintSteps => req[p].pc \in MintSteps /\ req'[p].hs = req[p].hs
    PROVE  MintApart'
BY DEF MintApart

(* Most steps only move one request and add rows to the side tables: what  *)
(* is left to show of them is listed here.                                 *)
LEMMA QuietStep ==
    ASSUME NEW p \in Handlers, IInv, UNCHANGED <<invoice, world>>,
           req' \in [Handlers -> Request],
           \A q \in Handlers \ {p} : req'[q] = req[q],
           req'[p].pc \in MintSteps => req[p].pc \in MintSteps /\ req'[p].hs = req[p].hs,
           RequestInv(p)',
           zaps' \in [Hashes -> Users \cup {Nobody, NULL}], comments' \subseteq Hashes,
           pendingZap' \subseteq Hashes, \A h \in pendingZap' : Settled(h),
           deliveries' \subseteq Hashes, \A h \in deliveries' : Settled(h) /\ invoice[h].domain,
           told' \subseteq Hashes \X Amounts, \A t \in told' : Settled(t[1]),
           cancels' \in 0..MaxCancels, errors' \in 0..MaxErrors
    PROVE  IInv'
<1>1. TypeOK'
  BY DEF IInv, TypeOK, world
<1>2. Grows
  BY SameInvoicesGrow DEF world
<1>3. \A q \in Handlers : RequestInv(q)'
  BY <1>1, <1>2, OthersKeep DEF world
<1>4. TablesInv'
  BY DEF IInv, TablesInv, world, Settled, StoredIsPaid, PaidNotExpired, QueuedIsSettled,
         ToldIsStored, HandedIsRecorded
<1>5. MintApart'
  BY StayApart DEF IInv
<1> QED BY <1>1, <1>3, <1>4, <1>5 DEF IInv

(* The same for a step that leaves every table alone.                      *)
LEMMA MoveStep ==
    ASSUME NEW p \in Handlers, IInv, UNCHANGED <<db, world, told>>,
           cancels' \in 0..MaxCancels, errors' \in 0..MaxErrors,
           req' \in [Handlers -> Request],
           \A q \in Handlers \ {p} : req'[q] = req[q],
           req'[p].pc \in MintSteps => req[p].pc \in MintSteps /\ req'[p].hs = req[p].hs,
           RequestInv(p)'
    PROVE  IInv'
BY QuietStep DEF IInv, TypeOK, TablesInv, QueuedIsSettled, ToldIsStored, db

LEMMA IdleRequest ==
    ASSUME NEW p \in Handlers, req' \in [Handlers -> Request], req'[p] = Idle
    PROVE  RequestInv(p)' /\ req'[p].pc \notin MintSteps
BY DEF RequestInv, MintInv, ReportInv, BatchInv, AfterInv, At, Idle, MintSteps,
       ReportSteps, AfterSteps

LEMMA IdleType == Idle \in Request
BY DEF Idle, Request, Steps, Sources, Preimages, Amounts

(* A request that stops or is done leaves nothing behind to rely on.       *)
LEMMA FinishStep ==
    ASSUME NEW p \in Handlers, IInv, Finish(p), UNCHANGED <<db, world, told>>,
           cancels' \in 0..MaxCancels, errors' \in 0..MaxErrors
    PROVE  IInv'
<1>1. req' \in [Handlers -> Request] /\ req'[p] = Idle
  BY IdleType DEF Finish, IInv, TypeOK
<1>2. \A q \in Handlers \ {p} : req'[q] = req[q]
  BY DEF Finish, IInv, TypeOK
<1> QED BY <1>1, <1>2, IdleRequest, MoveStep

(***************************************************************************)
(* Requests that arrive.                                                   *)
(***************************************************************************)

(* A report is in order when it arrives: it names one invoice, and its     *)
(* preimage is that of a paid invoice if it is one at all.                 *)
LEMMA ReportArrives ==
    ASSUME NEW p \in Handlers, IInv, UNCHANGED <<db, world, told, cancels, errors>>,
           NEW pc \in {"verify", "lookup", "lookup_zap"}, NEW src \in Sources \ {"batch"},
           NEW h \in Hashes, NEW user \in Users \cup {Nobody},
           NEW pre \in paid \cup {NULL, Junk}, NEW amt \in Amounts,
           Start(p, pc, src, {h}, user, pre, amt, NULL)
    PROVE  IInv'
<1>1. req' \in [Handlers -> Request]
  BY DEF Start, IInv, TypeOK, Request, Steps, Preimages
<1>2. /\ req'[p].pc = pc /\ req'[p].src = src /\ req'[p].hs = {h} /\ req'[p].pre = pre
      /\ \A q \in Handlers \ {p} : req'[q] = req[q]
  BY DEF Start, IInv, TypeOK
<1>3. RequestInv(p)'
  BY <1>2 DEF RequestInv, MintInv, ReportInv, BatchInv, AfterInv, At, MintSteps,
              ReportSteps, AfterSteps, world
<1>4. req'[p].pc \notin MintSteps
  BY <1>2 DEF MintSteps
<1> QED BY <1>1, <1>2, <1>3, <1>4, MoveStep DEF IInv, TypeOK

LEMMA ReceivedSatsType ==
    ASSUME NEW htlc \in HtlcAmounts PROVE ReceivedSats(htlc) \in Amounts
<1>1. (1000 * Sats + 999) \div 1000 = Sats
  BY SatsAssumption
<1> QED BY <1>1 DEF HtlcAmounts, ReceivedSats, Amounts

LEMMA BatchArrives ==
    ASSUME NEW p \in Handlers, NEW hs \in SUBSET Hashes, NEW user \in Users, IInv,
           InvoicesPaid(p, hs, user)
    PROVE  IInv'
<1> USE DEF InvoicesPaid, Start
<1>1. req' \in [Handlers -> Request]
  BY DEF IInv, TypeOK, Request, Steps, Sources, Preimages, Amounts
<1>2. /\ req'[p].pc = "filter" /\ req'[p].src = "batch" /\ req'[p].hs = hs
      /\ \A q \in Handlers \ {p} : req'[q] = req[q]
  BY DEF IInv, TypeOK
<1>3. RequestInv(p)'
  BY <1>2 DEF RequestInv, MintInv, ReportInv, BatchInv, AfterInv, At, MintSteps,
              ReportSteps, AfterSteps, world
<1>4. req'[p].pc \notin MintSteps
  BY <1>2 DEF MintSteps
<1> QED BY <1>1, <1>2, <1>3, <1>4, MoveStep DEF IInv, TypeOK

(* A minting request takes a hash that no request and no payer has.        *)
LEMMA MintArrives ==
    ASSUME NEW p \in Handlers, IInv, MintRequest(p)
    PROVE  IInv'
<1> PICK h \in Hashes \ minted, user \in Users \cup {Nobody} :
      /\ Start(p, "upsert_zap", "mint", {h}, user, NULL, NULL,
               [user |-> user, provider |-> IF user = Nobody THEN "blink" ELSE "spark",
                preimage |-> NULL, expired |-> FALSE, domain |-> TRUE, amount |-> NULL])
      /\ minted' = minted \cup {h}
      /\ UNCHANGED <<db, handed, paid, lapsed, told, cancels, errors>>
  BY DEF MintRequest, CreateInvoice
<1> DEFINE row == [user |-> user, provider |-> IF user = Nobody THEN "blink" ELSE "spark",
                   preimage |-> NULL, expired |-> FALSE, domain |-> TRUE, amount |-> NULL]
<1>r. row \in Row
  BY DEF Row, Providers, Amounts
<1>1. req' \in [Handlers -> Request]
  BY <1>r DEF Start, IInv, TypeOK, Request, Steps, Sources, Preimages, Amounts
<1>2. /\ req'[p].pc = "upsert_zap" /\ req'[p].src = "mint" /\ req'[p].hs = {h}
      /\ req'[p].row = row
      /\ \A q \in Handlers \ {p} : req'[q] = req[q]
  BY DEF Start, IInv, TypeOK
<1>3. TypeOK'
  BY <1>1 DEF IInv, TypeOK, db
<1>4. Grows
  BY SameInvoicesGrow DEF db
<1>5. RequestInv(p)'
  <2>1. h \in minted' \ handed'
    BY DEF IInv, TablesInv
  <2>2. row.preimage = NULL /\ row.domain
    OBVIOUS
  <2> HIDE DEF row
  <2> QED BY <1>2, <1>r, <2>1, <2>2 DEF RequestInv, MintInv, ReportInv, BatchInv, AfterInv, At,
                  MintSteps, ReportSteps, AfterSteps
<1>6. \A q \in Handlers : RequestInv(q)'
  BY <1>2, <1>3, <1>4, <1>5, OthersKeep
<1>7. TablesInv'
  BY DEF IInv, TablesInv, db, Settled, StoredIsPaid, PaidNotExpired, QueuedIsSettled,
         ToldIsStored, HandedIsRecorded
<1>8. MintApart'
  <2>1. \A q \in Handlers : req[q].pc \in MintSteps => h \notin req[q].hs
    BY DEF IInv, RequestInv, MintInv
  <2> QED BY <1>2, <2>1 DEF IInv, MintApart
<1> QED BY <1>3, <1>6, <1>7, <1>8 DEF IInv

LEMMA Arrivals ==
    ASSUME NEW p \in Handlers, IInv, Arrive(p)
    PROVE  IInv'
<1> USE DEF Sources, Amounts
<1>1. CASE MintRequest(p)
  BY <1>1, MintArrives
<1>2. ASSUME NEW h \in Hashes, BlinkWebhookPaid(p, h) PROVE IInv'
  BY <1>2, ReportArrives DEF BlinkWebhookPaid
<1>3. ASSUME NEW h \in Hashes, BlinkWebhookExpired(p, h) PROVE IInv'
  BY <1>3, ReportArrives DEF BlinkWebhookExpired
<1>4. ASSUME NEW h \in Hashes, Verify(p, h) PROVE IInv'
  BY <1>4, ReportArrives DEF Verify
<1>5. ASSUME NEW h \in Hashes, NEW u \in Users, SspWebhook(p, h, u) PROVE IInv'
  BY <1>5, ReportArrives, ReceivedSatsType DEF SspWebhook
<1>6. ASSUME NEW h \in Hashes, NEW u \in Users, InvoicePaid(p, h, u) PROVE IInv'
  BY <1>6, ReportArrives DEF InvoicePaid
<1>7. ASSUME NEW h \in Hashes, NEW u \in Users, PublishZapReceipt(p, h, u) PROVE IInv'
  BY <1>7, ReportArrives DEF PublishZapReceipt
<1> QED BY <1>1, <1>2, <1>3, <1>4, <1>5, <1>6, <1>7, BatchArrives DEF Arrive

(***************************************************************************)
(* Steps that only move a request or add to a side table.                  *)
(***************************************************************************)

(* The facts about p that every such step starts from.                     *)
LEMMA Facts ==
    ASSUME NEW p \in Handlers, IInv
    PROVE  /\ req \in [Handlers -> Request] /\ req[p] \in Request
           /\ invoice \in [Hashes -> Row \cup {NULL}]
           /\ cancels \in 0..MaxCancels /\ errors \in 0..MaxErrors
           /\ RequestInv(p)
           /\ req[p].hs \subseteq Hashes /\ req[p].aff \subseteq Hashes
BY DEF IInv, TypeOK, Request

(* A request of one hash is about that hash.                               *)
LEMMA OneHash ==
    ASSUME NEW p \in Handlers, NEW h, req[p].hs = {h}
    PROVE  TheHash(p) = h
BY DEF TheHash

(* A step to another pc, nothing else in the request changing.             *)
LEMMA GotoFacts ==
    ASSUME NEW p \in Handlers, NEW pc \in Steps, req \in [Handlers -> Request],
           Goto(p, pc)
    PROVE  /\ req' \in [Handlers -> Request]
           /\ \A q \in Handlers \ {p} : req'[q] = req[q]
           /\ req'[p].pc = pc /\ req'[p].src = req[p].src /\ req'[p].hs = req[p].hs
           /\ req'[p].pre = req[p].pre /\ req'[p].row = req[p].row
           /\ req'[p].aff = req[p].aff
BY DEF Goto, Request

(* Between two steps of a route a report stays in order.                   *)
LEMMA ReportGoes ==
    ASSUME NEW p \in Handlers, IInv, UNCHANGED <<db, world, told, cancels, errors>>,
           req[p].pc \in ReportSteps, NEW pc \in ReportSteps \ {"store"}, Goto(p, pc)
    PROVE  IInv'
<1>1. pc \in Steps
  BY DEF ReportSteps, Steps
<1>2. RequestInv(p)'
  BY <1>1, Facts, GotoFacts DEF RequestInv, MintInv, ReportInv, BatchInv, AfterInv, At,
        MintSteps, ReportSteps, AfterSteps, world
<1>3. req'[p].pc \notin MintSteps
  BY <1>1, Facts, GotoFacts DEF ReportSteps, MintSteps
<1> QED BY <1>1, <1>2, <1>3, Facts, GotoFacts, MoveStep

LEMMA MintZapKeeps ==
    ASSUME NEW p \in Handlers, IInv, MintZap(p) PROVE IInv'
<1> USE DEF MintZap
<1>1. RequestInv(p)'
  BY Facts, GotoFacts DEF RequestInv, MintInv, ReportInv, BatchInv, AfterInv, At,
        MintSteps, ReportSteps, AfterSteps, Steps, world
<1>2. req[p].pc \in MintSteps /\ req'[p].hs = req[p].hs
  BY Facts, GotoFacts DEF MintSteps, Steps, At
<1>3. zaps' \in [Hashes -> Users \cup {Nobody, NULL}]
  BY Facts DEF IInv, TypeOK, Request
<1>4. pendingZap' = pendingZap /\ deliveries' = deliveries /\ told' = told /\ comments' = comments
      /\ cancels' = cancels /\ errors' = errors /\ UNCHANGED <<invoice, world>>
  OBVIOUS
<1>5. req' \in [Handlers -> Request] /\ \A q \in Handlers \ {p} : req'[q] = req[q]
  BY Facts, GotoFacts DEF Steps
<1> QED BY <1>1, <1>2, <1>3, <1>4, <1>5, QuietStep
        DEF IInv, TypeOK, TablesInv, QueuedIsSettled, ToldIsStored

LEMMA MintCommentKeeps ==
    ASSUME NEW p \in Handlers, IInv, MintComment(p) PROVE IInv'
<1> USE DEF MintComment
<1>1. RequestInv(p)'
  BY Facts, GotoFacts DEF RequestInv, MintInv, ReportInv, BatchInv, AfterInv, At,
        MintSteps, ReportSteps, AfterSteps, Steps, world
<1>2. req[p].pc \in MintSteps /\ req'[p].hs = req[p].hs
  BY Facts, GotoFacts DEF MintSteps, Steps, At
<1>3. comments' \subseteq Hashes
  BY Facts DEF IInv, TypeOK
<1>4. pendingZap' = pendingZap /\ deliveries' = deliveries /\ told' = told /\ zaps' = zaps
      /\ cancels' = cancels /\ errors' = errors /\ UNCHANGED <<invoice, world>>
  OBVIOUS
<1>5. req' \in [Handlers -> Request] /\ \A q \in Handlers \ {p} : req'[q] = req[q]
  BY Facts, GotoFacts DEF Steps
<1> QED BY <1>1, <1>2, <1>3, <1>4, <1>5, QuietStep
        DEF IInv, TypeOK, TablesInv, QueuedIsSettled, ToldIsStored

LEMMA VerifyReadKeeps ==
    ASSUME NEW p \in Handlers, IInv, VerifyRead(p) PROVE IInv'
<1> PICK h \in Hashes : req[p].hs = {h}
  BY Facts DEF VerifyRead, At, RequestInv, ReportInv, ReportSteps
<1>h. TheHash(p) = h
  BY OneHash
<1>1. CASE Goto(p, "lookup") /\ UNCHANGED told
  BY <1>1, ReportGoes DEF VerifyRead, At, ReportSteps
<1>2. CASE Finish(p) /\ told' = IF Settled(h) THEN told \cup {<<h, NULL>>} ELSE told
  <2>1. req' \in [Handlers -> Request] /\ req'[p] = Idle
        /\ \A q \in Handlers \ {p} : req'[q] = req[q]
    BY <1>2, Facts, IdleType DEF Finish
  <2>2. told' \subseteq Hashes \X Amounts
    BY <1>2 DEF IInv, TypeOK, Amounts
  <2>3. \A t \in told' : Settled(t[1])
    BY <1>2 DEF IInv, TablesInv, ToldIsStored
  <2>4. UNCHANGED <<db, world, cancels, errors>>
    BY DEF VerifyRead
  <2> QED BY <2>1, <2>2, <2>3, <2>4, IdleRequest, QuietStep
          DEF IInv, TypeOK, TablesInv, QueuedIsSettled, db
<1> QED BY <1>1, <1>2, <1>h DEF VerifyRead

LEMMA RoutesKeep ==
    ASSUME NEW p \in Handlers, IInv,
           Lookup(p) \/ LookupZap(p) \/ StatusExpired(p) \/ StatusOther(p)
    PROVE  IInv'
<1>1. CASE Lookup(p)
  BY <1>1, Facts, ReportGoes, FinishStep DEF Lookup, At, ReportSteps
<1>2. CASE LookupZap(p)
  BY <1>2, Facts, ReportGoes, FinishStep DEF LookupZap, At, ReportSteps
<1>3. CASE StatusExpired(p)
  BY <1>3, ReportGoes DEF StatusExpired, At, ReportSteps
<1>4. CASE StatusOther(p)
  BY <1>4, Facts, FinishStep DEF StatusOther
<1> QED BY <1>1, <1>2, <1>3, <1>4

LEMMA AffectedType ==
    ASSUME NEW r \in Request, NEW pc \in Steps, NEW aff \in SUBSET Hashes
    PROVE  [r EXCEPT !.pc = pc, !.aff = aff] \in Request
BY DEF Request

LEMMA ReportedType ==
    ASSUME NEW r \in Request, NEW pc \in Steps, NEW pre \in Preimages \cup {NULL},
           NEW amt \in Amounts
    PROVE  [r EXCEPT !.pc = pc, !.pre = pre, !.amt = amt] \in Request
BY DEF Request

LEMMA StatusSettledKeeps ==
    ASSUME NEW p \in Handlers, IInv, StatusSettled(p) PROVE IInv'
<1> PICK h \in req[p].hs \cap paid, amt \in Amounts :
      req' = [req EXCEPT ![p].pc = "read", ![p].pre = h, ![p].amt = amt]
  BY DEF StatusSettled
<1>1. /\ req' \in [Handlers -> Request]
      /\ \A q \in Handlers \ {p} : req'[q] = req[q]
      /\ req'[p].pc = "read" /\ req'[p].src = req[p].src /\ req'[p].hs = req[p].hs
      /\ req'[p].pre = h
  <2>1. h \in Preimages /\ "read" \in Steps
    BY Facts DEF Preimages, Steps
  <2>2. req'[p] = [req[p] EXCEPT !.pc = "read", !.pre = h, !.amt = amt]
        /\ \A q \in Handlers \ {p} : req'[q] = req[q]
    BY Facts
  <2>3. req'[p] \in Request
    BY <2>1, <2>2, Facts, ReportedType
  <2>4. req' \in [Handlers -> Request]
    BY <2>2, <2>3, Facts
  <2> QED BY <2>2, <2>4, Facts DEF Request
<1>2. RequestInv(p)'
  BY <1>1, Facts DEF StatusSettled, RequestInv, MintInv, ReportInv, BatchInv, AfterInv, At,
        MintSteps, ReportSteps, AfterSteps, world
<1> QED BY <1>1, <1>2, Facts, MoveStep DEF StatusSettled, MintSteps

LEMMA ReadInvoiceKeeps ==
    ASSUME NEW p \in Handlers, IInv, ReadInvoice(p) PROVE IInv'
<1> PICK h \in Hashes : req[p].hs = {h}
  BY Facts DEF ReadInvoice, At, RequestInv, ReportInv, ReportSteps
<1>h. TheHash(p) = h
  BY OneHash
<1>u. UNCHANGED <<db, world, told, cancels, errors>>
  BY DEF ReadInvoice
<1>1. CASE Finish(p)
  BY <1>1, <1>u, Facts, FinishStep
<1>2. CASE Settled(h) /\ Goto(p, "notify")
  <2>1. RequestInv(p)'
    BY <1>2, <1>u, Facts, GotoFacts DEF RequestInv, MintInv, ReportInv, BatchInv, AfterInv, At,
        MintSteps, ReportSteps, AfterSteps, Steps, Settled, db
  <2> QED BY <1>2, <1>u, <2>1, Facts, GotoFacts, MoveStep DEF MintSteps, Steps
<1>3. CASE /\ VerifyPreimage(h, req[p].pre) /\ invoice[h] # NULL /\ ~Settled(h)
           /\ req' = [req EXCEPT ![p].pc = "store", ![p].row = invoice[h]]
  <2>1. /\ req' \in [Handlers -> Request]
        /\ \A q \in Handlers \ {p} : req'[q] = req[q]
        /\ req'[p].pc = "store" /\ req'[p].src = req[p].src /\ req'[p].hs = {h}
        /\ req'[p].pre = h /\ req'[p].row = invoice[h]
    <3>1. invoice[h] \in Row /\ "store" \in Steps
      BY <1>3, Facts DEF Steps
    <3>2. /\ req'[p] = [req[p] EXCEPT !.pc = "store", !.row = invoice[h]]
          /\ \A q \in Handlers \ {p} : req'[q] = req[q]
      BY <1>3, Facts
    <3>3. /\ req'[p] \in Request
          /\ req'[p].pc = "store" /\ req'[p].src = req[p].src /\ req'[p].hs = req[p].hs
          /\ req'[p].pre = req[p].pre /\ req'[p].row = invoice[h]
      BY <3>1, <3>2, Facts DEF Request
    <3>4. req' \in [Handlers -> Request]
      BY <1>3, <3>2, <3>3, Facts
    <3> QED BY <1>3, <3>2, <3>3, <3>4 DEF VerifyPreimage
  <2>2. h \in paid
    BY <1>3, Facts, NullAssumption DEF VerifyPreimage, RequestInv, ReportInv, ReadInvoice, At,
         ReportSteps, Preimages
  <2>3. h \notin Legacy /\ invoice[h].domain /\ invoice[h] \in Row
    BY <1>3, <2>2, Facts DEF IInv, TablesInv, HandedIsRecorded
  <2>4. req[p].src # "batch"
    BY Facts DEF RequestInv, ReportInv, ReadInvoice, At, ReportSteps
  <2>5. RequestInv(p)'
    BY <1>3, <1>u, <2>1, <2>2, <2>3, <2>4 DEF RequestInv, MintInv, ReportInv, BatchInv, AfterInv, At,
        MintSteps, ReportSteps, AfterSteps, db, world
  <2> QED BY <1>u, <2>1, <2>5, Facts, MoveStep DEF MintSteps
<1> QED BY <1>1, <1>2, <1>3, <1>h DEF ReadInvoice

LEMMA FilterKnownKeeps ==
    ASSUME NEW p \in Handlers, IInv, FilterKnown(p) PROVE IInv'
<1>u. UNCHANGED <<db, world, told, cancels, errors>>
  BY DEF FilterKnown
<1>1. CASE Finish(p)
  BY <1>1, <1>u, Facts, FinishStep
<1>2. CASE req' = [req EXCEPT ![p].pc = "upsert_paid", ![p].hs = @ \cap Known]
  <2>1. /\ req' \in [Handlers -> Request]
        /\ \A q \in Handlers \ {p} : req'[q] = req[q]
        /\ req'[p].pc = "upsert_paid" /\ req'[p].src = req[p].src
        /\ req'[p].hs \subseteq req[p].hs
    BY <1>2, Facts DEF Request, Steps
  <2>2. RequestInv(p)'
    BY <1>u, <2>1, Facts DEF FilterKnown, RequestInv, MintInv, ReportInv, BatchInv, AfterInv, At,
        MintSteps, ReportSteps, AfterSteps, world
  <2> QED BY <1>u, <2>1, <2>2, Facts, MoveStep DEF MintSteps
<1> QED BY <1>1, <1>2 DEF FilterKnown

LEMMA EnqueueZapKeeps ==
    ASSUME NEW p \in Handlers, IInv, EnqueueZap(p) PROVE IInv'
<1> USE DEF EnqueueZap
<1>1. RequestInv(p)'
  BY Facts, GotoFacts DEF RequestInv, MintInv, ReportInv, BatchInv, AfterInv, At,
        MintSteps, ReportSteps, AfterSteps, Steps, Settled
<1>2. pendingZap' \subseteq Hashes /\ \A h \in pendingZap' : Settled(h)
  BY Facts DEF IInv, TypeOK, TablesInv, QueuedIsSettled, RequestInv, AfterInv
<1>3. deliveries' = deliveries /\ told' = told /\ zaps' = zaps /\ comments' = comments
      /\ cancels' = cancels /\ errors' = errors /\ UNCHANGED <<invoice, world>>
  OBVIOUS
<1>4. /\ req' \in [Handlers -> Request] /\ \A q \in Handlers \ {p} : req'[q] = req[q]
      /\ req'[p].pc \notin MintSteps
  BY Facts, GotoFacts DEF Steps, MintSteps
<1> QED BY <1>1, <1>2, <1>3, <1>4, QuietStep
        DEF IInv, TypeOK, TablesInv, QueuedIsSettled, ToldIsStored

LEMMA GetPayloadsKeeps ==
    ASSUME NEW p \in Handlers, IInv, GetPayloads(p) PROVE IInv'
<1> DEFINE data == {h \in req[p].hs : Settled(h) /\ invoice[h].domain}
<1>1. req' = [req EXCEPT ![p].pc = IF data = {} THEN "answer" ELSE "insert", ![p].aff = data]
  BY DEF GetPayloads
<1>2. data \subseteq Hashes /\ \A h \in data : Settled(h) /\ invoice[h].domain
  BY Facts
<1> HIDE DEF data
<1>3. /\ req' \in [Handlers -> Request]
      /\ \A q \in Handlers \ {p} : req'[q] = req[q]
      /\ req'[p].pc \in {"answer", "insert"} /\ req'[p].src = req[p].src
      /\ req'[p].hs = req[p].hs /\ req'[p].aff = data
  BY <1>1, <1>2, Facts DEF Request, Steps
<1>4. RequestInv(p)'
  BY <1>2, <1>3, Facts DEF GetPayloads, RequestInv, MintInv, ReportInv, BatchInv, AfterInv, At,
        MintSteps, ReportSteps, AfterSteps, Settled, db
<1> QED BY <1>3, <1>4, Facts, MoveStep DEF GetPayloads, MintSteps

LEMMA InsertDeliveriesKeeps ==
    ASSUME NEW p \in Handlers, IInv, InsertDeliveries(p) PROVE IInv'
<1> USE DEF InsertDeliveries
<1>1. RequestInv(p)'
  BY Facts, GotoFacts DEF RequestInv, MintInv, ReportInv, BatchInv, AfterInv, At,
        MintSteps, ReportSteps, AfterSteps, Steps, Settled
<1>2. deliveries' \subseteq Hashes /\ \A h \in deliveries' : Settled(h) /\ invoice[h].domain
  BY Facts DEF IInv, TypeOK, TablesInv, QueuedIsSettled, RequestInv, AfterInv
<1>3. pendingZap' = pendingZap /\ told' = told /\ zaps' = zaps /\ comments' = comments
      /\ cancels' = cancels /\ errors' = errors /\ UNCHANGED <<invoice, world>>
  OBVIOUS
<1>4. /\ req' \in [Handlers -> Request] /\ \A q \in Handlers \ {p} : req'[q] = req[q]
      /\ req'[p].pc \notin MintSteps
  BY Facts, GotoFacts DEF Steps, MintSteps
<1> QED BY <1>1, <1>2, <1>3, <1>4, QuietStep
        DEF IInv, TypeOK, TablesInv, QueuedIsSettled, ToldIsStored

LEMMA NotifyFailsKeeps ==
    ASSUME NEW p \in Handlers, IInv, NotifyFails(p) PROVE IInv'
<1> USE DEF NotifyFails
<1>1. RequestInv(p)'
  BY Facts, GotoFacts DEF RequestInv, MintInv, ReportInv, BatchInv, AfterInv, At,
        MintSteps, ReportSteps, AfterSteps, Steps, Settled, db
<1>2. errors' \in 0..MaxErrors
  BY Facts, BoundsAssumption
<1>3. /\ req' \in [Handlers -> Request] /\ \A q \in Handlers \ {p} : req'[q] = req[q]
      /\ req'[p].pc \notin MintSteps
  BY Facts, GotoFacts DEF Steps, MintSteps
<1> QED BY <1>1, <1>2, <1>3, Facts, MoveStep

LEMMA AnswerKeeps ==
    ASSUME NEW p \in Handlers, IInv, Answer(p) PROVE IInv'
<1> USE DEF Answer
<1>1. req' \in [Handlers -> Request] /\ req'[p] = Idle
      /\ \A q \in Handlers \ {p} : req'[q] = req[q]
  BY Facts, IdleType DEF Finish
<1>2. told' \subseteq Hashes \X Amounts
  BY Facts DEF IInv, TypeOK, Request
<1>3. \A t \in told' : Settled(t[1])
  BY Facts DEF IInv, TablesInv, ToldIsStored, RequestInv, AfterInv, AfterSteps, At
<1> QED BY <1>1, <1>2, <1>3, IdleRequest, QuietStep
        DEF IInv, TypeOK, TablesInv, QueuedIsSettled, db

LEMMA CancelKeeps ==
    ASSUME NEW p \in Handlers, IInv, Cancel(p) PROVE IInv'
<1>1. cancels' \in 0..MaxCancels
  BY Facts, BoundsAssumption DEF Cancel
<1> QED BY <1>1, Facts, FinishStep DEF Cancel

(***************************************************************************)
(* Lightning.                                                              *)
(***************************************************************************)
LEMMA LightningKeeps ==
    ASSUME IInv, NEW h \in Hashes, Pay(h) \/ Lapse(h)
    PROVE  IInv'
<1> USE DEF Pay, Lapse
<1>1. TypeOK'
  BY DEF IInv, TypeOK, db
<1>2. Grows
  BY SameInvoicesGrow DEF db
<1>3. \A q \in Handlers : RequestInv(q)'
  <2> SUFFICES ASSUME NEW q \in Handlers PROVE RequestInv(q)'
    OBVIOUS
  <2>1. req[q].pc \in MintSteps => req[q].hs \cap handed' = {}
    BY DEF IInv, RequestInv, MintInv
  <2> QED BY <1>2, <2>1, GrowsKeepsRequest DEF IInv
<1>4. TablesInv'
  BY DEF IInv, TablesInv, db, Settled, StoredIsPaid, PaidNotExpired, QueuedIsSettled,
         ToldIsStored, HandedIsRecorded
<1>5. MintApart'
  BY DEF IInv, MintApart
<1> QED BY <1>1, <1>3, <1>4, <1>5 DEF IInv

(***************************************************************************)
(* Steps that write the table invoices.                                    *)
(***************************************************************************)

(* What remains to show of them.  Grows is what PreimageKept needs too.    *)
LEMMA InvoiceStep ==
    ASSUME NEW p \in Handlers, IInv, Grows,
           UNCHANGED <<zaps, comments, pendingZap, deliveries, world, told, cancels, errors>>,
           invoice' \in [Hashes -> Row \cup {NULL}],
           req' \in [Handlers -> Request],
           \A q \in Handlers \ {p} : req'[q] = req[q],
           req'[p].pc \in MintSteps => req[p].pc \in MintSteps /\ req'[p].hs = req[p].hs,
           RequestInv(p)',
           \A h \in Hashes : Settled(h)' =>
             h \in paid /\ invoice'[h].preimage = h /\ ~invoice'[h].expired,
           \A h \in Legacy : invoice'[h] # NULL => Settled(h)'
    PROVE  IInv'
<1>1. TypeOK'
  BY DEF IInv, TypeOK, world
<1>2. \A q \in Handlers : RequestInv(q)'
  BY <1>1, OthersKeep DEF world
<1>3. TablesInv'
  <2>1. StoredIsPaid' /\ PaidNotExpired'
    BY DEF StoredIsPaid, PaidNotExpired, world
  <2>2. QueuedIsSettled' /\ HandedIsRecorded'
    BY DEF IInv, TypeOK, TablesInv, QueuedIsSettled, HandedIsRecorded, Grows, Recorded, Settled, world
  <2>3. ToldIsStored'
    BY DEF IInv, TypeOK, TablesInv, ToldIsStored, Grows
  <2> QED BY <2>1, <2>2, <2>3 DEF IInv, TablesInv, world
<1>4. MintApart'
  BY StayApart DEF IInv
<1> QED BY <1>1, <1>2, <1>3, <1>4 DEF IInv

LEMMA UpsertType ==
    ASSUME NEW old \in Row \cup {NULL}, NEW new \in Row
    PROVE  /\ UpsertInvoice(old, new) \in Row
           /\ UpsertInvoice(old, new) # NULL
           /\ UpsertInvoice(old, new).preimage = new.preimage
           /\ UpsertInvoice(old, new).domain = new.domain
           /\ old # NULL /\ new.preimage # NULL => ~UpsertInvoice(old, new).expired
<1>1. CASE old = NULL
  BY <1>1, NullAssumption DEF UpsertInvoice
<1>2. CASE old # NULL
  <2> DEFINE e == IF new.preimage # NULL THEN FALSE ELSE new.expired \/ old.expired
             v == IF new.provider # NULL THEN new.provider ELSE old.provider
  <2>1. e \in BOOLEAN /\ (new.preimage # NULL => ~e)
    BY <1>2 DEF Row
  <2>2. v \in Providers \cup {NULL}
    BY <1>2 DEF Row
  <2>3. UpsertInvoice(old, new) = [new EXCEPT !.expired = e, !.provider = v]
    BY <1>2 DEF UpsertInvoice
  <2> HIDE DEF e, v
  <2>4. /\ [new EXCEPT !.expired = e, !.provider = v] \in Row
        /\ [new EXCEPT !.expired = e, !.provider = v].preimage = new.preimage
        /\ [new EXCEPT !.expired = e, !.provider = v].domain = new.domain
        /\ [new EXCEPT !.expired = e, !.provider = v].expired = e
    BY <2>1, <2>2 DEF Row
  <2> QED BY <2>1, <2>3, <2>4, NullAssumption
<1> QED BY <1>1, <1>2

(* The row of a minted invoice: nobody has paid it yet.                    *)
LEMMA MintInvoiceKeeps ==
    ASSUME NEW p \in Handlers, IInv, MintInvoice(p) PROVE IInv' /\ Grows
<1> PICK h \in Hashes : req[p].hs = {h}
  BY Facts DEF MintInvoice, At, RequestInv, MintInv, MintSteps
<1> DEFINE new == UpsertInvoice(invoice[h], req[p].row)
<1>1. /\ req[p].row \in Row /\ req[p].row.preimage = NULL /\ req[p].row.domain
      /\ h \in minted \ handed
  BY Facts DEF MintInvoice, At, RequestInv, MintInv, MintSteps
<1>2. new \in Row /\ new # NULL /\ new.preimage = NULL /\ new.domain
  BY <1>1, Facts, UpsertType
<1>3. h \notin paid /\ h \notin Legacy /\ ~Settled(h)
  BY <1>1 DEF IInv, TablesInv, StoredIsPaid
<1>4. \A g \in Hashes : invoice'[g] = IF g = h THEN new ELSE invoice[g]
  BY DEF MintInvoice
<1>5. invoice' \in [Hashes -> Row \cup {NULL}]
  BY <1>2, <1>4, Facts DEF MintInvoice
<1> HIDE DEF new
<1>6. Grows
  BY <1>2, <1>3, <1>4 DEF Grows, Settled, Recorded, MintInvoice, world
<1>7. RequestInv(p)'
  BY <1>2, <1>4, Facts, GotoFacts DEF MintInvoice, RequestInv, MintInv, ReportInv, BatchInv,
        AfterInv, At, MintSteps, ReportSteps, AfterSteps, Steps, Recorded, world
<1>8. /\ req' \in [Handlers -> Request] /\ \A q \in Handlers \ {p} : req'[q] = req[q]
      /\ req[p].pc \in MintSteps /\ req'[p].hs = req[p].hs
  BY Facts, GotoFacts DEF MintInvoice, Steps, MintSteps, At
<1>9. \A g \in Hashes : Settled(g)' =>
        g \in paid /\ invoice'[g].preimage = g /\ ~invoice'[g].expired
  BY <1>2, <1>4 DEF IInv, TablesInv, StoredIsPaid, PaidNotExpired, Settled
<1>10. \A g \in Legacy : invoice'[g] # NULL => Settled(g)'
  BY <1>3, <1>4, LegacyAssumption DEF IInv, TablesInv, Settled
<1> QED BY <1>5, <1>6, <1>7, <1>8, <1>9, <1>10, InvoiceStep DEF MintInvoice

(* The invoice is handed out when its row is there.                        *)
LEMMA MintAnswerKeeps ==
    ASSUME NEW p \in Handlers, IInv, MintAnswer(p) PROVE IInv' /\ Grows
<1>1. req' \in [Handlers -> Request] /\ req'[p] = Idle
      /\ \A q \in Handlers \ {p} : req'[q] = req[q]
  BY Facts, IdleType DEF MintAnswer, Finish
<1>2. TypeOK'
  BY <1>1, Facts DEF MintAnswer, IInv, TypeOK, db
<1>3. Grows
  BY SameInvoicesGrow DEF MintAnswer, db
<1>4. /\ req[p].pc \in MintSteps /\ handed' = handed \cup req[p].hs
      /\ req[p].hs \subseteq minted /\ \A h \in req[p].hs : Recorded(h)
  BY Facts DEF MintAnswer, At, MintSteps, RequestInv, MintInv
<1>5. \A q \in Handlers : RequestInv(q)'
  BY <1>1, <1>2, <1>3, <1>4, IdleRequest, OthersKeep
<1>6. TablesInv'
  BY <1>4 DEF MintAnswer, IInv, TablesInv, db, Settled, Recorded, StoredIsPaid, PaidNotExpired,
         QueuedIsSettled, ToldIsStored, HandedIsRecorded
<1>7. MintApart'
  BY <1>1, IdleRequest, StayApart DEF IInv
<1> QED BY <1>2, <1>3, <1>5, <1>6, <1>7 DEF IInv

LEMMA MarkExpiredKeeps ==
    ASSUME NEW p \in Handlers, IInv, MarkExpired(p) PROVE IInv' /\ Grows
<1>1. req' \in [Handlers -> Request] /\ req'[p] = Idle
      /\ \A q \in Handlers \ {p} : req'[q] = req[q]
  BY Facts, IdleType DEF MarkExpired, Finish
<1>2. \A h \in Hashes :
        invoice'[h] = IF h \in req[p].hs /\ invoice[h] # NULL /\ ~Settled(h)
                      THEN [invoice[h] EXCEPT !.expired = TRUE] ELSE invoice[h]
  BY DEF MarkExpired
<1>3. \A h \in Hashes : invoice[h] # NULL =>
        LET new == [invoice[h] EXCEPT !.expired = TRUE]
        IN  new \in Row /\ new # NULL /\ new.preimage = invoice[h].preimage
                        /\ new.domain = invoice[h].domain
  BY Facts, NullAssumption DEF Row
<1>4. invoice' \in [Hashes -> Row \cup {NULL}]
  BY <1>3, Facts DEF MarkExpired
<1>5. Grows
  BY <1>2, <1>3 DEF Grows, Settled, Recorded, MarkExpired, world
<1>6. \A h \in Hashes : Settled(h)' =>
        h \in paid /\ invoice'[h].preimage = h /\ ~invoice'[h].expired
  BY <1>2, <1>3 DEF IInv, TablesInv, StoredIsPaid, PaidNotExpired, Settled
<1>7. \A h \in Legacy : invoice'[h] # NULL => Settled(h)'
  BY <1>2, <1>3, LegacyAssumption DEF IInv, TablesInv, Settled
<1> QED BY <1>1, <1>4, <1>5, <1>6, <1>7, IdleRequest, InvoiceStep DEF MarkExpired

(* A report writes back a row it read earlier; the row may have been paid  *)
(* or marked expired since.                                                *)
LEMMA StorePreimageKeeps ==
    ASSUME NEW p \in Handlers, IInv, StorePreimage(p) PROVE IInv' /\ Grows
<1> PICK h \in Hashes : req[p].hs = {h}
  BY Facts DEF StorePreimage, At, RequestInv, ReportInv, ReportSteps
<1> DEFINE row == [req[p].row EXCEPT !.preimage = req[p].pre, !.amount = req[p].amt]
           new == UpsertInvoice(invoice[h], row)
<1>1. /\ req[p].row \in Row /\ req[p].row.domain /\ req[p].pre = h
      /\ h \in paid /\ h \notin Legacy /\ invoice[h] # NULL /\ req[p].src # "batch"
  BY Facts DEF StorePreimage, At, RequestInv, ReportInv, ReportSteps
<1>2. row \in Row /\ row.preimage = h /\ row.domain
  BY <1>1, Facts DEF Row, Request
<1> HIDE DEF row
<1>3. new \in Row /\ new # NULL /\ new.preimage = h /\ new.domain /\ ~new.expired
  <2>1. h # NULL
    BY NullAssumption DEF Preimages
  <2> QED BY <1>1, <1>2, <2>1, Facts, UpsertType
<1>4. \A g \in Hashes : invoice'[g] = IF g = h THEN new ELSE invoice[g]
  BY DEF StorePreimage, row
<1>5. invoice' \in [Hashes -> Row \cup {NULL}]
  BY <1>3, <1>4, Facts DEF StorePreimage
<1> HIDE DEF new
<1>6. /\ req' \in [Handlers -> Request] /\ \A q \in Handlers \ {p} : req'[q] = req[q]
      /\ req'[p].pc = "enqueue" /\ req'[p].src = req[p].src /\ req'[p].hs = {h}
      /\ req'[p].aff = {h}
  <2>1. /\ req'[p] = [req[p] EXCEPT !.pc = "enqueue", !.aff = {h}]
        /\ \A q \in Handlers \ {p} : req'[q] = req[q]
    BY Facts DEF StorePreimage
  <2>2. req'[p] \in Request
    <3>1. "enqueue" \in Steps /\ {h} \in SUBSET Hashes /\ req[p] \in Request
      BY Facts DEF Steps
    <3>2. [req[p] EXCEPT !.pc = "enqueue", !.aff = {h}] \in Request
      BY <3>1, AffectedType, Zenon
    <3> QED BY <2>1, <3>2, Zenon
  <2>3. req' \in [Handlers -> Request]
    BY <2>1, <2>2, Facts DEF StorePreimage
  <2> QED BY <2>1, <2>3, Facts DEF Request
<1>n. h # NULL
  BY NullAssumption DEF Preimages
<1>7. Grows
  BY <1>3, <1>4, <1>n DEF Grows, Settled, Recorded, StorePreimage, world, IInv, TablesInv, StoredIsPaid
<1>8. RequestInv(p)'
  BY <1>3, <1>4, <1>6, <1>n DEF RequestInv, MintInv, ReportInv, BatchInv,
        AfterInv, At, MintSteps, ReportSteps, AfterSteps, Settled
<1>9. \A g \in Hashes : Settled(g)' =>
        g \in paid /\ invoice'[g].preimage = g /\ ~invoice'[g].expired
  BY <1>1, <1>3, <1>4 DEF IInv, TablesInv, StoredIsPaid, PaidNotExpired, Settled
<1>10. \A g \in Legacy : invoice'[g] # NULL => Settled(g)'
  BY <1>1, <1>4, LegacyAssumption DEF IInv, TablesInv, Settled
<1>11. req'[p].pc \notin MintSteps
  BY <1>6 DEF MintSteps
<1> QED BY <1>5, <1>6, <1>7, <1>8, <1>9, <1>10, <1>11, InvoiceStep DEF StorePreimage

(* A batch inserts a row only for a hash whose invoice was handed out      *)
(* before the table knew it, and otherwise only fills in the preimage.     *)
LEMMA UpsertInvoicesPaidKeeps ==
    ASSUME NEW p \in Handlers, IInv, UpsertInvoicesPaid(p) PROVE IInv' /\ Grows
<1> DEFINE A == Affected(p)
           paidRow(g) == PaidRow(invoice[g], g, req[p].user)
<1>1. req[p].hs \subseteq paid /\ req[p].src = "batch" /\ req[p].user \in Users \cup {Nobody}
  BY Facts DEF UpsertInvoicesPaid, At, RequestInv, BatchInv, Request
<1>2. A \subseteq req[p].hs /\ \A g \in A : ~Settled(g)
  BY DEF Affected, Settled
<1>3. \A g \in A : g \in Hashes /\ g \in paid /\ (invoice[g] = NULL => g \in Legacy)
  BY <1>1, <1>2, Facts DEF IInv, TablesInv, HandedIsRecorded
<1>4. ASSUME NEW g \in Hashes
      PROVE  /\ paidRow(g) \in Row /\ paidRow(g) # NULL /\ paidRow(g).preimage = g
             /\ ~paidRow(g).expired
             /\ invoice[g] # NULL => paidRow(g).domain = invoice[g].domain
  <2>1. paidRow(g) \in Row
    BY <1>1, Facts DEF PaidRow, Row, Preimages, Amounts
  <2> QED BY <2>1, Facts, NullAssumption DEF PaidRow, Row
<1>5. \A g \in Hashes : invoice'[g] = IF g \in A THEN paidRow(g) ELSE invoice[g]
  BY DEF UpsertInvoicesPaid
<1>6. invoice' \in [Hashes -> Row \cup {NULL}]
  <2>1. invoice' = [g \in Hashes |-> IF g \in A THEN paidRow(g) ELSE invoice[g]]
    BY DEF UpsertInvoicesPaid
  <2> HIDE DEF A, paidRow
  <2> QED BY <1>4, <2>1, Facts
<1>7. /\ req' \in [Handlers -> Request] /\ \A q \in Handlers \ {p} : req'[q] = req[q]
      /\ req'[p].pc \in {"notify", "enqueue"} /\ req'[p].src = "batch"
      /\ req'[p].hs = req[p].hs /\ req'[p].aff = A
  <2>1. req' = [req EXCEPT ![p].pc = IF A = {} THEN "notify" ELSE "enqueue", ![p].aff = A]
    BY DEF UpsertInvoicesPaid
  <2>2. A \subseteq Hashes
    BY <1>3
  <2> HIDE DEF A
  <2> QED BY <1>1, <2>1, <2>2, Facts DEF Request, Steps
<1> HIDE DEF A, paidRow
<1>n. NULL \notin Hashes
  BY NullAssumption DEF Preimages
<1>8. \A g \in A : Settled(g)'
  BY <1>3, <1>4, <1>5, <1>n DEF Settled
<1>9. Grows
  BY <1>2, <1>4, <1>5 DEF Grows, Settled, Recorded, UpsertInvoicesPaid, world
<1>10. RequestInv(p)'
  BY <1>7, <1>8 DEF RequestInv, MintInv, ReportInv, BatchInv,
        AfterInv, At, MintSteps, ReportSteps, AfterSteps
<1>11. \A g \in Hashes : Settled(g)' =>
        g \in paid /\ invoice'[g].preimage = g /\ ~invoice'[g].expired
  BY <1>3, <1>4, <1>5 DEF IInv, TablesInv, StoredIsPaid, PaidNotExpired, Settled
<1>12. \A g \in Legacy : invoice'[g] # NULL => Settled(g)'
  BY <1>5, <1>8, LegacyAssumption DEF IInv, TablesInv, Settled
<1>13. req'[p].pc \notin MintSteps
  BY <1>7 DEF MintSteps
<1> QED BY <1>6, <1>7, <1>9, <1>10, <1>11, <1>12, <1>13, InvoiceStep DEF UpsertInvoicesPaid

(***************************************************************************)
(* The theorems.                                                           *)
(***************************************************************************)
LEMMA InitInv == Init => IInv
<1> SUFFICES ASSUME Init PROVE IInv
  OBVIOUS
<1> USE DEF Init
<1>1. PICK owner \in [Legacy -> Users] :
        zaps = [h \in Hashes |-> IF h \in Legacy THEN owner[h] ELSE NULL]
  OBVIOUS
<1>2. TypeOK
  BY <1>1, IdleType, LegacyAssumption, BoundsAssumption DEF TypeOK
<1>3. TablesInv
  BY LegacyAssumption DEF TablesInv, Settled, StoredIsPaid, PaidNotExpired, QueuedIsSettled,
     ToldIsStored, HandedIsRecorded
<1>4. \A p \in Handlers : RequestInv(p) /\ req[p].pc \notin MintSteps
  BY DEF RequestInv, MintInv, ReportInv, BatchInv, AfterInv, At, Idle, MintSteps,
         ReportSteps, AfterSteps
<1>5. MintApart
  BY <1>4 DEF MintApart
<1> QED BY <1>2, <1>3, <1>4, <1>5 DEF IInv

LEMMA NextInv == IInv /\ [Next]_vars => IInv' /\ Grows
<1> SUFFICES ASSUME IInv, [Next]_vars PROVE IInv' /\ Grows
  OBVIOUS
<1>1. CASE UNCHANGED vars
  <2>1. UNCHANGED <<invoice, zaps, comments, pendingZap, deliveries, req, minted, handed, paid,
                    lapsed, told, cancels, errors>>
    BY <1>1 DEF vars, db, world
  <2>2. Grows
    BY <2>1, SameInvoicesGrow
  <2>3. TypeOK' /\ TablesInv' /\ MintApart'
    BY <2>1 DEF IInv, TypeOK, TablesInv, MintApart, Settled, StoredIsPaid, PaidNotExpired,
         QueuedIsSettled, ToldIsStored, HandedIsRecorded
  <2>4. \A p \in Handlers : RequestInv(p)'
    <3> SUFFICES ASSUME NEW p \in Handlers PROVE RequestInv(p)'
      OBVIOUS
    <3>1. req[p].pc \in MintSteps => req[p].hs \cap handed' = {}
      BY <2>1 DEF IInv, RequestInv, MintInv
    <3> QED BY <2>1, <2>2, <3>1, GrowsKeepsRequest DEF IInv
  <2> QED BY <2>2, <2>3, <2>4 DEF IInv
<1>2. ASSUME NEW h \in Hashes, Pay(h) \/ Lapse(h) PROVE IInv' /\ Grows
  BY <1>2, LightningKeeps, SameInvoicesGrow DEF Pay, Lapse, db
<1>3. ASSUME NEW p \in Handlers, Arrive(p) PROVE IInv' /\ Grows
  <2>1. UNCHANGED <<invoice, paid>> /\ minted \subseteq minted'
    BY <1>3 DEF Arrive, MintRequest, BlinkWebhookPaid, BlinkWebhookExpired, Verify,
         SspWebhook, InvoicePaid, PublishZapReceipt, InvoicesPaid, db, world
  <2> QED BY <1>3, <2>1, Arrivals, SameInvoicesGrow
<1>4. ASSUME NEW p \in Handlers, MintStep(p) PROVE IInv' /\ Grows
  <2>1. CASE MintZap(p)
    BY <2>1, MintZapKeeps, SameInvoicesGrow DEF MintZap, world
  <2>2. CASE MintComment(p)
    BY <2>2, MintCommentKeeps, SameInvoicesGrow DEF MintComment, world
  <2> QED BY <1>4, <2>1, <2>2, MintInvoiceKeeps, MintAnswerKeeps DEF MintStep
<1>5. ASSUME NEW p \in Handlers, RouteStep(p) PROVE IInv' /\ Grows
  <2>1. CASE MarkExpired(p)
    BY <2>1, MarkExpiredKeeps
  <2>2. CASE ~MarkExpired(p)
    <3>1. UNCHANGED <<db, world>>
      BY <1>5, <2>2 DEF RouteStep, VerifyRead, Lookup, LookupZap, StatusSettled, StatusExpired,
           StatusOther
    <3>2. Grows
      BY <3>1, SameInvoicesGrow DEF db, world
    <3> QED BY <1>5, <2>2, <3>2, VerifyReadKeeps, RoutesKeep, StatusSettledKeeps DEF RouteStep
  <2> QED BY <2>1, <2>2
<1>6. ASSUME NEW p \in Handlers, SettleStep(p) PROVE IInv' /\ Grows
  <2>1. CASE StorePreimage(p) \/ UpsertInvoicesPaid(p)
    BY <2>1, StorePreimageKeeps, UpsertInvoicesPaidKeeps
  <2>2. CASE ~(StorePreimage(p) \/ UpsertInvoicesPaid(p))
    <3>1. UNCHANGED <<invoice, world>>
      BY <1>6, <2>2 DEF SettleStep, ReadInvoice, FilterKnown, EnqueueZap, GetPayloads,
           InsertDeliveries, Answer, db
    <3>2. Grows
      BY <3>1, SameInvoicesGrow DEF world
    <3> QED BY <1>6, <2>2, <3>2, ReadInvoiceKeeps, FilterKnownKeeps, EnqueueZapKeeps,
          GetPayloadsKeeps, InsertDeliveriesKeeps, AnswerKeeps DEF SettleStep
  <2> QED BY <2>1, <2>2
<1>7. ASSUME NEW p \in Handlers, NotifyFails(p) \/ Cancel(p) PROVE IInv' /\ Grows
  <2>1. UNCHANGED <<db, world>>
    BY <1>7 DEF NotifyFails, Cancel
  <2> QED BY <1>7, <2>1, NotifyFailsKeeps, CancelKeeps, SameInvoicesGrow DEF db, world
<1> QED BY <1>1, <1>2, <1>3, <1>4, <1>5, <1>6, <1>7 DEF Next

LEMMA Invariance == Spec => []IInv
<1>1. IInv /\ [Next]_vars => IInv'
  BY NextInv
<1> QED BY InitInv, <1>1, PTL DEF Spec

(* The tables and every request's local state keep their types.            *)
THEOREM TypeCorrect == Spec => []TypeOK
<1>1. IInv => TypeOK
  BY DEF IInv
<1> QED BY Invariance, <1>1, PTL

(* A preimage in the table invoices opens its payment hash and the invoice *)
(* was paid, whoever stored it (handle_invoice_paid, handle_invoices_paid).*)
THEOREM StoredPreimagesAreGenuine == Spec => []StoredIsPaid
<1>1. IInv => StoredIsPaid
  BY DEF IInv, TablesInv
<1> QED BY Invariance, <1>1, PTL

(* mark_invoice_expired, racing with a settlement, never leaves a paid     *)
(* invoice expired.                                                        *)
THEOREM PaidInvoicesDoNotExpire == Spec => []PaidNotExpired
<1>1. IInv => PaidNotExpired
  BY DEF IInv, TablesInv
<1> QED BY Invariance, <1>1, PTL

(* Zap receipts and webhooks are queued for settled invoices only.         *)
THEOREM QueuedAreSettled == Spec => []QueuedIsSettled
<1>1. IInv => QueuedIsSettled
  BY DEF IInv, TablesInv
<1> QED BY Invariance, <1>1, PTL

(* Whoever the server told that an invoice is settled was told so after    *)
(* the preimage was stored, by that report or by another.                  *)
THEOREM ConfirmedAreSettled == Spec => []ToldIsStored
<1>1. IInv => ToldIsStored
  BY DEF IInv, TablesInv
<1> QED BY Invariance, <1>1, PTL

(* A payer never holds an invoice the server has no row of (the minting    *)
(* callback stores before it answers).                                     *)
THEOREM HandedInvoicesAreRecorded == Spec => []HandedIsRecorded
<1>1. IInv => HandedIsRecorded
  BY DEF IInv, TablesInv
<1> QED BY Invariance, <1>1, PTL

(* No write to the table invoices loses or replaces a stored preimage,     *)
(* although upsert_invoice overwrites the whole row.                       *)
THEOREM PreimagesAreKept == Spec => PreimageKept
<1>1. IInv /\ [Next]_vars =>
        [\A h \in Hashes : Settled(h) =>
            /\ invoice'[h] # NULL
            /\ invoice'[h].preimage = invoice[h].preimage]_vars
  BY NextInv DEF Grows, Settled
<1> QED BY Invariance, <1>1, PTL DEF Spec, PreimageKept

(***************************************************************************)
(* Whose invoice it is.  OwnersOnly, and that the tables change as the     *)
(* adapter's contract says, need more of the requests: that the row of a   *)
(* new invoice is its recipient's and that no one else writes it, and that *)
(* the row a report writes back is still the stored one except for what    *)
(* the report is about.                                                    *)
(***************************************************************************)

(* A zap row belongs to the recipient of its invoice.  Rows from before    *)
(* the table invoices existed are in Legacy.                               *)
OwnedTables ==
    /\ \A h \in Hashes : invoice[h] # NULL \/ zaps[h] # NULL => h \in minted
    /\ \A h \in Hashes \ Legacy :
         invoice[h] # NULL /\ zaps[h] # NULL => invoice[h].user = zaps[h]

MintOwns(p) ==
    /\ req[p].pc \in MintSteps => req[p].src = "mint"
    /\ req[p].pc \in MintSteps \ {"answer_pr"} =>
         /\ req[p].row \in Store!NewInvoices
         /\ req[p].row.user = req[p].user
         /\ \A h \in req[p].hs : invoice[h] = NULL /\ zaps[h] \in {NULL, req[p].user}

(* Which report is at which step, and what it has found out by then.       *)
ReportOwns(p) ==
    /\ At(p, "verify") => req[p].src = "verify"
    /\ At(p, "lookup") => req[p].src \notin {"zap", "batch"}
    /\ At(p, "lookup_zap") => req[p].src = "zap" /\ req[p].user \in Users
    /\ At(p, "mark") => req[p].src = "expire"
    /\ req[p].pc \in {"status", "read", "store"} =>
         /\ req[p].src = "client" =>
              \A h \in req[p].hs : invoice[h] # NULL /\ invoice[h].user = req[p].user
         /\ req[p].src = "zap" =>
              req[p].user \in Users /\ \A h \in req[p].hs : zaps[h] = req[p].user

(* The row read is the row stored, but for preimage, amount and expiry.    *)
SameInvoice(a, b) == a.user = b.user /\ a.provider = b.provider /\ a.domain = b.domain

StoreOwns(p) ==
    At(p, "store") => \A h \in req[p].hs :
        invoice[h] # NULL /\ SameInvoice(req[p].row, invoice[h])

BatchOwns(p) ==
    /\ req[p].pc \in {"filter", "upsert_paid"} => req[p].user \in Users
    /\ At(p, "upsert_paid") => req[p].hs \subseteq Known

Owns(p) == MintOwns(p) /\ ReportOwns(p) /\ StoreOwns(p) /\ BatchOwns(p)

OInv == OwnedTables /\ \A p \in Handlers : Owns(p)

(* What one step does to rows that are there.                              *)
RowsStay ==
    /\ \A h \in Hashes : invoice[h] # NULL =>
         invoice'[h] # NULL /\ SameInvoice(invoice'[h], invoice[h])
    /\ \A h \in Hashes : zaps[h] # NULL => zaps'[h] = zaps[h]
    /\ comments \subseteq comments' /\ minted \subseteq minted'

(* A request that does not move keeps what it has found out, provided that *)
(* nobody writes the rows of the invoice it is minting.                    *)
LEMMA StayKeepsOwner ==
    ASSUME NEW q \in Handlers, TypeOK, Owns(q), RowsStay, req'[q] = req[q],
           req[q].pc \in MintSteps =>
             \A h \in req[q].hs : invoice'[h] = invoice[h] /\ zaps'[h] = zaps[h]
    PROVE  Owns(q)'
<1> USE DEF At
<1>h. req[q].hs \subseteq Hashes
  BY DEF TypeOK, Request
<1>1. MintOwns(q)'
  BY <1>h DEF Owns, MintOwns, Store!NewInvoices
<1>2. ReportOwns(q)'
  BY <1>h, NullAssumption DEF Owns, ReportOwns, RowsStay, SameInvoice
<1>3. StoreOwns(q)'
  BY <1>h DEF Owns, StoreOwns, RowsStay, SameInvoice
<1>4. BatchOwns(q)'
  BY <1>h DEF Owns, BatchOwns, RowsStay, Known
<1> QED BY <1>1, <1>2, <1>3, <1>4 DEF Owns

(* What is left to show of the step of a request p.                        *)
LEMMA OwnersStep ==
    ASSUME NEW p \in Handlers, IInv, OInv, RowsStay,
           \A q \in Handlers \ {p} : req'[q] = req[q],
           \A q \in Handlers \ {p} : req[q].pc \in MintSteps =>
             \A h \in req[q].hs : invoice'[h] = invoice[h] /\ zaps'[h] = zaps[h],
           OwnedTables', Owns(p)'
    PROVE  OInv'
<1>1. \A q \in Handlers \ {p} : Owns(q)'
  BY StayKeepsOwner DEF IInv, OInv
<1> QED BY <1>1 DEF OInv

(* The tables stay as they are.                                            *)
LEMMA SameRowsStay ==
    ASSUME UNCHANGED db, minted \subseteq minted'
    PROVE  RowsStay /\ (OwnedTables => OwnedTables')
BY DEF RowsStay, OwnedTables, SameInvoice, db

LEMMA OwnersMove ==
    ASSUME NEW p \in Handlers, IInv, OInv, UNCHANGED db, minted \subseteq minted',
           \A q \in Handlers \ {p} : req'[q] = req[q], Owns(p)'
    PROVE  OInv'
BY SameRowsStay, OwnersStep DEF OInv, db

(* Past the store, and between requests, nothing is relied on.             *)
LEMMA AfterOwns ==
    ASSUME NEW p \in Handlers, req'[p].pc \in AfterSteps \cup {"idle"}
    PROVE  Owns(p)'
<1>1. /\ req'[p].pc \notin MintSteps
      /\ req'[p].pc \notin {"verify", "lookup", "lookup_zap", "mark", "status", "read", "store",
                            "filter", "upsert_paid"}
  BY DEF AfterSteps, MintSteps
<1> QED BY <1>1 DEF Owns, MintOwns, ReportOwns, StoreOwns, BatchOwns, At

LEMMA FinishOwns ==
    ASSUME NEW p \in Handlers, IInv, Finish(p)
    PROVE  Owns(p)' /\ \A q \in Handlers \ {p} : req'[q] = req[q]
<1>1. req'[p] = Idle /\ \A q \in Handlers \ {p} : req'[q] = req[q]
  BY Facts DEF Finish
<1> QED BY <1>1, AfterOwns DEF Idle

(* What p has, with nothing but its pc changed, spelled out.               *)
LEMMA GotoKeeps ==
    ASSUME NEW p \in Handlers, NEW pc \in Steps, IInv, Goto(p, pc)
    PROVE  /\ \A q \in Handlers \ {p} : req'[q] = req[q]
           /\ req'[p].pc = pc /\ req'[p].src = req[p].src /\ req'[p].hs = req[p].hs
           /\ req'[p].pre = req[p].pre /\ req'[p].row = req[p].row
           /\ req'[p].user = req[p].user
BY Facts DEF Goto, Request

(* Requests that arrive have found out nothing yet, and say what they are. *)
LEMMA ReportArrivesOwns ==
    ASSUME NEW p \in Handlers, IInv, OInv, UNCHANGED <<db, world>>,
           NEW pc \in {"verify", "lookup", "lookup_zap", "filter"}, NEW src, NEW hs,
           NEW user, NEW pre, NEW amt,
           Start(p, pc, src, hs, user, pre, amt, NULL),
           pc = "verify" => src = "verify",
           pc = "lookup" => src \notin {"zap", "batch"},
           pc = "lookup_zap" => src = "zap" /\ user \in Users,
           pc = "filter" => user \in Users
    PROVE  OInv'
<1>1. /\ \A q \in Handlers \ {p} : req'[q] = req[q]
      /\ req'[p].pc = pc /\ req'[p].src = src /\ req'[p].user = user
  BY Facts DEF Start
<1>2. MintOwns(p)' /\ StoreOwns(p)'
  BY <1>1 DEF MintOwns, StoreOwns, MintSteps, At
<1>3. ReportOwns(p)' /\ BatchOwns(p)'
  BY <1>1 DEF ReportOwns, BatchOwns, At
<1> QED BY <1>1, <1>2, <1>3, OwnersMove DEF Owns, world

LEMMA MintArrivesOwns ==
    ASSUME NEW p \in Handlers, IInv, OInv, MintRequest(p) PROVE OInv'
<1> PICK h \in Hashes \ minted, user \in Users \cup {Nobody} :
      /\ Start(p, "upsert_zap", "mint", {h}, user, NULL, NULL, CreateInvoice(user))
      /\ minted' = minted \cup {h} /\ UNCHANGED db
  BY DEF MintRequest
<1>1. CreateInvoice(user) \in Store!NewInvoices /\ CreateInvoice(user).user = user
  BY DEF CreateInvoice, Store!NewInvoices
<1>2. /\ \A q \in Handlers \ {p} : req'[q] = req[q]
      /\ req'[p].pc = "upsert_zap" /\ req'[p].src = "mint" /\ req'[p].hs = {h}
      /\ req'[p].user = user /\ req'[p].row = CreateInvoice(user)
  BY Facts DEF Start
<1>3. invoice'[h] = NULL /\ zaps'[h] = NULL
  BY DEF OInv, OwnedTables, db
<1>4. MintOwns(p)'
  BY <1>1, <1>2, <1>3 DEF MintOwns, Store!NewInvoices
<1>5. ReportOwns(p)' /\ StoreOwns(p)' /\ BatchOwns(p)'
  BY <1>2 DEF ReportOwns, StoreOwns, BatchOwns, At
<1> QED BY <1>2, <1>4, <1>5, OwnersMove DEF Owns

LEMMA ArrivalsOwn ==
    ASSUME NEW p \in Handlers, IInv, OInv, Arrive(p) PROVE OInv'
<1>1. ASSUME NEW h \in Hashes, BlinkWebhookPaid(p, h) PROVE OInv'
  BY <1>1, ReportArrivesOwns DEF BlinkWebhookPaid
<1>2. ASSUME NEW h \in Hashes, BlinkWebhookExpired(p, h) PROVE OInv'
  BY <1>2, ReportArrivesOwns DEF BlinkWebhookExpired
<1>3. ASSUME NEW h \in Hashes, Verify(p, h) PROVE OInv'
  BY <1>3, ReportArrivesOwns DEF Verify
<1>4. ASSUME NEW h \in Hashes, NEW u \in Users, SspWebhook(p, h, u) PROVE OInv'
  BY <1>4, ReportArrivesOwns DEF SspWebhook
<1>5. ASSUME NEW h \in Hashes, NEW u \in Users, InvoicePaid(p, h, u) PROVE OInv'
  BY <1>5, ReportArrivesOwns DEF InvoicePaid
<1>6. ASSUME NEW h \in Hashes, NEW u \in Users, PublishZapReceipt(p, h, u) PROVE OInv'
  BY <1>6, ReportArrivesOwns DEF PublishZapReceipt
<1>7. ASSUME NEW hs \in SUBSET Hashes, NEW u \in Users, InvoicesPaid(p, hs, u) PROVE OInv'
  BY <1>7, ReportArrivesOwns DEF InvoicesPaid
<1> QED BY <1>1, <1>2, <1>3, <1>4, <1>5, <1>6, <1>7, MintArrivesOwns DEF Arrive

(***************************************************************************)
(* Steps of a route.                                                       *)
(***************************************************************************)

(* A route goes on once the invoice, or the zap row, is the reporter's.    *)
LEMMA LookupOwns ==
    ASSUME NEW p \in Handlers, IInv, OInv, Lookup(p) \/ LookupZap(p) PROVE OInv'
<1> PICK h \in Hashes : req[p].hs = {h}
  BY Facts DEF Lookup, LookupZap, At, RequestInv, ReportInv, ReportSteps
<1>h. TheHash(p) = h
  BY OneHash
<1>u. UNCHANGED <<db, world>>
  BY DEF Lookup, LookupZap
<1>1. CASE Finish(p)
  BY <1>1, <1>u, FinishOwns, OwnersMove DEF world
<1>2. ASSUME NEW pc \in {"read", "status"}, Goto(p, pc),
             req[p].src = "client" => invoice[h] # NULL /\ invoice[h].user = req[p].user,
             req[p].src = "zap" => req[p].user \in Users /\ zaps[h] = req[p].user
      PROVE  OInv'
  <2>1. /\ \A q \in Handlers \ {p} : req'[q] = req[q]
        /\ req'[p].pc = pc /\ req'[p].src = req[p].src /\ req'[p].hs = {h}
        /\ req'[p].user = req[p].user
    BY <1>2, GotoKeeps DEF Steps
  <2>2. MintOwns(p)' /\ StoreOwns(p)' /\ BatchOwns(p)'
    BY <2>1 DEF MintOwns, StoreOwns, BatchOwns, MintSteps, At
  <2>3. ReportOwns(p)'
    BY <1>2, <1>u, <2>1 DEF ReportOwns, At, db
  <2> QED BY <1>u, <2>1, <2>2, <2>3, OwnersMove DEF Owns, world
<1>3. CASE Lookup(p)
  <2>1. req[p].src # "zap"
    BY <1>3 DEF Lookup, OInv, Owns, ReportOwns
  <2> QED BY <1>1, <1>2, <1>3, <1>h, <2>1 DEF Lookup
<1>4. CASE LookupZap(p)
  <2>1. req[p].src = "zap" /\ req[p].user \in Users
    BY <1>4 DEF LookupZap, OInv, Owns, ReportOwns
  <2> QED BY <1>1, <1>2, <1>4, <1>h, <2>1 DEF LookupZap
<1> QED BY <1>3, <1>4

LEMMA VerifyReadOwns ==
    ASSUME NEW p \in Handlers, IInv, OInv, VerifyRead(p) PROVE OInv'
<1>u. UNCHANGED <<db, world>>
  BY DEF VerifyRead
<1>1. CASE Finish(p)
  BY <1>1, <1>u, FinishOwns, OwnersMove DEF world
<1>2. CASE Goto(p, "lookup")
  <2>1. /\ \A q \in Handlers \ {p} : req'[q] = req[q]
        /\ req'[p].pc = "lookup" /\ req'[p].src = req[p].src
    BY <1>2, GotoKeeps DEF Steps
  <2>2. req[p].src = "verify"
    BY DEF VerifyRead, OInv, Owns, ReportOwns
  <2>3. Owns(p)'
    BY <2>1, <2>2 DEF Owns, MintOwns, ReportOwns, StoreOwns, BatchOwns, MintSteps, At
  <2> QED BY <1>u, <2>1, <2>3, OwnersMove DEF world
<1> QED BY <1>1, <1>2 DEF VerifyRead

LEMMA StatusOwns ==
    ASSUME NEW p \in Handlers, IInv, OInv,
           StatusSettled(p) \/ StatusExpired(p) \/ StatusOther(p)
    PROVE  OInv'
<1>u. UNCHANGED <<db, world>>
  BY DEF StatusSettled, StatusExpired, StatusOther
<1>1. CASE StatusSettled(p)
  <2> PICK h \in req[p].hs \cap paid, amt \in Amounts :
        req' = [req EXCEPT ![p].pc = "read", ![p].pre = h, ![p].amt = amt]
    BY <1>1 DEF StatusSettled
  <2>1. /\ \A q \in Handlers \ {p} : req'[q] = req[q]
        /\ req'[p] = [req[p] EXCEPT !.pc = "read", !.pre = h, !.amt = amt]
    BY Facts
  <2>2. /\ req'[p].pc = "read" /\ req'[p].src = req[p].src /\ req'[p].hs = req[p].hs
        /\ req'[p].user = req[p].user
    BY <2>1, Facts DEF Request
  <2>3. At(p, "status") /\ ReportOwns(p)
    BY <1>1 DEF StatusSettled, OInv, Owns
  <2>4. MintOwns(p)' /\ StoreOwns(p)' /\ BatchOwns(p)'
    BY <2>2 DEF MintOwns, StoreOwns, BatchOwns, MintSteps, At
  <2>5. ReportOwns(p)'
    BY <1>u, <2>2, <2>3 DEF ReportOwns, At, db
  <2> QED BY <1>u, <2>1, <2>4, <2>5, OwnersMove DEF Owns, world
<1>2. CASE StatusExpired(p)
  <2>1. /\ \A q \in Handlers \ {p} : req'[q] = req[q]
        /\ req'[p].pc = "mark" /\ req'[p].src = "expire"
    BY <1>2, GotoKeeps DEF StatusExpired, Steps
  <2>2. Owns(p)'
    BY <2>1 DEF Owns, MintOwns, ReportOwns, StoreOwns, BatchOwns, MintSteps, At
  <2> QED BY <1>u, <2>1, <2>2, OwnersMove DEF world
<1>3. CASE StatusOther(p)
  BY <1>3, <1>u, FinishOwns, OwnersMove DEF StatusOther, world
<1> QED BY <1>1, <1>2, <1>3

(* The row that will be written back is the row stored.                    *)
LEMMA ReadInvoiceOwns ==
    ASSUME NEW p \in Handlers, IInv, OInv, ReadInvoice(p) PROVE OInv'
<1> PICK h \in Hashes : req[p].hs = {h}
  BY Facts DEF ReadInvoice, At, RequestInv, ReportInv, ReportSteps
<1>h. TheHash(p) = h
  BY OneHash
<1>u. UNCHANGED <<db, world>>
  BY DEF ReadInvoice
<1>1. CASE Finish(p)
  BY <1>1, <1>u, FinishOwns, OwnersMove DEF world
<1>2. CASE Goto(p, "notify")
  <2>1. req'[p].pc \in AfterSteps /\ \A q \in Handlers \ {p} : req'[q] = req[q]
    BY <1>2, GotoKeeps DEF Steps, AfterSteps
  <2> QED BY <1>u, <2>1, AfterOwns, OwnersMove DEF world
<1>3. CASE invoice[h] # NULL /\ req' = [req EXCEPT ![p].pc = "store", ![p].row = invoice[h]]
  <2>1. /\ \A q \in Handlers \ {p} : req'[q] = req[q]
        /\ req'[p].pc = "store" /\ req'[p].src = req[p].src /\ req'[p].hs = {h}
        /\ req'[p].user = req[p].user /\ req'[p].row = invoice[h]
    BY <1>3, Facts DEF Request
  <2>2. At(p, "read") /\ ReportOwns(p)
    BY DEF ReadInvoice, OInv, Owns
  <2>3. MintOwns(p)' /\ BatchOwns(p)'
    BY <2>1 DEF MintOwns, BatchOwns, MintSteps, At
  <2>4. ReportOwns(p)'
    BY <1>u, <2>1, <2>2 DEF ReportOwns, At, db
  <2>5. StoreOwns(p)'
    BY <1>3, <1>u, <2>1 DEF StoreOwns, SameInvoice, db
  <2> QED BY <1>u, <2>1, <2>3, <2>4, <2>5, OwnersMove DEF Owns, world
<1> QED BY <1>1, <1>2, <1>3, <1>h DEF ReadInvoice

LEMMA FilterKnownOwns ==
    ASSUME NEW p \in Handlers, IInv, OInv, FilterKnown(p) PROVE OInv'
<1>u. UNCHANGED <<db, world>>
  BY DEF FilterKnown
<1>1. CASE Finish(p)
  BY <1>1, <1>u, FinishOwns, OwnersMove DEF world
<1>2. CASE req' = [req EXCEPT ![p].pc = "upsert_paid", ![p].hs = @ \cap Known]
  <2>1. /\ \A q \in Handlers \ {p} : req'[q] = req[q]
        /\ req'[p].pc = "upsert_paid" /\ req'[p].hs \subseteq Known
        /\ req'[p].user = req[p].user
    BY <1>2, Facts DEF Request
  <2>2. req[p].user \in Users
    BY DEF FilterKnown, At, OInv, Owns, BatchOwns
  <2>3. BatchOwns(p)'
    BY <1>u, <2>1, <2>2 DEF BatchOwns, At, Known, db
  <2>4. MintOwns(p)' /\ ReportOwns(p)' /\ StoreOwns(p)'
    BY <2>1 DEF MintOwns, ReportOwns, StoreOwns, MintSteps, At
  <2> QED BY <1>u, <2>1, <2>3, <2>4, OwnersMove DEF Owns, world
<1> QED BY <1>1, <1>2 DEF FilterKnown

(***************************************************************************)
(* Steps that write a table.                                               *)
(***************************************************************************)

(* A minting request writes rows that no other request is minting.         *)
LEMMA OthersMint ==
    ASSUME NEW p \in Handlers, IInv, req[p].pc \in MintSteps,
           NEW q \in Handlers \ {p}, req[q].pc \in MintSteps
    PROVE  req[q].hs \cap req[p].hs = {}
BY DEF IInv, MintApart

LEMMA MintZapOwns ==
    ASSUME NEW p \in Handlers, IInv, OInv, MintZap(p) PROVE OInv'
<1> PICK h \in Hashes : req[p].hs = {h}
  BY Facts DEF MintZap, At, RequestInv, MintInv, MintSteps
<1>1. /\ req[p].pc \in MintSteps /\ h \in minted
      /\ req[p].src = "mint" /\ req[p].row \in Store!NewInvoices /\ req[p].row.user = req[p].user
      /\ invoice[h] = NULL /\ zaps[h] \in {NULL, req[p].user}
  BY Facts DEF MintZap, At, RequestInv, MintInv, MintSteps, OInv, Owns, MintOwns
<1>2. \A g \in Hashes : zaps'[g] = zaps[g] \/ (g = h /\ zaps'[g] = req[p].user)
  BY DEF MintZap
<1>3. UNCHANGED <<invoice, comments, world>>
  BY DEF MintZap
<1>4. RowsStay
  BY <1>1, <1>2, <1>3 DEF RowsStay, SameInvoice, world
<1>5. OwnedTables'
  BY <1>1, <1>2, <1>3 DEF OInv, OwnedTables, world
<1>6. /\ \A q \in Handlers \ {p} : req'[q] = req[q]
      /\ req'[p].pc = "insert_comment" /\ req'[p].src = "mint" /\ req'[p].hs = {h}
      /\ req'[p].user = req[p].user /\ req'[p].row = req[p].row
  BY <1>1, GotoKeeps DEF MintZap, Steps
<1>7. MintOwns(p)'
  BY <1>1, <1>2, <1>3, <1>6 DEF MintOwns, Store!NewInvoices
<1>8. ReportOwns(p)' /\ StoreOwns(p)' /\ BatchOwns(p)'
  BY <1>6 DEF ReportOwns, StoreOwns, BatchOwns, At
<1>9. ASSUME NEW q \in Handlers \ {p}, req[q].pc \in MintSteps
      PROVE  \A g \in req[q].hs : invoice'[g] = invoice[g] /\ zaps'[g] = zaps[g]
  BY <1>1, <1>2, <1>3, <1>9, OthersMint, Facts
<1> QED BY <1>4, <1>5, <1>6, <1>7, <1>8, <1>9, OwnersStep DEF Owns

LEMMA MintCommentOwns ==
    ASSUME NEW p \in Handlers, IInv, OInv, MintComment(p) PROVE OInv'
<1>1. UNCHANGED <<invoice, zaps, world>> /\ comments \subseteq comments'
  BY DEF MintComment
<1>2. RowsStay /\ OwnedTables'
  BY <1>1 DEF RowsStay, SameInvoice, OInv, OwnedTables, world
<1>3. /\ \A q \in Handlers \ {p} : req'[q] = req[q]
      /\ req'[p].pc = "create_invoice" /\ req'[p].src = req[p].src /\ req'[p].hs = req[p].hs
      /\ req'[p].user = req[p].user /\ req'[p].row = req[p].row
  BY GotoKeeps DEF MintComment, Steps
<1>4. At(p, "insert_comment") /\ MintOwns(p)
  BY DEF MintComment, OInv, Owns
<1>5. MintOwns(p)'
  BY <1>1, <1>3, <1>4 DEF MintOwns, At, MintSteps, Store!NewInvoices
<1>6. ReportOwns(p)' /\ StoreOwns(p)' /\ BatchOwns(p)'
  BY <1>3 DEF ReportOwns, StoreOwns, BatchOwns, At
<1> QED BY <1>1, <1>2, <1>3, <1>5, <1>6, OwnersStep DEF Owns

(* The new row is the recipient's, as is its zap row.                      *)
LEMMA MintInvoiceOwns ==
    ASSUME NEW p \in Handlers, IInv, OInv, MintInvoice(p) PROVE OInv'
<1> PICK h \in Hashes : req[p].hs = {h}
  BY Facts DEF MintInvoice, At, RequestInv, MintInv, MintSteps
<1>1. /\ req[p].pc \in MintSteps /\ h \in minted
      /\ req[p].src = "mint" /\ req[p].row.user = req[p].user
      /\ invoice[h] = NULL /\ zaps[h] \in {NULL, req[p].user}
  BY Facts DEF MintInvoice, At, RequestInv, MintInv, MintSteps, OInv, Owns, MintOwns
<1>2. \A g \in Hashes : invoice'[g] = IF g = h THEN req[p].row ELSE invoice[g]
  BY <1>1 DEF MintInvoice, UpsertInvoice
<1>3. UNCHANGED <<zaps, comments, world>>
  BY DEF MintInvoice
<1>4. RowsStay
  BY <1>1, <1>2, <1>3 DEF RowsStay, SameInvoice, world
<1>5. OwnedTables'
  BY <1>1, <1>2, <1>3 DEF OInv, OwnedTables, world
<1>6. /\ \A q \in Handlers \ {p} : req'[q] = req[q]
      /\ req'[p].pc = "answer_pr" /\ req'[p].src = "mint"
  BY <1>1, GotoKeeps DEF MintInvoice, Steps
<1>7. Owns(p)'
  BY <1>6 DEF Owns, MintOwns, ReportOwns, StoreOwns, BatchOwns, At, MintSteps
<1>8. ASSUME NEW q \in Handlers \ {p}, req[q].pc \in MintSteps
      PROVE  \A g \in req[q].hs : invoice'[g] = invoice[g] /\ zaps'[g] = zaps[g]
  BY <1>1, <1>2, <1>3, <1>8, OthersMint, Facts
<1> QED BY <1>4, <1>5, <1>6, <1>7, <1>8, OwnersStep

(* A step that writes only rows that are there, or rows of Legacy, and     *)
(* changes neither whose invoice it is, nor its provider, nor its domain,  *)
(* disturbs no other request.                                              *)
LEMMA RewriteOwns ==
    ASSUME NEW p \in Handlers, IInv, OInv, UNCHANGED <<zaps, comments, world>>,
           \A h \in Hashes : invoice[h] # NULL =>
             invoice'[h] # NULL /\ SameInvoice(invoice'[h], invoice[h]),
           \A h \in Hashes : invoice[h] = NULL => invoice'[h] = NULL \/ h \in Legacy,
           \A q \in Handlers \ {p} : req'[q] = req[q],
           req'[p].pc \in AfterSteps \cup {"idle"}
    PROVE  OInv'
<1>1. RowsStay
  BY DEF RowsStay, world
<1>2. OwnedTables'
  BY DEF OInv, OwnedTables, SameInvoice, IInv, TablesInv, world
<1>3. ASSUME NEW q \in Handlers, Owns(q), req'[q] = req[q] PROVE Owns(q)'
  <2>h. req[q].hs \subseteq Hashes /\ RequestInv(q)
    BY Facts
  <2>1. MintOwns(q)'
    <3>1. req[q].pc \in MintSteps => \A h \in req[q].hs : h \notin Legacy
      BY <2>h DEF RequestInv, MintInv, IInv, TablesInv
    <3> QED BY <1>3, <2>h, <3>1 DEF Owns, MintOwns, Store!NewInvoices
  <2>2. ReportOwns(q)'
    BY <1>1, <1>3, <2>h, NullAssumption DEF Owns, ReportOwns, RowsStay, SameInvoice, At
  <2>3. StoreOwns(q)'
    BY <1>1, <1>3, <2>h DEF Owns, StoreOwns, RowsStay, SameInvoice, At
  <2>4. BatchOwns(q)'
    BY <1>1, <1>3, <2>h DEF Owns, BatchOwns, RowsStay, Known, At
  <2> QED BY <2>1, <2>2, <2>3, <2>4 DEF Owns
<1> QED BY <1>2, <1>3, AfterOwns DEF OInv

LEMMA MarkExpiredOwns ==
    ASSUME NEW p \in Handlers, IInv, OInv, MarkExpired(p) PROVE OInv'
<1>1. \A q \in Handlers \ {p} : req'[q] = req[q]
  BY FinishOwns DEF MarkExpired
<1>2. req'[p].pc = "idle"
  BY Facts DEF MarkExpired, Finish, Idle
<1>3. ASSUME NEW h \in Hashes, invoice[h] # NULL
      PROVE  invoice'[h] # NULL /\ SameInvoice(invoice'[h], invoice[h])
  <2>1. [invoice[h] EXCEPT !.expired = TRUE] \in Row
        /\ SameInvoice([invoice[h] EXCEPT !.expired = TRUE], invoice[h])
    BY <1>3, Facts DEF Row, SameInvoice
  <2> QED BY <1>3, <2>1, NullAssumption DEF MarkExpired, SameInvoice
<1>4. \A h \in Hashes : invoice[h] = NULL => invoice'[h] = NULL
  BY DEF MarkExpired
<1>5. UNCHANGED <<zaps, comments, world>>
  BY DEF MarkExpired
<1> QED BY <1>1, <1>2, <1>3, <1>4, <1>5, RewriteOwns

(* What upsert_invoice makes of a stored row and a paid copy of it.        *)
LEMMA UpsertPaid ==
    ASSUME NEW old \in Row, NEW new \in Row, SameInvoice(new, old), new.preimage \in Hashes
    PROVE  UpsertInvoice(old, new) =
             [user |-> old.user, provider |-> old.provider, preimage |-> new.preimage,
              expired |-> FALSE, domain |-> old.domain, amount |-> new.amount]
<1>1. new.preimage # NULL /\ old # NULL
  BY NullAssumption DEF Preimages
<1>2. UpsertInvoice(old, new) = [new EXCEPT !.expired = FALSE, !.provider = old.provider]
  BY <1>1 DEF UpsertInvoice, SameInvoice
<1>3. LET up == [new EXCEPT !.expired = FALSE, !.provider = old.provider]
      IN  /\ up \in Row /\ SameInvoice(up, old) /\ ~up.expired
          /\ up.preimage = new.preimage /\ up.amount = new.amount
  BY DEF Row, SameInvoice
<1> QED BY <1>2, <1>3 DEF Row, SameInvoice

(* The whole effect of a report on the table: the row that is stored now   *)
(* gets the preimage and the amount, and is not expired.                   *)
LEMMA StoreWrites ==
    ASSUME NEW p \in Handlers, IInv, OInv, StorePreimage(p)
    PROVE  \E h \in Hashes :
             /\ req[p].hs = {h} /\ h \notin Legacy /\ invoice[h] # NULL
             /\ invoice' = [invoice EXCEPT ![h] =
                  [user |-> invoice[h].user, provider |-> invoice[h].provider,
                   preimage |-> h, expired |-> FALSE, domain |-> invoice[h].domain,
                   amount |-> req[p].amt]]
<1> PICK h \in Hashes : req[p].hs = {h}
  BY Facts DEF StorePreimage, At, RequestInv, ReportInv, ReportSteps
<1>1. /\ req[p].row \in Row /\ req[p].pre = h /\ h \notin Legacy /\ invoice[h] # NULL
  BY Facts DEF StorePreimage, At, RequestInv, ReportInv, ReportSteps
<1>2. SameInvoice(req[p].row, invoice[h])
  BY DEF StorePreimage, OInv, Owns, StoreOwns
<1>3. req[p].amt \in Amounts /\ invoice[h] \in Row
  BY <1>1, Facts DEF Request
<1> DEFINE new == [req[p].row EXCEPT !.preimage = h, !.amount = req[p].amt]
           rec == [user |-> invoice[h].user, provider |-> invoice[h].provider,
                   preimage |-> h, expired |-> FALSE, domain |-> invoice[h].domain,
                   amount |-> req[p].amt]
<1>4. UpsertInvoice(invoice[h], new) = rec
  <2>1. new \in Row /\ SameInvoice(new, invoice[h]) /\ new.preimage = h /\ new.amount = req[p].amt
    BY <1>1, <1>2, <1>3 DEF Row, Preimages, SameInvoice
  <2> HIDE DEF new
  <2> QED BY <1>3, <2>1, UpsertPaid
<1>5. invoice' = [g \in Hashes |-> IF g \in {h} THEN UpsertInvoice(invoice[g], new)
                                                ELSE invoice[g]]
  BY <1>1 DEF StorePreimage
<1> HIDE DEF new, rec
<1>6. invoice' = [invoice EXCEPT ![h] = rec]
  BY <1>4, <1>5, Facts
<1> QED BY <1>1, <1>6 DEF rec

LEMMA StorePreimageOwns ==
    ASSUME NEW p \in Handlers, IInv, OInv, StorePreimage(p) PROVE OInv'
<1> PICK h \in Hashes :
      /\ req[p].hs = {h} /\ h \notin Legacy /\ invoice[h] # NULL
      /\ invoice' = [invoice EXCEPT ![h] =
           [user |-> invoice[h].user, provider |-> invoice[h].provider, preimage |-> h,
            expired |-> FALSE, domain |-> invoice[h].domain, amount |-> req[p].amt]]
  BY StoreWrites
<1> DEFINE rec == [user |-> invoice[h].user, provider |-> invoice[h].provider, preimage |-> h,
                   expired |-> FALSE, domain |-> invoice[h].domain, amount |-> req[p].amt]
<1>1. rec # NULL /\ SameInvoice(rec, invoice[h])
  <2>1. rec \in Row
    BY Facts DEF Row, Request, Preimages
  <2> QED BY <2>1, NullAssumption DEF SameInvoice
<1>2. \A g \in Hashes : invoice'[g] = IF g = h THEN rec ELSE invoice[g]
  BY Facts
<1> HIDE DEF rec
<1>3. \A g \in Hashes : invoice[g] # NULL =>
        invoice'[g] # NULL /\ SameInvoice(invoice'[g], invoice[g])
  BY <1>1, <1>2 DEF SameInvoice
<1>4. \A g \in Hashes : invoice[g] = NULL => invoice'[g] = NULL
  BY <1>2
<1>5. \A q \in Handlers \ {p} : req'[q] = req[q]
  BY Facts DEF StorePreimage
<1>6. req'[p].pc \in AfterSteps
  BY Facts DEF StorePreimage, AfterSteps, Request
<1>7. UNCHANGED <<zaps, comments, world>>
  BY DEF StorePreimage
<1> QED BY <1>3, <1>4, <1>5, <1>6, <1>7, RewriteOwns

(* A batch leaves everything of a row but preimage and expiry.             *)
LEMMA PaidRowSame ==
    ASSUME NEW old \in Row, NEW h \in Hashes, NEW user
    PROVE  /\ PaidRow(old, h, user) # NULL
           /\ SameInvoice(PaidRow(old, h, user), old)
           /\ PaidRow(old, h, user) =
                [user |-> old.user, provider |-> old.provider, preimage |-> h,
                 expired |-> FALSE, domain |-> old.domain, amount |-> old.amount]
<1> DEFINE new == [old EXCEPT !.preimage = h, !.expired = FALSE]
<1>1. PaidRow(old, h, user) = new
  BY NullAssumption DEF PaidRow
<1>2. /\ new \in Row /\ SameInvoice(new, old) /\ new.preimage = h
      /\ ~new.expired /\ new.amount = old.amount
  BY DEF Row, Preimages, SameInvoice
<1> HIDE DEF new
<1> QED BY <1>1, <1>2, NullAssumption DEF Row, SameInvoice

(* A batch fills in the preimages of the user's rows; a row it inserts is  *)
(* one of Legacy, since every other invoice has its row before it is paid. *)
LEMMA UpsertInvoicesPaidOwns ==
    ASSUME NEW p \in Handlers, IInv, OInv, UpsertInvoicesPaid(p) PROVE OInv'
<1> DEFINE A == Affected(p)
           paidRow(g) == PaidRow(invoice[g], g, req[p].user)
<1>1. A \subseteq req[p].hs /\ req[p].hs \subseteq paid
  BY Facts DEF UpsertInvoicesPaid, At, RequestInv, BatchInv, Affected
<1>2. \A g \in A : invoice[g] = NULL => g \in Legacy
  BY <1>1, Facts DEF IInv, TablesInv, HandedIsRecorded
<1>3. ASSUME NEW g \in Hashes, invoice[g] # NULL
      PROVE  paidRow(g) # NULL /\ SameInvoice(paidRow(g), invoice[g])
  BY <1>3, Facts, PaidRowSame
<1>4. \A g \in Hashes : invoice'[g] = IF g \in A THEN paidRow(g) ELSE invoice[g]
  BY DEF UpsertInvoicesPaid
<1>5. \A q \in Handlers \ {p} : req'[q] = req[q]
  BY Facts DEF UpsertInvoicesPaid
<1>6. req'[p].pc \in AfterSteps
  <2>1. req' = [req EXCEPT ![p].pc = IF A = {} THEN "notify" ELSE "enqueue", ![p].aff = A]
    BY DEF UpsertInvoicesPaid
  <2> HIDE DEF A
  <2> QED BY <2>1, Facts DEF AfterSteps, Request
<1> HIDE DEF A, paidRow
<1>7. \A g \in Hashes : invoice[g] # NULL =>
        invoice'[g] # NULL /\ SameInvoice(invoice'[g], invoice[g])
  BY <1>3, <1>4 DEF SameInvoice
<1>8. \A g \in Hashes : invoice[g] = NULL => invoice'[g] = NULL \/ g \in Legacy
  BY <1>2, <1>4
<1>9. UNCHANGED <<zaps, comments, world>>
  BY DEF UpsertInvoicesPaid
<1> QED BY <1>5, <1>6, <1>7, <1>8, <1>9, RewriteOwns

LEMMA InitOwns == Init => OInv
<1> SUFFICES ASSUME Init PROVE OInv
  OBVIOUS
<1> USE DEF Init
<1>1. PICK owner \in [Legacy -> Users] :
        zaps = [h \in Hashes |-> IF h \in Legacy THEN owner[h] ELSE NULL]
  OBVIOUS
<1>2. OwnedTables
  BY <1>1 DEF OwnedTables
<1>3. \A p \in Handlers : req[p].pc = "idle"
  BY DEF Idle
<1>4. \A p \in Handlers : Owns(p)
  BY <1>3 DEF Owns, MintOwns, ReportOwns, StoreOwns, BatchOwns, At, MintSteps
<1> QED BY <1>2, <1>4 DEF OInv

(* Steps that only add to a queue, or to nothing, after the store.         *)
LEMMA AfterStepOwns ==
    ASSUME NEW p \in Handlers, IInv, OInv,
           EnqueueZap(p) \/ GetPayloads(p) \/ InsertDeliveries(p) \/ NotifyFails(p)
    PROVE  OInv'
<1>1. \A q \in Handlers \ {p} : req'[q] = req[q]
  BY Facts DEF EnqueueZap, GetPayloads, InsertDeliveries, NotifyFails, Goto
<1>2. req'[p].pc \in AfterSteps
  <2>1. CASE EnqueueZap(p) \/ InsertDeliveries(p) \/ NotifyFails(p)
    BY <2>1, GotoKeeps DEF EnqueueZap, InsertDeliveries, NotifyFails, AfterSteps, Steps
  <2>2. CASE GetPayloads(p)
    <3> DEFINE data == {h \in req[p].hs : Settled(h) /\ invoice[h].domain}
    <3>1. req' = [req EXCEPT ![p].pc = IF data = {} THEN "answer" ELSE "insert",
                             ![p].aff = data]
      BY <2>2 DEF GetPayloads
    <3> HIDE DEF data
    <3> QED BY <3>1, Facts DEF Request, AfterSteps
  <2> QED BY <2>1, <2>2
<1>3. UNCHANGED <<invoice, zaps, comments, world>>
  BY DEF EnqueueZap, GetPayloads, InsertDeliveries, NotifyFails, db
<1> QED BY <1>1, <1>2, <1>3, RewriteOwns DEF SameInvoice

LEMMA NextOwns == IInv /\ OInv /\ [Next]_vars => OInv'
<1> SUFFICES ASSUME IInv, OInv, [Next]_vars PROVE OInv'
  OBVIOUS
<1>1. CASE UNCHANGED <<db, req>> /\ minted \subseteq minted'
  <2>1. RowsStay /\ OwnedTables'
    BY <1>1, SameRowsStay DEF OInv
  <2>2. ASSUME NEW q \in Handlers PROVE Owns(q)'
    BY <1>1, <2>1, StayKeepsOwner DEF IInv, OInv, db
  <2> QED BY <2>1, <2>2 DEF OInv
<1>2. CASE UNCHANGED vars
  BY <1>1, <1>2 DEF vars, world
<1>3. ASSUME NEW h \in Hashes, Pay(h) \/ Lapse(h) PROVE OInv'
  BY <1>1, <1>3 DEF Pay, Lapse
<1>4. ASSUME NEW p \in Handlers, MintStep(p) PROVE OInv'
  <2>1. CASE MintAnswer(p)
    BY <2>1, FinishOwns, OwnersMove DEF MintAnswer
  <2> QED BY <1>4, <2>1, MintZapOwns, MintCommentOwns, MintInvoiceOwns DEF MintStep
<1>5. ASSUME NEW p \in Handlers, RouteStep(p) PROVE OInv'
  BY <1>5, VerifyReadOwns, LookupOwns, StatusOwns, MarkExpiredOwns DEF RouteStep
<1>6. ASSUME NEW p \in Handlers, SettleStep(p) PROVE OInv'
  <2>1. CASE Answer(p)
    BY <2>1, FinishOwns, OwnersMove DEF Answer, world
  <2> QED BY <1>6, <2>1, ReadInvoiceOwns, StorePreimageOwns, FilterKnownOwns,
        UpsertInvoicesPaidOwns, AfterStepOwns DEF SettleStep
<1>7. ASSUME NEW p \in Handlers, Cancel(p) PROVE OInv'
  BY <1>7, FinishOwns, OwnersMove DEF Cancel, world
<1> QED BY <1>2, <1>3, <1>4, <1>5, <1>6, <1>7, ArrivalsOwn, AfterStepOwns DEF Next

LEMMA OwnersInvariance == Spec => [](IInv /\ OInv)
<1>1. Init => IInv /\ OInv
  BY InitInv, InitOwns
<1>2. (IInv /\ OInv) /\ [Next]_vars => (IInv /\ OInv)'
  BY NextInv, NextOwns
<1> QED BY <1>1, <1>2, PTL DEF Spec

(***************************************************************************)
(* What the writers do to the table.                                       *)
(***************************************************************************)

(* The only steps that change the table invoices.                          *)
Writes(p) == MintInvoice(p) \/ MarkExpired(p) \/ StorePreimage(p) \/ UpsertInvoicesPaid(p)

LEMMA OnlyWriters ==
    ASSUME IInv, [Next]_vars
    PROVE  invoice' = invoice
             \/ \E p \in Handlers : Writes(p) /\ \A q \in Handlers \ {p} : req'[q] = req[q]
<1>1. ASSUME NEW p \in Handlers, Writes(p)
      PROVE  \A q \in Handlers \ {p} : req'[q] = req[q]
  BY <1>1, Facts DEF Writes, MintInvoice, MarkExpired, StorePreimage, UpsertInvoicesPaid,
       Goto, Finish
<1>2. CASE UNCHANGED vars
  BY <1>2 DEF vars, db
<1>3. ASSUME NEW h \in Hashes, Pay(h) \/ Lapse(h) PROVE invoice' = invoice
  BY <1>3 DEF Pay, Lapse, db
<1>4. ASSUME NEW p \in Handlers, Arrive(p) PROVE invoice' = invoice
  BY <1>4 DEF Arrive, MintRequest, BlinkWebhookPaid, BlinkWebhookExpired, Verify, SspWebhook,
       InvoicePaid, PublishZapReceipt, InvoicesPaid, db
<1>5. ASSUME NEW p \in Handlers, MintStep(p) PROVE invoice' = invoice \/ Writes(p)
  BY <1>5 DEF MintStep, MintZap, MintComment, MintAnswer, Writes, db
<1>6. ASSUME NEW p \in Handlers, RouteStep(p) PROVE invoice' = invoice \/ Writes(p)
  BY <1>6 DEF RouteStep, VerifyRead, Lookup, LookupZap, StatusSettled, StatusExpired,
       StatusOther, Writes, db
<1>7. ASSUME NEW p \in Handlers, SettleStep(p) PROVE invoice' = invoice \/ Writes(p)
  BY <1>7 DEF SettleStep, ReadInvoice, FilterKnown, EnqueueZap, GetPayloads,
       InsertDeliveries, Answer, Writes, db
<1>8. ASSUME NEW p \in Handlers, NotifyFails(p) \/ Cancel(p) PROVE invoice' = invoice
  BY <1>8 DEF NotifyFails, Cancel, db
<1> QED BY <1>1, <1>2, <1>3, <1>4, <1>5, <1>6, <1>7, <1>8 DEF Next

(* A report that writes a row that is there writes its sender's.           *)
LEMMA WriterOwns ==
    ASSUME NEW p \in Handlers, IInv, OInv, Writes(p), NEW h \in Hashes,
           req[p].src \in {"client", "zap", "batch"}, invoice'[h] # invoice[h],
           invoice[h] # NULL
    PROVE  invoice[h].user = req[p].user
<1>1. ~MintInvoice(p)
  BY DEF MintInvoice, At, OInv, Owns, MintOwns, MintSteps
<1>2. ~MarkExpired(p)
  BY DEF MarkExpired, OInv, Owns, ReportOwns
<1>3. CASE StorePreimage(p)
  <2> PICK g \in Hashes : /\ req[p].hs = {g} /\ g \notin Legacy
                          /\ \A f \in Hashes \ {g} : invoice'[f] = invoice[f]
    BY <1>3, StoreWrites, Facts
  <2>1. h = g
    OBVIOUS
  <2>2. At(p, "store") /\ ReportOwns(p)
    BY <1>3 DEF StorePreimage, OInv, Owns
  <2>3. CASE req[p].src = "client"
    BY <2>1, <2>2, <2>3 DEF ReportOwns, At
  <2>4. CASE req[p].src = "zap"
    <3>1. zaps[h] = req[p].user /\ req[p].user \in Users
      BY <2>1, <2>2, <2>4 DEF ReportOwns, At
    <3>2. zaps[h] # NULL
      BY <3>1, NullAssumption
    <3> QED BY <2>1, <3>1, <3>2 DEF OInv, OwnedTables
  <2>5. req[p].src # "batch"
    BY <2>2, Facts DEF RequestInv, ReportInv, ReportSteps, At
  <2> QED BY <2>3, <2>4, <2>5
<1>4. CASE UpsertInvoicesPaid(p)
  BY <1>4 DEF UpsertInvoicesPaid, Affected
<1> QED BY <1>1, <1>2, <1>3, <1>4 DEF Writes

(* No client report, published zap receipt or batch of one user changes a  *)
(* row of another's invoice, however long the check (lookup,               *)
(* get_zap_by_payment_hash) lies back when the row is written.             *)
THEOREM ReportsTouchOnlyTheirOwn == Spec => OwnersOnly
<1> DEFINE Own == \A p \in Handlers, h \in Hashes :
                    /\ req[p].src \in {"client", "zap", "batch"}
                    /\ req'[p] # req[p]
                    /\ invoice'[h] # invoice[h]
                    /\ invoice[h] # NULL
                    => invoice[h].user = req[p].user
<1>1. (IInv /\ OInv) /\ [Next]_vars => [Own]_vars
  <2> SUFFICES ASSUME IInv, OInv, [Next]_vars PROVE Own
    OBVIOUS
  <2> QED BY OnlyWriters, WriterOwns
<1> QED BY OwnersInvariance, <1>1, PTL DEF Spec, OwnersOnly

(***************************************************************************)
(* The tables change as the adapter's contract says.                       *)
(***************************************************************************)
LEMMA StoreInit == Init => Store!Init
<1> SUFFICES ASSUME Init PROVE Store!Init
  OBVIOUS
<1> USE DEF Init
<1>1. PICK owner \in [Legacy -> Users] :
        zaps = [h \in Hashes |-> IF h \in Legacy THEN owner[h] ELSE NULL]
  OBVIOUS
<1>2. zaps \in [Hashes -> Users \cup {NULL}]
  BY <1>1
<1>3. \A h \in Hashes : zaps[h] # NULL <=> h \in Legacy
  BY <1>1, NullAssumption
<1> QED BY <1>2, <1>3 DEF Store!Init

(* Minting writes a zap row, a comment, and an invoice that is new.        *)
LEMMA StoreMint ==
    ASSUME NEW p \in Handlers, IInv, OInv, MintStep(p)
    PROVE  [Store!Next]_(Store!store)
<1>1. CASE MintAnswer(p)
  BY <1>1 DEF MintAnswer, db, Store!store
<1>2. CASE ~MintAnswer(p)
  <2> PICK h \in Hashes : req[p].hs = {h}
    BY <1>2, Facts DEF MintStep, MintZap, MintComment, MintInvoice, At, RequestInv, MintInv,
         MintSteps
  <2>1. CASE MintZap(p)
    <3>1. CASE UNCHANGED zaps
      BY <2>1, <3>1 DEF MintZap, Store!store
    <3>2. CASE zaps' = [g \in Hashes |-> IF g \in req[p].hs THEN req[p].user ELSE zaps[g]]
      <4>1. zaps' = [zaps EXCEPT ![h] = req[p].user]
        BY <3>2 DEF IInv, TypeOK
      <4>2. Store!UpsertZap(h, req[p].user)
        BY <2>1, <4>1 DEF MintZap, Store!UpsertZap
      <4>3. req[p].user \in Users \cup {Nobody}
        BY Facts DEF Request
      <4> QED BY <4>2, <4>3 DEF Store!Next
    <3> QED BY <2>1, <3>1, <3>2 DEF MintZap
  <2>2. CASE MintComment(p)
    <3>1. CASE comments' = comments
      BY <2>2, <3>1 DEF MintComment, Store!store
    <3>2. CASE comments' = comments \cup {h}
      <4>1. Store!InsertLnurlSenderComment(h)
        BY <2>2, <3>2 DEF MintComment, Store!InsertLnurlSenderComment
      <4> QED BY <4>1 DEF Store!Next
    <3> QED BY <2>2, <3>1, <3>2 DEF MintComment
  <2>3. CASE MintInvoice(p)
    <3>1. req[p].row \in Store!NewInvoices /\ invoice[h] = NULL
      BY <2>3 DEF MintInvoice, At, OInv, Owns, MintOwns, MintSteps
    <3>2. invoice' = [invoice EXCEPT ![h] = req[p].row]
      BY <2>3, <3>1, Facts DEF MintInvoice, UpsertInvoice
    <3>3. Store!UpsertInvoice(h, req[p].row)
      BY <2>3, <3>1, <3>2, Facts DEF MintInvoice, Store!UpsertInvoice, Store!Merged
    <3>4. req[p].row \in Store!Arguments(h)
      BY <3>1 DEF Store!Arguments
    <3> QED BY <3>3, <3>4 DEF Store!Next
  <2> QED BY <1>2, <2>1, <2>2, <2>3 DEF MintStep
<1> QED BY <1>1, <1>2

LEMMA StoreMark ==
    ASSUME NEW p \in Handlers, IInv, OInv, MarkExpired(p)
    PROVE  [Store!Next]_(Store!store)
<1> PICK h \in Hashes : req[p].hs = {h}
  BY Facts DEF MarkExpired, At, RequestInv, ReportInv, ReportSteps
<1>u. UNCHANGED <<zaps, comments, pendingZap, deliveries>>
  BY DEF MarkExpired
<1>1. CASE invoice[h] # NULL /\ ~Settled(h)
  <2>1. invoice' = [invoice EXCEPT ![h] = [invoice[h] EXCEPT !.expired = TRUE]]
    BY <1>1, Facts DEF MarkExpired
  <2>2. invoice' = [invoice EXCEPT ![h].expired = TRUE]
    BY <2>1, Facts
  <2>3. Store!MarkInvoiceExpired(h)
    BY <1>1, <1>u, <2>2 DEF Store!MarkInvoiceExpired, Settled
  <2> QED BY <2>3 DEF Store!Next
<1>2. CASE ~(invoice[h] # NULL /\ ~Settled(h))
  <2>1. invoice' = invoice
    BY <1>2, Facts DEF MarkExpired
  <2> QED BY <1>u, <2>1 DEF Store!store
<1> QED BY <1>1, <1>2

(* handle_invoice_paid passes upsert_invoice the row as it is stored.      *)
LEMMA StorePaid ==
    ASSUME NEW p \in Handlers, IInv, OInv, StorePreimage(p)
    PROVE  Store!Next
<1> PICK h \in Hashes :
      /\ req[p].hs = {h} /\ h \notin Legacy /\ invoice[h] # NULL
      /\ invoice' = [invoice EXCEPT ![h] =
           [user |-> invoice[h].user, provider |-> invoice[h].provider, preimage |-> h,
            expired |-> FALSE, domain |-> invoice[h].domain, amount |-> req[p].amt]]
  BY StoreWrites
<1> DEFINE rec == [user |-> invoice[h].user, provider |-> invoice[h].provider, preimage |-> h,
                   expired |-> FALSE, domain |-> invoice[h].domain, amount |-> req[p].amt]
<1>1. rec \in Store!Arguments(h)
  BY Facts DEF Store!Arguments, Store!PaidInvoices, Request
<1>2. Store!Merged(invoice[h], rec) = rec
  <2>1. h # NULL
    BY NullAssumption DEF Preimages
  <2>2. (IF rec.provider = NULL THEN invoice[h].provider ELSE rec.provider)
          = invoice[h].provider
    OBVIOUS
  <2>3. (rec.preimage = NULL /\ (rec.expired \/ invoice[h].expired)) = FALSE
    BY <2>1
  <2> QED BY <2>2, <2>3 DEF Store!Merged
<1>3. invoice' = [invoice EXCEPT ![h] = rec]
  OBVIOUS
<1> HIDE DEF rec
<1>4. Store!UpsertInvoice(h, rec)
  BY <1>2, <1>3, Facts DEF StorePreimage, Store!UpsertInvoice
<1> QED BY <1>1, <1>4 DEF Store!Next

(* handle_invoices_paid passes upsert_invoices_paid hashes it has found.   *)
LEMMA StoreBatch ==
    ASSUME NEW p \in Handlers, IInv, OInv, UpsertInvoicesPaid(p)
    PROVE  Store!Next
<1> DEFINE hs == req[p].hs
           user == req[p].user
<1>1. hs \in SUBSET Hashes /\ user \in Users /\ hs \subseteq Known
  BY Facts DEF UpsertInvoicesPaid, At, OInv, Owns, BatchOwns
<1>2. hs = Store!Known(hs)
  BY <1>1 DEF Known, Store!Known
<1>3. \A h \in Hashes : h \in Affected(p) <=> h \in hs /\ Store!Updates(h, user)
  BY DEF Affected, Store!Updates
<1>4. ASSUME NEW h \in Hashes
      PROVE  PaidRow(invoice[h], h, user) = Store!PaidRow(invoice[h], h, user)
  <2>1. CASE invoice[h] = NULL
    BY <2>1 DEF PaidRow, Store!PaidRow
  <2>2. CASE invoice[h] # NULL
    <3>1. invoice[h] \in Row
      BY <2>2, Facts
    <3> QED BY <2>2, <3>1, PaidRowSame DEF Store!PaidRow
  <2> QED BY <2>1, <2>2
<1>5. invoice' = [h \in Hashes |-> IF h \in Affected(p) THEN PaidRow(invoice[h], h, user)
                                                       ELSE invoice[h]]
  BY DEF UpsertInvoicesPaid
<1> HIDE DEF hs, user
<1>6. invoice' = [h \in Hashes |-> IF h \in hs /\ Store!Updates(h, user)
                                   THEN Store!PaidRow(invoice[h], h, user) ELSE invoice[h]]
  BY <1>3, <1>4, <1>5
<1>7. Store!UpsertInvoicesPaid(hs, user)
  BY <1>6 DEF UpsertInvoicesPaid, Store!UpsertInvoicesPaid
<1> QED BY <1>1, <1>2, <1>7 DEF Store!Next

(* Only what is settled at that moment is queued.                          *)
LEMMA StoreQueue ==
    ASSUME NEW p \in Handlers, IInv, EnqueueZap(p) \/ InsertDeliveries(p)
    PROVE  Store!Next
<1> DEFINE aff == req[p].aff
<1>1. aff \in SUBSET Hashes
  BY Facts
<1>2. CASE EnqueueZap(p)
  <2>1. \A h \in aff : Store!Settled(h)
    BY <1>2, Facts DEF EnqueueZap, RequestInv, AfterInv, Settled, Store!Settled
  <2>2. Store!InsertPendingZapReceipts(aff)
    BY <1>2 DEF EnqueueZap, Store!InsertPendingZapReceipts
  <2> QED BY <1>1, <2>1, <2>2 DEF Store!Next
<1>3. CASE InsertDeliveries(p)
  <2>1. aff = Store!Payloads(aff)
    BY <1>3, Facts DEF InsertDeliveries, RequestInv, AfterInv, Settled, Store!Settled,
         Store!Payloads
  <2>2. Store!InsertWebhookDeliveries(aff)
    BY <1>3 DEF InsertDeliveries, Store!InsertWebhookDeliveries
  <2> QED BY <1>1, <2>1, <2>2 DEF Store!Next
<1> QED BY <1>2, <1>3

(* Every step of the routes is a statement of SqlitePayments, or leaves    *)
(* the tables alone: upsert_invoice, which accepts any row, is given a new *)
(* invoice or, whatever the route read before, the owner, provider and     *)
(* domain that are stored at that moment with the hash's own preimage.     *)
(* The amount is not part of that: it is the last writer's.                *)
THEOREM RoutesImplementStore == Spec => ImplementsStore
<1>1. (IInv /\ OInv) /\ [Next]_vars => [Store!Next]_(Store!store)
  <2> SUFFICES ASSUME IInv, OInv, [Next]_vars PROVE [Store!Next]_(Store!store)
    OBVIOUS
  <2>1. CASE UNCHANGED db
    BY <2>1 DEF db, Store!store
  <2>2. CASE UNCHANGED vars
    BY <2>1, <2>2 DEF vars
  <2>3. ASSUME NEW h \in Hashes, Pay(h) \/ Lapse(h) PROVE UNCHANGED db
    BY <2>3 DEF Pay, Lapse
  <2>4. ASSUME NEW p \in Handlers, Arrive(p) PROVE UNCHANGED db
    BY <2>4 DEF Arrive, MintRequest, BlinkWebhookPaid, BlinkWebhookExpired, Verify, SspWebhook,
         InvoicePaid, PublishZapReceipt, InvoicesPaid
  <2>5. ASSUME NEW p \in Handlers, RouteStep(p) PROVE [Store!Next]_(Store!store)
    BY <2>1, <2>5, StoreMark DEF RouteStep, VerifyRead, Lookup, LookupZap, StatusSettled,
         StatusExpired, StatusOther
  <2>6. ASSUME NEW p \in Handlers, SettleStep(p) PROVE [Store!Next]_(Store!store)
    BY <2>1, <2>6, StorePaid, StoreBatch, StoreQueue DEF SettleStep, ReadInvoice,
         FilterKnown, GetPayloads, Answer
  <2>7. ASSUME NEW p \in Handlers, NotifyFails(p) \/ Cancel(p) PROVE UNCHANGED db
    BY <2>7 DEF NotifyFails, Cancel
  <2> QED BY <2>1, <2>2, <2>3, <2>4, <2>5, <2>6, <2>7, StoreMint DEF Next
<1> QED BY StoreInit, OwnersInvariance, <1>1, PTL DEF Spec, ImplementsStore, Store!Spec
=============================================================================
