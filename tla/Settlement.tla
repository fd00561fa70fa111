----------------------------- MODULE Settlement -----------------------------
(***************************************************************************)
(* The life of an LNURL invoice: minting it, learning that it was paid or  *)
(* that it expired, and queueing the work that follows a payment.          *)
(*                                                                         *)
(* The tables invoices, zaps, sender_comments, pending_zap_receipts and    *)
(* webhook_deliveries are shared by all requests; a request is a handler   *)
(* that keeps local state between two statements it sends to the database. *)
(* One action is one await: one SQL statement, or one answer of a payment  *)
(* provider.  Everything between two awaits belongs to the action.         *)
(*                                                                         *)
(* A payment hash stands for its invoice, and a preimage is named by the   *)
(* hash it opens; Junk is a preimage that opens none of Hashes.            *)
(***************************************************************************)
EXTENDS Naturals, FiniteSets

CONSTANTS
    Hashes,     \* payment hashes
    Users,      \* Spark identity public keys
    Handlers,   \* concurrent requests, over all server instances
    Traffic,    \* the kinds of requests that arrive, a subset of Sources
    Legacy,     \* hashes that have a zap row and no invoice row from the start
    NULL,       \* SQL NULL, Rust None, an absent row
    Junk,       \* a preimage of no known hash
    Nobody,     \* the empty user_pubkey of a Blink recipient's rows
    Sats,       \* what the payer pays, in satoshis
    MaxCancels, \* bound on requests that stop half-way
    MaxErrors   \* bound on webhook enqueueing errors, which are only logged

Preimages == Hashes \cup {Junk}
Amounts == {NULL, Sats}
Providers == {"spark", "blink"}

(* A row of the table invoices; expired stands for a non-NULL expired_at,  *)
(* domain for a non-NULL domain.                                           *)
Row == [user: Users \cup {Nobody}, provider: Providers \cup {NULL},
        preimage: Preimages \cup {NULL}, expired: BOOLEAN, domain: BOOLEAN,
        amount: Amounts]

ASSUME LegacyAssumption == Legacy \subseteq Hashes
ASSUME SatsAssumption == Sats \in Nat
ASSUME BoundsAssumption == MaxCancels \in Nat /\ MaxErrors \in Nat
ASSUME NullAssumption ==
    /\ NULL \notin Preimages \cup Users \cup {Nobody} \cup Providers \cup Nat
    /\ NULL \notin Row
    /\ Junk \notin Hashes
    /\ Nobody \notin Users

VARIABLES
    invoice,    \* table invoices: payment hash -> row
    zaps,       \* table zaps: payment hash -> user_pubkey of the row
    comments,   \* table sender_comments: hashes that have a row
    pendingZap, \* table pending_zap_receipts
    deliveries, \* table webhook_deliveries: hashes that have a row
    req,        \* handler -> the request it is serving
    minted,     \* hashes a provider has created an invoice for
    handed,     \* invoices that a payer holds
    paid,       \* invoices paid over Lightning
    lapsed,     \* invoices past their expiry without having been paid then
    told,       \* settlements confirmed to the outside, with the amount reported
    cancels, errors

db == <<invoice, zaps, comments, pendingZap, deliveries>>
world == <<minted, handed, paid, lapsed>>
vars == <<db, req, world, told, cancels, errors>>

(***************************************************************************)
(* Requests.                                                               *)
(***************************************************************************)
Sources == {"mint", "ssp", "client", "zap", "batch", "blink", "expire", "verify"}

Steps == {"idle", "upsert_zap", "insert_comment", "create_invoice", "answer_pr",
          "verify", "lookup", "lookup_zap", "status", "mark", "read", "store",
          "filter", "upsert_paid", "enqueue", "notify", "insert", "answer"}

(* hs: the hashes the request is about.  row: the invoice as last read, or *)
(* about to be created.  aff: the hashes the next insert is for.           *)
Request == [pc: Steps, src: Sources, hs: SUBSET Hashes,
            user: Users \cup {Nobody}, pre: Preimages \cup {NULL},
            amt: Amounts, row: Row \cup {NULL}, aff: SUBSET Hashes]

Idle == [pc |-> "idle", src |-> "mint", hs |-> {}, user |-> Nobody,
         pre |-> NULL, amt |-> NULL, row |-> NULL, aff |-> {}]

At(p, pc) == req[p].pc = pc
TheHash(p) == CHOOSE h \in req[p].hs : TRUE
Goto(p, pc) == req' = [req EXCEPT ![p].pc = pc]
Finish(p) == req' = [req EXCEPT ![p] = Idle]

Start(p, pc, src, hs, user, pre, amt, row) ==
    /\ At(p, "idle") /\ src \in Traffic
    /\ req' = [req EXCEPT ![p] =
                 [pc |-> pc, src |-> src, hs |-> hs, user |-> user,
                  pre |-> pre, amt |-> amt, row |-> row, aff |-> {}]]

Settled(h) == invoice[h] # NULL /\ invoice[h].preimage # NULL

Init ==
    /\ invoice = [h \in Hashes |-> NULL]
    /\ \E owner \in [Legacy -> Users] :
         zaps = [h \in Hashes |-> IF h \in Legacy THEN owner[h] ELSE NULL]
    /\ comments = {} /\ pendingZap = {} /\ deliveries = {}
    /\ req = [p \in Handlers |-> Idle]
    /\ minted = Legacy /\ handed = Legacy /\ paid = {} /\ lapsed = {}
    /\ told = {} /\ cancels = 0 /\ errors = 0

(***************************************************************************)
(* The Lightning network.                                                  *)
(***************************************************************************)

(* Anyone who holds the invoice may pay it.  A payment that was on its way *)
(* when the invoice expired still completes.                               *)
Pay(h) ==
    /\ h \in handed \ paid
    /\ paid' = paid \cup {h}
    /\ UNCHANGED <<db, req, minted, handed, lapsed, told, cancels, errors>>

Lapse(h) ==
    /\ h \in handed \ (paid \cup lapsed)
    /\ lapsed' = lapsed \cup {h}
    /\ UNCHANGED <<db, req, minted, handed, paid, told, cancels, errors>>

(***************************************************************************)
(* Minting: the LNURL-pay callback.                                        *)
(***************************************************************************)

(* Mutant of UpsertInvoice: a preimage does not clear the expiry.          *)
UpsertInvoiceKeepsExpiry(old, new) ==
    IF old = NULL THEN new
    ELSE [new EXCEPT
            !.expired = new.expired \/ old.expired,
            !.provider = IF new.provider # NULL THEN new.provider
                         ELSE old.provider]

(* What INSERT ... ON CONFLICT(payment_hash) DO UPDATE makes of the row.   *)
UpsertInvoice(old, new) ==
    IF old = NULL THEN new
    ELSE [new EXCEPT
            !.expired = IF new.preimage # NULL THEN FALSE
                        ELSE new.expired \/ old.expired,
            !.provider = IF new.provider # NULL THEN new.provider
                         ELSE old.provider]

(* The row of an invoice that the recipient's provider has created; Blink  *)
(* accounts have no public key.                                            *)
CreateInvoice(user) ==
    [user |-> user, provider |-> IF user = Nobody THEN "blink" ELSE "spark",
     preimage |-> NULL, expired |-> FALSE, domain |-> TRUE, amount |-> NULL]

(* A provider has created a fresh invoice and it passed the checks on its  *)
(* description hash, amount and expiry.  A refusal before this point, and  *)
(* an invoice that fails a check, change nothing here.                     *)
MintRequest(p) ==
    \E h \in Hashes \ minted, user \in Users \cup {Nobody} :
        /\ Start(p, "upsert_zap", "mint", {h}, user, NULL, NULL, CreateInvoice(user))
        /\ minted' = minted \cup {h}
        /\ UNCHANGED <<db, handed, paid, lapsed, told, cancels, errors>>

(* Mutant of MintZap: the invoice is answered before its row is stored.    *)
MintZapHandsOut(p) ==
    /\ At(p, "upsert_zap")
    /\ handed' = handed \cup req[p].hs
    /\ Goto(p, "insert_comment")
    /\ UNCHANGED <<db, minted, paid, lapsed, told, cancels, errors>>

(* The zap request is stored when the callback carries one.                *)
MintZap(p) ==
    /\ At(p, "upsert_zap")
    /\ \/ zaps' = [h \in Hashes |->
                     IF h \in req[p].hs THEN req[p].user ELSE zaps[h]]
       \/ UNCHANGED zaps
    /\ Goto(p, "insert_comment")
    /\ UNCHANGED <<invoice, comments, pendingZap, deliveries, world, told, cancels, errors>>

(* So is a comment that is not blank.                                      *)
MintComment(p) ==
    /\ At(p, "insert_comment")
    /\ comments' \in {comments, comments \cup req[p].hs}
    /\ Goto(p, "create_invoice")
    /\ UNCHANGED <<invoice, zaps, pendingZap, deliveries, world, told, cancels, errors>>

(* Mutant of MintInvoice: a failed insert is logged and minting goes on.   *)
MintInvoiceUnchecked(p) ==
    /\ At(p, "create_invoice")
    /\ Goto(p, "answer_pr")
    /\ UNCHANGED <<db, world, told, cancels, errors>>

MintInvoice(p) ==
    /\ At(p, "create_invoice")
    /\ invoice' = [h \in Hashes |->
                     IF h \in req[p].hs THEN UpsertInvoice(invoice[h], req[p].row)
                                        ELSE invoice[h]]
    /\ Goto(p, "answer_pr")
    /\ UNCHANGED <<zaps, comments, pendingZap, deliveries, world, told, cancels, errors>>

(* Only now does the payer learn the invoice.                              *)
MintAnswer(p) ==
    /\ At(p, "answer_pr")
    /\ handed' = handed \cup req[p].hs
    /\ Finish(p)
    /\ UNCHANGED <<db, minted, paid, lapsed, told, cancels, errors>>

(***************************************************************************)
(* Requests that report or ask for a settlement.  A preimage is known      *)
(* outside the payment provider only once the invoice was paid.            *)
(***************************************************************************)

(* The htlc_amount of the SSP's callback: in satoshis, in millisatoshis    *)
(* that need not be a whole number of satoshis, in another unit, or none.  *)
HtlcAmounts == {NULL, [unit |-> "SATOSHI", value |-> Sats],
                [unit |-> "MILLISATOSHI", value |-> 1000 * Sats + 999],
                [unit |-> "other", value |-> Sats]}

(* Mutant of ReceivedSats: the unit is ignored.                            *)
ReceivedUnits(htlc) == IF htlc = NULL THEN NULL ELSE htlc.value

ReceivedSats(htlc) ==
    IF htlc = NULL THEN NULL
    ELSE CASE htlc.unit = "SATOSHI" -> htlc.value
           [] htlc.unit = "MILLISATOSHI" -> htlc.value \div 1000
           [] OTHER -> NULL

(* The SSP may repeat its callback, and the receiver it names may be a     *)
(* user the invoice is not for.                                            *)
SspWebhook(p, h, receiver) ==
    /\ h \in paid
    /\ \E htlc \in HtlcAmounts :
         Start(p, "lookup", "ssp", {h}, receiver, h, ReceivedSats(htlc), NULL)
    /\ UNCHANGED <<db, world, told, cancels, errors>>

InvoicePaid(p, h, user) ==
    /\ h \in paid
    /\ Start(p, "lookup", "client", {h}, user, h, NULL, NULL)
    /\ UNCHANGED <<db, world, told, cancels, errors>>

BlinkWebhookPaid(p, h) ==
    /\ \E pre \in {NULL, Junk} \cup ({h} \cap paid) :
         Start(p, "lookup", "blink", {h}, Nobody, pre, NULL, NULL)
    /\ UNCHANGED <<db, world, told, cancels, errors>>

BlinkWebhookExpired(p, h) ==
    /\ Start(p, "lookup", "expire", {h}, Nobody, NULL, NULL, NULL)
    /\ UNCHANGED <<db, world, told, cancels, errors>>

Verify(p, h) ==
    /\ Start(p, "verify", "verify", {h}, Nobody, NULL, NULL, NULL)
    /\ UNCHANGED <<db, world, told, cancels, errors>>

(* The settlement that publishing a zap receipt with a preimage brings.    *)
PublishZapReceipt(p, h, user) ==
    /\ \E pre \in {Junk} \cup ({h} \cap paid) :
         Start(p, "lookup_zap", "zap", {h}, user, pre, NULL, NULL)
    /\ UNCHANGED <<db, world, told, cancels, errors>>

(* One preimage that does not open its invoice refuses the whole batch     *)
(* before the database is asked anything.                                  *)
InvoicesPaid(p, hs, user) ==
    /\ hs \subseteq paid /\ hs # {}
    /\ Start(p, "filter", "batch", hs, user, NULL, NULL, NULL)
    /\ UNCHANGED <<db, world, told, cancels, errors>>

(***************************************************************************)
(* The routes up to the call of handle_invoice_paid.                       *)
(***************************************************************************)

(* verify answers from the row it read, unless the row is an open Blink    *)
(* invoice: then it tries to settle it first.                              *)
VerifyRead(p) ==
    /\ At(p, "verify")
    /\ LET h == TheHash(p)
           row == invoice[h]
       IN IF row # NULL /\ row.preimage = NULL /\ ~row.expired /\ row.provider = "blink"
          THEN Goto(p, "lookup") /\ UNCHANGED told
          ELSE /\ Finish(p)
               /\ told' = IF Settled(h) THEN told \cup {<<h, NULL>>} ELSE told
    /\ UNCHANGED <<db, world, cancels, errors>>

(* The route's own read of the invoice, and what it refuses because of it. *)
Lookup(p) ==
    /\ At(p, "lookup")
    /\ LET r == req[p]
           row == invoice[TheHash(p)]
           mine == row # NULL /\ IF r.src \in {"ssp", "client"}
                                 THEN row.user = r.user
                                 ELSE row.provider = "blink"
       IN IF mine THEN Goto(p, IF r.pre # NULL THEN "read" ELSE "status")
          ELSE Finish(p)
    /\ UNCHANGED <<db, world, told, cancels, errors>>

LookupZap(p) ==
    /\ At(p, "lookup_zap")
    /\ IF zaps[TheHash(p)] = req[p].user
       THEN Goto(p, "read") ELSE Finish(p)
    /\ UNCHANGED <<db, world, told, cancels, errors>>

(* Blink says settled, with the preimage and perhaps an amount.            *)
StatusSettled(p) ==
    /\ At(p, "status") /\ req[p].src # "expire"
    /\ \E h \in req[p].hs \cap paid, amt \in Amounts :
         req' = [req EXCEPT ![p].pc = "read", ![p].pre = h, ![p].amt = amt]
    /\ UNCHANGED <<db, world, told, cancels, errors>>

(* Blink says expired.                                                     *)
StatusExpired(p) ==
    /\ At(p, "status") /\ req[p].src = "expire"
    /\ req[p].hs \subseteq lapsed \ paid
    /\ Goto(p, "mark")
    /\ UNCHANGED <<db, world, told, cancels, errors>>

(* No status endpoint, an error, no preimage, or an answer that does not   *)
(* concern the request.                                                    *)
StatusOther(p) ==
    /\ At(p, "status")
    /\ Finish(p)
    /\ UNCHANGED <<db, world, told, cancels, errors>>

(* Mutant of MarkExpired: without AND preimage IS NULL.                    *)
MarkExpiredBlindly(p) ==
    /\ At(p, "mark")
    /\ invoice' = [h \in Hashes |->
                     IF h \in req[p].hs /\ invoice[h] # NULL
                     THEN [invoice[h] EXCEPT !.expired = TRUE] ELSE invoice[h]]
    /\ Finish(p)
    /\ UNCHANGED <<zaps, comments, pendingZap, deliveries, world, told, cancels, errors>>

(* UPDATE invoices SET expired_at ... WHERE preimage IS NULL               *)
MarkExpired(p) ==
    /\ At(p, "mark")
    /\ invoice' = [h \in Hashes |->
                     IF h \in req[p].hs /\ invoice[h] # NULL /\ ~Settled(h)
                     THEN [invoice[h] EXCEPT !.expired = TRUE] ELSE invoice[h]]
    /\ Finish(p)
    /\ UNCHANGED <<zaps, comments, pendingZap, deliveries, world, told, cancels, errors>>

(***************************************************************************)
(* handle_invoice_paid                                                     *)
(***************************************************************************)

(* Mutant of VerifyPreimage: any preimage will do.                         *)
AnyPreimage(h, pre) == pre # NULL

(* verify_preimage: the SHA-256 of the preimage is the payment hash.       *)
VerifyPreimage(h, pre) == pre = h

(* Mutants of ReadInvoice: an expired invoice is taken for a settled one;  *)
(* a settled one is not notified again.                                    *)
ReadInvoiceSkipsExpired(p) ==
    /\ At(p, "read")
    /\ LET h == TheHash(p)
       IN IF ~VerifyPreimage(h, req[p].pre) \/ invoice[h] = NULL THEN Finish(p)
          ELSE IF Settled(h) \/ invoice[h].expired THEN Goto(p, "notify")
          ELSE req' = [req EXCEPT ![p].pc = "store", ![p].row = invoice[h]]
    /\ UNCHANGED <<db, world, told, cancels, errors>>

ReadInvoiceNotifiesOnce(p) ==
    /\ At(p, "read")
    /\ LET h == TheHash(p)
       IN IF ~VerifyPreimage(h, req[p].pre) \/ invoice[h] = NULL THEN Finish(p)
          ELSE IF Settled(h) THEN Goto(p, "answer")
          ELSE req' = [req EXCEPT ![p].pc = "store", ![p].row = invoice[h]]
    /\ UNCHANGED <<db, world, told, cancels, errors>>

ReadInvoice(p) ==
    /\ At(p, "read")
    /\ LET h == TheHash(p)
       IN IF ~VerifyPreimage(h, req[p].pre) \/ invoice[h] = NULL THEN Finish(p)
          ELSE IF Settled(h) THEN Goto(p, "notify")
          ELSE req' = [req EXCEPT ![p].pc = "store", ![p].row = invoice[h]]
    /\ UNCHANGED <<db, world, told, cancels, errors>>

(* The whole row is written back as it was read, with the preimage and the *)
(* amount of this report.                                                  *)
StorePreimage(p) ==
    /\ At(p, "store")
    /\ LET new == [req[p].row EXCEPT !.preimage = req[p].pre, !.amount = req[p].amt]
       IN invoice' = [h \in Hashes |->
                        IF h \in req[p].hs THEN UpsertInvoice(invoice[h], new)
                                           ELSE invoice[h]]
    /\ req' = [req EXCEPT ![p].pc = "enqueue", ![p].aff = req[p].hs]
    /\ UNCHANGED <<zaps, comments, pendingZap, deliveries, world, told, cancels, errors>>

(***************************************************************************)
(* handle_invoices_paid: the batch                                         *)
(***************************************************************************)
Known == {h \in Hashes : invoice[h] # NULL \/ zaps[h] # NULL} \cup comments

FilterKnown(p) ==
    /\ At(p, "filter")
    /\ IF req[p].hs \cap Known = {} THEN Finish(p)
       ELSE req' = [req EXCEPT ![p].pc = "upsert_paid", ![p].hs = @ \cap Known]
    /\ UNCHANGED <<db, world, told, cancels, errors>>

(* Mutant of Affected: without invoices.user_pubkey = excluded.user_pubkey *)
AffectedOfAnyone(p) ==
    {h \in req[p].hs : invoice[h] # NULL => invoice[h].preimage = NULL}

(* A missing row is inserted; an existing one is only updated while it is  *)
(* unpaid and belongs to the user.  amount_received_sat is left alone.     *)
Affected(p) ==
    {h \in req[p].hs : invoice[h] # NULL =>
        invoice[h].user = req[p].user /\ invoice[h].preimage = NULL}

PaidRow(old, h, user) ==
    IF old = NULL
    THEN [user |-> user, provider |-> NULL, preimage |-> h, expired |-> FALSE,
          domain |-> FALSE, amount |-> NULL]
    ELSE [old EXCEPT !.preimage = h, !.expired = FALSE]

UpsertInvoicesPaid(p) ==
    /\ At(p, "upsert_paid")
    /\ invoice' = [h \in Hashes |->
                     IF h \in Affected(p) THEN PaidRow(invoice[h], h, req[p].user)
                                          ELSE invoice[h]]
    /\ req' = [req EXCEPT ![p].pc = IF Affected(p) = {} THEN "notify" ELSE "enqueue",
                          ![p].aff = Affected(p)]
    /\ UNCHANGED <<zaps, comments, pendingZap, deliveries, world, told, cancels, errors>>

(***************************************************************************)
(* What both do after storing the preimage.                                *)
(***************************************************************************)

(* Mutant of EnqueueZap: only a single report is queued.                   *)
EnqueueZapUnlessBatch(p) ==
    /\ At(p, "enqueue")
    /\ pendingZap' = IF req[p].src = "batch" THEN pendingZap
                     ELSE pendingZap \cup req[p].aff
    /\ Goto(p, "notify")
    /\ UNCHANGED <<invoice, zaps, comments, deliveries, world, told, cancels, errors>>

(* INSERT INTO pending_zap_receipts ... ON CONFLICT DO NOTHING             *)
EnqueueZap(p) ==
    /\ At(p, "enqueue")
    /\ pendingZap' = pendingZap \cup req[p].aff
    /\ Goto(p, "notify")
    /\ UNCHANGED <<invoice, zaps, comments, deliveries, world, told, cancels, errors>>

(* Mutant of GetPayloads: without i.preimage IS NOT NULL.                  *)
GetPayloadsUnpaid(p) ==
    /\ At(p, "notify")
    /\ LET data == {h \in req[p].hs : invoice[h] # NULL /\ invoice[h].domain}
       IN req' = [req EXCEPT ![p].pc = IF data = {} THEN "answer" ELSE "insert",
                             ![p].aff = data]
    /\ UNCHANGED <<db, world, told, cancels, errors>>

(* get_webhook_payloads: the paid rows that have a domain.                 *)
GetPayloads(p) ==
    /\ At(p, "notify")
    /\ LET data == {h \in req[p].hs : Settled(h) /\ invoice[h].domain}
       IN req' = [req EXCEPT ![p].pc = IF data = {} THEN "answer" ELSE "insert",
                             ![p].aff = data]
    /\ UNCHANGED <<db, world, told, cancels, errors>>

(* insert_webhook_deliveries: where no row exists for the hash.            *)
InsertDeliveries(p) ==
    /\ At(p, "insert")
    /\ deliveries' = deliveries \cup req[p].aff
    /\ Goto(p, "answer")
    /\ UNCHANGED <<invoice, zaps, comments, pendingZap, world, told, cancels, errors>>

(* An error while enqueueing webhooks is logged and the request goes on.   *)
NotifyFails(p) ==
    /\ At(p, "notify") \/ At(p, "insert")
    /\ errors < MaxErrors
    /\ errors' = errors + 1
    /\ Goto(p, "answer")
    /\ UNCHANGED <<db, world, told, cancels>>

(* The workers are triggered and the caller is told OK.  An OK to a batch  *)
(* confirms no particular invoice.                                         *)
Answer(p) ==
    /\ At(p, "answer")
    /\ told' = told \cup IF req[p].src = "batch" THEN {}
                         ELSE {<<h, req[p].amt>> : h \in req[p].hs}
    /\ Finish(p)
    /\ UNCHANGED <<db, world, cancels, errors>>

(* The request stops before its next statement: the server crashes, the    *)
(* client hangs up and the handler is dropped, or the statement fails and  *)
(* the error is returned.                                                  *)
Cancel(p) ==
    /\ ~At(p, "idle")
    /\ cancels < MaxCancels
    /\ cancels' = cancels + 1
    /\ Finish(p)
    /\ UNCHANGED <<db, world, told, errors>>

(***************************************************************************)
(* The specification.                                                      *)
(***************************************************************************)
MintStep(p) == MintZap(p) \/ MintComment(p) \/ MintInvoice(p) \/ MintAnswer(p)

RouteStep(p) ==
    \/ VerifyRead(p) \/ Lookup(p) \/ LookupZap(p)
    \/ StatusSettled(p) \/ StatusExpired(p) \/ StatusOther(p) \/ MarkExpired(p)

SettleStep(p) ==
    \/ ReadInvoice(p) \/ StorePreimage(p) \/ FilterKnown(p) \/ UpsertInvoicesPaid(p)
    \/ EnqueueZap(p) \/ GetPayloads(p) \/ InsertDeliveries(p) \/ Answer(p)

Arrive(p) ==
    \/ MintRequest(p)
    \/ \E h \in Hashes : BlinkWebhookPaid(p, h) \/ BlinkWebhookExpired(p, h) \/ Verify(p, h)
    \/ \E h \in Hashes, u \in Users :
         SspWebhook(p, h, u) \/ InvoicePaid(p, h, u) \/ PublishZapReceipt(p, h, u)
    \/ \E hs \in SUBSET Hashes, u \in Users : InvoicesPaid(p, hs, u)

Next ==
    \/ \E h \in Hashes : Pay(h) \/ Lapse(h)
    \/ \E p \in Handlers :
         Arrive(p) \/ MintStep(p) \/ RouteStep(p) \/ SettleStep(p)
                   \/ NotifyFails(p) \/ Cancel(p)

Spec == Init /\ [][Next]_vars

(* A handler that is not stopped goes on (the runtime schedules it and     *)
(* every await ends: the database answers or fails, the provider client    *)
(* times out).  The SSP repeats its callback, to the receiver of the       *)
(* invoice, until it was answered OK.                                      *)
SspRedelivers(h) ==
    \E p \in Handlers :
        /\ invoice[h] # NULL /\ invoice[h].user \in Users
        /\ \A amt \in Amounts : <<h, amt>> \notin told
        /\ SspWebhook(p, h, invoice[h].user)

Fairness ==
    /\ \A p \in Handlers : WF_vars(MintStep(p) \/ RouteStep(p) \/ SettleStep(p))
    /\ \A h \in Hashes : SF_vars(SspRedelivers(h))

FairSpec == Spec /\ Fairness

(***************************************************************************)
(* Properties.                                                             *)
(***************************************************************************)

(* Every variable holds a value of the tables' and handlers' types.        *)
TypeOK ==
    /\ invoice \in [Hashes -> Row \cup {NULL}]
    /\ zaps \in [Hashes -> Users \cup {Nobody, NULL}]
    /\ comments \subseteq Hashes
    /\ pendingZap \subseteq Hashes
    /\ deliveries \subseteq Hashes
    /\ req \in [Handlers -> Request]
    /\ minted \subseteq Hashes /\ handed \subseteq Hashes
    /\ paid \subseteq Hashes /\ lapsed \subseteq Hashes
    /\ told \subseteq Hashes \X Amounts
    /\ cancels \in 0..MaxCancels /\ errors \in 0..MaxErrors

(* A stored preimage opens the row's payment hash, and the invoice really  *)
(* was paid: whatever mixture of callbacks, client reports and status      *)
(* polls stored it, and whatever preimages they carried.                   *)
StoredIsPaid ==
    \A h \in Hashes : Settled(h) => h \in paid /\ invoice[h].preimage = h

(* A paid invoice is never marked expired, although the provider's expired *)
(* status may be read before the payment and written after it.             *)
PaidNotExpired ==
    \A h \in Hashes : Settled(h) => ~invoice[h].expired

(* A zap receipt or a webhook is only ever queued for an invoice whose     *)
(* preimage is stored, so that the workers find what they publish.         *)
QueuedIsSettled ==
    /\ \A h \in pendingZap : Settled(h)
    /\ \A h \in deliveries : Settled(h) /\ invoice[h].domain

(* Whatever the server has confirmed as settled is stored as settled: an   *)
(* OK to the SSP or to Blink, and settled = true from verify.              *)
ToldIsStored == \A t \in told : Settled(t[1])

(* The payer is handed an invoice only after the server stored its row,    *)
(* with its domain, so verify and the webhooks work from the first moment. *)
HandedIsRecorded ==
    \A h \in handed \ Legacy : invoice[h] # NULL /\ invoice[h].domain

(* A stored preimage is never lost or replaced: no write of a row that was *)
(* read earlier, and no late INSERT of a minting request, undoes it.       *)
PreimageKept ==
    [][\A h \in Hashes : Settled(h) =>
          /\ invoice'[h] # NULL
          /\ invoice'[h].preimage = invoice[h].preimage]_vars

(* A user's report changes an existing invoice only if it is the user's.   *)
OwnersOnly ==
    [][\A p \in Handlers, h \in Hashes :
          /\ req[p].src \in {"client", "zap", "batch"}
          /\ req'[p] # req[p]
          /\ invoice'[h] # invoice[h]
          /\ invoice[h] # NULL
          => invoice[h].user = req[p].user]_vars

(* Once a Spark invoice was paid its webhook is eventually queued, even if *)
(* requests stop half-way: a repeated callback notifies again although the *)
(* preimage is already stored.                                             *)
WebhookQueued ==
    \A h \in Hashes :
        (h \in paid /\ invoice[h] # NULL /\ invoice[h].user \in Users /\ invoice[h].domain)
            ~> h \in deliveries

(* Once the preimage of a zapped invoice is stored its zap receipt is      *)
(* eventually queued.                                                      *)
ZapQueued == \A h \in Hashes : (Settled(h) /\ zaps[h] # NULL) ~> h \in pendingZap

(* So it is, by a single report or by a batch, as long as no request stops *)
(* half-way.                                                               *)
ZapQueuedUnlessStopped ==
    \A h \in Hashes :
        (Settled(h) /\ zaps[h] # NULL) ~> (h \in pendingZap \/ cancels > 0)

(* The tables change as the adapter's contract says: whatever was read     *)
(* before a write, the write stores an invoice that is new, or the one     *)
(* that is stored at that moment, with its owner, provider, domain and     *)
(* preimage.  The amount alone is that of whichever report writes last.    *)
Store == INSTANCE SqlitePayments

ImplementsStore == Store!Spec
=============================================================================
