--------------------------- MODULE SqlitePayments ---------------------------
(***************************************************************************)
(* The tables of invoices, zaps, comments and what is queued after a       *)
(* payment, as the SQLite adapter writes them: one method, one step.       *)
(*                                                                         *)
(* Next adds what the callers owe the adapter, whose statements accept any *)
(* argument: a preimage that is written opens the hash; upsert_invoice is  *)
(* given a new invoice, or the stored one with the preimage and with the   *)
(* amount of the report that writes, which may replace the amount of an    *)
(* earlier one; and only what is settled is queued.  Settlement shows that *)
(* the routes keep to it.                                                  *)
(***************************************************************************)
CONSTANTS Hashes, Users, Nobody, Amounts, Legacy, NULL

VARIABLES invoice, zaps, comments, pendingZap, deliveries

store == <<invoice, zaps, comments, pendingZap, deliveries>>

Init ==
    /\ invoice = [h \in Hashes |-> NULL]
    /\ zaps \in [Hashes -> Users \cup {NULL}]
    /\ \A h \in Hashes : zaps[h] # NULL <=> h \in Legacy
    /\ comments = {} /\ pendingZap = {} /\ deliveries = {}

(***************************************************************************)
(* What is read.                                                           *)
(***************************************************************************)

(* get_invoice_by_payment_hash                                             *)
Settled(h) == invoice[h] # NULL /\ invoice[h].preimage # NULL

(* get_webhook_payloads                                                    *)
Payloads(hs) == {h \in hs : Settled(h) /\ invoice[h].domain}

(* filter_known_payment_hashes                                             *)
Known(hs) == {h \in hs : invoice[h] # NULL \/ zaps[h] # NULL \/ h \in comments}

(***************************************************************************)
(* What is written.                                                        *)
(***************************************************************************)
UpsertZap(h, user) ==
    /\ zaps' = [zaps EXCEPT ![h] = user]
    /\ UNCHANGED <<invoice, comments, pendingZap, deliveries>>

InsertLnurlSenderComment(h) ==
    /\ comments' = comments \cup {h}
    /\ UNCHANGED <<invoice, zaps, pendingZap, deliveries>>

(* ON CONFLICT(payment_hash) DO UPDATE: a preimage clears the expiry, and  *)
(* nothing but the expiry and the provider outlives the update.            *)
Merged(old, new) ==
    IF old = NULL THEN new
    ELSE [user |-> new.user,
          provider |-> IF new.provider = NULL THEN old.provider ELSE new.provider,
          preimage |-> new.preimage,
          expired |-> new.preimage = NULL /\ (new.expired \/ old.expired),
          domain |-> new.domain, amount |-> new.amount]

UpsertInvoice(h, new) ==
    /\ invoice' = [invoice EXCEPT ![h] = Merged(@, new)]
    /\ UNCHANGED <<zaps, comments, pendingZap, deliveries>>

(* WHERE invoices.user_pubkey = excluded.user_pubkey                       *)
(* AND invoices.preimage IS NULL                                           *)
Updates(h, user) ==
    invoice[h] = NULL \/ (invoice[h].user = user /\ invoice[h].preimage = NULL)

PaidRow(old, h, user) ==
    IF old = NULL
    THEN [user |-> user, provider |-> NULL, preimage |-> h, expired |-> FALSE,
          domain |-> FALSE, amount |-> NULL]
    ELSE [user |-> old.user, provider |-> old.provider, preimage |-> h, expired |-> FALSE,
          domain |-> old.domain, amount |-> old.amount]

(* One row after the other, in one transaction; all carry their preimages. *)
UpsertInvoicesPaid(hs, user) ==
    /\ invoice' = [h \in Hashes |-> IF h \in hs /\ Updates(h, user)
                                    THEN PaidRow(invoice[h], h, user) ELSE invoice[h]]
    /\ UNCHANGED <<zaps, comments, pendingZap, deliveries>>

MarkInvoiceExpired(h) ==
    /\ invoice[h] # NULL /\ invoice[h].preimage = NULL
    /\ invoice' = [invoice EXCEPT ![h].expired = TRUE]
    /\ UNCHANGED <<zaps, comments, pendingZap, deliveries>>

(* One receipt, or a batch of them.                                        *)
InsertPendingZapReceipts(hs) ==
    /\ pendingZap' = pendingZap \cup hs
    /\ UNCHANGED <<invoice, zaps, comments, deliveries>>

InsertWebhookDeliveries(hs) ==
    /\ deliveries' = deliveries \cup hs
    /\ UNCHANGED <<invoice, zaps, comments, pendingZap>>

(***************************************************************************)
(* The callers.                                                            *)
(***************************************************************************)
NewInvoices ==
    [user: Users \cup {Nobody}, provider: {"spark", "blink"}, preimage: {NULL},
     expired: {FALSE}, domain: {TRUE}, amount: {NULL}]

(* The stored invoice, perhaps as it was before it expired, with whatever  *)
(* amount the report carries: the last writer's amount stands.             *)
PaidInvoices(h) ==
    [user: {invoice[h].user}, provider: {invoice[h].provider}, preimage: {h},
     expired: BOOLEAN, domain: {invoice[h].domain}, amount: Amounts]

Arguments(h) == IF invoice[h] = NULL THEN NewInvoices ELSE PaidInvoices(h)

Next ==
    \/ InsertWebhookDeliveries({})      \* nothing to deliver
    \/ \E h \in Hashes :
          \/ \E new \in Arguments(h) : UpsertInvoice(h, new)
          \/ MarkInvoiceExpired(h) \/ InsertLnurlSenderComment(h)
          \/ \E user \in Users \cup {Nobody} : UpsertZap(h, user)
    \/ \E hs \in SUBSET Hashes :
          \/ \E user \in Users : hs = Known(hs) /\ UpsertInvoicesPaid(hs, user)
          \/ (\A h \in hs : Settled(h)) /\ InsertPendingZapReceipts(hs)
          \/ hs = Payloads(hs) /\ InsertWebhookDeliveries(hs)

Spec == Init /\ [][Next]_store
=============================================================================
