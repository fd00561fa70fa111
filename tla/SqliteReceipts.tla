--------------------------- MODULE SqliteReceipts ---------------------------
(***************************************************************************)
(* The table pending_zap_receipts and the column zaps.zap_event as the     *)
(* SQLite adapter writes them, one method a step.  A row is that of        *)
(* ZapReceipts.                                                            *)
(*                                                                         *)
(* Next adds what its callers owe the adapter: a receipt is queued only    *)
(* for a settled invoice, an event once stored is only replaced by an      *)
(* event, and a receipt is deleted only when its event is stored, there is *)
(* nothing to publish, or it was given up.                                 *)
(***************************************************************************)
EXTENDS FiniteSets, Naturals

CONSTANTS Hashes, Zapped, Limit, NULL

VARIABLES settled, pending, event, dropped

store == <<settled, pending, event, dropped>>

Init ==
    /\ settled = {} /\ dropped = {}
    /\ pending = [h \in Hashes |-> NULL] /\ event = [h \in Hashes |-> NULL]

(* The preimage of upsert_invoice.                                         *)
UpsertInvoice(h) ==
    /\ settled' = settled \cup {h}
    /\ UNCHANGED <<pending, event, dropped>>

(* ON CONFLICT(payment_hash) DO NOTHING                                    *)
InsertPendingZapReceipt(h) ==
    /\ pending' = [pending EXCEPT ![h] =
                     IF @ # NULL THEN @
                     ELSE [due |-> TRUE, claim |-> "none", old |-> FALSE]]
    /\ UNCHANGED <<settled, event, dropped>>

Due(h) == pending[h] # NULL /\ pending[h].due /\ pending[h].claim \in {"none", "stale"}

(* UPDATE ... WHERE payment_hash IN (SELECT ... LIMIT)                     *)
TakePendingZapReceipts(hs) ==
    /\ \A h \in hs : Due(h)
    /\ Cardinality(hs) <= Limit
    /\ \A h \in Hashes \ hs : Due(h) => Cardinality(hs) = Limit
    /\ pending' = [h \in Hashes |-> IF h \in hs THEN [pending[h] EXCEPT !.claim = "fresh"]
                                    ELSE pending[h]]
    /\ UNCHANGED <<settled, event, dropped>>

UpdatePendingZapReceiptRetry(h) ==
    /\ pending[h] # NULL
    /\ pending' = [pending EXCEPT ![h].due = FALSE, ![h].claim = "none"]
    /\ UNCHANGED <<settled, event, dropped>>

DeletePendingZapReceipt(h) ==
    /\ pending' = [pending EXCEPT ![h] = NULL]
    /\ UNCHANGED <<settled, event, dropped>>

(* The event of upsert_zap; the rest of the row is never changed.          *)
UpsertZap(h, new) ==
    /\ event' = [event EXCEPT ![h] = new]
    /\ UNCHANGED <<settled, pending, dropped>>

(* get_zap_and_invoice_by_payment_hash: what is left to publish.           *)
Unpublished(h) == h \in Zapped /\ event[h] = NULL

GiveUp(h) ==
    /\ dropped' = dropped \cup {h}
    /\ UNCHANGED <<settled, pending, event>>

(* The clock the statements read.                                          *)
Ages(row) ==
    {[row EXCEPT !.due = TRUE], [row EXCEPT !.old = TRUE],
     [row EXCEPT !.claim = IF @ = "fresh" THEN "stale" ELSE @]}

Tick(h) ==
    /\ pending[h] # NULL
    /\ \E row \in Ages(pending[h]) : pending' = [pending EXCEPT ![h] = row]
    /\ UNCHANGED <<settled, event, dropped>>

Next ==
    \/ \E h \in Hashes :
          \/ GiveUp(h) \/ UpsertInvoice(h) \/ UpdatePendingZapReceiptRetry(h) \/ Tick(h)
          \/ h \in settled /\ InsertPendingZapReceipt(h)
          \/ (Unpublished(h) => h \in dropped) /\ DeletePendingZapReceipt(h)
          \/ \E new \in {"sent", "unsent"} : UpsertZap(h, new)
    \/ \E hs \in SUBSET Hashes : TakePendingZapReceipts(hs)

Spec == Init /\ [][Next]_store
=============================================================================
