----------------------------- MODULE SqliteQueue -----------------------------
(***************************************************************************)
(* The table webhook_deliveries as the SQLite adapter writes it, one       *)
(* method a step.  A row and time are those of WebhookQueue: wait counts   *)
(* down to the retry, claim is the age of the claim, done says that        *)
(* succeeded_at is set, url that an outcome was recorded.                  *)
(*                                                                         *)
(* The statements that end an attempt name a row by its id and look at     *)
(* nothing else: any of them may come late, after the claim went stale and *)
(* another server took the row.  WebhookQueue shows in which order they    *)
(* come.                                                                   *)
(***************************************************************************)
EXTENDS Integers

CONSTANTS Ids, DomainOf, Stale, RetryDelay, MaxOverdue, MaxRetries, NULL, Never

VARIABLE rows

Init == rows = [i \in Ids |-> NULL]

New == [url |-> FALSE, wait |-> 0, claim |-> NULL, done |-> FALSE, retries |-> 0]

(* insert_webhook_deliveries: WHERE NOT EXISTS the identifier and domain.  *)
InsertWebhookDeliveries(ids) ==
    rows' = [i \in Ids |-> IF i \in ids /\ rows[i] = NULL THEN New ELSE rows[i]]

Pending(i) ==
    /\ rows[i] # NULL /\ ~rows[i].done
    /\ rows[i].wait # Never /\ rows[i].wait <= 0
    /\ rows[i].claim # NULL => rows[i].claim > Stale

(* ROW_NUMBER() OVER (PARTITION BY domain ORDER BY next_retry_at) = 1; the *)
(* sort leaves open which of two equal rows comes first.                   *)
First(i) ==
    /\ Pending(i)
    /\ \A j \in Ids : Pending(j) /\ DomainOf[j] = DomainOf[i] => rows[i].wait <= rows[j].wait

(* take_pending_webhook_deliveries: one statement, nobody comes between.   *)
TakePendingWebhookDeliveries(ids) ==
    /\ \A i \in ids : First(i)
    /\ \A i, j \in ids : DomainOf[i] = DomainOf[j] => i = j
    /\ rows' = [i \in Ids |-> IF i \in ids THEN [rows[i] EXCEPT !.claim = 0] ELSE rows[i]]

UpdateWebhookDeliverySuccess(i) ==
    /\ rows[i] # NULL
    /\ rows' = [rows EXCEPT ![i].done = TRUE, ![i].url = TRUE]

UpdateWebhookDeliveryFailure(i, retries, wait) ==
    /\ rows[i] # NULL
    /\ rows' = [rows EXCEPT ![i] = [url |-> TRUE, wait |-> wait, claim |-> NULL,
                                    done |-> rows[i].done, retries |-> retries]]

(* A retry is due that many ticks after the post began; the post, and what *)
(* comes after it, took some of them.                                      *)
Due(retries, since) ==
    IF RetryDelay[retries] - since > -MaxOverdue THEN RetryDelay[retries] - since
    ELSE -MaxOverdue

UnclaimWebhookDeliveries(ids) ==
    rows' = [i \in Ids |-> IF i \in ids /\ rows[i] # NULL
                           THEN [rows[i] EXCEPT !.claim = NULL] ELSE rows[i]]

(* delete_webhook_deliveries_older_than, whatever became of the delivery.  *)
DeleteWebhookDeliveriesOlderThan(ids) ==
    rows' = [i \in Ids |-> IF i \in ids THEN NULL ELSE rows[i]]

DeleteWebhookDelivery(i) == rows' = [rows EXCEPT ![i] = NULL]

(* i64::MAX is never due.                                                  *)
ParkWebhookDelivery(i) ==
    /\ rows[i] # NULL
    /\ rows' = [rows EXCEPT ![i].wait = Never, ![i].claim = NULL]

(* The clock the statements read; what is long due, or long stale, is no   *)
(* longer told apart.                                                      *)
Tick ==
    rows' = [i \in Ids |->
               IF rows[i] = NULL THEN NULL
               ELSE [rows[i] EXCEPT
                       !.wait = IF @ = Never \/ @ = -MaxOverdue THEN @ ELSE @ - 1,
                       !.claim = IF @ = NULL \/ @ = Stale + 1 THEN @ ELSE @ + 1]]

Next ==
    \/ Tick
    \/ \E i \in Ids :
          \/ UpdateWebhookDeliverySuccess(i) \/ ParkWebhookDelivery(i) \/ DeleteWebhookDelivery(i)
          \/ \E retries \in 0 .. MaxRetries, since \in 0 .. Stale + 1 :
                UpdateWebhookDeliveryFailure(i, retries, Due(retries, since))
    \/ \E ids \in SUBSET Ids :
          \/ InsertWebhookDeliveries(ids) \/ TakePendingWebhookDeliveries(ids)
          \/ UnclaimWebhookDeliveries(ids) \/ DeleteWebhookDeliveriesOlderThan(ids)

Spec == Init /\ [][Next]_rows

(* A delivery that succeeded is never claimed again and stays so until it  *)
(* is deleted, whatever late statement reaches its row.                    *)
SuccessIsFinal ==
    [][\A i \in Ids : rows[i] # NULL /\ rows[i].done /\ rows'[i] # NULL =>
          /\ rows'[i].done
          /\ rows'[i].claim = 0 => rows[i].claim = 0]_rows
==============================================================================
