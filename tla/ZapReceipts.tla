----------------------------- MODULE ZapReceipts -----------------------------
(***************************************************************************)
(* Publishing zap receipts to Nostr relays: the reports that settle an     *)
(* invoice and queue its receipt, the worker of every server, which drains *)
(* the table pending_zap_receipts, and the route with which a client       *)
(* publishes a receipt itself.  Worker and route write zaps.zap_event.     *)
(*                                                                         *)
(* One action is one await: one SQL statement or one exchange with the     *)
(* relays.  Who may report what is the subject of Settlement.              *)
(***************************************************************************)
EXTENDS Naturals, FiniteSets

CONSTANTS
    Hashes,     \* payment hashes of recorded invoices
    Zapped,     \* those with a row in the table zaps
    Servers,
    Keyed,      \* servers configured with Nostr keys
    Handlers,   \* requests that report a payment or publish a receipt
    Limit,      \* ZAP_RECEIPT_BATCH_LIMIT
    MaxFaults,  \* bound on crashes and failed statements
    NULL

ASSUME SetAssumption ==
    /\ IsFiniteSet(Hashes)
    /\ Zapped \subseteq Hashes /\ Keyed \subseteq Servers
ASSUME BoundAssumption == Limit \in Nat \ {0} /\ MaxFaults \in Nat

VARIABLES
    settled,    \* invoices whose preimage is stored
    pending,    \* table pending_zap_receipts: hash -> row
    event,      \* zaps.zap_event: NULL, or whether the relays took it
    onRelay,    \* hashes of which a receipt reached the relays
    dropped,    \* receipts given up: too old, or by a server without keys
    cut,        \* hashes that a request settled and then did not queue
    worker,     \* server -> its worker
    request,    \* handler -> the request it is serving
    faults

vars == <<settled, pending, event, onRelay, dropped, cut, worker, request, faults>>

(* due: next_retry_at has passed.  claim: claimed_at, stale once it is     *)
(* older than five minutes.  old: created more than 14 days ago.           *)
Row == [due: BOOLEAN, claim: {"none", "fresh", "stale"}, old: BOOLEAN]

ASSUME NullAssumption == NULL \notin Hashes \cup Row \cup {"sent", "unsent"}

(* todo: claimed receipts not worked on yet; cur: the one worked on.       *)
(* more: whether the batch was full.                                       *)
Worker == [pc: {"wait", "take", "next", "publish", "store", "delete", "retry"},
           todo: SUBSET Hashes, cur: Hashes \cup {NULL}, more: BOOLEAN]

(* publishes: a request of the route, not only a report.                   *)
(* copy: the zap_event the route read first.                               *)
Request == [pc: {"idle", "read", "store", "queue", "send", "save"},
            hash: Hashes \cup {NULL}, publishes: BOOLEAN,
            copy: {NULL, "sent", "unsent"}, sent: {"sent", "unsent"}]

Idle == [pc |-> "idle", hash |-> NULL, publishes |-> FALSE, copy |-> NULL, sent |-> "unsent"]
Waiting == [pc |-> "wait", todo |-> {}, cur |-> NULL, more |-> FALSE]

Init ==
    /\ settled = {} /\ pending = [h \in Hashes |-> NULL]
    /\ event = [h \in Hashes |-> NULL] /\ onRelay = {} /\ dropped = {} /\ cut = {}
    /\ worker = [s \in Servers |-> Waiting]
    /\ request = [p \in Handlers |-> Idle]
    /\ faults = 0

NewRow == [due |-> TRUE, claim |-> "none", old |-> FALSE]

(***************************************************************************)
(* Reports: handle_invoice_paid, called by the callbacks and by the route. *)
(***************************************************************************)
Moves(p, r) == request' = [request EXCEPT ![p] = r]

Report(p) ==
    /\ request[p].pc = "idle"
    /\ \E h \in Hashes : Moves(p, [Idle EXCEPT !.pc = "read", !.hash = h])
    /\ UNCHANGED <<settled, pending, event, onRelay, dropped, cut, worker, faults>>

(* A report ends; the route goes on, unless the receipt was stored when it *)
(* read the zap: then it answers with that one.                            *)
Reported(r) == IF r.publishes /\ r.copy = NULL THEN [r EXCEPT !.pc = "send"] ELSE Idle

(* An invoice with a preimage is neither written nor queued again.         *)
ReadInvoice(p) ==
    /\ request[p].pc = "read"
    /\ Moves(p, IF request[p].hash \in settled THEN Reported(request[p])
                ELSE [request[p] EXCEPT !.pc = "store"])
    /\ UNCHANGED <<settled, pending, event, onRelay, dropped, cut, worker, faults>>

StorePreimage(p) ==
    /\ request[p].pc = "store"
    /\ settled' = settled \cup {request[p].hash}
    /\ Moves(p, [request[p] EXCEPT !.pc = "queue"])
    /\ UNCHANGED <<pending, event, onRelay, dropped, cut, worker, faults>>

(* enqueue_zap_receipt, for an invoice without a zap as well.              *)
EnqueueReceipt(p) ==
    /\ request[p].pc = "queue"
    /\ LET h == request[p].hash
       IN /\ pending' = IF pending[h] # NULL THEN pending
                        ELSE [pending EXCEPT ![h] = NewRow]
          /\ cut' = cut \ {h}
    /\ Moves(p, Reported(request[p]))
    /\ UNCHANGED <<settled, event, onRelay, dropped, worker, faults>>

(* What a request that leaves the report now has settled but not queued.   *)
CutOff(r) == IF r.pc = "queue" /\ pending[r.hash] = NULL THEN {r.hash} ELSE {}

(* A statement of the report fails: the route logs it and goes on.         *)
ReportFails(p) ==
    /\ request[p].pc \in {"read", "store", "queue"} /\ faults < MaxFaults
    /\ faults' = faults + 1
    /\ cut' = cut \cup CutOff(request[p])
    /\ Moves(p, Reported(request[p]))
    /\ UNCHANGED <<settled, pending, event, onRelay, dropped, worker>>

(* The request stops half-way.                                             *)
RequestStops(p) ==
    /\ request[p].pc # "idle" /\ faults < MaxFaults
    /\ faults' = faults + 1
    /\ cut' = cut \cup CutOff(request[p])
    /\ Moves(p, Idle)
    /\ UNCHANGED <<settled, pending, event, onRelay, dropped, worker>>

(***************************************************************************)
(* Time.                                                                   *)
(***************************************************************************)
Due(h) ==
    /\ pending[h] # NULL /\ ~pending[h].due
    /\ pending' = [pending EXCEPT ![h].due = TRUE]
    /\ UNCHANGED <<settled, event, onRelay, dropped, cut, worker, request, faults>>

(* Nothing renews a claim, and nothing bounds the time that a batch takes  *)
(* over slow relays: a claim may become stale while it is still worked on. *)
GoStale(h) ==
    /\ pending[h] # NULL /\ pending[h].claim = "fresh"
    /\ pending' = [pending EXCEPT ![h].claim = "stale"]
    /\ UNCHANGED <<settled, event, onRelay, dropped, cut, worker, request, faults>>

GrowOld(h) ==
    /\ pending[h] # NULL /\ ~pending[h].old
    /\ pending' = [pending EXCEPT ![h].old = TRUE]
    /\ UNCHANGED <<settled, event, onRelay, dropped, cut, worker, request, faults>>

(***************************************************************************)
(* The worker.                                                             *)
(***************************************************************************)
At(s, pc) == worker[s].pc = pc
Step(s, pc) == worker' = [worker EXCEPT ![s].pc = pc]

(* Mutant of NextItem: the receipt is not let go.                          *)
NextItemKeeps(s) == worker' = [worker EXCEPT ![s].pc = "next"]

NextItem(s) == worker' = [worker EXCEPT ![s].pc = "next", ![s].cur = NULL]

(* The worker is triggered, or a minute has passed.                        *)
Wake(s) ==
    /\ At(s, "wait")
    /\ Step(s, "take")
    /\ UNCHANGED <<settled, pending, event, onRelay, dropped, cut, request, faults>>

(* Mutant of Claimable: a claim is never taken over.                       *)
ClaimableOnce ==
    {h \in Hashes : pending[h] # NULL /\ pending[h].due /\ pending[h].claim = "none"}

(* next_retry_at <= now AND COALESCE(claimed_at, 0) < now - 5 minutes      *)
Claimable ==
    {h \in Hashes : pending[h] # NULL /\ pending[h].due /\ pending[h].claim # "fresh"}

(* Mutant of TakePending: the rows are taken off the table.                *)
TakePendingRemoves(s) ==
    /\ At(s, "take")
    /\ \E S \in SUBSET Claimable :
         /\ Cardinality(S) = IF Cardinality(Claimable) < Limit
                             THEN Cardinality(Claimable) ELSE Limit
         /\ pending' = [h \in Hashes |-> IF h \in S THEN NULL ELSE pending[h]]
         /\ worker' = [worker EXCEPT ![s] =
                         IF S = {} THEN Waiting
                         ELSE [pc |-> "next", todo |-> S, cur |-> NULL,
                               more |-> Cardinality(S) = Limit]]
    /\ UNCHANGED <<settled, event, onRelay, dropped, cut, request, faults>>

(* take_pending_zap_receipts                                               *)
TakePending(s) ==
    /\ At(s, "take")
    /\ \E S \in SUBSET Claimable :
         /\ Cardinality(S) = IF Cardinality(Claimable) < Limit
                             THEN Cardinality(Claimable) ELSE Limit
         /\ pending' = [h \in Hashes |->
                          IF h \in S THEN [pending[h] EXCEPT !.claim = "fresh"]
                                     ELSE pending[h]]
         /\ worker' = [worker EXCEPT ![s] =
                         IF S = {} THEN Waiting
                         ELSE [pc |-> "next", todo |-> S, cur |-> NULL,
                               more |-> Cardinality(S) = Limit]]
    /\ UNCHANGED <<settled, event, onRelay, dropped, cut, request, faults>>

(* The batch is done: another one follows if this one was full.            *)
EndBatch(s) ==
    /\ At(s, "next") /\ worker[s].todo = {}
    /\ worker' = [worker EXCEPT ![s] = [Waiting EXCEPT !.pc =
                                          IF worker[s].more THEN "take" ELSE "wait"]]
    /\ UNCHANGED <<settled, pending, event, onRelay, dropped, cut, request, faults>>

(* get_zap_and_invoice_by_payment_hash: the rows as they are now.          *)
Unpublished(h) == h \in Zapped /\ event[h] = NULL

(* A receipt without a zap, or already published, leaves the queue; so it  *)
(* does, unpublished, if it is too old or the server has no keys.  The     *)
(* deletion of a receipt whose invoice is missing cannot happen: receipts  *)
(* are queued for recorded invoices only, and no invoice is ever deleted.  *)
Fetch(s) ==
    /\ At(s, "next")
    /\ \E h \in worker[s].todo, old \in BOOLEAN :
         LET giveUp == old \/ s \notin Keyed
             pc == IF giveUp \/ ~Unpublished(h) THEN "delete"
                   ELSE IF h \in settled THEN "publish" ELSE "next"
         IN /\ pending[h] # NULL => old = pending[h].old
            /\ worker' = [worker EXCEPT ![s].pc = pc, ![s].todo = @ \ {h},
                                        ![s].cur = IF pc = "next" THEN NULL ELSE h]
            /\ dropped' = IF giveUp THEN dropped \cup {h} ELSE dropped
    /\ UNCHANGED <<settled, pending, event, onRelay, cut, request, faults>>

(* publish_zap_receipt: some relay takes the event, or none does.          *)
PublishOk(s) ==
    /\ At(s, "publish")
    /\ onRelay' = onRelay \cup {worker[s].cur}
    /\ Step(s, "store")
    /\ UNCHANGED <<settled, pending, event, dropped, cut, request, faults>>

PublishFails(s) ==
    /\ At(s, "publish")
    /\ Step(s, "retry")
    /\ UNCHANGED <<settled, pending, event, onRelay, dropped, cut, request, faults>>

(* The copy of the zap row read before publishing is written back.         *)
StoreEvent(s) ==
    /\ At(s, "store")
    /\ event' = [event EXCEPT ![worker[s].cur] = "sent"]
    /\ Step(s, "delete")
    /\ UNCHANGED <<settled, pending, onRelay, dropped, cut, request, faults>>

(* A failed write counts as a failure to publish.                          *)
StoreFails(s) ==
    /\ At(s, "store") /\ faults < MaxFaults
    /\ faults' = faults + 1
    /\ Step(s, "retry")
    /\ UNCHANGED <<settled, pending, event, onRelay, dropped, cut, request>>

(* delete_pending_zap_receipt                                              *)
DeletePending(s) ==
    /\ At(s, "delete")
    /\ pending' = [pending EXCEPT ![worker[s].cur] = NULL]
    /\ NextItem(s)
    /\ UNCHANGED <<settled, event, onRelay, dropped, cut, request, faults>>

(* Mutant of RetryPending: a receipt that failed is given up.           *)
RetryPendingGivesUp(s) ==
    /\ At(s, "retry")
    /\ pending' = [pending EXCEPT ![worker[s].cur] = NULL]
    /\ NextItem(s)
    /\ UNCHANGED <<settled, event, onRelay, dropped, cut, request, faults>>

(* update_pending_zap_receipt_retry                                        *)
RetryPending(s) ==
    /\ At(s, "retry")
    /\ LET h == worker[s].cur
       IN pending' = IF pending[h] = NULL THEN pending
                     ELSE [pending EXCEPT ![h].due = FALSE, ![h].claim = "none"]
    /\ NextItem(s)
    /\ UNCHANGED <<settled, event, onRelay, dropped, cut, request, faults>>

(* A statement fails: logged, and the next receipt, or the end of the      *)
(* batches if it was the one that claims.                                  *)
StatementFails(s) ==
    /\ faults < MaxFaults
    /\ \/ worker[s].pc \in {"delete", "retry"} /\ NextItem(s)
       \/ /\ At(s, "next")
          /\ \E h \in worker[s].todo : worker' = [worker EXCEPT ![s].todo = @ \ {h}]
       \/ At(s, "take") /\ Step(s, "wait")
    /\ faults' = faults + 1
    /\ UNCHANGED <<settled, pending, event, onRelay, dropped, cut, request>>

Crash(s) ==
    /\ faults < MaxFaults
    /\ faults' = faults + 1
    /\ worker' = [worker EXCEPT ![s] = [Waiting EXCEPT !.pc = "take"]]
    /\ UNCHANGED <<settled, pending, event, onRelay, dropped, cut, request>>

(***************************************************************************)
(* The route.                                                              *)
(***************************************************************************)

(* The zap is read once; a request about no zap, or someone else's, ends.  *)
(* The preimage in the receipt, if there is one, is reported.              *)
RouteRead(p) ==
    /\ request[p].pc = "idle"
    /\ \E h \in Zapped :
         LET r == [Idle EXCEPT !.pc = "read", !.hash = h, !.publishes = TRUE, !.copy = event[h]]
         IN Moves(p, r) \/ Moves(p, Reported(r))
    /\ UNCHANGED <<settled, pending, event, onRelay, dropped, cut, worker, faults>>

(* The request goes on whether or not a relay takes the event.             *)
RouteSend(p) ==
    /\ request[p].pc = "send"
    /\ \/ /\ onRelay' = onRelay \cup {request[p].hash}
          /\ request' = [request EXCEPT ![p].pc = "save", ![p].sent = "sent"]
       \/ /\ request' = [request EXCEPT ![p].pc = "save"]
          /\ UNCHANGED onRelay
    /\ UNCHANGED <<settled, pending, event, dropped, cut, worker, faults>>

(* The whole row as it was read, with the receipt.                         *)
RouteSave(p) ==
    /\ request[p].pc = "save"
    /\ event' = [event EXCEPT ![request[p].hash] = request[p].sent]
    /\ request' = [request EXCEPT ![p] = Idle]
    /\ UNCHANGED <<settled, pending, onRelay, dropped, cut, worker, faults>>

(***************************************************************************)
(* The specification.                                                      *)
(***************************************************************************)
WorkerStep(s) ==
    \/ Wake(s) \/ TakePending(s) \/ EndBatch(s) \/ Fetch(s) \/ PublishOk(s)
    \/ PublishFails(s) \/ StoreEvent(s) \/ DeletePending(s) \/ RetryPending(s)

RequestStep(p) ==
    \/ ReadInvoice(p) \/ StorePreimage(p) \/ EnqueueReceipt(p)
    \/ RouteSend(p) \/ RouteSave(p)

Next ==
    \/ \E h \in Hashes : Due(h) \/ GoStale(h) \/ GrowOld(h)
    \/ \E s \in Servers : WorkerStep(s) \/ StoreFails(s) \/ StatementFails(s) \/ Crash(s)
    \/ \E p \in Handlers : \/ Report(p) \/ RouteRead(p) \/ RequestStep(p)
                           \/ ReportFails(p) \/ RequestStops(p)

Spec == Init /\ [][Next]_vars

(* Time passes, workers and requests are scheduled, and the relays take a  *)
(* receipt sooner or later if it is tried again and again.                 *)
Fairness ==
    /\ \A h \in Hashes : WF_vars(Due(h)) /\ WF_vars(GoStale(h))
    /\ \A s \in Servers : WF_vars(WorkerStep(s)) /\ SF_vars(PublishOk(s))
    /\ \A p \in Handlers : WF_vars(RequestStep(p))

FairSpec == Spec /\ Fairness

(***************************************************************************)
(* Properties.                                                             *)
(***************************************************************************)

(* Rows, workers and requests keep their types; a worker holds a current   *)
(* receipt exactly while it works on one.                                  *)
TypeOK ==
    /\ settled \subseteq Hashes /\ onRelay \subseteq Hashes
    /\ dropped \subseteq Hashes /\ cut \subseteq Hashes
    /\ pending \in [Hashes -> Row \cup {NULL}]
    /\ event \in [Hashes -> {NULL, "sent", "unsent"}]
    /\ worker \in [Servers -> Worker]
    /\ \A s \in Servers :
         (worker[s].cur # NULL) <=> worker[s].pc \in {"publish", "store", "delete", "retry"}
    /\ request \in [Handlers -> Request]
    /\ faults \in 0 .. MaxFaults

(* A settled zap whose report came to its end is in the queue until its    *)
(* receipt is stored or given up: no crash of a worker, no failed          *)
(* statement, no claim that two workers hold at once and no late report    *)
(* takes it out.  A request that leaves the report between the two writes  *)
(* is the exception (see ZapQueued of Settlement).                         *)
NothingLost ==
    \A h \in (settled \cap Zapped) \ cut :
        \/ pending[h] # NULL \/ event[h] # NULL \/ h \in dropped
        \/ \E p \in Handlers : request[p].pc = "queue" /\ request[p].hash = h

(* A receipt that was queued is eventually stored or given up, and leaves  *)
(* the queue, that of no zap as well, although servers stop with a claim   *)
(* in their hands, statements fail and two servers may work on one row.    *)
ReceiptStored ==
    \A h \in Hashes :
        pending[h] # NULL ~>
          /\ pending[h] = NULL
          /\ h \in Zapped => event[h] # NULL \/ h \in dropped

(* The receipt of a settled zap eventually reaches the relays.             *)
ReceiptPublished ==
    \A h \in Zapped : h \in settled ~> h \in onRelay \/ h \in dropped

(* The tables change as the adapter's contract says: whatever a worker or  *)
(* a request read before publishing, what it deletes afterwards is stored, *)
(* given up, or was never a zap.                                           *)
Store == INSTANCE SqliteReceipts

ImplementsStore == Store!Spec
==============================================================================
