# A TLA+ model of blink-lnurl-server

The server answers LNURL-pay requests for Lightning addresses of Spark and Blink
accounts, records the invoices it hands out, learns in several ways that they were paid,
and then publishes Nostr zap receipts and posts webhooks. Any number of server processes
share one Postgres database; there is no other coordination between them. What can go
wrong is therefore mostly a matter of which SQL statements of which requests, workers
and processes follow each other, and of where one of them stops. That is what the
modules model: one action is one `await` (a statement sent to the database, or an answer
of a provider, a relay or a receiver), with all the code between two awaits.

## Inventory

| Component | State | Operations | Hard part | Module |
|---|---|---|---|---|
| Invoice settlement (`invoice_paid.rs`, `routes/webhook.rs`, `routes/lnurl_pay.rs`, `webhook_notify.rs`) | tables `invoices`, `zaps`, `sender_comments`, `pending_zap_receipts`, `webhook_deliveries` | mint; SSP callback; Blink callbacks paid and expired; client report; batch report; zap-receipt route; verify | seven writers of one row, read-modify-write over several awaits, requests that stop half-way, callbacks that repeat | `Settlement` |
| Webhook delivery queue (`webhooks/`) | `webhook_deliveries`, `domain_webhooks` and its cached copies, semaphores | poll and claim, unclaim, post, success, failure, park, delete, clean-up | claims with a stale window, tasks that outlive them, crashes, permits | `WebhookQueue` |
| Zap receipts (`zap.rs`, `routes/zap.rs`) | `pending_zap_receipts`, `zaps.zap_event` | worker batch, publish, store, retry; the client's route | batches claimed at once, crash between publishing and storing, stale copies | `ZapReceipts` |
| Account registry (`routes/account.rs`, `routes/signed.rs`, `routes/internal.rs`) | `accounts`, `spark_accounts`, `blink_accounts`, `account_identifiers`, `used_signed_messages` | register, unregister, transfer, Blink-to-Spark transfer, Blink account creation, pruner | READ COMMITTED transactions that overlap, replayed statements, pruning | `Registry` |
| Account mode (`routes/account.rs`, `country.rs`) | columns `mode*`, `country*` of `spark_accounts` | set mode, back-fill, country refresh | requests out of order, lookups that answer late | `AccountMode` |
| Rate limiter and lookup budget (`rate_limit.rs`) | in-process windows | check, spend | a table at its limit, one budget spent by requests and background tasks | `RateLimit`, in `AccountMode` |
| Discovery and callback (`routes/lnurl_pay.rs`, `identifier.rs`, `providers.rs`) | none but the kept USD minimum | discover, call back, estimate | nothing of the offer is stored; names, wallets, modes and rates change before it is taken up | `LnurlPay` |
| Start-up, domains, authentication (`main.rs`, `domains.rs`, `internal_auth.rs`, `auth.rs`) | `settings`, `allowed_domains`, in-process lists | start, refresh, register webhook, admit | servers that start at once, lists read once or every minute | `Gateway` |
| SQLite adapter (`sqlite/repository.rs`) | the same tables | every writing method | none of its own: one writer at a time; it is the contract of the other adapter | `Sqlite*` |
| Tools (`bin/e2e_auth.rs`), error types, clock | none | | | not modelled |

The components meet in the database: `Settlement` inserts into the two queues that
`WebhookQueue` and `ZapReceipts` drain; `Registry` and `AccountMode` write the same
`spark_accounts` rows, of different columns; `LnurlPay` reads what both have written.

## Modules

**`Settlement`**. A payment hash stands for its invoice and a preimage is named by the
hash it opens. `req[p]` is the request a handler serves: its source, the invoices it is
about, the preimage and amount it carries, and the copy of the row it has read. The
actions `MintRequest` ... `MintAnswer` are the writes of the LNURL callback; `SspWebhook`,
`BlinkWebhookPaid`, `BlinkWebhookExpired`, `InvoicePaid`, `InvoicesPaid`, `Verify` and
`PublishZapReceipt` the reporting routes; `ReadInvoice`, `StorePreimage`, `EnqueueZap`,
`GetPayloads`, `InsertDeliveries`, `Answer` are `handle_invoice_paid`, and `FilterKnown`,
`UpsertInvoicesPaid` its batch form. `UpsertInvoice` is the `ON CONFLICT` clause with its
`COALESCE`s. `Pay` and `Lapse` are the outside world. `Cancel` stops a request between
two awaits: axum drops the future of a client that disconnects, a process may die, a
statement may fail. `told` records what the server confirmed to others.

**`WebhookQueue`**. Rows carry relative times: how long until due, how old the claim. One
tick is the minute between two polls. `Take` is one poll, which claims the longest due
delivery of each domain (skipping rows locked by others); `task` holds the spawned tasks
by permit; `excess` the claimed deliveries without a permit until `Unclaim`. `cache` is
each server's copy of the configuration. `RetryDelay` gives the backoff in ticks for every
`retry_count`: it grows without a cap, and TLC takes it from the code's 30 s and factor
1.5. `MaxRetries` is where `retry_count` saturates, `i32::MAX` in the code and 2 at most in
the runs.

**`ZapReceipts`**. `request` holds the requests that report a payment, and those of
`publish_zap_receipt` with the zap they have read; the report they make is
`handle_invoice_paid` in its three awaits (`ReadInvoice`, `StorePreimage`,
`EnqueueReceipt`), which `Settlement` models with everything else it does. `worker` is the
loop of `process_pending_zap_receipts` with its claimed batch. A claim may become stale at
any time, also in the hands of its worker: nothing bounds a batch over slow relays. `cut`
records the hashes that a request settled and then did not queue (Finding 1).

**`Registry`**. A transaction keeps what it has written in its request until `Commit`;
others do not see it but wait for it where Postgres would (unique keys and row locks).
`Fail` is a failed statement, a stop, or the end of a deadlock. A Spark account is named
by its key, and identifiers of one domain are modelled.

**`AccountMode`**, with **`RateLimit`**. The mode request with its two timestamp checks,
the conditional `UPDATE`, and the classification of an update that changed nothing; the
back-fill and the background lookup as other writers. `RateLimit` has the state of one
process's limiter and budget and the two calls that spend them, which the mode route and
the background lookup make before they go on. `admitted` and `called` count, for each
n up to the window's length, what was let through in the last n instants; they are
history, no part of the program.

**`LnurlPay`**. A payer discovers an address and calls back with an amount, on whichever
server. `req[p]` is what the payer remembers (the offer) and what the handler holds
between two awaits. An identifier is a base and a sequence of modifiers;
`ParsePublicIdentifier` and `CallbackIdentifier` say which are understood and how they
are spelled in the callback URL. `ReadMinimum`, `EstimateMinimum` and `KeepMinimum` are
`usd_min_sendable_msat` with its cache. A zap request is genuine or not and may carry an
amount. Of the provider's invoice the server reads the text and the amount; whom it pays,
into which wallet and for how long is known only as what was `asked` for. `ChangeRow`,
`UpdateBlinkAccount`, `SetMode` and `Drift` are the world around a payer; the first three
stand for actions of `Registry`, the internal API and `AccountMode`.

**`Gateway`**. `server[s]` is the memory of a server process: the step of its start, its
lists, its secret. `Start` ... `SelectSetting` are `main` and `run_server` up to
listening; `RegisterWebhook` is the task that retries with backoff; `RefreshList` and
`RefreshWrite` the two awaits of `refresh_once`. `FetchCrl` takes whatever answer it gets
for the revocation list, as the code does: the list may lack revoked serials.
`InternalAuth` and `Auth` say who is admitted. `SanitizeDomain` keeps the code's rule that an empty list allows every domain.

**`SqlitePayments`, `SqliteQueue`, `SqliteReceipts`, `SqliteAccounts`, `SqliteModes`**.
The tables of one component with one action per writing method, as the SQLite adapter
executes them: one after the other. Their arguments are those the callers can pass. Each
is also the abstract specification of the component above it, which splits the methods
into statements, interleaves them with others and stops in between.

`MCSettlement`, `MCWebhookQueue`, `MCRegistry`, `MCAccountMode`, `MCLnurlPay` and
`MCGateway` define constants and symmetries for TLC; `ZapReceipts` needs none.
Definitions whose comment begins with *Mutant of* are deliberately wrong forms of the
definition that follows them. No specification uses them; each shows that a property
would notice that mistake.

## Refinement

Each `ImplementsStore` is the specification of the contract as a property of the detailed
module, under a refinement mapping:

| Detailed | Contract | What it says |
|---|---|---|
| `Settlement` | `SqlitePayments` | rows written back whole after several awaits, batches and expiries change the tables only as a method of the store could: what is written back after several awaits keeps the stored owner, provider, domain and preimage; the amount received is the last writer's (see *Observed while modelling*) |
| `WebhookQueue` | `SqliteQueue` | a late write of a task whose claim was taken over does not undo a success, and rows leave only by clean-up or deletion |
| `ZapReceipts` | `SqliteReceipts` | a row leaves the queue only when it is of no zap, published or given up |
| `Registry` | `SqliteAccounts` (`WeakSpec`) | a transaction of interleaved statements ends as the serial method could have ended in the state at its commit. `WeakSpec` differs from `Spec` in one place: the purge of other usernames may miss some (Finding 3) |
| `AccountMode` | `SqliteModes` | every write of the row is one of the adapter's guarded statements |

## Runs

| Run | Instance | Checks |
|---|---|---|
| `Settlement_race` | 1 invoice, 2 users, 2 requests of all eight kinds, 1 stop, 1 failed notification | stored preimages are genuine and kept, paid is never expired, what is queued or confirmed is settled, handed-out invoices are recorded, users change only their own; implements `SqlitePayments` |
| `Settlement_live` | 1 invoice, 2 stops, the SSP repeats | the webhook delivery is queued in the end, and the zap receipt unless a request stopped |
| `Settlement_zaplost` | 1 invoice, 1 stop, the SSP repeats | **violated**: the zap receipt is queued in the end |
| `WebhookQueue_safe` | 2 servers, 2 deliveries of one domain, one of them with tasks that outlive their claims | no two tasks for one delivery, no post after a recorded success; implements `SqliteQueue` |
| `WebhookQueue_live` | 1 server with 1 permit, 2 deliveries, delays of 1 and 2 minutes, 1 fault, 1 edit | every delivery is attempted or disposed of |
| `ZapReceipts` | 2 servers, 1 zap, 2 requests, 1 fault | no receipt is lost once its report came to its end, every queued one is stored or given up in the end; implements `SqliteReceipts` |
| `ZapReceipts_unsent` | 1 server, 1 zap, 1 route request | **violated**: every receipt reaches a relay |
| `Registry` | 2 keys, 1 Blink account, 2 names and a phone, 4 statements, 2 requests | names are lost by consent only, a statement acts once, and only if it acts is it spent; implements `SqliteAccounts` |
| `Registry_names` | 1 key, 2 registrations at once | **violated**: an account has one username |
| `AccountMode` | 1 key, 2 requests, 1 lookup, 2 addresses and a table for one, all modes and times | an acknowledged mode holds, no country for an anonymous account, only owners switch, budgets hold; implements `SqliteModes` |
| `LnurlPay` | 2 payers, 1 server, a Spark and a Blink account that exchange a name, 1 change, 1 outage, 1 change of rate | an offer can be taken up, the invoice is the one asked for, none for an anonymous account |
| `Gateway` | 2 servers, of which one migrates, 2 domains, a key and a certificate, 1 stop, 1 edit, 1 withdrawal | one secret for all, tokens of withdrawn keys and foreign certificates stay out, domains settle, the webhook is registered |

**Why the bounds are enough.** Every table operation is keyed by a hash, a delivery, a
name or an account, and a hazard is between two requests on the same key: two handlers
on one invoice show every overlap of two read-modify-writes. The second delivery is
needed for permits and starvation, the second server for claims and secrets, the second
address for the limiter's full table, the second payer for the kept minimum. Stops,
faults and edits are bounded by counters in the guards (`MaxCancels`, `MaxErrors`,
`MaxFaults`, `MaxEdits`, `MaxCleanups`, `MaxStops`, `MaxWithdrawals`, `MaxDrifts`,
`MaxOutages`); one of each suffices to break a property that one step leaves open, and
the proofs hold for any number. Clocks are bounded by `MaxTime` or kept
relative. In `LnurlPay`, `MaxU64` lies between the two rates' estimates, so that the
overflow of the checked arithmetic happens. Hashes that are known by a zap row alone
(`Legacy`), batches of more than one invoice or receipt and receipts of no zap occur in no
run (a live instance with two hashes takes TLC more than five minutes), nor does a payer
who goes to another server with the callback than with the discovery; the proofs cover
them all.

**Assumptions made visible as constants.** `Slow` names the webhook deliveries and the
signed statements whose handling may outlast their lease. For these the promises of the
leases do not hold and are not claimed: a task that runs longer than five minutes may
overlap with another one, and a request stalled past the acceptance window of its timestamp
may act although its claim was pruned. A post ends after 30 seconds, which is why an
ordinary task is well within its lease. `WebhookQueue_safe` includes a slow delivery to show
that its recorded success still is not undone; its parking may be, see *Observed while
modelling*. Zap receipts have no such constant: every claim may go stale.

**What some properties leave open.** `OfferStands` is claimed only while the recipient
and Blink's rate stay the same and nothing fails: the minimum is an estimate, and the
code means it to move. `InvoiceAsAsked` is about the invoice in its text and amount, which
the server checks, and about the request for it in payee, wallet and expiry, with which the
provider is trusted. `NothingLost` and `ReceiptStored` leave out receipts that were settled
and never queued: those are Finding 1. `WithdrawnStaysOut` says nothing about what is withdrawn while a server
runs, since keys and revocations are read once, nor about revoked certificates. `WithinBudget` allows twice the
limit in a stretch that two fixed windows meet in.

**Fairness.** Handlers and tasks that are not stopped go on: the runtime schedules them
and each await ends, since database and HTTP clients time out. The SSP repeats its
callback until it is answered (`SF` on `SspRedelivers`, as a request slot may be taken
at times) and answers an attempt to register at some time (`WF` on `RegisterWebhook`).
Polls and refreshes are driven by timers; time goes on (`SF` on `Tick`).
Relays take a receipt at some time if it is offered again and again (`SF` on
`PublishOk`). A claim gets older than five minutes if it is not given up (`WF` on
`GoStale`). Nothing is assumed of clients, of Blink's callbacks, or of arriving work.

No run switches off the deadlock check.

## Findings

1. `invoice_paid.rs:64-72`: a request that stops after the preimage is stored leaves the
   zap receipt unqueued for good, as only the request that stores it queues it. Webhooks
   are queued again by every report; receipts are not.
2. `routes/zap.rs:257-276`: a receipt that no relay took is stored like a published one,
   and the worker then drops it from its queue.
3. `postgresql/repository.rs:390-414`: two concurrent registrations by one account leave
   it with two usernames, because the purge precedes the lock of the account's row. With
   the methods run one at a time this cannot happen (`SerialStoreKeepsOneUsername`).

**Observed while modelling.** These behaviours are in the model but no property is about
them. Three differ from what a line of the repository suggests:

- `invoice_paid.rs:64-68`: a client's report carries no amount. If it is stored before the
  SSP's, the amount received stays unknown; if it read the row before the SSP's report was
  stored and writes after it, it replaces the stored amount by NULL, although
  `src/src/repository.rs:385` says "NULL when unknown". The contract `SqlitePayments`
  therefore leaves the amount to the last writer.
- `postgresql/repository.rs:1789`: the failure `UPDATE` looks at nothing but the id. A task
  that outlived its claim writes its failure over a parked delivery, which is then due
  again; `src/src/webhooks/repository.rs:89` says "Park a webhook delivery so it is never
  picked up again". For tasks within their lease the promise holds, which follows from `OneTask`.
- `main.rs:459-469`: whatever answer the address of the revocation list gives is taken for
  the list, an error page too, so that a server that starts meanwhile admits revoked
  certificates. `docs/CONFIGURATION.md:95` says "fetch or response-read failures fail
  startup", and the status of the answer is not looked at.

Of three others no line says anything else: a table `allowed_domains` that becomes empty
opens the server to every domain (`sanitize_domain`); the route stores an event that no
relay took over one that the worker published meanwhile (`routes/zap.rs:276`); and after
some 80 failures the backoff exceeds what an `i64` of milliseconds can hold and saturates,
as if parked, which no delivery reaches before it is removed by age.

## Proofs

All theorems hold for any sets of keys, names, invoices, servers and requests and any
bounds, from the assumptions named in the modules: NULL and the other special values are
distinct from those they stand beside, times and amounts are natural numbers, the
configuration is about known servers and domains. TLC evaluates these assumptions in the
runs. What the proofs cannot show is at the end of this section.

Hardly a property here is inductive as it stands, since a request holds copies of what it
read before an await. Every inductive invariant `IInv` therefore has the same three parts: the
types, what holds of the tables, and what a request, task or worker may rely on between
two awaits, as one predicate over its local state and the tables. A step of one actor
disturbs the others only through the tables; that it does not is shown once per module
(`Grows`, `RowsStay`, `RowStepInv`, `StillOK`, `WorldMoves`), and then there is one lemma
or step per action.

**`SettlementProofs`**

- `TypeCorrect`: `TypeOK` is invariant;
- `StoredPreimagesAreGenuine`: `StoredIsPaid`;
- `PaidInvoicesDoNotExpire`: `PaidNotExpired`;
- `QueuedAreSettled`: `QueuedIsSettled`;
- `ConfirmedAreSettled`: `ToldIsStored`;
- `HandedInvoicesAreRecorded`: `HandedIsRecorded`;
- `PreimagesAreKept`: the action property `PreimageKept`;
- `ReportsTouchOnlyTheirOwn`: the action property `OwnersOnly`;
- `RoutesImplementStore`: the refinement `ImplementsStore` of `SqlitePayments`.

A minting request owns a hash nobody outside has seen, so its late `INSERT` finds no
settled row; a request about to store holds the preimage of a paid invoice whose row
exists; one about to queue has a settled row. `MintApart` keeps minting requests apart.
Other requests' steps preserve this because tables only grow (`Grows`): a settled row stays
settled, a recorded one recorded. `PreimagesAreKept` follows from `Grows`.

The last two need a second invariant, `OInv`, on whose invoice it is: the row of a new
invoice is its recipient's, and so is its zap row (`OwnedTables`), nobody else writes them
while it is minted (`MintOwns`), a report past its check is about an invoice or a zap of its
sender (`ReportOwns`), and the row it will write back agrees with the stored one on user,
provider and domain (`StoreOwns`). `RowsStay` plays the part of `Grows`: no step changes
these columns of a row that is there. So the check of an owner does not go stale, and a row
written back whole replaces nothing but an expiry and the amount of an earlier report.

**`WebhookQueueProofs`**

- `TypesKept`: `TypeOK`;
- `NoDeliveryTwice`: `OneTask`;
- `NoDeliveryAgain`: `NotSentAgain`;
- `QueueImplementsStore`: the refinement `ImplementsStore` of `SqliteQueue`.

A task that is not `Slow` holds a claim of its own age, at most the lease, on a row that is
neither done nor parked (`Sound`); so a row can be claimed again only when no task is left.
The rows that a server put aside for want of a permit were claimed this minute, by one
server, and have no task (`Aside`): without this, giving their claims back could free a
delivery that is being posted.

**`ZapReceiptsProofs`**

- `TypesKept`: `TypeOK`;
- `NoReceiptLost`: `NothingLost`;
- `QueueImplementsStore`: the refinement `ImplementsStore` of `SqliteReceipts`.

Claims play no part in it: several workers may hold one receipt. A worker is about to delete
a row only if its receipt is stored, given up or of no zap (`WorkerOK`, `Over`), and that
stays so whatever others write meanwhile (`Grows`); a request about to queue has settled its
invoice (`RequestOK`). The invariant follows a settled zap from the request that is about to
queue it to its row, and from there to its stored event.

**`RegistryProofs`**

- `TypesKept`: `TypeOK`;
- `StatementsAreUsedOnce`: `SingleUse`;
- `OnlyActedIsSpent`: `ClaimedWasActed`;
- `NothingTaken`: the action property `LostByConsent`;
- `RegistryImplementsStore`: the refinement `ImplementsStore`, of `WeakSpec` of
  `SqliteAccounts`.

`Shape` says which statements each kind of transaction has behind it, `Backed` that the
tables still hold what it locked, `Apart` that no two transactions lock the same row: a
commit then ends as the serial method could in the state it finds. `Ledger` says that a
statement that acted is claimed or too old to be accepted, which is why
pruning a claim does not let it act again.

**`SqliteAccountsProofs`**: `SerialStoreKeepsOneUsername`, methods that run alone leave an
account one username. `OneUsername` is inductive there together with the types. It does
not carry over to `Registry`, which implements only `WeakSpec` (Finding 3).

**`AccountModeProofs`**

- `AckedStays`: `AckedHolds`;
- `NothingOfAnon`: `NoEvidenceOfAnon`;
- `OwnersSwitch`: the action property `OnlyOwnersSwitch`;
- `WritesAreStatements`: the refinement `ImplementsStore` of `SqliteModes`;
- `AnchorNeverGoesBack`: the action property `AnchorGrows` of `SqliteModes`;
- `BudgetsHold`: `WithinBudget`, both limits and the size of the limiter's table.

A request that asks for anon carries no country, one about to write has a row, and one
about to answer holds a statement in force (`ReqOK`, `Holds`). A lookup has a row, and a
country once it is about to write (`LookOK`). `RowStep` states what any step may do to a
row. The budgets play no part in the modes: a refused lookup leaves the country unknown.

`BudgetInv` is the invariant of the budgets. Two windows of an address begin at least a
window's length apart, so at most two meet in a stretch of that length. Since the newest
began, no more was let through than it counted and than the limit, and what is left of the
one before is within the limit too (`Spent`). Once a window is over, nothing has been let
through since its end: that is why an expired window can be dropped from a full table and
the address start anew (`Unspent`), and why dropping a live one would break the bound.

**`LnurlPayProofs`**

- `OffersHold`: `OfferStands`;
- `InvoicesAreAsAsked`: `InvoiceAsAsked`;
- `AnonGetsNoInvoice`: `NotForAnon`.

An offer was computed from a recipient the name had, at the estimate for Blink's rate if
that was steady (`OfferOK`); the identifier in its URL is parsed as it was meant
(`ParsedAgain`) on the domain it is of (`DomainAgain`). A callback's recipient is among
those the name had since it began, and once its mode was read it is one that was not
anonymous since then (`Called`, `Ready`). Every kept minimum is the estimate of a steady
rate (`Tables`): with a minimum kept from before a drift or an outage, the callback's least
amount could exceed the offer's.

**`GatewayProofs`**

- `OneSecret`: `SecretsAgree`;
- `WithdrawnIsRefused`: `WithdrawnStaysOut`.

A secret that a server uses or registered is the one stored, because the insertion of a
second one is ignored and the stored one read back; the keys of a server are those of the
moment it read them. Of the revocation list no more is claimed than that a certificate of
another authority is refused (see *Observed while modelling*).

**Only model-checked.** The liveness properties (`WebhookQueued`, `ZapQueuedUnlessStopped`,
`Attempted`, `ReceiptStored`, `DomainsSettle`, `WebhookRegistered`), since the
prover handles neither fairness nor `ENABLED`, and the three violated properties. Every invariant and
action property of a passing run has a theorem.

## Not modelled

Message formats, signature, JWT and certificate encodings, JSON and the characters of an
identifier (stateless; the models take what was parsed and say whether it is sound); the
routes that only read (listing of metadata, availability, recovery and the internal
lookup of a name); the paging of a wallet through its metadata, whose protocol is not in
this repository; the table of routes, CORS and logging; `create_invoice` of
`invoice_paid.rs` and `parse_blink_settlement_notification`, which no route calls; tools
and CI.

## Plan

A composition of `Settlement` with the queues, from payment to posted webhook.
