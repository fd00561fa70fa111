---------------------------- MODULE WebhookQueue ----------------------------
(***************************************************************************)
(* Delivery of outbound webhooks from the table webhook_deliveries.        *)
(*                                                                         *)
(* Every server polls the table, claims at most one due delivery of each   *)
(* domain, and spawns a task for it if the server has a permit left for    *)
(* that domain.  A task looks the domain up in the server's copy of        *)
(* domain_webhooks, posts the payload, and records the outcome.            *)
(*                                                                         *)
(* Time is kept relative to now: a row carries how long it still has to    *)
(* wait (not positive when due) and how old its claim is.  One tick is the *)
(* minute between two polls.  The window after which a claim is stale,     *)
(* five minutes in the code, is Stale ticks; a post times out within one.  *)
(***************************************************************************)
EXTENDS Integers, FiniteSets

CONSTANTS
    Ids,        \* deliveries, named by their identifier, the payment hash
    Domains,
    DomainOf,   \* delivery -> its domain
    Servers,
    Permits,    \* MAX_CONCURRENT_PER_DOMAIN
    Stale,      \* age up to which a claim is respected
    RetryDelay, \* retry_count -> ticks until the next attempt
    MaxOverdue, \* bound on how long a due row is told apart from a later one
    MaxRetries, \* where retry_count saturates, i32::MAX in the code
    MaxFaults,  \* bound on crashes and failed statements
    MaxEdits,   \* bound on changes of domain_webhooks
    MaxCleanups,\* bound on rows removed by age
    Slow,       \* deliveries whose tasks may outlive their claim
    NULL, Never

ASSUME DomainAssumption == DomainOf \in [Ids -> Domains] /\ Slow \subseteq Ids
ASSUME CountAssumption ==
    /\ Permits \in Nat \ {0} /\ Stale \in Nat \ {0}
    /\ MaxOverdue \in Nat /\ MaxRetries \in Nat /\ MaxFaults \in Nat
    /\ MaxEdits \in Nat /\ MaxCleanups \in Nat
ASSUME DelayAssumption == RetryDelay \in [0 .. MaxRetries -> Nat]

(* However far ahead: the backoff has no cap.                              *)
Waits == {w \in Int : w >= -MaxOverdue}
Ages == 0 .. Stale + 1

(* A row of webhook_deliveries.  url: a URL was recorded, that is, the     *)
(* outcome of an attempt was.  wait: next_retry_at, Never for i64::MAX.    *)
(* claim: the age of claimed_at.  done: succeeded_at is set.               *)
Row == [url: BOOLEAN, wait: Waits \cup {Never}, claim: Ages \cup {NULL},
        done: BOOLEAN, retries: 0 .. MaxRetries]

(* A spawned task: the delivery as it was claimed (id is NULL once its row *)
(* was removed), since: ticks since it began to post.                      *)
Task == [id: Ids \cup {NULL}, url: BOOLEAN, retries: 0 .. MaxRetries,
         pc: {"config", "send", "ok", "failed", "park", "delete"},
         since: Ages, age: Ages]

ASSUME NullAssumption == NULL \notin Ids \cup Int \cup Row \cup Task /\ Never \notin Int

(* The permits of every server's semaphores.                               *)
Slots == Servers \X Domains \X (1 .. Permits)

VARIABLES
    rows,       \* table webhook_deliveries: delivery -> row
    configs,    \* table domain_webhooks: domains that have a row
    cache,      \* server -> its copy of configs
    task,       \* permit -> the task that holds it
    excess,     \* server -> claimed deliveries it has no permit for
    polled,     \* servers that polled since the last tick
    faults, edits, cleanups

vars == <<rows, configs, cache, task, excess, polled, faults, edits, cleanups>>
bounds == <<faults, edits, cleanups>>

Init ==
    /\ rows = [i \in Ids |-> NULL]
    /\ configs \in SUBSET Domains
    /\ cache = [s \in Servers |-> configs]
    /\ task = [k \in Slots |-> NULL]
    /\ excess = [s \in Servers |-> {}]
    /\ polled = {}
    /\ faults = 0 /\ edits = 0 /\ cleanups = 0

Lesser(a, b) == IF a < b THEN a ELSE b
Greater(a, b) == IF a > b THEN a ELSE b

(***************************************************************************)
(* The table.                                                              *)
(***************************************************************************)

(* insert_webhook_deliveries: where the identifier has no row.             *)
Insert(i) ==
    /\ rows[i] = NULL
    /\ rows' = [rows EXCEPT ![i] = [url |-> FALSE, wait |-> 0, claim |-> NULL,
                                    done |-> FALSE, retries |-> 0]]
    /\ UNCHANGED <<configs, cache, task, excess, polled, bounds>>

(* A removed row is not found again by a task that still holds its id.     *)
Remove(i) ==
    /\ rows' = [rows EXCEPT ![i] = NULL]
    /\ task' = [k \in Slots |-> IF task[k] # NULL /\ task[k].id = i
                                THEN [task[k] EXCEPT !.id = NULL] ELSE task[k]]

(* cleanup_old_webhook_deliveries: by created_at alone.                    *)
Cleanup(i) ==
    /\ rows[i] # NULL /\ cleanups < MaxCleanups
    /\ cleanups' = cleanups + 1
    /\ Remove(i)
    /\ excess' = [s \in Servers |-> excess[s] \ {i}]
    /\ UNCHANGED <<configs, cache, polled, faults, edits>>

(***************************************************************************)
(* Configuration.                                                          *)
(***************************************************************************)

(* An operator adds or removes the webhook of a domain.                    *)
EditConfig(d) ==
    /\ edits < MaxEdits
    /\ edits' = edits + 1
    /\ configs' = IF d \in configs THEN configs \ {d} ELSE configs \cup {d}
    /\ UNCHANGED <<rows, cache, task, excess, polled, faults, cleanups>>

(* refresh_once                                                            *)
Refresh(s) ==
    /\ cache' = [cache EXCEPT ![s] = configs]
    /\ UNCHANGED <<rows, configs, task, excess, polled, bounds>>

(***************************************************************************)
(* Polling.                                                                *)
(***************************************************************************)

(* Mutants of Takeable: every claim is taken for stale; a delivery that    *)
(* succeeded is taken again once its claim is stale.                       *)
TakeableClaimed(i) ==
    /\ rows[i] # NULL /\ ~rows[i].done
    /\ rows[i].wait # Never /\ rows[i].wait <= 0

TakeableDone(i) ==
    /\ rows[i] # NULL
    /\ rows[i].wait # Never /\ rows[i].wait <= 0
    /\ rows[i].claim = NULL \/ rows[i].claim > Stale

(* next_retry_at <= now AND succeeded_at IS NULL                           *)
(* AND COALESCE(claimed_at, 0) < now - 5 minutes                           *)
Takeable(i) ==
    /\ rows[i] # NULL /\ ~rows[i].done
    /\ rows[i].wait # Never /\ rows[i].wait <= 0
    /\ rows[i].claim = NULL \/ rows[i].claim > Stale

(* Mutant of Picks: in no order.                                           *)
PicksAny ==
    {S \in SUBSET {i \in Ids : Takeable(i)} :
        /\ \A i, j \in S : DomainOf[i] = DomainOf[j] => i = j
        /\ \A i \in Ids : Takeable(i) => \E j \in S : DomainOf[j] = DomainOf[i]}

(* One takeable row of each domain that has any, a longest waiting one.    *)
Picks ==
    {S \in SUBSET {i \in Ids : Takeable(i)} :
        /\ \A i, j \in S : DomainOf[i] = DomainOf[j] => i = j
        /\ \A i \in Ids : Takeable(i) =>
             \E j \in S : DomainOf[j] = DomainOf[i] /\ rows[j].wait <= rows[i].wait}

FreePermits(s, d) == {n \in 1 .. Permits : task[<<s, d, n>>] = NULL}

(* process_pending_webhook_deliveries: a claimed delivery without a permit *)
(* is put aside to be unclaimed.                                           *)
Take(s) ==
    /\ excess[s] = {}
    /\ \E picked \in Picks :
         LET gets(i, k) ==
               /\ k[1] = s /\ k[2] = DomainOf[i]
               /\ FreePermits(s, k[2]) # {}
               /\ k[3] = CHOOSE n \in FreePermits(s, k[2]) : TRUE
             new(i) == [id |-> i, url |-> rows[i].url, retries |-> rows[i].retries,
                        pc |-> "config", since |-> 0, age |-> 0]
         IN /\ rows' = [i \in Ids |-> IF i \in picked
                                      THEN [rows[i] EXCEPT !.claim = 0] ELSE rows[i]]
            /\ task' = [k \in Slots |->
                          IF \E i \in picked : gets(i, k)
                          THEN new(CHOOSE i \in picked : gets(i, k)) ELSE task[k]]
            /\ excess' = [excess EXCEPT ![s] =
                            {i \in picked : FreePermits(s, DomainOf[i]) = {}}]
    /\ polled' = polled \cup {s}
    /\ UNCHANGED <<configs, cache, bounds>>

(* unclaim_webhook_deliveries                                              *)
Unclaim(s) ==
    /\ excess[s] # {}
    /\ rows' = [i \in Ids |-> IF i \in excess[s]
                              THEN [rows[i] EXCEPT !.claim = NULL] ELSE rows[i]]
    /\ excess' = [excess EXCEPT ![s] = {}]
    /\ UNCHANGED <<configs, cache, task, polled, bounds>>

(***************************************************************************)
(* process_webhook_delivery                                                *)
(***************************************************************************)
At(k, pc) == task[k] # NULL /\ task[k].pc = pc
Goto(k, pc) == task' = [task EXCEPT ![k].pc = pc, ![k].since = 0]
End(k) == task' = [task EXCEPT ![k] = NULL]

ReadConfig(k) ==
    /\ At(k, "config")
    /\ Goto(k, IF k[2] \in cache[k[1]] THEN "send"
               ELSE IF task[k].url THEN "park" ELSE "delete")
    /\ UNCHANGED <<rows, configs, cache, excess, polled, bounds>>

(* The endpoint answers 2xx, or it fails or times out.                     *)
SendWebhook(k) ==
    /\ At(k, "send")
    /\ \/ Goto(k, "ok")
       \/ task' = [task EXCEPT ![k].pc = "failed"]
    /\ UNCHANGED <<rows, configs, cache, excess, polled, bounds>>

(* Every statement below is UPDATE ... WHERE id: it does nothing once the  *)
(* row is gone, and nothing else guards it.                                *)
Update(k, row) ==
    rows' = IF task[k].id = NULL THEN rows ELSE [rows EXCEPT ![task[k].id] = row]

(* update_webhook_delivery_success                                         *)
RecordSuccess(k) ==
    /\ At(k, "ok")
    /\ Update(k, [rows[task[k].id] EXCEPT !.done = TRUE, !.url = TRUE])
    /\ End(k)
    /\ UNCHANGED <<configs, cache, excess, polled, bounds>>

(* next_retry_delay                                                        *)
NextRetryDelay(retries) == RetryDelay[retries]

(* Mutants of RecordFailure: retry_count does not saturate; succeeded_at   *)
(* is cleared along with the claim.                                        *)
RecordFailureOverflows(k) ==
    /\ At(k, "failed")
    /\ LET retries == Lesser(task[k].retries + 1, MaxRetries)
       IN Update(k, [rows[task[k].id] EXCEPT
                       !.url = TRUE, !.claim = NULL, !.retries = task[k].retries + 1,
                       !.wait = Greater(NextRetryDelay(retries) - task[k].since, -MaxOverdue)])
    /\ End(k)
    /\ UNCHANGED <<configs, cache, excess, polled, bounds>>

RecordFailureResets(k) ==
    /\ At(k, "failed")
    /\ LET retries == Lesser(task[k].retries + 1, MaxRetries)
       IN Update(k, [url |-> TRUE, done |-> FALSE, claim |-> NULL, retries |-> retries,
                     wait |-> Greater(NextRetryDelay(retries) - task[k].since, -MaxOverdue)])
    /\ End(k)
    /\ UNCHANGED <<configs, cache, excess, polled, bounds>>

(* update_webhook_delivery_failure: counted from the moment of posting and *)
(* from the retry_count that was claimed.                                  *)
RecordFailure(k) ==
    /\ At(k, "failed")
    /\ LET retries == Lesser(task[k].retries + 1, MaxRetries)
       IN Update(k, [rows[task[k].id] EXCEPT
                       !.url = TRUE, !.claim = NULL, !.retries = retries,
                       !.wait = Greater(NextRetryDelay(retries) - task[k].since, -MaxOverdue)])
    /\ End(k)
    /\ UNCHANGED <<configs, cache, excess, polled, bounds>>

(* park_webhook_delivery                                                   *)
Park(k) ==
    /\ At(k, "park")
    /\ Update(k, [rows[task[k].id] EXCEPT !.wait = Never, !.claim = NULL])
    /\ End(k)
    /\ UNCHANGED <<configs, cache, excess, polled, bounds>>

(* delete_webhook_delivery                                                 *)
Delete(k) ==
    /\ At(k, "delete")
    /\ rows' = IF task[k].id = NULL THEN rows ELSE [rows EXCEPT ![task[k].id] = NULL]
    /\ task' = [j \in Slots |->
                  IF j = k THEN NULL
                  ELSE IF task[j] # NULL /\ task[j].id = task[k].id
                  THEN [task[j] EXCEPT !.id = NULL] ELSE task[j]]
    /\ excess' = [s \in Servers |-> excess[s] \ {task[k].id}]
    /\ UNCHANGED <<configs, cache, polled, bounds>>

(* A statement fails: the error is logged and the task ends.               *)
StatementFails(k) ==
    /\ task[k] # NULL /\ task[k].pc \in {"ok", "failed", "park", "delete"}
    /\ faults < MaxFaults
    /\ faults' = faults + 1
    /\ End(k)
    /\ UNCHANGED <<rows, configs, cache, excess, polled, edits, cleanups>>

UnclaimFails(s) ==
    /\ excess[s] # {} /\ faults < MaxFaults
    /\ faults' = faults + 1
    /\ excess' = [excess EXCEPT ![s] = {}]
    /\ UNCHANGED <<rows, configs, cache, task, polled, edits, cleanups>>

(* A server stops and starts again: its tasks are gone, its permits free   *)
(* and its copy of the configuration is loaded anew.                       *)
Crash(s) ==
    /\ faults < MaxFaults
    /\ faults' = faults + 1
    /\ task' = [k \in Slots |-> IF k[1] = s THEN NULL ELSE task[k]]
    /\ excess' = [excess EXCEPT ![s] = {}]
    /\ cache' = [cache EXCEPT ![s] = configs]
    /\ polled' = polled \ {s}
    /\ UNCHANGED <<rows, configs, edits, cleanups>>

(***************************************************************************)
(* Time.                                                                   *)
(***************************************************************************)

(* Every server polls once a minute, and what is not slow is done before   *)
(* its claim is stale: the post times out after half a minute.             *)
InTime ==
    /\ polled = Servers
    /\ \A s \in Servers : excess[s] \subseteq Slow
    /\ \A k \in Slots : task[k] # NULL /\ task[k].id \notin Slow => task[k].age < Stale

Tick ==
    /\ InTime
    /\ rows' = [i \in Ids |->
                  IF rows[i] = NULL THEN NULL
                  ELSE [rows[i] EXCEPT
                          !.wait = IF @ = Never THEN Never ELSE Greater(@ - 1, -MaxOverdue),
                          !.claim = IF @ = NULL THEN NULL ELSE Lesser(@ + 1, Stale + 1)]]
    /\ task' = [k \in Slots |->
                  IF task[k] = NULL THEN NULL
                  ELSE [task[k] EXCEPT
                          !.age = IF task[k].id \in Slow THEN 0 ELSE Lesser(@ + 1, Stale + 1),
                          !.since = IF task[k].pc \in {"send", "failed"}
                                    THEN Lesser(@ + 1, Stale + 1) ELSE 0]]
    /\ polled' = {}
    /\ UNCHANGED <<configs, cache, excess, bounds>>

(***************************************************************************)
(* The specification.                                                      *)
(***************************************************************************)
TaskStep(k) ==
    \/ ReadConfig(k) \/ SendWebhook(k) \/ RecordSuccess(k) \/ RecordFailure(k)
    \/ Park(k) \/ Delete(k)

Poll(s) == Take(s) \/ Unclaim(s)

Next ==
    \/ \E i \in Ids : Insert(i) \/ Cleanup(i)
    \/ \E d \in Domains : EditConfig(d)
    \/ \E s \in Servers : Refresh(s) \/ Poll(s) \/ UnclaimFails(s) \/ Crash(s)
    \/ \E k \in Slots : TaskStep(k) \/ StatementFails(k)
    \/ Tick

Spec == Init /\ [][Next]_vars

(* Timers fire, tasks are scheduled, every await ends, and time goes on    *)
(* however much happens within a minute.                                   *)
Fairness ==
    /\ \A s \in Servers : WF_vars(Take(s) /\ s \notin polled) /\ WF_vars(Unclaim(s))
    /\ \A s \in Servers : WF_vars(Refresh(s))
    /\ \A k \in Slots : WF_vars(TaskStep(k))
    /\ SF_vars(Tick)

FairSpec == Spec /\ Fairness

(***************************************************************************)
(* Properties.                                                             *)
(***************************************************************************)

(* Rows, tasks and bounds keep their types; a server puts aside only rows  *)
(* that exist.                                                             *)
TypeOK ==
    /\ rows \in [Ids -> Row \cup {NULL}]
    /\ configs \subseteq Domains
    /\ cache \in [Servers -> SUBSET Domains]
    /\ task \in [Slots -> Task \cup {NULL}]
    /\ excess \in [Servers -> SUBSET {i \in Ids : rows[i] # NULL}]
    /\ polled \subseteq Servers
    /\ faults \in 0 .. MaxFaults /\ edits \in 0 .. MaxEdits /\ cleanups \in 0 .. MaxCleanups

(* Two servers never work on the same delivery at once, whatever crashed   *)
(* or failed before, as long as its tasks end before their claims are      *)
(* stale: the receiver is not posted the same payment concurrently.        *)
OneTask ==
    \A i \in Ids \ Slow : \A j, k \in Slots :
        task[j] # NULL /\ task[k] # NULL /\ task[j].id = i /\ task[k].id = i => j = k

(* A delivery recorded as succeeded is not posted again.                   *)
NotSentAgain ==
    \A k \in Slots :
        At(k, "send") /\ task[k].id \in Ids \ Slow => ~rows[task[k].id].done

(* No delivery waits forever: neither behind the failing ones of its       *)
(* domain, nor for a permit, nor on the claim of a server that crashed.    *)
Attempted ==
    \A i \in Ids :
        rows[i] # NULL ~> \/ rows[i] = NULL
                         \/ rows[i].done
                         \/ rows[i].wait = Never
                         \/ \E k \in Slots : At(k, "send") /\ task[k].id = i

(* The table changes as the adapter's contract says: at most the first due *)
(* row of a domain is claimed at a time, and no late outcome of a task     *)
(* touches more than the adapter's statement does; so a success is final.  *)
Store == INSTANCE SqliteQueue

ImplementsStore == Store!Spec /\ Store!SuccessIsFinal
=============================================================================
