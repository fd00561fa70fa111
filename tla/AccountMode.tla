----------------------------- MODULE AccountMode -----------------------------
(***************************************************************************)
(* The mode of a Spark account, enhanced or anon, and the country recorded *)
(* as evidence while it is enhanced.                                       *)
(*                                                                         *)
(* A mode request carries the client's timestamp, and the row keeps the    *)
(* newest one accepted as an anchor.  Modes are also filled in by          *)
(* transfers, and countries by lookups that registering and recovering     *)
(* leave running in the background.  Both spend the budgets of RateLimit.  *)
(* One action is one await.  The country resolver is configured; without   *)
(* it no country is found and no budget spent.                             *)
(***************************************************************************)
EXTENDS RateLimit

CONSTANTS
    Pubkeys,
    Handlers,       \* mode requests served at once
    Lookups,        \* background country lookups running at once
    Signed,         \* mode requests that were signed
    Countries,
    Skew,           \* MODE_MAX_FUTURE_SKEW_SECS
    Window,         \* ACCEPTABLE_TIME_DIFF_SECS
    MaxTime         \* bound on the clock

Modes == {"enhanced", "anon"}
Times == 0 .. MaxTime
Statement == [key: Pubkeys, mode: Modes, ts: Times]

ASSUME SignedAssumption == Signed \subseteq Statement
ASSUME TimeAssumption == Skew \in Nat /\ Window \in Nat /\ MaxTime \in Nat

(* A row of spark_accounts; ts is mode_last_timestamp, source how the mode *)
(* came about.                                                             *)
Row == [mode: Modes \cup {NULL}, source: {NULL, "signup", "switch", "migration"},
        ts: Times \cup {NULL}, country: Countries \cup {NULL}]

ASSUME NullAssumption ==
    NULL \notin Pubkeys \cup Modes \cup Countries \cup Nat \cup Statement \cup Row

NewRow == [mode |-> NULL, source |-> NULL, ts |-> NULL, country |-> NULL]

VARIABLES
    row,        \* table spark_accounts: key -> row
    req,        \* handler -> the mode request it is serving
    lookup,     \* background task -> the lookup it runs
    acked,      \* mode requests answered OK
    admitted,   \* bucket -> n -> requests let through in the last n instants
    called      \* n -> lookups made in the last n instants

limits == <<counters, budget, admitted, called>>
vars == <<row, req, lookup, now, acked, limits>>

(* A mode request; known: the client's address is known.                   *)
Idle == [pc |-> "idle", stmt |-> NULL, known |-> FALSE, country |-> NULL]
(* A lookup in the background.                                             *)
NoLookup == [pc |-> "idle", key |-> NULL, ip |-> NULL, country |-> NULL]

Spans == 1 .. LimitWindow

Init ==
    /\ row = [k \in Pubkeys |-> NULL]
    /\ req = [p \in Handlers |-> Idle]
    /\ lookup = [t \in Lookups |-> NoLookup]
    /\ now = 0
    /\ acked = {}
    /\ LimitInit
    /\ admitted = [b \in Buckets |-> [n \in Spans |-> 0]]
    /\ called = [n \in Spans |-> 0]

At(p, pc) == req[p].pc = pc
Goto(p, pc) == req' = [req EXCEPT ![p].pc = pc]

(***************************************************************************)
(* set_mode                                                                *)
(***************************************************************************)

(* check_timestamp, and no timestamp from the future beyond the skew.      *)
Acceptable(s) == s.ts <= now + Window /\ now <= s.ts + Window /\ s.ts <= now + Skew

OneMore(counts) == [n \in Spans |-> counts[n] + 1]

Admit(b, ok) ==
    admitted' = IF ok /\ b # NULL THEN [admitted EXCEPT ![b] = OneMore(@)] ELSE admitted

Call(ok) == called' = IF ok THEN OneMore(called) ELSE called

(* The budget of the caller's address is spent before anything is checked. *)
SetMode(p, s, b) ==
    /\ At(p, "idle")
    /\ \E ok \in BOOLEAN :
         /\ Check(b, ok) /\ Admit(b, ok)
         /\ req' = IF ok /\ Acceptable(s)
                   THEN [req EXCEPT ![p] =
                           [pc |-> IF s.mode = "enhanced" THEN "country" ELSE "ensure",
                            stmt |-> s, known |-> b # NULL, country |-> NULL]]
                   ELSE req
    /\ UNCHANGED <<row, lookup, now, acked, budget, called>>

(* resolve_country: no address, over the shared budget, or a call to the   *)
(* vendor                                                                  *)
ResolveCountry(p) ==
    /\ At(p, "country")
    /\ IF ~req[p].known THEN Goto(p, "ensure") /\ UNCHANGED <<budget, called>>
       ELSE \E ok \in BOOLEAN :
               /\ Spend(ok) /\ Call(ok)
               /\ Goto(p, IF ok THEN "vendor" ELSE "ensure")
    /\ UNCHANGED <<row, lookup, now, acked, counters, admitted>>

(* CountryResolver::resolve: a country, or none on any failure             *)
VendorAnswers(p) ==
    /\ At(p, "vendor")
    /\ \E c \in Countries \cup {NULL} :
         req' = [req EXCEPT ![p].pc = "ensure", ![p].country = c]
    /\ UNCHANGED <<row, lookup, now, acked, limits>>

(* ensure_spark_account                                                    *)
EnsureAccount(p) ==
    /\ At(p, "ensure")
    /\ LET k == req[p].stmt.key
       IN row' = IF row[k] = NULL THEN [row EXCEPT ![k] = NewRow] ELSE row
    /\ Goto(p, "update")
    /\ UNCHANGED <<lookup, now, acked, limits>>

(* Mutant of UpdateMode: a timestamp equal to the anchor is let through.   *)
UpdateModeNotOlder(p) ==
    /\ At(p, "update")
    /\ LET s == req[p].stmt
           r == row[s.key]
       IN IF r.ts = NULL \/ r.ts <= s.ts
          THEN /\ row' = [row EXCEPT ![s.key].mode = s.mode, ![s.key].ts = s.ts,
                                     ![s.key].source = IF r.mode = NULL THEN "signup" ELSE "switch",
                                     ![s.key].country = req[p].country]
               /\ Goto(p, "answer")
          ELSE Goto(p, "classify") /\ UNCHANGED row
    /\ UNCHANGED <<lookup, now, acked, limits>>

(* upsert_spark_mode: the check and the write are one statement, and the   *)
(* anchor is the client's timestamp verbatim.  Anon clears the country;    *)
(* enhanced overwrites it if one was found.                                *)
UpdateMode(p) ==
    /\ At(p, "update")
    /\ LET s == req[p].stmt
           r == row[s.key]
       IN IF r.ts = NULL \/ r.ts < s.ts
          THEN /\ row' = [row EXCEPT ![s.key] =
                            [mode |-> s.mode,
                             source |-> IF r.mode = NULL THEN "signup" ELSE "switch",
                             ts |-> s.ts,
                             country |-> IF s.mode = "anon" \/ req[p].country # NULL
                                         THEN req[p].country ELSE r.country]]
               /\ Goto(p, "answer")
          ELSE Goto(p, "classify") /\ UNCHANGED row
    /\ UNCHANGED <<lookup, now, acked, limits>>

(* Mutant of ClassifyRefused: only the timestamp is compared.              *)
ClassifyRefusedByTime(p) ==
    /\ At(p, "classify")
    /\ LET s == req[p].stmt
       IN IF row[s.key].ts = s.ts THEN Goto(p, "answer")
          ELSE req' = [req EXCEPT ![p] = Idle]
    /\ UNCHANGED <<row, lookup, now, acked, limits>>

(* classify_refused_mode_write: the row is read again.  A repetition of    *)
(* what it says is answered OK, everything else is refused as stale.       *)
ClassifyRefused(p) ==
    /\ At(p, "classify")
    /\ LET s == req[p].stmt
       IN IF row[s.key].mode = s.mode /\ row[s.key].ts = s.ts THEN Goto(p, "answer")
          ELSE req' = [req EXCEPT ![p] = Idle]
    /\ UNCHANGED <<row, lookup, now, acked, limits>>

Answer(p) ==
    /\ At(p, "answer")
    /\ acked' = acked \cup {req[p].stmt}
    /\ req' = [req EXCEPT ![p] = Idle]
    /\ UNCHANGED <<row, lookup, now, limits>>

(* The request stops half-way.                                             *)
Cancel(p) ==
    /\ ~At(p, "idle")
    /\ req' = [req EXCEPT ![p] = Idle]
    /\ UNCHANGED <<row, lookup, now, acked, limits>>

(***************************************************************************)
(* Other writers of the row.                                               *)
(***************************************************************************)

(* Registering or receiving a first name creates the row without a mode.   *)
CreateAccount(k) ==
    /\ row[k] = NULL
    /\ row' = [row EXCEPT ![k] = NewRow]
    /\ UNCHANGED <<req, lookup, now, acked, limits>>

(* Mutant of SetEnhancedIfUnset: without AND mode IS NULL.                 *)
SetEnhancedAlways(k) ==
    /\ row[k] # NULL
    /\ row' = [row EXCEPT ![k].mode = "enhanced", ![k].source = "migration"]
    /\ UNCHANGED <<req, lookup, now, acked, limits>>

(* set_spark_mode_enhanced_if_unset, after a transfer to the key.          *)
SetEnhancedIfUnset(k) ==
    /\ row[k] # NULL /\ row[k].mode = NULL
    /\ row' = [row EXCEPT ![k] = [mode |-> "enhanced", source |-> "migration",
                                  ts |-> row[k].ts, country |-> row[k].country]]
    /\ UNCHANGED <<req, lookup, now, acked, limits>>

(* spawn_country_evidence_refresh, by register and recover with the mode   *)
(* they have read.                                                         *)
SpawnLookup(t, k, b) ==
    /\ lookup[t].pc = "idle"
    /\ row[k] # NULL /\ row[k].mode = "enhanced"
    /\ lookup' = [lookup EXCEPT ![t] = [pc |-> "check", key |-> k, ip |-> b, country |-> NULL]]
    /\ UNCHANGED <<row, req, now, acked, limits>>

(* Within both budgets the vendor is called.                               *)
CheckLookup(t) ==
    /\ lookup[t].pc = "check"
    /\ LET b == lookup[t].ip
       IN \E within \in BOOLEAN, ok \in BOOLEAN :
            /\ Check(b, within) /\ Admit(b, within)
            /\ IF within /\ b # NULL THEN Spend(ok) ELSE ok = FALSE /\ UNCHANGED budget
            /\ Call(ok)
            /\ lookup' = IF ok THEN [lookup EXCEPT ![t].pc = "vendor"]
                         ELSE [lookup EXCEPT ![t] = NoLookup]
    /\ UNCHANGED <<row, req, now, acked>>

(* No answer, or the country of the request's address.                     *)
Resolve(t) ==
    /\ lookup[t].pc = "vendor"
    /\ \/ lookup' = [lookup EXCEPT ![t] = NoLookup]
       \/ \E c \in Countries :
            lookup' = [lookup EXCEPT ![t].pc = "refresh", ![t].country = c]
    /\ UNCHANGED <<row, req, now, acked, limits>>

(* Mutant of RefreshCountry: without AND mode = 'enhanced'.                *)
RefreshCountryAlways(t) ==
    /\ lookup[t].pc = "refresh"
    /\ row' = [row EXCEPT ![lookup[t].key].country = lookup[t].country]
    /\ lookup' = [lookup EXCEPT ![t] = NoLookup]
    /\ UNCHANGED <<req, now, acked, limits>>

(* refresh_spark_country_evidence                                          *)
RefreshCountry(t) ==
    /\ lookup[t].pc = "refresh"
    /\ LET k == lookup[t].key
       IN row' = IF row[k].mode = "enhanced"
                 THEN [row EXCEPT ![k].country = lookup[t].country] ELSE row
    /\ lookup' = [lookup EXCEPT ![t] = NoLookup]
    /\ UNCHANGED <<req, now, acked, limits>>

Older(counts) == [n \in Spans |-> IF n = 1 THEN 0 ELSE counts[n - 1]]

Tick ==
    /\ now < MaxTime
    /\ now' = now + 1
    /\ admitted' = [b \in Buckets |-> Older(admitted[b])]
    /\ called' = Older(called)
    /\ UNCHANGED <<row, req, lookup, acked, counters, budget>>

Next ==
    \/ \E p \in Handlers :
         \/ \E s \in Signed, b \in Buckets \cup {NULL} : SetMode(p, s, b)
         \/ ResolveCountry(p) \/ VendorAnswers(p) \/ EnsureAccount(p) \/ UpdateMode(p)
         \/ ClassifyRefused(p) \/ Answer(p) \/ Cancel(p)
    \/ \E k \in Pubkeys : CreateAccount(k) \/ SetEnhancedIfUnset(k)
    \/ \E t \in Lookups :
         \/ \E k \in Pubkeys, b \in Buckets \cup {NULL} : SpawnLookup(t, k, b)
         \/ CheckLookup(t) \/ Resolve(t) \/ RefreshCountry(t)
    \/ Tick

Spec == Init /\ [][Next]_vars

(***************************************************************************)
(* Properties.                                                             *)
(***************************************************************************)

(* A mode that was answered OK stays in force until a request with a later *)
(* timestamp is accepted: requests overtaking each other, repetitions of   *)
(* an older one and transfers do not roll it back.                         *)
AckedHolds ==
    \A s \in acked :
        \/ row[s.key].ts > s.ts
        \/ row[s.key].ts = s.ts /\ row[s.key].mode = s.mode

(* No country is kept for an account that is not enhanced, although a      *)
(* lookup may end long after its owner has switched to anon.               *)
NoEvidenceOfAnon ==
    \A k \in Pubkeys :
        row[k] # NULL /\ row[k].country # NULL => row[k].mode = "enhanced"

(* A switch to anon stays until its owner asks for something newer: the    *)
(* server never makes an account enhanced on its own once it had a mode.   *)
OnlyOwnersSwitch ==
    [][\A k \in Pubkeys :
          row[k] # NULL /\ row[k].mode # NULL /\ row'[k].mode # row[k].mode =>
            \E p \in Handlers :
               /\ At(p, "update") /\ req'[p].pc = "answer"
               /\ req[p].stmt.key = k /\ req[p].stmt.mode = row'[k].mode
               /\ row[k].ts = NULL \/ req[p].stmt.ts > row[k].ts]_vars

(* The limiter's table never grows beyond its size.                        *)
TableBounded == Cardinality(Tracked(counters)) <= MaxTracked

(* In any stretch of a window's length an address has at most twice its    *)
(* requests let through, and the vendor is called at most twice as often   *)
(* as budgeted (two windows meet in it), although mode requests and the    *)
(* background tasks share the budgets and a full table evicts windows; the *)
(* table never grows beyond its size.                                      *)
WithinBudget ==
    /\ \A b \in Buckets : admitted[b][LimitWindow] <= 2 * MaxRequests
    /\ called[LimitWindow] <= 2 * MaxLookups
    /\ TableBounded

(* Every write of the row is a statement of the adapter's contract.        *)
Store == INSTANCE SqliteModes

ImplementsStore == Store!Spec
==============================================================================
