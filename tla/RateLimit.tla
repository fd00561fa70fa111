------------------------------ MODULE RateLimit ------------------------------
(***************************************************************************)
(* The budgets of one server process: fixed windows of requests per client *)
(* address behind a mutex, in a table of bounded size, and one window for  *)
(* all country lookups.  An address is modelled by its bucket (an IPv4     *)
(* address, or the /64 of an IPv6 one), NULL when the edge supplied none.  *)
(***************************************************************************)
EXTENDS Naturals, FiniteSets

CONSTANTS
    Buckets,
    MaxRequests,    \* of one bucket in a window
    MaxLookups,     \* of all in a window
    LimitWindow,    \* length of both windows
    MaxTracked,     \* max_tracked_ips
    AllowUntrusted, \* a local deployment, without an edge
    NULL

ASSUME LimitAssumption ==
    /\ {MaxRequests, MaxLookups, MaxTracked} \subseteq Nat
    /\ LimitWindow \in Nat \ {0} /\ AllowUntrusted \in BOOLEAN
    /\ NULL \notin Buckets \cup [start: Nat, count: Nat]

VARIABLES
    counters,   \* bucket -> its window, NULL if it is not tracked
    budget,     \* the window of all lookups
    now

(* Counts saturate; beyond the limit nothing tells them apart.             *)
Add(count, limit) == IF count > limit THEN count ELSE count + 1

NewWindow == [start |-> now, count |-> 0]

LimitInit ==
    /\ counters = [b \in Buckets |-> NULL]
    /\ budget = [start |-> 0, count |-> 0]

Live(window) == now - window.start < LimitWindow

(* The window that a request made now is counted in.                       *)
Current(window, limit) ==
    LET w == IF Live(window) THEN window ELSE NewWindow
    IN [w EXCEPT !.count = Add(@, limit)]

Tracked(table) == {b \in Buckets : table[b] # NULL}

Full(table) == Cardinality(Tracked(table)) >= MaxTracked

(* Mutant of Retained: the table is emptied.                               *)
RetainedNone(b) ==
    IF counters[b] # NULL \/ ~Full(counters) THEN counters ELSE [c \in Buckets |-> NULL]

(* A full table drops its expired windows for a bucket that is new to it.  *)
Retained(b) ==
    IF counters[b] # NULL \/ ~Full(counters) THEN counters
    ELSE [c \in Buckets |-> IF counters[c] # NULL /\ Live(counters[c])
                            THEN counters[c] ELSE NULL]

(* PerIpRateLimiter::check; the outcome is ok.                             *)
Check(b, ok) ==
    IF b = NULL THEN ok = AllowUntrusted /\ UNCHANGED counters
    ELSE LET table == Retained(b)
             w == IF table[b] = NULL THEN Current(NewWindow, MaxRequests)
                  ELSE Current(table[b], MaxRequests)
         IN IF table[b] = NULL /\ Full(table)
            THEN ok = FALSE /\ counters' = table
            ELSE ok = (w.count <= MaxRequests) /\ counters' = [table EXCEPT ![b] = w]

(* GlobalBudget::spend                                                     *)
Spend(ok) ==
    LET w == Current(budget, MaxLookups)
    IN ok = (w.count <= MaxLookups) /\ budget' = w
==============================================================================
