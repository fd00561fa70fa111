-------------------------- MODULE AccountModeProofs --------------------------
(***************************************************************************)
(* The safety of account modes for any number of keys, concurrent mode     *)
(* requests, background lookups, signed statements and times.  The budgets *)
(* play no part in it: a refused lookup only leaves the country unknown.   *)
(* They have an invariant of their own, at the end.                        *)
(***************************************************************************)
EXTENDS AccountMode, FiniteSetTheorems, TLAPS

Steps == {"idle", "country", "vendor", "ensure", "update", "classify", "answer"}
Request == [pc: Steps, stmt: Signed \cup {NULL}, known: BOOLEAN,
            country: Countries \cup {NULL}]
Lookup == [pc: {"idle", "check", "vendor", "refresh"}, key: Pubkeys \cup {NULL},
           ip: Buckets \cup {NULL}, country: Countries \cup {NULL}]

Types ==
    /\ row \in [Pubkeys -> Row \cup {NULL}]
    /\ req \in [Handlers -> Request]
    /\ lookup \in [Lookups -> Lookup]
    /\ acked \subseteq Signed

Exists(k) == row[k] # NULL

(* The statement was accepted, and nothing but a later one replaced it.    *)
Holds(s) ==
    /\ Exists(s.key) /\ row[s.key].ts # NULL
    /\ row[s.key].ts > s.ts \/ (row[s.key].ts = s.ts /\ row[s.key].mode = s.mode)

(* Only an account with a mode has an anchor.                              *)
AnchoredHasMode == \A k \in Pubkeys : Exists(k) /\ row[k].ts # NULL => row[k].mode # NULL

(* What a mode request may rely on between two awaits.                     *)
ReqOK(r) ==
    /\ r.pc # "idle" => r.stmt \in Signed
    /\ r.pc # "idle" /\ r.stmt.mode = "anon" =>
         r.country = NULL /\ r.pc \notin {"country", "vendor"}
    /\ r.pc \in {"update", "classify"} => Exists(r.stmt.key)
    /\ r.pc = "answer" => Holds(r.stmt)

RequestInv == \A p \in Handlers : ReqOK(req[p])

(* And a background lookup.                                                *)
LookOK(l) ==
    /\ l.pc # "idle" => l.key \in Pubkeys /\ Exists(l.key)
    /\ l.pc = "refresh" => l.country \in Countries

LookupInv == \A t \in Lookups : LookOK(lookup[t])

IInv ==
    /\ Types /\ AnchoredHasMode /\ RequestInv /\ LookupInv /\ NoEvidenceOfAnon
    /\ \A s \in acked : Holds(s)

LEMMA Constants ==
    /\ NULL \notin Times \cup Countries \cup Modes \cup Row \cup Pubkeys \cup Signed
    /\ Times \subseteq Nat /\ Signed \subseteq Statement
  BY NullAssumption, TimeAssumption, SignedAssumption DEF Times

(* What the steps do to a row: nothing, create it, fill in a mode, replace *)
(* the country of an enhanced account, or store a statement with a later   *)
(* timestamp.                                                              *)
RowStep ==
    \/ UNCHANGED row
    \/ \E k \in Pubkeys : ~Exists(k) /\ row' = [row EXCEPT ![k] = NewRow]
    \/ \E k \in Pubkeys :
         /\ Exists(k)
         /\ \E new \in Row :
              /\ row' = [row EXCEPT ![k] = new]
              /\ new.country # NULL => new.mode = "enhanced"
              /\ new.ts # NULL => new.mode # NULL
              /\ \/ new.ts = row[k].ts /\ (row[k].mode = NULL \/ new.mode = row[k].mode)
                 \/ new.ts # NULL /\ (row[k].ts = NULL \/ new.ts > row[k].ts)

RowKept ==
    /\ row' \in [Pubkeys -> Row \cup {NULL}]
    /\ AnchoredHasMode' /\ NoEvidenceOfAnon'
    /\ \A k \in Pubkeys : Exists(k) => Exists(k)'
    /\ \A s \in Signed : Holds(s) => Holds(s)'

LEMMA RowStepInv ==
    ASSUME Types, AnchoredHasMode, NoEvidenceOfAnon, RowStep
    PROVE  RowKept
<1> USE Constants DEF Types, AnchoredHasMode, NoEvidenceOfAnon, Exists, Holds, Row, RowKept
<1>1. CASE UNCHANGED row
  BY <1>1
<1>2. ASSUME NEW k \in Pubkeys, ~Exists(k), row' = [row EXCEPT ![k] = NewRow]
      PROVE  RowKept
  BY <1>2 DEF NewRow, Statement
<1>3. ASSUME NEW k \in Pubkeys, Exists(k), NEW new \in Row,
             row' = [row EXCEPT ![k] = new],
             new.country # NULL => new.mode = "enhanced",
             new.ts # NULL => new.mode # NULL,
             \/ new.ts = row[k].ts /\ (row[k].mode = NULL \/ new.mode = row[k].mode)
             \/ new.ts # NULL /\ (row[k].ts = NULL \/ new.ts > row[k].ts)
      PROVE  RowKept
  <2>1. /\ row' \in [Pubkeys -> Row \cup {NULL}]
        /\ AnchoredHasMode' /\ NoEvidenceOfAnon'
        /\ \A j \in Pubkeys : Exists(j) => Exists(j)'
    BY <1>3
  <2>2. ASSUME NEW s \in Signed, Holds(s)
        PROVE  Holds(s)'
    <3>1. s.key \in Pubkeys /\ s.ts \in Nat /\ s.mode \in Modes
      BY DEF Statement
    <3>2. CASE s.key # k
      BY <1>3, <2>2, <3>1, <3>2
    <3>3. CASE s.key = k
      <4>1. row'[s.key] = new /\ new # NULL /\ new.ts \in Nat \cup {NULL}
        BY <1>3, <3>3
      <4>2. row[k].ts \in Nat /\ row[k].mode # NULL
        BY <1>3, <2>2, <3>1, <3>3
      <4>3. \/ new.ts = row[k].ts /\ new.mode = row[k].mode
            \/ new.ts # NULL /\ new.ts > row[k].ts
        BY <1>3, <4>2, NullAssumption
      <4> QED
        BY <2>2, <3>1, <3>3, <4>1, <4>2, <4>3, NullAssumption
    <3> QED
      BY <3>2, <3>3
  <2> QED
    BY <2>1, <2>2
<1> QED
  BY <1>1, <1>2, <1>3 DEF RowStep

(* What holds of a request or a lookup goes on holding while others write. *)
LEMMA StillOK ==
    ASSUME RowKept
    PROVE  /\ \A r \in Request : ReqOK(r) => ReqOK(r)'
           /\ \A l \in Lookup : LookOK(l) => LookOK(l)'
  BY Constants DEF RowKept, ReqOK, LookOK, Statement

(* A step of one request.                                                  *)
LEMMA RequestMoves ==
    ASSUME IInv, RowStep, UNCHANGED lookup,
           NEW p \in Handlers, NEW r \in Request,
           req' = [req EXCEPT ![p] = r], ReqOK(r)',
           \/ UNCHANGED acked
           \/ \E s \in Signed : acked' = acked \cup {s} /\ Holds(s)'
    PROVE  IInv'
<1>1. RowKept
  BY RowStepInv DEF IInv
<1>2. req' \in [Handlers -> Request] /\ lookup' \in [Lookups -> Lookup]
  BY DEF IInv, Types
<1>3. RequestInv'
  <2> SUFFICES ASSUME NEW q \in Handlers, NEW x, x = req'[q]
               PROVE  ReqOK(x)'
    BY DEF RequestInv, ReqOK, Exists, Holds
  <2>1. CASE q = p
    BY <2>1 DEF IInv, Types
  <2>2. CASE q # p
    <3>1. x = req[q] /\ x \in Request /\ ReqOK(x)
      BY <2>2 DEF IInv, Types, RequestInv
    <3> QED
      BY <1>1, <3>1, StillOK
  <2> QED
    BY <2>1, <2>2
<1>4. LookupInv'
  <2> SUFFICES ASSUME NEW t \in Lookups, NEW l, l = lookup'[t]
               PROVE  LookOK(l)'
    BY DEF LookupInv, LookOK, Exists
  <2> QED
    BY <1>1, StillOK DEF IInv, Types, LookupInv
<1>5. acked' \subseteq Signed /\ \A s \in acked' : Holds(s)'
  BY <1>1 DEF IInv, Types, RowKept
<1> QED
  BY <1>1, <1>2, <1>3, <1>4, <1>5 DEF IInv, Types, RowKept

(* A step of one lookup.                                                   *)
LEMMA LookupMoves ==
    ASSUME IInv, RowStep, UNCHANGED <<req, acked>>,
           NEW t \in Lookups, NEW l \in Lookup,
           lookup' = [lookup EXCEPT ![t] = l], LookOK(l)'
    PROVE  IInv'
<1>1. RowKept
  BY RowStepInv DEF IInv
<1>2. req' \in [Handlers -> Request] /\ lookup' \in [Lookups -> Lookup]
  BY DEF IInv, Types
<1>3. RequestInv'
  <2> SUFFICES ASSUME NEW q \in Handlers, NEW x, x = req'[q]
               PROVE  ReqOK(x)'
    BY DEF RequestInv, ReqOK, Exists, Holds
  <2> QED
    BY <1>1, StillOK DEF IInv, Types, RequestInv
<1>4. LookupInv'
  <2> SUFFICES ASSUME NEW u \in Lookups, NEW x, x = lookup'[u]
               PROVE  LookOK(x)'
    BY DEF LookupInv, LookOK, Exists
  <2>1. CASE u = t
    BY <2>1 DEF IInv, Types
  <2>2. CASE u # t
    <3>1. x = lookup[u] /\ x \in Lookup /\ LookOK(x)
      BY <2>2 DEF IInv, Types, LookupInv
    <3> QED
      BY <1>1, <3>1, StillOK
  <2> QED
    BY <2>1, <2>2
<1>5. acked' \subseteq Signed /\ \A s \in acked' : Holds(s)'
  BY <1>1 DEF IInv, Types, RowKept
<1> QED
  BY <1>1, <1>2, <1>3, <1>4, <1>5 DEF IInv, Types, RowKept

(* A step of neither.                                                      *)
LEMMA NobodyMoves ==
    ASSUME IInv, RowStep, UNCHANGED <<req, lookup, acked>>
    PROVE  IInv'
<1>1. RowKept
  BY RowStepInv DEF IInv
<1>2. RequestInv'
  <2> SUFFICES ASSUME NEW q \in Handlers, NEW x, x = req'[q]
               PROVE  ReqOK(x)'
    BY DEF RequestInv, ReqOK, Exists, Holds
  <2> QED
    BY <1>1, StillOK DEF IInv, Types, RequestInv
<1>3. LookupInv'
  <2> SUFFICES ASSUME NEW t \in Lookups, NEW l, l = lookup'[t]
               PROVE  LookOK(l)'
    BY DEF LookupInv, LookOK, Exists
  <2> QED
    BY <1>1, StillOK DEF IInv, Types, LookupInv
<1> QED
  BY <1>1, <1>2, <1>3 DEF IInv, Types, RowKept

(* Every step of a mode request.  What it writes is a RowStep, and the     *)
(* request it leaves may rely on the row it leaves.                        *)
LEMMA RequestSteps ==
    ASSUME IInv, NEW p \in Handlers,
           \/ \E s \in Signed, b \in Buckets \cup {NULL} : SetMode(p, s, b)
           \/ ResolveCountry(p) \/ VendorAnswers(p) \/ EnsureAccount(p) \/ UpdateMode(p)
           \/ ClassifyRefused(p) \/ Answer(p) \/ Cancel(p)
    PROVE  IInv'
<1> SUFFICES ASSUME NEW R, R = req[p]
             PROVE  IInv'
  OBVIOUS
<1>1. /\ req \in [Handlers -> Request] /\ R \in Request /\ ReqOK(R)
      /\ row \in [Pubkeys -> Row \cup {NULL}]
  BY DEF IInv, Types, RequestInv
<1>2. Idle \in Request /\ ReqOK(Idle)'
  BY DEF Idle, Request, Steps, ReqOK
<1>3. UNCHANGED row => RowStep
  BY DEF RowStep
<1>4. ASSUME NEW s \in Signed, NEW b \in Buckets \cup {NULL}, SetMode(p, s, b)
      PROVE  IInv'
  <2> DEFINE r == [pc |-> IF s.mode = "enhanced" THEN "country" ELSE "ensure",
                   stmt |-> s, known |-> b # NULL, country |-> NULL]
  <2>1. r \in Request /\ ReqOK(r)'
    BY DEF Request, Steps, ReqOK
  <2>2. UNCHANGED <<row, lookup, acked>> /\ (UNCHANGED req \/ req' = [req EXCEPT ![p] = r])
    BY <1>4 DEF SetMode
  <2> HIDE DEF r
  <2> QED
    BY <1>3, <2>1, <2>2, RequestMoves, NobodyMoves
<1>5. CASE ResolveCountry(p)
  <2>1. PICK pc \in {"ensure", "vendor"} :
          req' = [req EXCEPT ![p].pc = pc] /\ UNCHANGED <<row, lookup, acked>> /\ R.pc = "country"
    BY <1>5 DEF ResolveCountry, Goto, At
  <2> DEFINE r == [R EXCEPT !.pc = pc]
  <2>2. req' = [req EXCEPT ![p] = r] /\ r \in Request
    BY <1>1, <2>1 DEF Request, Steps
  <2>3. ReqOK(r)'
    BY <1>1, <2>1 DEF ReqOK, Request
  <2> HIDE DEF r
  <2> QED
    BY <1>3, <2>1, <2>2, <2>3, RequestMoves
<1>6. CASE VendorAnswers(p)
  <2>1. PICK c \in Countries \cup {NULL} :
          req' = [req EXCEPT ![p].pc = "ensure", ![p].country = c]
          /\ UNCHANGED <<row, lookup, acked>> /\ R.pc = "vendor"
    BY <1>6 DEF VendorAnswers, At
  <2> DEFINE r == [R EXCEPT !.pc = "ensure", !.country = c]
  <2>2. req' = [req EXCEPT ![p] = r] /\ r \in Request
    BY <1>1, <2>1 DEF Request, Steps
  <2>3. ReqOK(r)'
    BY <1>1, <2>1 DEF ReqOK, Request
  <2> HIDE DEF r
  <2> QED
    BY <1>3, <2>1, <2>2, <2>3, RequestMoves
<1>7. CASE EnsureAccount(p)
  <2> DEFINE k == R.stmt.key
             r == [R EXCEPT !.pc = "update"]
  <2>1. /\ R.pc = "ensure" /\ UNCHANGED <<lookup, acked>>
        /\ row' = IF row[k] = NULL THEN [row EXCEPT ![k] = NewRow] ELSE row
        /\ req' = [req EXCEPT ![p].pc = "update"]
    BY <1>7 DEF EnsureAccount, Goto, At
  <2>2. k \in Pubkeys /\ R.stmt \in Signed
    BY <1>1, <2>1, Constants DEF ReqOK, Statement
  <2>3. RowStep
    BY <2>1, <2>2 DEF RowStep, Exists
  <2>4. row'[k] # NULL
    BY <1>1, <2>1, <2>2, Constants DEF NewRow, Row
  <2>5. req' = [req EXCEPT ![p] = r] /\ r \in Request
    BY <1>1, <2>1 DEF Request, Steps
  <2>6. ReqOK(r)'
    BY <1>1, <2>1, <2>2, <2>4 DEF ReqOK, Request, Exists
  <2> HIDE DEF r, k
  <2> QED
    BY <2>1, <2>3, <2>5, <2>6, RequestMoves
<1>8. CASE UpdateMode(p)
  <2> DEFINE s == R.stmt
             old == row[s.key]
             new == [mode |-> s.mode,
                     source |-> IF old.mode = NULL THEN "signup" ELSE "switch",
                     ts |-> s.ts,
                     country |-> IF s.mode = "anon" \/ R.country # NULL
                                 THEN R.country ELSE old.country]
  <2>1. R.pc = "update" /\ UNCHANGED <<lookup, acked>>
    BY <1>8 DEF UpdateMode, At
  <2>2. /\ s \in Signed /\ s.key \in Pubkeys /\ s.ts \in Times /\ s.mode \in Modes
        /\ Exists(s.key) /\ old \in Row /\ R.country \in Countries \cup {NULL}
        /\ s.mode = "anon" => R.country = NULL
    BY <1>1, <2>1, Constants DEF ReqOK, Statement, Exists, Request
  <2>3. CASE (old.ts = NULL \/ old.ts < s.ts)
    <3> DEFINE r == [R EXCEPT !.pc = "answer"]
    <3>1. row' = [row EXCEPT ![s.key] = new] /\ req' = [req EXCEPT ![p].pc = "answer"]
      BY <1>8, <2>3 DEF UpdateMode, Goto
    <3>2. new \in Row
      BY <2>2 DEF Row
    <3>3. /\ new.country # NULL => new.mode = "enhanced"
          /\ new.ts # NULL /\ new.mode # NULL
          /\ old.ts = NULL \/ new.ts > old.ts
      <4>1. new.country # NULL => new.mode = "enhanced"
        BY <2>2 DEF Modes
      <4>2. new.ts # NULL /\ new.mode # NULL
        BY <2>2, Constants
      <4>3. old.ts = NULL \/ new.ts > old.ts
        BY <2>2, <2>3, Constants DEF Row
      <4> QED
        BY <4>1, <4>2, <4>3
    <3>4. RowStep
      <4> HIDE DEF new
      <4> QED
        BY <2>2, <3>1, <3>2, <3>3 DEF RowStep
    <3>5. row'[s.key] = new /\ new # NULL /\ new.ts = s.ts /\ new.mode = s.mode
      BY <1>1, <2>2, <3>1, <3>2, Constants
    <3>6. Holds(s)'
      BY <3>3, <3>5 DEF Holds, Exists
    <3>7. req' = [req EXCEPT ![p] = r] /\ r \in Request
      BY <1>1, <3>1 DEF Request, Steps
    <3>8. ReqOK(r)'
      BY <1>1, <2>1, <2>2, <3>6 DEF ReqOK, Request
    <3> HIDE DEF r
    <3> QED
      BY <2>1, <3>4, <3>7, <3>8, RequestMoves
  <2>4. CASE ~(old.ts = NULL \/ old.ts < s.ts)
    <3> DEFINE r == [R EXCEPT !.pc = "classify"]
    <3>1. UNCHANGED row /\ req' = [req EXCEPT ![p].pc = "classify"]
      BY <1>8, <2>4 DEF UpdateMode, Goto
    <3>2. req' = [req EXCEPT ![p] = r] /\ r \in Request
      BY <1>1, <3>1 DEF Request, Steps
    <3>3. ReqOK(r)'
      BY <1>1, <2>1, <2>2, <3>1 DEF ReqOK, Request, Exists
    <3> HIDE DEF r
    <3> QED
      BY <1>3, <2>1, <3>1, <3>2, <3>3, RequestMoves
  <2> QED
    BY <2>3, <2>4
<1>9. CASE ClassifyRefused(p)
  <2> DEFINE s == R.stmt
             r == [R EXCEPT !.pc = "answer"]
  <2>1. /\ R.pc = "classify" /\ UNCHANGED <<row, lookup, acked>>
        /\ \/ req' = [req EXCEPT ![p] = Idle]
           \/ /\ row[s.key].mode = s.mode /\ row[s.key].ts = s.ts
              /\ req' = [req EXCEPT ![p].pc = "answer"]
    BY <1>9 DEF ClassifyRefused, Goto, At
  <2>2. s \in Signed /\ s.ts \in Times /\ Exists(s.key) /\ s.key \in Pubkeys
    BY <1>1, <2>1, Constants DEF ReqOK, Statement
  <2>3. ASSUME row[s.key].mode = s.mode, row[s.key].ts = s.ts,
               req' = [req EXCEPT ![p].pc = "answer"]
        PROVE  IInv'
    <3>1. Holds(s)'
      BY <2>1, <2>2, <2>3, Constants DEF Holds, Exists
    <3>2. req' = [req EXCEPT ![p] = r] /\ r \in Request
      BY <1>1, <2>3 DEF Request, Steps
    <3>3. ReqOK(r)'
      BY <1>1, <2>1, <2>2, <3>1 DEF ReqOK, Request
    <3> HIDE DEF r
    <3> QED
      BY <1>3, <2>1, <3>2, <3>3, RequestMoves
  <2> QED
    BY <1>2, <1>3, <2>1, <2>3, RequestMoves
<1>10. CASE Answer(p)
  <2>1. /\ R.pc = "answer" /\ UNCHANGED <<row, lookup>>
        /\ acked' = acked \cup {R.stmt} /\ req' = [req EXCEPT ![p] = Idle]
    BY <1>10 DEF Answer, At
  <2>2. R.stmt \in Signed /\ Holds(R.stmt)
    BY <1>1, <2>1 DEF ReqOK
  <2>3. \E s \in Signed : acked' = acked \cup {s} /\ Holds(s)'
    <3> DEFINE s == R.stmt
    <3>1. s \in Signed /\ Holds(s) /\ acked' = acked \cup {s}
      BY <2>1, <2>2
    <3> HIDE DEF s
    <3>2. \A x : Holds(x) => Holds(x)'
      BY <2>1 DEF Holds, Exists
    <3> QED
      BY <3>1, <3>2
  <2> QED
    BY <1>2, <1>3, <2>1, <2>3, RequestMoves
<1>11. CASE Cancel(p)
  BY <1>2, <1>3, <1>11, RequestMoves DEF Cancel
<1> QED
  BY <1>4, <1>5, <1>6, <1>7, <1>8, <1>9, <1>10, <1>11

(* Every step of a background lookup.                                      *)
LEMMA LookupSteps ==
    ASSUME IInv, NEW t \in Lookups,
           \/ \E k \in Pubkeys, b \in Buckets \cup {NULL} : SpawnLookup(t, k, b)
           \/ CheckLookup(t) \/ Resolve(t) \/ RefreshCountry(t)
    PROVE  IInv'
<1> SUFFICES ASSUME NEW L, L = lookup[t]
             PROVE  IInv'
  OBVIOUS
<1>1. /\ lookup \in [Lookups -> Lookup] /\ L \in Lookup /\ LookOK(L)
      /\ row \in [Pubkeys -> Row \cup {NULL}]
  BY DEF IInv, Types, LookupInv
<1>2. NoLookup \in Lookup /\ LookOK(NoLookup)'
  BY DEF NoLookup, Lookup, LookOK
<1>3. UNCHANGED row => RowStep
  BY DEF RowStep
<1>4. ASSUME NEW k \in Pubkeys, NEW b \in Buckets \cup {NULL}, SpawnLookup(t, k, b)
      PROVE  IInv'
  <2> DEFINE l == [pc |-> "check", key |-> k, ip |-> b, country |-> NULL]
  <2>1. /\ lookup' = [lookup EXCEPT ![t] = l] /\ UNCHANGED <<row, req, acked>>
        /\ row[k] # NULL
    BY <1>4 DEF SpawnLookup
  <2>2. l \in Lookup /\ LookOK(l)'
    BY <2>1 DEF Lookup, LookOK, Exists
  <2> HIDE DEF l
  <2> QED
    BY <1>3, <2>1, <2>2, LookupMoves
<1>5. CASE CheckLookup(t)
  <2> DEFINE l == [L EXCEPT !.pc = "vendor"]
  <2>1. /\ L.pc = "check" /\ UNCHANGED <<row, req, acked>>
        /\ \/ lookup' = [lookup EXCEPT ![t].pc = "vendor"]
           \/ lookup' = [lookup EXCEPT ![t] = NoLookup]
    BY <1>5 DEF CheckLookup
  <2>2. lookup' = [lookup EXCEPT ![t] = l] \/ lookup' = [lookup EXCEPT ![t] = NoLookup]
    BY <1>1, <2>1
  <2>3. l \in Lookup /\ LookOK(l)'
    BY <1>1, <2>1 DEF Lookup, LookOK, Exists
  <2> HIDE DEF l
  <2> QED
    BY <1>2, <1>3, <2>1, <2>2, <2>3, LookupMoves
<1>6. CASE Resolve(t)
  <2>1. L.pc = "vendor" /\ UNCHANGED <<row, req, acked>>
    BY <1>6 DEF Resolve
  <2>2. CASE lookup' = [lookup EXCEPT ![t] = NoLookup]
    BY <1>2, <1>3, <2>1, <2>2, LookupMoves
  <2>3. ASSUME NEW c \in Countries,
               lookup' = [lookup EXCEPT ![t].pc = "refresh", ![t].country = c]
        PROVE  IInv'
    <3> DEFINE l == [L EXCEPT !.pc = "refresh", !.country = c]
    <3>1. lookup' = [lookup EXCEPT ![t] = l] /\ l \in Lookup
      BY <1>1, <2>3 DEF Lookup
    <3>2. LookOK(l)'
      BY <1>1, <2>1 DEF Lookup, LookOK, Exists
    <3> HIDE DEF l
    <3> QED
      BY <1>3, <2>1, <3>1, <3>2, LookupMoves
  <2> QED
    BY <1>6, <2>2, <2>3 DEF Resolve
<1>7. CASE RefreshCountry(t)
  <2> DEFINE k == L.key
             new == [row[k] EXCEPT !.country = L.country]
  <2>1. /\ L.pc = "refresh" /\ UNCHANGED <<req, acked>>
        /\ lookup' = [lookup EXCEPT ![t] = NoLookup]
        /\ row' = IF row[k].mode = "enhanced"
                  THEN [row EXCEPT ![k].country = L.country] ELSE row
    BY <1>7 DEF RefreshCountry
  <2>2. k \in Pubkeys /\ Exists(k) /\ row[k] \in Row
    BY <1>1, <2>1 DEF LookOK, Exists
  <2>3. RowStep
    <3>1. CASE row[k].mode = "enhanced"
      <4>1. new \in Row /\ new.mode = "enhanced" /\ new.ts = row[k].ts
        BY <1>1, <2>2, <3>1 DEF Row, Lookup
      <4>2. row' = [row EXCEPT ![k] = new]
        BY <1>1, <2>1, <2>2, <3>1
      <4>3. new.mode # NULL
        BY <4>1, Constants DEF Modes
      <4> HIDE DEF new
      <4> QED
        BY <2>2, <3>1, <4>1, <4>2, <4>3 DEF RowStep
    <3> QED
      BY <1>3, <2>1, <3>1
  <2> QED
    BY <1>2, <2>1, <2>3, LookupMoves
<1> QED
  BY <1>4, <1>5, <1>6, <1>7

(* Registrations and transfers.                                            *)
LEMMA OtherSteps ==
    ASSUME IInv, NEW k \in Pubkeys, CreateAccount(k) \/ SetEnhancedIfUnset(k)
    PROVE  IInv'
<1>1. CASE CreateAccount(k)
  BY <1>1, NobodyMoves DEF CreateAccount, RowStep, Exists
<1>2. CASE SetEnhancedIfUnset(k)
  <2> DEFINE new == [mode |-> "enhanced", source |-> "migration",
                     ts |-> row[k].ts, country |-> row[k].country]
  <2>1. /\ row[k] # NULL /\ row[k].mode = NULL /\ UNCHANGED <<req, lookup, acked>>
        /\ row' = [row EXCEPT ![k] = new]
    BY <1>2 DEF SetEnhancedIfUnset
  <2>2. new \in Row
    BY <2>1 DEF IInv, Types, Row, Modes
  <2>3. new.mode = "enhanced" /\ new.mode # NULL /\ new.ts = row[k].ts
    BY Constants DEF Modes
  <2> HIDE DEF new
  <2>4. RowStep
    BY <2>1, <2>2, <2>3 DEF RowStep, Exists
  <2> QED
    BY <2>1, <2>4, NobodyMoves
<1> QED
  BY <1>1, <1>2

LEMMA Initially == Init => IInv
<1> SUFFICES ASSUME Init
             PROVE  IInv
  OBVIOUS
<1>1. Types
  BY DEF Init, Types, Idle, Request, Steps, NoLookup, Lookup
<1>2. AnchoredHasMode /\ NoEvidenceOfAnon
  BY DEF Init, AnchoredHasMode, NoEvidenceOfAnon, Exists
<1>3. RequestInv /\ LookupInv
  BY DEF Init, RequestInv, LookupInv, ReqOK, LookOK, Idle, NoLookup
<1> QED
  BY <1>1, <1>2, <1>3 DEF IInv, Init

LEMMA Inductive == IInv /\ [Next]_vars => IInv'
<1> SUFFICES ASSUME IInv, [Next]_vars
             PROVE  IInv'
  OBVIOUS
<1>1. CASE Tick \/ UNCHANGED vars
  BY <1>1, NobodyMoves DEF Tick, vars, RowStep
<1> QED
  BY <1>1, RequestSteps, LookupSteps, OtherSteps DEF Next

(* A mode request that was answered OK stays in force until a later one is *)
(* accepted, whatever requests, transfers and lookups run beside it.       *)
THEOREM AckedStays == Spec => []AckedHolds
<1>1. IInv => AckedHolds
  BY DEF IInv, AckedHolds, Holds
<1> QED
  BY <1>1, Initially, Inductive, PTL DEF Spec

(* No country is kept for an account that is not enhanced, however late    *)
(* the lookups end.                                                        *)
THEOREM NothingOfAnon == Spec => []NoEvidenceOfAnon
<1>1. IInv => NoEvidenceOfAnon
  BY DEF IInv
<1> QED
  BY <1>1, Initially, Inductive, PTL DEF Spec

(* The mode of an account that has one changes only by a request of its    *)
(* owner that is newer than the last one accepted.                         *)
THEOREM OwnersSwitch == Spec => OnlyOwnersSwitch
<1> DEFINE ByOwner(k) ==
             row[k] # NULL /\ row[k].mode # NULL /\ row'[k].mode # row[k].mode =>
               \E p \in Handlers :
                  /\ At(p, "update") /\ req'[p].pc = "answer"
                  /\ req[p].stmt.key = k /\ req[p].stmt.mode = row'[k].mode
                  /\ row[k].ts = NULL \/ req[p].stmt.ts > row[k].ts
<1>1. ASSUME IInv, Next, NEW k \in Pubkeys
      PROVE  ByOwner(k)
  <2> USE <1>1
  <2>1. row \in [Pubkeys -> Row \cup {NULL}] /\ req \in [Handlers -> Request]
    BY DEF IInv, Types
  <2>2. CASE UNCHANGED row
    BY <2>2
  <2>3. ASSUME NEW p \in Handlers, EnsureAccount(p)
        PROVE  ByOwner(k)
    <3>1. row' = IF row[req[p].stmt.key] = NULL
                 THEN [row EXCEPT ![req[p].stmt.key] = NewRow] ELSE row
      BY <2>3 DEF EnsureAccount
    <3> QED
      BY <2>1, <3>1
  <2>4. ASSUME NEW p \in Handlers, UpdateMode(p)
        PROVE  ByOwner(k)
    <3> DEFINE s == req[p].stmt
    <3>1. At(p, "update") /\ s \in Signed
      BY <2>4 DEF UpdateMode, At, IInv, RequestInv, ReqOK
    <3>2. s.key \in Pubkeys /\ s.ts \in Nat
      BY <3>1, Constants DEF Statement
    <3>3. CASE ~(row[s.key].ts = NULL \/ row[s.key].ts < s.ts)
      BY <2>2, <2>4, <3>3 DEF UpdateMode
    <3>4. CASE (row[s.key].ts = NULL \/ row[s.key].ts < s.ts)
      <4>1. /\ req'[p].pc = "answer"
            /\ s.key # k => row'[k] = row[k]
            /\ s.key = k => row'[k].mode = s.mode
        BY <2>1, <2>4, <3>2, <3>4 DEF UpdateMode, Goto, Request
      <4>2. CASE s.key # k
        BY <4>1, <4>2
      <4>3. ASSUME s.key = k, row[k] # NULL
            PROVE  row[k].ts = NULL \/ s.ts > row[k].ts
        BY <2>1, <3>2, <3>4, <4>3, Constants DEF Row
      <4> QED
        BY <3>1, <4>1, <4>2, <4>3
    <3> QED
      BY <3>3, <3>4
  <2>5. ASSUME NEW j \in Pubkeys, CreateAccount(j) \/ SetEnhancedIfUnset(j)
        PROVE  ByOwner(k)
    BY <2>1, <2>5 DEF CreateAccount, SetEnhancedIfUnset
  <2>6. ASSUME NEW t \in Lookups, RefreshCountry(t)
        PROVE  ByOwner(k)
    <3> DEFINE j == lookup[t].key
    <3>1. j \in Pubkeys /\ Exists(j)
      BY <2>6 DEF RefreshCountry, IInv, LookupInv, LookOK
    <3>2. row' = IF row[j].mode = "enhanced"
                 THEN [row EXCEPT ![j].country = lookup[t].country] ELSE row
      BY <2>6 DEF RefreshCountry
    <3>3. row'[k] = row[k] \/ (j = k /\ row'[k] = [row[k] EXCEPT !.country = lookup[t].country])
      BY <2>1, <3>1, <3>2
    <3>4. row[k] # NULL => row'[k].mode = row[k].mode
      BY <2>1, <3>3 DEF Row
    <3> QED
      BY <3>4
  <2>7. \/ UNCHANGED row
        \/ \E p \in Handlers : EnsureAccount(p) \/ UpdateMode(p)
        \/ \E j \in Pubkeys : CreateAccount(j) \/ SetEnhancedIfUnset(j)
        \/ \E t \in Lookups : RefreshCountry(t)
    BY DEF Next, SetMode, ResolveCountry, VendorAnswers, ClassifyRefused, Answer, Cancel,
           SpawnLookup, CheckLookup, Resolve, Tick
  <2> QED
    BY <2>2, <2>3, <2>4, <2>5, <2>6, <2>7
<1>2. IInv /\ [Next]_vars => [\A k \in Pubkeys : ByOwner(k)]_vars
  BY <1>1
<1> QED
  BY <1>2, Initially, Inductive, PTL DEF Spec, OnlyOwnersSwitch

(* Every write of the row by a request, a transfer or a lookup is one      *)
(* statement of the adapter's contract.                                    *)
LEMMA StepsAreStatements ==
    ASSUME IInv, [Next]_vars
    PROVE  [Store!Next]_row
<1>1. row \in [Pubkeys -> Row \cup {NULL}]
  BY DEF IInv, Types
<1>2. ASSUME NEW p \in Handlers, EnsureAccount(p)
      PROVE  [Store!Next]_row
  <2> DEFINE k == req[p].stmt.key
  <2>1. k \in Pubkeys
    BY <1>2, Constants DEF EnsureAccount, At, IInv, RequestInv, ReqOK, Statement
  <2>2. row' = IF row[k] = NULL THEN [row EXCEPT ![k] = NewRow] ELSE row
    BY <1>2 DEF EnsureAccount
  <2>3. Store!EnsureSparkAccount(k) \/ UNCHANGED row
    BY <2>2 DEF Store!EnsureSparkAccount, Store!Exists, Store!NewRow, NewRow
  <2> HIDE DEF k
  <2> QED
    BY <2>1, <2>3 DEF Store!Next
<1>3. ASSUME NEW p \in Handlers, UpdateMode(p)
      PROVE  [Store!Next]_row
  <2> DEFINE s == req[p].stmt
             c == req[p].country
  <2>1. /\ At(p, "update") /\ s \in Signed /\ Exists(s.key)
        /\ c \in Countries \cup {NULL}
        /\ s.mode = "anon" => c = NULL
    BY <1>3 DEF UpdateMode, At, IInv, Types, Request, RequestInv, ReqOK
  <2>2. s.key \in Pubkeys /\ s.ts \in Times /\ s.mode \in {"enhanced", "anon"}
    BY <2>1, Constants DEF Statement, Modes
  <2>3. Store!UpsertSparkMode(s.key, s.mode, s.ts, c) \/ UNCHANGED row
    BY <1>3, <2>1 DEF UpdateMode, Store!UpsertSparkMode, Store!Exists, Exists
  <2> HIDE DEF s, c
  <2> QED
    BY <2>1, <2>2, <2>3 DEF Store!Next
<1>4. ASSUME NEW k \in Pubkeys, CreateAccount(k) \/ SetEnhancedIfUnset(k)
      PROVE  [Store!Next]_row
  <2>1. Store!EnsureSparkAccount(k) \/ Store!SetSparkModeEnhancedIfUnset(k)
    BY <1>4 DEF CreateAccount, SetEnhancedIfUnset, NewRow, Store!EnsureSparkAccount,
                Store!SetSparkModeEnhancedIfUnset, Store!Exists, Store!NewRow
  <2> QED
    BY <2>1 DEF Store!Next
<1>5. ASSUME NEW t \in Lookups, RefreshCountry(t)
      PROVE  [Store!Next]_row
  <2> DEFINE k == lookup[t].key
             c == lookup[t].country
  <2>1. k \in Pubkeys /\ Exists(k) /\ c \in Countries
    BY <1>5 DEF RefreshCountry, IInv, LookupInv, LookOK
  <2>2. Store!RefreshSparkCountryEvidence(k, c) \/ UNCHANGED row
    BY <1>5, <2>1 DEF RefreshCountry, Store!RefreshSparkCountryEvidence,
                      Store!Exists, Exists
  <2> HIDE DEF k, c
  <2> QED
    BY <2>1, <2>2 DEF Store!Next
<1>6. \/ UNCHANGED row
      \/ \E p \in Handlers : EnsureAccount(p) \/ UpdateMode(p)
      \/ \E j \in Pubkeys : CreateAccount(j) \/ SetEnhancedIfUnset(j)
      \/ \E t \in Lookups : RefreshCountry(t)
  BY DEF Next, SetMode, ResolveCountry, VendorAnswers, ClassifyRefused, Answer, Cancel,
         SpawnLookup, CheckLookup, Resolve, Tick, vars
<1> QED
  BY <1>2, <1>3, <1>4, <1>5, <1>6

(* So the routes and background tasks implement that contract.             *)
THEOREM WritesAreStatements == Spec => ImplementsStore
<1>1. Init => Store!Init
  BY DEF Init, Store!Init
<1>2. IInv /\ [Next]_vars => [Store!Next]_row
  BY StepsAreStatements
<1> QED
  BY <1>1, <1>2, Initially, Inductive, PTL DEF Spec, ImplementsStore, Store!Spec

(* The anchor stores the client's timestamp, and no statement takes it     *)
(* back or changes the mode of an anchored account without a later one:    *)
(* what makes AckedHolds true.                                             *)
THEOREM AnchorNeverGoesBack == Spec => Store!AnchorGrows
<1>1. ASSUME IInv, Store!Next, NEW k \in Pubkeys, Store!Exists(k), row[k].ts # NULL
      PROVE  \/ row'[k].ts > row[k].ts
             \/ row'[k].ts = row[k].ts /\ row'[k].mode = row[k].mode
  <2> USE <1>1, Constants DEF IInv, Types, Store!Exists
  <2>1. ASSUME NEW j \in Pubkeys, Store!EnsureSparkAccount(j)
        PROVE  row'[k] = row[k]
    BY <2>1 DEF Store!EnsureSparkAccount
  <2>2. ASSUME NEW j \in Pubkeys, Store!SetSparkModeEnhancedIfUnset(j)
        PROVE  row'[k] = row[k]
    BY <2>2 DEF Store!SetSparkModeEnhancedIfUnset, AnchoredHasMode, Exists
  <2>3. ASSUME NEW j \in Pubkeys, NEW c \in Countries,
               Store!RefreshSparkCountryEvidence(j, c)
        PROVE  row'[k].ts = row[k].ts /\ row'[k].mode = row[k].mode
    BY <2>3 DEF Store!RefreshSparkCountryEvidence, Row
  <2>4. ASSUME NEW j \in Pubkeys, NEW m \in {"enhanced", "anon"}, NEW ts \in Times,
               NEW c \in Countries \cup {NULL}, Store!UpsertSparkMode(j, m, ts, c)
        PROVE  row'[k].ts > row[k].ts \/ row'[k] = row[k]
    BY <2>4 DEF Store!UpsertSparkMode, Row
  <2> QED
    BY <2>1, <2>2, <2>3, <2>4 DEF Store!Next
<1>2. IInv /\ [Next]_vars =>
        [\A k \in Pubkeys : Store!Exists(k) /\ row[k].ts # NULL =>
            \/ row'[k].ts > row[k].ts
            \/ row'[k].ts = row[k].ts /\ row'[k].mode = row[k].mode]_row
  BY <1>1, StepsAreStatements
<1> QED
  BY <1>2, Initially, Inductive, PTL DEF Spec, Store!AnchorGrows

(***************************************************************************)
(* The limiter's table.                                                    *)
(***************************************************************************)
Sized(table) == IsFiniteSet(Tracked(table)) /\ Cardinality(Tracked(table)) <= MaxTracked

LEMMA SmallerSized ==
    ASSUME NEW S, NEW T, IsFiniteSet(T), S \subseteq T
    PROVE  IsFiniteSet(S) /\ Cardinality(S) <= Cardinality(T)
  BY FS_Subset

(* A check that is let in by a full table first makes room in it.          *)
LEMMA CheckKeepsSize ==
    ASSUME Sized(counters), NEW b \in Buckets \cup {NULL}, NEW ok, Check(b, ok),
           DOMAIN counters = Buckets
    PROVE  Sized(counters') /\ DOMAIN counters' = Buckets
<1>1. CASE b = NULL
  BY <1>1 DEF Check
<1>2. CASE b # NULL
  <2> DEFINE table == Retained(b)
             w == IF table[b] = NULL THEN Current(NewWindow, MaxRequests)
                  ELSE Current(table[b], MaxRequests)
  <2>1. DOMAIN table = Buckets /\ Tracked(table) \subseteq Tracked(counters)
    BY DEF Retained, Tracked
  <2>2. Sized(table)
    <3>1. /\ IsFiniteSet(Tracked(table))
          /\ Cardinality(Tracked(table)) <= Cardinality(Tracked(counters))
      BY <2>1, SmallerSized DEF Sized
    <3>2. Cardinality(Tracked(table)) \in Nat /\ Cardinality(Tracked(counters)) \in Nat
      BY <3>1, FS_CardinalityType DEF Sized
    <3> QED
      BY <3>1, <3>2, LimitAssumption DEF Sized
  <2>3. CASE table[b] = NULL /\ Full(table)
    <3>1. counters' = table
      BY <1>2, <2>3 DEF Check
    <3> QED
      BY <2>1, <2>2, <3>1
  <2>4. CASE ~(table[b] = NULL /\ Full(table))
    <3>1. counters' = [table EXCEPT ![b] = w]
      BY <1>2, <2>4 DEF Check
    <3> HIDE DEF table, w
    <3>2. DOMAIN counters' = Buckets /\ Tracked(counters') \subseteq Tracked(table) \cup {b}
      BY <2>1, <3>1 DEF Tracked
    <3>3. Sized(counters')
      <4>1. CASE table[b] # NULL
        <5>1. Tracked(counters') \subseteq Tracked(table)
          BY <1>2, <3>2, <4>1 DEF Tracked
        <5>2. /\ IsFiniteSet(Tracked(counters')) /\ IsFiniteSet(Tracked(table))
              /\ Cardinality(Tracked(counters')) <= Cardinality(Tracked(table))
          BY <2>2, <5>1, SmallerSized DEF Sized
        <5>3. Cardinality(Tracked(table)) \in Nat /\ Cardinality(Tracked(counters')) \in Nat
          BY <5>2, FS_CardinalityType
        <5> QED
          BY <2>2, <5>2, <5>3, LimitAssumption DEF Sized
      <4>2. CASE table[b] = NULL
        <5>1. ~(Cardinality(Tracked(table)) >= MaxTracked)
          BY <2>4, <4>2 DEF Full
        <5>2. IsFiniteSet(Tracked(table)) /\ b \notin Tracked(table)
          BY <2>2, <4>2 DEF Sized, Tracked
        <5>3. /\ IsFiniteSet(Tracked(table) \cup {b})
              /\ Cardinality(Tracked(table) \cup {b}) = Cardinality(Tracked(table)) + 1
          BY <5>2, FS_AddElement
        <5>4. /\ IsFiniteSet(Tracked(counters'))
              /\ Cardinality(Tracked(counters')) <= Cardinality(Tracked(table) \cup {b})
          BY <3>2, <5>3, SmallerSized
        <5>5. Cardinality(Tracked(table)) \in Nat /\ Cardinality(Tracked(counters')) \in Nat
          BY <5>2, <5>4, FS_CardinalityType
        <5> QED
          BY <5>1, <5>3, <5>4, <5>5, LimitAssumption DEF Sized
      <4> QED
        BY <4>1, <4>2
    <3> QED
      BY <3>2, <3>3
  <2> QED
    BY <2>3, <2>4
<1> QED
  BY <1>1, <1>2

(* However many addresses send requests, the table of their windows does   *)
(* not grow beyond max_tracked_ips.                                        *)
LEMMA TableStaysBounded == Spec => []TableBounded
<1> DEFINE Inv == DOMAIN counters = Buckets /\ Sized(counters)
<1>1. Init => Inv
  <2> SUFFICES ASSUME Init
               PROVE  Inv
    OBVIOUS
  <2>1. DOMAIN counters = Buckets /\ Tracked(counters) = {}
    BY DEF Init, LimitInit, Tracked
  <2>2. IsFiniteSet({}) /\ Cardinality({}) = 0
    BY FS_EmptySet
  <2> QED
    BY <2>1, <2>2, LimitAssumption DEF Sized
<1>2. IInv /\ Inv /\ [Next]_vars => Inv'
  <2> SUFFICES ASSUME IInv, Inv, [Next]_vars
               PROVE  Inv'
    OBVIOUS
  <2>1. ASSUME NEW b \in Buckets \cup {NULL}, NEW ok, Check(b, ok)
        PROVE  Inv'
    BY <2>1, CheckKeepsSize
  <2>2. CASE UNCHANGED counters
    BY <2>2
  <2>3. \/ UNCHANGED counters
        \/ \E p \in Handlers, s \in Signed, b \in Buckets \cup {NULL} : SetMode(p, s, b)
        \/ \E t \in Lookups : CheckLookup(t)
    BY DEF Next, ResolveCountry, VendorAnswers, EnsureAccount, UpdateMode,
           ClassifyRefused, Answer, Cancel, CreateAccount, SetEnhancedIfUnset, SpawnLookup,
           Resolve, RefreshCountry, Tick, limits, vars
  <2>4. ASSUME NEW p \in Handlers, NEW s \in Signed, NEW b \in Buckets \cup {NULL},
               SetMode(p, s, b)
        PROVE  Inv'
    BY <2>1, <2>4 DEF SetMode
  <2>5. ASSUME NEW t \in Lookups, CheckLookup(t)
        PROVE  Inv'
    <3>1. lookup[t].ip \in Buckets \cup {NULL}
      BY DEF IInv, Types, Lookup
    <3>2. UNCHANGED counters \/ \E ok : Check(lookup[t].ip, ok)
      BY <2>5 DEF CheckLookup, limits
    <3> QED
      BY <2>1, <2>2, <3>1, <3>2
  <2> QED
    BY <2>2, <2>3, <2>4, <2>5
<1>3. Inv => TableBounded
  BY DEF Sized, TableBounded
<1> QED
  BY <1>1, <1>2, <1>3, Initially, Inductive, PTL DEF Spec

(***************************************************************************)
(* The budgets.  Windows of one bucket are at least a window's length      *)
(* apart, so that at most two of them meet in the last LimitWindow         *)
(* instants: the newest, and the part of the one before it that is left.   *)
(***************************************************************************)
Windows == [start: Nat, count: Nat]

(* How many there were in the last n instants, for each n.                 *)
Tally == {c \in [Spans -> Nat] : \A m, n \in Spans : m <= n => c[m] <= c[n]}

(* A window at time t, beside what was let through of its bucket: no more  *)
(* than it counted since it began, and no more than limit before.  Once it *)
(* is over, nothing is let through without a new one.                      *)
Spent(w, c, limit, t) ==
    /\ w.start <= t
    /\ t - w.start < LimitWindow =>
         LET inside == c[t - w.start + 1]
         IN  inside <= w.count /\ inside <= limit /\ c[LimitWindow] <= inside + limit
    /\ t - w.start >= LimitWindow =>
         /\ c[LimitWindow] <= limit
         /\ \A n \in Spans : n + LimitWindow <= t - w.start + 1 => c[n] = 0

(* A bucket without a window.                                              *)
Unspent(c, limit) == c[LimitWindow] <= limit /\ c[1] = 0

BucketOK(b) ==
    IF counters[b] = NULL THEN Unspent(admitted[b], MaxRequests)
    ELSE Spent(counters[b], admitted[b], MaxRequests, now)

BudgetInv ==
    /\ now \in Nat
    /\ counters \in [Buckets -> Windows \cup {NULL}] /\ budget \in Windows
    /\ admitted \in [Buckets -> Tally] /\ called \in Tally
    /\ \A b \in Buckets : BucketOK(b)
    /\ Spent(budget, called, MaxLookups, now)

LEMMA Spanning ==
    /\ LimitWindow \in Nat /\ LimitWindow >= 1 /\ 1 \in Spans /\ LimitWindow \in Spans
    /\ MaxRequests \in Nat /\ MaxLookups \in Nat /\ NULL \notin Windows /\ NULL \notin Buckets
    /\ \A n \in Spans : n \in Nat /\ 1 <= n /\ n <= LimitWindow
BY LimitAssumption DEF Spans, Windows

(* What was counted, at the next instant, and with one more now.           *)
LEMMA TallyOlder ==
    ASSUME NEW c \in Tally
    PROVE  /\ Older(c) \in Tally
           /\ Older(c)[1] = 0
           /\ \A n \in Spans : n # 1 => n - 1 \in Spans /\ Older(c)[n] = c[n - 1]
           /\ \A n \in Spans : Older(c)[n] <= c[n]
<1>1. ASSUME NEW n \in Spans, n # 1 PROVE n - 1 \in Spans
  BY <1>1, Spanning DEF Spans
<1>2. Older(c)[1] = 0 /\ \A n \in Spans : n # 1 => Older(c)[n] = c[n - 1]
  BY Spanning DEF Older
<1>3. Older(c) \in [Spans -> Nat]
  BY <1>1 DEF Older, Tally
<1>4. ASSUME NEW m \in Spans, NEW n \in Spans, m <= n PROVE Older(c)[m] <= Older(c)[n]
  <2>1. CASE m = 1
    BY <1>2, <1>3, <2>1
  <2>2. CASE m # 1
    <3>1. n # 1 /\ m - 1 <= n - 1
      BY <1>4, <2>2, Spanning
    <3> QED BY <1>1, <1>2, <2>2, <3>1 DEF Tally
  <2> QED BY <2>1, <2>2
<1>5. ASSUME NEW n \in Spans PROVE Older(c)[n] <= c[n]
  <2>1. CASE n = 1
    BY <1>2, <2>1, Spanning DEF Tally
  <2>2. CASE n # 1
    <3>1. n - 1 \in Spans /\ n - 1 <= n
      BY <1>1, <2>2, Spanning
    <3> QED BY <1>2, <2>2, <3>1 DEF Tally
  <2> QED BY <2>1, <2>2
<1> QED BY <1>1, <1>2, <1>3, <1>4, <1>5 DEF Tally

LEMMA TallyOneMore ==
    ASSUME NEW c \in Tally
    PROVE  OneMore(c) \in Tally /\ \A n \in Spans : OneMore(c)[n] = c[n] + 1
BY DEF OneMore, Tally

(* Time passes: a window ends, or lies further back.                       *)
LEMMA SpentLater ==
    ASSUME NEW w \in Windows, NEW c \in Tally, NEW limit \in Nat, NEW t \in Nat,
           Spent(w, c, limit, t)
    PROVE  Spent(w, Older(c), limit, t + 1)
<1> DEFINE d == t - w.start
<1>1. d \in Nat /\ w.start \in Nat /\ w.count \in Nat /\ t + 1 - w.start = d + 1 /\ w.start <= t + 1
  BY DEF Windows, Spent
<1>2. c \in [Spans -> Nat] /\ Older(c) \in [Spans -> Nat]
  BY TallyOlder DEF Tally
<1>3. Older(c)[LimitWindow] <= c[LimitWindow]
  BY TallyOlder, Spanning
<1>4. CASE d + 1 < LimitWindow
  <2>1. d + 1 \in Spans /\ d + 2 \in Spans /\ d + 2 # 1
    BY <1>1, <1>4, Spanning DEF Spans
  <2>2. Older(c)[d + 2] = c[d + 1]
    <3>1. (d + 2) - 1 = d + 1
      BY <1>1
    <3> QED BY <2>1, <3>1, TallyOlder
  <2>3. c[d + 1] <= w.count /\ c[d + 1] <= limit /\ c[LimitWindow] <= c[d + 1] + limit
    BY <1>1, <1>4, Spanning DEF Spent
  <2>4. Older(c)[LimitWindow] <= c[d + 1] + limit
    <3>1. Older(c)[LimitWindow] \in Nat /\ c[LimitWindow] \in Nat /\ c[d + 1] \in Nat
      BY <1>2, <2>1, Spanning
    <3> QED BY <1>3, <2>3, <3>1
  <2>5. (d + 1) + 1 = d + 2
    BY <1>1
  <2> HIDE DEF d
  <2> QED BY <1>1, <1>4, <2>2, <2>3, <2>4, <2>5, Spanning DEF Spent
<1>5. CASE d + 1 = LimitWindow
  <2>1. c[LimitWindow] <= limit
    BY <1>1, <1>5, Spanning DEF Spent
  <2>2. Older(c)[LimitWindow] <= limit
    BY <1>2, <1>3, <2>1, Spanning
  <2>3. ASSUME NEW n \in Spans, n + LimitWindow <= d + 1 + 1 PROVE Older(c)[n] = 0
    <3>1. n = 1
      BY <1>1, <1>5, <2>3, Spanning
    <3> QED BY <3>1, TallyOlder
  <2> HIDE DEF d
  <2> QED BY <1>1, <1>5, <2>2, <2>3, Spanning DEF Spent
<1>6. CASE d >= LimitWindow
  <2>1. c[LimitWindow] <= limit /\ \A n \in Spans : n + LimitWindow <= d + 1 => c[n] = 0
    BY <1>6 DEF Spent
  <2>2. Older(c)[LimitWindow] <= limit
    BY <1>2, <1>3, <2>1, Spanning
  <2>3. ASSUME NEW n \in Spans, n + LimitWindow <= d + 1 + 1 PROVE Older(c)[n] = 0
    <3>1. CASE n = 1
      BY <3>1, TallyOlder
    <3>2. CASE n # 1
      <4>1. n - 1 \in Spans /\ Older(c)[n] = c[n - 1]
        BY <3>2, TallyOlder
      <4>2. (n - 1) + LimitWindow <= d + 1
        BY <1>1, <2>3, Spanning
      <4> QED BY <2>1, <4>1, <4>2
    <3> QED BY <3>1, <3>2
  <2>4. d + 1 >= LimitWindow /\ ~(d + 1 < LimitWindow)
    BY <1>1, <1>6, Spanning
  <2> HIDE DEF d
  <2> QED BY <1>1, <2>2, <2>3, <2>4 DEF Spent
<1> QED BY <1>1, <1>4, <1>5, <1>6, Spanning

LEMMA UnspentLater ==
    ASSUME NEW c \in Tally, NEW limit \in Nat, Unspent(c, limit)
    PROVE  Unspent(Older(c), limit)
<1>1. Older(c)[LimitWindow] <= c[LimitWindow] /\ Older(c)[1] = 0
  BY TallyOlder, Spanning
<1>2. Older(c)[LimitWindow] \in Nat /\ c[LimitWindow] \in Nat
  BY TallyOlder, Spanning DEF Tally
<1> QED BY <1>1, <1>2 DEF Unspent

(* A window that is over has let nothing through at this instant.          *)
LEMMA OverIsUnspent ==
    ASSUME NEW w \in Windows, NEW c \in Tally, NEW limit \in Nat, now \in Nat,
           Spent(w, c, limit, now), ~Live(w)
    PROVE  Unspent(c, limit)
<1>1. now - w.start >= LimitWindow
  BY Spanning DEF Live, Windows, Spent
<1>2. c[LimitWindow] <= limit /\ \A n \in Spans : n + LimitWindow <= now - w.start + 1 => c[n] = 0
  BY <1>1 DEF Spent
<1>3. 1 + LimitWindow <= now - w.start + 1
  BY <1>1, Spanning DEF Windows, Spent
<1> QED BY <1>2, <1>3, Spanning DEF Unspent

(* A request counted in a window and let through within the limit: in one  *)
(* that has just begun, or in one that is not over.                        *)
LEMMA CountedAnew ==
    ASSUME NEW c \in Tally, NEW limit \in Nat, now \in Nat, Unspent(c, limit),
           NEW ok, ok = (Current(NewWindow, limit).count <= limit)
    PROVE  /\ Current(NewWindow, limit) \in Windows
           /\ Spent(Current(NewWindow, limit), IF ok THEN OneMore(c) ELSE c, limit, now)
<1> DEFINE c2 == IF ok THEN OneMore(c) ELSE c
           v == [start |-> now, count |-> 1]
<1>1. Current(NewWindow, limit) = v
  BY Spanning DEF Current, NewWindow, Live, Add
<1>2. v \in Windows
  BY DEF Windows
<1>3. now - v.start = 0 /\ v.start <= now /\ v.count = 1
  OBVIOUS
<1>4. c2[1] <= 1 /\ c2[1] <= limit /\ c2[LimitWindow] <= c2[1] + limit
  <2>1. c[1] = 0 /\ c[LimitWindow] <= limit /\ c[LimitWindow] \in Nat
    BY Spanning DEF Unspent, Tally
  <2>2. CASE ok
    <3>1. c2[1] = 1 /\ c2[LimitWindow] = c[LimitWindow] + 1
      BY <2>1, <2>2, TallyOneMore, Spanning
    <3>2. Current(NewWindow, limit).count <= limit
      BY <2>2
    <3>3. 1 <= limit
      BY <1>1, <3>2
    <3> HIDE DEF c2
    <3> QED BY <2>1, <3>1, <3>3
  <2>3. CASE ~ok
    BY <2>1, <2>3
  <2> QED BY <2>2, <2>3
<1>5. c2[0 + 1] = c2[1] /\ 0 < LimitWindow /\ ~(0 >= LimitWindow)
  BY Spanning
<1> HIDE DEF c2, v
<1>6. Spent(v, c2, limit, now)
  BY <1>3, <1>4, <1>5 DEF Spent
<1> QED BY <1>1, <1>2, <1>6 DEF c2

LEMMA CountedAgain ==
    ASSUME NEW w \in Windows, NEW c \in Tally, NEW limit \in Nat, now \in Nat,
           Spent(w, c, limit, now), Live(w),
           NEW ok, ok = (Current(w, limit).count <= limit)
    PROVE  /\ Current(w, limit) \in Windows
           /\ Spent(Current(w, limit), IF ok THEN OneMore(c) ELSE c, limit, now)
<1> DEFINE c2 == IF ok THEN OneMore(c) ELSE c
           v == Current(w, limit)
           d == now - w.start
<1>1. v = [start |-> w.start, count |-> Add(w.count, limit)]
  BY DEF Current, Windows
<1>2. w.start \in Nat /\ w.count \in Nat /\ d \in Nat /\ d < LimitWindow
  BY DEF Windows, Live, Spent
<1>3. Add(w.count, limit) \in Nat /\ w.count <= Add(w.count, limit)
      /\ (Add(w.count, limit) <= limit => Add(w.count, limit) = w.count + 1)
  BY <1>2 DEF Add
<1>4. v \in Windows /\ v.start = w.start /\ v.count = Add(w.count, limit)
  BY <1>1, <1>2, <1>3 DEF Windows
<1>5. c[d + 1] <= w.count /\ c[d + 1] <= limit /\ c[LimitWindow] <= c[d + 1] + limit
  BY <1>2 DEF Spent
<1>6. d + 1 \in Spans /\ c[d + 1] \in Nat /\ c[LimitWindow] \in Nat
  BY <1>2, Spanning DEF Spans, Tally
<1>7. c2[d + 1] <= v.count /\ c2[d + 1] <= limit /\ c2[LimitWindow] <= c2[d + 1] + limit
  <2>1. CASE ok
    <3>1. c2[d + 1] = c[d + 1] + 1 /\ c2[LimitWindow] = c[LimitWindow] + 1
      BY <1>6, <2>1, TallyOneMore, Spanning
    <3>2. v.count = w.count + 1 /\ w.count + 1 <= limit
      BY <1>3, <1>4, <2>1
    <3> HIDE DEF c2, v, d
    <3> QED BY <1>2, <1>5, <1>6, <3>1, <3>2
  <2>2. CASE ~ok
    <3>1. c2 = c
      BY <2>2
    <3> HIDE DEF c2, v, d
    <3> QED BY <1>2, <1>3, <1>4, <1>5, <1>6, <3>1
  <2> QED BY <2>1, <2>2
<1>8. ~(d >= LimitWindow) /\ w.start <= now
  BY <1>2, Spanning
<1> HIDE DEF c2, v
<1>9. Spent(v, c2, limit, now)
  BY <1>2, <1>4, <1>7, <1>8 DEF Spent
<1> QED BY <1>4, <1>9 DEF c2, v

LEMMA Counted ==
    ASSUME NEW w \in Windows, NEW c \in Tally, NEW limit \in Nat, now \in Nat,
           Spent(w, c, limit, now),
           NEW ok, ok = (Current(w, limit).count <= limit)
    PROVE  /\ Current(w, limit) \in Windows
           /\ Spent(Current(w, limit), IF ok THEN OneMore(c) ELSE c, limit, now)
<1>1. CASE Live(w)
  BY <1>1, CountedAgain
<1>2. CASE ~Live(w)
  <2>1. Current(w, limit) = Current(NewWindow, limit)
    BY <1>2, Spanning DEF Current, NewWindow, Live
  <2> QED BY <1>2, <2>1, OverIsUnspent, CountedAnew
<1> QED BY <1>1, <1>2

(* What an address or the vendor may get in the last LimitWindow instants. *)
LEMMA SpentWithin ==
    ASSUME NEW w \in Windows, NEW c \in Tally, NEW limit \in Nat, now \in Nat,
           Spent(w, c, limit, now)
    PROVE  c[LimitWindow] <= 2 * limit
<1> DEFINE d == now - w.start
<1>1. d \in Nat /\ c[LimitWindow] \in Nat
  BY Spanning DEF Windows, Spent, Tally
<1>2. CASE d < LimitWindow
  <2>1. d + 1 \in Spans /\ c[d + 1] \in Nat
    BY <1>1, <1>2, Spanning DEF Spans, Tally
  <2>2. c[d + 1] <= limit /\ c[LimitWindow] <= c[d + 1] + limit
    BY <1>2 DEF Spent
  <2> HIDE DEF d
  <2> QED BY <1>1, <2>1, <2>2
<1>3. CASE d >= LimitWindow
  <2>1. c[LimitWindow] <= limit
    BY <1>3 DEF Spent
  <2> QED BY <1>1, <2>1
<1> QED BY <1>1, <1>2, <1>3, Spanning

LEMMA BudgetInit == Init => BudgetInv
<1> SUFFICES ASSUME Init PROVE BudgetInv
  OBVIOUS
<1> DEFINE none == [n \in Spans |-> 0]
<1>1. none \in Tally /\ none[1] = 0 /\ none[LimitWindow] = 0 /\ \A n \in Spans : none[n] = 0
  BY Spanning DEF Tally
<1>2. now = 0 /\ now \in Nat /\ budget = [start |-> 0, count |-> 0] /\ called = none
      /\ counters = [b \in Buckets |-> NULL] /\ admitted = [b \in Buckets |-> none]
  BY DEF Init, LimitInit
<1>3. budget \in Windows
  BY <1>2 DEF Windows
<1> HIDE DEF none
<1>4. \A b \in Buckets : BucketOK(b)
  BY <1>1, <1>2, Spanning DEF BucketOK, Unspent
<1>5. Spent(budget, called, MaxLookups, now)
  <2>1. budget.start = 0 /\ budget.count = 0 /\ now - budget.start = 0
    BY <1>2
  <2>2. called[0 + 1] = 0 /\ called[LimitWindow] = 0 /\ 0 < LimitWindow /\ ~(0 >= LimitWindow)
    BY <1>1, <1>2, Spanning
  <2> QED BY <1>2, <2>1, <2>2, Spanning DEF Spent
<1> QED BY <1>1, <1>2, <1>3, <1>4, <1>5 DEF BudgetInv

LEMMA BudgetTick == BudgetInv /\ Tick => BudgetInv'
<1> SUFFICES ASSUME BudgetInv, Tick PROVE BudgetInv'
  OBVIOUS
<1>1. /\ now \in Nat /\ now' = now + 1 /\ now' \in Nat
      /\ counters' = counters /\ budget' = budget /\ called' = Older(called)
      /\ admitted' = [b \in Buckets |-> Older(admitted[b])]
  BY DEF Tick, BudgetInv
<1>2. called' \in Tally /\ admitted' \in [Buckets -> Tally]
  BY <1>1, TallyOlder DEF BudgetInv
<1>3. Spent(budget, Older(called), MaxLookups, now + 1)
  BY <1>1, Spanning, SpentLater DEF BudgetInv
<1>4. Spent(budget, called, MaxLookups, now)'
  BY <1>1, <1>3 DEF Spent
<1>5. ASSUME NEW b \in Buckets PROVE BucketOK(b)'
  <2>1. admitted[b] \in Tally /\ admitted'[b] = Older(admitted[b]) /\ BucketOK(b)
    BY <1>1 DEF BudgetInv
  <2>2. CASE counters[b] = NULL
    <3>1. Unspent(Older(admitted[b]), MaxRequests)
      BY <2>1, <2>2, Spanning, UnspentLater DEF BucketOK
    <3> QED BY <1>1, <2>1, <2>2, <3>1 DEF BucketOK, Unspent
  <2>3. CASE counters[b] # NULL
    <3>1. counters[b] \in Windows
      BY <2>3 DEF BudgetInv
    <3>2. Spent(counters[b], Older(admitted[b]), MaxRequests, now + 1)
      BY <1>1, <2>1, <2>3, <3>1, Spanning, SpentLater DEF BucketOK
    <3> QED BY <1>1, <2>1, <2>3, <3>2 DEF BucketOK, Spent
  <2> QED BY <2>2, <2>3
<1> QED BY <1>1, <1>2, <1>4, <1>5 DEF BudgetInv

(* A lookup within the budget.                                             *)
LEMMA BudgetSpend ==
    ASSUME BudgetInv, UNCHANGED now, NEW ok, Spend(ok), Call(ok)
    PROVE  called' \in Tally /\ budget' \in Windows /\ Spent(budget, called, MaxLookups, now)'
<1> DEFINE w == Current(budget, MaxLookups)
           c2 == IF ok THEN OneMore(called) ELSE called
<1>1. budget' = w /\ called' = c2 /\ ok = (w.count <= MaxLookups)
  BY DEF Spend, Call
<1>2. w \in Windows /\ Spent(w, c2, MaxLookups, now)
  <2>1. /\ budget \in Windows /\ called \in Tally /\ now \in Nat /\ MaxLookups \in Nat
        /\ Spent(budget, called, MaxLookups, now)
    BY Spanning DEF BudgetInv
  <2> QED BY <1>1, <2>1, Counted
<1>3. c2 \in Tally
  BY TallyOneMore DEF BudgetInv
<1> HIDE DEF w, c2
<1> QED BY <1>1, <1>2, <1>3 DEF Spent

(* A request of bucket b that is let through or not; other buckets may     *)
(* lose windows that are over.                                             *)
LEMMA BudgetCheck ==
    ASSUME BudgetInv, UNCHANGED now, NEW b \in Buckets \cup {NULL}, NEW ok,
           Check(b, ok), Admit(b, ok)
    PROVE  /\ counters' \in [Buckets -> Windows \cup {NULL}] /\ admitted' \in [Buckets -> Tally]
           /\ \A g \in Buckets : BucketOK(g)'
<1>t. /\ counters \in [Buckets -> Windows \cup {NULL}] /\ admitted \in [Buckets -> Tally]
      /\ now \in Nat /\ \A g \in Buckets : BucketOK(g)
  BY DEF BudgetInv
<1>1. CASE b = NULL
  <2>1. UNCHANGED <<counters, admitted>>
    BY <1>1 DEF Check, Admit
  <2> QED BY <1>t, <2>1 DEF BucketOK, Spent, Unspent
<1>2. CASE b # NULL
  <2> DEFINE table == Retained(b)
  <2>1. b \in Buckets
    BY <1>2
  <2>2. ASSUME NEW g \in Buckets
        PROVE  \/ table[g] = counters[g]
               \/ counters[g] # NULL /\ ~Live(counters[g]) /\ table[g] = NULL
    BY <1>t, <2>2 DEF Retained
  <2>3. table \in [Buckets -> Windows \cup {NULL}]
    BY <1>t DEF Retained
  <2>4. table[b] = counters[b]
    BY <2>1, <2>2 DEF Retained
  <2>5. ASSUME NEW g \in Buckets
        PROVE  IF table[g] = NULL THEN Unspent(admitted[g], MaxRequests)
               ELSE Spent(table[g], admitted[g], MaxRequests, now)
    <3>1. CASE table[g] = counters[g]
      BY <1>t, <3>1 DEF BucketOK
    <3>2. CASE counters[g] # NULL /\ ~Live(counters[g]) /\ table[g] = NULL
      <4>1. /\ counters[g] \in Windows /\ admitted[g] \in Tally
            /\ Spent(counters[g], admitted[g], MaxRequests, now)
        BY <1>t, <3>2 DEF BucketOK
      <4> QED BY <1>t, <3>2, <4>1, Spanning, OverIsUnspent
    <3> QED BY <2>2, <3>1, <3>2
  <2> DEFINE w == IF table[b] = NULL THEN Current(NewWindow, MaxRequests)
                  ELSE Current(table[b], MaxRequests)
             c2 == IF ok THEN OneMore(admitted[b]) ELSE admitted[b]
  <2>6. CASE ok = FALSE /\ counters' = table
    <3>1. admitted' = admitted
      BY <2>6 DEF Admit
    <3> HIDE DEF table
    <3> QED BY <1>t, <2>3, <2>5, <2>6, <3>1 DEF BucketOK, Spent, Unspent
  <2>7. CASE ok = (w.count <= MaxRequests) /\ counters' = [table EXCEPT ![b] = w]
    <3>1. w \in Windows /\ Spent(w, c2, MaxRequests, now)
      <4>1. admitted[b] \in Tally /\ MaxRequests \in Nat
        BY <1>t, <2>1, Spanning
      <4>2. CASE table[b] = NULL
        <5>1. Unspent(admitted[b], MaxRequests) /\ w = Current(NewWindow, MaxRequests)
          BY <2>1, <2>5, <4>2
        <5> QED BY <1>t, <2>7, <4>1, <5>1, CountedAnew
      <4>3. CASE table[b] # NULL
        <5>1. table[b] \in Windows /\ Spent(table[b], admitted[b], MaxRequests, now)
              /\ w = Current(table[b], MaxRequests)
          BY <2>1, <2>3, <2>5, <4>3
        <5> HIDE DEF table
        <5> QED BY <1>t, <2>7, <4>1, <5>1, Counted
      <4> QED BY <4>2, <4>3
    <3>2. admitted' = [admitted EXCEPT ![b] = c2] /\ c2 \in Tally
      BY <1>2, <1>t, <2>1, TallyOneMore DEF Admit
    <3>3. w # NULL
      BY <3>1, Spanning
    <3> HIDE DEF table, w, c2
    <3>4. /\ counters' \in [Buckets -> Windows \cup {NULL}] /\ admitted' \in [Buckets -> Tally]
          /\ counters'[b] = w /\ admitted'[b] = c2
          /\ \A g \in Buckets \ {b} : counters'[g] = table[g] /\ admitted'[g] = admitted[g]
      BY <1>t, <2>1, <2>3, <2>7, <3>1, <3>2
    <3>5. BucketOK(b)'
      BY <3>1, <3>3, <3>4 DEF BucketOK, Spent
    <3>6. \A g \in Buckets \ {b} : BucketOK(g)'
      BY <2>5, <3>4 DEF BucketOK, Spent, Unspent
    <3> QED BY <3>4, <3>5, <3>6
  <2> QED BY <1>2, <2>6, <2>7 DEF Check
<1> QED BY <1>1, <1>2

(* Only these steps spend, or let time pass.                               *)
LEMMA Spenders ==
    [Next]_vars =>
        \/ UNCHANGED <<limits, now>>
        \/ \E p \in Handlers, s \in Signed, b \in Buckets \cup {NULL} : SetMode(p, s, b)
        \/ \E p \in Handlers : ResolveCountry(p)
        \/ \E t \in Lookups : CheckLookup(t)
        \/ Tick
BY DEF Next, VendorAnswers, EnsureAccount, UpdateMode, ClassifyRefused, Answer, Cancel,
       CreateAccount, SetEnhancedIfUnset, SpawnLookup, Resolve, RefreshCountry, vars

LEMMA BudgetNext == IInv /\ BudgetInv /\ [Next]_vars => BudgetInv'
<1> SUFFICES ASSUME IInv, BudgetInv, [Next]_vars PROVE BudgetInv'
  OBVIOUS
<1>a. ASSUME UNCHANGED <<now, counters, admitted>>
      PROVE  /\ now' \in Nat /\ counters' \in [Buckets -> Windows \cup {NULL}]
             /\ admitted' \in [Buckets -> Tally] /\ \A b \in Buckets : BucketOK(b)'
  BY <1>a DEF BudgetInv, BucketOK, Spent, Unspent
<1>b. ASSUME UNCHANGED <<now, budget, called>>
      PROVE  /\ now' \in Nat /\ budget' \in Windows /\ called' \in Tally
             /\ Spent(budget, called, MaxLookups, now)'
  BY <1>b DEF BudgetInv, Spent
<1>1. CASE UNCHANGED <<limits, now>>
  BY <1>1, <1>a, <1>b DEF BudgetInv, limits
<1>2. ASSUME NEW p \in Handlers, NEW s \in Signed, NEW b \in Buckets \cup {NULL},
             SetMode(p, s, b)
      PROVE  BudgetInv'
  <2>1. PICK ok \in BOOLEAN : Check(b, ok) /\ Admit(b, ok)
    BY <1>2 DEF SetMode
  <2>2. UNCHANGED <<now, budget, called>>
    BY <1>2 DEF SetMode
  <2>3. /\ counters' \in [Buckets -> Windows \cup {NULL}] /\ admitted' \in [Buckets -> Tally]
        /\ \A g \in Buckets : BucketOK(g)'
    BY <2>1, <2>2, BudgetCheck
  <2> QED BY <1>b, <2>2, <2>3 DEF BudgetInv
<1>3. ASSUME NEW p \in Handlers, ResolveCountry(p) PROVE BudgetInv'
  <2>1. UNCHANGED <<now, counters, admitted>>
    BY <1>3 DEF ResolveCountry
  <2>2. UNCHANGED <<budget, called>> \/ \E ok \in BOOLEAN : Spend(ok) /\ Call(ok)
    BY <1>3 DEF ResolveCountry
  <2>3. CASE UNCHANGED <<budget, called>>
    BY <1>a, <1>b, <2>1, <2>3 DEF BudgetInv
  <2>4. ASSUME NEW ok \in BOOLEAN, Spend(ok), Call(ok) PROVE BudgetInv'
    BY <1>a, <2>1, <2>4, BudgetSpend DEF BudgetInv
  <2> QED BY <2>2, <2>3, <2>4
<1>4. ASSUME NEW t \in Lookups, CheckLookup(t) PROVE BudgetInv'
  <2> DEFINE b == lookup[t].ip
  <2>1. b \in Buckets \cup {NULL}
    BY DEF IInv, Types, Lookup
  <2>2. PICK within \in BOOLEAN, ok \in BOOLEAN :
          /\ Check(b, within) /\ Admit(b, within) /\ Call(ok)
          /\ IF within /\ b # NULL THEN Spend(ok) ELSE ok = FALSE /\ UNCHANGED budget
    BY <1>4 DEF CheckLookup
  <2>3. now' = now
    BY <1>4 DEF CheckLookup
  <2> HIDE DEF b
  <2>4. /\ counters' \in [Buckets -> Windows \cup {NULL}] /\ admitted' \in [Buckets -> Tally]
        /\ \A g \in Buckets : BucketOK(g)'
    BY <2>1, <2>2, <2>3, BudgetCheck
  <2>5. called' \in Tally /\ budget' \in Windows /\ Spent(budget, called, MaxLookups, now)'
    <3>1. CASE Spend(ok)
      BY <2>2, <2>3, <3>1, BudgetSpend
    <3>2. CASE ok = FALSE /\ UNCHANGED budget
      <4>1. called' = called
        BY <2>2, <3>2 DEF Call
      <4> QED BY <1>b, <2>3, <3>2, <4>1
    <3> QED BY <2>2, <3>1, <3>2
  <2> QED BY <2>3, <2>4, <2>5 DEF BudgetInv
<1> QED BY <1>1, <1>2, <1>3, <1>4, Spenders, BudgetTick

(* PerIpRateLimiter and GlobalBudget keep to twice their limits in any     *)
(* stretch of a window's length, with any number of addresses, requests    *)
(* and background lookups sharing them, and the table to its size.         *)
THEOREM BudgetsHold == Spec => []WithinBudget
<1>1. BudgetInv /\ TableBounded => WithinBudget
  <2> SUFFICES ASSUME BudgetInv, TableBounded PROVE WithinBudget
    OBVIOUS
  <2>1. called[LimitWindow] <= 2 * MaxLookups
    BY Spanning, SpentWithin DEF BudgetInv
  <2>2. ASSUME NEW b \in Buckets PROVE admitted[b][LimitWindow] <= 2 * MaxRequests
    <3>1. admitted[b] \in Tally /\ BucketOK(b) /\ now \in Nat
      BY DEF BudgetInv
    <3>2. CASE counters[b] = NULL
      <4>1. admitted[b][LimitWindow] <= MaxRequests /\ admitted[b][LimitWindow] \in Nat
        BY <3>1, <3>2, Spanning DEF BucketOK, Unspent, Tally
      <4> QED BY <4>1, Spanning
    <3>3. CASE counters[b] # NULL
      <4>1. counters[b] \in Windows /\ Spent(counters[b], admitted[b], MaxRequests, now)
        BY <3>1, <3>3 DEF BudgetInv, BucketOK
      <4> QED BY <3>1, <4>1, Spanning, SpentWithin
    <3> QED BY <3>2, <3>3
  <2> QED BY <2>1, <2>2 DEF WithinBudget
<1> QED
  BY <1>1, BudgetInit, BudgetNext, Initially, Inductive, TableStaysBounded, PTL DEF Spec
==============================================================================
