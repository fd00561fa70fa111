--------------------------- MODULE RegistryProofs ---------------------------
(***************************************************************************)
(* The registry for any number of keys, names, requests and statements:    *)
(* no statement is carried out twice, nobody loses an identifier without   *)
(* a say, and every transaction has the outcome of a method of the serial  *)
(* account store, whatever commits between its statements.                 *)
(***************************************************************************)
EXTENDS Registry, TLAPS

(***************************************************************************)
(* What a request may hold at each of its steps, by its kind.              *)
(***************************************************************************)
Signed(r, route) ==
    r.stmt \in Statements /\ r.stmt.route = route /\ r.names = {r.stmt.name}

Registers(r) ==
    /\ Signed(r, "register") /\ r.acct = r.stmt.signer /\ r.src = NULL
    /\ r.pc \in {"mode", "claim", "account", "owner", "purge", "upsert", "insert", "commit"}
    /\ r.spent <=> r.pc \notin {"mode", "claim"}
    /\ r.row <=> r.pc \in {"insert", "commit"}
    /\ r.set = IF r.pc = "commit" THEN r.names ELSE {}
    /\ r.del \subseteq Usernames \ r.names
    /\ r.pc \in {"mode", "claim", "account", "owner", "purge"} => r.del = {}

Unregisters(r) ==
    /\ Signed(r, "unregister") /\ r.acct = NULL /\ r.src = NULL
    /\ r.pc \in {"claim", "delete", "commit"}
    /\ r.spent <=> r.pc # "claim"
    /\ ~r.row /\ r.set = {}
    /\ r.del = IF r.pc = "commit" THEN r.names ELSE {}

(* From where the source has been checked, the two transfers are alike.    *)
Moves(r) ==
    /\ r.row => r.pc \in {"update", "purge", "commit"}
    /\ r.set = IF r.pc \in {"purge", "commit"} THEN r.names ELSE {}
    /\ r.del \subseteq Usernames \ r.names
    /\ r.pc # "commit" => r.del = {}

Transfers(r) ==
    /\ Signed(r, "transfer") /\ r.acct = r.stmt.to /\ Moves(r)
    /\ r.pc \in {"mode", "source", "claim", "check", "dest", "update", "purge", "commit"}
    /\ r.spent <=> r.pc \notin {"mode", "source", "claim"}
    /\ r.src = IF r.pc \in {"mode", "source"} THEN NULL ELSE r.stmt.signer

Migrates(r) ==
    /\ r.stmt = NULL /\ r.acct \in Pubkeys /\ Moves(r)
    /\ \E n \in Names : r.names = {n}
    /\ r.pc \in {"source", "check", "dest", "update", "purge", "commit"}
    /\ ~r.spent
    /\ IF r.pc = "source" THEN r.src = NULL ELSE r.src \in BlinkAccounts

Creates(r) ==
    /\ r.stmt = NULL /\ r.acct \in BlinkAccounts /\ r.src = NULL
    /\ r.pc \in {"blink", "insert_blink", "commit"}
    /\ ~r.spent /\ r.del = {}
    /\ r.row <=> r.pc = "commit"
    /\ r.set = IF r.pc = "commit" THEN r.names ELSE {}

Shape(r) ==
    /\ r \in Request
    /\ r = Idle \/ Registers(r) \/ Unregisters(r) \/ Transfers(r) \/ Migrates(r) \/ Creates(r)

(***************************************************************************)
(* What the tables hold for a request: what it has locked is as it was     *)
(* when it looked.                                                         *)
(***************************************************************************)
Loser(r) == IF r.acct = NULL THEN r.stmt.signer ELSE r.acct

Givers(r) == IF r.src # NULL THEN {r.src}
             ELSE IF r.acct \in Pubkeys THEN {NULL, r.acct} ELSE {NULL}

Backed(r) ==
    /\ r.spent => r.stmt \notin claims
    /\ r.stmt \in Statements \ Slow => now <= r.stmt.ts + Window
    /\ \A m \in r.del : owner[m] = Loser(r)
    /\ \A m \in r.set : owner[m] \in Givers(r)
    /\ r.pc = "update" \/ r.set # {} => r.row \/ r.acct \in spark
    /\ r.row /\ r.acct \in BlinkAccounts => r.acct \notin blink

(* Two transactions have not locked the same row.                          *)
Apart(r, x) ==
    /\ (r.set \cup r.del) \cap (x.set \cup x.del) = {}
    /\ ~(r.row /\ x.row /\ r.acct = x.acct)
    /\ ~(r.spent /\ x.spent /\ r.stmt = x.stmt)

Tables ==
    /\ owner \in [Names -> spark \cup blink \cup {NULL}]
    /\ spark \subseteq Pubkeys /\ blink \subseteq BlinkAccounts
    /\ anon \subseteq spark
    /\ claims \subseteq Statements
    /\ now \in Times

(* A claim outlives the time in which its statement is admitted.           *)
Ledger ==
    /\ acted \in [Statements -> 0 .. 2]
    /\ ClaimedWasActed /\ SingleUse
    /\ \A s \in Statements : acted[s] > 0 => s \in claims \/ now > s.ts + Window

Requests ==
    /\ req \in [Handlers -> Request]
    /\ \A p \in Handlers : Shape(req[p]) /\ Backed(req[p])
    /\ \A p, q \in Handlers : p # q => Apart(req[p], req[q])

IInv == Tables /\ Ledger /\ Requests

LEMMA Constants ==
    /\ Statements \subseteq Statement /\ Slow \subseteq Statements
    /\ \A s \in Statements : (s.route = "transfer") <=> (s.to # NULL)
    /\ \A s \in Statements : s.to # s.signer
    /\ Pubkeys \cap BlinkAccounts = {} /\ NULL \notin Pubkeys /\ NULL \notin BlinkAccounts
    /\ NULL \notin Statements
    /\ Window \in Nat /\ MaxTime \in Nat
  BY StatementAssumption, KindAssumption, TimeAssumption DEF Accounts

LEMMA StatementType ==
    ASSUME NEW s \in Statements
    PROVE  /\ s.route \in {"register", "unregister", "transfer"} /\ s.signer \in Pubkeys
           /\ s.name \in Usernames /\ s.name \in Names
           /\ s.to \in Pubkeys \cup {NULL} /\ (s.route = "transfer" => s.to \in Pubkeys)
           /\ s.ts \in Nat /\ s # NULL
<1>1. s \in Statement
  BY Constants
<1>2. s.ts \in 0 .. MaxTime /\ s.name \in Usernames /\ s.signer \in Pubkeys
      /\ s.to \in Pubkeys \cup {NULL} /\ s.route \in {"register", "unregister", "transfer"}
  BY <1>1 DEF Statement, Times
<1> QED
  BY <1>2, Constants DEF Names

LEMMA IdleFacts ==
    /\ Idle \in Request /\ Shape(Idle) /\ Backed(Idle)
    /\ \A x : Apart(Idle, x) /\ Apart(x, Idle)
<1>1. Idle \in Request
  BY DEF Idle, Request, Steps
<1> QED
  BY <1>1, Constants DEF Idle, Shape, Backed, Apart

LEMMA ApartSym == ASSUME NEW r, NEW x, Apart(r, x) PROVE Apart(x, r)
  BY DEF Apart

LEMMA RequestsAfter ==
    ASSUME req' \in [Handlers -> Request],
           \A q \in Handlers : \A x : x = req'[q] => Shape(x) /\ Backed(x)',
           \A q, u \in Handlers : q # u => Apart(req'[q], req'[u])
    PROVE  Requests'
<1>1. ASSUME NEW q \in Handlers
      PROVE  (Shape(req[q]) /\ Backed(req[q]))'
  <2>1. Shape(req'[q])
    OBVIOUS
  <2>2. Shape(req[q])'
    BY <2>1 DEF Shape, Registers, Unregisters, Transfers, Migrates, Creates, Moves, Signed
  <2>3. Backed(req[q])'
    BY DEF Backed, Loser, Givers
  <2> QED
    BY <2>2, <2>3
<1> QED
  BY <1>1 DEF Requests, Apart

(***************************************************************************)
(* Steps that only move a request.                                         *)
(***************************************************************************)
LEMMA RequestMoves ==
    ASSUME IInv, NEW p \in Handlers, NEW r, req' = [req EXCEPT ![p] = r],
           UNCHANGED <<tables, anon, now, acted>>,
           Shape(r), Backed(r), \A q \in Handlers \ {p} : Apart(r, req[q])
    PROVE  IInv'
<1>1. UNCHANGED <<owner, spark, blink, claims, anon, now, acted>>
  BY DEF tables
<1>2. Tables' /\ Ledger'
  BY <1>1 DEF IInv, Tables, Ledger, ClaimedWasActed, SingleUse
<1>3. r \in Request /\ req \in [Handlers -> Request]
  BY DEF Shape, IInv, Requests
<1>4. \A q \in Handlers : req'[q] = IF q = p THEN r ELSE req[q]
  BY <1>3
<1>5. ASSUME NEW q \in Handlers, NEW x, x = req'[q]
      PROVE  Shape(x) /\ Backed(x)'
  <2>1. Shape(x) /\ Backed(x)
    BY <1>4, <1>5 DEF IInv, Requests
  <2>2. Backed(x)'
    BY <1>1, <2>1 DEF Backed
  <2> QED
    BY <2>1, <2>2
<1>6. ASSUME NEW q \in Handlers, NEW u \in Handlers, q # u
      PROVE  Apart(req'[q], req'[u])
  BY <1>4, <1>6, ApartSym DEF IInv, Requests
<1>7. Requests'
  BY <1>3, <1>5, <1>6, RequestsAfter
<1> QED
  BY <1>2, <1>7 DEF IInv

LEMMA RefuseInv ==
    ASSUME IInv, NEW p \in Handlers, Refuse(p), UNCHANGED <<tables, anon, now, acted>>
    PROVE  IInv'
  BY RequestMoves, IdleFacts DEF Refuse

(* The request goes on without writing or locking anything.                *)
LEMMA Walks ==
    ASSUME IInv, NEW p \in Handlers, NEW r, req' = [req EXCEPT ![p] = r],
           UNCHANGED <<tables, anon, now, acted>>,
           Shape(r), r.pc # "update", r.stmt = req[p].stmt, r.acct = req[p].acct,
           r.spent = req[p].spent, r.row = req[p].row, r.set = req[p].set, r.del = req[p].del,
           r.src = req[p].src \/ r.set = {}
    PROVE  IInv'
<1>1. Backed(req[p]) /\ \A q \in Handlers \ {p} : Apart(req[p], req[q])
  BY DEF IInv, Requests
<1>2. Backed(r)
  BY <1>1 DEF Backed, Loser, Givers
<1>3. \A q \in Handlers \ {p} : Apart(r, req[q])
  BY <1>1 DEF Apart
<1> QED
  BY <1>2, <1>3, RequestMoves

LEMMA WithPc ==
    ASSUME NEW R \in Request, NEW pc \in Steps, NEW r, r = [R EXCEPT !.pc = pc]
    PROVE  /\ r \in Request /\ r.pc = pc /\ r.stmt = R.stmt /\ r.names = R.names
           /\ r.acct = R.acct /\ r.src = R.src /\ r.fresh = R.fresh /\ r.spent = R.spent
           /\ r.row = R.row /\ r.set = R.set /\ r.del = R.del
  BY DEF Request

LEMMA OneName ==
    ASSUME NEW p \in Handlers, NEW n, req[p].names = {n}
    PROVE  TheName(p) = n
  BY DEF TheName

LEMMA RequestFacts ==
    ASSUME IInv, NEW p \in Handlers
    PROVE  /\ req \in [Handlers -> Request] /\ req[p] \in Request
           /\ Shape(req[p]) /\ Backed(req[p])
           /\ \A q \in Handlers \ {p} : Apart(req[p], req[q])
  BY DEF IInv, Requests

LEMMA GotoInv ==
    ASSUME IInv, NEW p \in Handlers, NEW pc \in Steps \ {"update"}, Goto(p, pc),
           UNCHANGED <<tables, anon, now, acted>>,
           \A r \in Request : r = [req[p] EXCEPT !.pc = pc] => Shape(r)
    PROVE  IInv'
<1> DEFINE r == [req[p] EXCEPT !.pc = pc]
<1>1. req' = [req EXCEPT ![p] = r] /\ req[p] \in Request
  BY RequestFacts DEF Goto
<1>2. /\ r \in Request /\ r.pc = pc /\ r.stmt = req[p].stmt /\ r.acct = req[p].acct
      /\ r.src = req[p].src /\ r.spent = req[p].spent
      /\ r.row = req[p].row /\ r.set = req[p].set /\ r.del = req[p].del
  BY <1>1, WithPc
<1>3. Shape(r)
  BY <1>2
<1> HIDE DEF r
<1> QED
  BY <1>1, <1>2, <1>3, Walks

LEMMA ReadModeInv ==
    ASSUME IInv, NEW p \in Handlers, ReadMode(p)
    PROVE  IInv'
<1> SUFFICES ASSUME NEW R, R = req[p]
             PROVE  IInv'
  OBVIOUS
<1>1. R \in Request /\ Shape(R) /\ R.pc = "mode" /\ UNCHANGED <<tables, anon, now, acted>>
  BY RequestFacts DEF ReadMode, At
<1>2. Registers(R) \/ Transfers(R)
  BY <1>1 DEF Shape, Idle, Unregisters, Migrates, Creates
<1>3. CASE Refuse(p)
  BY <1>1, <1>3, RefuseInv
<1>4. CASE Goto(p, IF R.stmt.route = "transfer" THEN "source" ELSE "claim")
  <2> DEFINE pc == IF R.stmt.route = "transfer" THEN "source" ELSE "claim"
  <2>1. pc \in Steps \ {"update"}
    BY DEF Steps
  <2>2. ASSUME NEW r \in Request, r = [R EXCEPT !.pc = pc]
        PROVE  Shape(r)
    <3>1. /\ r.pc = pc /\ r.stmt = R.stmt /\ r.names = R.names /\ r.acct = R.acct
          /\ r.src = R.src /\ r.spent = R.spent
          /\ r.row = R.row /\ r.set = R.set /\ r.del = R.del
      BY <1>1, <2>1, <2>2, WithPc
    <3>2. CASE Registers(R)
      <4>1. Registers(r)
        BY <1>1, <3>1, <3>2 DEF Registers, Signed
      <4> QED
        BY <4>1 DEF Shape
    <3>3. CASE Transfers(R)
      <4>1. Transfers(r)
        BY <1>1, <3>1, <3>3 DEF Transfers, Signed, Moves
      <4> QED
        BY <4>1 DEF Shape
    <3> QED
      BY <1>2, <3>2, <3>3
  <2> HIDE DEF pc
  <2> QED
    BY <1>1, <1>4, <2>1, <2>2, GotoInv DEF pc
<1> QED
  BY <1>3, <1>4 DEF ReadMode

(* CheckOwner, CheckSource, CheckBlinkSource and CheckBlink.               *)
LEMMA CheckInv ==
    ASSUME IInv, NEW p \in Handlers,
           CheckOwner(p) \/ CheckSource(p) \/ CheckBlinkSource(p) \/ CheckBlink(p)
    PROVE  IInv'
<1> SUFFICES ASSUME NEW R, R = req[p]
             PROVE  IInv'
  OBVIOUS
<1>1. R \in Request /\ Shape(R) /\ UNCHANGED <<tables, anon, now, acted>>
  BY RequestFacts DEF CheckOwner, CheckSource, CheckBlinkSource, CheckBlink
<1>2. ASSUME NEW r \in Request, NEW pc \in Steps, r = [R EXCEPT !.pc = pc]
      PROVE  /\ r.pc = pc /\ r.stmt = R.stmt /\ r.names = R.names /\ r.acct = R.acct
             /\ r.src = R.src /\ r.spent = R.spent
             /\ r.row = R.row /\ r.set = R.set /\ r.del = R.del
  BY <1>1, <1>2, WithPc
<1>3. {"purge", "dest", "insert_blink"} \subseteq Steps \ {"update"}
  BY DEF Steps
<1>4. CASE Refuse(p)
  BY <1>1, <1>4, RefuseInv
<1>5. CASE CheckOwner(p) /\ Goto(p, "purge")
  <2>1. R.pc = "owner" /\ Registers(R)
    BY <1>1, <1>5 DEF CheckOwner, At, Shape, Idle, Unregisters, Transfers, Migrates, Creates
  <2>2. ASSUME NEW r \in Request, r = [R EXCEPT !.pc = "purge"]
        PROVE  Shape(r)
    <3>1. Registers(r)
      BY <1>2, <1>3, <2>1, <2>2 DEF Registers, Signed
    <3> QED
      BY <3>1 DEF Shape
  <2> QED
    BY <1>1, <1>3, <1>5, <2>2, GotoInv
<1>6. CASE (CheckSource(p) \/ CheckBlinkSource(p)) /\ Goto(p, "dest")
  <2>1. R.pc = "check" /\ (Transfers(R) \/ Migrates(R))
    BY <1>1, <1>6 DEF CheckSource, CheckBlinkSource, At, Shape, Idle, Registers, Unregisters,
                      Creates
  <2>2. ASSUME NEW r \in Request, r = [R EXCEPT !.pc = "dest"]
        PROVE  Shape(r)
    <3>1. Transfers(R) => Transfers(r)
      BY <1>2, <1>3, <2>1, <2>2 DEF Transfers, Signed, Moves
    <3>2. Migrates(R) => Migrates(r)
      BY <1>2, <1>3, <2>1, <2>2 DEF Migrates, Moves
    <3> QED
      BY <2>1, <3>1, <3>2 DEF Shape
  <2> QED
    BY <1>1, <1>3, <1>6, <2>2, GotoInv
<1>7. CASE CheckBlink(p) /\ Goto(p, "insert_blink")
  <2>1. R.pc = "blink" /\ Creates(R)
    BY <1>1, <1>7 DEF CheckBlink, At, Shape, Idle, Registers, Unregisters, Transfers, Migrates
  <2>2. ASSUME NEW r \in Request, r = [R EXCEPT !.pc = "insert_blink"]
        PROVE  Shape(r)
    <3>1. Creates(r)
      BY <1>2, <1>3, <2>1, <2>2 DEF Creates
    <3> QED
      BY <3>1 DEF Shape
  <2> QED
    BY <1>1, <1>3, <1>7, <2>2, GotoInv
<1> QED
  BY <1>4, <1>5, <1>6, <1>7 DEF CheckOwner, CheckSource, CheckBlinkSource, CheckBlink

LEMMA ReadSourceInv ==
    ASSUME IInv, NEW p \in Handlers, ReadSource(p) \/ ReadBlinkSource(p)
    PROVE  IInv'
<1> SUFFICES ASSUME NEW R, R = req[p]
             PROVE  IInv'
  OBVIOUS
<1>1. /\ req \in [Handlers -> Request] /\ R \in Request /\ Shape(R) /\ R.pc = "source"
      /\ UNCHANGED <<tables, anon, now, acted>>
  BY RequestFacts DEF ReadSource, ReadBlinkSource, At
<1>2. (Transfers(R) \/ Migrates(R)) /\ R.set = {}
  <2>1. Transfers(R) \/ Migrates(R)
    BY <1>1 DEF Shape, Idle, Registers, Unregisters, Creates
  <2> QED
    BY <1>1, <2>1 DEF Transfers, Migrates, Moves
<1>3. CASE Refuse(p)
  BY <1>1, <1>3, RefuseInv
<1>4. CASE ReadSource(p) /\ ~Refuse(p)
  <2>1. R.stmt # NULL /\ Transfers(R) /\ R.stmt \in Statements
    BY <1>2, <1>4 DEF ReadSource, Migrates, Transfers, Signed
  <2>2. R.stmt.signer \in Accounts /\ "claim" \in Steps
    BY <2>1, StatementType DEF Accounts, Steps
  <2> DEFINE r == [R EXCEPT !.pc = "claim", !.src = R.stmt.signer]
  <2>3. req' = [req EXCEPT ![p] = r]
    BY <1>1, <1>4 DEF ReadSource
  <2>4. /\ r \in Request /\ r.pc = "claim" /\ r.stmt = R.stmt /\ r.names = R.names
        /\ r.acct = R.acct /\ r.src = R.stmt.signer /\ r.spent = R.spent
        /\ r.row = R.row /\ r.set = R.set /\ r.del = R.del
    BY <1>1, <2>2 DEF Request
  <2> HIDE DEF r
  <2>5. Transfers(r)
    BY <1>1, <2>1, <2>4 DEF Transfers, Signed, Moves
  <2>6. Shape(r) /\ r.pc # "update" /\ r.set = {}
    BY <1>2, <2>4, <2>5 DEF Shape
  <2> QED
    BY <1>1, <2>3, <2>4, <2>6, Walks
<1>5. CASE ReadBlinkSource(p) /\ ~Refuse(p)
  <2>1. PICK a \in BlinkAccounts : req' = [req EXCEPT ![p].pc = "check", ![p].src = a]
    BY <1>5 DEF ReadBlinkSource
  <2>2. R.stmt = NULL /\ Migrates(R) /\ a \in Accounts /\ "check" \in Steps
    BY <1>2, <1>5, Constants DEF ReadBlinkSource, Migrates, Transfers, Signed, Accounts, Steps
  <2> DEFINE r == [R EXCEPT !.pc = "check", !.src = a]
  <2>3. req' = [req EXCEPT ![p] = r]
    BY <1>1, <2>1
  <2>4. /\ r \in Request /\ r.pc = "check" /\ r.stmt = R.stmt /\ r.names = R.names
        /\ r.acct = R.acct /\ r.src = a /\ r.spent = R.spent
        /\ r.row = R.row /\ r.set = R.set /\ r.del = R.del
    BY <1>1, <2>2 DEF Request
  <2> HIDE DEF r
  <2>5. Migrates(r)
    BY <1>1, <2>2, <2>4 DEF Migrates, Moves
  <2>6. Shape(r) /\ r.pc # "update" /\ r.set = {}
    BY <1>2, <2>4, <2>5 DEF Shape
  <2> QED
    BY <1>1, <2>3, <2>4, <2>6, Walks
<1> QED
  BY <1>3, <1>4, <1>5

LEMMA FindAccountInv ==
    ASSUME IInv, NEW p \in Handlers, FindAccount(p)
    PROVE  IInv'
<1> SUFFICES ASSUME NEW R, R = req[p]
             PROVE  IInv'
  OBVIOUS
<1>1. /\ req \in [Handlers -> Request] /\ R \in Request /\ Shape(R) /\ R.pc = "account"
      /\ UNCHANGED <<tables, anon, now, acted>>
  BY RequestFacts DEF FindAccount, At
<1>2. Registers(R)
  BY <1>1 DEF Shape, Idle, Unregisters, Transfers, Migrates, Creates
<1>3. PICK f \in BOOLEAN : req' = [req EXCEPT ![p].pc = "owner", ![p].fresh = f]
  BY DEF FindAccount
<1> DEFINE r == [R EXCEPT !.pc = "owner", !.fresh = f]
<1>4. req' = [req EXCEPT ![p] = r]
  BY <1>1, <1>3
<1>5. /\ r \in Request /\ r.pc = "owner" /\ r.stmt = R.stmt /\ r.names = R.names
      /\ r.acct = R.acct /\ r.src = R.src /\ r.spent = R.spent
      /\ r.row = R.row /\ r.set = R.set /\ r.del = R.del
  BY <1>1 DEF Request, Steps
<1> HIDE DEF r
<1>6. Registers(r)
  BY <1>1, <1>2, <1>5 DEF Registers, Signed
<1> QED
  BY <1>1, <1>4, <1>5, <1>6, Walks DEF Shape

(* A new request holds no lock.                                            *)
New(r, pc, s, names, acct) ==
    /\ r.pc = pc /\ r.stmt = s /\ r.names = names /\ r.acct = acct /\ r.src = NULL
    /\ ~r.spent /\ ~r.row /\ r.set = {} /\ r.del = {}

LEMMA StartInv ==
    ASSUME IInv, NEW p \in Handlers, NEW pc \in Steps \ {"idle", "update"},
           NEW s \in Statements \cup {NULL}, NEW names \in SUBSET Names,
           NEW acct \in Accounts \cup {NULL}, Start(p, pc, s, names, acct),
           UNCHANGED <<tables, anon, now, acted>>,
           s # NULL => CheckTimestamp(s),
           \A r \in Request : New(r, pc, s, names, acct) => Shape(r)
    PROVE  IInv'
<1> DEFINE r == [Idle EXCEPT !.pc = pc, !.stmt = s, !.names = names, !.acct = acct]
<1>1. req' = [req EXCEPT ![p] = r]
  BY DEF Start
<1>2. /\ r \in Request /\ r.pc = pc /\ r.stmt = s /\ r.names = names /\ r.acct = acct
      /\ r.src = NULL /\ ~r.spent /\ ~r.row /\ r.set = {} /\ r.del = {}
  BY DEF Idle, Request
<1> HIDE DEF r
<1>3. Shape(r)
  BY <1>2 DEF New
<1>4. Backed(r)
  BY <1>2, Constants DEF Backed, CheckTimestamp
<1>5. \A x : Apart(r, x)
  BY <1>2 DEF Apart
<1> QED
  BY <1>1, <1>3, <1>4, <1>5, RequestMoves

LEMMA ArriveInv ==
    ASSUME IInv, NEW p \in Handlers, Arrive(p)
    PROVE  IInv'
<1>1. {"mode", "claim", "source", "blink"} \subseteq Steps \ {"idle", "update"}
  BY DEF Steps
<1>2. ASSUME NEW s \in Statements, Register(p, s)
      PROVE  IInv'
  <2>1. /\ s # NULL /\ {s.name} \in SUBSET Names /\ s.signer \in Accounts
        /\ s.route = "register" /\ CheckTimestamp(s) /\ Start(p, "mode", s, {s.name}, s.signer)
        /\ UNCHANGED <<tables, anon, now, acted>>
    BY <1>2, StatementType DEF Register, Accounts
  <2>2. \A r \in Request : New(r, "mode", s, {s.name}, s.signer) => Shape(r)
    BY <2>1 DEF New, Shape, Registers, Signed
  <2> QED
    BY <1>1, <2>1, <2>2, StartInv
<1>3. ASSUME NEW s \in Statements, Unregister(p, s)
      PROVE  IInv'
  <2>1. /\ s # NULL /\ {s.name} \in SUBSET Names
        /\ s.route = "unregister" /\ CheckTimestamp(s) /\ Start(p, "claim", s, {s.name}, NULL)
        /\ UNCHANGED <<tables, anon, now, acted>>
    BY <1>3, StatementType DEF Unregister
  <2>2. \A r \in Request : New(r, "claim", s, {s.name}, NULL) => Shape(r)
    BY <2>1 DEF New, Shape, Unregisters, Signed
  <2> QED
    BY <1>1, <2>1, <2>2, StartInv
<1>4. ASSUME NEW s \in Statements, Transfer(p, s)
      PROVE  IInv'
  <2>1. /\ s # NULL /\ {s.name} \in SUBSET Names /\ s.to \in Accounts
        /\ s.route = "transfer" /\ CheckTimestamp(s) /\ Start(p, "mode", s, {s.name}, s.to)
        /\ UNCHANGED <<tables, anon, now, acted>>
    BY <1>4, StatementType DEF Transfer, Accounts
  <2>2. \A r \in Request : New(r, "mode", s, {s.name}, s.to) => Shape(r)
    BY <2>1 DEF New, Shape, Transfers, Signed, Moves
  <2> QED
    BY <1>1, <2>1, <2>2, StartInv
<1>5. ASSUME NEW m \in Migrations, TransferToSpark(p, m[1], m[2])
      PROVE  IInv'
  <2>1. /\ m[1] \in Names /\ {m[1]} \in SUBSET Names /\ m[2] \in Pubkeys /\ m[2] \in Accounts
        /\ Start(p, "source", NULL, {m[1]}, m[2]) /\ UNCHANGED <<tables, anon, now, acted>>
    BY <1>5, TrafficAssumption DEF TransferToSpark, Accounts
  <2>2. \A r \in Request : New(r, "source", NULL, {m[1]}, m[2]) => Shape(r)
    BY <2>1 DEF New, Shape, Migrates, Moves
  <2> QED
    BY <1>1, <2>1, <2>2, StartInv
<1>6. ASSUME NEW b \in BlinkAccounts, NEW names \in Created, CreateBlinkAccount(p, b, names)
      PROVE  IInv'
  <2>1. /\ names \in SUBSET Names /\ b \in Accounts
        /\ Start(p, "blink", NULL, names, b) /\ UNCHANGED <<tables, anon, now, acted>>
    BY <1>6, TrafficAssumption DEF CreateBlinkAccount, Accounts
  <2>2. \A r \in Request : New(r, "blink", NULL, names, b) => Shape(r)
    BY <2>1 DEF New, Shape, Creates
  <2> QED
    BY <1>1, <2>1, <2>2, StartInv
<1> QED
  BY <1>2, <1>3, <1>4, <1>5, <1>6 DEF Arrive

(***************************************************************************)
(* Steps that write, and lock what they write.                             *)
(***************************************************************************)
LEMMA InsertClaimInv ==
    ASSUME IInv, NEW p \in Handlers, InsertClaim(p)
    PROVE  IInv'
<1> SUFFICES ASSUME NEW R, R = req[p]
             PROVE  IInv'
  OBVIOUS
<1>1. /\ req \in [Handlers -> Request] /\ R \in Request /\ Shape(R) /\ Backed(R)
      /\ R.pc = "claim" /\ UNCHANGED <<tables, anon, now, acted>>
      /\ \A q \in Handlers \ {p} : Apart(R, req[q])
  BY RequestFacts DEF InsertClaim, At
<1>2. Registers(R) \/ Unregisters(R) \/ Transfers(R)
  BY <1>1 DEF Shape, Idle, Migrates, Creates
<1>3. R.stmt \in Statements /\ ~R.spent
  BY <1>1, <1>2 DEF Registers, Unregisters, Transfers, Signed
<1>4. CASE Refuse(p)
  BY <1>1, <1>4, RefuseInv
<1>5. CASE ~Refuse(p)
  <2>1. /\ R.stmt \notin claims
        /\ req' = [req EXCEPT ![p].pc = FirstStep(R.stmt.route), ![p].spent = TRUE]
        /\ \A q \in Handlers \ {p} : ~(req[q].spent /\ req[q].stmt = R.stmt)
    BY <1>5 DEF InsertClaim, ClaimLocked
  <2>2. PICK pc : /\ pc \in {"account", "delete", "check"} /\ pc = FirstStep(R.stmt.route)
                  /\ R.stmt.route = "register" => pc = "account"
                  /\ R.stmt.route = "unregister" => pc = "delete"
                  /\ R.stmt.route = "transfer" => pc = "check"
    <3>1. R.stmt.route \in {"register", "unregister", "transfer"}
      BY <1>3, StatementType
    <3> QED
      BY <3>1 DEF FirstStep
  <2> DEFINE r == [R EXCEPT !.pc = pc, !.spent = TRUE]
  <2>3. req' = [req EXCEPT ![p] = r] /\ pc \in Steps
    BY <1>1, <2>1, <2>2 DEF Steps
  <2>4. /\ r \in Request /\ r.pc = pc /\ r.stmt = R.stmt /\ r.names = R.names
        /\ r.acct = R.acct /\ r.src = R.src /\ r.spent = TRUE
        /\ r.row = R.row /\ r.set = R.set /\ r.del = R.del
    BY <1>1, <2>3 DEF Request
  <2> HIDE DEF r
  <2>5. Shape(r)
    <3>1. Registers(R) => Registers(r)
      BY <1>1, <2>2, <2>4 DEF Registers, Signed
    <3>2. Unregisters(R) => Unregisters(r)
      BY <1>1, <2>2, <2>4 DEF Unregisters, Signed
    <3>3. Transfers(R) => Transfers(r)
      BY <1>1, <2>2, <2>4 DEF Transfers, Signed, Moves
    <3> QED
      BY <1>2, <2>4, <3>1, <3>2, <3>3 DEF Shape
  <2>6. Backed(r)
    BY <1>1, <2>1, <2>2, <2>4 DEF Backed, Loser, Givers
  <2>7. \A q \in Handlers \ {p} : Apart(r, req[q])
    BY <1>1, <2>1, <2>4 DEF Apart
  <2> QED
    BY <1>1, <2>3, <2>5, <2>6, <2>7, RequestMoves
<1> QED
  BY <1>4, <1>5

(* The names deleted are locked, and are the account's.                    *)
LEMMA PurgeInv ==
    ASSUME IInv, NEW p \in Handlers, Purge(p)
    PROVE  IInv'
<1> SUFFICES ASSUME NEW R, R = req[p], NEW D, D = OtherNames(p)
             PROVE  IInv'
  OBVIOUS
<1>1. /\ req \in [Handlers -> Request] /\ R \in Request /\ Shape(R) /\ Backed(R)
      /\ R.pc = "purge" /\ UNCHANGED <<tables, anon, now, acted>>
      /\ \A q \in Handlers \ {p} : Apart(R, req[q])
  BY RequestFacts DEF Purge, At
<1>2. Registers(R) \/ Transfers(R) \/ Migrates(R)
  BY <1>1 DEF Shape, Idle, Unregisters, Creates
<1>3. /\ D \subseteq Usernames \ R.names /\ D \in SUBSET Names
      /\ \A n \in D : owner[n] = R.acct
      /\ \A q \in Handlers \ {p} : D \cap (req[q].set \cup req[q].del) = {}
  BY DEF Purge, OtherNames, NameLocked, Names
<1>4. R.acct # NULL /\ R.del = {} /\ (R.src = NULL <=> Registers(R))
  <2>1. CASE Registers(R)
    BY <1>1, <2>1, StatementType, Constants DEF Registers, Signed
  <2>2. CASE Transfers(R)
    BY <1>1, <2>2, StatementType, Constants DEF Transfers, Registers, Signed, Moves
  <2>3. CASE Migrates(R)
    BY <1>1, <2>3, Constants DEF Migrates, Registers, Signed, Moves
  <2> QED
    BY <1>2, <2>1, <2>2, <2>3
<1>5. PICK pc : pc = IF R.src = NULL THEN "upsert" ELSE "commit"
  OBVIOUS
<1> DEFINE r == [R EXCEPT !.pc = pc, !.del = D]
<1>6. req' = [req EXCEPT ![p] = r] /\ pc \in Steps
  BY <1>1, <1>5 DEF Purge, Steps
<1>7. /\ r \in Request /\ r.pc = pc /\ r.stmt = R.stmt /\ r.names = R.names
      /\ r.acct = R.acct /\ r.src = R.src /\ r.spent = R.spent
      /\ r.row = R.row /\ r.set = R.set /\ r.del = D
  BY <1>1, <1>3, <1>6 DEF Request
<1> HIDE DEF r
<1>8. Shape(r)
  <2>1. Registers(R) => Registers(r)
    BY <1>1, <1>3, <1>4, <1>5, <1>7 DEF Registers, Signed
  <2>2. Transfers(R) /\ ~Registers(R) => Transfers(r)
    BY <1>1, <1>3, <1>4, <1>5, <1>7 DEF Transfers, Signed, Moves
  <2>3. Migrates(R) /\ ~Registers(R) => Migrates(r)
    BY <1>1, <1>3, <1>4, <1>5, <1>7 DEF Migrates, Moves
  <2> QED
    BY <1>2, <1>7, <2>1, <2>2, <2>3 DEF Shape
<1>9. Backed(r)
  BY <1>1, <1>3, <1>4, <1>5, <1>7 DEF Backed, Loser, Givers
<1>10. \A q \in Handlers \ {p} : Apart(r, req[q])
  BY <1>1, <1>3, <1>7 DEF Apart
<1> QED
  BY <1>1, <1>6, <1>8, <1>9, <1>10, RequestMoves

LEMMA UpsertAccountInv ==
    ASSUME IInv, NEW p \in Handlers, UpsertAccount(p)
    PROVE  IInv'
<1> SUFFICES ASSUME NEW R, R = req[p]
             PROVE  IInv'
  OBVIOUS
<1>1. /\ req \in [Handlers -> Request] /\ R \in Request /\ Shape(R) /\ Backed(R)
      /\ R.pc = "upsert" /\ UNCHANGED <<tables, anon, now, acted>>
      /\ \A q \in Handlers \ {p} : Apart(R, req[q])
  BY RequestFacts DEF UpsertAccount, At
<1>2. Registers(R) /\ R.acct \in Pubkeys
  <2>1. Registers(R)
    BY <1>1 DEF Shape, Idle, Unregisters, Transfers, Migrates, Creates
  <2> QED
    BY <2>1, StatementType DEF Registers, Signed
<1>3. CASE Refuse(p)
  BY <1>1, <1>3, RefuseInv
<1>4. CASE ~Refuse(p)
  <2> DEFINE r == [R EXCEPT !.pc = "insert", !.row = TRUE]
  <2>1. /\ req' = [req EXCEPT ![p] = r] /\ "insert" \in Steps
        /\ \A q \in Handlers \ {p} : ~(req[q].row /\ req[q].acct = R.acct)
    BY <1>1, <1>4 DEF UpsertAccount, AccountLocked, Steps
  <2>2. /\ r \in Request /\ r.pc = "insert" /\ r.stmt = R.stmt /\ r.names = R.names
        /\ r.acct = R.acct /\ r.src = R.src /\ r.spent = R.spent
        /\ r.row = TRUE /\ r.set = R.set /\ r.del = R.del
    BY <1>1, <2>1 DEF Request
  <2> HIDE DEF r
  <2>3. Registers(r)
    BY <1>1, <1>2, <2>2 DEF Registers, Signed
  <2>4. Shape(r)
    BY <2>2, <2>3 DEF Shape
  <2>5. Backed(r)
    BY <1>1, <1>2, <2>2, Constants DEF Backed, Loser, Givers
  <2>6. \A q \in Handlers \ {p} : Apart(r, req[q])
    BY <1>1, <2>1, <2>2 DEF Apart
  <2> QED
    BY <1>1, <2>1, <2>4, <2>5, <2>6, RequestMoves
<1> QED
  BY <1>3, <1>4

LEMMA InsertIdentifierInv ==
    ASSUME IInv, NEW p \in Handlers, InsertIdentifier(p)
    PROVE  IInv'
<1> SUFFICES ASSUME NEW R, R = req[p]
             PROVE  IInv'
  OBVIOUS
<1>1. /\ req \in [Handlers -> Request] /\ R \in Request /\ Shape(R) /\ Backed(R)
      /\ R.pc = "insert" /\ UNCHANGED <<tables, anon, now, acted>>
      /\ \A q \in Handlers \ {p} : Apart(R, req[q])
  BY RequestFacts DEF InsertIdentifier, At
<1>2. /\ Registers(R) /\ R.acct \in Pubkeys /\ R.names = {R.stmt.name}
      /\ TheName(p) = R.stmt.name
  <2>1. Registers(R)
    BY <1>1 DEF Shape, Idle, Unregisters, Transfers, Migrates, Creates
  <2> QED
    BY <2>1, StatementType, OneName DEF Registers, Signed
<1>3. CASE Refuse(p)
  BY <1>1, <1>3, RefuseInv
<1>4. CASE ~Refuse(p)
  <2> DEFINE r == [R EXCEPT !.pc = "commit", !.set = R.names]
  <2>1. /\ req' = [req EXCEPT ![p] = r] /\ "commit" \in Steps
        /\ \A n \in R.names : owner[n] \in {NULL, R.acct}
        /\ \A q \in Handlers \ {p} : R.names \cap (req[q].set \cup req[q].del) = {}
    BY <1>1, <1>2, <1>4 DEF InsertIdentifier, NameLocked, Steps
  <2>2. /\ r \in Request /\ r.pc = "commit" /\ r.stmt = R.stmt /\ r.names = R.names
        /\ r.acct = R.acct /\ r.src = R.src /\ r.spent = R.spent
        /\ r.row = R.row /\ r.set = R.names /\ r.del = R.del
    BY <1>1, <2>1 DEF Request
  <2> HIDE DEF r
  <2>3. Registers(r)
    BY <1>1, <1>2, <2>2 DEF Registers, Signed
  <2>4. Shape(r)
    BY <2>2, <2>3 DEF Shape
  <2>5. r.src = NULL /\ r.row
    BY <2>2, <2>3 DEF Registers
  <2>6. Backed(r)
    BY <1>1, <1>2, <2>1, <2>2, <2>5 DEF Backed, Loser, Givers
  <2>7. \A q \in Handlers \ {p} : Apart(r, req[q])
    BY <1>1, <2>1, <2>2 DEF Apart
  <2> QED
    BY <1>1, <2>1, <2>4, <2>6, <2>7, RequestMoves
<1> QED
  BY <1>3, <1>4

LEMMA DeleteIdentifierInv ==
    ASSUME IInv, NEW p \in Handlers, DeleteIdentifier(p)
    PROVE  IInv'
<1> SUFFICES ASSUME NEW R, R = req[p]
             PROVE  IInv'
  OBVIOUS
<1>1. /\ req \in [Handlers -> Request] /\ R \in Request /\ Shape(R) /\ Backed(R)
      /\ R.pc = "delete" /\ UNCHANGED <<tables, anon, now, acted>>
      /\ \A q \in Handlers \ {p} : Apart(R, req[q])
  BY RequestFacts DEF DeleteIdentifier, At
<1>2. /\ Unregisters(R) /\ R.acct = NULL /\ R.names = {R.stmt.name}
      /\ TheName(p) = R.stmt.name
  <2>1. Unregisters(R)
    BY <1>1 DEF Shape, Idle, Registers, Transfers, Migrates, Creates
  <2> QED
    BY <2>1, StatementType, OneName DEF Unregisters, Signed
<1>3. CASE Refuse(p)
  BY <1>1, <1>3, RefuseInv
<1>4. CASE ~Refuse(p)
  <2> DEFINE r == [R EXCEPT !.pc = "commit", !.del = R.names]
  <2>1. /\ req' = [req EXCEPT ![p] = r] /\ "commit" \in Steps
        /\ \A n \in R.names : owner[n] = R.stmt.signer
        /\ \A q \in Handlers \ {p} : R.names \cap (req[q].set \cup req[q].del) = {}
    <3>1. owner[TheName(p)] = R.stmt.signer /\ ~NameLocked(p, TheName(p))
      BY <1>4 DEF DeleteIdentifier
    <3>2. req' = [req EXCEPT ![p] = r]
      BY <1>1, <1>4, <3>1 DEF DeleteIdentifier
    <3> QED
      BY <1>2, <3>1, <3>2 DEF NameLocked, Steps
  <2>2. /\ r \in Request /\ r.pc = "commit" /\ r.stmt = R.stmt /\ r.names = R.names
        /\ r.acct = R.acct /\ r.src = R.src /\ r.spent = R.spent
        /\ r.row = R.row /\ r.set = R.set /\ r.del = R.names
    BY <1>1, <2>1 DEF Request
  <2> HIDE DEF r
  <2>3. Unregisters(r)
    BY <1>1, <1>2, <2>2 DEF Unregisters, Signed
  <2>4. Shape(r)
    BY <2>2, <2>3 DEF Shape
  <2>5. Backed(r)
    BY <1>1, <1>2, <2>1, <2>2 DEF Backed, Loser, Givers
  <2>6. \A q \in Handlers \ {p} : Apart(r, req[q])
    BY <1>1, <2>1, <2>2 DEF Apart
  <2> QED
    BY <1>1, <2>1, <2>4, <2>5, <2>6, RequestMoves
<1> QED
  BY <1>3, <1>4

LEMMA FindDestinationInv ==
    ASSUME IInv, NEW p \in Handlers, FindDestination(p)
    PROVE  IInv'
<1> SUFFICES ASSUME NEW R, R = req[p]
             PROVE  IInv'
  OBVIOUS
<1>1. /\ req \in [Handlers -> Request] /\ R \in Request /\ Shape(R) /\ Backed(R)
      /\ R.pc = "dest" /\ UNCHANGED <<tables, anon, now, acted>>
      /\ \A q \in Handlers \ {p} : Apart(R, req[q])
  BY RequestFacts DEF FindDestination, At
<1>2. (Transfers(R) \/ Migrates(R)) /\ R.acct \in Pubkeys
  <2>1. Transfers(R) \/ Migrates(R)
    BY <1>1 DEF Shape, Idle, Registers, Unregisters, Creates
  <2> QED
    BY <2>1, StatementType DEF Transfers, Migrates, Signed
<1>3. PICK row \in BOOLEAN : row = (R.acct \notin spark)
  OBVIOUS
<1> DEFINE r == [R EXCEPT !.pc = "update", !.row = row]
<1>4. req' = [req EXCEPT ![p] = r] /\ "update" \in Steps
  BY <1>1, <1>3 DEF FindDestination, Steps
<1>5. /\ r \in Request /\ r.pc = "update" /\ r.stmt = R.stmt /\ r.names = R.names
      /\ r.acct = R.acct /\ r.src = R.src /\ r.spent = R.spent
      /\ r.row = row /\ r.set = R.set /\ r.del = R.del
  BY <1>1, <1>4 DEF Request
<1> HIDE DEF r
<1>6. Shape(r)
  <2>1. Transfers(R) => Transfers(r)
    BY <1>1, <1>5 DEF Transfers, Signed, Moves
  <2>2. Migrates(R) => Migrates(r)
    BY <1>1, <1>5 DEF Migrates, Moves
  <2> QED
    BY <1>2, <1>5, <2>1, <2>2 DEF Shape
<1>7. Backed(r)
  BY <1>1, <1>2, <1>3, <1>5, Constants DEF Backed, Loser, Givers
<1>8. row => \A q \in Handlers \ {p} : ~(req[q].row /\ req[q].acct = R.acct)
  BY <1>3 DEF FindDestination, AccountLocked
<1>9. \A q \in Handlers \ {p} : Apart(r, req[q])
  BY <1>1, <1>5, <1>8 DEF Apart
<1> QED
  BY <1>1, <1>4, <1>6, <1>7, <1>9, RequestMoves

LEMMA UpdateOwnerInv ==
    ASSUME IInv, NEW p \in Handlers, UpdateOwner(p)
    PROVE  IInv'
<1> SUFFICES ASSUME NEW R, R = req[p]
             PROVE  IInv'
  OBVIOUS
<1>1. /\ req \in [Handlers -> Request] /\ R \in Request /\ Shape(R) /\ Backed(R)
      /\ R.pc = "update" /\ UNCHANGED <<tables, anon, now, acted>>
      /\ \A q \in Handlers \ {p} : Apart(R, req[q])
  BY RequestFacts DEF UpdateOwner, At
<1>2. /\ Transfers(R) \/ Migrates(R)
      /\ R.src # NULL /\ R.names = {TheName(p)}
  <2>1. Transfers(R) \/ Migrates(R)
    BY <1>1 DEF Shape, Idle, Registers, Unregisters, Creates
  <2>2. R.src # NULL
    BY <1>1, <2>1, StatementType, Constants DEF Transfers, Migrates, Signed
  <2>3. PICK n : R.names = {n}
    BY <2>1 DEF Transfers, Migrates, Signed
  <2> QED
    BY <2>1, <2>2, <2>3, OneName
<1>3. CASE Refuse(p)
  BY <1>1, <1>3, RefuseInv
<1>4. CASE ~Refuse(p)
  <2> DEFINE r == [R EXCEPT !.pc = "purge", !.set = R.names]
  <2>1. /\ req' = [req EXCEPT ![p] = r] /\ "purge" \in Steps
        /\ \A n \in R.names : owner[n] = R.src
        /\ \A q \in Handlers \ {p} : R.names \cap (req[q].set \cup req[q].del) = {}
    <3>1. owner[TheName(p)] = R.src /\ ~NameLocked(p, TheName(p))
      BY <1>4 DEF UpdateOwner
    <3>2. req' = [req EXCEPT ![p] = r]
      BY <1>1, <1>4, <3>1 DEF UpdateOwner
    <3> QED
      BY <1>2, <3>1, <3>2 DEF NameLocked, Steps
  <2>2. /\ r \in Request /\ r.pc = "purge" /\ r.stmt = R.stmt /\ r.names = R.names
        /\ r.acct = R.acct /\ r.src = R.src /\ r.spent = R.spent
        /\ r.row = R.row /\ r.set = R.names /\ r.del = R.del
    BY <1>1, <2>1 DEF Request
  <2> HIDE DEF r
  <2>3. Shape(r)
    <3>1. Transfers(R) => Transfers(r)
      BY <1>1, <2>2 DEF Transfers, Signed, Moves
    <3>2. Migrates(R) => Migrates(r)
      BY <1>1, <2>2 DEF Migrates, Moves
    <3> QED
      BY <1>2, <2>2, <3>1, <3>2 DEF Shape
  <2>4. Backed(r)
    BY <1>1, <1>2, <2>1, <2>2 DEF Backed, Loser, Givers
  <2>5. \A q \in Handlers \ {p} : Apart(r, req[q])
    BY <1>1, <2>1, <2>2 DEF Apart
  <2> QED
    BY <1>1, <2>1, <2>3, <2>4, <2>5, RequestMoves
<1> QED
  BY <1>3, <1>4

LEMMA InsertBlinkInv ==
    ASSUME IInv, NEW p \in Handlers, InsertBlink(p)
    PROVE  IInv'
<1> SUFFICES ASSUME NEW R, R = req[p]
             PROVE  IInv'
  OBVIOUS
<1>1. /\ req \in [Handlers -> Request] /\ R \in Request /\ Shape(R) /\ Backed(R)
      /\ R.pc = "insert_blink" /\ UNCHANGED <<tables, anon, now, acted>>
      /\ \A q \in Handlers \ {p} : Apart(R, req[q])
  BY RequestFacts DEF InsertBlink, At
<1>2. Creates(R)
  BY <1>1 DEF Shape, Idle, Registers, Unregisters, Transfers, Migrates
<1>3. CASE Refuse(p)
  BY <1>1, <1>3, RefuseInv
<1>4. CASE ~Refuse(p)
  <2> DEFINE r == [R EXCEPT !.pc = "commit", !.row = TRUE, !.set = R.names]
  <2>1. R.acct \notin blink /\ \A n \in R.names : owner[n] = NULL
    BY <1>4 DEF InsertBlink
  <2>2. req' = [req EXCEPT ![p] = r] /\ "commit" \in Steps
    BY <1>1, <1>4 DEF InsertBlink, Steps
  <2>3. \A q \in Handlers \ {p} :
          /\ ~(req[q].row /\ req[q].acct = R.acct)
          /\ R.names \cap (req[q].set \cup req[q].del) = {}
    BY DEF InsertBlink, AccountLocked, NameLocked
  <2>4. /\ r \in Request /\ r.pc = "commit" /\ r.stmt = R.stmt /\ r.names = R.names
        /\ r.acct = R.acct /\ r.src = R.src /\ r.spent = R.spent
        /\ r.row = TRUE /\ r.set = R.names /\ r.del = R.del
    BY <1>1, <2>2 DEF Request
  <2> HIDE DEF r
  <2>5. Creates(r)
    BY <1>2, <2>4 DEF Creates
  <2>6. Shape(r) /\ r.src = NULL /\ r.del = {}
    BY <2>4, <2>5 DEF Shape, Creates
  <2>7. Backed(r)
    BY <1>1, <2>1, <2>4, <2>6 DEF Backed, Loser, Givers
  <2>8. \A q \in Handlers \ {p} : Apart(r, req[q])
    BY <1>1, <2>3, <2>4, <2>6 DEF Apart
  <2> QED
    BY <1>1, <2>2, <2>6, <2>7, <2>8, RequestMoves
<1> QED
  BY <1>3, <1>4

(***************************************************************************)
(* Steps that change the tables.                                           *)
(***************************************************************************)

(* What a request sees of them.                                            *)
Seen(r) ==
    /\ r.spent /\ r.stmt \notin claims => r.stmt \notin claims'
    /\ r.stmt \in Statements \ Slow => now' <= r.stmt.ts + Window
    /\ \A m \in r.set \cup r.del : owner'[m] = owner[m]
    /\ spark \subseteq spark'
    /\ r.row /\ r.acct \in BlinkAccounts /\ r.acct \notin blink => r.acct \notin blink'

LEMMA StillBacked ==
    ASSUME NEW r, Backed(r), Seen(r)
    PROVE  Backed(r)'
  BY DEF Backed, Seen, Loser, Givers

LEMMA RequestsStay ==
    ASSUME IInv, UNCHANGED req, \A q \in Handlers : Seen(req[q])
    PROVE  Requests'
<1>1. ASSUME NEW q \in Handlers, NEW x, x = req'[q]
      PROVE  Shape(x) /\ Backed(x)'
  BY <1>1, StillBacked DEF IInv, Requests
<1>2. \A q, u \in Handlers : q # u => Apart(req'[q], req'[u])
  BY DEF IInv, Requests
<1>3. req' \in [Handlers -> Request]
  BY DEF IInv, Requests
<1> QED
  BY <1>1, <1>2, <1>3, RequestsAfter

LEMMA SetModeInv ==
    ASSUME IInv, NEW k \in Typed, SetMode(k)
    PROVE  IInv'
<1>1. /\ spark' = spark \cup {k} /\ k \in Pubkeys
      /\ anon' \in {anon \cup {k}, anon \ {k}}
      /\ UNCHANGED <<owner, blink, claims, req, now, acted>>
  BY TrafficAssumption DEF SetMode
<1>2. Tables'
  BY <1>1 DEF IInv, Tables
<1>3. Ledger'
  BY <1>1 DEF IInv, Ledger, ClaimedWasActed, SingleUse
<1>4. \A q \in Handlers : Seen(req[q])
  BY <1>1 DEF IInv, Requests, Backed, Seen
<1> QED
  BY <1>1, <1>2, <1>3, <1>4, RequestsStay DEF IInv

LEMMA PruneInv ==
    ASSUME IInv, Prune
    PROVE  IInv'
<1>1. /\ claims' = {s \in claims : s.ts + Window >= now}
      /\ UNCHANGED <<owner, spark, blink, anon, req, now, acted>>
  BY DEF Prune, ClaimExpiresAt
<1>2. Tables'
  BY <1>1 DEF IInv, Tables
<1>3. Ledger'
  <2>1. ASSUME NEW s \in Statements, acted[s] > 0
        PROVE  s \in claims' \/ now > s.ts + Window
    <3>1. s.ts \in Nat /\ now \in Nat
      BY StatementType DEF IInv, Tables, Times
    <3> QED
      BY <1>1, <2>1, <3>1, Constants DEF IInv, Ledger
  <2> QED
    BY <1>1, <2>1 DEF IInv, Ledger, ClaimedWasActed, SingleUse
<1>4. \A q \in Handlers : Seen(req[q])
  BY <1>1 DEF IInv, Requests, Backed, Seen
<1> QED
  BY <1>1, <1>2, <1>3, <1>4, RequestsStay DEF IInv

LEMMA TickInv ==
    ASSUME IInv, Tick
    PROVE  IInv'
<1>1. /\ now < MaxTime /\ now' = now + 1
      /\ UNCHANGED <<owner, spark, blink, claims, anon, req, acted>>
      /\ \A q \in Handlers : req[q].stmt \in Statements \ Slow => now < req[q].stmt.ts + Window
  BY DEF Tick, tables
<1>2. now \in Nat /\ now' \in Times
  BY <1>1, Constants DEF IInv, Tables, Times
<1>3. Tables'
  BY <1>1, <1>2 DEF IInv, Tables
<1>4. Ledger'
  <2>1. ASSUME NEW s \in Statements, acted[s] > 0
        PROVE  s \in claims \/ now' > s.ts + Window
    <3>1. s.ts \in Nat
      BY StatementType
    <3> QED
      BY <1>1, <1>2, <2>1, <3>1, Constants DEF IInv, Ledger
  <2> QED
    BY <1>1, <2>1 DEF IInv, Ledger, ClaimedWasActed, SingleUse
<1>5. ASSUME NEW q \in Handlers
      PROVE  Seen(req[q])
  <2>1. req[q].stmt \in Statements \ Slow => now' <= req[q].stmt.ts + Window
    <3> SUFFICES ASSUME req[q].stmt \in Statements \ Slow
                 PROVE  now' <= req[q].stmt.ts + Window
      OBVIOUS
    <3>1. req[q].stmt.ts \in Nat
      BY StatementType
    <3> QED
      BY <1>1, <1>2, <3>1, Constants
  <2> QED
    BY <1>1, <2>1 DEF Seen
<1> QED
  BY <1>1, <1>3, <1>4, <1>5, RequestsStay DEF IInv

(* What a request that commits has written.                                *)
LEMMA Committed ==
    ASSUME IInv, NEW R \in Request, Shape(R), Backed(R), R.pc = "commit"
    PROVE  /\ R.stmt # NULL => R.stmt \in Statements
           /\ R.spent <=> R.stmt # NULL
           /\ R.set # {} => /\ R.acct \in Pubkeys \cup BlinkAccounts
                            /\ R.row \/ R.acct \in spark
           /\ R.set \cap R.del = {}
<1>1. R.stmt # NULL => R.stmt \in Statements
  BY DEF Request
<1>2. R.set # {} => R.row \/ R.acct \in spark
  BY DEF Backed
<1>3. CASE Registers(R)
  BY <1>1, <1>2, <1>3, StatementType DEF Registers, Signed
<1>4. CASE Unregisters(R)
  BY <1>1, <1>2, <1>4, StatementType DEF Unregisters, Signed
<1>5. CASE Transfers(R)
  BY <1>1, <1>2, <1>5, StatementType DEF Transfers, Signed, Moves
<1>6. CASE Migrates(R)
  BY <1>1, <1>2, <1>6 DEF Migrates, Moves
<1>7. CASE Creates(R)
  BY <1>1, <1>2, <1>7 DEF Creates
<1> QED
  BY <1>3, <1>4, <1>5, <1>6, <1>7 DEF Shape, Idle

LEMMA CommitInv ==
    ASSUME IInv, NEW p \in Handlers, Commit(p)
    PROVE  IInv'
<1> SUFFICES ASSUME NEW R, R = req[p]
             PROVE  IInv'
  OBVIOUS
<1>1. /\ req \in [Handlers -> Request] /\ R \in Request /\ Shape(R) /\ Backed(R)
      /\ R.pc = "commit" /\ \A q \in Handlers \ {p} : Apart(R, req[q])
  BY RequestFacts DEF Commit, At
<1>2. /\ owner' = [n \in Names |-> IF n \in R.set THEN R.acct
                                   ELSE IF n \in R.del THEN NULL ELSE owner[n]]
      /\ spark' = IF R.row THEN spark \cup ({R.acct} \cap Pubkeys) ELSE spark
      /\ blink' = IF R.row THEN blink \cup ({R.acct} \cap BlinkAccounts) ELSE blink
      /\ claims' = IF R.spent THEN claims \cup {R.stmt} ELSE claims
      /\ acted' = IF R.stmt = NULL THEN acted
                  ELSE [acted EXCEPT ![R.stmt] = IF @ = 0 THEN 1 ELSE 2]
      /\ req' = [req EXCEPT ![p] = Idle] /\ UNCHANGED <<anon, now>>
  BY DEF Commit
<1>3. /\ R.stmt # NULL => R.stmt \in Statements
      /\ R.spent <=> R.stmt # NULL
      /\ R.set # {} => R.acct \in Pubkeys \cup BlinkAccounts /\ (R.row \/ R.acct \in spark)
  BY <1>1, Committed
<1>4. /\ spark \subseteq spark' /\ blink \subseteq blink'
      /\ spark' \subseteq Pubkeys /\ blink' \subseteq BlinkAccounts
      /\ R.set # {} => R.acct \in spark' \cup blink'
  BY <1>2, <1>3 DEF IInv, Tables
<1>5. Tables'
  <2>1. ASSUME NEW n \in Names
        PROVE  owner'[n] \in spark' \cup blink' \cup {NULL}
    <3>1. owner'[n] \in {R.acct, NULL, owner[n]} /\ (owner'[n] = R.acct => n \in R.set
             \/ owner'[n] \in {NULL, owner[n]})
      BY <1>2
    <3>2. owner[n] \in spark \cup blink \cup {NULL}
      BY DEF IInv, Tables
    <3> QED
      BY <1>4, <3>1, <3>2
  <2>2. owner' \in [Names -> spark' \cup blink' \cup {NULL}]
    BY <1>2, <2>1
  <2> QED
    BY <1>2, <1>3, <1>4, <2>2 DEF IInv, Tables
<1>6. Ledger'
  <2>1. CASE R.stmt = NULL
    BY <1>2, <1>3, <2>1 DEF IInv, Ledger, ClaimedWasActed, SingleUse
  <2>2. CASE R.stmt # NULL
    <3>1. PICK s \in Statements : s = R.stmt
      BY <1>3, <2>2
    <3>2. s \notin claims /\ (s \notin Slow => now <= s.ts + Window) /\ claims' = claims \cup {s}
      BY <1>1, <1>2, <1>3, <2>2, <3>1 DEF Backed
    <3>3. acted' = [acted EXCEPT ![s] = IF acted[s] = 0 THEN 1 ELSE 2]
          /\ acted \in [Statements -> 0 .. 2]
      BY <1>2, <2>2, <3>1 DEF IInv, Ledger
    <3>4. s \notin Slow => acted[s] = 0
      <4>1. s.ts \in Nat /\ now \in Nat /\ acted[s] \in 0 .. 2
        BY <3>3, StatementType DEF IInv, Tables, Times
      <4> QED
        BY <3>2, <4>1, Constants DEF IInv, Ledger
    <3>5. /\ acted'[s] \in 1 .. 2 /\ (s \notin Slow => acted'[s] = 1)
          /\ \A t \in Statements \ {s} : acted'[t] = acted[t]
          /\ acted' \in [Statements -> 0 .. 2]
      BY <3>3, <3>4
    <3>6. ClaimedWasActed'
      BY <3>2, <3>5 DEF IInv, Tables, Ledger, ClaimedWasActed
    <3>7. SingleUse'
      BY <3>5 DEF IInv, Ledger, SingleUse
    <3>8. \A t \in Statements : acted'[t] > 0 => t \in claims' \/ now' > t.ts + Window
      BY <1>2, <3>2, <3>5 DEF IInv, Ledger
    <3> QED
      BY <3>5, <3>6, <3>7, <3>8 DEF Ledger
  <2> QED
    BY <2>1, <2>2
<1>7. ASSUME NEW q \in Handlers \ {p}, NEW x, x = req[q]
      PROVE  Seen(x)
  <2>1. Shape(x) /\ Backed(x) /\ Apart(R, x) /\ x \in Request
    BY <1>1, <1>7 DEF IInv, Requests
  <2>2. x.spent /\ x.stmt \notin claims => x.stmt \notin claims'
    BY <1>2, <2>1 DEF Apart
  <2>3. \A m \in x.set \cup x.del : owner'[m] = owner[m]
    <3>1. x.set \cup x.del \subseteq Names
      BY <2>1 DEF Request
    <3> QED
      BY <1>2, <2>1, <3>1 DEF Apart
  <2>4. x.row /\ x.acct \in BlinkAccounts /\ x.acct \notin blink => x.acct \notin blink'
    BY <1>2, <2>1 DEF Apart
  <2>5. x.stmt \in Statements \ Slow => now' <= x.stmt.ts + Window
    BY <1>2, <2>1 DEF Backed
  <2> QED
    BY <1>4, <2>2, <2>3, <2>4, <2>5 DEF Seen
<1>8. \A q \in Handlers : req'[q] = IF q = p THEN Idle ELSE req[q]
  BY <1>1, <1>2
<1>9. ASSUME NEW q \in Handlers, NEW x, x = req'[q]
      PROVE  Shape(x) /\ Backed(x)'
  <2>1. CASE q = p
    <3>1. x = Idle
      BY <1>8, <1>9, <2>1
    <3>2. Backed(Idle)'
      BY Constants DEF Idle, Backed
    <3>3. Backed(x)'
      BY <3>1, <3>2 DEF Backed, Loser, Givers
    <3> QED
      BY <3>1, <3>3, IdleFacts
  <2>2. CASE q # p
    <3>1. x = req[q]
      BY <1>8, <1>9, <2>2
    <3>2. Shape(x) /\ Backed(x)
      BY <3>1 DEF IInv, Requests
    <3>3. Seen(x)
      BY <1>7, <2>2, <3>1
    <3> QED
      BY <3>2, <3>3, StillBacked
  <2> QED
    BY <2>1, <2>2
<1>10. ASSUME NEW q \in Handlers, NEW u \in Handlers, q # u
       PROVE  Apart(req'[q], req'[u])
  BY <1>8, <1>10, IdleFacts DEF IInv, Requests
<1>11. req' \in [Handlers -> Request]
  BY <1>1, <1>2, IdleFacts
<1>12. Requests'
  BY <1>9, <1>10, <1>11, RequestsAfter
<1> QED
  BY <1>5, <1>6, <1>12 DEF IInv

LEMMA Initially == Init => IInv
<1> SUFFICES ASSUME Init
             PROVE  IInv
  OBVIOUS
<1>1. Tables
  BY Constants DEF Init, Tables, Times
<1>2. Ledger
  BY DEF Init, Ledger, ClaimedWasActed, SingleUse
<1>3. Requests
  BY IdleFacts DEF Init, Requests
<1> QED
  BY <1>1, <1>2, <1>3 DEF IInv

LEMMA Inductive == IInv /\ [Next]_vars => IInv'
<1> SUFFICES ASSUME IInv, [Next]_vars
             PROVE  IInv'
  OBVIOUS
<1>1. ASSUME NEW p \in Handlers, Step(p)
      PROVE  IInv'
  <2>1. CASE Fail(p)
    BY <2>1, RefuseInv DEF Fail
  <2> QED
    BY <1>1, <2>1, ReadModeInv, ReadSourceInv, InsertClaimInv, FindAccountInv, CheckInv,
       PurgeInv, UpsertAccountInv, InsertIdentifierInv, DeleteIdentifierInv,
       FindDestinationInv, UpdateOwnerInv, InsertBlinkInv, CommitInv
       DEF Step, MoveIdentifier
<1>2. CASE UNCHANGED vars
  <2>1. \A q \in Handlers : Seen(req[q])
    BY <1>2 DEF vars, IInv, Requests, Backed, Seen
  <2>2. Tables' /\ Ledger'
    BY <1>2 DEF vars, IInv, Tables, Ledger, ClaimedWasActed, SingleUse
  <2> QED
    BY <1>2, <2>1, <2>2, RequestsStay DEF vars, IInv
<1> QED
  BY <1>1, <1>2, ArriveInv, SetModeInv, PruneInv, TickInv DEF Next

LEMMA Invariance == Spec => []IInv
  BY Initially, Inductive, PTL DEF Spec

(* The tables and the requests keep their types, and an identifier belongs *)
(* to an account that exists, although the account and the identifier are  *)
(* written by different statements.                                        *)
THEOREM TypesKept == Spec => []TypeOK
<1>1. IInv => TypeOK
  BY DEF IInv, Tables, Ledger, Requests, TypeOK
<1> QED
  BY <1>1, Invariance, PTL

(* used_signed_messages lets a statement through once, however requests    *)
(* for it interleave and whenever the pruner runs, if they end before the  *)
(* clock refuses the statement.                                            *)
THEOREM StatementsAreUsedOnce == Spec => []SingleUse
<1>1. IInv => SingleUse
  BY DEF IInv, Ledger
<1> QED
  BY <1>1, Invariance, PTL

(* The claim commits with the write it authorises: a statement is spent    *)
(* only if it was carried out.                                             *)
THEOREM OnlyActedIsSpent == Spec => []ClaimedWasActed
<1>1. IInv => ClaimedWasActed
  BY DEF IInv, Ledger
<1> QED
  BY <1>1, Invariance, PTL

(***************************************************************************)
(* Who loses an identifier.                                                *)
(***************************************************************************)
LEMMA OnlyCommitsChange ==
    ASSUME [Next]_vars
    PROVE  owner' = owner \/ \E p \in Handlers : Commit(p)
<1>1. ASSUME NEW p \in Handlers, Step(p), ~Commit(p)
      PROVE  owner' = owner
  BY <1>1 DEF Step, ReadMode, ReadSource, ReadBlinkSource, InsertClaim, FindAccount, CheckOwner,
              Purge, UpsertAccount, InsertIdentifier, DeleteIdentifier, CheckSource,
              CheckBlinkSource, MoveIdentifier, FindDestination, UpdateOwner, CheckBlink,
              InsertBlink, Fail, tables
<1>2. ASSUME NEW p \in Handlers, Arrive(p)
      PROVE  owner' = owner
  BY <1>2 DEF Arrive, Register, Unregister, Transfer, TransferToSpark, CreateBlinkAccount, tables
<1> QED
  BY <1>1, <1>2 DEF Next, SetMode, Prune, Tick, vars, tables

(* The consent, by the kind of the request that commits.                   *)
LEMMA Consent ==
    ASSUME IInv, NEW p \in Handlers, Commit(p), NEW n \in Names,
           owner[n] # NULL, owner'[n] # owner[n]
    PROVE  /\ Ends(p)
           /\ \/ req[p].stmt # NULL /\ req[p].stmt.signer = owner[n]
              \/ req[p].acct = owner[n] /\ n \in Usernames \ req[p].names
              \/ owner[n] \in BlinkAccounts /\ req[p].src = owner[n]
<1> SUFFICES ASSUME NEW R, R = req[p]
             PROVE  /\ Ends(p)
                    /\ \/ R.stmt # NULL /\ R.stmt.signer = owner[n]
                       \/ R.acct = owner[n] /\ n \in Usernames \ R.names
                       \/ owner[n] \in BlinkAccounts /\ R.src = owner[n]
  OBVIOUS
<1>1. R \in Request /\ Shape(R) /\ Backed(R) /\ R.pc = "commit" /\ req \in [Handlers -> Request]
  BY RequestFacts DEF Commit, At
<1>2. /\ owner'[n] = IF n \in R.set THEN R.acct ELSE IF n \in R.del THEN NULL ELSE owner[n]
      /\ req' = [req EXCEPT ![p] = Idle]
  BY DEF Commit
<1>3. Ends(p)
  <2>1. tables' # tables
    BY DEF tables
  <2> QED
    BY <1>1, <1>2, <2>1 DEF Ends, At, Idle
<1>4. n \in R.set => owner[n] \in Givers(R) /\ owner[n] # R.acct
  BY <1>1, <1>2 DEF Backed
<1>5. n \notin R.set => n \in R.del /\ owner[n] = Loser(R)
  BY <1>1, <1>2 DEF Backed
<1>6. CASE Registers(R)
  <2>1. R.src = NULL /\ R.acct \in Pubkeys /\ R.acct # NULL
        /\ R.del \subseteq Usernames \ R.names
    BY <1>6, StatementType, Constants DEF Registers, Signed
  <2> QED
    BY <1>3, <1>4, <1>5, <2>1 DEF Givers, Loser
<1>7. CASE Unregisters(R)
  <2>1. R.set = {} /\ R.acct = NULL /\ R.stmt \in Statements
    BY <1>7 DEF Unregisters, Signed
  <2> QED
    BY <1>3, <1>5, <2>1, Constants DEF Loser
<1>8. CASE Transfers(R)
  <2>1. R.stmt \in Statements /\ R.src = R.stmt.signer /\ R.src # NULL
        /\ R.acct # NULL /\ R.del \subseteq Usernames \ R.names
    BY <1>1, <1>8, StatementType, Constants DEF Transfers, Signed, Moves
  <2> QED
    BY <1>3, <1>4, <1>5, <2>1, Constants DEF Givers, Loser
<1>9. CASE Migrates(R)
  <2>1. R.src \in BlinkAccounts /\ R.src # NULL /\ R.acct # NULL
        /\ R.del \subseteq Usernames \ R.names
    BY <1>1, <1>9, Constants DEF Migrates, Moves
  <2> QED
    BY <1>3, <1>4, <1>5, <2>1 DEF Givers, Loser
<1>10. CASE Creates(R)
  <2>1. R.src = NULL /\ R.acct \notin Pubkeys /\ R.del = {}
    BY <1>10, Constants DEF Creates
  <2> QED
    BY <1>4, <1>5, <2>1 DEF Givers
<1> QED
  BY <1>1, <1>6, <1>7, <1>8, <1>9, <1>10 DEF Shape, Idle

(* No account loses an identifier but by its own statement, by a name it   *)
(* receives instead, or, being Blink's, by an internal transfer.           *)
THEOREM NothingTaken == Spec => LostByConsent
<1>1. IInv /\ [Next]_vars =>
        [\A n \in Names :
          owner[n] # NULL /\ owner'[n] # owner[n] =>
            \E p \in Handlers :
               /\ Ends(p)
               /\ \/ req[p].stmt # NULL /\ req[p].stmt.signer = owner[n]
                  \/ req[p].acct = owner[n] /\ n \in Usernames \ req[p].names
                  \/ owner[n] \in BlinkAccounts /\ req[p].src = owner[n]]_vars
  <2> SUFFICES ASSUME IInv, [Next]_vars, NEW n \in Names,
                      owner[n] # NULL, owner'[n] # owner[n]
               PROVE  \E p \in Handlers :
                         /\ Ends(p)
                         /\ \/ req[p].stmt # NULL /\ req[p].stmt.signer = owner[n]
                            \/ req[p].acct = owner[n] /\ n \in Usernames \ req[p].names
                            \/ owner[n] \in BlinkAccounts /\ req[p].src = owner[n]
    OBVIOUS
  <2>1. PICK p \in Handlers : Commit(p)
    BY OnlyCommitsChange
  <2> QED
    BY <2>1, Consent
<1> QED
  BY <1>1, Invariance, PTL DEF Spec, LostByConsent

(***************************************************************************)
(* The refinement of the serial account store.                             *)
(***************************************************************************)
LEMMA StorePrune ==
    ASSUME IInv, Prune
    PROVE  \E t \in Times : Store!DeleteExpiredSignedMessages(t)
<1>1. now \in Times /\ now \in Nat
  BY DEF IInv, Tables, Times
<1>2. \A s \in claims : ClaimExpiresAt(s) \in Nat
  BY StatementType, Constants DEF IInv, Tables, ClaimExpiresAt
<1>3. claims' = {s \in claims : ~(ClaimExpiresAt(s) < now)}
  BY <1>1, <1>2 DEF Prune
<1>4. Store!DeleteExpiredSignedMessages(now)
  BY <1>3 DEF Store!DeleteExpiredSignedMessages, Prune
<1> QED
  BY <1>1, <1>4

(* The purge may miss usernames that were given meanwhile, no more.        *)
LEMMA StoreGive ==
    ASSUME NEW k, NEW n \in Names, NEW D, D \subseteq Usernames \ {n},
           \A m \in D : owner[m] = k,
           owner' = [m \in Names |-> IF m \in {n} THEN k
                                     ELSE IF m \in D THEN NULL ELSE owner[m]]
    PROVE  \E kept \in Store!SomeKept(k, n) : Store!Give(k, n, kept)
<1> DEFINE kept == Store!Others(k, n) \ D
<1>1. D \subseteq Store!Others(k, n)
  BY DEF Store!Others, Store!UsernamesOf
<1>2. kept \in Store!SomeKept(k, n)
  BY DEF Store!SomeKept
<1>3. \A m : m \in Store!Others(k, n) \ kept <=> m \in D
  BY <1>1
<1>4. Store!Names = Names
  BY DEF Store!Names, Names
<1> HIDE DEF kept
<1>5. Store!Give(k, n, kept)
  BY <1>3, <1>4 DEF Store!Give
<1> QED
  BY <1>2, <1>5

LEMMA StoreCommit ==
    ASSUME IInv, NEW p \in Handlers, Commit(p)
    PROVE  Store!Step(Store!SomeKept)
<1> SUFFICES ASSUME NEW R, R = req[p]
             PROVE  Store!Step(Store!SomeKept)
  OBVIOUS
<1>1. R \in Request /\ Shape(R) /\ Backed(R) /\ R.pc = "commit"
  BY RequestFacts DEF Commit, At
<1>2. /\ owner' = [n \in Names |-> IF n \in R.set THEN R.acct
                                   ELSE IF n \in R.del THEN NULL ELSE owner[n]]
      /\ spark' = IF R.row THEN spark \cup ({R.acct} \cap Pubkeys) ELSE spark
      /\ blink' = IF R.row THEN blink \cup ({R.acct} \cap BlinkAccounts) ELSE blink
      /\ claims' = IF R.spent THEN claims \cup {R.stmt} ELSE claims
  BY DEF Commit
<1>3. R.set # {} => R.row \/ R.acct \in spark
  BY <1>1 DEF Backed
<1>4. R.set # {} /\ R.acct \in Pubkeys => spark' = spark \cup {R.acct} /\ blink' = blink
  BY <1>2, <1>3, Constants
<1>5. \A n \in Names : owner[n] \in Pubkeys => owner[n] \in spark
  BY Constants DEF IInv, Tables
<1>6. \A n \in Names : owner[n] \in BlinkAccounts => owner[n] \in blink
  BY Constants DEF IInv, Tables
<1>7. R.spent => Store!InsertClaim(R.stmt)
  BY <1>1, <1>2 DEF Backed, Store!InsertClaim
<1>8. ASSUME NEW n \in Names, R.set = {n}, R.acct \in Pubkeys, R.del \subseteq Usernames \ {n}
      PROVE  \E kept \in Store!SomeKept(R.acct, n) : Store!Give(R.acct, n, kept)
  <2>1. \A m \in R.del : owner[m] = R.acct
    BY <1>1, <1>8, Constants DEF Backed, Loser
  <2> QED
    BY <1>2, <1>8, <2>1, StoreGive
<1>9. CASE Registers(R)
  <2>1. PICK n \in Usernames, k \in Pubkeys, c \in Statements :
          n = R.stmt.name /\ k = R.acct /\ c = R.stmt
    BY <1>9, StatementType DEF Registers, Signed
  <2>2. /\ R.set = {n} /\ R.src = NULL /\ R.spent /\ R.del \subseteq Usernames \ {n}
        /\ n \in Names
    BY <1>1, <1>9, <2>1 DEF Registers, Signed, Names
  <2>3. PICK kept \in Store!SomeKept(k, n) : Store!Give(k, n, kept)
    BY <1>8, <2>1, <2>2
  <2>4. Store!Resolve(n) \in {k, NULL}
    BY <1>1, <2>1, <2>2 DEF Backed, Givers, Store!Resolve
  <2>5. Store!UpsertSparkRegistration(k, n, c, kept)
    BY <1>4, <1>7, <2>1, <2>2, <2>3, <2>4 DEF Store!UpsertSparkRegistration
  <2> QED
    BY <2>1, <2>3, <2>5 DEF Store!Step
<1>10. CASE Unregisters(R)
  <2>1. PICK n \in Usernames, k \in Pubkeys, c \in Statements :
          n = R.stmt.name /\ k = R.stmt.signer /\ c = R.stmt
    BY <1>10, StatementType DEF Unregisters, Signed
  <2>2. /\ R.set = {} /\ R.del = {n} /\ R.acct = NULL /\ R.spent /\ ~R.row /\ n \in Names
    BY <1>1, <1>10, <2>1 DEF Unregisters, Signed, Names
  <2>3. owner[n] = k /\ k \in spark
    BY <1>1, <1>5, <2>1, <2>2 DEF Backed, Loser
  <2>4. owner' = [owner EXCEPT ![n] = NULL]
    BY <1>2, <2>2 DEF IInv, Tables
  <2>5. Store!DeleteSparkRegistration(k, n, c)
    BY <1>2, <1>7, <2>1, <2>2, <2>3, <2>4 DEF Store!DeleteSparkRegistration
  <2> QED
    BY <2>1, <2>5 DEF Store!Step
<1>11. CASE Transfers(R)
  <2>1. PICK n \in Names, k \in Pubkeys, c \in Statements, source \in Pubkeys :
          n = R.stmt.name /\ k = R.acct /\ c = R.stmt /\ source = R.stmt.signer
    BY <1>11, StatementType DEF Transfers, Signed
  <2>2. /\ R.set = {n} /\ R.src = source /\ R.spent /\ R.del \subseteq Usernames \ {n}
    BY <1>1, <1>11, <2>1 DEF Transfers, Signed, Moves
  <2>3. PICK kept \in Store!SomeKept(k, n) : Store!Give(k, n, kept)
    BY <1>8, <2>1, <2>2
  <2>4. owner[n] = source /\ source \in spark
    BY <1>1, <1>5, <2>1, <2>2, Constants DEF Backed, Givers
  <2>5. Store!TransferIdentifier(source, n, k, c, kept)
    BY <1>4, <1>7, <2>1, <2>2, <2>3, <2>4 DEF Store!TransferIdentifier
  <2> QED
    BY <2>1, <2>3, <2>5 DEF Store!Step, Store!Names, Names
<1>12. CASE Migrates(R)
  <2>1. PICK n \in Names, k \in Pubkeys, source \in BlinkAccounts :
          R.names = {n} /\ k = R.acct /\ source = R.src
    BY <1>1, <1>12 DEF Migrates
  <2>2. /\ R.set = {n} /\ ~R.spent /\ R.del \subseteq Usernames \ {n}
    BY <1>1, <1>12, <2>1 DEF Migrates, Moves
  <2>3. PICK kept \in Store!SomeKept(k, n) : Store!Give(k, n, kept)
    BY <1>8, <2>1, <2>2
  <2>4. owner[n] = source /\ source \in blink
    BY <1>1, <1>6, <2>1, <2>2, Constants DEF Backed, Givers
  <2>5. Store!TransferBlinkIdentifierToSpark(source, n, k, kept)
    BY <1>2, <1>4, <2>1, <2>2, <2>3, <2>4 DEF Store!TransferBlinkIdentifierToSpark
  <2> QED
    BY <2>1, <2>3, <2>5 DEF Store!Step, Store!Names, Names
<1>13. CASE Creates(R)
  <2>1. PICK b \in BlinkAccounts, names \in SUBSET Names : b = R.acct /\ names = R.names
    BY <1>1, <1>13 DEF Creates, Request
  <2>2. R.set = names /\ R.del = {} /\ R.row /\ ~R.spent /\ R.src = NULL
    BY <1>1, <1>13, <2>1 DEF Creates
  <2>3. b \notin blink /\ \A n \in names : owner[n] = NULL
    BY <1>1, <2>1, <2>2, Constants DEF Backed, Givers
  <2>4. spark' = spark /\ blink' = blink \cup {b} /\ claims' = claims
    BY <1>2, <2>1, <2>2, Constants
  <2>5. owner' = [n \in Store!Names |-> IF n \in names THEN b ELSE owner[n]]
    BY <1>2, <2>1, <2>2 DEF Store!Names, Names
  <2>6. Store!CreateBlinkAccount(b, names)
    BY <2>3, <2>4, <2>5 DEF Store!CreateBlinkAccount
  <2> QED
    BY <2>1, <2>6 DEF Store!Step, Store!Names, Names
<1> QED
  BY <1>1, <1>9, <1>10, <1>11, <1>12, <1>13 DEF Shape, Idle

(* Every transaction of the Postgres adapter, run statement by statement   *)
(* at READ COMMITTED, has the outcome of one method of the serial store in *)
(* the state in which it commits, but for usernames its purge may miss.    *)
THEOREM RegistryImplementsStore == Spec => ImplementsStore
<1>1. Init => Store!Init
  BY DEF Init, Store!Init, Store!Names, Names
<1>2. IInv /\ [Next]_vars => [Store!Step(Store!SomeKept)]_(Store!store)
  <2> SUFFICES ASSUME IInv, [Next]_vars
               PROVE  [Store!Step(Store!SomeKept)]_(Store!store)
    OBVIOUS
  <2>1. ASSUME NEW p \in Handlers, Commit(p)
        PROVE  Store!Step(Store!SomeKept)
    BY <2>1, StoreCommit
  <2>2. ASSUME NEW p \in Handlers, Arrive(p) \/ Step(p), ~Commit(p)
        PROVE  UNCHANGED Store!store
    <3>1. UNCHANGED tables
      BY <2>2 DEF Step, ReadMode, ReadSource, ReadBlinkSource, InsertClaim, FindAccount,
                  CheckOwner, Purge, UpsertAccount, InsertIdentifier, DeleteIdentifier,
                  CheckSource, CheckBlinkSource, MoveIdentifier, FindDestination, UpdateOwner,
                  CheckBlink, InsertBlink, Fail, Arrive, Register, Unregister, Transfer,
                  TransferToSpark, CreateBlinkAccount
    <3> QED
      BY <3>1 DEF tables, Store!store
  <2>3. ASSUME NEW k \in Typed, SetMode(k)
        PROVE  [Store!Step(Store!SomeKept)]_(Store!store)
    <3>1. CASE k \in spark
      BY <2>3, <3>1 DEF SetMode, Store!store
    <3>2. CASE k \notin spark
      <4>1. Store!EnsureSparkAccount(k) /\ k \in Pubkeys
        BY <2>3, <3>2, TrafficAssumption DEF SetMode, Store!EnsureSparkAccount
      <4> QED
        BY <4>1 DEF Store!Step
    <3> QED
      BY <3>1, <3>2
  <2>4. ASSUME Prune
        PROVE  Store!Step(Store!SomeKept)
    BY <2>4, StorePrune DEF Store!Step
  <2>5. CASE Tick \/ UNCHANGED vars
    BY <2>5 DEF Tick, vars, tables, Store!store
  <2> QED
    BY <2>1, <2>2, <2>3, <2>4, <2>5 DEF Next
<1> QED
  BY <1>1, <1>2, Invariance, PTL DEF Spec, ImplementsStore, Store!WeakSpec
=============================================================================
