------------------------------ MODULE Registry ------------------------------
(***************************************************************************)
(* Who holds which identifier: the accounts, their identifiers on a        *)
(* domain, and the signed statements that authorise every change.          *)
(*                                                                         *)
(* One action is one statement of a database transaction, run at READ      *)
(* COMMITTED: what a transaction has written is kept in its request until  *)
(* it commits, is not seen by others, and is locked against their writes.  *)
(* A Spark account is named by its public key, which never changes.  One   *)
(* domain is modelled; nothing here relates two of them.                   *)
(***************************************************************************)
EXTENDS Naturals

CONSTANTS
    Pubkeys,        \* Spark identity public keys
    BlinkAccounts,
    Usernames, Phones,
    Handlers,       \* concurrent requests
    Statements,     \* what has been signed
    Typed,          \* keys whose owner sets a mode
    Created,        \* sets of identifiers that Blink creates an account with
    Migrations,     \* identifiers that Blink moves, and the keys to move them to
    Slow,           \* statements whose requests may outlive their timestamp
    Window,         \* ACCEPTABLE_TIME_DIFF_SECS
    MaxTime,        \* bound on the clock
    NULL

Names == Usernames \cup Phones
Accounts == Pubkeys \cup BlinkAccounts
Times == 0 .. MaxTime

(* A signed message of the signer; to is the destination of a transfer.    *)
Statement == [route: {"register", "unregister", "transfer"}, signer: Pubkeys,
              name: Usernames, to: Pubkeys \cup {NULL}, ts: Times]

ASSUME StatementAssumption ==
    /\ Statements \subseteq Statement /\ Slow \subseteq Statements
    /\ \A s \in Statements : (s.route = "transfer") <=> (s.to # NULL)
    /\ \A s \in Statements : s.to # s.signer
ASSUME KindAssumption ==
    /\ Pubkeys \cap BlinkAccounts = {} /\ Usernames \cap Phones = {}
    /\ NULL \notin Accounts \cup Statement
ASSUME TrafficAssumption ==
    /\ Typed \subseteq Pubkeys
    /\ \A names \in Created : names \subseteq Names /\ names # {}
    /\ Migrations \subseteq Names \X Pubkeys
ASSUME TimeAssumption == Window \in Nat /\ MaxTime \in Nat

VARIABLES
    owner,      \* table account_identifiers: identifier -> its account
    spark,      \* table spark_accounts
    blink,      \* table blink_accounts
    anon,       \* Spark accounts whose stored mode is anon
    claims,     \* table used_signed_messages
    req,        \* handler -> the request it is serving
    now,
    acted       \* statement -> how often it was carried out, 2 for more

vars == <<owner, spark, blink, anon, claims, req, now, acted>>
tables == <<owner, spark, blink, claims>>

Steps == {"idle", "mode", "source", "claim", "account", "owner", "check", "dest",
          "update", "purge", "upsert", "insert", "delete", "blink", "insert_blink",
          "commit"}

(* stmt: the statement, NULL for an internal request.  names: what it is   *)
(* about.  acct: the account that is to hold names.  src: the account they *)
(* are transferred from.  fresh: the account is new.  spent, row, set, del *)
(* are what the transaction has written: its claim, its account's row, and *)
(* the identifiers given to acct and deleted.                              *)
Request == [pc: Steps, stmt: Statements \cup {NULL}, names: SUBSET Names,
            acct: Accounts \cup {NULL}, src: Accounts \cup {NULL}, fresh: BOOLEAN,
            spent: BOOLEAN, row: BOOLEAN, set: SUBSET Names, del: SUBSET Names]

Idle == [pc |-> "idle", stmt |-> NULL, names |-> {}, acct |-> NULL, src |-> NULL,
         fresh |-> FALSE, spent |-> FALSE, row |-> FALSE, set |-> {}, del |-> {}]

Init ==
    /\ owner = [n \in Names |-> NULL]
    /\ spark = {} /\ blink = {} /\ anon = {} /\ claims = {}
    /\ req = [p \in Handlers |-> Idle]
    /\ now = 0
    /\ acted = [s \in Statements |-> 0]

At(p, pc) == req[p].pc = pc
Goto(p, pc) == req' = [req EXCEPT ![p].pc = pc]
TheName(p) == CHOOSE n \in req[p].names : TRUE

(* The request is refused or fails; its transaction is rolled back.        *)
Refuse(p) == req' = [req EXCEPT ![p] = Idle]

Start(p, pc, s, names, acct) ==
    /\ At(p, "idle")
    /\ req' = [req EXCEPT ![p] = [Idle EXCEPT !.pc = pc, !.stmt = s, !.names = names,
                                              !.acct = acct]]

(* Locks that other transactions hold until they end.                      *)
NameLocked(p, n) == \E q \in Handlers \ {p} : n \in req[q].set \cup req[q].del
AccountLocked(p, a) == \E q \in Handlers \ {p} : req[q].row /\ req[q].acct = a
ClaimLocked(p, s) == \E q \in Handlers \ {p} : req[q].spent /\ req[q].stmt = s

(***************************************************************************)
(* Requests.                                                               *)
(***************************************************************************)

(* check_timestamp                                                         *)
CheckTimestamp(s) == s.ts <= now + Window /\ now <= s.ts + Window

(* Anyone may present a statement, any number of times.                    *)
Register(p, s) ==
    /\ s.route = "register" /\ CheckTimestamp(s)
    /\ Start(p, "mode", s, {s.name}, s.signer)
    /\ UNCHANGED <<tables, anon, now, acted>>

Unregister(p, s) ==
    /\ s.route = "unregister" /\ CheckTimestamp(s)
    /\ Start(p, "claim", s, {s.name}, NULL)
    /\ UNCHANGED <<tables, anon, now, acted>>

Transfer(p, s) ==
    /\ s.route = "transfer" /\ CheckTimestamp(s)
    /\ Start(p, "mode", s, {s.name}, s.to)
    /\ UNCHANGED <<tables, anon, now, acted>>

(* Blink moves one of its identifiers to a Spark account; no mode check.   *)
TransferToSpark(p, n, k) ==
    /\ Start(p, "source", NULL, {n}, k)
    /\ UNCHANGED <<tables, anon, now, acted>>

CreateBlinkAccount(p, b, names) ==
    /\ Start(p, "blink", NULL, names, b)
    /\ UNCHANGED <<tables, anon, now, acted>>

(* The mode route creates the account on first contact.                    *)
SetMode(k) ==
    /\ ~\E q \in Handlers : req[q].row /\ req[q].acct = k
    /\ spark' = spark \cup {k}
    /\ anon' \in {anon \cup {k}, anon \ {k}}
    /\ UNCHANGED <<owner, blink, claims, req, now, acted>>

(***************************************************************************)
(* Before the transaction.                                                 *)
(***************************************************************************)

(* stored_account_mode of the account that is to hold the name.            *)
ReadMode(p) ==
    /\ At(p, "mode")
    /\ IF req[p].acct \in anon THEN Refuse(p)
       ELSE Goto(p, IF req[p].stmt.route = "transfer" THEN "source" ELSE "claim")
    /\ UNCHANGED <<tables, anon, now, acted>>

(* resolve_recipient_by_identifier: the signer must hold the name.         *)
ReadSource(p) ==
    /\ At(p, "source") /\ req[p].stmt # NULL
    /\ LET a == owner[TheName(p)]
       IN IF a # req[p].stmt.signer THEN Refuse(p)
          ELSE req' = [req EXCEPT ![p].pc = "claim", ![p].src = a]
    /\ UNCHANGED <<tables, anon, now, acted>>

(* An internal request finds a Blink account instead.                      *)
ReadBlinkSource(p) ==
    /\ At(p, "source") /\ req[p].stmt = NULL
    /\ LET a == owner[TheName(p)]
       IN IF a \notin BlinkAccounts THEN Refuse(p)
          ELSE req' = [req EXCEPT ![p].pc = "check", ![p].src = a]
    /\ UNCHANGED <<tables, anon, now, acted>>

(***************************************************************************)
(* Transactions.                                                           *)
(***************************************************************************)
FirstStep(route) ==
    CASE route = "register" -> "account"
      [] route = "unregister" -> "delete"
      [] route = "transfer" -> "check"

(* Mutant of InsertClaim: outside the transaction of the write.            *)
InsertClaimAtOnce(p) ==
    /\ At(p, "claim")
    /\ IF req[p].stmt \in claims THEN Refuse(p) /\ UNCHANGED claims
       ELSE Goto(p, FirstStep(req[p].stmt.route)) /\ claims' = claims \cup {req[p].stmt}
    /\ UNCHANGED <<owner, spark, blink, anon, now, acted>>

(* Mutant of InsertClaim: does not wait for another's claim of the same.   *)
InsertClaimUnlocked(p) ==
    /\ At(p, "claim")
    /\ IF req[p].stmt \in claims THEN Refuse(p)
       ELSE req' = [req EXCEPT ![p].pc = FirstStep(req[p].stmt.route), ![p].spent = TRUE]
    /\ UNCHANGED <<tables, anon, now, acted>>

(* insert_statement_claim: waits for a transaction that claims the same.   *)
InsertClaim(p) ==
    /\ At(p, "claim") /\ ~ClaimLocked(p, req[p].stmt)
    /\ IF req[p].stmt \in claims THEN Refuse(p)
       ELSE req' = [req EXCEPT ![p].pc = FirstStep(req[p].stmt.route), ![p].spent = TRUE]
    /\ UNCHANGED <<tables, anon, now, acted>>

(* upsert_spark_registration: the account of the key, or a new one.        *)
FindAccount(p) ==
    /\ At(p, "account")
    /\ req' = [req EXCEPT ![p].pc = "owner", ![p].fresh = req[p].acct \notin spark]
    /\ UNCHANGED <<tables, anon, now, acted>>

(* The name is free or the account's own, and nobody else has created the  *)
(* key's account meanwhile.                                                *)
CheckOwner(p) ==
    /\ At(p, "owner")
    /\ LET r == req[p]
       IN IF \/ owner[TheName(p)] # NULL /\ (r.fresh \/ owner[TheName(p)] # r.acct)
             \/ r.fresh /\ r.acct \in spark
          THEN Refuse(p) ELSE Goto(p, "purge")
    /\ UNCHANGED <<tables, anon, now, acted>>

(* A new account holds nothing yet.                                        *)
OtherNames(p) ==
    {n \in Usernames : owner[n] = req[p].acct /\ ~req[p].fresh} \ req[p].names

(* DELETE FROM account_identifiers ... AND identifier <> name: rows that   *)
(* others have inserted and not committed are not seen.                    *)
Purge(p) ==
    /\ At(p, "purge")
    /\ \A n \in OtherNames(p) : ~NameLocked(p, n)
    /\ req' = [req EXCEPT ![p].pc = IF req[p].src = NULL THEN "upsert" ELSE "commit",
                          ![p].del = OtherNames(p)]
    /\ UNCHANGED <<tables, anon, now, acted>>

(* The rows of accounts and spark_accounts, locked from here on; another   *)
(* account of the same key is refused by the unique constraint.            *)
UpsertAccount(p) ==
    /\ At(p, "upsert") /\ ~AccountLocked(p, req[p].acct)
    /\ IF req[p].fresh /\ req[p].acct \in spark THEN Refuse(p)
       ELSE req' = [req EXCEPT ![p].pc = "insert", ![p].row = TRUE]
    /\ UNCHANGED <<tables, anon, now, acted>>

(* The name: the account's own is updated, another's is refused by the     *)
(* unique constraint on the domain and the identifier.                     *)
InsertIdentifier(p) ==
    /\ At(p, "insert") /\ ~NameLocked(p, TheName(p))
    /\ IF owner[TheName(p)] \notin {NULL, req[p].acct} THEN Refuse(p)
       ELSE req' = [req EXCEPT ![p].pc = "commit", ![p].set = req[p].names]
    /\ UNCHANGED <<tables, anon, now, acted>>

(* delete_spark_registration: refused unless a row of the key's account    *)
(* was deleted.                                                            *)
DeleteIdentifier(p) ==
    /\ At(p, "delete")
    /\ IF owner[TheName(p)] # req[p].stmt.signer THEN Refuse(p)
       ELSE /\ ~NameLocked(p, TheName(p))
            /\ req' = [req EXCEPT ![p].pc = "commit", ![p].del = req[p].names]
    /\ UNCHANGED <<tables, anon, now, acted>>

(* transfer_identifier: the source found before the transaction still      *)
(* holds the name.                                                         *)
CheckSource(p) ==
    /\ At(p, "check") /\ req[p].stmt # NULL
    /\ IF owner[TheName(p)] # req[p].src THEN Refuse(p) ELSE Goto(p, "dest")
    /\ UNCHANGED <<tables, anon, now, acted>>

(* transfer_blink_identifier_to_spark: so it does, and it is of Blink.     *)
CheckBlinkSource(p) ==
    /\ At(p, "check") /\ req[p].stmt = NULL
    /\ IF owner[TheName(p)] # req[p].src \/ req[p].src \notin blink
       THEN Refuse(p) ELSE Goto(p, "dest")
    /\ UNCHANGED <<tables, anon, now, acted>>

(* Mutant of FindDestination: a missing account is not created.            *)
FindDestinationOnly(p) ==
    /\ At(p, "dest")
    /\ Goto(p, "update")
    /\ UNCHANGED <<tables, anon, now, acted>>

(* The destination's account, created and locked if there is none.         *)
FindDestination(p) ==
    /\ At(p, "dest")
    /\ req[p].acct \in spark \/ ~AccountLocked(p, req[p].acct)
    /\ req' = [req EXCEPT ![p].pc = "update", ![p].row = req[p].acct \notin spark]
    /\ UNCHANGED <<tables, anon, now, acted>>

(* Mutant of UpdateOwner: without AND account_id = source.                 *)
UpdateOwnerUnguarded(p) ==
    /\ At(p, "update")
    /\ ~NameLocked(p, TheName(p))
    /\ IF owner[TheName(p)] = NULL THEN Refuse(p)
       ELSE req' = [req EXCEPT ![p].pc = "purge", ![p].set = req[p].names]
    /\ UNCHANGED <<tables, anon, now, acted>>

(* UPDATE account_identifiers ... AND account_id = source                  *)
UpdateOwner(p) ==
    /\ At(p, "update")
    /\ IF owner[TheName(p)] # req[p].src THEN Refuse(p)
       ELSE /\ ~NameLocked(p, TheName(p))
            /\ req' = [req EXCEPT ![p].pc = "purge", ![p].set = req[p].names]
    /\ UNCHANGED <<tables, anon, now, acted>>

(* What transfer_blink_identifier_to_spark does once the source is         *)
(* checked, word for word as transfer_identifier; Purge follows.           *)
MoveIdentifier(p) == FindDestination(p) \/ UpdateOwner(p)

(* create_blink_account: neither the account nor an identifier exists.     *)
CheckBlink(p) ==
    /\ At(p, "blink")
    /\ IF req[p].acct \in blink \/ \E n \in req[p].names : owner[n] # NULL
       THEN Refuse(p) ELSE Goto(p, "insert_blink")
    /\ UNCHANGED <<tables, anon, now, acted>>

(* Its rows: what was created since the checks violates a constraint.      *)
InsertBlink(p) ==
    /\ At(p, "insert_blink") /\ ~AccountLocked(p, req[p].acct)
    /\ \A n \in req[p].names : ~NameLocked(p, n)
    /\ IF req[p].acct \in blink \/ \E n \in req[p].names : owner[n] # NULL
       THEN Refuse(p)
       ELSE req' = [req EXCEPT ![p].pc = "commit", ![p].row = TRUE, ![p].set = req[p].names]
    /\ UNCHANGED <<tables, anon, now, acted>>

(* What the transaction has written becomes visible at once.               *)
Commit(p) ==
    /\ At(p, "commit")
    /\ LET r == req[p]
       IN /\ owner' = [n \in Names |-> IF n \in r.set THEN r.acct
                                       ELSE IF n \in r.del THEN NULL ELSE owner[n]]
          /\ spark' = IF r.row THEN spark \cup ({r.acct} \cap Pubkeys) ELSE spark
          /\ blink' = IF r.row THEN blink \cup ({r.acct} \cap BlinkAccounts) ELSE blink
          /\ claims' = IF r.spent THEN claims \cup {r.stmt} ELSE claims
          /\ acted' = IF r.stmt = NULL THEN acted
                      ELSE [acted EXCEPT ![r.stmt] = IF @ = 0 THEN 1 ELSE 2]
    /\ req' = [req EXCEPT ![p] = Idle]
    /\ UNCHANGED <<anon, now>>

(* A statement fails, the server stops, or the database picks the request  *)
(* as the victim of a deadlock between row locks.                          *)
Fail(p) ==
    /\ ~At(p, "idle")
    /\ Refuse(p)
    /\ UNCHANGED <<tables, anon, now, acted>>

(***************************************************************************)
(* Time and the pruner.                                                    *)
(***************************************************************************)

(* Mutant of ClaimExpiresAt: the timestamp alone.                          *)
ClaimExpiresAtTimestamp(s) == s.ts

ClaimExpiresAt(s) == s.ts + Window

(* delete_expired_signed_messages                                          *)
Prune ==
    /\ claims' = {s \in claims : ClaimExpiresAt(s) >= now}
    /\ UNCHANGED <<owner, spark, blink, anon, req, now, acted>>

(* A request that is not slow ends within the second it was admitted in if *)
(* that is the last one of its statement.                                  *)
Tick ==
    /\ now < MaxTime
    /\ \A p \in Handlers : req[p].stmt \in Statements \ Slow => now < req[p].stmt.ts + Window
    /\ now' = now + 1
    /\ UNCHANGED <<tables, anon, req, acted>>

(***************************************************************************)
(* The specification.                                                      *)
(***************************************************************************)
Arrive(p) ==
    \/ \E s \in Statements : Register(p, s) \/ Unregister(p, s) \/ Transfer(p, s)
    \/ \E m \in Migrations : TransferToSpark(p, m[1], m[2])
    \/ \E b \in BlinkAccounts, names \in Created : CreateBlinkAccount(p, b, names)

Step(p) ==
    \/ ReadMode(p) \/ ReadSource(p) \/ ReadBlinkSource(p) \/ InsertClaim(p)
    \/ FindAccount(p) \/ CheckOwner(p) \/ Purge(p) \/ UpsertAccount(p)
    \/ InsertIdentifier(p) \/ DeleteIdentifier(p)
    \/ CheckSource(p) \/ CheckBlinkSource(p) \/ MoveIdentifier(p)
    \/ CheckBlink(p) \/ InsertBlink(p) \/ Commit(p) \/ Fail(p)

Next ==
    \/ \E p \in Handlers : Arrive(p) \/ Step(p)
    \/ \E k \in Typed : SetMode(k)
    \/ Prune \/ Tick

Spec == Init /\ [][Next]_vars

(***************************************************************************)
(* Properties.                                                             *)
(***************************************************************************)

(* Tables and requests keep their types, and an identifier belongs to an   *)
(* account that exists.                                                    *)
TypeOK ==
    /\ owner \in [Names -> spark \cup blink \cup {NULL}]
    /\ spark \subseteq Pubkeys /\ blink \subseteq BlinkAccounts
    /\ anon \subseteq spark
    /\ claims \subseteq Statements
    /\ req \in [Handlers -> Request]
    /\ now \in Times
    /\ acted \in [Statements -> 0 .. 2]

Ends(p) == At(p, "commit") /\ req'[p].pc = "idle" /\ tables' # tables

(* Nobody loses an identifier without having had a say: a Spark account    *)
(* loses one to its own statement, or another username of its own to the   *)
(* name it receives; a Blink account only to an internal transfer that     *)
(* found it as the source.  This holds although the source is looked up    *)
(* before the transaction, and whatever commits between its statements.    *)
LostByConsent ==
    [][\A n \in Names :
          owner[n] # NULL /\ owner'[n] # owner[n] =>
            \E p \in Handlers :
               /\ Ends(p)
               /\ \/ req[p].stmt # NULL /\ req[p].stmt.signer = owner[n]
                  \/ req[p].acct = owner[n] /\ n \in Usernames \ req[p].names
                  \/ owner[n] \in BlinkAccounts /\ req[p].src = owner[n]]_vars

(* A statement is carried out at most once, however often it is presented  *)
(* and whenever claims are pruned, as long as a request ends before the    *)
(* clock refuses its timestamp.                                            *)
SingleUse == \A s \in Statements \ Slow : acted[s] <= 1

(* A request that was refused or failed does not spend its statement.      *)
ClaimedWasActed == \A s \in claims : acted[s] > 0

(* Registering a name, or receiving one, replaces the former username of   *)
(* the account: it has one at a time.                                      *)
OneUsername ==
    \A k \in Pubkeys, m, n \in Usernames : owner[m] = k /\ owner[n] = k => m = n

(* Whatever commits between the statements of a transaction, its outcome   *)
(* is one that a method of the serial account store could have had in that *)
(* state: nothing is lost, claimed or created that the method would have   *)
(* refused.  The one liberty is the purge of other usernames, which may    *)
(* miss some; see OneUsername.                                             *)
Store == INSTANCE SqliteAccounts
         WITH Claims <- Statements, Expired <- LAMBDA s, t : ClaimExpiresAt(s) < t

ImplementsStore == Store!WeakSpec
=============================================================================
