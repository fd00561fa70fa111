--------------------------- MODULE SqliteAccounts ---------------------------
(***************************************************************************)
(* The account tables as the SQLite adapter keeps them: one writer at a    *)
(* time, so that every method is one step that succeeds or leaves nothing  *)
(* behind (a transaction that finds the database busy fails as a whole).   *)
(*                                                                         *)
(* It is also the contract of the Postgres adapter, whose methods are many *)
(* interleaved steps in Registry: WeakSpec is what that one implements,    *)
(* where other usernames of an account may survive a registration; in Spec *)
(* none does.  Callers and their arguments are arbitrary, but a caller     *)
(* presents the claim of a statement, as every route does.                 *)
(***************************************************************************)
CONSTANTS
    Pubkeys, BlinkAccounts, Usernames, Phones,
    Claims,         \* hashes of signed statements
    Expired(_, _),  \* the claim has expired at this time
    Times,
    NULL

VARIABLES owner, spark, blink, claims

store == <<owner, spark, blink, claims>>

Names == Usernames \cup Phones

Init ==
    /\ owner = [n \in Names |-> NULL]
    /\ spark = {} /\ blink = {} /\ claims = {}

(* insert_statement_claim, first statement of its transaction              *)
InsertClaim(c) == c \notin claims /\ claims' = claims \cup {c}

(* resolve_recipient_by_identifier                                         *)
Resolve(n) == owner[n]

(* get_spark_username_by_pubkey: some username of the key's account        *)
UsernamesOf(k) == {n \in Usernames : owner[n] = k}

(* DELETE ... AND identifier_kind = 'username' AND identifier <> n         *)
Others(k, n) == UsernamesOf(k) \ {n}

(* The account k now holds n, and of its other usernames only kept.        *)
Give(k, n, kept) ==
    owner' = [m \in Names |-> IF m = n THEN k
                              ELSE IF m \in Others(k, n) \ kept THEN NULL ELSE owner[m]]

(* ensure_spark_account: the mode route's first contact                    *)
EnsureSparkAccount(k) ==
    /\ k \notin spark
    /\ spark' = spark \cup {k}
    /\ UNCHANGED <<owner, blink, claims>>

UpsertSparkRegistration(k, n, c, kept) ==
    /\ InsertClaim(c)
    /\ Resolve(n) \in {k, NULL}
    /\ Give(k, n, kept)
    /\ spark' = spark \cup {k}
    /\ UNCHANGED blink

DeleteSparkRegistration(k, n, c) ==
    /\ InsertClaim(c)
    /\ k \in spark /\ owner[n] = k
    /\ owner' = [owner EXCEPT ![n] = NULL]
    /\ UNCHANGED <<spark, blink>>

(* The source is the account that was found before the transaction.        *)
TransferIdentifier(source, n, k, c, kept) ==
    /\ InsertClaim(c)
    /\ owner[n] = source /\ source \in spark
    /\ Give(k, n, kept)
    /\ spark' = spark \cup {k}
    /\ UNCHANGED blink

TransferBlinkIdentifierToSpark(source, n, k, kept) ==
    /\ owner[n] = source /\ source \in blink
    /\ Give(k, n, kept)
    /\ spark' = spark \cup {k}
    /\ UNCHANGED <<blink, claims>>

CreateBlinkAccount(b, names) ==
    /\ b \notin blink
    /\ \A n \in names : owner[n] = NULL
    /\ owner' = [n \in Names |-> IF n \in names THEN b ELSE owner[n]]
    /\ blink' = blink \cup {b}
    /\ UNCHANGED <<spark, claims>>

DeleteExpiredSignedMessages(t) ==
    /\ claims' = {c \in claims : ~Expired(c, t)}
    /\ UNCHANGED <<owner, spark, blink>>

(* Keeps(k, n) are the sets of other usernames that may survive.           *)
Step(Keeps(_, _)) ==
    \/ \E t \in Times : DeleteExpiredSignedMessages(t)
    \/ \E k \in Pubkeys :
          \/ EnsureSparkAccount(k)
          \/ \E n \in Usernames, c \in Claims :
                \/ \E kept \in Keeps(k, n) : UpsertSparkRegistration(k, n, c, kept)
                \/ DeleteSparkRegistration(k, n, c)
          \/ \E n \in Names : \E kept \in Keeps(k, n) :
                \/ \E source \in Pubkeys, c \in Claims :
                      TransferIdentifier(source, n, k, c, kept)
                \/ \E source \in BlinkAccounts :
                      TransferBlinkIdentifierToSpark(source, n, k, kept)
    \/ \E b \in BlinkAccounts, names \in SUBSET Names : CreateBlinkAccount(b, names)

NoneKept(k, n) == {{}}
SomeKept(k, n) == SUBSET Others(k, n)

Next == Step(NoneKept)
Spec == Init /\ [][Next]_store

WeakSpec == Init /\ [][Step(SomeKept)]_store

(* A Spark account has at most one username.                               *)
OneUsername ==
    \A k \in Pubkeys, m, n \in Usernames : owner[m] = k /\ owner[n] = k => m = n
=============================================================================
