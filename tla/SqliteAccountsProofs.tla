------------------------ MODULE SqliteAccountsProofs ------------------------
(***************************************************************************)
(* What serialised transactions give the account store, for any number of  *)
(* accounts and identifiers.                                               *)
(***************************************************************************)
EXTENDS SqliteAccounts, TLAPS

(* An account is of one provider.                                          *)
Kinds == NULL \notin Pubkeys /\ Pubkeys \cap BlinkAccounts = {}

OwnerType == owner \in [Names -> Pubkeys \cup BlinkAccounts \cup {NULL}]

IInv == OwnerType /\ OneUsername

(* Giving a name and purging the others leaves the account that name only, *)
(* and takes nothing but usernames of its own from it.                     *)
LEMMA GiveKeepsIInv ==
    ASSUME Kinds, IInv, NEW k \in Pubkeys, NEW n \in Names, Give(k, n, {})
    PROVE  IInv'
<1>1. owner' = [m \in Names |-> IF m = n THEN k
                                ELSE IF m \in Others(k, n) THEN NULL ELSE owner[m]]
  BY DEF Give
<1>2. OwnerType'
  BY <1>1 DEF IInv, OwnerType
<1>3. ASSUME NEW j \in Pubkeys, NEW l \in Usernames, NEW m \in Usernames,
             owner'[l] = j, owner'[m] = j
      PROVE  l = m
  BY <1>1, <1>3 DEF Kinds, IInv, OwnerType, OneUsername, Others, UsernamesOf, Names
<1> QED
  BY <1>2, <1>3 DEF IInv, OneUsername

(* Freeing a name, or giving free ones to a Blink account, adds none to a  *)
(* Spark account.                                                          *)
LEMMA OthersKeepIInv ==
    ASSUME Kinds, IInv, NEW o \in BlinkAccounts \cup {NULL}, NEW names \in SUBSET Names,
           owner' = [n \in Names |-> IF n \in names THEN o ELSE owner[n]]
    PROVE  IInv'
<1>1. OwnerType'
  BY DEF IInv, OwnerType
<1>2. ASSUME NEW j \in Pubkeys, NEW l \in Usernames, NEW m \in Usernames,
             owner'[l] = j, owner'[m] = j
      PROVE  l = m
  BY <1>2 DEF Kinds, IInv, OneUsername, Names
<1> QED
  BY <1>1, <1>2 DEF IInv, OneUsername

(* Each method of the store keeps the invariant: one step per method.      *)
LEMMA NextKeepsIInv ==
    ASSUME Kinds, IInv, [Next]_store
    PROVE  IInv'
<1>1. CASE UNCHANGED owner
  BY <1>1 DEF IInv, OwnerType, OneUsername
<1>2. ASSUME NEW k \in Pubkeys, NEW n \in Usernames, NEW c \in Claims,
             UpsertSparkRegistration(k, n, c, {})
      PROVE  IInv'
  BY <1>2, GiveKeepsIInv DEF UpsertSparkRegistration, Names
<1>3. ASSUME NEW k \in Pubkeys, NEW n \in Usernames, NEW c \in Claims,
             DeleteSparkRegistration(k, n, c)
      PROVE  IInv'
  <2>1. owner' = [m \in Names |-> IF m \in {n} THEN NULL ELSE owner[m]]
    BY <1>3 DEF DeleteSparkRegistration, IInv, OwnerType
  <2> QED
    BY <2>1, OthersKeepIInv DEF Names
<1>4. ASSUME NEW k \in Pubkeys, NEW n \in Names, NEW source \in Pubkeys, NEW c \in Claims,
             TransferIdentifier(source, n, k, c, {})
      PROVE  IInv'
  BY <1>4, GiveKeepsIInv DEF TransferIdentifier
<1>5. ASSUME NEW k \in Pubkeys, NEW n \in Names, NEW source \in BlinkAccounts,
             TransferBlinkIdentifierToSpark(source, n, k, {})
      PROVE  IInv'
  BY <1>5, GiveKeepsIInv DEF TransferBlinkIdentifierToSpark
<1>6. ASSUME NEW b \in BlinkAccounts, NEW names \in SUBSET Names, CreateBlinkAccount(b, names)
      PROVE  IInv'
  BY <1>6, OthersKeepIInv DEF CreateBlinkAccount
<1> QED
  BY <1>1, <1>2, <1>3, <1>4, <1>5, <1>6
     DEF Next, Step, NoneKept, store, EnsureSparkAccount, DeleteExpiredSignedMessages

(* On SQLite, whose transactions are serial, an account has at most one    *)
(* username, whatever is registered, transferred, deleted and created: the *)
(* purge of upsert_spark_registration and of the transfers suffices there. *)
(* At READ COMMITTED it does not (Registry!OneUsername is violated).       *)
THEOREM SerialStoreKeepsOneUsername ==
    ASSUME Kinds
    PROVE  Spec => []OneUsername
<1>1. Init => IInv
  BY DEF Kinds, Init, IInv, OwnerType, OneUsername, Names
<1>2. IInv /\ [Next]_store => IInv'
  BY NextKeepsIInv
<1>3. IInv => OneUsername
  BY DEF IInv
<1> QED
  BY <1>1, <1>2, <1>3, PTL DEF Spec
=============================================================================
