----------------------------- MODULE SqliteModes -----------------------------
(***************************************************************************)
(* The mode columns of spark_accounts as the SQLite adapter writes them,   *)
(* one statement a step, with arbitrary arguments: the contract that the   *)
(* requests and background tasks of AccountMode rely on.                   *)
(***************************************************************************)
EXTENDS Naturals

CONSTANTS Pubkeys, Countries, Times, NULL

VARIABLE row    \* key -> its row, NULL if there is none

NewRow == [mode |-> NULL, source |-> NULL, ts |-> NULL, country |-> NULL]

Init == row = [k \in Pubkeys |-> NULL]

Exists(k) == row[k] # NULL

(* ensure_spark_account, or the first registration: two first contacts     *)
(* leave one row.                                                          *)
EnsureSparkAccount(k) ==
    /\ ~Exists(k)
    /\ row' = [row EXCEPT ![k] = NewRow]

(* upsert_spark_mode; country NULL for none found                          *)
UpsertSparkMode(k, mode, ts, country) ==
    /\ Exists(k) /\ (row[k].ts = NULL \/ row[k].ts < ts)
    /\ mode = "anon" => country = NULL
    /\ row' = [row EXCEPT ![k] =
                 [mode |-> mode,
                  source |-> IF row[k].mode = NULL THEN "signup" ELSE "switch",
                  ts |-> ts,
                  country |-> IF mode = "anon" \/ country # NULL
                              THEN country ELSE row[k].country]]

RefreshSparkCountryEvidence(k, country) ==
    /\ Exists(k) /\ row[k].mode = "enhanced"
    /\ row' = [row EXCEPT ![k].country = country]

SetSparkModeEnhancedIfUnset(k) ==
    /\ Exists(k) /\ row[k].mode = NULL
    /\ row' = [row EXCEPT ![k] = [mode |-> "enhanced", source |-> "migration",
                                  ts |-> row[k].ts, country |-> row[k].country]]

Next ==
    \E k \in Pubkeys :
       \/ EnsureSparkAccount(k) \/ SetSparkModeEnhancedIfUnset(k)
       \/ \E c \in Countries : RefreshSparkCountryEvidence(k, c)
       \/ \E mode \in {"enhanced", "anon"}, ts \in Times, c \in Countries \cup {NULL} :
             UpsertSparkMode(k, mode, ts, c)

Spec == Init /\ [][Next]_row

(* The anchor of an account never goes back, and a mode that an anchored   *)
(* account has changes only together with it.                              *)
AnchorGrows ==
    [][\A k \in Pubkeys : Exists(k) /\ row[k].ts # NULL =>
          \/ row'[k].ts > row[k].ts
          \/ row'[k].ts = row[k].ts /\ row'[k].mode = row[k].mode]_row
==============================================================================
