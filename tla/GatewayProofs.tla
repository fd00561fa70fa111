---------------------------- MODULE GatewayProofs ----------------------------
(***************************************************************************)
(* One secret for all servers, and no token of a key withdrawn before a    *)
(* server started, for any number of servers, restarts, domains, keys and  *)
(* certificates.                                                           *)
(***************************************************************************)
EXTENDS Gateway, TLAPS

Secrets == Servers \X Nat
Lists == {<<d>> : d \in SUBSET Domains}

Memory == [pc: {"down", "add", "jwks", "crl", "insert", "select", "serving"},
           todo: SUBSET Domains, allowed: SUBSET Domains, latest: Lists \cup {NULL},
           keys: (SUBSET Keys) \cup {NULL}, crl: SUBSET Serials,
           before: SUBSET (Keys \cup Serials), secret: Secrets \cup {NULL},
           register: BOOLEAN]

Types ==
    /\ table \subseteq Domains /\ withdrawn \subseteq Keys \cup Serials
    /\ setting \in Secrets \cup {NULL} /\ registered \subseteq Secrets
    /\ server \in [Servers -> Memory]
    /\ boots \in [Servers -> Nat]

(* A secret that a server or the SSP has is the stored one, and the server *)
(* that is about to read it finds it stored.                               *)
SecretOK(m) ==
    /\ m.pc = "select" => setting # NULL
    /\ m.secret # NULL => m.secret = setting
    /\ m.register => m.secret # NULL

(* What was withdrawn when a server loaded its keys is not among them.     *)
ListsOK(m) ==
    m.pc \in {"crl", "insert", "select", "serving"} =>
        (m.keys # NULL => m.keys \cap m.before = {})

IInv ==
    /\ Types
    /\ \A s \in Servers : SecretOK(server[s]) /\ ListsOK(server[s])
    /\ \A secret \in registered : secret = setting

(* What the world does to a server that does nothing: the stored secret is *)
(* written once.                                                           *)
World ==
    /\ setting' = setting \/ (setting = NULL /\ setting' \in Secrets)
    /\ withdrawn' \subseteq Keys \cup Serials
    /\ table' \subseteq Domains
    /\ boots' \in [Servers -> Nat]

LEMMA StillOK ==
    ASSUME World, NEW m \in Memory, SecretOK(m), ListsOK(m)
    PROVE  SecretOK(m)' /\ ListsOK(m)'
<1>1. SecretOK(m)'
  BY NullAssumption DEF World, SecretOK, Secrets
<1>2. ListsOK(m)'
  BY DEF World, ListsOK
<1> QED
  BY <1>1, <1>2

(* A step of one server, which the SSP may learn of.                       *)
LEMMA ServerMoves ==
    ASSUME IInv, World, NEW s \in Servers, NEW m \in Memory,
           server' = [server EXCEPT ![s] = m], SecretOK(m)', ListsOK(m)',
           registered' = registered \/ (registered' = registered \cup {setting'} /\ setting' # NULL)
    PROVE  IInv'
<1>1. Types'
  BY NullAssumption DEF IInv, Types, World, Secrets
<1>2. ASSUME NEW t \in Servers, NEW x, x = server'[t]
      PROVE  SecretOK(x)' /\ ListsOK(x)'
  <2>1. CASE t = s
    BY <1>2, <2>1 DEF IInv, Types
  <2>2. CASE t # s
    <3>1. x = server[t] /\ x \in Memory /\ SecretOK(x) /\ ListsOK(x)
      BY <1>2, <2>2 DEF IInv, Types
    <3> QED
      BY <3>1, StillOK
  <2> QED
    BY <2>1, <2>2
<1>3. \A t \in Servers : SecretOK(server[t])' /\ ListsOK(server[t])'
  BY <1>2 DEF SecretOK, ListsOK
<1>4. \A secret \in registered' : secret = setting'
  BY NullAssumption DEF IInv, Types, World, Secrets
<1> QED
  BY <1>1, <1>3, <1>4 DEF IInv

(* A step of none.                                                         *)
LEMMA NobodyMoves ==
    ASSUME IInv, World, UNCHANGED <<server, registered>>
    PROVE  IInv'
<1>1. Types'
  BY DEF IInv, Types, World
<1>2. ASSUME NEW t \in Servers, NEW x, x = server'[t]
      PROVE  SecretOK(x)' /\ ListsOK(x)'
  BY <1>2, StillOK DEF IInv, Types
<1>3. \A t \in Servers : SecretOK(server[t])' /\ ListsOK(server[t])'
  BY <1>2 DEF SecretOK, ListsOK
<1>4. \A secret \in registered' : secret = setting'
  BY NullAssumption DEF IInv, Types, World, Secrets
<1> QED
  BY <1>1, <1>3, <1>4 DEF IInv

LEMMA DownOK ==
    ASSUME NEW todo \in SUBSET Domains, NEW m \in {Down, [Down EXCEPT !.pc = "add", !.todo = todo]}
    PROVE  m \in Memory /\ SecretOK(m)' /\ ListsOK(m)'
<1>1. Down \in Memory
  BY DEF Down, Memory
<1>2. m \in Memory
  BY <1>1 DEF Memory
<1>3. m.pc \in {"down", "add"} /\ m.secret = NULL /\ m.register = FALSE
  <2>1. CASE m = Down
    BY <2>1 DEF Down
  <2>2. CASE m = [Down EXCEPT !.pc = "add", !.todo = todo]
    BY <2>2 DEF Down
  <2> QED
    BY <2>1, <2>2
<1> QED
  BY <1>2, <1>3 DEF SecretOK, ListsOK

(* Every step of a server, from its start to its stop.                     *)
LEMMA ServerSteps ==
    ASSUME IInv, NEW s \in Servers,
           \/ Start(s) \/ StartStep(s) \/ Stop(s)
           \/ RegisterWebhook(s) \/ RefreshList(s) \/ RefreshWrite(s)
    PROVE  IInv'
<1> SUFFICES ASSUME NEW M, M = server[s]
             PROVE  IInv'
  OBVIOUS
<1>1. /\ server \in [Servers -> Memory] /\ M \in Memory
      /\ SecretOK(M) /\ ListsOK(M) /\ Types
  BY DEF IInv, Types
<1>2. UNCHANGED <<setting, withdrawn, table, boots>> => World
  BY <1>1 DEF World, Types
<1>3. CASE Start(s)
  <2> DEFINE m == [Down EXCEPT !.pc = "add", !.todo = Config[s].domains]
  <2>1. World
    BY <1>1, <1>3 DEF Start, World, Types
  <2>2. Config[s].domains \in SUBSET Domains
    BY ConfigAssumption DEF Args
  <2>3. m \in Memory /\ SecretOK(m)' /\ ListsOK(m)'
    BY <2>2, DownOK
  <2>4. server' = [server EXCEPT ![s] = m] /\ UNCHANGED registered
    BY <1>3 DEF Start, Become
  <2> HIDE DEF m
  <2> QED
    BY <2>1, <2>3, <2>4, ServerMoves
<1>4. CASE AddDomain(s)
  <2>1. PICK d \in M.todo : /\ table' = table \cup {d}
                            /\ server' = [server EXCEPT ![s].todo = @ \ {d}]
    BY <1>4 DEF AddDomain
  <2> DEFINE m == [M EXCEPT !.todo = @ \ {d}]
  <2>2. World
    BY <1>1, <1>4, <2>1 DEF AddDomain, World, Types, Memory
  <2>3. server' = [server EXCEPT ![s] = m] /\ m \in Memory
    BY <1>1, <2>1 DEF Memory
  <2>4. SecretOK(m)' /\ ListsOK(m)'
    BY <1>1, <1>4 DEF AddDomain, At, SecretOK, ListsOK, Memory
  <2> HIDE DEF m
  <2> QED
    BY <1>4, <2>2, <2>3, <2>4, ServerMoves DEF AddDomain
<1>5. CASE ListDomains(s)
  <2>1. PICK t \in SUBSET Domains : t = table
    BY <1>1 DEF Types
  <2> DEFINE m == [M EXCEPT !.pc = "jwks", !.allowed = t]
  <2>2. server' = [server EXCEPT ![s] = m] /\ m \in Memory /\ World /\ UNCHANGED registered
    BY <1>1, <1>2, <1>5, <2>1 DEF ListDomains, Memory
  <2>3. SecretOK(m)' /\ ListsOK(m)'
    BY <1>1, <1>5 DEF ListDomains, At, SecretOK, ListsOK, Memory
  <2> HIDE DEF m
  <2> QED
    BY <2>2, <2>3, ServerMoves
<1>6. CASE LoadInternalAuthState(s)
  <2>1. PICK keys \in {NULL} \cup {FromJwks} :
          server' = [server EXCEPT ![s].pc = "crl", ![s].keys = keys,
                                   ![s].before = withdrawn \cap Listed(s)]
    BY <1>6 DEF LoadInternalAuthState
  <2>2. PICK before : before = withdrawn \cap Listed(s)
    OBVIOUS
  <2> DEFINE m == [M EXCEPT !.pc = "crl", !.keys = keys, !.before = before]
  <2>3. UNCHANGED <<registered, withdrawn, setting, table, boots>>
    BY <1>6 DEF LoadInternalAuthState
  <2>4. server' = [server EXCEPT ![s] = m] /\ m \in Memory /\ World
    <3>1. keys \in (SUBSET Keys) \cup {NULL} /\ before \in SUBSET (Keys \cup Serials)
      BY <1>1, <2>1, <2>2 DEF FromJwks, Types
    <3> QED
      BY <1>1, <1>2, <2>1, <2>2, <2>3, <3>1 DEF Memory
  <2>5. SecretOK(m)'
    BY <1>1, <2>3 DEF SecretOK, Memory
  <2>6. m.keys # NULL => m.keys \cap m.before = {}
    BY <1>1, <2>1, <2>2 DEF Memory, FromJwks
  <2>7. ListsOK(m)'
    BY <2>3, <2>6 DEF ListsOK
  <2> HIDE DEF m
  <2> QED
    BY <2>3, <2>4, <2>5, <2>7, ServerMoves
<1>7. CASE FetchCrl(s)
  <2>1. PICK crl \in SUBSET Serials :
          server' = [server EXCEPT ![s].pc = "insert", ![s].crl = crl]
    BY <1>7 DEF FetchCrl
  <2> DEFINE m == [M EXCEPT !.pc = "insert", !.crl = crl]
  <2>2. UNCHANGED <<registered, withdrawn, setting, table, boots>> /\ M.pc = "crl"
    BY <1>7 DEF FetchCrl, At
  <2>3. server' = [server EXCEPT ![s] = m] /\ m \in Memory /\ World
    BY <1>1, <1>2, <2>1, <2>2 DEF Memory
  <2>4. SecretOK(m)'
    BY <1>1, <2>2 DEF SecretOK, Memory
  <2>5. ListsOK(m)'
    BY <1>1, <2>2 DEF ListsOK, Memory
  <2> HIDE DEF m
  <2> QED
    BY <2>2, <2>3, <2>4, <2>5, ServerMoves
<1>8. CASE InsertSetting(s)
  <2> DEFINE m == [M EXCEPT !.pc = "select"]
  <2>1. /\ UNCHANGED <<registered, withdrawn, table, boots>> /\ M.pc = "insert"
        /\ server' = [server EXCEPT ![s].pc = "select"]
        /\ setting' = IF setting = NULL THEN <<s, boots[s]>> ELSE setting
    BY <1>8 DEF InsertSetting, At, Goto
  <2>2. World /\ setting' # NULL
    BY <1>1, <2>1, NullAssumption DEF World, Types, Secrets
  <2>3. server' = [server EXCEPT ![s] = m] /\ m \in Memory
    BY <1>1, <2>1 DEF Memory
  <2>4. SecretOK(m)'
    BY <1>1, <2>1, <2>2, NullAssumption DEF SecretOK, Memory
  <2>5. ListsOK(m)'
    BY <1>1, <2>1 DEF ListsOK, Memory
  <2> HIDE DEF m
  <2> QED
    BY <2>1, <2>2, <2>3, <2>4, <2>5, ServerMoves
<1>9. CASE SelectSetting(s)
  <2>1. PICK secret : secret = setting
    OBVIOUS
  <2> DEFINE m == [M EXCEPT !.pc = "serving", !.secret = secret, !.register = TRUE]
  <2>2. /\ UNCHANGED <<registered, withdrawn, setting, table, boots>> /\ M.pc = "select"
        /\ server' = [server EXCEPT ![s].pc = "serving", ![s].secret = secret,
                                    ![s].register = TRUE]
    BY <1>9, <2>1 DEF SelectSetting, At, StoredSecret
  <2>3. server' = [server EXCEPT ![s] = m] /\ m \in Memory /\ World
    BY <1>1, <1>2, <2>1, <2>2 DEF Memory, Types
  <2>4. SecretOK(m)'
    BY <1>1, <2>1, <2>2 DEF SecretOK, Memory
  <2>5. ListsOK(m)'
    BY <1>1, <2>2 DEF ListsOK, Memory
  <2> HIDE DEF m
  <2> QED
    BY <2>2, <2>3, <2>4, <2>5, ServerMoves
<1>10. CASE Stop(s)
  BY <1>2, <1>10, DownOK, ServerMoves DEF Stop, Become
<1>11. CASE RegisterWebhook(s)
  <2> DEFINE m == [M EXCEPT !.register = FALSE]
  <2>1. /\ UNCHANGED <<withdrawn, setting, table, boots>> /\ M.register
        /\ server' = [server EXCEPT ![s].register = FALSE]
        /\ registered' = registered \cup {M.secret}
    BY <1>11 DEF RegisterWebhook
  <2>2. server' = [server EXCEPT ![s] = m] /\ m \in Memory /\ World
    BY <1>1, <1>2, <2>1 DEF Memory
  <2>3. M.secret = setting /\ setting # NULL
    BY <1>1, <2>1 DEF SecretOK
  <2>4. SecretOK(m)' /\ ListsOK(m)'
    BY <1>1, <2>1 DEF SecretOK, ListsOK, Memory
  <2> HIDE DEF m
  <2> QED
    BY <2>1, <2>2, <2>3, <2>4, ServerMoves
<1>12. CASE RefreshList(s)
  <2>1. PICK t \in SUBSET Domains : t = table
    BY <1>1 DEF Types
  <2> DEFINE m == [M EXCEPT !.latest = <<t>>]
  <2>2. UNCHANGED <<registered, withdrawn, setting, table, boots>>
    BY <1>12 DEF RefreshList
  <2>3. server' = [server EXCEPT ![s] = m] /\ m \in Memory /\ World
    BY <1>1, <1>2, <1>12, <2>1, <2>2 DEF RefreshList, Memory, Lists
  <2>4. SecretOK(m)' /\ ListsOK(m)'
    BY <1>1, <2>2 DEF SecretOK, ListsOK, Memory
  <2> HIDE DEF m
  <2> QED
    BY <2>2, <2>3, <2>4, ServerMoves
<1>13. CASE RefreshWrite(s)
  <2>1. M.latest \in Lists
    BY <1>1, <1>13 DEF RefreshWrite, Memory
  <2>2. M.latest[1] \in SUBSET Domains
    BY <2>1 DEF Lists
  <2> DEFINE m == [M EXCEPT !.allowed = M.latest[1], !.latest = NULL]
  <2>3. UNCHANGED <<registered, withdrawn, setting, table, boots>>
    BY <1>13 DEF RefreshWrite
  <2>4. server' = [server EXCEPT ![s] = m] /\ m \in Memory /\ World
    BY <1>1, <1>2, <1>13, <2>2, <2>3 DEF RefreshWrite, Memory
  <2>5. SecretOK(m)' /\ ListsOK(m)'
    BY <1>1, <2>3 DEF SecretOK, ListsOK, Memory
  <2> HIDE DEF m
  <2> QED
    BY <2>3, <2>4, <2>5, ServerMoves
<1> QED
  BY <1>3, <1>4, <1>5, <1>6, <1>7, <1>8, <1>9, <1>10, <1>11, <1>12, <1>13 DEF StartStep

LEMMA Initially == Init => IInv
<1> SUFFICES ASSUME Init
             PROVE  IInv
  OBVIOUS
<1>1. Down \in Memory
  BY DEF Down, Memory
<1>2. Types
  BY <1>1, ConfigAssumption DEF Init, Types
<1>3. ASSUME NEW s \in Servers
      PROVE  SecretOK(server[s]) /\ ListsOK(server[s])
  BY DEF Init, SecretOK, ListsOK, Down
<1> QED
  BY <1>2, <1>3 DEF Init, IInv

LEMMA Inductive == IInv /\ [Next]_vars => IInv'
<1> SUFFICES ASSUME IInv, [Next]_vars
             PROVE  IInv'
  OBVIOUS
<1>1. ASSUME UNCHANGED vars
      PROVE  IInv'
  BY <1>1, NobodyMoves DEF vars, World, IInv, Types
<1>2. ASSUME NEW d \in Domains, EditDomains(d)
      PROVE  IInv'
  BY <1>2, NobodyMoves DEF EditDomains, World, IInv, Types
<1>3. ASSUME NEW c \in Keys \cup Serials, Withdraw(c)
      PROVE  IInv'
  BY <1>3, NobodyMoves DEF Withdraw, World, IInv, Types
<1> QED
  BY <1>1, <1>2, <1>3, ServerSteps DEF Next, RegisterFails, RefreshFails

(* All servers use the secret that the SSP signs with, although each       *)
(* generates one of its own whenever it starts.                            *)
THEOREM OneSecret == Spec => []SecretsAgree
<1>1. IInv => SecretsAgree
  BY DEF IInv, SecretsAgree, SecretOK
<1> QED
  BY <1>1, Initially, Inductive, PTL DEF Spec

(* A server that read the JWKS after a key was withdrawn accepts no token  *)
(* of that key, however many start and stop meanwhile, nor a token that is *)
(* not sound, nor a certificate of another authority than its own.         *)
THEOREM WithdrawnIsRefused == Spec => []WithdrawnStaysOut
<1>1. ASSUME IInv, NEW s \in Servers, At(s, "serving")
      PROVE  /\ \A token \in Tokens, scope \in Scopes : InternalAuth(s, token, scope) =>
                   token.sound /\ scope \in token.scopes /\ token.key \notin server[s].before
             /\ Config[s].authority => ~Auth(s, Foreign)
  <2>1. server[s].keys # NULL => server[s].keys \cap server[s].before = {}
    BY <1>1 DEF IInv, ListsOK, At
  <2> QED
    BY <2>1, CredentialAssumption
       DEF InternalAuth, ValidateInternalToken, RequireScope, Auth
<1>2. IInv => WithdrawnStaysOut
  BY <1>1 DEF WithdrawnStaysOut
<1> QED
  BY <1>2, Initially, Inductive, PTL DEF Spec
==============================================================================
