------------------------------- MODULE Gateway -------------------------------
(***************************************************************************)
(* Servers that share one database: how each starts, with which secret it  *)
(* registers for the SSP's webhooks, which domains it serves and whom it   *)
(* lets in.                                                                *)
(*                                                                         *)
(* A server reads lists when it starts: the domains, which it reads again  *)
(* every minute, and the keys of the internal API and the revoked client   *)
(* certificates, which it does not.  One action is one await.              *)
(***************************************************************************)
EXTENDS Naturals, FiniteSets

CONSTANTS
    Servers,
    Config,     \* server -> how it is configured
    Domains,    \* what allowed_domains may hold
    Stored,     \* what it holds if the tables exist already
    Keys,       \* keys that sign tokens of the internal API
    Serials,    \* client certificates of the configured authority
    Tokens,     \* tokens presented, [key, sound, scopes]
    Scopes,     \* what the routes of the internal API require
    Foreign,    \* a certificate of another authority
    MaxStops, MaxEdits, MaxWithdrawals,
    NULL

(* Args.  migrates: --auto-migrate.  jwks: a JWKS source, the issuer and   *)
(* the audience are configured.                                            *)
Args == [env: {"production", "staging", "local", "other"}, endpoint: BOOLEAN,
         blink: BOOLEAN, webhookDomain: BOOLEAN, migrates: BOOLEAN,
         domains: SUBSET Domains, jwks: BOOLEAN, authority: BOOLEAN, crl: BOOLEAN]

(* sound: RS256, in its time, of the issuer and for the audience.          *)
Token == [key: Keys, sound: BOOLEAN, scopes: SUBSET Scopes]

ASSUME ConfigAssumption ==
    Config \in [Servers -> Args] /\ Tokens \subseteq Token /\ Stored \subseteq Domains
ASSUME NullAssumption == NULL \notin Servers \X Nat
ASSUME BoundAssumption == {MaxStops, MaxEdits, MaxWithdrawals} \subseteq Nat
ASSUME CredentialAssumption == Keys \cap Serials = {} /\ Foreign \notin Serials

VARIABLES
    schema,     \* the migrations have been applied
    table,      \* allowed_domains
    setting,    \* the webhook_secret of the table settings
    server,     \* server -> its memory
    registered, \* secrets the SSP signs its webhooks with
    withdrawn,  \* keys no longer in the JWKS, certificates on the CRL
    boots, stops, edits

vars == <<schema, table, setting, server, registered, withdrawn,
          boots, stops, edits>>

(* todo: domains still to be added.  latest: the list a refresh has read.  *)
(* keys: the JWKS, NULL when the internal API is closed.  before: what was *)
(* withdrawn when the server came to read its lists.  register: the task   *)
(* that registers the webhook.                                             *)
Down == [pc |-> "down", todo |-> {}, allowed |-> {}, latest |-> NULL, keys |-> NULL,
         crl |-> {}, before |-> {}, secret |-> NULL, register |-> FALSE]

Init ==
    /\ schema \in BOOLEAN /\ table = IF schema THEN Stored ELSE {}
    /\ setting = NULL
    /\ server = [s \in Servers |-> Down]
    /\ registered = {} /\ withdrawn = {}
    /\ boots = [s \in Servers |-> 0] /\ stops = 0 /\ edits = 0

At(s, pc) == server[s].pc = pc
Become(s, new) == server' = [server EXCEPT ![s] = new]
Goto(s, pc) == server' = [server EXCEPT ![s].pc = pc]

(***************************************************************************)
(* main and run_server                                                     *)
(***************************************************************************)

(* resolve_runtime_config                                                  *)
ResolveRuntimeConfig(c) ==
    /\ c.env \in {"production", "staging", "local"}
    /\ c.env = "local" /\ c.blink => c.endpoint

(* build_blink_webhook_url: without a webhook domain no server starts.     *)
BuildBlinkWebhookUrl(c) == c.webhookDomain

(* A server that is configured wrongly, or finds no tables, does not start.*)
Start(s) ==
    /\ At(s, "down")
    /\ ResolveRuntimeConfig(Config[s]) /\ BuildBlinkWebhookUrl(Config[s])
    /\ schema' = (schema \/ Config[s].migrates)
    /\ schema'
    /\ boots' = [boots EXCEPT ![s] = @ + 1]
    /\ Become(s, [Down EXCEPT !.pc = "add", !.todo = Config[s].domains])
    /\ UNCHANGED <<table, setting, registered, withdrawn, stops, edits>>

(* add_domain, one configured domain after the other.                      *)
AddDomain(s) ==
    /\ At(s, "add") /\ server[s].todo # {}
    /\ \E d \in server[s].todo :
         /\ table' = table \cup {d}
         /\ server' = [server EXCEPT ![s].todo = @ \ {d}]
    /\ UNCHANGED <<schema, setting, registered, withdrawn, boots, stops, edits>>

(* domains::start                                                          *)
ListDomains(s) ==
    /\ At(s, "add") /\ server[s].todo = {}
    /\ server' = [server EXCEPT ![s].pc = "jwks", ![s].allowed = table]
    /\ UNCHANGED <<schema, table, setting, registered, withdrawn, boots, stops, edits>>

(* The credentials whose withdrawal server s would read of.                *)
Listed(s) ==
    (IF Config[s].jwks THEN Keys ELSE {}) \cup (IF Config[s].crl THEN Serials ELSE {})

(* from_jwks_json: the keys published now.                                 *)
FromJwks == Keys \ withdrawn

(* load_internal_auth_state: what goes wrong here only closes the API.     *)
LoadInternalAuthState(s) ==
    /\ At(s, "jwks")
    /\ \E keys \in {NULL} \cup (IF Config[s].jwks THEN {FromJwks} ELSE {}) :
         server' = [server EXCEPT ![s].pc = "crl", ![s].keys = keys, ![s].before = withdrawn \cap Listed(s)]
    /\ UNCHANGED <<schema, table, setting, registered, withdrawn, boots, stops, edits>>

(* The CRL is fetched once, if there is one.  Whatever body is answered is *)
(* taken apart at its commas, that of an error status as well and without  *)
(* trimming what lies between: entries of the list may be missed.          *)
FetchCrl(s) ==
    /\ At(s, "crl")
    /\ \E list \in SUBSET (Serials \cap withdrawn) :
         server' = [server EXCEPT ![s].pc = "insert",
                                  ![s].crl = IF Config[s].crl THEN list ELSE {}]
    /\ UNCHANGED <<schema, table, setting, registered, withdrawn, boots, stops, edits>>

(* get_or_create_setting: INSERT ... ON CONFLICT DO NOTHING, then SELECT.  *)
(* In Postgres the two are one statement.                                  *)
InsertSetting(s) ==
    /\ At(s, "insert")
    /\ setting' = IF setting = NULL THEN <<s, boots[s]>> ELSE setting
    /\ Goto(s, "select")
    /\ UNCHANGED <<schema, table, registered, withdrawn, boots, stops, edits>>

(* Mutant of StoredSecret: the secret generated is taken for the stored.   *)
StoredSecretOwn(s) == <<s, boots[s]>>

StoredSecret(s) == setting

(* The server starts to register its webhook, and to listen.               *)
SelectSetting(s) ==
    /\ At(s, "select")
    /\ server' = [server EXCEPT ![s].pc = "serving", ![s].secret = StoredSecret(s),
                                ![s].register = TRUE]
    /\ UNCHANGED <<schema, table, setting, registered, withdrawn, boots, stops, edits>>

(* A statement fails, nothing answers at the CRL's URL, or the server is   *)
(* stopped.                                                                *)
Stop(s) ==
    /\ ~At(s, "down") /\ stops < MaxStops
    /\ stops' = stops + 1
    /\ Become(s, Down)
    /\ UNCHANGED <<schema, table, setting, registered, withdrawn, boots, edits>>

(***************************************************************************)
(* register_webhook                                                        *)
(***************************************************************************)
RegisterWebhook(s) ==
    /\ server[s].register
    /\ registered' = registered \cup {server[s].secret}
    /\ server' = [server EXCEPT ![s].register = FALSE]
    /\ UNCHANGED <<schema, table, setting, withdrawn, boots, stops, edits>>

(* Mutant of RegisterFails: no second attempt.                             *)
RegisterFailsForGood(s) ==
    /\ server[s].register
    /\ server' = [server EXCEPT ![s].register = FALSE]
    /\ UNCHANGED <<schema, table, setting, registered, withdrawn, boots, stops, edits>>

(* Tried again after a second, then two, and at most a minute.             *)
RegisterFails(s) == server[s].register /\ UNCHANGED vars

(***************************************************************************)
(* domains::refresh_once, and the operator it follows.                     *)
(***************************************************************************)
Refreshing(s) == server[s].pc \notin {"down", "add"}

RefreshList(s) ==
    /\ Refreshing(s) /\ server[s].latest = NULL
    /\ server' = [server EXCEPT ![s].latest = <<table>>]
    /\ UNCHANGED <<schema, table, setting, registered, withdrawn, boots, stops, edits>>

(* The list as it was serves another minute.                               *)
RefreshFails(s) == Refreshing(s) /\ server[s].latest = NULL /\ UNCHANGED vars

(* Mutant of RefreshWrite: domains are added and never removed.            *)
RefreshWriteAdds(s) ==
    /\ Refreshing(s) /\ server[s].latest # NULL
    /\ server' = [server EXCEPT ![s].allowed = @ \cup server[s].latest[1], ![s].latest = NULL]
    /\ UNCHANGED <<schema, table, setting, registered, withdrawn, boots, stops, edits>>

RefreshWrite(s) ==
    /\ Refreshing(s) /\ server[s].latest # NULL
    /\ server' = [server EXCEPT ![s].allowed = server[s].latest[1], ![s].latest = NULL]
    /\ UNCHANGED <<schema, table, setting, registered, withdrawn, boots, stops, edits>>

EditDomains(d) ==
    /\ schema /\ edits < MaxEdits
    /\ edits' = edits + 1
    /\ table' = IF d \in table THEN table \ {d} ELSE table \cup {d}
    /\ UNCHANGED <<schema, setting, server, registered, withdrawn, boots, stops>>

(* sanitize_domain: an empty list allows every domain.                     *)
SanitizeDomain(allowed, d) == allowed = {} \/ d \in allowed

(***************************************************************************)
(* Who is let in.                                                          *)
(***************************************************************************)
Withdraw(c) ==
    /\ c \in (Keys \cup Serials) \ withdrawn
    /\ Cardinality(withdrawn) < MaxWithdrawals
    /\ withdrawn' = withdrawn \cup {c}
    /\ UNCHANGED <<schema, table, setting, server, registered, boots, stops, edits>>

(* Mutant of ValidateInternalToken: without keys every token is good.      *)
ValidateInternalTokenOpen(s, token) ==
    server[s].keys # NULL => token.sound /\ token.key \in server[s].keys

ValidateInternalToken(s, token) ==
    server[s].keys # NULL /\ token.sound /\ token.key \in server[s].keys

(* require_scope, in the route.                                            *)
RequireScope(token, scope) == scope \in token.scopes

(* internal_auth; a preflight request, which changes nothing, needs no     *)
(* token.                                                                  *)
InternalAuth(s, token, scope) == ValidateInternalToken(s, token) /\ RequireScope(token, scope)

(* auth: without an authority everyone is a client.                        *)
Auth(s, serial) == Config[s].authority => serial \in Serials \ server[s].crl

(***************************************************************************)
(* The specification.                                                      *)
(***************************************************************************)
StartStep(s) ==
    \/ AddDomain(s) \/ ListDomains(s) \/ LoadInternalAuthState(s) \/ FetchCrl(s)
    \/ InsertSetting(s) \/ SelectSetting(s)

Next ==
    \/ \E s \in Servers :
          \/ Start(s) \/ StartStep(s) \/ Stop(s)
          \/ RegisterWebhook(s) \/ RegisterFails(s)
          \/ RefreshList(s) \/ RefreshWrite(s) \/ RefreshFails(s)
    \/ \E d \in Domains : EditDomains(d)
    \/ \E c \in Keys \cup Serials : Withdraw(c)

Spec == Init /\ [][Next]_vars

(* A timer fires, a task is scheduled, and the SSP answers one attempt     *)
(* after the other.                                                        *)
Fairness ==
    \A s \in Servers :
        /\ WF_vars(RefreshList(s)) /\ WF_vars(RefreshWrite(s))
        /\ WF_vars(RegisterWebhook(s))

FairSpec == Spec /\ Fairness

(***************************************************************************)
(* Properties.                                                             *)
(***************************************************************************)

(* Whichever server the SSP's webhook reaches, its signature verifies:     *)
(* servers that start at once, and again after a crash, all use the secret *)
(* that is registered.                                                     *)
SecretsAgree ==
    \A s \in Servers : server[s].secret # NULL =>
        \A secret \in registered : secret = server[s].secret

(* A key that was withdrawn before a server read the JWKS signs no token   *)
(* that the server accepts, even if it could not load its keys; neither is *)
(* a token accepted that is not sound or lacks the scope, nor, where an    *)
(* authority is configured, a certificate of another one.                  *)
WithdrawnStaysOut ==
    \A s \in Servers : At(s, "serving") =>
        /\ \A token \in Tokens, scope \in Scopes : InternalAuth(s, token, scope) =>
              token.sound /\ scope \in token.scopes /\ token.key \notin server[s].before
        /\ Config[s].authority => ~Auth(s, Foreign)

(* Every server comes to serve the domains of the table, no others, and    *)
(* all of them if there are none.                                          *)
DomainsSettle ==
    <>[](\A s \in Servers, d \in Domains : At(s, "serving") =>
            SanitizeDomain(server[s].allowed, d) = SanitizeDomain(table, d))

(* A server that stays up gets its webhook registered, however often the   *)
(* SSP refused before.                                                     *)
WebhookRegistered ==
    \A s \in Servers : At(s, "serving") ~> (server[s].secret \in registered \/ At(s, "down"))
==============================================================================
