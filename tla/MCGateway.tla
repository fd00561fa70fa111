------------------------------ MODULE MCGateway ------------------------------
(* Instances of Gateway for TLC: one server that migrates and has keys and *)
(* an authority, one that relies on the first.                             *)
EXTENDS Gateway

CONSTANTS s1, d1, d2, k1

MCConfig ==
    [s \in Servers |->
       [env |-> IF s = s1 THEN "production" ELSE "local", endpoint |-> TRUE, blink |-> TRUE,
        webhookDomain |-> TRUE, migrates |-> s = s1, domains |-> IF s = s1 THEN {d1} ELSE {},
        jwks |-> s = s1, authority |-> s = s1, crl |-> s = s1]]

MCTokens ==
    {[key |-> k1, sound |-> TRUE, scopes |-> Scopes], [key |-> k1, sound |-> FALSE, scopes |-> Scopes],
     [key |-> k1, sound |-> TRUE, scopes |-> {}]}
==============================================================================
