--------------------------- MODULE MCWebhookQueue ---------------------------
(* Instances of WebhookQueue for TLC: i1 and i2 are deliveries of d1, i3   *)
(* is one of d2.  Servers are interchangeable.                            *)
EXTENDS WebhookQueue, TLC

CONSTANTS i1, i2, i3, d1, d2

MCDomainOf == [i \in Ids |-> IF i = i3 THEN d2 ELSE d1]
(* 30 s * 1.5^n, in minutes begun: 1, 1, 2, 2, 3, 4, 6, ...                *)
MCRetryDelay == [n \in 0 .. MaxRetries |-> (3^n) \div (2^(n + 1)) + 1]
Symmetry == Permutations(Servers)
=============================================================================
