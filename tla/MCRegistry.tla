----------------------------- MODULE MCRegistry -----------------------------
EXTENDS Registry, TLC

CONSTANTS k1, k2, alice, bob, phone

Sign(route, signer, name, to, ts) ==
    [route |-> route, signer |-> signer, name |-> name, to |-> to, ts |-> ts]

MCStatements ==
    {Sign("register", k1, alice, NULL, 0),
     Sign("register", k1, bob, NULL, 0),
     Sign("transfer", k1, alice, k2, 0),
     Sign("unregister", k1, alice, NULL, 0)}

MCMigrations == {<<bob, k2>>, <<phone, k2>>}

(* Two names for one account.                                              *)
MCRenames ==
    {Sign("register", k1, alice, NULL, 0), Sign("register", k1, bob, NULL, 0)}

Symmetry == Permutations(Handlers)
=============================================================================
