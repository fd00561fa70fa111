----------------------------- MODULE MCLnurlPay -----------------------------
(* Instances of LnurlPay for TLC: a Spark account and a Blink one, which   *)
(* exchange a username.                                                    *)
EXTENDS LnurlPay, TLC

CONSTANTS alice, bob

MCProviderOf == [a \in Accounts |-> IF a = alice THEN "spark" ELSE "blink"]
MCWalletsOf == [a \in Accounts |-> IF a = alice THEN {} ELSE Wallets]

MCSpark(d) == [account |-> alice, default |-> NULL, description |-> d]
MCBlink(w) == [account |-> bob, default |-> w, description |-> 2]

MCHoldable ==
    [n \in Names |-> IF n = "username" THEN {MCSpark(1), MCSpark(2), MCBlink("btc"), MCBlink("usd")}
                    ELSE {MCBlink("btc")}]

MCId(base, mods) == [base |-> base, canonical |-> mods = <<>>, mods |-> mods]

MCIdentifiers ==
    {MCId("username", <<>>), MCId("username", <<"btc">>), MCId("username", <<"usd">>),
     MCId("username", <<"btc", "usd">>), MCId("legacy", <<"usd">>)}

MCAsk(amount, zap, expiry) ==
    [amount |-> amount, longComment |-> FALSE, zap |-> zap, expiry |-> expiry]
MCZap(amount) == [genuine |-> TRUE, amount |-> amount]

MCAsks ==
    {MCAsk(1000, MCZap(1000), NULL), MCAsk(2000, NULL, 61), MCAsk(3000, NULL, 301),
     MCAsk(1500, NULL, NULL), MCAsk(2000, MCZap(1000), NULL)}

Symmetry == Permutations(Payers)
=============================================================================
