----------------------------- MODULE MCPlayers -----------------------------
EXTENDS Players, TLC

CONSTANTS studio, g1, g2, c1, c2, r1, r2, a1, a2, coin, gem, p1, p2, noAddress, w1, w2

MCCurrenciesOf == [g \in {g1, g2} |-> IF g = g1 THEN {coin} ELSE {coin, gem}]

(* Two events of one transaction, and one of another, to two wallets.       *)
Event(tx, w, n) == [tx |-> tx, wallet |-> w, contract |-> p1, token |-> 1, amount |-> n]
MCDeposits == {Event(1, w1, 1), Event(1, w1, 2), Event(2, w2, 1)}

User(g, w, n) ==
    [studio |-> studio, wallet |-> w,
     balances |-> [k \in {coin, gem} |-> IF k \in MCCurrenciesOf[g] THEN n ELSE -1]]

Empty ==
    [studios |-> {}, games |-> <<>>, collections |-> <<>>, resources |-> <<>>, accounts |-> {},
     users |-> [a \in {a1, a2} |-> NoUser], kinds |-> {"catalog", "signup"}]

Stocked(ua, ub, ks) ==
    [studios |-> {studio},
     games |-> [g \in {g1, g2} |-> [studio |-> studio, contract |-> IF g = g1 THEN p1 ELSE p2]],
     collections |-> [c \in {c1} |-> [game |-> g1, contract |-> p1]],
     resources |-> [r \in {r1} |-> [collection |-> c1, token |-> 1]],
     accounts |-> {a1, a2},
     users |-> (a1 :> ua @@ a2 :> ub),
     kinds |-> ks]

MCStarts ==
    {Empty,
     [Stocked(NoUser, NoUser, {"signup", "increment"}) EXCEPT !.accounts = {}],
     Stocked(User(g1, NoWallet, 1), User(g2, NoWallet, 1), {"increment", "decrement", "link"}),
     Stocked(User(g1, w1, 0), User(g2, NoWallet, 0), {"mint", "spend", "deposit", "link"})}

Symmetry == Permutations(Requests) \cup Permutations(Jobs)
=============================================================================
