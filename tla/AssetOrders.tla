---------------------------- MODULE AssetOrders ----------------------------
(***************************************************************************)
(* What Nemesis promises a studio that asks it to mint and burn assets,    *)
(* without a word about jobs, batches, hashes or receipts: an order is     *)
(* carried out by the chain at most once and never taken back; only then   *)
(* does it have an effect, and only with its effect is it done.  A mint    *)
(* gives its token to one asset of the player it was ordered for, which    *)
(* had none; an asset is burnt by the one order that names it.             *)
(***************************************************************************)
EXTENDS Naturals, Sequences

CONSTANTS Users, Collections

VARIABLES
    order,     \* order[i]: what was asked for, for whom; a burn names its asset
    stage,     \* stage[i]: how far order i has come
    item,      \* item[a]: an asset, its player and the mint it got its token from
    gone       \* the assets that are burnt

orderVars == <<order, stage, item, gone>>

Init ==
    /\ order = <<>>
    /\ stage = <<>>
    /\ item = <<>>
    /\ gone = {}

Ask(kind, u, c, named) ==
    /\ order' = Append(order, [kind |-> kind, player |-> u, coll |-> c, items |-> named])
    /\ stage' = Append(stage, "asked")
    /\ UNCHANGED <<item, gone>>

(* An asset is burnt on demand, once, when it has its token.                *)
AskBurn(a) ==
    /\ item[a].mints # {}
    /\ a \notin gone
    /\ \A i \in DOMAIN order : a \notin order[i].items
    /\ Ask("BurnAsset", item[a].player, item[a].coll, {a})

Create(u, c) ==
    /\ item' = Append(item, [player |-> u, coll |-> c, mints |-> {}])
    /\ UNCHANGED <<order, stage, gone>>

Reassign(a, u) ==
    /\ item' = [item EXCEPT ![a].player = u]
    /\ UNCHANGED <<order, stage, gone>>

(* Orders are carried out, become final and are completed together: S is    *)
(* a batch.                                                                 *)
Move(S, from, to) ==
    /\ \A i \in S : stage[i] = from
    /\ stage' = [i \in DOMAIN stage |-> IF i \in S THEN to ELSE stage[i]]
    /\ UNCHANGED <<order, item, gone>>

CarryOut(S) == Move(S, "asked", "carried")
Settle(S) == Move(S, "carried", "final")

Give(i, a) ==
    /\ order[i].kind = "MintAsset" /\ stage[i] = "final"
    /\ \A b \in DOMAIN item : i \notin item[b].mints
    /\ item[a].mints = {}
    /\ item[a].player = order[i].player /\ item[a].coll = order[i].coll
    /\ item' = [item EXCEPT ![a].mints = {i}]
    /\ UNCHANGED <<order, stage, gone>>

Burn(i) ==
    /\ order[i].kind = "BurnAsset" /\ stage[i] = "final"
    /\ gone' = gone \cup order[i].items
    /\ UNCHANGED <<order, stage, item>>

HadEffect(i) ==
    \/ order[i].kind = "MintAsset" /\ \E a \in DOMAIN item : i \in item[a].mints
    \/ order[i].kind = "BurnAsset" /\ order[i].items \subseteq gone

Complete(S) ==
    /\ \A i \in S : HadEffect(i)
    /\ Move(S, "final", "done")

Next ==
    \/ \E u \in Users, c \in Collections :
          Create(u, c) \/ \E kind \in {"MintAsset", "MintResource"} : Ask(kind, u, c, {})
    \/ \E a \in DOMAIN item : AskBurn(a) \/ \E u \in Users : Reassign(a, u)
    \/ \E S \in SUBSET DOMAIN order : CarryOut(S) \/ Settle(S) \/ Complete(S)
    \/ \E i \in DOMAIN order : Burn(i) \/ \E a \in DOMAIN item : Give(i, a)

Spec == Init /\ [][Next]_orderVars
=============================================================================
