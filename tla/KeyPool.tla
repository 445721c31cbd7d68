------------------------------ MODULE KeyPool ------------------------------
(***************************************************************************)
(* What a game promises about its access keys, without a word about how    *)
(* claims run: keys are added to a pool, each is given to one player for   *)
(* ever, a player is never given more than the maximum, and a claim that   *)
(* is answered is answered once, with all the keys of its player, who has  *)
(* the maximum, and no two claims with the same ones.                      *)
(***************************************************************************)
EXTENDS Naturals, FiniteSets, Sequences

CONSTANTS Users, NoUser, Claims, Maximum

VARIABLES
    owner,     \* owner[k]: the player who has key k, or NoUser
    answer     \* answer[c]: the keys claim c was answered with, or none

poolVars == <<owner, answer>>

KeysOf(u) == {k \in DOMAIN owner : owner[k] = u}

Init ==
    /\ owner = <<>>
    /\ answer = [c \in Claims |-> {}]

Add ==
    /\ owner' = Append(owner, NoUser)
    /\ UNCHANGED answer

Give(u, k) ==
    /\ owner[k] = NoUser
    /\ Cardinality(KeysOf(u)) < Maximum
    /\ owner' = [owner EXCEPT ![k] = u]
    /\ UNCHANGED answer

Answer(c, u) ==
    /\ answer[c] = {}
    /\ Cardinality(KeysOf(u)) = Maximum
    /\ \A d \in Claims : answer[d] # KeysOf(u)
    /\ answer' = [answer EXCEPT ![c] = KeysOf(u)]
    /\ UNCHANGED owner

Next ==
    \/ Add
    \/ \E u \in Users, k \in DOMAIN owner : Give(u, k)
    \/ \E c \in Claims, u \in Users : Answer(c, u)

Spec == Init /\ [][Next]_poolVars
=============================================================================
