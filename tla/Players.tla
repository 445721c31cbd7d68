------------------------------ MODULE Players ------------------------------
(***************************************************************************)
(* The API server as players and studios use it: the catalog, the users    *)
(* and their resources, which every request and every deposit reads. A     *)
(* behaviour starts from documents that earlier requests left and with no  *)
(* request under way.                                                      *)
(***************************************************************************)
EXTENDS UserResources

CONSTANT
    Starts    \* what a behaviour starts from: documents, and the kinds of
              \* request that arrive (the bound of the instance)

Kinds == {"catalog", "signup", "increment", "decrement", "link", "mint", "spend", "deposit"}

SoundUsers(s) ==
    /\ s.users \in [Accounts -> UserDocs \cup {NoUser}]
    /\ \A a \in s.accounts : s.users[a] # NoUser
    /\ \A a \in Accounts : s.users[a] # NoUser =>
          \A k \in Currencies : s.users[a].balances[k] \in Nat \cup {NoBalance}
    /\ \A a, b \in Accounts :
          (s.users[a] # NoUser /\ s.users[b] # NoUser /\ s.users[a].wallet = s.users[b].wallet
              /\ s.users[a].wallet # NoWallet) => a = b

ASSUME StartsAssumption ==
    \A s \in Starts :
        /\ s.kinds \subseteq Kinds
        /\ s.accounts \subseteq Accounts
        /\ SoundUsers(s)

VARIABLE kinds    \* the kinds of request of this behaviour

vars == <<catalogVars, accountVars, resourceVars, kinds>>

Init ==
    /\ \E s \in Starts :
          /\ studios = s.studios
          /\ games = s.games
          /\ collections = s.collections
          /\ resources = s.resources
          /\ accounts = s.accounts
          /\ users = s.users
          /\ kinds = s.kinds
    /\ CatalogTypeOK /\ CatalogSound
    /\ AccountsInit
    /\ ResourcesInit

AccountsStep(q) ==
    \/ "signup" \in kinds /\ SignupStep(q)
    \/ "increment" \in kinds /\ Increment(q)
    \/ "decrement" \in kinds /\ Decrement(q)
    \/ "link" \in kinds /\ LinkWallet(q)
    \/ ReadUser(q)
    \/ SaveUser(q)
    \/ Spend(q)
    \/ SaveWallet(q)
    \/ Die(q)

ResourcesStep(j) ==
    \/ "mint" \in kinds /\ MintStep(j)
    \/ "spend" \in kinds /\ SpendStep(j)
    \/ "deposit" \in kinds /\ DepositStep(j)

Next ==
    \/ "catalog" \in kinds /\ CatalogNext /\ UNCHANGED <<accountVars, resourceVars, kinds>>
    \/ \E q \in Requests :
          AccountsStep(q) /\ UNCHANGED <<catalogVars, resourceVars, kinds>>
    \/ \E j \in Jobs :
          ResourcesStep(j) /\ UNCHANGED <<catalogVars, accountVars, kinds>>

Spec == Init /\ [][Next]_vars

(* Documents, requests and jobs stay in their types.                        *)
TypeOK == CatalogTypeOK /\ AccountsTypeOK /\ ResourcesTypeOK
=============================================================================
