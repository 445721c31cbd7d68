--------------------------- MODULE PlayersProofs ---------------------------
(***************************************************************************)
(* Theorems about Players: the catalog, the users, their balances and      *)
(* their wallets, for any number of games, accounts, wallets and requests, *)
(* and any faults.                                                         *)
(***************************************************************************)
EXTENDS Players, TLAPS

-----------------------------------------------------------------------------
(* The catalog.                                                             *)

(* A document of the catalog stays, with its references and its contract;   *)
(* references find their document; an address finds one.                    *)
CatalogInv == CatalogTypeOK /\ CatalogSound

CatalogKept ==
    /\ studios \subseteq studios'
    /\ DOMAIN games \subseteq DOMAIN games'
    /\ DOMAIN collections \subseteq DOMAIN collections'
    /\ \A g \in DOMAIN games : games'[g] = games[g]
    /\ \A c \in DOMAIN collections : collections'[c] = collections[c]
    /\ \A r \in DOMAIN resources :
          r \in DOMAIN resources' /\ resources'[r].collection = resources[r].collection

LEMMA CatalogStep ==
    ASSUME CatalogInv, CatalogNext
    PROVE  CatalogInv' /\ CatalogKept
  <1> USE DEF CatalogInv, CatalogKept, CatalogTypeOK, CatalogSound, GameFound, CollectionFound,
              ResourceFound
  <1>1. ASSUME NEW s \in Studios, CreateStudio(s)
        PROVE  CatalogInv' /\ CatalogKept
    BY <1>1 DEF CreateStudio
  <1>2. ASSUME NEW g \in Games, PostGame(g)
        PROVE  CatalogInv' /\ CatalogKept
    <2>1. PICK s \in Studios, a \in Addresses : ValidGame(a) /\ CreateGame(g, s, a)
      BY <1>2 DEF PostGame
    <2> DEFINE doc == [studio |-> s, contract |-> a]
    <2>2. doc \in GameDocs /\ doc.studio = s /\ doc.contract = a
      BY <2>1 DEF GameDocs, ValidGame, IsAddress
    <2>3. /\ g \notin DOMAIN games /\ s \in studios
          /\ games' = Stored(games, g, doc)
          /\ \A i \in DOMAIN games : games[i].contract # a
          /\ UNCHANGED <<studios, collections, resources>>
      BY <2>1 DEF CreateGame, ContractFree
    <2> HIDE DEF doc
    <2>4. /\ DOMAIN games' = DOMAIN games \cup {g}
          /\ games' \in [DOMAIN games \cup {g} -> GameDocs]
          /\ games'[g] = doc
          /\ \A i \in DOMAIN games : games'[i] = games[i]
      <3>1. games \in [DOMAIN games -> GameDocs]
        OBVIOUS
      <3>2. /\ DOMAIN Stored(games, g, doc) = DOMAIN games \cup {g}
            /\ Stored(games, g, doc) \in [DOMAIN games \cup {g} -> GameDocs]
            /\ Stored(games, g, doc)[g] = doc
            /\ \A k \in DOMAIN games : k # g => Stored(games, g, doc)[k] = games[k]
        BY <2>2, <3>1 DEF Stored
      <3> QED
        BY <2>3, <3>2
    <2> QED
      BY <2>2, <2>3, <2>4
  <1>3. ASSUME NEW c \in Collections, CreateCollection(c)
        PROVE  CatalogInv' /\ CatalogKept
    <2>1. PICK g \in Games, a \in Addresses : ValidCollection(g, a) /\ StoreCollection(c, g, a)
      BY <1>3 DEF CreateCollection
    <2> DEFINE doc == [game |-> g, contract |-> a]
    <2>2. doc \in CollectionDocs /\ doc.game = g /\ doc.contract = a /\ g \in DOMAIN games
      BY <2>1 DEF CollectionDocs, ValidCollection, IsAddress
    <2>3. /\ c \notin DOMAIN collections
          /\ collections' = Stored(collections, c, doc)
          /\ \A i \in DOMAIN collections : collections[i].contract # a
          /\ UNCHANGED <<studios, games, resources>>
      BY <2>1 DEF StoreCollection, ContractFree
    <2> HIDE DEF doc
    <2>4. /\ DOMAIN collections' = DOMAIN collections \cup {c}
          /\ collections' \in [DOMAIN collections \cup {c} -> CollectionDocs]
          /\ collections'[c] = doc
          /\ \A i \in DOMAIN collections : collections'[i] = collections[i]
      <3>1. collections \in [DOMAIN collections -> CollectionDocs]
        OBVIOUS
      <3>2. /\ DOMAIN Stored(collections, c, doc) = DOMAIN collections \cup {c}
            /\ Stored(collections, c, doc) \in [DOMAIN collections \cup {c} -> CollectionDocs]
            /\ Stored(collections, c, doc)[c] = doc
            /\ \A k \in DOMAIN collections : k # c => Stored(collections, c, doc)[k] = collections[k]
        BY <2>2, <3>1 DEF Stored
      <3> QED
        BY <2>3, <3>2
    <2> QED
      BY <2>2, <2>3, <2>4
  <1>4. ASSUME NEW r \in Resources, PostResource(r)
        PROVE  CatalogInv' /\ CatalogKept
    <2>1. PICK g \in Games, c \in Collections : OwnsCollection(g, c) /\ CreateResource(r, c)
      BY <1>4 DEF PostResource
    <2> DEFINE doc == [collection |-> c, token |-> NoTokenId]
    <2>2. doc \in ResourceDocs /\ doc.collection = c /\ c \in DOMAIN collections
      BY <2>1 DEF ResourceDocs, OwnsCollection
    <2>3. /\ r \notin DOMAIN resources
          /\ resources' = Stored(resources, r, doc)
          /\ UNCHANGED <<studios, games, collections>>
      BY <2>1 DEF CreateResource
    <2> HIDE DEF doc
    <2>4. /\ DOMAIN resources' = DOMAIN resources \cup {r}
          /\ resources' \in [DOMAIN resources \cup {r} -> ResourceDocs]
          /\ resources'[r] = doc
          /\ \A i \in DOMAIN resources : resources'[i] = resources[i]
      <3>1. resources \in [DOMAIN resources -> ResourceDocs]
        OBVIOUS
      <3>2. /\ DOMAIN Stored(resources, r, doc) = DOMAIN resources \cup {r}
            /\ Stored(resources, r, doc) \in [DOMAIN resources \cup {r} -> ResourceDocs]
            /\ Stored(resources, r, doc)[r] = doc
            /\ \A k \in DOMAIN resources : k # r => Stored(resources, r, doc)[k] = resources[k]
        BY <2>2, <3>1 DEF Stored
      <3> QED
        BY <2>3, <3>2
    <2> QED
      BY <2>2, <2>3, <2>4
  <1>5. ASSUME NEW r \in Resources, NEW t \in ResourceTokens, SetResourceToken(r, t)
        PROVE  CatalogInv' /\ CatalogKept
    <2>1. \A old \in ResourceDocs :
             /\ [old EXCEPT !.token = t] \in ResourceDocs
             /\ [old EXCEPT !.token = t].collection = old.collection
      BY DEF ResourceDocs
    <2>2. /\ r \in DOMAIN resources
          /\ resources' = [resources EXCEPT ![r] = [resources[r] EXCEPT !.token = t]]
          /\ UNCHANGED <<studios, games, collections>>
      BY <1>5 DEF SetResourceToken
    <2>3. /\ DOMAIN resources' = DOMAIN resources
          /\ resources' \in [DOMAIN resources -> ResourceDocs]
          /\ \A i \in DOMAIN resources : resources'[i].collection = resources[i].collection
      BY <2>1, <2>2
    <2> QED
      BY <2>2, <2>3
  <1> QED
    BY <1>1, <1>2, <1>3, <1>4, <1>5 DEF CatalogNext

LEMMA CatalogInvariance == Spec => []CatalogInv
  <1>1. Init => CatalogInv
    BY DEF Init, CatalogInv
  <1>2. CatalogInv /\ [Next]_vars => CatalogInv'
    <2> SUFFICES ASSUME CatalogInv, [Next]_vars PROVE CatalogInv'
      OBVIOUS
    <2>1. CASE CatalogNext
      BY <2>1, CatalogStep
    <2>2. CASE UNCHANGED catalogVars
      BY <2>2 DEF catalogVars, CatalogInv, CatalogTypeOK, CatalogSound
    <2> QED
      BY <2>1, <2>2 DEF Next, vars
  <1> QED
    BY <1>1, <1>2, PTL DEF Spec

(* Every reference in the catalog finds its document, and a contract        *)
(* address finds one game and one collection, whatever is created.          *)
THEOREM CatalogStaysSound == Spec => []CatalogSound
  BY CatalogInvariance, PTL DEF CatalogInv

-----------------------------------------------------------------------------
(* The records of users and of requests.                                    *)

LEMMA BlankIsCall == Blank \in Calls
  <1>1. PICK a \in Accounts, g \in Games, k \in Currencies, v \in Amounts : TRUE
    BY AccountsAssumption
  <1>2. [account |-> a, game |-> g, key |-> k, value |-> v] \in Calls
    BY DEF Calls
  <1> QED
    BY <1>2 DEF Blank

LEMMA ChangedUser ==
    /\ \A u \in UserDocs, k \in Currencies, n \in Int :
          LET new == [u EXCEPT !.balances[k] = n] IN
          /\ new \in UserDocs /\ new.wallet = u.wallet
          /\ \A l \in Currencies : new.balances[l] = IF l = k THEN n ELSE u.balances[l]
    /\ \A u \in UserDocs, w \in Wallets :
          LET new == [u EXCEPT !.wallet = w] IN
          new \in UserDocs /\ new.wallet = w /\ new.balances = u.balances
    /\ \A u, info \in UserDocs :
          /\ Updated(u, info) \in UserDocs
          /\ Updated(u, info).balances = info.balances
          /\ Updated(u, info).wallet = IF info.wallet = NoWallet THEN u.wallet ELSE info.wallet
  <1>1. ASSUME NEW u \in UserDocs, NEW k \in Currencies, NEW n \in Int
        PROVE  LET new == [u EXCEPT !.balances[k] = n] IN
               /\ new \in UserDocs /\ new.wallet = u.wallet
               /\ \A l \in Currencies : new.balances[l] = IF l = k THEN n ELSE u.balances[l]
    <2>1. u.balances \in [Currencies -> Int]
      BY DEF UserDocs
    <2> DEFINE bs == [u.balances EXCEPT ![k] = n]
    <2>2. bs \in [Currencies -> Int] /\ \A l \in Currencies : bs[l] = IF l = k THEN n ELSE u.balances[l]
      BY <2>1
    <2>3. [u EXCEPT !.balances[k] = n] = [u EXCEPT !.balances = bs]
      OBVIOUS
    <2> HIDE DEF bs
    <2>4. LET new == [u EXCEPT !.balances = bs] IN
          new \in UserDocs /\ new.wallet = u.wallet /\ new.balances = bs
      BY <2>2 DEF UserDocs
    <2> QED
      BY <2>2, <2>3, <2>4
  <1>2. ASSUME NEW u \in UserDocs, NEW w \in Wallets
        PROVE  LET new == [u EXCEPT !.wallet = w] IN
               new \in UserDocs /\ new.wallet = w /\ new.balances = u.balances
    BY DEF UserDocs
  <1>3. ASSUME NEW u \in UserDocs, NEW info \in UserDocs
        PROVE  /\ Updated(u, info) \in UserDocs
               /\ Updated(u, info).balances = info.balances
               /\ Updated(u, info).wallet = IF info.wallet = NoWallet THEN u.wallet ELSE info.wallet
    BY DEF Updated, UserDocs
  <1> QED
    BY <1>1, <1>2, <1>3

LEMMA NewUserDoc ==
    ASSUME CatalogTypeOK, NEW g \in DOMAIN games
    PROVE  /\ NewUser(g) \in UserDocs /\ NewUser(g).wallet = NoWallet
           /\ \A k \in Currencies : NewUser(g).balances[k] \in {0, NoBalance}
  <1>1. games[g].studio \in Studios
    BY DEF CatalogTypeOK, GameDocs
  <1> DEFINE bs == [k \in Currencies |-> IF k \in CurrenciesOf[g] THEN 0 ELSE NoBalance]
  <1>2. bs \in [Currencies -> Int] /\ \A k \in Currencies : bs[k] \in {0, NoBalance}
    BY DEF NoBalance
  <1>3. NewUser(g) = [studio |-> games[g].studio, wallet |-> NoWallet, balances |-> bs]
    BY DEF NewUser
  <1> HIDE DEF bs
  <1> QED
    BY <1>1, <1>2, <1>3 DEF UserDocs

-----------------------------------------------------------------------------
(* What each step of a request does, for the types and what follows.        *)

(* What a request under way needs to be there: the user it will write, what *)
(* it read of it, and the game of a registration. None of them is deleted.  *)
Grounded ==
    \A q \in Requests :
        /\ stage[q] \in Writing => UserFound(call[q].account)
        /\ stage[q] \in {"saveUser", "saveWallet"} => seen[q] # NoUser
        /\ stage[q] \in {"createUser", "insertUser"} => GameFound(call[q].game)

UsersInv == CatalogTypeOK /\ AccountsTypeOK /\ Grounded

(* The request q alone moves.                                               *)
OnlyMoves(q) ==
    /\ stage' \in [Requests -> Stages] /\ call' \in [Requests -> Calls]
    /\ seen' \in [Requests -> UserDocs \cup {NoUser}] /\ balance' \in [Requests -> Int]
    /\ \A p \in Requests : p # q =>
          /\ stage'[p] = stage[p] /\ call'[p] = call[p]
          /\ seen'[p] = seen[p] /\ balance'[p] = balance[p]

(* The user of account a becomes u, and no other changes.                   *)
Becomes(a, u) ==
    /\ users' \in [Accounts -> UserDocs \cup {NoUser}]
    /\ users'[a] = u
    /\ \A b \in Accounts : b # a => users'[b] = users[b]

(* A ledger gains what the call c says.                                     *)
Gains(ledger, new, c) ==
    /\ new \in [Accounts -> [Currencies -> Nat]]
    /\ \A a \in Accounts, k \in Currencies :
          new[a][k] = ledger[a][k] + IF a = c.account /\ k = c.key THEN c.value ELSE 0

LEMMA AmountsPositive == \A v \in Amounts : v \in Nat /\ v > 0
  BY AccountsAssumption

LEMMA CallTypes ==
    ASSUME UsersInv, NEW q \in Requests
    PROVE  /\ call[q] \in Calls /\ call[q].account \in Accounts /\ call[q].game \in Games
           /\ call[q].key \in Currencies /\ call[q].value \in Amounts
           /\ call[q].value \in Nat /\ call[q].value > 0
           /\ stage[q] \in Stages /\ balance[q] \in Int
           /\ seen[q] \in UserDocs \cup {NoUser}
           /\ users[call[q].account] \in UserDocs \cup {NoUser}
  <1>1. /\ call[q] \in Calls /\ stage[q] \in Stages /\ balance[q] \in Int
        /\ seen[q] \in UserDocs \cup {NoUser}
    BY DEF UsersInv, AccountsTypeOK
  <1>2. /\ call[q].account \in Accounts /\ call[q].game \in Games
        /\ call[q].key \in Currencies /\ call[q].value \in Amounts
    BY <1>1 DEF Calls
  <1>3. call[q].value \in Nat /\ call[q].value > 0
    BY <1>2, AmountsPositive
  <1>4. users[call[q].account] \in UserDocs \cup {NoUser}
    <2>1. users \in [Accounts -> UserDocs \cup {NoUser}]
      BY DEF UsersInv, AccountsTypeOK
    <2> QED
      BY <1>2, <2>1
  <1> QED
    BY <1>1, <1>2, <1>3, <1>4

LEMMA UserTypes ==
    ASSUME NEW u \in UserDocs
    PROVE  /\ u # NoUser /\ u.wallet \in Wallets \cup {NoWallet}
           /\ u.balances \in [Currencies -> Int]
           /\ \A k \in Currencies : u.balances[k] \in Int
  BY AccountsAssumption DEF UserDocs

LEMMA GainedLedger ==
    ASSUME NEW ledger \in [Accounts -> [Currencies -> Nat]], NEW c \in Calls
    PROVE  Gains(ledger, Added(ledger, c), c)
  <1>1. c.account \in Accounts /\ c.key \in Currencies /\ c.value \in Nat
    BY AccountsAssumption DEF Calls
  <1>2. Added(ledger, c) = [ledger EXCEPT ![c.account] = [ledger[c.account] EXCEPT ![c.key] = @ + c.value]]
    BY <1>1 DEF Added
  <1> DEFINE row == [ledger[c.account] EXCEPT ![c.key] = @ + c.value]
  <1>3. row \in [Currencies -> Nat]
        /\ \A k \in Currencies : row[k] = ledger[c.account][k] + IF k = c.key THEN c.value ELSE 0
    BY <1>1
  <1> HIDE DEF row
  <1>4. Added(ledger, c) = [ledger EXCEPT ![c.account] = row]
    BY <1>2 DEF row
  <1>5. Added(ledger, c) \in [Accounts -> [Currencies -> Nat]]
    BY <1>1, <1>3, <1>4
  <1>6. ASSUME NEW a \in Accounts, NEW k \in Currencies
        PROVE  Added(ledger, c)[a][k] = ledger[a][k] + IF a = c.account /\ k = c.key THEN c.value ELSE 0
    <2>1. ledger[a] \in [Currencies -> Nat] /\ ledger[a][k] \in Nat
      OBVIOUS
    <2>2. CASE a = c.account
      BY <1>1, <1>3, <1>4, <2>1, <2>2
    <2>3. CASE a # c.account
      BY <1>4, <2>1, <2>3
    <2> QED
      BY <2>2, <2>3
  <1> QED
    BY <1>5, <1>6, Zenon DEF Gains

LEMMA FinishMoves ==
    ASSUME UsersInv, NEW q \in Requests, Finish(q)
    PROVE  OnlyMoves(q) /\ stage'[q] = "done"
  BY BlankIsCall DEF UsersInv, AccountsTypeOK, OnlyMoves, Finish, Goto, Stages

(* The steps of a request by their effect: a registration goes on ...       *)
Signs(q) ==
    /\ stage[q] \in Signing \cup {"new"} /\ stage'[q] \in Signing \cup {"dead"}
    /\ stage[q] # "new" => call'[q].account = call[q].account
    /\ stage'[q] \in {"createUser", "insertUser"} => GameFound(call'[q].game)
    /\ accounts \subseteq accounts' /\ accounts' \subseteq accounts \cup {call'[q].account}
    /\ UNCHANGED <<users, credited, debited, overlapped, faults>>

(* ... finds the user there ...                                             *)
GivesUp(q) ==
    /\ stage[q] \in Signing /\ stage'[q] = "done"
    /\ UserFound(call[q].account)
    /\ UNCHANGED <<accounts, users, credited, debited, overlapped, faults>>

(* ... or inserts one.                                                      *)
Inserts(q) ==
    /\ stage[q] \in Signing /\ stage'[q] = "done"
    /\ ~UserFound(call[q].account)
    /\ \E u \in UserDocs :
          /\ Becomes(call[q].account, u)
          /\ u.wallet = NoWallet
          /\ \A k \in Currencies : u.balances[k] \in {0, NoBalance}
    /\ UNCHANGED <<accounts, credited, debited, overlapped, faults>>

LEMMA SignupEffect ==
    ASSUME UsersInv, NEW q \in Requests, SignupStep(q)
    PROVE  OnlyMoves(q) /\ (Signs(q) \/ GivesUp(q) \/ Inserts(q))
  <1>0. /\ Blank \in Calls /\ stage \in [Requests -> Stages] /\ call \in [Requests -> Calls]
        /\ seen \in [Requests -> UserDocs \cup {NoUser}] /\ balance \in [Requests -> Int]
    BY BlankIsCall DEF UsersInv, AccountsTypeOK
  <1>1. ASSUME NEW a \in Accounts, RegisterAccount(q, a)
        PROVE  OnlyMoves(q) /\ Signs(q)
    <2>1. [Blank EXCEPT !.account = a] \in Calls /\ [Blank EXCEPT !.account = a].account = a
      BY <1>0 DEF Calls
    <2> QED
      BY <1>0, <1>1, <2>1 DEF RegisterAccount, Start, Goto, OnlyMoves, Signs, Signing, Stages
  <1>2. ASSUME NEW a \in Accounts, NEW g \in Games, PostUser(q, a, g)
        PROVE  OnlyMoves(q) /\ Signs(q)
    <2> DEFINE c == [Blank EXCEPT !.account = a, !.game = g]
    <2>1. c \in Calls /\ c.account = a /\ c.game = g
      BY <1>0 DEF Calls
    <2>2. /\ stage[q] = "new" /\ call' = [call EXCEPT ![q] = c]
          /\ stage' = [stage EXCEPT ![q] = "createUser"] /\ GameFound(g)
          /\ UNCHANGED <<accounts, users, seen, balance, credited, debited, overlapped, faults>>
      BY <1>2 DEF PostUser, Start, Goto, Authenticated
    <2> HIDE DEF c
    <2> QED
      BY <1>0, <2>1, <2>2 DEF OnlyMoves, Signs, Signing, Stages
  <1>3. CASE FindMetalCore(q)
    <2>1. UNCHANGED <<accounts, users, seen, balance, credited, debited, overlapped, faults>>
          /\ stage[q] = "findGame"
      BY <1>3 DEF FindMetalCore
    <2>2. ASSUME NEW g \in DOMAIN games,
                 call' = [call EXCEPT ![q].game = g], Goto(q, "createUser")
          PROVE  OnlyMoves(q) /\ Signs(q)
      <3> DEFINE c == [call[q] EXCEPT !.game = g]
      <3>1. g \in Games
        BY DEF UsersInv, CatalogTypeOK
      <3>2. c \in Calls /\ c.account = call[q].account /\ c.game = g
        BY <1>0, <3>1 DEF Calls
      <3>3. call' = [call EXCEPT ![q] = c]
        BY <2>2
      <3> HIDE DEF c
      <3> QED
        BY <1>0, <2>1, <2>2, <3>2, <3>3 DEF Goto, OnlyMoves, Signs, Signing, Stages, GameFound
    <2>3. CASE Goto(q, "dead") /\ UNCHANGED call
      BY <1>0, <2>1, <2>3 DEF Goto, OnlyMoves, Signs, Signing, Stages
    <2> QED
      BY <1>3, <2>2, <2>3 DEF FindMetalCore
  <1>4. CASE CheckNoUser(q)
    <2>1. CASE UserFound(call[q].account)
      BY <1>4, <2>1, FinishMoves DEF CheckNoUser, GivesUp, Signing
    <2>2. CASE ~UserFound(call[q].account)
      <3>1. GameFound(call[q].game)
        BY <1>4 DEF CheckNoUser, UsersInv, Grounded
      <3> QED
        BY <1>0, <1>4, <2>2, <3>1 DEF CheckNoUser, Goto, OnlyMoves, Signs, Signing, Stages
    <2> QED
      BY <2>1, <2>2
  <1>5. CASE InsertUser(q)
    <2> DEFINE a == call[q].account
               u == NewUser(call[q].game)
    <2>1. a \in Accounts /\ users \in [Accounts -> UserDocs \cup {NoUser}]
      BY CallTypes DEF UsersInv, AccountsTypeOK
    <2>2. u \in UserDocs /\ u.wallet = NoWallet /\ \A k \in Currencies : u.balances[k] \in {0, NoBalance}
      BY <1>5, NewUserDoc DEF InsertUser, UsersInv, Grounded, GameFound
    <2>3. /\ stage[q] = "insertUser" /\ OnlyMoves(q) /\ stage'[q] = "done"
          /\ UNCHANGED <<accounts, credited, debited, overlapped, faults>>
          /\ users' = IF ~UserFound(a) THEN [users EXCEPT ![a] = u] ELSE users
      BY <1>5, FinishMoves DEF InsertUser, Insertable, WalletTaken
    <2> HIDE DEF a, u
    <2>4. CASE UserFound(a)
      BY <2>3, <2>4 DEF GivesUp, Signing, a
    <2>5. CASE ~UserFound(a)
      <3>1. Becomes(a, u)
        BY <2>1, <2>2, <2>3, <2>5 DEF Becomes
      <3>2. Inserts(q)
        BY <2>2, <2>3, <2>5, <3>1 DEF Inserts, Signing, a
      <3> QED
        BY <2>3, <3>2
    <2> QED
      BY <2>4, <2>5
  <1> QED
    BY <1>1, <1>2, <1>3, <1>4, <1>5 DEF SignupStep

(* A request starts to write a user: what it computed from what it read.    *)
Reads(q) ==
    LET c == call'[q]
        user == users[c.account] IN
    /\ stage[q] = "new" /\ stage'[q] \in {"readUser", "spend", "saveWallet"}
    /\ UserFound(c.account)
    /\ stage'[q] \in {"readUser", "spend"} => user.balances[c.key] # NoBalance
    /\ stage'[q] = "readUser" => balance'[q] = user.balances[c.key] + c.value
    /\ stage'[q] = "spend" => balance'[q] = user.balances[c.key] - c.value
    /\ stage'[q] = "saveWallet" =>
          /\ user.wallet = NoWallet
          /\ seen'[q] \in UserDocs /\ seen'[q].balances = user.balances
    /\ overlapped \subseteq overlapped' /\ overlapped' \subseteq overlapped \cup {c.account}
    /\ \A p \in Requests : (p # q /\ stage[p] \in Writing /\ call[p].account = c.account)
          => c.account \in overlapped'
    /\ UNCHANGED <<accounts, users, credited, debited, faults>>

LEMMA NoteOverlapEffect ==
    ASSUME NEW q \in Requests, NEW a \in Accounts, NoteOverlap(q, a)
    PROVE  /\ overlapped \subseteq overlapped' /\ overlapped' \subseteq overlapped \cup {a}
           /\ \A p \in Requests : (p # q /\ stage[p] \in Writing /\ call[p].account = a)
                 => a \in overlapped'
  BY DEF NoteOverlap

LEMMA ReadEffect ==
    ASSUME UsersInv, NEW q \in Requests, Increment(q) \/ Decrement(q) \/ LinkWallet(q)
    PROVE  OnlyMoves(q) /\ Reads(q)
  <1>0. /\ Blank \in Calls /\ stage \in [Requests -> Stages] /\ call \in [Requests -> Calls]
        /\ seen \in [Requests -> UserDocs \cup {NoUser}] /\ balance \in [Requests -> Int]
        /\ users \in [Accounts -> UserDocs \cup {NoUser}]
    BY BlankIsCall DEF UsersInv, AccountsTypeOK
  <1>1. ASSUME NEW a \in Accounts, NEW k \in Currencies, NEW v \in Amounts, UserFound(a),
               NEW n \in Int, NEW s \in {"readUser", "spend"},
               users[a].balances[k] # NoBalance,
               s = "readUser" => n = users[a].balances[k] + v,
               s = "spend" => n = users[a].balances[k] - v,
               balance' = [balance EXCEPT ![q] = n],
               Start(q, [Blank EXCEPT !.account = a, !.key = k, !.value = v], s),
               NoteOverlap(q, a),
               UNCHANGED <<accounts, users, seen, credited, debited, faults>>
        PROVE  OnlyMoves(q) /\ Reads(q)
    <2> DEFINE c == [Blank EXCEPT !.account = a, !.key = k, !.value = v]
    <2>1. c \in Calls /\ c.account = a /\ c.key = k /\ c.value = v
      BY <1>0 DEF Calls
    <2>2. stage[q] = "new" /\ call' = [call EXCEPT ![q] = c] /\ stage' = [stage EXCEPT ![q] = s]
      BY <1>1 DEF Start, Goto
    <2> HIDE DEF c
    <2>3. OnlyMoves(q) /\ call'[q] = c /\ stage'[q] = s /\ balance'[q] = n
      BY <1>0, <1>1, <2>1, <2>2 DEF OnlyMoves, Stages
    <2> QED
      BY <1>1, <2>1, <2>2, <2>3, NoteOverlapEffect DEF Reads
  <1>2. ASSUME NEW a \in Accounts, NEW k \in Currencies, NEW v \in Amounts, ReadBalance(q, a, k, v)
        PROVE  OnlyMoves(q) /\ Reads(q)
    <2>1. users[a] \in UserDocs
      BY <1>0, <1>2 DEF ReadBalance, UserFound
    <2>2. users[a].balances[k] \in Int /\ v \in Int
      BY <2>1, UserTypes, AmountsPositive
    <2>3. users[a].balances[k] + v \in Int
      BY <2>2
    <2> QED
      BY <1>1, <1>2, <2>3 DEF ReadBalance
  <1>3. ASSUME NEW a \in Accounts, NEW k \in Currencies, NEW v \in Amounts, ReadToSpend(q, a, k, v)
        PROVE  OnlyMoves(q) /\ Reads(q)
    <2>1. users[a] \in UserDocs /\ UserFound(a)
      BY <1>0, <1>3 DEF ReadToSpend, UserFound
    <2>2. users[a].balances[k] \in Int /\ v \in Int /\ v > 0
      BY <2>1, UserTypes, AmountsPositive
    <2>3. CurrentBalance(a, k) = users[a].balances[k] /\ users[a].balances[k] # NoBalance
      BY <1>3, <2>2 DEF ReadToSpend, Enough, CurrentBalance
    <2>4. users[a].balances[k] - v \in Int
      BY <2>2
    <2>5. /\ balance' = [balance EXCEPT ![q] = users[a].balances[k] - v]
          /\ Start(q, [Blank EXCEPT !.account = a, !.key = k, !.value = v], "spend")
          /\ NoteOverlap(q, a)
          /\ UNCHANGED <<accounts, users, seen, credited, debited, faults>>
      BY <1>3, <2>3 DEF ReadToSpend
    <2> QED
      BY <1>1, <2>1, <2>3, <2>4, <2>5
  <1>4. ASSUME NEW a \in Accounts, NEW w \in Wallets, ReadWallet(q, a, w)
        PROVE  OnlyMoves(q) /\ Reads(q)
    <2> DEFINE c == [Blank EXCEPT !.account = a]
               u == [users[a] EXCEPT !.wallet = w]
    <2>1. c \in Calls /\ c.account = a
      BY <1>0 DEF Calls
    <2>2. users[a] \in UserDocs /\ UserFound(a) /\ users[a].wallet = NoWallet
      BY <1>0, <1>4 DEF ReadWallet, UserFound, Unlinked
    <2>3. u \in UserDocs /\ u.balances = users[a].balances
      BY <2>2 DEF UserDocs
    <2>4. /\ stage[q] = "new" /\ call' = [call EXCEPT ![q] = c]
          /\ stage' = [stage EXCEPT ![q] = "saveWallet"]
          /\ seen' = [seen EXCEPT ![q] = u] /\ NoteOverlap(q, a)
          /\ UNCHANGED <<accounts, users, balance, credited, debited, faults>>
      BY <1>4 DEF ReadWallet, Start, Goto
    <2> HIDE DEF c, u
    <2>5. OnlyMoves(q) /\ call'[q] = c /\ stage'[q] = "saveWallet" /\ seen'[q] = u
      BY <1>0, <2>1, <2>3, <2>4 DEF OnlyMoves, Stages
    <2> QED
      BY <2>1, <2>2, <2>3, <2>4, <2>5, NoteOverlapEffect DEF Reads
  <1> QED
    BY <1>2, <1>3, <1>4 DEF Increment, Decrement, LinkWallet

(* An increment reads the user again, and writes the balance it has ...     *)
ReReads(q) ==
    LET c == call[q]
        user == users[c.account] IN
    /\ stage[q] = "readUser" /\ stage'[q] = "saveUser" /\ call'[q] = c
    /\ seen'[q] \in UserDocs /\ seen'[q].wallet = user.wallet
    /\ \A k \in Currencies :
          seen'[q].balances[k] = IF k = c.key THEN balance[q] ELSE user.balances[k]
    /\ UNCHANGED <<accounts, users, credited, debited, overlapped, faults>>

(* ... in the user that it read, unless the wallet is another player's.     *)
Writes(q) ==
    LET a == call[q].account IN
    \/ WalletTaken(a, seen[q].wallet) /\ users' = users
    \/ ~WalletTaken(a, seen[q].wallet) /\ Becomes(a, Updated(users[a], seen[q]))

Saves(q) ==
    /\ stage[q] = "saveUser" /\ stage'[q] = "done"
    /\ Writes(q)
    /\ IF WalletTaken(call[q].account, seen[q].wallet) THEN credited' = credited
       ELSE Gains(credited, credited', call[q])
    /\ UNCHANGED <<accounts, debited, overlapped, faults>>

Links(q) ==
    /\ stage[q] = "saveWallet" /\ stage'[q] = "done"
    /\ Writes(q)
    /\ UNCHANGED <<accounts, credited, debited, overlapped, faults>>

(* A decrement writes the one balance.                                      *)
Spends(q) ==
    LET c == call[q]
        user == users[c.account] IN
    /\ stage[q] = "spend" /\ stage'[q] = "done"
    /\ \E u \in UserDocs :
          /\ Becomes(c.account, u) /\ u.wallet = user.wallet
          /\ \A k \in Currencies : u.balances[k] = IF k = c.key THEN balance[q] ELSE user.balances[k]
    /\ Gains(debited, debited', c)
    /\ UNCHANGED <<accounts, credited, overlapped, faults>>

Dies(q) ==
    /\ stage[q] \in Writing \cup Signing /\ stage'[q] = "dead" /\ call'[q] = call[q]
    /\ faults' \in 0 .. MaxFaults
    /\ UNCHANGED <<accounts, users, credited, debited, overlapped>>

LEMMA WriteEffect ==
    ASSUME UsersInv, NEW q \in Requests, ReadUser(q) \/ SaveUser(q) \/ Spend(q) \/ SaveWallet(q) \/ Die(q)
    PROVE  OnlyMoves(q) /\ (ReReads(q) \/ Saves(q) \/ Spends(q) \/ Links(q) \/ Dies(q))
  <1> DEFINE a == call[q].account
  <1>0. /\ stage \in [Requests -> Stages] /\ call \in [Requests -> Calls]
        /\ seen \in [Requests -> UserDocs \cup {NoUser}] /\ balance \in [Requests -> Int]
        /\ users \in [Accounts -> UserDocs \cup {NoUser}]
        /\ credited \in [Accounts -> [Currencies -> Nat]]
        /\ debited \in [Accounts -> [Currencies -> Nat]]
    BY DEF UsersInv, AccountsTypeOK
  <1>a. /\ call[q] \in Calls /\ a \in Accounts /\ call[q].key \in Currencies
        /\ balance[q] \in Int /\ faults \in 0 .. MaxFaults
    BY CallTypes DEF UsersInv, AccountsTypeOK
  <1>b. stage[q] \in Writing => users[a] \in UserDocs
    BY <1>0, <1>a DEF UsersInv, Grounded, UserFound
  <1>c. ASSUME stage[q] \in {"saveUser", "saveWallet"}, Update(a, seen[q])
        PROVE  Writes(q)
    <2>1. seen[q] \in UserDocs /\ users[a] \in UserDocs
      BY <1>0, <1>b, <1>c DEF UsersInv, Grounded, Writing
    <2>2. Updated(users[a], seen[q]) \in UserDocs
      BY <2>1, ChangedUser
    <2>3. CASE WalletTaken(a, seen[q].wallet)
      BY <1>c, <2>3 DEF Update, Writes
    <2>4. CASE ~WalletTaken(a, seen[q].wallet)
      <3>1. users' = [users EXCEPT ![a] = Updated(users[a], seen[q])]
        BY <1>c, <2>4 DEF Update
      <3>2. Becomes(a, Updated(users[a], seen[q]))
        BY <1>0, <1>a, <2>2, <3>1 DEF Becomes
      <3> QED
        BY <2>4, <3>2 DEF Writes
    <2> QED
      BY <2>3, <2>4
  <1>1. CASE ReadUser(q)
    <2> DEFINE u == [users[a] EXCEPT !.balances[call[q].key] = balance[q]]
    <2>1. users[a] \in UserDocs /\ stage[q] = "readUser"
      BY <1>b, <1>1 DEF ReadUser, Writing
    <2>2. /\ u \in UserDocs /\ u.wallet = users[a].wallet
          /\ \A k \in Currencies :
                u.balances[k] = IF k = call[q].key THEN balance[q] ELSE users[a].balances[k]
      BY <1>a, <2>1, ChangedUser
    <2>3. /\ seen' = [seen EXCEPT ![q] = u] /\ stage' = [stage EXCEPT ![q] = "saveUser"]
          /\ UNCHANGED <<accounts, users, call, balance, credited, debited, overlapped, faults>>
      BY <1>1 DEF ReadUser, Goto
    <2> HIDE DEF u
    <2>4. OnlyMoves(q) /\ seen'[q] = u /\ stage'[q] = "saveUser" /\ call'[q] = call[q]
      BY <1>0, <2>2, <2>3 DEF OnlyMoves, Stages
    <2>5. ReReads(q)
      BY <2>1, <2>2, <2>3, <2>4 DEF ReReads
    <2> QED
      BY <2>4, <2>5
  <1>2. CASE SaveUser(q)
    <2>1. /\ stage[q] = "saveUser" /\ OnlyMoves(q) /\ stage'[q] = "done" /\ Update(a, seen[q])
          /\ credited' = IF WalletTaken(a, seen[q].wallet) THEN credited
                         ELSE Added(credited, call[q])
          /\ UNCHANGED <<accounts, debited, overlapped, faults>>
      BY <1>2, FinishMoves DEF SaveUser
    <2>2. Gains(credited, Added(credited, call[q]), call[q])
      BY <1>0, <1>a, GainedLedger
    <2>3. IF WalletTaken(a, seen[q].wallet) THEN credited' = credited
          ELSE Gains(credited, credited', call[q])
      BY <2>1, <2>2
    <2> QED
      BY <1>c, <2>1, <2>3 DEF Saves
  <1>3. CASE Spend(q)
    <2> DEFINE u == [users[a] EXCEPT !.balances[call[q].key] = balance[q]]
    <2>1. users[a] \in UserDocs /\ stage[q] = "spend"
      BY <1>b, <1>3 DEF Spend, Writing
    <2>2. /\ u \in UserDocs /\ u.wallet = users[a].wallet
          /\ \A k \in Currencies :
                u.balances[k] = IF k = call[q].key THEN balance[q] ELSE users[a].balances[k]
      BY <1>a, <2>1, ChangedUser
    <2>3. /\ OnlyMoves(q) /\ stage'[q] = "done"
          /\ users' = [users EXCEPT ![a] = u] /\ debited' = Added(debited, call[q])
          /\ UNCHANGED <<accounts, credited, overlapped, faults>>
      BY <1>3, FinishMoves DEF Spend
    <2>4. Gains(debited, debited', call[q])
      <3>1. Gains(debited, Added(debited, call[q]), call[q])
        BY <1>0, <1>a, GainedLedger
      <3> QED
        BY <2>3, <3>1
    <2> HIDE DEF u
    <2>5. Becomes(a, u)
      BY <1>0, <1>a, <2>2, <2>3 DEF Becomes
    <2>6. Spends(q)
      BY <2>1, <2>2, <2>3, <2>4, <2>5 DEF Spends
    <2> QED
      BY <2>3, <2>6
  <1>4. CASE SaveWallet(q)
    BY <1>c, <1>4, FinishMoves DEF SaveWallet, Links
  <1>5. CASE Die(q)
    <2>1. faults' \in 0 .. MaxFaults
      BY <1>a, <1>5, AccountsAssumption DEF Die
    <2> QED
      BY <1>0, <1>5, <2>1 DEF Die, Goto, OnlyMoves, Dies, Stages
  <1> QED
    BY <1>1, <1>2, <1>3, <1>4, <1>5

Effect(q) ==
    \/ Signs(q) \/ GivesUp(q) \/ Inserts(q)
    \/ Reads(q) \/ ReReads(q) \/ Saves(q) \/ Spends(q) \/ Links(q) \/ Dies(q)

LEMMA StepEffect ==
    ASSUME UsersInv, NEW q \in Requests, AccountsStep(q)
    PROVE  OnlyMoves(q) /\ Effect(q)
  BY SignupEffect, ReadEffect, WriteEffect DEF AccountsStep, Effect

(* A user of the collection stays there, and only the player of a request   *)
(* that inserts or writes changes.                                          *)
Changing == {"saveUser", "saveWallet", "spend"}

LEMMA UsersKeep ==
    ASSUME UsersInv, NEW q \in Requests, OnlyMoves(q), Effect(q)
    PROVE  /\ users' \in [Accounts -> UserDocs \cup {NoUser}]
           /\ \A b \in Accounts : users[b] # NoUser => users'[b] # NoUser
           /\ \A b \in Accounts : users'[b] = users[b] \/
                 /\ b = call[q].account
                 /\ users[b] = NoUser \/ stage[q] \in Changing
           /\ overlapped \subseteq overlapped'
  <1>0. /\ users \in [Accounts -> UserDocs \cup {NoUser}]
        /\ \A p \in Requests : stage[p] \in Writing => users[call[p].account] # NoUser
        /\ stage[q] \in {"saveUser", "saveWallet"} => seen[q] \in UserDocs
        /\ call[q].account \in Accounts
    BY CallTypes DEF UsersInv, AccountsTypeOK, Grounded, UserFound
  <1>1. CASE UNCHANGED <<users, overlapped>>
    BY <1>0, <1>1
  <1>2. CASE Inserts(q)
    BY <1>0, <1>2, UserTypes DEF Inserts, Becomes, UserFound
  <1>3. CASE Writes(q) /\ stage[q] \in {"saveUser", "saveWallet"} /\ overlapped' = overlapped
    <2>1. Updated(users[call[q].account], seen[q]) \in UserDocs
      BY <1>0, <1>3, ChangedUser DEF Writing
    <2> QED
      BY <1>0, <1>3, <2>1, UserTypes DEF Writes, Becomes, Changing
  <1>4. CASE Spends(q)
    BY <1>0, <1>4, UserTypes DEF Spends, Becomes, Changing
  <1>5. CASE Reads(q)
    BY <1>0, <1>5 DEF Reads
  <1> QED
    BY <1>1, <1>2, <1>3, <1>4, <1>5
    DEF Effect, Signs, GivesUp, ReReads, Saves, Links, Dies

LEMMA AccountsType ==
    ASSUME UsersInv, NEW q \in Requests, OnlyMoves(q), Effect(q)
    PROVE  AccountsTypeOK'
  <1>0. /\ accounts \subseteq Accounts /\ overlapped \subseteq Accounts
        /\ faults \in 0 .. MaxFaults
        /\ credited \in [Accounts -> [Currencies -> Nat]]
        /\ debited \in [Accounts -> [Currencies -> Nat]]
        /\ call'[q].account \in Accounts
    BY DEF UsersInv, AccountsTypeOK, OnlyMoves, Calls
  <1>1. accounts' \subseteq Accounts /\ overlapped' \subseteq Accounts /\ faults' \in 0 .. MaxFaults
    BY <1>0 DEF Effect, Signs, GivesUp, Inserts, Reads, ReReads, Saves, Spends, Links, Dies
  <1>2. /\ credited' \in [Accounts -> [Currencies -> Nat]]
        /\ debited' \in [Accounts -> [Currencies -> Nat]]
    BY <1>0 DEF Effect, Signs, GivesUp, Inserts, Reads, ReReads, Saves, Spends, Links, Dies, Gains
  <1> QED
    BY <1>1, <1>2, UsersKeep DEF AccountsTypeOK, OnlyMoves

LEMMA GroundedStep ==
    ASSUME UsersInv, NEW q \in Requests, OnlyMoves(q), Effect(q), UNCHANGED catalogVars
    PROVE  Grounded'
  <1>1. ASSUME NEW p \in Requests, p # q
        PROVE  /\ stage'[p] \in Writing => UserFound(call[p].account)'
               /\ stage'[p] \in {"saveUser", "saveWallet"} => seen'[p] # NoUser
               /\ stage'[p] \in {"createUser", "insertUser"} => GameFound(call[p].game)'
    <2>1. stage'[p] = stage[p] /\ call'[p] = call[p] /\ seen'[p] = seen[p]
      BY <1>1 DEF OnlyMoves
    <2>2. call[p].account \in Accounts
      BY CallTypes
    <2> QED
      BY <2>1, <2>2, UsersKeep DEF UsersInv, Grounded, UserFound, GameFound, catalogVars
  <1>2. /\ stage'[q] \in Writing => UserFound(call[q].account)'
        /\ stage'[q] \in {"saveUser", "saveWallet"} => seen'[q] # NoUser
        /\ stage'[q] \in {"createUser", "insertUser"} => GameFound(call[q].game)'
    <2> USE DEF Writing, Signing
    <2>1. CASE Signs(q)
      BY <2>1 DEF Signs, GameFound, catalogVars
    <2>2. CASE Reads(q)
      BY <2>2, UserTypes DEF Reads, UserFound
    <2>3. CASE ReReads(q)
      BY <2>3, UserTypes DEF ReReads, UserFound, UsersInv, Grounded
    <2>4. CASE stage'[q] \in {"done", "dead"}
      BY <2>4
    <2> QED
      BY <2>1, <2>2, <2>3, <2>4 DEF Effect, GivesUp, Inserts, Saves, Spends, Links, Dies
  <1> QED
    BY <1>1, <1>2 DEF Grounded

LEMMA StepCases ==
    ASSUME [Next]_vars
    PROVE  \/ CatalogNext /\ UNCHANGED accountVars
           \/ \E q \in Requests : AccountsStep(q) /\ UNCHANGED catalogVars
           \/ UNCHANGED <<catalogVars, accountVars>>
  BY DEF Next, vars

LEMMA InitUsers ==
    ASSUME Init
    PROVE  /\ users \in [Accounts -> UserDocs \cup {NoUser}]
           /\ accounts \subseteq Accounts
           /\ \A a \in accounts : users[a] # NoUser
           /\ \A a \in Accounts : users[a] # NoUser =>
                 \A k \in Currencies : users[a].balances[k] \in Nat \cup {NoBalance}
           /\ OneUserPerWallet
           /\ credited \in [Accounts -> [Currencies -> Nat]]
           /\ debited \in [Accounts -> [Currencies -> Nat]]
           /\ \A a \in Accounts, k \in Currencies :
                 /\ debited[a][k] = 0
                 /\ credited[a][k] = IF UserFound(a) /\ users[a].balances[k] > 0
                                     THEN users[a].balances[k] ELSE 0
  <1>1. PICK s \in Starts : accounts = s.accounts /\ users = s.users
    BY DEF Init
  <1>2. s.accounts \subseteq Accounts /\ SoundUsers(s)
    BY StartsAssumption
  <1>3. /\ users \in [Accounts -> UserDocs \cup {NoUser}]
        /\ accounts \subseteq Accounts
        /\ \A a \in accounts : users[a] # NoUser
        /\ \A a \in Accounts : users[a] # NoUser =>
              \A k \in Currencies : users[a].balances[k] \in Nat \cup {NoBalance}
        /\ OneUserPerWallet
    BY <1>1, <1>2 DEF SoundUsers, OneUserPerWallet, UserFound
  <1>4. /\ credited = [a \in Accounts |-> [k \in Currencies |->
                          IF UserFound(a) /\ users[a].balances[k] > 0 THEN users[a].balances[k] ELSE 0]]
        /\ debited = [a \in Accounts |-> [k \in Currencies |-> 0]]
    BY DEF Init, AccountsInit
  <1>5. ASSUME NEW a \in Accounts, NEW k \in Currencies
        PROVE  (IF UserFound(a) /\ users[a].balances[k] > 0 THEN users[a].balances[k] ELSE 0) \in Nat
    BY <1>3 DEF UserFound, NoBalance
  <1>6. /\ credited \in [Accounts -> [Currencies -> Nat]]
        /\ debited \in [Accounts -> [Currencies -> Nat]]
    BY <1>4, <1>5
  <1> QED
    BY <1>3, <1>4, <1>6

LEMMA UsersInvariance == Spec => [](UsersInv /\ CatalogInv)
  <1>1. ASSUME Init
        PROVE  UsersInv /\ CatalogInv
    <2>1. CatalogInv
      BY <1>1 DEF Init, CatalogInv
    <2>2. AccountsTypeOK /\ Grounded
      BY <1>1, InitUsers, BlankIsCall, AccountsAssumption
      DEF Init, AccountsInit, AccountsTypeOK, Grounded, Stages, Writing
    <2> QED
      BY <2>1, <2>2 DEF UsersInv, CatalogInv
  <1>2. ASSUME UsersInv, CatalogInv, [Next]_vars
        PROVE  UsersInv' /\ CatalogInv'
    <2>1. CASE CatalogNext /\ UNCHANGED accountVars
      <3>1. CatalogInv' /\ CatalogKept
        BY <1>2, <2>1, CatalogStep
      <3>2. AccountsTypeOK' /\ Grounded'
        BY <1>2, <2>1, <3>1
        DEF UsersInv, AccountsTypeOK, Grounded, UserFound, GameFound, CatalogKept, accountVars, requestVars
      <3> QED
        BY <3>1, <3>2 DEF UsersInv, CatalogInv
    <2>2. ASSUME NEW q \in Requests, AccountsStep(q), UNCHANGED catalogVars
          PROVE  UsersInv' /\ CatalogInv'
      <3>1. CatalogInv'
        BY <1>2, <2>2 DEF catalogVars, CatalogInv, CatalogTypeOK, CatalogSound
      <3>2. AccountsTypeOK' /\ Grounded'
        BY <1>2, <2>2, StepEffect, AccountsType, GroundedStep
      <3> QED
        BY <3>1, <3>2 DEF UsersInv, CatalogInv
    <2>3. CASE UNCHANGED <<catalogVars, accountVars>>
      BY <1>2, <2>3
      DEF catalogVars, accountVars, requestVars, CatalogInv, CatalogTypeOK, CatalogSound, UsersInv,
          AccountsTypeOK, Grounded, UserFound, GameFound
    <2> QED
      BY <1>2, <2>1, <2>2, <2>3, StepCases
  <1> QED
    BY <1>1, <1>2, PTL DEF Spec

-----------------------------------------------------------------------------
(* Wallets.                                                                 *)

LEMMA WalletsStep ==
    ASSUME UsersInv, OneUserPerWallet, NEW q \in Requests, OnlyMoves(q), Effect(q)
    PROVE  OneUserPerWallet'
  <1> DEFINE a == call[q].account
  <1>0. /\ users \in [Accounts -> UserDocs \cup {NoUser}] /\ a \in Accounts
        /\ stage[q] \in Writing => users[a] \in UserDocs
        /\ stage[q] \in {"saveUser", "saveWallet"} => seen[q] \in UserDocs
    BY CallTypes DEF UsersInv, AccountsTypeOK, Grounded, UserFound
  <1>1. CASE UNCHANGED users
    BY <1>1 DEF OneUserPerWallet, UserFound
  <1>2. ASSUME NEW u \in UserDocs, Becomes(a, u),
               u.wallet = NoWallet \/ ~WalletTaken(a, u.wallet)
        PROVE  OneUserPerWallet'
    BY <1>0, <1>2 DEF OneUserPerWallet, UserFound, Becomes, WalletTaken
  <1>3. ASSUME stage[q] \in Writing
        PROVE  users[a].wallet = NoWallet \/ ~WalletTaken(a, users[a].wallet)
    BY <1>0, <1>3, UserTypes DEF OneUserPerWallet, UserFound, WalletTaken
  <1>4. CASE Inserts(q)
    BY <1>2, <1>4 DEF Inserts
  <1>5. CASE Spends(q)
    BY <1>2, <1>3, <1>5 DEF Spends, Writing
  <1>6. ASSUME stage[q] \in {"saveUser", "saveWallet"}, Writes(q)
        PROVE  OneUserPerWallet'
    <2>1. CASE ~WalletTaken(a, seen[q].wallet) /\ Becomes(a, Updated(users[a], seen[q]))
      <3> DEFINE u == Updated(users[a], seen[q])
      <3>1. /\ u \in UserDocs
            /\ u.wallet = IF seen[q].wallet = NoWallet THEN users[a].wallet ELSE seen[q].wallet
        BY <1>0, <1>6, ChangedUser DEF Writing
      <3> HIDE DEF u
      <3> QED
        BY <1>2, <1>3, <1>6, <2>1, <3>1 DEF Writing, u
    <2> QED
      BY <1>1, <1>6, <2>1 DEF Writes
  <1> QED
    BY <1>1, <1>4, <1>5, <1>6 DEF Effect, Signs, GivesUp, Reads, ReReads, Saves, Links, Dies

(* No two players ever hold one wallet: every write of a user is behind the *)
(* unique index, also one that was prepared before another player linked.   *)
THEOREM WalletsStayUnique == Spec => []OneUserPerWallet
  <1>1. Init => OneUserPerWallet
    BY InitUsers
  <1>2. UsersInv /\ OneUserPerWallet /\ [Next]_vars => OneUserPerWallet'
    <2> SUFFICES ASSUME UsersInv, OneUserPerWallet, [Next]_vars PROVE OneUserPerWallet'
      OBVIOUS
    <2>1. CASE UNCHANGED accountVars
      BY <2>1 DEF accountVars, OneUserPerWallet, UserFound
    <2>2. ASSUME NEW q \in Requests, AccountsStep(q)
          PROVE  OneUserPerWallet'
      BY <2>2, StepEffect, WalletsStep
    <2> QED
      BY <2>1, <2>2, StepCases
  <1> QED
    BY <1>1, <1>2, UsersInvariance, PTL DEF Spec

-----------------------------------------------------------------------------
(* Balances.                                                                *)

(* What a request is about to write is covered by the increments so far and *)
(* its own: at is its stage, c its call, info and n what it read and made.  *)
CoveredBy(at, c, info, n, ledger) ==
    /\ at = "readUser" => n <= ledger[c.account][c.key] + c.value
    /\ at = "spend" => n <= ledger[c.account][c.key]
    /\ at = "saveUser" => \A k \in Currencies :
          info.balances[k] <= ledger[c.account][k] + IF k = c.key THEN c.value ELSE 0
    /\ at = "saveWallet" => \A k \in Currencies : info.balances[k] <= ledger[c.account][k]

Covered == \A q \in Requests : CoveredBy(stage[q], call[q], seen[q], balance[q], credited)

MoneyInv == NoMoneyFromNothing /\ Covered

(* Increments only add to the ledger of increments.                         *)
LEMMA CreditGrows ==
    ASSUME UsersInv, NEW q \in Requests, Effect(q)
    PROVE  \A a \in Accounts, k \in Currencies :
              /\ credited[a][k] \in Nat /\ credited'[a][k] \in Nat
              /\ credited[a][k] <= credited'[a][k]
  <1>1. credited \in [Accounts -> [Currencies -> Nat]]
        /\ \A a \in Accounts, k \in Currencies : credited[a][k] \in Nat
    BY DEF UsersInv, AccountsTypeOK
  <1>2. CASE credited' = credited
    BY <1>1, <1>2
  <1>3. CASE Gains(credited, credited', call[q])
    BY <1>1, <1>3, CallTypes DEF Gains
  <1> QED
    BY <1>2, <1>3 DEF Effect, Signs, GivesUp, Inserts, Reads, ReReads, Saves, Spends, Links, Dies

LEMMA CoveredStays ==
    ASSUME UsersInv, NEW q \in Requests, OnlyMoves(q), Effect(q), Covered,
           NEW p \in Requests, p # q
    PROVE  CoveredBy(stage'[p], call'[p], seen'[p], balance'[p], credited')
  <1>1. /\ stage'[p] = stage[p] /\ call'[p] = call[p]
        /\ seen'[p] = seen[p] /\ balance'[p] = balance[p]
    BY DEF OnlyMoves
  <1>2. CoveredBy(stage[p], call[p], seen[p], balance[p], credited)
    BY DEF Covered
  <1>3. /\ call[p].account \in Accounts /\ call[p].key \in Currencies /\ call[p].value \in Nat
        /\ balance[p] \in Int
        /\ stage[p] \in {"saveUser", "saveWallet"} => seen[p] \in UserDocs
    BY CallTypes DEF UsersInv, Grounded
  <1>4. stage[p] \in {"saveUser", "saveWallet"} =>
           \A k \in Currencies : seen[p].balances[k] \in Int
    BY <1>3, UserTypes
  <1>5. \A k \in Currencies :
           /\ credited[call[p].account][k] \in Nat /\ credited'[call[p].account][k] \in Nat
           /\ credited[call[p].account][k] <= credited'[call[p].account][k]
    BY <1>3, CreditGrows
  <1> QED
    BY <1>1, <1>2, <1>3, <1>4, <1>5 DEF CoveredBy

LEMMA CoveredMove ==
    ASSUME UsersInv, NEW q \in Requests, OnlyMoves(q), Effect(q), MoneyInv
    PROVE  CoveredBy(stage'[q], call'[q], seen'[q], balance'[q], credited')
  <1>1. CASE stage'[q] \in Signing \cup {"done", "dead"}
    BY <1>1 DEF CoveredBy, Signing
  <1>2. CASE Reads(q)
    <2> DEFINE c == call'[q]
               user == users[c.account]
    <2>1. c \in Calls /\ c.account \in Accounts /\ c.key \in Currencies /\ c.value \in Nat /\ c.value > 0
      BY AmountsPositive DEF OnlyMoves, Calls
    <2>2. user \in UserDocs /\ UserFound(c.account)
      BY <1>2, <2>1 DEF Reads, UserFound, UsersInv, AccountsTypeOK
    <2>3. \A k \in Currencies :
             /\ user.balances[k] \in Int /\ credited[c.account][k] \in Nat
             /\ user.balances[k] <= credited[c.account][k]
      BY <2>1, <2>2, UserTypes, CreditGrows DEF MoneyInv, NoMoneyFromNothing
    <2>4. /\ stage'[q] \in {"readUser", "spend", "saveWallet"} /\ credited' = credited
          /\ stage'[q] = "readUser" => balance'[q] = user.balances[c.key] + c.value
          /\ stage'[q] = "spend" => balance'[q] = user.balances[c.key] - c.value
          /\ stage'[q] = "saveWallet" => seen'[q].balances = user.balances
      BY <1>2 DEF Reads
    <2> HIDE DEF c, user
    <2>5. CoveredBy(stage'[q], c, seen'[q], balance'[q], credited')
      BY <2>1, <2>3, <2>4 DEF CoveredBy
    <2> QED
      BY <2>5 DEF c
  <1>3. CASE ReReads(q)
    <2>1. /\ call[q].account \in Accounts /\ call[q].key \in Currencies /\ call[q].value \in Nat
          /\ users[call[q].account] \in UserDocs /\ UserFound(call[q].account)
      BY <1>3, CallTypes DEF ReReads, Writing, UsersInv, Grounded, UserFound
    <2>2. \A k \in Currencies :
             /\ users[call[q].account].balances[k] \in Int /\ credited[call[q].account][k] \in Nat
             /\ users[call[q].account].balances[k] <= credited[call[q].account][k]
      BY <2>1, UserTypes, CreditGrows DEF MoneyInv, NoMoneyFromNothing
    <2>3. balance[q] <= credited[call[q].account][call[q].key] + call[q].value
      BY <1>3 DEF ReReads, MoneyInv, Covered, CoveredBy
    <2> QED
      BY <1>3, <2>1, <2>2, <2>3 DEF ReReads, CoveredBy
  <1> QED
    BY <1>1, <1>2, <1>3 DEF Effect, Signs, GivesUp, Inserts, Saves, Spends, Links, Dies

LEMMA MoneyStep ==
    ASSUME UsersInv, NEW q \in Requests, OnlyMoves(q), Effect(q), MoneyInv
    PROVE  NoMoneyFromNothing'
  <1> DEFINE a == call[q].account
  <1>0. /\ users \in [Accounts -> UserDocs \cup {NoUser}] /\ a \in Accounts
        /\ call[q].key \in Currencies /\ call[q].value \in Nat /\ balance[q] \in Int
        /\ stage[q] \in Writing => users[a] \in UserDocs /\ UserFound(a)
        /\ stage[q] \in {"saveUser", "saveWallet"} => seen[q] \in UserDocs
    BY CallTypes DEF UsersInv, AccountsTypeOK, Grounded, UserFound
  <1>c. CoveredBy(stage[q], call[q], seen[q], balance[q], credited)
    BY DEF MoneyInv, Covered
  <1>1. ASSUME NEW b \in Accounts, users'[b] = users[b], UserFound(b)', NEW k \in Currencies
        PROVE  users'[b].balances[k] <= credited'[b][k]
    <2>1. /\ users[b].balances[k] \in Int /\ users[b].balances[k] <= credited[b][k]
      BY <1>0, <1>1, UserTypes DEF MoneyInv, NoMoneyFromNothing, UserFound
    <2> QED
      BY <1>1, <2>1, CreditGrows
  <1>2. ASSUME users'[a] # users[a], NEW k \in Currencies
        PROVE  users'[a].balances[k] <= credited'[a][k]
    <2>0. credited[a][k] \in Nat /\ credited'[a][k] \in Nat /\ credited[a][k] <= credited'[a][k]
      BY <1>0, CreditGrows
    <2>1. CASE Inserts(q)
      BY <1>0, <2>0, <2>1 DEF Inserts, Becomes, NoBalance
    <2>2. CASE Spends(q)
      <3>1. PICK u \in UserDocs :
               /\ users'[a] = u
               /\ u.balances[k] = IF k = call[q].key THEN balance[q] ELSE users[a].balances[k]
        BY <2>2 DEF Spends, Becomes
      <3>2. users[a].balances[k] \in Int /\ users[a].balances[k] <= credited[a][k]
        BY <1>0, <2>2, UserTypes DEF Spends, Writing, MoneyInv, NoMoneyFromNothing
      <3>3. k = call[q].key => balance[q] <= credited[a][k]
        BY <1>c, <2>2 DEF Spends, CoveredBy
      <3> QED
        BY <1>0, <2>0, <3>1, <3>2, <3>3
    <2>3. ASSUME stage[q] \in {"saveUser", "saveWallet"}, Writes(q)
          PROVE  /\ ~WalletTaken(a, seen[q].wallet)
                 /\ users'[a].balances[k] = seen[q].balances[k] /\ seen[q].balances[k] \in Int
      <3>1. /\ Updated(users[a], seen[q]).balances = seen[q].balances
            /\ seen[q].balances[k] \in Int
        BY <1>0, <2>3, ChangedUser, UserTypes DEF Writing
      <3> QED
        BY <1>2, <2>3, <3>1 DEF Writes, Becomes
    <2>4. CASE Saves(q)
      <3>1. Gains(credited, credited', call[q])
        BY <2>3, <2>4 DEF Saves
      <3>2. credited'[a][k] = credited[a][k] + IF k = call[q].key THEN call[q].value ELSE 0
        BY <1>0, <3>1 DEF Gains
      <3>3. seen[q].balances[k] <= credited[a][k] + IF k = call[q].key THEN call[q].value ELSE 0
        BY <1>c, <2>4 DEF Saves, CoveredBy
      <3> QED
        BY <2>3, <2>4, <3>2, <3>3 DEF Saves
    <2>5. CASE Links(q)
      <3>1. seen[q].balances[k] <= credited[a][k]
        BY <1>c, <2>5 DEF Links, CoveredBy
      <3> QED
        BY <2>0, <2>3, <2>5, <3>1 DEF Links
    <2> QED
      BY <1>2, <2>1, <2>2, <2>4, <2>5 DEF Effect, Signs, GivesUp, Reads, ReReads, Dies
  <1>3. \A b \in Accounts : users'[b] = users[b] \/ b = a
    BY UsersKeep
  <1> QED
    BY <1>1, <1>2, <1>3 DEF NoMoneyFromNothing

(* However increments, decrements and wallet links overlap, no player ever  *)
(* has more of a currency than all increments put in.                       *)
THEOREM NoMoneyOutOfRaces == Spec => []NoMoneyFromNothing
  <1>1. ASSUME Init
        PROVE  MoneyInv
    <2>1. NoMoneyFromNothing
      BY <1>1, InitUsers DEF NoMoneyFromNothing, UserFound, NoBalance
    <2>2. Covered
      BY <1>1 DEF Init, AccountsInit, Covered, CoveredBy
    <2> QED
      BY <2>1, <2>2 DEF MoneyInv
  <1>2. ASSUME UsersInv, MoneyInv, [Next]_vars
        PROVE  MoneyInv'
    <2>1. CASE UNCHANGED accountVars
      BY <1>2, <2>1 DEF accountVars, requestVars, MoneyInv, NoMoneyFromNothing, UserFound, Covered
    <2>2. ASSUME NEW q \in Requests, AccountsStep(q)
          PROVE  MoneyInv'
      <3>1. OnlyMoves(q) /\ Effect(q)
        BY <1>2, <2>2, StepEffect
      <3>2. Covered'
        BY <1>2, <3>1, CoveredStays, CoveredMove DEF MoneyInv, Covered
      <3> QED
        BY <1>2, <3>1, <3>2, MoneyStep DEF MoneyInv
    <2> QED
      BY <1>2, <2>1, <2>2, StepCases
  <1> QED
    BY <1>1, <1>2, UsersInvariance, PTL DEF Spec, MoneyInv

-----------------------------------------------------------------------------
(* Requests of one player that do not overlap.                              *)

(* Two requests about to write one user have overlapped.                    *)
OverlapNoted ==
    \A p, q \in Requests :
        (p # q /\ stage[p] \in Writing /\ stage[q] \in Writing
            /\ call[p].account = call[q].account) => call[q].account \in overlapped

(* What a request read of the user is still so.                             *)
StillSo(at, c, info, n, user) ==
    /\ at \in {"readUser", "saveUser", "spend"} => user.balances[c.key] # NoBalance
    /\ at = "readUser" => n = user.balances[c.key] + c.value
    /\ at = "spend" => n = user.balances[c.key] - c.value
    /\ at = "saveUser" =>
          /\ info.wallet = user.wallet
          /\ \A k \in Currencies :
                info.balances[k] = user.balances[k] + IF k = c.key THEN c.value ELSE 0
    /\ at = "saveWallet" =>
          /\ user.wallet = NoWallet
          /\ \A k \in Currencies : info.balances[k] = user.balances[k]

AllStillSo ==
    \A q \in Requests : call[q].account \in overlapped \/
        StillSo(stage[q], call[q], seen[q], balance[q], users[call[q].account])

NothingYet ==
    \A a \in Accounts, k \in Currencies :
        ~UserFound(a) => credited[a][k] = 0 /\ debited[a][k] = 0

AloneInv == OverlapNoted /\ AllStillSo /\ NothingYet /\ ExactWhenAlone

LEMMA OverlapStep ==
    ASSUME UsersInv, NEW q \in Requests, OnlyMoves(q), Effect(q), OverlapNoted
    PROVE  OverlapNoted'
  <1>1. overlapped \subseteq overlapped'
    BY UsersKeep
  <1>2. \A p \in Requests : p # q => stage'[p] = stage[p] /\ call'[p] = call[p]
    BY DEF OnlyMoves
  <1>3. ASSUME stage'[q] \in Writing, NEW p \in Requests, p # q, stage[p] \in Writing,
               call[p].account = call'[q].account
        PROVE  call'[q].account \in overlapped'
    <2>1. CASE Reads(q)
      BY <1>3, <2>1 DEF Reads
    <2>2. CASE ReReads(q)
      BY <1>1, <1>3, <2>2 DEF ReReads, OverlapNoted, Writing
    <2> QED
      BY <1>3, <2>1, <2>2
      DEF Effect, Signs, GivesUp, Inserts, Saves, Spends, Links, Dies, Writing, Signing
  <1> QED
    BY <1>1, <1>2, <1>3 DEF OverlapNoted

LEMMA OthersStillSo ==
    ASSUME UsersInv, NEW q \in Requests, OnlyMoves(q), Effect(q), AloneInv,
           NEW p \in Requests, p # q, call'[p].account \notin overlapped'
    PROVE  StillSo(stage'[p], call'[p], seen'[p], balance'[p], users'[call'[p].account])
  <1>1. /\ stage'[p] = stage[p] /\ call'[p] = call[p]
        /\ seen'[p] = seen[p] /\ balance'[p] = balance[p]
    BY DEF OnlyMoves
  <1>2. StillSo(stage[p], call[p], seen[p], balance[p], users[call[p].account])
        /\ call[p].account \notin overlapped
    BY <1>1, UsersKeep DEF AloneInv, AllStillSo
  <1>3. CASE stage[p] \notin Writing
    BY <1>1, <1>3 DEF StillSo, Writing
  <1>4. CASE stage[p] \in Writing
    <2>1. users[call[p].account] # NoUser /\ call[p].account \in Accounts
      BY <1>4, CallTypes DEF UsersInv, Grounded, UserFound
    <2>2. ~(call[p].account = call[q].account /\ stage[q] \in Writing)
      BY <1>2, <1>4 DEF AloneInv, OverlapNoted
    <2>3. users'[call[p].account] = users[call[p].account]
      BY <2>1, <2>2, UsersKeep DEF Changing, Writing
    <2> QED
      BY <1>1, <1>2, <2>3
  <1> QED
    BY <1>3, <1>4

LEMMA MoverStillSo ==
    ASSUME UsersInv, NEW q \in Requests, OnlyMoves(q), Effect(q), AloneInv,
           call'[q].account \notin overlapped'
    PROVE  StillSo(stage'[q], call'[q], seen'[q], balance'[q], users'[call'[q].account])
  <1>1. CASE Reads(q)
    <2>1. call'[q].key \in Currencies
      BY DEF OnlyMoves, Calls
    <2> QED
      BY <1>1, <2>1 DEF Reads, StillSo
  <1>2. CASE ReReads(q)
    <2>1. StillSo(stage[q], call[q], seen[q], balance[q], users[call[q].account])
      BY <1>2, UsersKeep DEF ReReads, AloneInv, AllStillSo
    <2>2. users[call[q].account] \in UserDocs
      BY <1>2, CallTypes DEF ReReads, UsersInv, Grounded, UserFound, Writing
    <2>3. \A k \in Currencies : users[call[q].account].balances[k] \in Int
      BY <2>2, UserTypes
    <2>4. /\ users[call[q].account].balances[call[q].key] # NoBalance
          /\ balance[q] = users[call[q].account].balances[call[q].key] + call[q].value
      BY <1>2, <2>1 DEF ReReads, StillSo
    <2>5. /\ stage'[q] = "saveUser" /\ call'[q] = call[q] /\ users' = users
          /\ seen'[q].wallet = users[call[q].account].wallet
          /\ \A k \in Currencies : seen'[q].balances[k] =
                IF k = call[q].key THEN balance[q] ELSE users[call[q].account].balances[k]
      BY <1>2 DEF ReReads
    <2> QED
      BY <2>3, <2>4, <2>5 DEF StillSo
  <1>3. CASE stage'[q] \in Signing \cup {"done", "dead"}
    BY <1>3 DEF StillSo, Signing
  <1> QED
    BY <1>1, <1>2, <1>3 DEF Effect, Signs, GivesUp, Inserts, Saves, Spends, Links, Dies

LEMMA LedgersKeep ==
    ASSUME UsersInv, NEW q \in Requests, Effect(q), NEW b \in Accounts, NEW k \in Currencies
    PROVE  /\ credited[b][k] \in Nat /\ debited[b][k] \in Nat
           /\ (b # call[q].account \/ ~UserFound(b) \/ stage[q] \notin {"saveUser", "spend"})
                 => credited'[b][k] = credited[b][k] /\ debited'[b][k] = debited[b][k]
  <1>1. credited[b][k] \in Nat /\ debited[b][k] \in Nat
    BY DEF UsersInv, AccountsTypeOK
  <1>2. CASE UNCHANGED <<credited, debited>>
    BY <1>1, <1>2
  <1>3. stage[q] \in {"saveUser", "spend"} => UserFound(call[q].account)
    BY DEF UsersInv, Grounded, Writing
  <1>4. CASE Saves(q)
    <2>1. stage[q] = "saveUser" /\ debited' = debited
          /\ (credited' = credited \/ Gains(credited, credited', call[q]))
      BY <1>4 DEF Saves
    <2> QED
      BY <1>1, <1>3, <2>1 DEF Gains
  <1>5. CASE Spends(q)
    <2>1. stage[q] = "spend" /\ credited' = credited /\ Gains(debited, debited', call[q])
      BY <1>5 DEF Spends
    <2> QED
      BY <1>1, <1>3, <2>1 DEF Gains
  <1> QED
    BY <1>2, <1>4, <1>5 DEF Effect, Signs, GivesUp, Inserts, Reads, ReReads, Links, Dies

LEMMA ExactStep ==
    ASSUME UsersInv, NEW q \in Requests, OnlyMoves(q), Effect(q), AloneInv,
           NEW b \in Accounts \ overlapped', NEW k \in Currencies,
           UserFound(b)', users'[b].balances[k] # NoBalance
    PROVE  users'[b].balances[k] = credited'[b][k] - debited'[b][k]
  <1> DEFINE a == call[q].account
             v == IF k = call[q].key THEN call[q].value ELSE 0
  <1>0. /\ b \in Accounts /\ b \notin overlapped
        /\ credited[b][k] \in Nat /\ debited[b][k] \in Nat
        /\ UserFound(b) => users[b] \in UserDocs /\ users[b].balances[k] \in Int
    BY UsersKeep, LedgersKeep, UserTypes DEF UsersInv, AccountsTypeOK, UserFound
  <1>1. UserFound(b) /\ users[b].balances[k] # NoBalance
           => users[b].balances[k] = credited[b][k] - debited[b][k]
    BY <1>0 DEF AloneInv, ExactWhenAlone
  <1>2. CASE users'[b] = users[b] /\ (b # a \/ stage[q] \notin {"saveUser", "spend"})
    BY <1>1, <1>2, LedgersKeep DEF UserFound
  <1>3. ASSUME stage[q] \in Changing, b = a
        PROVE  /\ UserFound(b) /\ users[b].balances[k] \in Int
               /\ StillSo(stage[q], call[q], seen[q], balance[q], users[b])
               /\ call[q].value \in Nat /\ call[q].key \in Currencies
    BY <1>0, <1>3, CallTypes
    DEF AloneInv, AllStillSo, UsersInv, Grounded, Changing, Writing
  <1>4. CASE Inserts(q) /\ b = a
    <2>1. users'[b].balances[k] = 0 /\ ~UserFound(b)
      BY <1>0, <1>4 DEF Inserts, Becomes
    <2>2. credited[b][k] = 0 /\ debited[b][k] = 0
      BY <1>0, <2>1 DEF AloneInv, NothingYet
    <2> QED
      BY <2>1, <2>2, LedgersKeep
  <1>5. CASE Spends(q) /\ b = a
    <2>1. stage[q] = "spend" /\ credited' = credited /\ Gains(debited, debited', call[q])
      BY <1>5 DEF Spends
    <2>2. debited'[b][k] = debited[b][k] + v
      BY <1>0, <1>5, <2>1 DEF Gains
    <2>3. users'[b].balances[k] = IF k = call[q].key THEN balance[q] ELSE users[b].balances[k]
      BY <1>0, <1>5 DEF Spends, Becomes
    <2>4. /\ users[b].balances[call[q].key] # NoBalance
          /\ balance[q] = users[b].balances[call[q].key] - call[q].value
      BY <1>3, <1>5, <2>1 DEF StillSo, Changing
    <2>5. users[b].balances[k] # NoBalance /\ users'[b].balances[k] = users[b].balances[k] - v
      BY <1>3, <1>5, <2>1, <2>3, <2>4 DEF Changing
    <2> QED
      BY <1>0, <1>1, <1>3, <1>5, <2>1, <2>2, <2>5 DEF Changing
  <1>6. ASSUME stage[q] \in {"saveUser", "saveWallet"}, Writes(q), b = a,
               ~WalletTaken(a, seen[q].wallet)
        PROVE  users'[b].balances[k] = seen[q].balances[k]
    <2>1. users[a] \in UserDocs /\ seen[q] \in UserDocs
      BY <1>0, <1>6, CallTypes DEF UsersInv, Grounded, Writing
    <2>2. Updated(users[a], seen[q]).balances = seen[q].balances
      BY <2>1, ChangedUser
    <2> QED
      BY <1>0, <1>6, <2>2 DEF Writes, Becomes
  <1>7. CASE Saves(q) /\ b = a
    <2>1. stage[q] = "saveUser" /\ Writes(q) /\ debited' = debited
      BY <1>7 DEF Saves
    <2>2. CASE WalletTaken(a, seen[q].wallet)
      <3>1. users' = users /\ credited' = credited
        BY <1>7, <2>2 DEF Saves, Writes
      <3> QED
        BY <1>1, <2>1, <3>1 DEF UserFound
    <2>3. CASE ~WalletTaken(a, seen[q].wallet)
      <3>1. Gains(credited, credited', call[q])
        BY <1>7, <2>3 DEF Saves
      <3>2. credited'[b][k] = credited[b][k] + v
        BY <1>0, <1>7, <3>1 DEF Gains
      <3>3. users'[b].balances[k] = seen[q].balances[k]
        BY <1>6, <1>7, <2>1, <2>3
      <3>4. /\ users[b].balances[call[q].key] # NoBalance
            /\ seen[q].balances[k] = users[b].balances[k] + v
        BY <1>3, <1>7, <2>1 DEF StillSo, Changing
      <3>5. users[b].balances[k] # NoBalance
        BY <1>3, <1>7, <2>1, <3>3, <3>4 DEF Changing
      <3> QED
        BY <1>0, <1>1, <1>3, <1>7, <2>1, <3>2, <3>3, <3>4, <3>5 DEF Changing
    <2> QED
      BY <2>2, <2>3
  <1>8. CASE Links(q) /\ b = a
    <2>1. stage[q] = "saveWallet" /\ Writes(q) /\ UNCHANGED <<credited, debited>>
      BY <1>8 DEF Links
    <2>2. CASE WalletTaken(a, seen[q].wallet)
      BY <1>1, <2>1, <2>2 DEF UserFound, Writes
    <2>3. CASE ~WalletTaken(a, seen[q].wallet)
      <3>1. users'[b].balances[k] = seen[q].balances[k] /\ seen[q].balances[k] = users[b].balances[k]
        BY <1>3, <1>6, <1>8, <2>1, <2>3 DEF StillSo, Changing
      <3> QED
        BY <1>1, <1>3, <1>8, <2>1, <3>1 DEF Changing
    <2> QED
      BY <2>2, <2>3
  <1>9. CASE b # a
    BY <1>2, <1>9, UsersKeep
  <1>10. CASE UNCHANGED <<users, credited, debited>>
    BY <1>1, <1>10 DEF UserFound
  <1> QED
    BY <1>4, <1>5, <1>7, <1>8, <1>9, <1>10 DEF Effect, Signs, GivesUp, Reads, ReReads, Dies

LEMMA AloneInvariance == Spec => []AloneInv
  <1>1. ASSUME Init
        PROVE  AloneInv
    <2>1. ExactWhenAlone /\ NothingYet
      BY <1>1, InitUsers DEF ExactWhenAlone, NothingYet, UserFound, NoBalance
    <2>2. \A q \in Requests : stage[q] = "new"
      BY <1>1 DEF Init, AccountsInit
    <2> QED
      BY <2>1, <2>2 DEF AloneInv, OverlapNoted, AllStillSo, StillSo, Writing
  <1>2. ASSUME UsersInv, AloneInv, [Next]_vars
        PROVE  AloneInv'
    <2>1. CASE UNCHANGED accountVars
      <3>0. UNCHANGED <<users, stage, call, seen, balance, credited, debited, overlapped>>
        BY <2>1 DEF accountVars, requestVars
      <3>1. OverlapNoted' /\ AllStillSo'
        BY <1>2, <3>0 DEF AloneInv, OverlapNoted, AllStillSo
      <3>2. NothingYet' /\ ExactWhenAlone'
        BY <1>2, <3>0 DEF AloneInv, NothingYet, ExactWhenAlone, UserFound
      <3> QED
        BY <3>1, <3>2 DEF AloneInv
    <2>2. ASSUME NEW q \in Requests, AccountsStep(q)
          PROVE  AloneInv'
      <3>1. OnlyMoves(q) /\ Effect(q)
        BY <1>2, <2>2, StepEffect
      <3>2. OverlapNoted'
        BY <1>2, <3>1, OverlapStep DEF AloneInv
      <3>3. AllStillSo'
        BY <1>2, <3>1, OthersStillSo, MoverStillSo DEF AllStillSo
      <3>4. NothingYet'
        BY <1>2, <3>1, UsersKeep, LedgersKeep DEF AloneInv, NothingYet, UserFound
      <3>5. ExactWhenAlone'
        BY <1>2, <3>1, ExactStep DEF ExactWhenAlone
      <3> QED
        BY <3>2, <3>3, <3>4, <3>5 DEF AloneInv
    <2> QED
      BY <1>2, <2>1, <2>2, StepCases
  <1> QED
    BY <1>1, <1>2, UsersInvariance, PTL DEF Spec

(* While no two requests of a player overlapped, every increment and every  *)
(* decrement counts, whatever other players do and wherever requests die.   *)
THEOREM AloneNothingIsLost == Spec => []ExactWhenAlone
  BY AloneInvariance, PTL DEF AloneInv

(* Links and balance writes that do not overlap never take a wallet away.   *)
THEOREM LinkedForever == Spec => WalletKept
  <1> DEFINE Kept == \A a \in Accounts \ overlapped' :
                (UserFound(a) /\ users[a].wallet # NoWallet) => users'[a].wallet = users[a].wallet
  <1>1. ASSUME UsersInv, AloneInv, [Next]_vars
        PROVE  [Kept]_users
    <2>1. CASE UNCHANGED accountVars
      BY <2>1 DEF accountVars
    <2>2. ASSUME NEW q \in Requests, AccountsStep(q)
          PROVE  Kept
      <3>1. OnlyMoves(q) /\ Effect(q)
        BY <1>1, <2>2, StepEffect
      <3> SUFFICES ASSUME NEW a \in Accounts, a \notin overlapped', UserFound(a),
                          users[a].wallet # NoWallet, users'[a] # users[a]
                   PROVE  users'[a].wallet = users[a].wallet
        OBVIOUS
      <3>2. a = call[q].account /\ stage[q] \in Changing /\ a \notin overlapped
        BY <1>1, <3>1, UsersKeep DEF UserFound
      <3>3. StillSo(stage[q], call[q], seen[q], balance[q], users[a])
        BY <1>1, <3>2 DEF AloneInv, AllStillSo
      <3>4. stage[q] # "saveWallet"
        BY <3>3 DEF StillSo
      <3>5. CASE Spends(q)
        BY <3>2, <3>5 DEF Spends, Becomes
      <3>6. CASE Saves(q)
        <4>1. users[a] \in UserDocs /\ seen[q] \in UserDocs
          BY <1>1, <3>2, <3>6, CallTypes DEF Saves, UsersInv, Grounded, Writing, UserFound
        <4>2. Updated(users[a], seen[q]).wallet =
                 IF seen[q].wallet = NoWallet THEN users[a].wallet ELSE seen[q].wallet
          BY <4>1, ChangedUser
        <4>3. seen[q].wallet = users[a].wallet
          BY <3>3, <3>6 DEF Saves, StillSo
        <4>4. users'[a] = Updated(users[a], seen[q])
          BY <3>2, <3>6 DEF Saves, Writes, Becomes
        <4> QED
          BY <4>2, <4>3, <4>4
      <3> QED
        BY <3>1, <3>2, <3>4, <3>5, <3>6
        DEF Effect, Signs, GivesUp, Inserts, Reads, ReReads, Links, Dies, Changing, Signing, Writing
    <2> QED
      BY <1>1, <2>1, <2>2, StepCases
  <1> QED
    BY <1>1, UsersInvariance, AloneInvariance, PTL DEF Spec, WalletKept

-----------------------------------------------------------------------------
(* Registration.                                                            *)

LEMMA StrandedStep ==
    ASSUME UsersInv, NEW q \in Requests, OnlyMoves(q), Effect(q), StrandedOnlyByFailure
    PROVE  StrandedOnlyByFailure'
  <1> SUFFICES ASSUME NEW a \in accounts', ~UserFound(a)'
               PROVE  \E p \in Requests :
                         call'[p].account = a /\ stage'[p] \in Signing \cup {"dead"}
    BY DEF StrandedOnlyByFailure, CanLogIn, IsAuthorized
  <1>1. CASE a \notin accounts
    <2>1. Signs(q)
      BY <1>1 DEF Effect, GivesUp, Inserts, Reads, ReReads, Saves, Spends, Links, Dies
    <2> QED
      BY <1>1, <2>1 DEF Signs
  <1>2. CASE a \in accounts
    <2>1. a \in Accounts /\ users[a] = NoUser
      BY <1>2, UsersKeep DEF UsersInv, AccountsTypeOK, UserFound
    <2>2. PICK p \in Requests : call[p].account = a /\ stage[p] \in Signing \cup {"dead"}
      BY <1>2, <2>1 DEF StrandedOnlyByFailure, CanLogIn, UserFound
    <2>3. CASE p # q
      BY <2>2, <2>3 DEF OnlyMoves
    <2>4. CASE p = q
      <3>1. ~GivesUp(q)
        BY <2>1, <2>2, <2>4 DEF GivesUp, UserFound
      <3>2. ~Inserts(q)
        BY <2>1, <2>2, <2>4, UserTypes DEF Inserts, Becomes, UserFound
      <3> QED
        BY <2>2, <2>4, <3>1, <3>2
        DEF Effect, Signs, Reads, ReReads, Saves, Spends, Links, Dies, Signing
    <2> QED
      BY <2>3, <2>4
  <1> QED
    BY <1>1, <1>2

(* An account is left without a user only by a registration of it that is   *)
(* not over or that died: two registrations at a time cannot do it.         *)
THEOREM NobodyStrandedByRaces == Spec => []StrandedOnlyByFailure
  <1>1. Init => StrandedOnlyByFailure
    BY InitUsers DEF StrandedOnlyByFailure, CanLogIn, IsAuthorized, UserFound
  <1>2. ASSUME UsersInv, StrandedOnlyByFailure, [Next]_vars
        PROVE  StrandedOnlyByFailure'
    <2>1. CASE UNCHANGED accountVars
      BY <1>2, <2>1
      DEF accountVars, requestVars, StrandedOnlyByFailure, CanLogIn, IsAuthorized, UserFound
    <2>2. ASSUME NEW q \in Requests, AccountsStep(q)
          PROVE  StrandedOnlyByFailure'
      BY <1>2, <2>2, StepEffect, StrandedStep
    <2> QED
      BY <1>2, <2>1, <2>2, StepCases
  <1> QED
    BY <1>1, <1>2, UsersInvariance, PTL DEF Spec
=============================================================================
