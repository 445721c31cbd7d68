---------------------------- MODULE UserAccounts ----------------------------
(***************************************************************************)
(* Players: the account PlayFab keeps, the User document Nemesis keeps,    *)
(* its currency balances and its wallet. A request is a sequence of awaits *)
(* and each is a step; requests of any kind, of one player or of many, run *)
(* at the same time, in any number of server processes.                    *)
(*                                                                         *)
(* A request that is refused by what it reads first changes nothing and is *)
(* not told from no request. GET /users, GET /studios/users, GET           *)
(* /server/games/:gameId/users and the login only read.                    *)
(***************************************************************************)
EXTENDS Catalog

CONSTANTS
    Accounts,            \* PlayFab ids; one e-mail each
    Wallets, NoWallet,
    Amounts,             \* the amounts of balance requests, in wei
    Requests,            \* the requests that write users
    NoUser,
    MaxFaults            \* bound: requests that die on the way

UserDocs == [studio : Studios, wallet : Wallets \cup {NoWallet}, balances : [Currencies -> Int]]

ASSUME AccountsAssumption ==
    /\ NoWallet \notin Wallets
    /\ NoUser \notin UserDocs
    /\ Amounts \subseteq Nat \ {0}
    /\ Accounts # {} /\ Games # {} /\ Currencies # {} /\ Amounts # {}
    /\ MaxFaults \in Nat

VARIABLES
    accounts,     \* the accounts that exist at PlayFab
    users,        \* users[a]: the User document of account a, or NoUser
    stage,        \* stage[q]: what request q awaits next
    call,         \* call[q]: its account, game, key and value
    seen,         \* seen[q]: the User it read
    balance,      \* balance[q]: the new balance it computed
    credited,     \* credited[a][k]: what was there, and all increments written
    debited,      \* debited[a][k]: all decrements written so far
    overlapped,   \* the accounts with two such requests at the same time
    faults        \* faults so far

requestVars == <<stage, call, seen, balance>>
accountVars == <<accounts, users, requestVars, credited, debited, overlapped, faults>>

-----------------------------------------------------------------------------
Stages == {"new",
           "findGame", "createUser", "insertUser",   \* registration
           "readUser", "saveUser",                   \* increment
           "spend",                                  \* decrement
           "saveWallet",                             \* wallet link
           "done",                                   \* answered
           "dead"}                                   \* stopped on the way

Writing == {"readUser", "saveUser", "spend", "saveWallet"}
Signing == {"findGame", "createUser", "insertUser"}

NoBalance == -1    \* user.balances[key] is undefined

Calls == [account : Accounts, game : Games, key : Currencies, value : Amounts]
Blank == CHOOSE c \in Calls : TRUE

(* UserFactory: no wallet, and "0" of each currency of the game.            *)
NewUser(g) ==
    [studio |-> games[g].studio, wallet |-> NoWallet,
     balances |-> [k \in Currencies |-> IF k \in CurrenciesOf[g] THEN 0 ELSE NoBalance]]

(* findByAccountId                                                          *)
UserFound(a) == users[a] # NoUser

(* The unique sparse index on walletAddress, as a write of user a meets it. *)
WalletTaken_NotSparse(a, w) == \E b \in Accounts \ {a} : UserFound(b) /\ users[b].wallet = w
WalletTaken_Never(a, w) == FALSE
WalletTaken(a, w) ==
    w # NoWallet /\ \E b \in Accounts \ {a} : UserFound(b) /\ users[b].wallet = w

(* UserRepository.update writes all balances as they were read, and the     *)
(* wallet only if one was read.                                             *)
Updated_Adds(user, info) ==
    [user EXCEPT !.balances = [k \in Currencies |-> @[k] + info.balances[k]],
                 !.wallet = IF info.wallet = NoWallet THEN @ ELSE info.wallet]
Updated(user, info) ==
    [user EXCEPT !.balances = info.balances,
                 !.wallet = IF info.wallet = NoWallet THEN @ ELSE info.wallet]

Update(a, info) ==
    users' = IF WalletTaken(a, info.wallet) THEN users   \* ConflictError
             ELSE [users EXCEPT ![a] = Updated(@, info)]

AccountsInit ==
    /\ stage = [q \in Requests |-> "new"]
    /\ call = [q \in Requests |-> Blank]
    /\ seen = [q \in Requests |-> NoUser]
    /\ balance = [q \in Requests |-> 0]
    /\ credited = [a \in Accounts |-> [k \in Currencies |->
                      IF UserFound(a) /\ users[a].balances[k] > 0 THEN users[a].balances[k] ELSE 0]]
    /\ debited = [a \in Accounts |-> [k \in Currencies |-> 0]]
    /\ overlapped = {}
    /\ faults = 0

Goto(q, s) == stage' = [stage EXCEPT ![q] = s]

Start(q, c, s) ==
    /\ stage[q] = "new"
    /\ call' = [call EXCEPT ![q] = c]
    /\ Goto(q, s)

(* The answer is sent, and what the request held is gone.                   *)
Finish(q) ==
    /\ Goto(q, "done")
    /\ call' = [call EXCEPT ![q] = Blank]
    /\ seen' = [seen EXCEPT ![q] = NoUser]
    /\ balance' = [balance EXCEPT ![q] = 0]

(* Another request is about to write the user this one starts to read.      *)
NoteOverlap(q, a) ==
    overlapped' = IF \E p \in Requests \ {q} : stage[p] \in Writing /\ call[p].account = a
                  THEN overlapped \cup {a} ELSE overlapped

-----------------------------------------------------------------------------
(* POST /users/register: PlayFab creates the account, once per e-mail.      *)
RegisterAccount(q, a) ==
    /\ a \notin accounts
    /\ accounts' = accounts \cup {a}
    /\ Start(q, [Blank EXCEPT !.account = a], "findGame")
    /\ UNCHANGED <<users, seen, balance, credited, debited, overlapped, faults>>

(* The game is the one whose name contains MetalCore. With no such game     *)
(* "game.key" throws.                                                       *)
FindMetalCore(q) ==
    /\ stage[q] = "findGame"
    /\ \/ \E g \in DOMAIN games \cap MetalCoreGames :
             /\ call' = [call EXCEPT ![q].game = g]
             /\ Goto(q, "createUser")
       \/ /\ DOMAIN games \cap MetalCoreGames = {}
          /\ Goto(q, "dead")
          /\ UNCHANGED call
    /\ UNCHANGED <<accounts, users, seen, balance, credited, debited, overlapped, faults>>

(* AccountVerifier: PlayFab knows the account.                              *)
IsValidAccount(a) == a \in accounts

(* POST /studios/users by the game g.                                       *)
PostUser(q, a, g) ==
    /\ Authenticated(g)
    /\ IsValidAccount(a)
    /\ Start(q, [Blank EXCEPT !.account = a, !.game = g], "createUser")
    /\ UNCHANGED <<accounts, users, seen, balance, credited, debited, overlapped, faults>>

(* UserFactory and the first half of UserRepository.create: "User already   *)
(* exists".                                                                 *)
CheckNoUser(q) ==
    /\ stage[q] = "createUser"
    /\ IF UserFound(call[q].account) THEN Finish(q)
       ELSE Goto(q, "insertUser") /\ UNCHANGED <<call, seen, balance>>
    /\ UNCHANGED <<accounts, users, credited, debited, overlapped, faults>>

(* The unique index on accountId, and that on walletAddress.                *)
Insertable_Unchecked(a) == TRUE
Insertable(a) == ~UserFound(a) /\ ~WalletTaken(a, NoWallet)

InsertUser(q) ==
    LET a == call[q].account IN
    /\ stage[q] = "insertUser"
    /\ users' = IF Insertable(a) THEN [users EXCEPT ![a] = NewUser(call[q].game)] ELSE users
    /\ Finish(q)
    /\ UNCHANGED <<accounts, credited, debited, overlapped, faults>>

(* POST /users/login: LoginAuthorizer asks PlayFab ...                      *)
IsAuthorized(a) == a \in accounts

(* ... and the user must be there.                                          *)
CanLogIn(a) == IsAuthorized(a) /\ UserFound(a)

-----------------------------------------------------------------------------
(* BalancesController: the key is a currency of the game that asks.         *)
IsTokenValidForGame(k, g) == Authenticated(g) /\ k \in CurrenciesOf[g]

(* BalanceIncrementor.getCurrentBalance; BigInt(undefined) throws.          *)
ReadBalance(q, a, k, v) ==
    /\ UserFound(a)
    /\ users[a].balances[k] # NoBalance
    /\ balance' = [balance EXCEPT ![q] = users[a].balances[k] + v]
    /\ Start(q, [Blank EXCEPT !.account = a, !.key = k, !.value = v], "readUser")
    /\ NoteOverlap(q, a)
    /\ UNCHANGED <<accounts, users, seen, credited, debited, faults>>

(* ... apply reads the user a second time, and computed before it did.      *)
ReadUser(q) ==
    /\ stage[q] = "readUser"
    /\ seen' = [seen EXCEPT ![q] = [users[call[q].account] EXCEPT
                                        !.balances[call[q].key] = balance[q]]]
    /\ Goto(q, "saveUser")
    /\ UNCHANGED <<accounts, users, call, balance, credited, debited, overlapped, faults>>

Added(ledger, c) == [ledger EXCEPT ![c.account][c.key] = @ + c.value]

SaveUser(q) ==
    LET c == call[q] IN
    /\ stage[q] = "saveUser"
    /\ Update(c.account, seen[q])
    /\ credited' = IF WalletTaken(c.account, seen[q].wallet) THEN credited ELSE Added(credited, c)
    /\ Finish(q)
    /\ UNCHANGED <<accounts, debited, overlapped, faults>>

(* BalanceDecrementor: an undefined balance counts as zero, and the rest is *)
(* not negative.                                                            *)
CurrentBalance(a, k) ==
    IF users[a].balances[k] = NoBalance THEN 0 ELSE users[a].balances[k]
Enough(a, k, v) == CurrentBalance(a, k) >= v

ReadToSpend(q, a, k, v) ==
    /\ UserFound(a)
    /\ Enough(a, k, v)
    /\ balance' = [balance EXCEPT ![q] = CurrentBalance(a, k) - v]
    /\ Start(q, [Blank EXCEPT !.account = a, !.key = k, !.value = v], "spend")
    /\ NoteOverlap(q, a)
    /\ UNCHANGED <<accounts, users, seen, credited, debited, faults>>

(* ... and writes that one balance.                                         *)
Spend(q) ==
    LET c == call[q] IN
    /\ stage[q] = "spend"
    /\ users' = [users EXCEPT ![c.account].balances[c.key] = balance[q]]
    /\ debited' = Added(debited, c)
    /\ Finish(q)
    /\ UNCHANGED <<accounts, credited, overlapped, faults>>

-----------------------------------------------------------------------------
(* The session ticket of a request is that of an account at PlayFab.        *)
HasTicket(a) == a \in accounts

(* WalletAddressStorer, for the address that SignatureVerifier found to     *)
(* have signed the message: only a user without a wallet may link one.      *)
Unlinked_Unchecked(a) == TRUE
Unlinked(a) == users[a].wallet = NoWallet

ReadWallet(q, a, w) ==
    /\ UserFound(a)
    /\ Unlinked(a)
    /\ seen' = [seen EXCEPT ![q] = [users[a] EXCEPT !.wallet = w]]
    /\ Start(q, [Blank EXCEPT !.account = a], "saveWallet")
    /\ NoteOverlap(q, a)
    /\ UNCHANGED <<accounts, users, balance, credited, debited, faults>>

SaveWallet(q) ==
    /\ stage[q] = "saveWallet"
    /\ Update(call[q].account, seen[q])
    /\ Finish(q)
    /\ UNCHANGED <<accounts, credited, debited, overlapped, faults>>

-----------------------------------------------------------------------------
(* The database, PlayFab or the process fails before the next await         *)
(* returns: the request ends where it is.                                   *)
Die(q) ==
    /\ stage[q] \in Writing \cup Signing
    /\ faults < MaxFaults
    /\ faults' = faults + 1
    /\ Goto(q, "dead")
    /\ UNCHANGED <<accounts, users, call, seen, balance, credited, debited, overlapped>>

-----------------------------------------------------------------------------
(* The requests of the routers, by what they write.                         *)
SignupStep(q) ==
    \/ \E a \in Accounts : RegisterAccount(q, a)
    \/ \E a \in Accounts, g \in Games : PostUser(q, a, g)
    \/ FindMetalCore(q)
    \/ CheckNoUser(q)
    \/ InsertUser(q)

Increment(q) ==
    \E g \in Games, a \in Accounts, k \in Currencies, v \in Amounts :
        IsTokenValidForGame(k, g) /\ ReadBalance(q, a, k, v)
Decrement(q) ==
    \E g \in Games, a \in Accounts, k \in Currencies, v \in Amounts :
        IsTokenValidForGame(k, g) /\ ReadToSpend(q, a, k, v)
LinkWallet(q) == \E a \in Accounts, w \in Wallets : HasTicket(a) /\ ReadWallet(q, a, w)

AccountsTypeOK ==
    /\ accounts \subseteq Accounts
    /\ users \in [Accounts -> UserDocs \cup {NoUser}]
    /\ stage \in [Requests -> Stages]
    /\ call \in [Requests -> Calls]
    /\ seen \in [Requests -> UserDocs \cup {NoUser}]
    /\ balance \in [Requests -> Int]
    /\ credited \in [Accounts -> [Currencies -> Nat]]
    /\ debited \in [Accounts -> [Currencies -> Nat]]
    /\ overlapped \subseteq Accounts
    /\ faults \in 0 .. MaxFaults

-----------------------------------------------------------------------------
(* Increments, decrements and wallet links of one player that overlap lose  *)
(* each other's writes (both read, then both write), yet never leave a      *)
(* player with more than all increments put in: what is written back was    *)
(* read (BalanceIncrementor, BalanceDecrementor, WalletAddressStorer).      *)
NoMoneyFromNothing ==
    \A a \in Accounts, k \in Currencies :
        UserFound(a) => users[a].balances[k] <= credited[a][k]

(* As long as no two such requests of the player ever overlapped, nothing   *)
(* is lost: not by requests of other players, nor by a registration that    *)
(* races for the same account, nor by one that died on the way.             *)
ExactWhenAlone ==
    \A a \in Accounts \ overlapped, k \in Currencies :
        UserFound(a) /\ users[a].balances[k] # NoBalance
            => users[a].balances[k] = credited[a][k] - debited[a][k]

(* No two players hold one wallet, whatever writes of either are late: the  *)
(* scanners look a player up by the wallet (findByWalletAddress).           *)
OneUserPerWallet ==
    \A a, b \in Accounts :
        (UserFound(a) /\ UserFound(b) /\ users[a].wallet = users[b].wallet
            /\ users[a].wallet # NoWallet) => a = b

(* A wallet that was linked stays, unless two requests of the player        *)
(* overlapped: a second link is refused, and a balance that is written back *)
(* does not take the wallet away.                                           *)
WalletKept ==
    [][\A a \in Accounts \ overlapped' :
        (UserFound(a) /\ users[a].wallet # NoWallet) => users'[a].wallet = users[a].wallet]_users

(* An account without a user, which can neither log in nor register again,  *)
(* is left only by a registration that is not over or that failed halfway;  *)
(* a conflict with other players leaves none (UsersController.register).    *)
StrandedOnlyByFailure ==
    \A a \in accounts : CanLogIn(a) \/
        \E q \in Requests : call[q].account = a /\ stage[q] \in Signing \cup {"dead"}
=============================================================================
