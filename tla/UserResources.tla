--------------------------- MODULE UserResources ---------------------------
(***************************************************************************)
(* The resources of players: one UserResource document per player, game    *)
(* and collection is meant, holding a balance per resource and the         *)
(* deposits that were counted. Three kinds of job write it: the increment  *)
(* of a studio (with the Transaction that mints it, in one session), the   *)
(* decrement, and the deposits the ResourceDepositWorker finds.            *)
(*                                                                         *)
(* One resource is incremented per request. No index makes a document      *)
(* unique: an upsert that finds none and the insert that follows are two   *)
(* steps.                                                                  *)
(***************************************************************************)
EXTENDS UserAccounts, Sequences, FiniteSets, Functions

CONSTANTS
    Jobs,          \* the requests and events that write user resources
    Quantities,
    Deposits,      \* the LogERC1155Deposited events
    NoDoc

(* A document, and what a job adds to one.                                  *)
UserResourceDocs ==
    [user : Accounts, game : Games, collection : Collections,
     balances : [Resources -> Int], deposits : SUBSET Deposits]
Entries ==
    [user : Accounts, game : Games, collection : Collections, resource : Resources,
     amount : Quantities]

ASSUME ResourcesAssumption ==
    /\ IsFiniteSet(Resources)
    /\ Quantities \subseteq Nat \ {0}
    /\ \A e \in Deposits : e.contract \in Addresses /\ e.amount \in Quantities
    /\ NoDoc \notin Entries /\ NoDoc \notin Nat \X UserResourceDocs

VARIABLES
    userResources,  \* the documents, in the order of their insertion
    minted,         \* minted[a]: the quantities of a in MintResource Transactions
    spent,          \* spent[a]: what the decrements of a took
    txIdIndex,      \* whether MongoDB has the unique index on deposits.txId
    jobStage, job, snapshot,
    raced           \* the players with two jobs at the same time

jobVars == <<jobStage, job, snapshot>>
resourceVars == <<userResources, minted, spent, txIdIndex, jobVars, raced>>

-----------------------------------------------------------------------------
JobStages == {"new",
              "commit",    \* the session of an increment is open
              "deposit",   \* a deposit is resolved, its update is out
              "insert",    \* ... its upsert found no document to update
              "done"}

(* The key of a document and what is added to it.                           *)
Entry(a, g, c, r, n) == [user |-> a, game |-> g, collection |-> c, resource |-> r, amount |-> n]

IsDocOf(doc, e) == doc.user = e.user /\ doc.game = e.game /\ doc.collection = e.collection
DocsOf_Holding(e) ==
    {i \in DOMAIN userResources :
        IsDocOf(userResources[i], e) /\ userResources[i].balances[e.resource] > 0}
DocsOf(e) == {i \in DOMAIN userResources : IsDocOf(userResources[i], e)}

(* $inc of the balance of the resource ...                                  *)
Incremented(doc, e) == [doc EXCEPT !.balances[e.resource] = @ + e.amount]

(* ... in the document of an upsert that found none.                        *)
NewDoc(e, deposits) ==
    Incremented([user |-> e.user, game |-> e.game, collection |-> e.collection,
                 balances |-> [r \in Resources |-> 0], deposits |-> deposits], e)

(* The index is declared inside an Array type and built when the process    *)
(* starts, unless it cannot be: a database may have it or not. It lets one  *)
(* document of the collection have no deposit, and each txId be in one.     *)
TxIds(doc) == {d.tx : d \in doc.deposits}
IndexRefuses_Never(i, txs) == FALSE
IndexRefuses(i, txs) ==
    /\ txIdIndex
    /\ \E k \in DOMAIN userResources \ {i} :
          \/ TxIds(userResources[k]) \cap txs # {}
          \/ TxIds(userResources[k]) = txs

JobGoto(j, s) == jobStage' = [jobStage EXCEPT ![j] = s]

Finished(j) ==
    /\ JobGoto(j, "done")
    /\ job' = [job EXCEPT ![j] = NoDoc]
    /\ snapshot' = [snapshot EXCEPT ![j] = NoDoc]

NoteRace(j, a) ==
    raced' = IF \E i \in Jobs \ {j} : job[i] # NoDoc /\ job[i].user = a
             THEN raced \cup {a} ELSE raced

-----------------------------------------------------------------------------
(* ResourceTxFactory: the user, the collection of the game and the resource *)
(* exist; whether the resource is one of the collection is not checked.     *)
CanMint(a, g, c, r) == UserFound(a) /\ OwnsCollection(g, c) /\ ResourceFound(r)

(* POST /studios/users/resources/increment: the session finds the document  *)
(* of the player, or none.                                                  *)
StartMint(j, a, g, c, r, n) ==
    LET e == Entry(a, g, c, r, n) IN
    /\ jobStage[j] = "new"
    /\ Authenticated(g)
    /\ CanMint(a, g, c, r)
    /\ job' = [job EXCEPT ![j] = e]
    /\ \/ \E i \in DocsOf(e) : snapshot' = [snapshot EXCEPT ![j] = <<i, userResources[i]>>]
       \/ DocsOf(e) = {} /\ UNCHANGED snapshot
    /\ JobGoto(j, "commit")
    /\ NoteRace(j, a)
    /\ UNCHANGED <<userResources, minted, spent, txIdIndex>>

(* incrementBalance takes effect: the document that was found is updated,   *)
(* unless another write got to it first (a write conflict, which nothing    *)
(* retries), or a new one is inserted.                                      *)
Upserted_Overwrites(j, docs) ==
    LET e == job[j] IN
    IF snapshot[j] = NoDoc THEN docs = Append(userResources, NewDoc(e, {}))
    ELSE docs = [userResources EXCEPT ![snapshot[j][1]] = Incremented(snapshot[j][2], e)]

Upserted(j, docs) ==
    LET e == job[j] IN
    IF snapshot[j] = NoDoc
    THEN ~IndexRefuses(0, {}) /\ docs = Append(userResources, NewDoc(e, {}))
    ELSE LET i == snapshot[j][1] IN
         userResources[i] = snapshot[j][2] /\ docs = [userResources EXCEPT ![i] = Incremented(@, e)]

(* commitTransaction: the balance and its Transaction, both.                *)
CommitMint(j) ==
    /\ jobStage[j] = "commit"
    /\ Upserted(j, userResources')
    /\ minted' = [minted EXCEPT ![job[j].user] = @ + job[j].amount]
    /\ Finished(j)
    /\ UNCHANGED <<spent, txIdIndex, raced>>

(* abortTransaction: a conflict, the index, or any failure: neither.        *)
AbortMint(j) ==
    /\ jobStage[j] = "commit"
    /\ Finished(j)
    /\ UNCHANGED <<userResources, minted, spent, txIdIndex, raced>>

(* UserResourceDecrementor: one update of a document that holds enough.     *)
HoldsEnough_Any(doc, e) == TRUE
HoldsEnough(doc, e) == doc.balances[e.resource] >= e.amount

DecrementResource(j, a, g, r, n) ==
    LET e == Entry(a, g, resources[r].collection, r, n) IN
    /\ jobStage[j] = "new"
    /\ ResourceFound(r)
    /\ \E i \in DocsOf(e) :
          /\ HoldsEnough(userResources[i], e)
          /\ userResources' = [userResources EXCEPT ![i].balances[r] = @ - n]
    /\ spent' = [spent EXCEPT ![a] = @ + n]
    /\ NoteRace(j, a)
    /\ Finished(j)
    /\ UNCHANGED <<minted, txIdIndex>>

-----------------------------------------------------------------------------
(* ResourceDepositWorker hands an event over, again and again until its     *)
(* range is done; UserResourceDepositIncrementor finds the collection, the  *)
(* user of the wallet and the resource of the token.                        *)
ResolveDeposit(j, d) ==
    /\ jobStage[j] = "new"
    /\ \E c \in CollectionsAt(d.contract), a \in Accounts, r \in DOMAIN resources :
          /\ UserFound(a) /\ users[a].wallet = d.wallet
          /\ r \in ResourcesWith(c, d.token)
          /\ job' = [job EXCEPT ![j] = Entry(a, collections[c].game, c, r, d.amount)]
          /\ NoteRace(j, a)
    /\ snapshot' = [snapshot EXCEPT ![j] = d]
    /\ JobGoto(j, "deposit")
    /\ UNCHANGED <<userResources, minted, spent, txIdIndex>>

(* A document of the player without this txId: deposits.txId $ne.           *)
Uncounted_Any(e, d) == DocsOf(e)
Uncounted(e, d) == {i \in DocsOf(e) : d.tx \notin TxIds(userResources[i])}

(* $inc of the balance, and $push of the deposit.                           *)
Counted(doc, e, d) == [Incremented(doc, e) EXCEPT !.deposits = @ \cup {d}]

CountDeposit(j) ==
    LET d == snapshot[j]
        open == Uncounted(job[j], d) IN
    /\ jobStage[j] = "deposit"
    /\ \/ \E i \in open :
             /\ userResources' =
                    IF IndexRefuses(i, {d.tx}) THEN userResources   \* E11000 is ignored
                    ELSE [userResources EXCEPT ![i] = Counted(@, job[j], d)]
             /\ Finished(j)
       \/ /\ open = {}
          /\ JobGoto(j, "insert")
          /\ UNCHANGED <<userResources, job, snapshot>>
    /\ UNCHANGED <<minted, spent, txIdIndex, raced>>

InsertDeposit(j) ==
    LET d == snapshot[j] IN
    /\ jobStage[j] = "insert"
    /\ userResources' = IF IndexRefuses(0, {d.tx}) THEN userResources
                        ELSE Append(userResources, NewDoc(job[j], {d}))
    /\ Finished(j)
    /\ UNCHANGED <<minted, spent, txIdIndex, raced>>

(* The job fails, or its process dies: nothing more of it happens.          *)
JobDies(j) ==
    /\ jobStage[j] \in {"deposit", "insert"}
    /\ Finished(j)
    /\ UNCHANGED <<userResources, minted, spent, txIdIndex, raced>>

MintStep(j) ==
    \/ \E a \in Accounts, g \in Games, c \in Collections, r \in Resources, n \in Quantities :
          StartMint(j, a, g, c, r, n)
    \/ CommitMint(j)
    \/ AbortMint(j)
SpendStep(j) ==
    \E a \in Accounts, g \in Games, r \in DOMAIN resources, n \in Quantities :
        DecrementResource(j, a, g, r, n)
DepositStep(j) ==
    \/ \E d \in Deposits : ResolveDeposit(j, d)
    \/ CountDeposit(j)
    \/ InsertDeposit(j)
    \/ JobDies(j)

ResourcesInit ==
    /\ userResources = <<>>
    /\ minted = [a \in Accounts |-> 0]
    /\ spent = [a \in Accounts |-> 0]
    /\ txIdIndex \in BOOLEAN
    /\ jobStage = [j \in Jobs |-> "new"]
    /\ job = [j \in Jobs |-> NoDoc]
    /\ snapshot = [j \in Jobs |-> NoDoc]
    /\ raced = {}

-----------------------------------------------------------------------------
ResourcesTypeOK ==
    /\ userResources \in Seq(UserResourceDocs)
    /\ minted \in [Accounts -> Nat]
    /\ spent \in [Accounts -> Nat]
    /\ txIdIndex \in BOOLEAN
    /\ jobStage \in [Jobs -> JobStages]
    /\ job \in [Jobs -> Entries \cup {NoDoc}]
    /\ raced \subseteq Accounts

OfUser(a) == {i \in DOMAIN userResources : userResources[i].user = a}
Held(i) == SumFunctionOnSet(userResources[i].balances, Resources)
Deposited(i) == SumFunctionOnSet([d \in Deposits |-> d.amount], userResources[i].deposits)

(* However increments, decrements and repeated deposits interleave, and     *)
(* whatever is aborted, a player holds over all documents what the          *)
(* MintResource Transactions will mint and the recorded deposits brought,   *)
(* less what was spent: no update is lost, and a balance and its            *)
(* Transaction are stored together or not at all (UserResourceIncrementor). *)
BalanceIsItsHistory ==
    \A a \in Accounts :
        SumFunction([i \in OfUser(a) |-> Held(i)]) + spent[a]
            = minted[a] + SumFunction([i \in OfUser(a) |-> Deposited(i)])

(* Decrements of the same resource at the same time do not spend more than  *)
(* a document holds (UserResourceRepository.decrementBalance).              *)
NeverOverspent ==
    \A i \in DOMAIN userResources, r \in Resources : userResources[i].balances[r] >= 0

(* With the index, a transaction on the chain is counted in one document    *)
(* however often its events are handed over, also while two hand-overs both *)
(* find no document and insert one (incrementBalanceWithDeposit).           *)
TxCountedOnce ==
    txIdIndex =>
        \A i, k \in DOMAIN userResources :
            i # k => TxIds(userResources[i]) \cap TxIds(userResources[k]) = {}

(* A player has two documents for one collection only if two jobs of the    *)
(* player ran at the same time, or, without the index, a transaction was    *)
(* counted again: later decrements see one document and refuse what the     *)
(* player holds in both.                                                    *)
SplitOnlyByRace ==
    \A i, k \in DOMAIN userResources :
        (i # k /\ IsDocOf(userResources[i], userResources[k])) =>
            \/ userResources[i].user \in raced
            \/ ~txIdIndex /\ \E p, q \in OfUser(userResources[i].user) :
                    p # q /\ TxIds(userResources[p]) \cap TxIds(userResources[q]) # {}
=============================================================================
