# Nemesis: specifications of the backend of the MetalCore games

Nemesis keeps players' in-game balances, resources and assets, and moves assets
between the game and the Polygon chain. This directory holds TLA+ modules that
model it, TLC configurations that check them on small instances, and TLAPS
proofs of what matters most for every size of instance. Paths below are relative
to the repository's `src/` directory (`workers/TransactionWorker.ts` is
`src/workers/TransactionWorker.ts`).

Contents: [the system](#the-system), [modules](#modules), [runs](#runs),
[fairness](#fairness), [proofs](#proofs),
[where code and documentation disagree](#where-code-and-documentation-disagree),
[what is not modelled](#what-is-not-modelled), [plan](#plan).

## The system

Several processes share one MongoDB, one Redis and one Polygon node:

- the **API server** (`server.ts`, any number of replicas) answers studios
  (game key), players (JWT) and game servers (server key);
- **worker processes** (`worker.ts --worker ...`) run the bullmq workers
  `TransactionWorker`, `AssetDepositWorker`, `AssetWithdrawWorker`;
- one or more processes run the **WorkerScheduler**, which enqueues jobs for them
  on a timer (15 s);
- the **Game Portal** contract mints, burns and keeps the assets in custody.

They communicate only through documents, jobs and the chain. Every `await` is a
point where another request, another branch of a `Promise.all`, or another
process may run. There is no in-memory state that outlives a request or a job.

| Component | State it keeps | Operations | Hard behaviours | What makes it correct |
|---|---|---|---|---|
| Asset and resource mint requests (`services/assets/AssetCreator`, `AssetBurner`, `AssetUpdater`, `services/userResource/UserResourceIncrementor`) | `Asset` and `Transaction` documents | create, burn, reassign an asset; mint resources | two documents in one request, one of them outside the session; nothing links a mint `Transaction` to its asset | every request is carried out once; an asset goes minting, minted, burning, burnt and keeps its token |
| Transaction worker (`workers/TransactionWorker`, `SingletonWorker`, `repositories/LockRepository`) | the Redis lock; `state` and `transactionHash` of the Transactions | one job: read, follow hashes, process receipts, send batches, store hashes | processes, the lock's expiry, a death between send and store, confirmations, rejections, failed updates | one job at a time; a submitted Transaction is done, final, and on the chain in the send it records; nothing is minted twice |
| Receipt processing (`blockchain/receiptProcessors/AssetReceiptProcessor`, `AssetAssigner`, `AssetBurntStateSetter`) | `tokenId` and `state` of the assets | one attribution per log, side by side | find, then set; attributions left running by a failed sibling; logs paired with Transactions by index | no token is held by two assets; a player holds only tokens the chain will not take back |
| Transactors (`blockchain/transactors/*`) | none; a hash per batch | `callStatic`, then send | a batch is refused as a whole | each group is eventually sent |
| Contract scan (`workers/WorkerScheduler`, `ContractScanWorker`, `AssetDepositWorker`, `AssetWithdrawWorker`, `services/userAsset/*`) | a `ContractScanStatus` cursor per portal and event type; `userId` of assets | create statuses, enqueue, scan a range, move the cursor | overlapping jobs on one cursor; two scanners over one asset; a range that fails half-way | no event is skipped; the owner recorded is that of the last event; the cursor never moves back |
| Deposit and withdraw signatures (`services/assets/AssetDepositer`, `AssetWithdrawer`, `AssetSigner`) | none; the nonce on the portal | sign for the wallet's next nonce | the owner may change after the signature | a token leaves the portal only to its owner |
| Balances and wallet link (`services/balance/*`, `WalletAddressStorer`, `repositories/UserRepository`) | the `User` document | increment, decrement, link a wallet | read, compute, write: lost updates | no balance operation is lost; no balance is spent twice; a wallet is linked once |
| Access keys (`services/accessKey/*`, `repositories/AccessKeyRepository`) | the `AccessKey` documents | claim `maxAccessKeysPerPlayer` keys of a game | concurrent claims over one pool | a key has one owner for ever; no player gets more keys than the maximum |
| Player resource balances (`repositories/UserResourceRepository`, `services/userResource/*`) | `UserResource` documents | increment, decrement, deposit | upserts without a unique index; deposits deduplicated by transaction | nothing is counted twice or lost |
| Registration (`controllers/users/UsersController`, `controllers/studios/UsersController`, `playfab/*`) | the PlayFab account and the `User` document | register, create, log in | the account exists before the user | one user per account; whoever registered can log in |
| Studios, games, collections, resources (`StudioCreator`, `CollectionStorer`, `repositories/GameRepository`, `ResourceRepository`) | one document per creation | create | creations with one contract address | every reference finds its document; an address finds one game and one collection |
| Asset queries; HTTP plumbing; scripts | none, or one document per call | reads and single writes | none of their own | |

How they interact: the API leaves pending `Transaction` documents; the
transaction worker carries them to the chain and writes the outcome into the
`Asset` documents; the scanners write the owner of assets that come into and go
out of custody; the API lets the studio write the same `Asset` documents
(reassign, burn) at any time.

`PROJECT.json` lists under `hazards`, line by line, everything in this code that
is hard to reach with a test; the properties are aimed at that list.

## Modules

The core is three modules, each extending the one before, so that a behaviour is
one interleaving of the chain, the API and the workers. `ContractScan` and
`AccessKeys` stand alone: they share no document with the core but the asset's
`userId`, which each writes in states of the asset of its own.

The players are a second family, also one module on top of the other: `Catalog`
(what studios own), `UserAccounts` (the User documents), `UserResources` (what
players hold of a resource), and `Players`, which composes them.

| Module | Models | Checked as | Proved in |
|---|---|---|---|
| `GamePortal`, `AssetRequests`, `TransactionWorker`, which together implement `AssetOrders` | chain, mint and burn requests, transaction jobs | `MCTransactionWorker` | `TransactionWorkerProofs`, `TokensProofs`, `SubmissionsProofs`, `MintsProofs`, each on top of the one before |
| `ContractScan` | deposits, withdrawals and their cursors | `MCContractScan` | `ContractScanProofs` |
| `AccessKeys`, implementing `KeyPool` | claims over a pool of keys | `MCAccessKeys` | `AccessKeysProofs` |
| `Catalog`, `UserAccounts`, `UserResources`, `Players` | the API as players and studios use it | `MCPlayers` | `PlayersProofs`, `UserResourcesProofs` on top of it |

### GamePortal: the chain (external code)

`chain` is the sequence of everything ever sent; a transaction hash is a
position in it. Each send has a status: `mempool`, `mined` (receipt, too
shallow), `deep` (receipt with `confirmations` blocks on top), `reverted`,
`dropped`. Block numbers are abstracted to these, since `applySync` tells
nothing else apart. A mint of n assets yields the tokens `<<h, 1>> .. <<h, n>>`,
in the order of its `LogMinted` events; ids are never reused. `reqs` is a ghost:
the documents a send was made for, of which the contract sees only the number.
A burn of a token that the portal no longer holds reverts. `Revert`, `Reorg`
(a shallow block is replaced) and `Drop` are faults.

`faults` counts the faults of the environment; `Fault(kind)` spends one unit of
the budget `MaxFaults` on a kind the instance allows. Every fault in all three
modules goes through it, so a run says which faults it considers and how many.

### AssetRequests: the API side

| Action | Code |
|---|---|
| `CreateAsset`, `CommitMint`, `AbortMint` | `AssetCreator.apply`: the asset is written without the session, then the Transaction in it; the session commits or aborts |
| `BurnAsset` | `AssetBurner.apply` (services/assets): both writes in one session |
| `UpdateAsset` | `AssetUpdater.apply`: the part that moves an asset to another user |
| `MintResource` | `UserResourceIncrementor.apply`: its Transaction |

Documents are sequences; a document's id is its position. `creating` is the set
of `AssetCreator` calls between their two writes. The code burns an asset in any
state and reassigns one in any state; `BurnStates` and `ReassignStates` are the
states in which *the studio asks for it*. The core runs ask for burns and
reassignments of minted assets only: outside that protocol the code gets stuck
and no run asks for it:

- an asset burnt twice puts its token into two burn Transactions. In one batch
  or in two, the portal refuses a token it no longer holds, and the batch is put
  together again from the same Transactions, with every other burn in it;
- an asset reassigned while it is minting leaves the mint of its first player
  without a tokenless asset: `setTokenId` throws in every job, and the
  Transaction is followed for ever (and with it its siblings of that hash).

### TransactionWorker: jobs

Any number of `Workers` (processes), each with at most one job.

| State | Code |
|---|---|
| `lock` | the key `lock::transaction-worker`; who took it is a ghost, Redis stores 1 |
| `pc` | where `applySync` is: `fetch`, `block`, `receipts`, `process`, `transact`, `unlock` |
| `snap` | `transactions`, as read |
| `deep` | the sends deep enough at `currentBlockNumber`, as read |
| `verdict` | per followed hash: the receipt asked for, absent, shallow, confirmed, settled, rejected |
| `toSend`, `unsaved` | groups not sent yet; hashes sent and not stored yet |
| `tasks` | attributions in progress, including those left over from a `Promise.all` that rejected (`detached`) |

| Action | Code |
|---|---|
| `Acquire` | `apply` and the `lock` of `synchronizeWork` |
| `Fetch`, `ReadBlockNumber` | `findAllExceptState`, `getBlockNumber` |
| `ReadReceipt`, `Decide` | the `Promise.all` over `getTransactionReceipt`, in any order; the return on `hasUnconfirmed` |
| `FindToken`, `SetTokenId` | `AssetAssigner.apply`: `findByCollectionIdAndTokenId`, then `setTokenId` |
| `SetBurnt` | `AssetBurntStateSetter.apply` |
| `MarkSubmitted` | the end of `processReceipt` |
| `StartTransact`, `Send`, `SendRefused`, `SaveHash` | `transact`: groups side by side, the transactor, `updateTransactionStateAndHash` |
| `Unlock` | the `finally` of `synchronizeWork`: DEL, whoever holds the key |
| `Throw`, `AttributionFails`, `MarkFails`, `SendFails`, `SaveFails`, `Crash`, `LockExpires` | a failed read; a failed update of an attribution, of `markSubmitted`, of a send, of a hash; the death of a process; the expiry of the key |

Abstractions. A stale job changes nothing and is not told from no job. `DEL` and
`SET NX PX` are atomic, and so is one `updateMany`. A batch's `callStatic` and its
send are one step; two groups of one wallet racing for a nonce are send
failures. The burns of a batch are a set: the order of the `LogBurnt` events
only permutes attributions with the same effect. `toAssetObject` reads a token
id 0 as null; ids start at 1 in the model. `MintCurrency` has no producer and no
transactor. `UserResourceMinter` encodes `metadata.tokenId`, which
`ResourceTxFactory` does not set, so its batch is always refused and its receipt
branch never runs.

`AssetOrders` is what all this promises a studio, without jobs, batches, hashes
or receipts. The mapping is at the end of `TransactionWorker`:

| State | In the core |
|---|---|
| `order` | the Transactions; a burn names the asset that has its token (`Named`) |
| `stage` | `asked`; `carried` out, in a block that a reorganisation may still take; `final`, in a deep one; `done`, marked submitted |
| `item` | the assets: player, collection, and the mint an asset has its token from, which is the one with the token's place in its send (`MintsOf`) |
| `gone` | the assets that are burnt |

`CreateAsset` maps to `Create`, `UpdateAsset` to `Reassign`, `CommitMint`, `MintResource`
and `BurnAsset` to `Ask` and `AskBurn`, a block with
a send to `CarryOut`, its confirmation to `Settle`, `SetTokenId` to `Give`, `SetBurnt`
to `Burn` and `MarkSubmitted` to `Complete`; the rest of a job is a stutter. The
guards of the abstract actions are nowhere in the code. No send is compared
with the earlier sends of its Transactions (`CarryOut` needs an order that was
never carried out), `setTokenId` is not told for which Transaction it is called
(`Give` needs one that no asset has its token from, and an asset of that
player), and `markSubmitted` looks at no asset (`Complete` needs the effect).

`MCTransactionWorker` adds the symmetry of processes, users and collections.

### ContractScan: deposits, withdrawals and their cursors

One game portal with its two kinds of event. Here blocks have numbers, since the
cursors and ranges are made of them.

| State | Code |
|---|---|
| `head`, `events` | `getBlockNumber`; the logs, in order, each with its block (external) |
| `owner` | `userId` of the asset of each token |
| `requests` | pairs that passed the owner check of `AssetWithdrawer` |
| `status` | the two `ContractScanStatus` documents: `first` is the block it was created for (a ghost), `last` is `lastBlock` |
| `pass` | where `WorkerScheduler.checkPortals` is in each scheduler, with the block number and the statuses it read |
| `job` | `ContractScanWorker.apply` in each process: its range and the events whose assigner still runs |
| `loose` | assigners that a rejected `Promise.all` left running |
| `applied`, `calm` | ghosts: events whose assigner ran to its end; tokens that never moved before their last move was scanned |

| Action | Code |
|---|---|
| `NewBlock`, `Deposit`, `Withdraw`, `Reorg` | the chain (external): a reorganisation takes back the last events of blocks that are not final |
| `CheckOwner` | `AssetWithdrawer.apply`: the owner check |
| `ReadBlockNumber`, `ReadStatuses`, `KeepStatus`, `CreateStatus`, `PassFails` | `checkPortals`: the block number, `findByGameIdAndScanType`, `create` behind the unique index |
| `ReadStatus`, `ReadHead`, `QueryFilter` | `findById`; the end of the range; the events in it |
| `Assign`, `AssignFails`, `AssignLoose` | `UserAssetDepositAssigner`, `UserAssetWithdrawAssigner`, side by side in one `Promise.all` |
| `UpdateLastBlock` | `updateLastBlock`, which looks at nothing |
| `JobFails`, `Crash` | a failed read or update; the death of a process |

Abstractions. There is always a job in the queue: every pass enqueues one, and
jobs carry nothing but the id of the status; so a pass that finds both statuses
changes nothing and is left out. The nonce of a withdraw signature is read after
the owner check and any time may pass between the two, in any number of
requests, so whoever passed the check once may have a good signature later:
`requests` only grows. Anyone with a wallet may deposit. Blocks are visible when
the next one exists, hence at least one confirmation (the default is 200). The
studio's reassignment of an asset is left to the core. Tokens begin in custody,
minted for `InitialOwner`. Games are independent: each has its portal and its
statuses.

`MCContractScan` gives all tokens to one user and adds symmetry.

### AccessKeys: claims over a pool of keys

| State | Code |
|---|---|
| `owner` | the `AccessKey` documents of one game, in natural order; `NoUser` while a key is not active |
| `stage`, `player` | where each PATCH request is in `AssetConditionalKeyClaimer.apply`, and whose it is |
| `available`, `todo`, `given` | `availableKeys`; the `activateKeyById` calls that run; the keys they returned |

| Action | Code |
|---|---|
| `GenerateKey` | the script that imports keys |
| `ReadKeys` | `validateGameId` and the reads of the first `Promise.all` |
| `CheckClaimedKeys` | `checkClaimedKeys` |
| `Refuse`, `Qualify` | the checks of owned assets and of the number of keys left |
| `ActivateKeyById`, `ActivationFails` | one `findOneAndUpdate` per key, side by side |
| `Answer` | the serializer, which throws on a null among the keys |
| `Crash` | the API process dies |

Abstractions. `find().limit(n)` without a sort returns documents in natural
order, which MongoDB keeps for a collection nothing is deleted from;
`CapPerPlayer` rests on it. The maximum is at least 1: `limit(0)` means no
limit. Whether the player owns an asset of the game is left open (`Refuse` is
always possible). Games do not share keys.

`KeyPool` is what a game promises about its keys, without requests: `Add` a key,
`Give(u, k)` a free key to a player who has fewer than the maximum, `Answer(c, u)`
a claim, once, with all the keys of a player who has the maximum and whom no
other claim was answered for. `AccessKeys` implements it with `answer[c]` being
`given[c]` once the claim is answered and nothing before: activations map to
`Give`, `Answer` of a complete claim to `Answer`, everything else stutters. The
abstract guards are not in the code: no claim looks at how many keys its player
has when it activates one, and none compares its answer with another's.

### Catalog: studios, games, collections, resources

| Action | Code |
|---|---|
| `CreateStudio` | `StudioCreator` |
| `PostGame` | `GamesController`: `GameFactory`, `GameValidator`, `GameRepository.create` |
| `CreateCollection` | `scripts/createCollection`: `CollectionFactory`, `CollectionStorer` |
| `PostResource` | `ResourcesController`: `CollectionOwnershipVerifier`, `ResourceFactory`, `ResourceRepository.create` |
| `SetResourceToken` | the token id of a resource, which no code of the repository sets |

Documents are never deleted, so that what a creation looks up is still there
when it writes and a creation is one step; the unique indexes decide at the
write. Names, chains and types are left out.

### UserAccounts: players, balances, wallets

| State | Code |
|---|---|
| `accounts` | the accounts at PlayFab (external) |
| `users` | the `User` document of each account: studio, wallet, balances (`NoBalance` for a currency it has no entry of) |
| `stage`, `call` | which await each request is at, and its arguments |
| `seen`, `balance` | the user object and the new balance a request holds |
| `credited`, `debited` | ghosts: the increments and the decrements that were written |
| `overlapped` | ghost: players with two requests at once that write their document |

| Action | Code |
|---|---|
| `RegisterAccount`, `FindMetalCore`, `CheckNoUser`, `InsertUser` | `users/UsersController.register`: PlayFab, `Game.findOne`, then the find and the insert of `UserRepository.create` |
| `PostUser` | `studios/UsersController.post`, which goes on with the same two steps |
| `ReadBalance`, `ReadUser`, `SaveUser` | `BalanceIncrementor.apply`: two reads and `UserRepository.update` |
| `ReadToSpend`, `Spend` | `BalanceDecrementor.apply`: a read and `findOneAndUpdate` |
| `ReadWallet`, `SaveWallet` | `WalletAddressStorer.apply`: a read and `UserRepository.update` |
| `Die` | a failure of the database, of PlayFab or of the process |

`UserRepository.update` writes all balances, as they were read, and the wallet if
there is one. A request that is refused by what it reads first (no such user, a
bad signature, not enough balance) changes nothing and is not told from no
request. An e-mail is one PlayFab account.

### UserResources: what players hold of a resource

| State | Code |
|---|---|
| `userResources` | the documents, in the order of insertion |
| `minted` | the quantities in `MintResource` Transactions, per player |
| `spent` | ghost: what decrements took |
| `txIdIndex` | whether the database has the unique index on `deposits.txId`: the schema declares it inside an Array type, and it is not built over documents that violate it |
| `jobStage`, `job`, `snapshot` | where each request or event is; what it adds to which document; what its session found |
| `raced` | ghost: players with two jobs at once |

| Action | Code |
|---|---|
| `StartMint`, `CommitMint`, `AbortMint` | `UserResourceIncrementor.apply`: the session reads a snapshot, then both writes take effect or neither, and a write to the same document in between is a conflict |
| `DecrementResource` | `UserResourceDecrementor.apply`: one `updateOne` with `$gte` |
| `ResolveDeposit` | the lookups of `UserResourceDepositIncrementor.apply` |
| `CountDeposit`, `InsertDeposit` | `incrementBalanceWithDeposit`: the update, or the insert of an upsert that found no document |
| `JobDies` | a failed lookup or update, the death of the process |

A request names one resource. Transactions of MongoDB have snapshot isolation;
an upsert outside a session is a find and an insert that others may come between.
`ResourceDepositWorker` scans like the workers of `ContractScan`, so that an
event may be handed over any number of times, in any order; nothing starts that
worker at this commit, and the module says what would happen if it ran.

### Players

Requests, jobs and catalog writes interleave freely. `Starts` are the documents a
behaviour begins with, which earlier requests left, and the kinds of request
that arrive in it; the kinds bound the workload of an instance and nothing else.

## Runs

| Run | Question | Instance |
|---|---|---|
| `core_safety` | Are documents, jobs and chain consistent, whatever is interleaved and whatever fails? | 2 processes, 2 players, 1 collection, 3 Transactions, 4 sends, 2 assets; mint, burn, reassign; any 2 of: aborted commit, failed read or update, lost hash, process death, revert, reorganisation, drop |
| `core_liveness` | Does every asset request get submitted, and every asset settle, and does everything together do what `AssetOrders` promises, when no process dies and no hash is lost? | 2 processes, 1 player, 3 Transactions of all kinds, 4 sends, 2 assets; 1 database error or revert |
| `core_expiry` | What survives if the lock expires under a running job, so that two jobs overlap? | 2 processes, 2 collections, 1 player, 2 mints, 2 sends; 1 expiry |
| `crash_mints_twice` | Is a request minted once? (no) | 1 death |
| `orphan_asset` | Does a failed creation store nothing? (no) | 1 aborted commit |
| `resource_never_sent` | Is every resource mint sent? (no) | no faults, fair |
| `contract_scan` | Is every event applied, only when final, and to the right owner, when jobs overlap and fail? | 2 deposit scanners, 1 withdraw scanner, 1 scheduler, 2 tokens, 2 users of whom one has no wallet, 4 blocks, 3 events, 2 confirmations, batches of 2; 1 failure, death or reorganisation |
| `contract_scan_liveness` | Is every final event applied in the end, though cursors may move back and schedulers race? | 1 deposit and 2 withdraw scanners, 2 schedulers, 3 blocks, 1 event; 1 fault |
| `custody` | Does the recorded owner agree with custody once all is scanned? (no) | 1 process of each scanner, 2 events, no faults |
| `access_keys` | Do concurrent claims keep the maximum, and one owner for each key, and implement `KeyPool`? | 3 claims of 2 players, 5 keys, 2 each; 1 failed update or death |
| `claims_share_keys` | Does a player who gets a key get all of them? (no) | 2 claims, 3 keys, no faults |
| `players` | What do requests of one player that overlap, repeated deposits and half-done registrations leave behind? | 3 requests and 3 jobs, 2 accounts, 2 games with different currencies, 2 wallets, 3 deposits of which two are of one transaction; with and without the index; 1 death |

Properties of `core_safety`:

- `TypeOK`;
- `OneJobInside`: one process at most is inside its job;
- `OneAssetPerToken`: no two assets of a collection hold the same token;
- `PlayersHoldFinalTokens`: a token is on an asset only if its mint is deep, of
  that collection, and large enough to have created it;
- `BurntIsFinal`: an asset is burnt only if a deep burn burnt its token;
- `SubmittedIsDone`: a submitted Transaction is in the deep send it records and
  its effect is in the Asset collection, also when receipts were processed
  half-way by an earlier job;
- `RecordedAsSent`: the Transactions that record a hash are those it was sent
  for, or none: the pairing of logs with Transactions by index rests on it;
- `EveryMintHasAnAsset`: for each player and collection, there are at least as
  many tokenless assets as mints yet to be given a token. This is what makes
  `setTokenId`, which takes any of the player's tokenless assets, always find one;
- `SubmittedIsFinal`: no step changes a submitted Transaction;
- `AssetLifecycle`: minting, minted, burning, burnt, in this order, and a token
  once set stays.

`core_liveness` adds `WaitsForReceipts` (a job sends only if every hash it
follows has a receipt), `MintedOnce`, `EveryRequestIsSubmitted`,
`EveryAssetSettles`, and `ImplementsAssetOrders`: every step of the core is a step
of `AssetOrders` or leaves it as it is. `MintedOnce`, and with it the refinement,
fails if a process may die or a hash may be lost: that is `crash_mints_twice`.

`core_expiry` keeps the properties that do not rest on the lock. What fails
there, by design of a lock that expires, is `OneJobInside`.

Properties of `contract_scan`:

- `NoEventSkipped`: a cursor never stands beyond an event, since its status was
  created, that was not applied: overlapping jobs may move it back, never past
  an event that failed;
- `ScansOnlyFinal`: what was applied stays in the chain. The assigners that a
  failed job left running are included;
- `CalmTokensAreRecorded`: a token whose every move was settled before the next
  one is recorded with its depositor, or with nobody once withdrawn. "Settled"
  is that the cursor passed the move and no job or loose assigner will apply it
  again. `custody` shows what happens to the others;
- `LoneScannerMovesForward`: with one process for a type of event its cursor
  never moves back. With two it does: `updateLastBlock` compares nothing.

Properties of `access_keys`: `CapPerPlayer`, although claims of one player may
all pass `checkClaimedKeys` before any activates a key (they then compete for
the same first keys); `KeyGivenOnce`; `ShortOnlyByRivals`, only a key lost to
another player's claim leaves a player short: `claims_share_keys` is that case;
`ImplementsKeyPool`, the refinement above.

Properties of `players`:

- `CatalogSound`: every reference finds its document, and a contract address
  finds one game and one collection;
- `NoMoneyFromNothing`: whatever overlaps, no player has more of a currency than
  the increments put in. (That decrements and increments are lost when two
  requests of one player overlap is what the code does: see below.);
- `ExactWhenAlone`: as long as no two requests of a player overlapped, the
  balance is exactly what was put in less what was taken, also next to requests
  of others, two creations of one user, and requests that died;
- `OneUserPerWallet`, `WalletKept`: a wallet finds one player, and a wallet once
  linked stays unless two requests of that player overlapped;
- `StrandedOnlyByFailure`: an account at PlayFab without a user is one whose
  registration is under way or failed half-way, never one that met another;
- `BalanceIsItsHistory`: over all documents, what a player holds is what will be
  minted and what was deposited, less what was spent;
- `NeverOverspent`: concurrent decrements leave no negative balance;
- `TxCountedOnce`: with the index, a transaction is in one document at most;
- `SplitOnlyByRace`: a player has two documents for a collection only if two
  jobs of the player ran at once or, without the index, a transaction was
  counted again.

Bounds and why they are enough, for the core. Two processes are the smallest number with an
overlap, and jobs of one process are sequential. Three Transactions allow two
mints in one batch (pairing by index, two attributions of one player competing
for one asset) followed by a burn, or mints of two players. Four sends allow a
rejected batch to be sent again, twice, next to a burn. Two faults allow a fault
and a second one during the recovery from it. At the bound on sends the node
takes no more, which the code handles as a send that fails. `core_expiry` uses two
collections because the unique index is per collection. The liveness run has no
drop (a dropped send blocks every later job, and the code has no way out), no
death and no lost hash (after which a burn group may be refused for ever) among
its faults. It has one player, as liveness is checked without symmetry: that no
token goes to another player is checked by `core_safety`, where
`EveryMintHasAnAsset` fails if one does, and is part of the theorem about
`AssetOrders` for any number of them.

For `ContractScan`: two scanners of one type are the least that overlap on a
cursor, and one of the other type competes for the same asset. Four blocks with
two confirmations give three positions of the cursor, so that a range can be
empty, partial or cut by the batch size, and an event may lie on either end of
it; three events are a withdrawal and a deposit of one token, and a move of
another in the same range (one assigner fails, its sibling runs on). One fault
is enough to fail, kill or take back; a second one costs more states than a
run affords. For `AccessKeys`: three claims are two of one player and a rival;
five keys of which each player may have two leave room for both players, and
for keys that arrive between two reads.

For `players`: two requests are the least that overlap and a third one comes
after the damage, or in between as the request of the other player. There are
four starts: an empty database with catalog writes and registrations; a game
with neither users nor accounts, with registrations and increments; two users of
different games with a balance, with increments, decrements and links; two users
of whom one has a wallet, with all kinds of resource job and a link. Requests of
kinds that share no document (balances and resources) are not mixed beyond that.
Three jobs let two hand-overs of one event race while a third one is a mint, a
decrement, or the other event of the same transaction. Requests and jobs are
symmetric: the starts do not name them.

Deadlock is checked in the core and in `ContractScan`: some process can always
start a job. It is not in `AccessKeys` and in `Players`, where every claim, request
and job may be over.

## Fairness

`FairSpec` assumes weak fairness of: some process starting a job (the scheduler
keeps enqueuing on a timer and a lock that is free is taken), each started job
(a process that does not die runs on), the node mining and confirming each send,
an `AssetCreator` call reaching its second write, and Redis expiring a key whose
holder is gone. Nothing is assumed of the studio, which may never ask for
anything, or of faults, which may never happen. Weak fairness of `JobStep(w)` is
enough because a step of a job stays possible until it is taken: nothing
another process does disables it. `Acquire` is fair for some process, not for
each: the queue hands a job to whichever worker is free.

`FairSpec` of `ContractScan` assumes weak fairness of new blocks, of each
scheduler's pass (the timer goes on) and of each worker's job (jobs are enqueued
every interval and bullmq hands them out). A step of a job or of a pass stays
possible until it is taken. Nothing is assumed of players or of faults.

## Proofs

Eight modules hold proofs, for any values of the constants, any bounds and any
faults, from the named assumptions of the modules alone: `BoundsAssumption`,
`WorkerAssumption` (`NoWorker` is no worker), `ScanAssumption`, `KeysAssumption`,
`CatalogAssumption`, `AccountsAssumption`, `ResourcesAssumption` and
`StartsAssumption` (the documents a behaviour starts with are in their types and
sound). `ResourcesAssumption` says among others that there are finitely many
resources, without which what players hold has no sum. TLC evaluates each of them in the runs. Every invariant below was checked
with TLC on the instance of its run before it was proved.

Every invariant, every action property and both refinements that a passing run
checks are stated by a theorem; only liveness is left to TLC alone.

### Hypotheses

Some theorems of the core hold only within limits that the code does not
enforce. They are hypotheses of those theorems, never assumptions of a module,
and each is satisfied by the run that checks the property:

| Hypothesis | Says | Why it is needed | Satisfied by |
|---|---|---|---|
| `TTLHolds` | the key does not expire under a running job | two jobs at once save hashes over each other's | `core_safety`, `core_liveness` |
| `OnlyMintedBurnt` | the studio asks to burn minted assets only | `AssetBurner` looks at the token, not at the state: an asset that is burnt would go back to burning, and two orders would name one asset | every run of the core |
| `BurntStaysBurnt` | the studio asks for no burn of a burnt asset | the effect of a submitted burn would be undone | every run of the core |
| `KeptWhileMinting` | the studio reassigns no asset that is minting | the mint of the first player is left without an asset | every run of the core |
| `NoReorgs` | no block with a receipt is taken back | the receipt a job waited for may be gone again when it sends | `core_liveness` |
| `NothingIsLost` | `TTLHolds`, `NoReorgs`, no death and no failed save of a hash | `crash_mints_twice` | `core_liveness` |

Theorems without a hypothesis hold for any faults, the expiry of the lock under a
job included.

### The core

`TransactionWorkerProofs`:

| Theorem | Statement | Argument |
|---|---|---|
| `TypeCorrect` | `Spec => []TypeOK` | `TypeInv`, which is `TypeOK` with two facts it needs: there is room for the Transactions of the calls in `creating`, and what a job read is no longer than what is stored |
| `UniqueTokens` | `Spec => []OneAssetPerToken` | `OneAssetPerToken` is inductive with the types: only `SetTokenId` sets a token, behind the unique index |
| `MutualExclusion` | `TTLHolds => (Spec => []OneJobInside)` | `LockInv`: a process inside its job holds the key. A dead process leaves it behind, and it is then deleted only by expiry, since DEL is the last step of a job |
| `SubmittedForever` | `TTLHolds => (Spec => SubmittedIsFinal)` | below |

`SubmittedForever` says that no job ever writes over a submitted Transaction.
Its invariant ties what a job holds in memory to the documents:

- `JobInv`: every Transaction a job will follow, send or has sent is still
  unsubmitted in the collection, since only this job can have changed it
  (`LockInv`) and it changes each at most once: a hash is followed, or its
  Transactions are sent again, never both, and a Transaction is in one group;
- `TaskInv`: the attributions in progress of a running job are for Transactions
  it follows; those of an earlier job only write assets;
- `NotSubmitted`: the three kinds of Transaction ids a job holds.

Without `JobInv` the invariant is not inductive: an arbitrary `unsaved` hash
could name a submitted Transaction.

`TokensProofs`, about what reaches the assets:

| Theorem | Statement | Argument |
|---|---|---|
| `TokensAreFinal` | `Spec => []PlayersHoldFinalTokens` | `ReceiptsInv`, below |
| `BurnsAreFinal` | `Spec => []BurntIsFinal` | `ReceiptsInv`: the send of an attribution of a burn burns the token it looks for |
| `AssetsLiveInOrder` | `OnlyMintedBurnt => (Spec => AssetLifecycle)` | `LifeInv`: an asset is minting exactly as long as it has no token, and the token of a burn request is that of an asset on its way out |

`ReceiptsInv` follows a token from the chain to the asset, through all that a
stale job may hold: a send carries Transactions of one kind and one collection
(`SendsInv`); a Transaction records a send it was part of, and so did the one a
job has read (`HashInv`); what a job takes for deep is deep for good (`DeepInv`,
the point of counting confirmations); and an attribution is of a deep send and
carries one of its tokens (`TokensInv`). None of it needs the lock.

`SubmissionsProofs`, about what the documents say of the sends:

| Theorem | Statement | Argument |
|---|---|---|
| `LogsMeetTheirRequests` | `TTLHolds => (Spec => []RecordedAsSent)` | `RecordInv`, below |
| `SubmittedAreDone` | `TTLHolds /\ BurntStaysBurnt => (Spec => []SubmittedIsDone)` | `DoneInv`, below |

`RecordedAsSent` is not inductive: a job saves a hash over Transactions it read
many awaits before. `RecordInv` adds that Transactions of one hash are in one
state (`SameState`: `updateMany` writes all of them), and, for each job, what has
become of each Transaction since it was read (`SnapInv`): it is untouched, or
this job marked it, or this job saved one of its own sends in it; and a hash yet
to be saved is recorded nowhere, is of a batch of its own, and its Transactions
are untouched. So the Transactions of a send keep its hash, or lose it, all at
once, and the logs of its receipt are paired with all of them.

`DoneInv` is why `processReceipt` may mark what it marks: while a receipt is
processed, each of its Transactions has had its effect or has an attribution
that this job still waits for (`ProcessedInTime`). An attribution that fails
ends the wait of its whole job, and those it leaves running no longer count.
An effect is never undone (`OneAssetPerToken`, `BurntStaysBurnt`), so that a second
pass finds what the first one did.

`MintsProofs`, about what is sent and when:

| Theorem | Statement | Argument |
|---|---|---|
| `SendsWait` | `NoReorgs => (Spec => WaitsForReceipts)` | `AsksInv`: a job has its answer for every send it follows before it goes on, and an answer stays true |
| `NoRequestMintedTwice` | `NothingIsLost => (Spec => []MintedOnce)` | `LiveInv`: a send that has not failed is recorded by all its Transactions, or the job that made it is about to record it. What a job sends again failed before (`ResentFailed`) |
| `MintsHaveAssets` | `TTLHolds /\ KeptWhileMinting => (Spec => []EveryMintHasAnAsset)` | below |
| `RequestsImplementOrders` | `NothingIsLost /\ OnlyMintedBurnt => (Spec => ImplementsAssetOrders)` | below |

`EveryMintHasAnAsset` counts: mints without their token, and creations half-way,
against tokenless assets, per player and collection. Each step changes both sides
or the greater one only, once it is known that a mint that got its token keeps
it, which is the hard part: a job sends again only what a failed send carried,
and a failed send gave no token and never will (`RejectedUnused`); an attribution
is of the send that its Transaction records (`RecordedByTask`); and its token is
that of its own place in the batch (`OwnPlaces`). So `setTokenId`, which takes any
tokenless asset of the player, takes the last one from nobody.

`RequestsImplementOrders` has one lemma per kind of step. Its invariant,
`OrdersKnown`, is made of those above and `TokensHaveMints` (a token is of some
request of its send). What makes a step of the code one of `AssetOrders` is:

- a request is in one send at most that has not failed (`OneSend`, from `LiveInv`), so that no other send has carried out, or made final, what a
  send that is mined or confirmed now carries (`SubmittedElsewhere`, `OthersStay`);
- the token of an attribution is that of its Transaction (`OwnMint`), so that two
  assets with tokens from one mint would hold one token, and the unique index
  refuses the second (`AttributedIsFinal`, `SetTokenIdIsGive`);
- a burn asks for the token of a minted asset, and every asset that an earlier
  burn named is burning or burnt (`LifeInv`): no asset is named twice, and the
  asset a burn names is the same for ever (`NamedIsOne`, `NamedKept`);
- a job marks the Transactions of a receipt when each has had its effect
  (`ProcessedInTime`, `MarkIsComplete`).

### The scan

`ContractScanProofs`:

| Theorem | Statement | Argument |
|---|---|---|
| `Typing` | `Spec => []TypeOK` | `Bounds` (what passes and jobs read of the chain is behind it, and a job's range is final) together with `FinalInv` |
| `OnlyFinalEvents` | `Spec => []ScansOnlyFinal` | `FinalInv`: whatever was applied, is to be applied by a job, or is left running is an event of a final block; the chain keeps those |
| `NothingSkipped` | `Spec => []NoEventSkipped` | `DoneInv`, below |
| `LoneMovesForward` | `Spec => LoneScannerMovesForward` | `LoneInv`: the job of the only process of a type starts right after the cursor |
| `CalmOwnersAreRight` | `Spec => []CalmTokensAreRecorded` | `CalmInv`, below |

`NoEventSkipped` is not inductive: a job moves the cursor to an end it computed
long before, when others have moved it since. `DoneInv` adds, for each job, that
every event below its range is applied, and every event in it is applied or
still to do once the events were read. It is kept by the chain because a new
event is in a block that no cursor and no final range has reached (`Bounds`),
and by a new status because its type had no jobs.

`CalmInv` has three parts: what a job has still to do lies in its range
(`HeldInRange`), so that nothing held by a job or left running is settled; every
move of a calm token but the last is settled (`EarlierSettled`), and stays so,
also when a late job moves the cursor back, since its range begins after the
move; and the owner is what the last *applied* move made it (`LastWritten`). It is
not the last move that counts: a reorganisation may take that one back, and
then the one before it is the last again.

### The claims of keys

`AccessKeysProofs`:

| Theorem | Statement | Argument |
|---|---|---|
| `KeysTypeCorrect` | `Spec => []TypeOK` | inductive |
| `NoPlayerOverTheMaximum` | `Spec => []CapPerPlayer` | `CapInv`: the keys a player has and those his qualified claims may still activate are together at most the maximum, and what a claim has read is, as far as it is still free, among the first free keys now |
| `NoKeyGivenTwice` | `Spec => []KeyGivenOnce` | a key given is active and belongs to the claim's player |
| `AllKeysUnlessRivals` | `Spec => []ShortOnlyByRivals` | `ShortInv`: a key that is taken was given to a claim and, as long as nothing failed, a key that an activating claim read and no longer has to do is taken: by the claim, or by one that was given it first |
| `ClaimsImplementPool` | `Spec => ImplementsKeyPool` | below |

`ClaimsImplementPool` shows that every step of the claims is a step of the pool or
leaves it as it is. The guard of `Give` follows from `CapPerPlayer` after the step:
one key more and the player is still within the maximum (`RoomForOne`). The guards
of `Answer` follow from `ReadInv` (a claim that activates keys read as many as the
maximum, and one that was answered was given all it read) with `CapPerPlayer` and
`KeyGivenOnce`: as many keys as the maximum, all of them the player's, are all the
player has (`AllOfThem`), and two answered claims share no key.

### The players

`PlayersProofs`:

| Theorem | Statement | Argument |
|---|---|---|
| `CatalogStaysSound` | `Spec => []CatalogSound` | nothing is ever deleted, and a creation finds what it refers to |
| `WalletsStayUnique` | `Spec => []OneUserPerWallet` | every write of a user is behind the unique index, late ones included |
| `NoMoneyOutOfRaces` | `Spec => []NoMoneyFromNothing` | `MoneyInv`: what any request is about to write is within the increments so far and its own (`Covered`) |
| `AloneNothingIsLost` | `Spec => []ExactWhenAlone` | `AloneInv`, below |
| `LinkedForever` | `Spec => WalletKept` | `AloneInv`: the wallet a request writes back is the one that is there |
| `NobodyStrandedByRaces` | `Spec => []StrandedOnlyByFailure` | inductive with the types: of two registrations that meet, the one whose insert is refused met a user |

`AloneInv`: two requests about to write one user are noted as overlapping
(`OverlapNoted`); as long as a player is not noted, what a request read of the user
is still so (`AllStillSo`: the balance it computed, the balances and the wallet
it will write back), and an account without a user has seen no money. The proofs
go through one lemma per kind of step (`Effect`: a step changes one request and
writes, inserts or leaves its user), from which each invariant follows by cases.

`UserResourcesProofs`, on top of it:

| Theorem | Statement | Argument |
|---|---|---|
| `PlayersTypeCorrect` | `Spec => []TypeOK` | the types of catalog and accounts, and `ResourcesInv`: what a job under way holds |
| `NothingOverspent` | `Spec => []NeverOverspent` | the check and the subtraction of `decrementBalance` are one update |
| `EachTxCountedOnce` | `Spec => []TxCountedOnce` | the index refuses whichever of two inserts comes second |
| `SplitsNeedARace` | `Spec => []SplitOnlyByRace` | `SplitInv`: two jobs of one player are noted (`RaceNoted`), and otherwise a job about to insert found no document that there is now (`NoneYet`) |
| `BalancesAreTheirHistory` | `Spec => []BalanceIsItsHistory` | `HistoryInv`, below |

`HistoryInv` adds what makes each write count once and for the right player: what
a session found is a document of its job's player, and a job adds to a document
the amount of the deposit it records there (`OwnsWork`); and a document has finitely many
deposits (`FiniteDeposits`). A step
changes one document, one deposit, or what is minted or spent of one resource, and
both sides by the same. That a sum over a finite set changes by what one element
changes by (`SumChange`), or what one element adds (`SumAdd`), is proved for the
sums of the community modules by induction over subsets: the smallest one that
fails, which exists because cardinalities are well founded, cannot be.

### Only model-checked

The liveness properties `EveryRequestIsSubmitted`, `EveryAssetSettles` and
`EveryEventIsApplied`: temporal reasoning under fairness is out of this prover's
reach. Nothing else.

## Where code and documentation disagree

| Run | Observation |
|---|---|
| `crash_mints_twice` | `transact` sends, then stores the hash. A process that stops in between leaves the Transactions pending and the next job mints them again, though the README has a request for "an ERC-721 token" |
| `orphan_asset` | a creation that fails leaves its asset behind (the session is not passed), though the integration test says it "does not store anything" |
| `resource_never_sent` | the transactor of resource mints reads a field nothing sets: no resource mint is ever sent |
| `custody` | deposits and withdrawals of one token are applied by two scanners in any order: a token withdrawn and deposited again between two scans may end with no owner while the portal holds it, though the README says that a deposited token is one the game can see |
| `claims_share_keys` | two players who claim at once read the same keys and get a part each; the null among them is an error to the player, who can never claim again, though a claim is to return all the keys |

Seen while modelling, and allowed for by the properties of `players` rather than
shown by a run of its own:

- concurrent balance requests of one player lose each other's writes: of two
  increments one may be gone, though each "sums up with the existing amount"
  (`test/integration/balances/BalanceIncrementor.test.ts`); a wallet link that
  overlaps an increment undoes it. The properties say how far this goes;
- a player registered through one game has no balance of the currencies of the
  studio's other games: an increment of one of them throws (`BigInt(undefined)`),
  for ever, though players are "able to play all games within a Studio"
  (`README.md`). A decrement reads the missing balance as zero;
- of two deposits in one transaction, the second is dropped with the index (the
  upsert finds no document without that `txId`, and the E11000 of its insert is
  ignored), and counted in a second document without it;
- with the unique index on `deposits.txId`, one document of the collection may have
  no deposit, and the first increment of every other player is refused.

## What is not modelled

- Asset queries, attributes, tokens, health and info endpoints: reads, or a
  write of a field nothing else reads.
- HTTP routing, authentication middlewares, serializers, validators, metrics,
  configuration and container wiring: stateless.
- `scripts/`: one-off maintenance run by hand.
- The cursor of `ResourceDepositWorker` and `WorkerScheduler.checkCollections`:
  nothing starts them at this commit. What a deposit of a resource writes is in
  `UserResources`.

## Plan

Done: the core with its abstract orders, `ContractScan`, `AccessKeys` with its
abstract pool, the players with their catalog, accounts and resources; and the
proofs of all their safety properties and of both refinements. Left are the two
protocols of the studio that `OnlyMintedBurnt` and `KeptWhileMinting` exclude: how
far the damage of a second burn or of a reassignment during the mint goes.
