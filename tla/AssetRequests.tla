---------------------------- MODULE AssetRequests ----------------------------
(***************************************************************************)
(* The API side: the studio's requests to mint, update and burn an asset   *)
(* (controllers/studios/AssetsController and services/assets) and to mint  *)
(* resources (services/userResource/UserResourceIncrementor), as writes to *)
(* the Asset and Transaction collections of MongoDB.  Nothing is sent to   *)
(* the chain here: a request leaves a pending Transaction document for the *)
(* transaction worker.                                                     *)
(*                                                                         *)
(* A document's id is its position; find() without a sort returns the      *)
(* documents in that order.                                                *)
(***************************************************************************)
EXTENDS GamePortal

CONSTANTS
    Users,
    MaxAssets,       \* bound: Asset documents ever created
    RequestKinds,    \* the kinds of Transaction the studio asks for
    BurnStates,      \* states of an asset in which the studio asks to burn it
    ReassignStates   \* states of an asset in which the studio reassigns it

VARIABLES
    asset,     \* the Asset documents
    tx,        \* the committed Transaction documents
    creating   \* AssetCreator calls between the two writes of their transaction

requestVars == <<asset, tx, creating>>

-----------------------------------------------------------------------------
TxTypes == {"MintAsset", "BurnAsset", "MintResource"}
TxStates == {"pending", "submitting", "submitted"}
AssetStates == {"minting", "minted", "burning", "burnt"}
NoHash == 0

AssetDocs == [owner: Users, coll: Collections, state: AssetStates,
              token: Tokens \cup {NoToken}]
TxDocs == {d \in [type: TxTypes, coll: Collections, owner: Users,
                  token: Tokens \cup {NoToken}, state: TxStates,
                  hash: Hashes \cup {NoHash}] :
              d.type = "BurnAsset" => d.token \in Tokens}

(* AssetTxFactory and ResourceTxFactory: a new document is pending and has  *)
(* no hash.                                                                 *)
NewTx(type, c, u, token) ==
    [type |-> type, coll |-> c, owner |-> u, token |-> token,
     state |-> "pending", hash |-> NoHash]

Inserted(doc) == tx' = Append(tx, doc)

RequestInit == asset = <<>> /\ tx = <<>> /\ creating = {}

(* Room for one more Transaction, counting the ones about to commit.        *)
RoomForTx == Len(tx) + Cardinality(creating) < MaxTxs

-----------------------------------------------------------------------------
(* AssetCreator.apply, first write: assetRepository.create is called        *)
(* without the session, so the asset is stored at once.                     *)
CreateAsset(u, c) ==
    /\ "MintAsset" \in RequestKinds
    /\ Len(asset) < MaxAssets /\ RoomForTx
    /\ asset' = Append(asset, [owner |-> u, coll |-> c,
                               state |-> "minting", token |-> NoToken])
    /\ creating' = creating \cup {[asset |-> Len(asset) + 1, owner |-> u]}
    /\ UNCHANGED <<tx, portalVars>>

(* AssetCreator.apply, second write: the session commits the Transaction    *)
(* for the user the request named.                                          *)
CommitMint(r) ==
    /\ creating' = creating \ {r}
    /\ Inserted(NewTx("MintAsset", asset[r.asset].coll, r.owner, NoToken))
    /\ UNCHANGED <<asset, portalVars>>

(* The Transaction is not stored (the write fails or the process stops):    *)
(* the session aborts, and the asset stays.                                 *)
AbortMint(r) ==
    /\ Fault("abort")
    /\ creating' = creating \ {r}
    /\ UNCHANGED <<asset, tx, chain>>

(* AssetBurner.apply (services/assets): the asset needs a token, its state  *)
(* is not looked at, and both writes are in the session.  A token id never  *)
(* changes once set, so reading it first is not told apart.                 *)
BurnAsset(a) ==
    /\ "BurnAsset" \in RequestKinds
    /\ asset[a].token # NoToken
    /\ asset[a].state \in BurnStates
    /\ RoomForTx
    /\ asset' = [asset EXCEPT ![a].state = "burning"]
    /\ Inserted(NewTx("BurnAsset", asset[a].coll, asset[a].owner, asset[a].token))
    /\ UNCHANGED <<creating, portalVars>>

(* AssetUpdater.apply: the studio gives the asset to another user.          *)
UpdateAsset(a, u) ==
    /\ asset[a].state \in ReassignStates
    /\ asset[a].owner # u
    /\ asset' = [asset EXCEPT ![a].owner = u]
    /\ UNCHANGED <<tx, creating, portalVars>>

(* UserResourceIncrementor.apply: the Transaction it stores beside the new  *)
(* balance.                                                                 *)
MintResource(u, c) ==
    /\ "MintResource" \in RequestKinds
    /\ RoomForTx
    /\ Inserted(NewTx("MintResource", c, u, NoToken))
    /\ UNCHANGED <<asset, creating, portalVars>>

RequestNext ==
    \/ \E u \in Users, c \in Collections : CreateAsset(u, c) \/ MintResource(u, c)
    \/ \E r \in creating : CommitMint(r) \/ AbortMint(r)
    \/ \E a \in DOMAIN asset : BurnAsset(a) \/ \E u \in Users : UpdateAsset(a, u)
=============================================================================
