----------------------------- MODULE GamePortal -----------------------------
(***************************************************************************)
(* The chain as the transaction worker sees it: the Game Portal contract   *)
(* that mints and burns the ERC-721 tokens of a collection, reached        *)
(* through services/blockchain/transactors, and the receipts that          *)
(* provider.getTransactionReceipt answers.  Contract and node are external *)
(* code: they are modelled from how src/workers and src/services use them. *)
(*                                                                         *)
(* A transaction hash is the position of the send in `chain`.  A mint call *)
(* of n assets, once mined, creates the tokens <<h, 1>> .. <<h, n>> in the *)
(* order of its LogMinted events: the contract never issues an id twice.   *)
(* Block numbers are abstracted to the two facts the worker tells apart:   *)
(* a receipt exists, and it is settings.blockchain.polygon.confirmations   *)
(* (5) blocks deep, after which the chain never takes it back.             *)
(***************************************************************************)
EXTENDS Integers, FiniteSets, Sequences

CONSTANTS
    Collections,  \* the ERC-721 collections of the game
    MaxTxs,       \* bound: Transaction documents ever created
    MaxSends,     \* bound: blockchain transactions ever sent
    FaultKinds,   \* the faults the environment may inject in this instance
    MaxFaults     \* bound: faults injected in one behaviour

ASSUME BoundsAssumption ==
    /\ MaxTxs \in Nat
    /\ MaxSends \in Nat
    /\ MaxFaults \in Nat

VARIABLES
    chain,   \* every send, in order; chain[h] is the one with hash h
    faults   \* faults injected so far

portalVars == <<chain, faults>>

-----------------------------------------------------------------------------
TxIds == 1 .. MaxTxs
Hashes == 1 .. MaxSends

Tokens == Hashes \X TxIds
NoToken == <<0, 0>>          \* tokenId null in an Asset document

Calls == {"mint", "burn"}
Statuses == {"mempool",      \* no receipt yet
             "mined",        \* receipt with status 1, too shallow
             "deep",         \* receipt with status 1, enough confirmations
             "reverted",     \* receipt with status 0
             "dropped"}      \* evicted from the mempool: never a receipt

(* `reqs` are the Transaction documents the send was made for: only their   *)
(* number reaches the contract.  `burns` are the tokens of a burn call.     *)
Sends == [call: Calls, coll: Collections, reqs: SUBSET TxIds,
          burns: SUBSET Tokens, status: Statuses]

(* One unit of the fault budget is spent on a fault of this kind.           *)
Fault(kind) ==
    /\ kind \in FaultKinds
    /\ faults < MaxFaults
    /\ faults' = faults + 1

Executed == {h \in DOMAIN chain : chain[h].status \in {"mined", "deep"}}
BurntTokens == UNION {chain[h].burns : h \in Executed}

(* A burn call goes through when the portal still holds each of its tokens. *)
Burnable(burns) == burns \cap BurntTokens = {}

PortalInit == chain = <<>> /\ faults = 0

SetStatus(h, s) == chain' = [chain EXCEPT ![h].status = s]

(* What contract.mintBatchAsset / burnBatchAsset leaves behind.             *)
SendCall(call, c, reqs, burns) ==
    chain' = Append(chain, [call |-> call, coll |-> c, reqs |-> reqs,
                            burns |-> burns, status |-> "mempool"])

Mine(h) ==
    /\ chain[h].status = "mempool"
    /\ Burnable(chain[h].burns)
    /\ SetStatus(h, "mined")
    /\ UNCHANGED faults

(* A second burn of a token reverts.                                        *)
RevertBurn(h) ==
    /\ chain[h].status = "mempool"
    /\ ~Burnable(chain[h].burns)
    /\ SetStatus(h, "reverted")
    /\ UNCHANGED faults

(* Any call may also run out of gas.                                        *)
Revert(h) ==
    /\ chain[h].status = "mempool"
    /\ Fault("revert")
    /\ SetStatus(h, "reverted")

Confirm(h) ==
    /\ chain[h].status = "mined"
    /\ SetStatus(h, "deep")
    /\ UNCHANGED faults

(* A shallow block is replaced and its transactions go back to the mempool. *)
Reorg(h) ==
    /\ chain[h].status \in {"mined", "reverted"}
    /\ Fault("reorg")
    /\ SetStatus(h, "mempool")

Drop(h) ==
    /\ chain[h].status = "mempool"
    /\ Fault("drop")
    /\ SetStatus(h, "dropped")

PortalNext ==
    \E h \in DOMAIN chain :
        \/ Mine(h)
        \/ RevertBurn(h)
        \/ Revert(h)
        \/ Confirm(h)
        \/ Reorg(h)
        \/ Drop(h)
=============================================================================
