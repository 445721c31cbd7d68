--------------------------- MODULE MCContractScan ---------------------------
(* Instances of ContractScan for TLC. *)
EXTENDS ContractScan, TLC

CONSTANT FirstUser

(* Every token was minted for one player.                                   *)
MCInitialOwner == [t \in Tokens |-> FirstUser]

(* Processes of one kind are interchangeable.                               *)
MCSymmetry == Permutations(DepositWorkers) \cup Permutations(WithdrawWorkers)
=============================================================================
