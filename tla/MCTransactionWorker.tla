------------------------- MODULE MCTransactionWorker -------------------------
(* Instances of TransactionWorker for TLC. *)
EXTENDS TransactionWorker, TLC

(* Processes, users and collections are interchangeable: nothing names one. *)
MCSymmetry ==
    Permutations(Workers) \cup Permutations(Users) \cup Permutations(Collections)
=============================================================================
