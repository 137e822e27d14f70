--------------------------- MODULE MCTransactions ---------------------------
(***************************************************************************)
(* Transactions on small instances: clients are interchangeable.           *)
(***************************************************************************)
EXTENDS Transactions, TLC

Clients == Permutations(Thread)
=============================================================================
