--------------------------- MODULE MCTransactions ---------------------------
(* Small instances of Transactions for TLC. *)
EXTENDS Transactions, TLC

Symmetry == Permutations(Rows) \cup Permutations(Slots)
=============================================================================
