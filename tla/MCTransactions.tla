--------------------------- MODULE MCTransactions ---------------------------
(* Model checking of Transactions.                                         *)
EXTENDS Transactions

Symmetry == Permutations(Resource)

=============================================================================
