----------------------------- MODULE MCRecovery -----------------------------
(* Model checking of Recovery.                                             *)
EXTENDS Recovery, TLC

CONSTANTS a, b, c, x

\* Two keys of one file, as saldo_A and saldo_B of accounts.txt, and one key
\* in a file of its own.
TwoFiles == [k \in {a, b, c} |-> IF k = c THEN "b.txt" ELSE "accounts.txt"]

OneKey == [k \in {a} |-> "accounts.txt"]

\* The value that the log also writes for a record that is not there, and
\* another one.
Values == {Empty, x}

Symmetry == Permutations({a, b})

=============================================================================
