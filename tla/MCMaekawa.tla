------------------------------ MODULE MCMaekawa ------------------------------
(* Model checking of Maekawa.                                              *)
EXTENDS Maekawa, TLC

\* QUORUMS of the program.
QuorumsOfFour ==
  0 :> {0, 1, 3} @@ 1 :> {0, 1, 2} @@ 2 :> {1, 2, 3} @@ 3 :> {0, 2, 3}

\* The smallest quorums that meet pairwise without a site common to all.
QuorumsOfThree == 0 :> {0, 1} @@ 1 :> {1, 2} @@ 2 :> {0, 2}

=============================================================================
