----------------------------- MODULE MCTwoPhase -----------------------------
(***************************************************************************)
(* TwoPhase for TLC.  Init chooses how participants differ (check, status),*)
(* so all of them are plain model values.                                  *)
(***************************************************************************)
EXTENDS TwoPhase

=============================================================================
