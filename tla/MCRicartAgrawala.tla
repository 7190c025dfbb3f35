-------------------------- MODULE MCRicartAgrawala --------------------------
(* Model checking of RicartAgrawala.                                       *)
EXTENDS RicartAgrawala, TLC

CONSTANT r1

WantsOfTwo == 0 :> {r1} @@ 1 :> {r1}

=============================================================================
