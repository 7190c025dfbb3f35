---------------------------- MODULE MCMessaging ----------------------------
(* Model checking of the three orderings and of consensus.  A node may run *)
(* all of them; they share no state, so one is chosen and the others stay  *)
(* as they are.                                                            *)
EXTENDS FIFOOrdering, CausalOrdering, TotalOrdering, Consensus

VARIABLE service

vars == <<service, fifoVars, causalVars, totalVars, consensusVars>>

Init ==
  /\ service \in {"fifo", "causal", "total", "consensus"}
  /\ FifoInit /\ CausalInit /\ TotalInit /\ ConsensusInit

Next ==
  \/ /\ service = "fifo" /\ FifoNext
     /\ UNCHANGED <<service, causalVars, totalVars, consensusVars>>
  \/ /\ service = "causal" /\ CausalNext
     /\ UNCHANGED <<service, fifoVars, totalVars, consensusVars>>
  \/ /\ service = "total" /\ TotalNext
     /\ UNCHANGED <<service, fifoVars, causalVars, consensusVars>>
  \/ /\ service = "consensus" /\ ConsensusNext
     /\ UNCHANGED <<service, fifoVars, causalVars, totalVars>>

Spec == Init /\ [][Next]_vars

=============================================================================
