----------------------------- MODULE MCCluster -----------------------------
(* Model checking of the services that deal with failures: the two         *)
(* elections, of which a node runs one, and the failure detector, which    *)
(* shares no state with them.  One is chosen, the others stay as they are. *)
EXTENDS Bully, ChangRoberts, FailureDetector

VARIABLE part

bullyOwn == <<flags, timer, calling, armed, declaring>>
vars == <<part, clusterVars, bullyOwn, participant, fdVars>>

Init ==
  /\ part \in {"bully", "ring", "detector"}
  /\ BullyInit /\ RingInit /\ FDInit

\* Bound on the larger of the two elections.
FewEvents == starts' + Cardinality(Node \ up') <= 2

OnlyBully == FewEvents /\ UNCHANGED <<part, participant, fdVars>>
OnlyRing == UNCHANGED <<part, bullyOwn, fdVars>>
OnlyDetector == UNCHANGED <<part, clusterVars, bullyOwn, participant>>

Next ==
  \/ part = "bully" /\ BullyNext /\ OnlyBully
  \/ part = "ring" /\ RingNext /\ OnlyRing
  \/ part = "detector" /\ FDNext /\ OnlyDetector

Fairness ==
  /\ WF_vars(part = "bully" /\ (\E n \in Node : BullyNode(n)) /\ OnlyBully)
  /\ WF_vars(part = "ring" /\ (\E n \in Node : RingNode(n)) /\ OnlyRing)
  /\ \A n \in Member :
       /\ WF_vars(part = "detector" /\ DetectorLoop(n) /\ OnlyDetector)
       /\ WF_vars(part = "detector" /\ Receiver(n) /\ OnlyDetector)
       /\ WF_vars(part = "detector" /\ Silence(n) /\ OnlyDetector)

Spec == Init /\ [][Next]_vars /\ Fairness

=============================================================================
