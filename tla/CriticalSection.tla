--------------------------- MODULE CriticalSection ---------------------------
(***************************************************************************)
(* What request_cs and release_cs of src/mutex promise, whichever          *)
(* algorithm is behind them: a node that has asked for a resource gets in  *)
(* while no other node is in for that resource, and then leaves.           *)
(***************************************************************************)
CONSTANTS Node, Resource

VARIABLES phase,    \* where every node is
          wanted    \* the resource it asked for, "None" while it is out

csVars == <<phase, wanted>>

CSInit ==
  /\ phase = [n \in Node |-> "out"]
  /\ wanted = [n \in Node |-> "None"]

\* A waiting client that gave up asks again, perhaps for something else.
Ask(n, r) ==
  /\ phase[n] # "in"
  /\ phase' = [phase EXCEPT ![n] = "waiting"]
  /\ wanted' = [wanted EXCEPT ![n] = r]

GetIn(n) ==
  /\ phase[n] = "waiting"
  /\ \A m \in Node : phase[m] = "in" => wanted[m] # wanted[n]
  /\ phase' = [phase EXCEPT ![n] = "in"]
  /\ UNCHANGED wanted

Leave(n) ==
  /\ phase[n] = "in"
  /\ phase' = [phase EXCEPT ![n] = "out"]
  /\ wanted' = [wanted EXCEPT ![n] = "None"]

CSNext ==
  \E n \in Node : (\E r \in Resource : Ask(n, r)) \/ GetIn(n) \/ Leave(n)

CSSpec == CSInit /\ [][CSNext]_csVars

=============================================================================
