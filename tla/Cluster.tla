------------------------------ MODULE Cluster ------------------------------
(***************************************************************************)
(* What the two elections share: which nodes are up, whom each takes for   *)
(* the leader (node.leader_id), and the connections between them.          *)
(*                                                                         *)
(* A connection delivers in the order of sending.  A node that goes down,  *)
(* by Node.stop or the end of its process, loses all state and what is on  *)
(* the way to it, and may be in the middle of a broadcast, which goes to   *)
(* the nodes in ascending order.                                           *)
(***************************************************************************)
EXTENDS Naturals, Sequences, FiniteSets

CONSTANTS Node,
          NoLeader,     \* the leader_id of a node that has none
          MaxEvents     \* bound: elections started from outside and nodes
                        \* that go down, together

ASSUME ClusterAssumption ==
  /\ Node \subseteq Nat
  /\ IsFiniteSet(Node)
  /\ NoLeader \notin Node

VARIABLES
  up,        \* the nodes that are running
  leader,    \* leader_id
  starts,    \* elections started from outside so far
  net,       \* net[n][m]: what is on the connection from n to m
  noticed,   \* failed nodes a node's failure detector has reported
  calm       \* history: a node failed while all was quiet and agreed on

clusterVars == <<up, leader, starts, net, noticed, calm>>

ClusterInit ==
  /\ up = Node
  /\ leader = [n \in Node |-> NoLeader]
  /\ starts = 0
  /\ net = [n \in Node |-> [m \in Node |-> << >>]]
  /\ noticed = [n \in Node |-> {}]
  /\ calm = FALSE

Above(n) == {m \in Node : m > n}

Highest(S) == CHOOSE n \in S : \A m \in S : m <= n

ClusterBound == starts + Cardinality(Node \ up) < MaxEvents

\* The connections after n has sent msg to the targets, if they are up.
Sending(links, n, targets, msg) ==
  [links EXCEPT ![n] =
     [m \in Node |-> IF m \in targets \cap up THEN Append(@[m], msg) ELSE @[m]]]

Taking(n, m) == [net EXCEPT ![m][n] = Tail(@)]

\* The message that n gets next from m, if there is one.
Arriving(n, m) == IF net[m][n] = << >> THEN {} ELSE {Head(net[m][n])}

Start(n) ==
  /\ n \in up /\ ClusterBound
  /\ starts' = starts + 1
  /\ UNCHANGED <<up, leader, noticed, calm>>

\* _on_node_failure is called for m.
Notice(n, m) ==
  /\ n \in up /\ m \in Node \ (up \cup noticed[n])
  /\ noticed' = [noticed EXCEPT ![n] = @ \cup {m}]
  /\ UNCHANGED <<up, leader, starts, calm>>

\* The nodes below reached have got what n was about to send.
GoDown(n, reached, quiet) ==
  /\ n \in up /\ ClusterBound
  /\ up' = up \ {n}
  /\ net' = [a \in Node |-> [b \in Node |->
               IF b = n \/ (a = n /\ b >= reached) THEN << >> ELSE net[a][b]]]
  /\ calm' = (quiet /\ \A m \in Node : leader[m] = Highest(Node))
  /\ UNCHANGED <<leader, starts, noticed>>

-----------------------------------------------------------------------------
(* What an election is for.                                                *)

\* No node follows a leader while a node with a higher number than that
\* leader is running: such a node would have answered in time (Bully) or put
\* its own number into the ring (Chang-Roberts).
LeaderIsHighest ==
  \A n \in up : leader[n] # NoLeader => Above(leader[n]) \cap up = {}

\* As long as no node fails, once somebody has started an election all nodes
\* end up with the same leader and keep it.
AllAgree ==
  starts > 0 ~>
    (up # Node \/ [](up = Node => \A n \in Node : leader[n] = Highest(Node)))

\* When the leader fails while no election is going on, every node that is
\* left gets the highest of them for its leader, although each finds out for
\* itself and starts an election of its own.
LeaderReplaced ==
  calm ~> (Cardinality(Node \ up) > 1 \/ \A n \in up : leader[n] = Highest(up))

=============================================================================
