------------------------------- MODULE Bully -------------------------------
(***************************************************************************)
(* src/election/bully.py, with the part of node.py that starts an election *)
(* when the leader is found to have failed.                                *)
(*                                                                         *)
(* start_election runs in client, receiver and failure detector threads,   *)
(* _on_timeout in a timer's, the handlers in receiver threads.  What they  *)
(* do under self._lock is one step, together with the leader_id and the    *)
(* messages that follow from it.                                           *)
(*                                                                         *)
(* Assumed of ELECTION_TIMEOUT: every node that is running is reached and  *)
(* answers within it.  Nodes that fail do not come back.                   *)
(***************************************************************************)
EXTENDS Cluster

VARIABLES
  epoch,        \* _epoch
  inElection,   \* _in_election
  gotOk,        \* _got_ok
  timer,        \* the epoch of self._timer, 0 if None
  calling,      \* epochs whose start_election is about to make its timer
  armed,        \* epochs whose timer runs
  declaring     \* epochs whose thread is about to call _declare_victory

flags == <<epoch, inElection, gotOk>>
bullyVars == <<clusterVars, flags, timer, calling, armed, declaring>>

BullyMessage == [type : {"ELECTION", "ELECTION_OK", "COORDINATOR"}, epoch : Nat]

BullyTypeOK ==
  /\ up \subseteq Node
  /\ leader \in [Node -> Node \cup {NoLeader}]
  /\ starts \in Nat
  /\ net \in [Node -> [Node -> Seq(BullyMessage)]]
  /\ epoch \in [Node -> Nat]
  /\ inElection \in [Node -> BOOLEAN]
  /\ gotOk \in [Node -> BOOLEAN]
  /\ timer \in [Node -> Nat]
  /\ calling \in [Node -> SUBSET Nat]
  /\ armed \in [Node -> SUBSET Nat]
  /\ declaring \in [Node -> SUBSET Nat]
  /\ noticed \in [Node -> SUBSET Node]
  /\ calm \in BOOLEAN

Nothing == [n \in Node |-> {}]

BullyInit ==
  /\ ClusterInit
  /\ epoch = [n \in Node |-> 0]
  /\ inElection = [n \in Node |-> FALSE]
  /\ gotOk = [n \in Node |-> FALSE]
  /\ timer = [n \in Node |-> 0]
  /\ calling = Nothing /\ armed = Nothing /\ declaring = Nothing

Electing(e) == [type |-> "ELECTION", epoch |-> e]
Ok == [type |-> "ELECTION_OK", epoch |-> 0]
Coordinating(e) == [type |-> "COORDINATOR", epoch |-> e]

BullyResting ==
  /\ \A n, m \in Node : net[n][m] = << >>
  /\ \A n \in Node : /\ ~ inElection[n]
                     /\ calling[n] = {} /\ armed[n] = {} /\ declaring[n] = {}

-----------------------------------------------------------------------------
(* start_election.                                                         *)

\* A node without a higher one goes on to declare itself; any other calls
\* the higher ones.
StartBully(n, links) ==
  IF inElection[n]
  THEN net' = links /\ UNCHANGED <<flags, calling, declaring>>
  ELSE /\ inElection' = [inElection EXCEPT ![n] = TRUE]
       /\ gotOk' = [gotOk EXCEPT ![n] = FALSE]
       /\ epoch' = [epoch EXCEPT ![n] = @ + 1]
       /\ net' = Sending(links, n, Above(n), Electing(epoch[n] + 1))
       /\ IF Above(n) = {}
          THEN /\ declaring' = [declaring EXCEPT ![n] = @ \cup {epoch[n] + 1}]
               /\ UNCHANGED calling
          ELSE /\ calling' = [calling EXCEPT ![n] = @ \cup {epoch[n] + 1}]
               /\ UNCHANGED declaring

\* A client starts an election while none is going on.  Elections started
\* at the same time are those of HandleElection and OnNodeFailure.
ClientStarts(n) ==
  /\ BullyResting
  /\ Start(n)
  /\ StartBully(n, net)
  /\ UNCHANGED <<timer, armed>>

\* _on_node_failure: the failure detector has found m to be down.
OnNodeFailure(n, m) ==
  /\ Notice(n, m)
  /\ IF leader[n] = m
     THEN StartBully(n, net)
     ELSE UNCHANGED <<flags, calling, declaring, net>>
  /\ UNCHANGED <<timer, armed>>

\* The messages are out: the timer takes the place of the one that was there.
ArmTimer(n, e) ==
  /\ e \in calling[n]
  /\ calling' = [calling EXCEPT ![n] = @ \ {e}]
  /\ armed' = [armed EXCEPT ![n] = @ \cup {e}]
  /\ timer' = [timer EXCEPT ![n] = e]
  /\ UNCHANGED <<clusterVars, flags, declaring>>

\* No answer of a running node is outstanding.
Timely(n) ==
  \A m \in Node :
    /\ \A i \in DOMAIN net[n][m] : net[n][m][i].type # "ELECTION"
    /\ \A i \in DOMAIN net[m][n] : net[m][n][i].type # "ELECTION_OK"

\* Mutant: the timer does not look whether somebody has answered.
WinsUnasked(n, e) == e = epoch[n] /\ inElection[n]

Wins(n, e) == e = epoch[n] /\ ~ gotOk[n] /\ inElection[n]

OnTimeout(n, e) ==
  /\ e \in armed[n]
  /\ Timely(n)
  /\ armed' = [armed EXCEPT ![n] = @ \ {e}]
  /\ declaring' = [declaring EXCEPT ![n] = IF Wins(n, e) THEN @ \cup {e} ELSE @]
  /\ UNCHANGED <<clusterVars, flags, timer, calling>>

DeclareVictory(n, e) ==
  /\ e \in declaring[n]
  /\ declaring' = [declaring EXCEPT ![n] = @ \ {e}]
  /\ IF e = epoch[n]
     THEN /\ inElection' = [inElection EXCEPT ![n] = FALSE]
          /\ leader' = [leader EXCEPT ![n] = n]
          /\ net' = Sending(net, n, Node \ {n}, Coordinating(e))
     ELSE UNCHANGED <<inElection, leader, net>>
  /\ UNCHANGED <<up, starts, epoch, gotOk, timer, calling, armed, noticed, calm>>

-----------------------------------------------------------------------------
(* The handlers.                                                           *)

\* Only higher nodes are sent an ELECTION.
HandleElection(n, m, msg) ==
  /\ msg.type = "ELECTION"
  /\ StartBully(n, Sending(Taking(n, m), n, {m}, Ok))
  /\ UNCHANGED <<up, leader, starts, timer, armed, noticed, calm>>

CancelTimer(n) ==
  /\ armed' = [armed EXCEPT ![n] = @ \ {timer[n]}]
  /\ timer' = [timer EXCEPT ![n] = 0]

HandleElectionOk(n, m, msg) ==
  /\ msg.type = "ELECTION_OK"
  /\ net' = Taking(n, m)
  /\ gotOk' = [gotOk EXCEPT ![n] = TRUE]
  /\ CancelTimer(n)
  /\ UNCHANGED <<up, leader, starts, epoch, inElection, calling, declaring, noticed, calm>>

\* Mutant: an announcement of the election a node takes part in is old news.
IsOldUnlessNewer(n, msg) == msg.epoch <= epoch[n]

IsOld(n, msg) == msg.epoch < epoch[n]

HandleCoordinator(n, m, msg) ==
  /\ msg.type = "COORDINATOR"
  /\ net' = Taking(n, m)
  /\ IF IsOld(n, msg)
     THEN UNCHANGED <<epoch, inElection, timer, armed, leader>>
     ELSE /\ epoch' = [epoch EXCEPT ![n] = msg.epoch]
          /\ inElection' = [inElection EXCEPT ![n] = FALSE]
          /\ CancelTimer(n)
          /\ leader' = [leader EXCEPT ![n] = m]
  /\ UNCHANGED <<up, starts, gotOk, calling, declaring, noticed, calm>>

HandleBully(n, m, msg) ==
  \/ HandleElection(n, m, msg)
  \/ HandleElectionOk(n, m, msg)
  \/ HandleCoordinator(n, m, msg)

-----------------------------------------------------------------------------

BullyCrash(n, reached) ==
  /\ GoDown(n, reached, BullyResting)
  /\ calling' = [calling EXCEPT ![n] = {}]
  /\ armed' = [armed EXCEPT ![n] = {}]
  /\ declaring' = [declaring EXCEPT ![n] = {}]
  /\ UNCHANGED <<flags, timer>>

\* What node n does without being asked by a client.
BullyNode(n) ==
  \/ \E m \in Node : OnNodeFailure(n, m)
  \/ \E e \in calling[n] : ArmTimer(n, e)
  \/ \E e \in armed[n] : OnTimeout(n, e)
  \/ \E e \in declaring[n] : DeclareVictory(n, e)
  \/ \E m \in Node : \E msg \in Arriving(n, m) : HandleBully(n, m, msg)

BullyNext ==
  \E n \in Node : BullyNode(n) \/ ClientStarts(n) \/ \E k \in Node : BullyCrash(n, k)

BullySpec ==
  BullyInit /\ [][BullyNext]_bullyVars /\ \A n \in Node : WF_bullyVars(BullyNode(n))

=============================================================================
