---------------------------- MODULE ChangRoberts ----------------------------
(***************************************************************************)
(* src/election/chang_roberts.py, with the part of node.py that starts an  *)
(* election when the leader is found to have failed.                       *)
(*                                                                         *)
(* handle_election_ring holds self._lock also while it sends;              *)
(* handle_elected_ring and start_election send right after it.             *)
(***************************************************************************)
EXTENDS Cluster

VARIABLE participant

ringVars == <<clusterVars, participant>>

RingMessage == [type : {"ELECTION_RING", "ELECTED_RING"}, id : Node]

RingTypeOK ==
  /\ up \subseteq Node
  /\ leader \in [Node -> Node \cup {NoLeader}]
  /\ starts \in Nat
  /\ net \in [Node -> [Node -> Seq(RingMessage)]]
  /\ noticed \in [Node -> SUBSET Node]
  /\ calm \in BOOLEAN
  /\ participant \in [Node -> BOOLEAN]

RingInit ==
  /\ ClusterInit
  /\ participant = [n \in Node |-> FALSE]

Candidate(i) == [type |-> "ELECTION_RING", id |-> i]
Elected(i) == [type |-> "ELECTED_RING", id |-> i]

RingResting == \A n, m \in Node : net[n][m] = << >>

-----------------------------------------------------------------------------
(* _send_to_successor.                                                     *)

\* The nodes of RING_ORDER, which ascends, that lie between n and t.
Between(n, t) ==
  IF n < t THEN {k \in Node : n < k /\ k < t} ELSE {k \in Node : k > n \/ k < t}

\* Who may be the first to take a message.  A connection that was used before
\* may take one more after its node has gone down.  Heartbeats go out every
\* second and a failure is noticed after three: by then all connections to
\* the node are known to be broken.
Successors(n, broken) ==
  {t \in Node \ (broken \cup {n}) : Between(n, t) \cap up = {}}

Broken == UNION {noticed[n] : n \in Node}

SendToSuccessor(links, n, broken, msg) ==
  \/ \E t \in Successors(n, broken) : net' = Sending(links, n, {t}, msg)
  \/ Successors(n, broken) = {} /\ net' = links

-----------------------------------------------------------------------------

StartRing(n, broken) ==
  /\ participant' = [participant EXCEPT ![n] = TRUE]
  /\ SendToSuccessor(net, n, broken, Candidate(n))

ClientStartsRing(n) == Start(n) /\ StartRing(n, Broken)

\* _on_node_failure.
RingOnNodeFailure(n, m) ==
  /\ Notice(n, m)
  /\ IF leader[n] = m THEN StartRing(n, Broken \cup {m}) ELSE UNCHANGED <<net, participant>>

Passes(n, i) == i > n

\* Mutant: a lower candidate is passed on like a higher one.
ReplacesNone(n, i) == FALSE

Replaces(n, i) == i < n /\ ~ participant[n]

HandleElectionRing(n, m, msg) ==
  /\ msg.type = "ELECTION_RING"
  /\ \/ /\ Passes(n, msg.id)
        /\ participant' = [participant EXCEPT ![n] = TRUE]
        /\ SendToSuccessor(Taking(n, m), n, Broken, msg)
        /\ UNCHANGED leader
     \/ /\ Replaces(n, msg.id)
        /\ participant' = [participant EXCEPT ![n] = TRUE]
        /\ SendToSuccessor(Taking(n, m), n, Broken, Candidate(n))
        /\ UNCHANGED leader
     \/ /\ msg.id = n
        /\ participant' = [participant EXCEPT ![n] = FALSE]
        /\ leader' = [leader EXCEPT ![n] = n]
        /\ SendToSuccessor(Taking(n, m), n, Broken, Elected(n))
     \/ /\ msg.id # n /\ ~ Passes(n, msg.id) /\ ~ Replaces(n, msg.id)
        /\ net' = Taking(n, m)
        /\ UNCHANGED <<participant, leader>>
  /\ UNCHANGED <<up, starts, noticed, calm>>

HandleElectedRing(n, m, msg) ==
  /\ msg.type = "ELECTED_RING"
  /\ participant' = [participant EXCEPT ![n] = FALSE]
  /\ leader' = [leader EXCEPT ![n] = msg.id]
  /\ IF msg.id = n THEN net' = Taking(n, m) ELSE SendToSuccessor(Taking(n, m), n, Broken, msg)
  /\ UNCHANGED <<up, starts, noticed, calm>>

RingCrash(n, reached) == GoDown(n, reached, RingResting) /\ UNCHANGED participant

RingNode(n) ==
  \E m \in Node :
    \/ RingOnNodeFailure(n, m)
    \/ \E msg \in Arriving(n, m) :
         HandleElectionRing(n, m, msg) \/ HandleElectedRing(n, m, msg)

RingNext ==
  \E n \in Node : RingNode(n) \/ ClientStartsRing(n) \/ \E k \in Node : RingCrash(n, k)

RingSpec ==
  RingInit /\ [][RingNext]_ringVars /\ \A n \in Node : WF_ringVars(RingNode(n))

=============================================================================
