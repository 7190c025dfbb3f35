----------------------------- MODULE Consensus -----------------------------
(***************************************************************************)
(* src/consensus/consensus.py.                                             *)
(*                                                                         *)
(* Each call of propose is a thread of its own; the handlers run in        *)
(* receiver threads.  What is done under self._lock is one step, with the  *)
(* messages it decides on: they arrive in any order, late, or never, which *)
(* stands for nodes that fail as well.  Waiting ends at any time: when it  *)
(* has taken too long, when the round is decided, or when another one is,  *)
(* since all rounds share one event.                                       *)
(***************************************************************************)
EXTENDS Naturals, Sequences, FiniteSets

CONSTANTS Peer,           \* the nodes, of config.NODES
          FirstLeader,
          MaxRounds,      \* bound: calls of propose
          MaxChanges      \* bound: changes of suspicion and of leadership

ASSUME ConsensusAssumption ==
  /\ IsFiniteSet(Peer) /\ FirstLeader \in Peer
  /\ MaxRounds \in Nat /\ MaxChanges \in Nat

VARIABLES
  leads,       \* the nodes for which is_leader() holds
  alive,       \* failure_detector.alive
  rounds,      \* _rounds; the length is _round_counter
  decided,     \* _decided_values
  calls,       \* calls of propose so far
  votesNet,    \* PROPOSE, VOTE_ACCEPT and DECIDE messages sent
  handled,     \* those that have been handled
  everLed,     \* history: nodes that have been leaders
  everSuspected,   \* history: nodes each node has suspected
  changes

consensusVars == <<leads, alive, rounds, decided, calls, votesNet, handled, everLed,
                  everSuspected, changes>>

RoundId == 1 .. MaxRounds

\* A proposed value is known by the call that proposed it.
Value == 1 .. MaxRounds
NoValue == 0

Round ==
  [value : Value, votes : SUBSET Peer, decided : BOOLEAN,
   asked : SUBSET Peer,                        \* alive, in propose
   pc : {"started", "waiting", "returned"}]    \* where propose is

ConsensusMessage ==
  [type : {"PROPOSE", "VOTE_ACCEPT", "DECIDE"}, from : Peer, to : Peer,
   round : RoundId, value : Value \cup {NoValue}]

ConsensusTypeOK ==
  /\ leads \subseteq Peer
  /\ alive \in [Peer -> SUBSET Peer]
  /\ rounds \in [Peer -> Seq(Round)]
  /\ decided \in [Peer -> [RoundId -> Value \cup {NoValue}]]
  /\ calls \in 0 .. MaxRounds
  /\ votesNet \subseteq ConsensusMessage
  /\ handled \subseteq votesNet
  /\ everLed \subseteq Peer
  /\ everSuspected \in [Peer -> SUBSET Peer]
  /\ changes \in 0 .. MaxChanges

ConsensusInit ==
  /\ leads = {FirstLeader}
  /\ alive = [n \in Peer |-> Peer \ {n}]
  /\ rounds = [n \in Peer |-> << >>]
  /\ decided = [n \in Peer |-> [r \in RoundId |-> NoValue]]
  /\ calls = 0
  /\ votesNet = {} /\ handled = {}
  /\ everLed = leads
  /\ everSuspected = [n \in Peer |-> {}]
  /\ changes = 0

ConsensusSends(type, l, targets, r, v) ==
  [type : {type}, from : {l}, to : targets, round : {r}, value : {v}]

-----------------------------------------------------------------------------
(* propose.                                                                *)

\* Mutant: the number of a round that is decided is used again.
WithNewRoundReused(l, round) ==
  IF rounds[l] # << >> /\ rounds[l][Len(rounds[l])].decided
  THEN [rounds[l] EXCEPT ![Len(rounds[l])] = round]
  ELSE Append(rounds[l], round)

WithNewRound(l, round) == Append(rounds[l], round)

Propose(l) ==
  LET round == [value |-> calls + 1, votes |-> {}, decided |-> FALSE, asked |-> {},
                pc |-> "started"]
  IN
  /\ l \in leads
  /\ calls < MaxRounds
  /\ calls' = calls + 1
  /\ rounds' = [rounds EXCEPT ![l] = WithNewRound(l, round)]
  /\ UNCHANGED <<leads, alive, decided, votesNet, handled, everLed, everSuspected, changes>>

AskAlive(l, r) ==
  /\ rounds[l][r].pc = "started"
  /\ rounds' = [rounds EXCEPT ![l][r] = [[@ EXCEPT !.asked = alive[l]] EXCEPT !.pc = "waiting"]]
  /\ votesNet' = votesNet \cup
       ConsensusSends("PROPOSE", l, alive[l], r, rounds[l][r].value)
  /\ UNCHANGED <<leads, alive, decided, calls, handled, everLed, everSuspected, changes>>

\* Mutant: half is enough.
IsMajorityOrHalf(votes, others) == 2 * (Cardinality(votes) + 1) >= Cardinality(others) + 1

IsMajority(votes, others) == 2 * (Cardinality(votes) + 1) > Cardinality(others) + 1

\* Round r of l becomes round; if that decides it the targets are told.
Conclude(l, r, round, targets) ==
  /\ rounds' = [rounds EXCEPT ![l][r] = round]
  /\ decided' = [decided EXCEPT ![l][r] = IF round.decided THEN round.value ELSE @]
  /\ votesNet' = votesNet \cup
       (IF round.decided THEN ConsensusSends("DECIDE", l, targets, r, round.value) ELSE {})

\* The waiting is over: votes are counted among those that were asked.
StopWaiting(l, r) ==
  LET round == [rounds[l][r] EXCEPT !.pc = "returned"] IN
  /\ rounds[l][r].pc = "waiting"
  /\ \/ /\ round.decided
        /\ rounds' = [rounds EXCEPT ![l][r] = round]
        /\ UNCHANGED <<decided, votesNet>>
     \/ /\ ~ round.decided
        /\ Conclude(l, r, [round EXCEPT !.decided = IsMajority(round.votes, round.asked)],
                    round.asked)
  /\ UNCHANGED <<leads, alive, calls, handled, everLed, everSuspected, changes>>

-----------------------------------------------------------------------------
(* The handlers.                                                           *)

HandlePropose(n, msg) ==
  /\ msg.type = "PROPOSE"
  /\ votesNet' = votesNet \cup ConsensusSends("VOTE_ACCEPT", n, {msg.from}, msg.round, NoValue)
  /\ UNCHANGED <<rounds, decided>>

\* Mutant: a node that is not asked any more is not told either.
ToldVoters(l, round) == round.votes

Told(l, round) == alive[l]

\* Votes are counted among those that are alive now, also when propose has
\* returned already.
HandleVote(l, msg) ==
  LET r == msg.round
      round == [rounds[l][r] EXCEPT !.votes = @ \cup {msg.from}]
  IN
  /\ msg.type = "VOTE_ACCEPT"
  /\ IF rounds[l][r].decided
     THEN UNCHANGED <<rounds, decided, votesNet>>
     ELSE Conclude(l, r, [round EXCEPT !.decided = IsMajority(round.votes, alive[l])],
                   Told(l, round))

\* Whatever was decided in a round of this number before, or is proposed in
\* one of this node's own, gives way.
HandleDecide(n, msg) ==
  LET r == msg.round IN
  /\ msg.type = "DECIDE"
  /\ decided' = [decided EXCEPT ![n][r] = msg.value]
  /\ rounds' = IF r \in DOMAIN rounds[n]
               THEN [rounds EXCEPT ![n][r] = [@ EXCEPT !.decided = TRUE]] ELSE rounds
  /\ UNCHANGED votesNet

\* Every message is handled once; the set keeps those that were.
HandleConsensus(n, msg) ==
  /\ msg \in votesNet \ handled
  /\ msg.to = n
  /\ handled' = handled \cup {msg}
  /\ HandlePropose(n, msg) \/ HandleVote(n, msg) \/ HandleDecide(n, msg)
  /\ UNCHANGED <<leads, alive, calls, everLed, everSuspected, changes>>

-----------------------------------------------------------------------------
(* What happens around it.                                                 *)

Suspect(n, m) ==
  /\ m \in alive[n]
  /\ changes < MaxChanges
  /\ alive' = [alive EXCEPT ![n] = @ \ {m}]
  /\ everSuspected' = [everSuspected EXCEPT ![n] = @ \cup {m}]
  /\ changes' = changes + 1
  /\ UNCHANGED <<leads, rounds, decided, calls, votesNet, handled, everLed>>

Recover(n, m) ==
  /\ m \in everSuspected[n] \ alive[n]
  /\ changes < MaxChanges
  /\ alive' = [alive EXCEPT ![n] = @ \cup {m}]
  /\ changes' = changes + 1
  /\ UNCHANGED <<leads, rounds, decided, calls, votesNet, handled, everLed, everSuspected>>

\* Another node is elected; the old leader may not know yet.
Elect(n) ==
  /\ n \notin leads
  /\ changes < MaxChanges
  /\ leads' \in {{n}, leads \cup {n}}
  /\ everLed' = everLed \cup {n}
  /\ changes' = changes + 1
  /\ UNCHANGED <<alive, rounds, decided, calls, votesNet, handled, everSuspected>>

ConsensusNode(n) ==
  \/ \E r \in DOMAIN rounds[n] : AskAlive(n, r) \/ StopWaiting(n, r)
  \/ \E msg \in votesNet : HandleConsensus(n, msg)

ConsensusNext ==
  \E n \in Peer :
    \/ ConsensusNode(n) \/ Propose(n) \/ Elect(n)
    \/ \E m \in Peer : Suspect(n, m) \/ Recover(n, m)

ConsensusSpec == ConsensusInit /\ [][ConsensusNext]_consensusVars

-----------------------------------------------------------------------------
(* What consensus is for.                                                  *)

\* What any node takes for decided was proposed by a leader in that round and
\* accepted by nodes which that leader had taken for alive and asked, together
\* with itself in a number that exceeds half the number of the nodes it has never
\* suspected: although propose and _handle_vote count against different sets,
\* and votes come when propose has given up, no fewer votes decide, and no vote
\* of a node that was not asked in that round.
\* The acceptors need not be a majority of the nodes never suspected: a node
\* suspected since it voted is still counted, and the number needed is less
\* (consensus.py:104-114).
EnoughAccepted ==
  \A n \in Peer, r \in RoundId : decided[n][r] # NoValue =>
    \E l \in everLed : \E k \in DOMAIN rounds[l] :
      /\ k = r
      /\ rounds[l][r].value = decided[n][r]
      /\ rounds[l][r].votes \subseteq rounds[l][r].asked \ {l}
      /\ 2 * (Cardinality(rounds[l][r].votes) + 1) > Cardinality(Peer \ everSuspected[l])

\* As long as one node only has ever been the leader, a round has one value
\* for all nodes, however many calls of propose run at once.  With a second
\* leader this does not hold: it numbers its rounds from 1 again.
OneValuePerRound ==
  Cardinality(everLed) = 1 =>
    \A n, m \in Peer, r \in RoundId :
      NoValue \notin {decided[n][r], decided[m][r]} => decided[n][r] = decided[m][r]

\* A decision has reached every node or is on its way there, nodes aside
\* that a leader has suspected at some time: those may never learn of it.
EverybodyTold ==
  \A l, n \in Peer, r \in RoundId : decided[l][r] # NoValue =>
    \/ decided[n][r] # NoValue
    \/ \E msg \in votesNet \ handled :
         msg.type = "DECIDE" /\ msg.to = n /\ msg.round = r
    \/ \E k \in everLed : n \in everSuspected[k]

=============================================================================
