-------------------------- MODULE Consensus_proof --------------------------
(***************************************************************************)
(* What is decided, and who is told, for any number of nodes, rounds,      *)
(* changes of leadership and suspicions.                                   *)
(***************************************************************************)
EXTENDS Consensus, SequenceTheorems, FiniteSetTheorems, TLAPS

\* Value v was proposed by l in its round r, and enough have voted for it that
\* were asked.
Backed(l, r, v) ==
  /\ l \in everLed /\ r \in DOMAIN rounds[l] /\ rounds[l][r].value = v
  /\ rounds[l][r].votes \subseteq rounds[l][r].asked \ {l}
  /\ 2 * (Cardinality(rounds[l][r].votes) + 1) > Cardinality(Peer \ everSuspected[l])

\* Node n knows a decision of round r, will know it, or was suspected.
Informed(n, r) ==
  \/ decided[n][r] # NoValue
  \/ \E msg \in votesNet : msg.type = "DECIDE" /\ msg.to = n /\ msg.round = r
  \/ \E k \in everLed : n \in everSuspected[k]

LeaderInv ==
  /\ leads \subseteq everLed
  /\ \A l \in Peer : /\ rounds[l] # << >> => l \in everLed
                     /\ Len(rounds[l]) <= calls

\* Who has voted was asked, and nobody asks itself.
Answered(l, round) ==
  /\ round.votes \subseteq round.asked \ {l}
  /\ round.pc = "started" => round.asked = {}

\* Whom l has never suspected it asks.
CoverInv ==
  \A l \in Peer :
    /\ l \notin alive[l] /\ l \notin everSuspected[l]
    /\ \A r \in DOMAIN rounds[l] : Answered(l, rounds[l][r])
    /\ Peer \ everSuspected[l] \subseteq alive[l] \cup {l}
    /\ \A r \in DOMAIN rounds[l] : rounds[l][r].pc = "waiting" =>
         Peer \ everSuspected[l] \subseteq rounds[l][r].asked \cup {l}

\* Messages are about rounds, decisions about rounds that are backed.
SoundMessage(msg) ==
  /\ msg.type = "PROPOSE" =>
       /\ msg.round \in DOMAIN rounds[msg.from]
       /\ msg.to \in rounds[msg.from][msg.round].asked \ {msg.from}
  /\ msg.type = "VOTE_ACCEPT" =>
       /\ msg.round \in DOMAIN rounds[msg.to]
       /\ msg.from \in rounds[msg.to][msg.round].asked \ {msg.to}
  /\ msg.type = "DECIDE" =>
       msg.value # NoValue /\ \E l \in Peer : Backed(l, msg.round, msg.value)

MessageInv == \A msg \in votesNet : SoundMessage(msg)

DecidedInv ==
  \A n \in Peer, r \in RoundId : decided[n][r] # NoValue =>
    \E l \in Peer : Backed(l, r, decided[n][r])

\* As soon as somebody knows a decision everybody is informed.
ToldInv ==
  /\ \A r \in RoundId :
       (\E n \in Peer : decided[n][r] # NoValue) => \A n \in Peer : Informed(n, r)
  /\ \A msg \in votesNet : msg.type = "DECIDE" => \A n \in Peer : Informed(n, msg.round)
  /\ \A msg \in handled : msg.type = "DECIDE" => decided[msg.to][msg.round] # NoValue

CInv ==
  ConsensusTypeOK /\ LeaderInv /\ CoverInv /\ MessageInv /\ DecidedInv /\ ToldInv

-----------------------------------------------------------------------------
(* Rounds.                                                                 *)

\* No round is forgotten and no vote; leadership and suspicion are remembered.
Grows ==
  /\ everLed \subseteq everLed'
  /\ \A l \in Peer :
       /\ everSuspected[l] \subseteq everSuspected'[l]
       /\ DOMAIN rounds[l] \subseteq DOMAIN rounds'[l]
       /\ \A r \in DOMAIN rounds[l] : /\ rounds'[l][r].value = rounds[l][r].value
                                      /\ rounds[l][r].votes \subseteq rounds'[l][r].votes
                                      /\ rounds[l][r].asked \subseteq rounds'[l][r].asked

LEMMA Replaced ==
  ASSUME rounds \in [Peer -> Seq(Round)], NEW l \in Peer, NEW r \in DOMAIN rounds[l],
         NEW round \in Round, rounds' = [rounds EXCEPT ![l][r] = round]
  PROVE  /\ rounds' \in [Peer -> Seq(Round)]
         /\ \A a \in Peer : Len(rounds'[a]) = Len(rounds[a]) /\ DOMAIN rounds'[a] = DOMAIN rounds[a]
         /\ \A a \in Peer : \A k \in DOMAIN rounds[a] :
              rounds'[a][k] = IF a = l /\ k = r THEN round ELSE rounds[a][k]
<1>. DEFINE s == rounds[l]
            t == [s EXCEPT ![r] = round]
<1>1. s \in Seq(Round) /\ DOMAIN s = 1 .. Len(s) /\ r \in 1 .. Len(s)
  OBVIOUS
<1>2. /\ t \in Seq(Round) /\ Len(t) = Len(s) /\ DOMAIN t = DOMAIN s
      /\ \A k \in 1 .. Len(s) : t[k] = IF k = r THEN round ELSE s[k]
  BY <1>1, ExceptSeq
<1>3. rounds' = [rounds EXCEPT ![l] = t]
  OBVIOUS
<1>. HIDE DEF t
<1>. QED BY <1>1, <1>2, <1>3

LEMMA RoundTyped ==
  ASSUME ConsensusTypeOK, NEW l \in Peer, NEW r \in DOMAIN rounds[l]
  PROVE  /\ rounds[l][r] \in Round
         /\ LeaderInv => r \in RoundId
<1>1. rounds[l] \in Seq(Round) /\ DOMAIN rounds[l] = 1 .. Len(rounds[l]) /\ Len(rounds[l]) \in Nat
  BY DEF ConsensusTypeOK
<1>2. LeaderInv => Len(rounds[l]) <= MaxRounds
  BY <1>1, ConsensusAssumption DEF LeaderInv, ConsensusTypeOK
<1>. QED BY <1>1, <1>2, ConsensusAssumption DEF RoundId

LEMMA BackedStays ==
  ASSUME ConsensusTypeOK, ConsensusTypeOK', Grows, CoverInv', NEW l \in Peer, NEW r, NEW v,
         Backed(l, r, v)
  PROVE  Backed(l, r, v)'
<1>. DEFINE old == rounds[l][r].votes
            new == rounds'[l][r].votes
            before == Peer \ everSuspected[l]
            after == Peer \ everSuspected'[l]
<1>1. r \in DOMAIN rounds[l] /\ r \in DOMAIN rounds'[l] /\ l \in everLed'
      /\ rounds'[l][r].value = v
      /\ old \subseteq new /\ after \subseteq before
      /\ 2 * (Cardinality(old) + 1) > Cardinality(before)
  BY DEF Backed, Grows
<1>2. new \subseteq Peer
  <2>1. rounds'[l] \in Seq(Round)
    BY DEF ConsensusTypeOK
  <2>2. rounds'[l][r] \in Round
    BY <1>1, <2>1
  <2>. QED BY <2>2 DEF Round
<1>3. IsFiniteSet(new) /\ IsFiniteSet(before)
  BY <1>2, ConsensusAssumption, FS_Subset
<1>. HIDE DEF old, new, before, after
<1>4. Cardinality(old) <= Cardinality(new) /\ Cardinality(after) <= Cardinality(before)
      /\ IsFiniteSet(old) /\ IsFiniteSet(after)
  BY <1>1, <1>3, FS_Subset
<1>5. Cardinality(old) \in Nat /\ Cardinality(new) \in Nat
      /\ Cardinality(after) \in Nat /\ Cardinality(before) \in Nat
  BY <1>3, <1>4, FS_CardinalityType
<1>6. 2 * (Cardinality(new) + 1) > Cardinality(after)
  BY <1>1, <1>4, <1>5
<1>7. rounds'[l][r].votes \subseteq rounds'[l][r].asked \ {l}
  BY <1>1 DEF CoverInv, Answered
<1>. QED BY <1>1, <1>6, <1>7 DEF Backed, new, after

\* A majority of those that are asked is one of those never suspected.
LEMMA MajorityCovers ==
  ASSUME NEW votes \in SUBSET Peer, NEW others \in SUBSET Peer, NEW unsuspected \in SUBSET Peer,
         NEW l \in Peer, unsuspected \subseteq others \cup {l}, IsMajority(votes, others)
  PROVE  2 * (Cardinality(votes) + 1) > Cardinality(unsuspected)
<1>1. IsFiniteSet(votes) /\ IsFiniteSet(others) /\ IsFiniteSet(unsuspected)
  BY ConsensusAssumption, FS_Subset
<1>2. IsFiniteSet(others \cup {l}) /\ Cardinality(others \cup {l}) =
        IF l \in others THEN Cardinality(others) ELSE Cardinality(others) + 1
  BY <1>1, FS_AddElement
<1>3. Cardinality(unsuspected) <= Cardinality(others \cup {l})
  BY <1>2, FS_Subset
<1>4. Cardinality(votes) \in Nat /\ Cardinality(others) \in Nat /\ Cardinality(unsuspected) \in Nat
  BY <1>1, FS_CardinalityType
<1>5. Cardinality(others \cup {l}) <= Cardinality(others) + 1
  BY <1>2, <1>4
<1>6. 2 * (Cardinality(votes) + 1) > Cardinality(others) + 1
  BY DEF IsMajority
<1>7. Cardinality(others \cup {l}) \in Nat
  BY <1>2, FS_CardinalityType
<1>. QED BY <1>3, <1>4, <1>5, <1>6, <1>7

-----------------------------------------------------------------------------
(* What any step has to show.                                              *)

LEMMA SoundStays ==
  ASSUME ConsensusTypeOK, ConsensusTypeOK', Grows, CoverInv',
         NEW msg \in votesNet, SoundMessage(msg)
  PROVE  SoundMessage(msg)'
<1>1. msg.from \in Peer /\ msg.to \in Peer
  BY DEF ConsensusTypeOK, ConsensusMessage
<1>2. /\ DOMAIN rounds[msg.from] \subseteq DOMAIN rounds'[msg.from]
      /\ DOMAIN rounds[msg.to] \subseteq DOMAIN rounds'[msg.to]
  BY <1>1 DEF Grows
<1>3. \A l \in Peer : Backed(l, msg.round, msg.value) => Backed(l, msg.round, msg.value)'
  BY BackedStays
<1>4. /\ \A k \in DOMAIN rounds[msg.from] :
           rounds[msg.from][k].asked \subseteq rounds'[msg.from][k].asked
      /\ \A k \in DOMAIN rounds[msg.to] :
           rounds[msg.to][k].asked \subseteq rounds'[msg.to][k].asked
  BY <1>1 DEF Grows
<1>. QED BY <1>2, <1>3, <1>4 DEF SoundMessage

LEMMA InformedStays ==
  ASSUME everLed \subseteq everLed', votesNet \subseteq votesNet',
         \A l \in Peer : everSuspected[l] \subseteq everSuspected'[l],
         everLed \subseteq Peer,
         NEW n \in Peer, NEW r, decided[n][r] # NoValue => decided'[n][r] # NoValue,
         Informed(n, r)
  PROVE  Informed(n, r)'
BY DEF Informed

\* A step that decides nothing and tells nobody.
LEMMA QuietStep ==
  ASSUME CInv, ConsensusTypeOK', Grows, LeaderInv', CoverInv', decided' = decided,
         votesNet \subseteq votesNet',
         \A msg \in votesNet' \ votesNet : msg.type # "DECIDE" /\ SoundMessage(msg)',
         handled \subseteq handled',
         \A msg \in handled' \ handled : msg.type # "DECIDE"
  PROVE  CInv'
<1>1. ConsensusTypeOK /\ MessageInv /\ DecidedInv /\ ToldInv /\ everLed \subseteq Peer
  BY DEF CInv, ConsensusTypeOK
<1>2. MessageInv'
  BY <1>1, SoundStays DEF MessageInv
<1>3. DecidedInv'
  BY <1>1, BackedStays DEF DecidedInv
<1>4. \A n \in Peer : \A r : Informed(n, r) => Informed(n, r)'
  BY <1>1, InformedStays DEF Grows
<1>5. ToldInv'
  BY <1>1, <1>4 DEF ToldInv
<1>. QED BY <1>2, <1>3, <1>5 DEF CInv

\* A step that makes l take v for decided in round r.  If l was not told of it,
\* it tells the targets.
LEMMA DecidingStep ==
  ASSUME CInv, ConsensusTypeOK', Grows, LeaderInv', CoverInv',
         NEW l \in Peer, NEW r \in RoundId, NEW v \in Value,
         decided' = [decided EXCEPT ![l][r] = v],
         \E a \in Peer : Backed(a, r, v)',
         votesNet \subseteq votesNet',
         \A msg \in votesNet' \ votesNet :
           msg.type = "DECIDE" /\ msg.round = r /\ msg.value = v,
         \A n \in Peer : Informed(n, r)',
         handled \subseteq handled',
         \A msg \in handled' \ handled : msg.type = "DECIDE" => msg.to = l /\ msg.round = r
  PROVE  CInv'
<1>1. ConsensusTypeOK /\ MessageInv /\ DecidedInv /\ ToldInv /\ everLed \subseteq Peer
      /\ v # NoValue
  BY DEF CInv, ConsensusTypeOK, Value, NoValue
<1>2. \A n \in Peer, k \in RoundId :
        decided'[n][k] = IF n = l /\ k = r THEN v ELSE decided[n][k]
  BY <1>1 DEF ConsensusTypeOK
<1>3. MessageInv'
  <2>1. \A msg \in votesNet' \ votesNet : SoundMessage(msg)'
    BY <1>1 DEF SoundMessage
  <2>. QED BY <1>1, <2>1, SoundStays DEF MessageInv
<1>4. DecidedInv'
  BY <1>1, <1>2, BackedStays DEF DecidedInv
<1>5. \A n \in Peer : \A k \in RoundId : Informed(n, k) => Informed(n, k)'
  BY <1>1, <1>2, InformedStays DEF Grows
<1>6. ToldInv'
  <2>1. \A k \in RoundId :
          (\E n \in Peer : decided'[n][k] # NoValue) => \A n \in Peer : Informed(n, k)'
    BY <1>1, <1>2, <1>5 DEF ToldInv
  <2>2. ASSUME NEW msg \in votesNet', msg.type = "DECIDE", NEW n \in Peer
        PROVE  Informed(n, msg.round)'
    <3>1. msg.round \in RoundId
      BY DEF ConsensusTypeOK, ConsensusMessage
    <3>. QED BY <1>1, <1>5, <2>2, <3>1 DEF ToldInv
  <2>3. ASSUME NEW msg \in handled', msg.type = "DECIDE"
        PROVE  decided'[msg.to][msg.round] # NoValue
    <3>1. msg.to \in Peer /\ msg.round \in RoundId
      BY DEF ConsensusTypeOK, ConsensusMessage
    <3>. QED BY <1>1, <1>2, <2>3, <3>1 DEF ToldInv
  <2>. QED BY <2>1, <2>2, <2>3 DEF ToldInv
<1>. QED BY <1>3, <1>4, <1>6 DEF CInv

-----------------------------------------------------------------------------
(* propose.                                                                *)

LEMMA ProposeKeeps ==
  ASSUME CInv, NEW l \in Peer, Propose(l)
  PROVE  CInv'
<1>. DEFINE round == [value |-> calls + 1, votes |-> {}, decided |-> FALSE, asked |-> {},
                      pc |-> "started"]
<1>1. /\ ConsensusTypeOK /\ LeaderInv /\ CoverInv /\ calls < MaxRounds /\ l \in leads
      /\ rounds' = [rounds EXCEPT ![l] = Append(rounds[l], round)] /\ calls' = calls + 1
      /\ UNCHANGED <<leads, alive, decided, votesNet, handled, everLed, everSuspected, changes>>
  BY DEF CInv, Propose, WithNewRound
<1>2. calls \in Nat /\ calls' \in 0 .. MaxRounds /\ calls + 1 \in Value
  BY <1>1, ConsensusAssumption DEF ConsensusTypeOK, Value
<1>3. round \in Round
  BY <1>2 DEF Round
<1>. HIDE DEF round
<1>4. rounds[l] \in Seq(Round)
  BY <1>1 DEF ConsensusTypeOK
<1>5. /\ Append(rounds[l], round) \in Seq(Round)
      /\ Len(Append(rounds[l], round)) = Len(rounds[l]) + 1
      /\ \A k \in 1 .. Len(rounds[l]) : Append(rounds[l], round)[k] = rounds[l][k]
      /\ Append(rounds[l], round)[Len(rounds[l]) + 1] = round
  BY <1>3, <1>4, AppendProperties
<1>6. /\ rounds' \in [Peer -> Seq(Round)]
      /\ rounds'[l] = Append(rounds[l], round)
      /\ \A a \in Peer : a # l => rounds'[a] = rounds[a]
  BY <1>1, <1>5 DEF ConsensusTypeOK
<1>7. ConsensusTypeOK'
  BY <1>1, <1>2, <1>6 DEF ConsensusTypeOK
<1>8. /\ Len(rounds[l]) \in Nat
      /\ DOMAIN rounds[l] = 1 .. Len(rounds[l])
      /\ DOMAIN rounds'[l] = 1 .. Len(rounds[l]) + 1
  BY <1>4, <1>5, <1>6
<1>9. /\ DOMAIN rounds'[l] = DOMAIN rounds[l] \cup {Len(rounds[l]) + 1}
      /\ rounds'[l][Len(rounds[l]) + 1].pc = "started"
      /\ Answered(l, rounds'[l][Len(rounds[l]) + 1])
      /\ \A k \in DOMAIN rounds[l] : rounds'[l][k] = rounds[l][k]
  <2>1. round.pc = "started" /\ Answered(l, round)
    BY DEF round, Answered
  <2>. QED BY <1>5, <1>6, <1>8, <2>1
<1>10. Grows
  BY <1>1, <1>6, <1>9 DEF Grows
<1>11. LeaderInv'
  <2>1. \A a \in Peer : Len(rounds[a]) \in Nat
    BY <1>1 DEF ConsensusTypeOK
  <2>2. \A a \in Peer : Len(rounds'[a]) <= calls + 1
    BY <1>1, <1>2, <1>5, <1>6, <2>1 DEF LeaderInv
  <2>. QED BY <1>1, <1>6, <2>2 DEF LeaderInv
<1>12. CoverInv'
  BY <1>1, <1>6, <1>9 DEF CoverInv
<1>. QED BY <1>1, <1>7, <1>10, <1>11, <1>12, QuietStep

\* Round r of l becomes round, which knows what it knew.
Resumes(l, r, round) ==
  /\ rounds' = [rounds EXCEPT ![l][r] = round]
  /\ round \in Round
  /\ round.value = rounds[l][r].value /\ rounds[l][r].votes \subseteq round.votes
  /\ rounds[l][r].asked \subseteq round.asked /\ Answered(l, round)
  /\ round.pc = "waiting" => Peer \ everSuspected[l] \subseteq round.asked \cup {l}
  /\ UNCHANGED <<leads, alive, calls, everLed, everSuspected, changes>>

LEMMA ResumesKeeps ==
  ASSUME CInv, NEW l \in Peer, NEW r \in DOMAIN rounds[l], NEW round, Resumes(l, r, round)
  PROVE  /\ rounds' \in [Peer -> Seq(Round)] /\ Grows /\ LeaderInv' /\ CoverInv'
         /\ \A a \in Peer : DOMAIN rounds'[a] = DOMAIN rounds[a]
         /\ rounds'[l][r] = round
<1>1. /\ ConsensusTypeOK /\ LeaderInv /\ CoverInv /\ rounds \in [Peer -> Seq(Round)]
      /\ UNCHANGED <<leads, alive, calls, everLed, everSuspected, changes>>
  BY DEF CInv, ConsensusTypeOK, Resumes
<1>2. /\ rounds' \in [Peer -> Seq(Round)]
      /\ \A a \in Peer : Len(rounds'[a]) = Len(rounds[a]) /\ DOMAIN rounds'[a] = DOMAIN rounds[a]
      /\ \A a \in Peer : \A k \in DOMAIN rounds[a] :
           rounds'[a][k] = IF a = l /\ k = r THEN round ELSE rounds[a][k]
  BY <1>1, Replaced DEF Resumes
<1>3. Grows
  BY <1>1, <1>2 DEF Grows, Resumes
<1>4. LeaderInv'
  <2>1. \A a \in Peer : rounds'[a] # << >> => rounds[a] # << >>
    BY <1>1, <1>2
  <2>. QED BY <1>1, <1>2, <2>1 DEF LeaderInv
<1>5. CoverInv'
  BY <1>1, <1>2 DEF CoverInv, Resumes
<1>. QED BY <1>2, <1>3, <1>4, <1>5

LEMMA AskAliveKeeps ==
  ASSUME CInv, NEW l \in Peer, NEW r \in DOMAIN rounds[l], AskAlive(l, r)
  PROVE  CInv'
<1>. DEFINE round == [[rounds[l][r] EXCEPT !.asked = alive[l]] EXCEPT !.pc = "waiting"]
            sent == ConsensusSends("PROPOSE", l, alive[l], r, rounds[l][r].value)
<1>1. /\ ConsensusTypeOK /\ LeaderInv /\ CoverInv /\ alive[l] \subseteq Peer
      /\ rounds' = [rounds EXCEPT ![l][r] = round]
      /\ votesNet' = votesNet \cup sent /\ rounds[l][r].pc = "started"
      /\ UNCHANGED <<leads, alive, decided, calls, handled, everLed, everSuspected, changes>>
  BY DEF CInv, AskAlive, ConsensusTypeOK
<1>2. rounds[l][r] \in Round /\ r \in RoundId
  BY <1>1, RoundTyped
<1>3. /\ round \in Round /\ round.value = rounds[l][r].value /\ round.votes = rounds[l][r].votes
      /\ round.asked = alive[l] /\ round.pc = "waiting"
  BY <1>1, <1>2 DEF Round
<1>4. sent \subseteq ConsensusMessage
      /\ \A msg \in sent :
           msg.type = "PROPOSE" /\ msg.from = l /\ msg.to \in alive[l] /\ msg.round = r
  <2>1. rounds[l][r].value \in Value
    BY <1>2 DEF Round
  <2>. QED BY <1>1, <1>2, <2>1 DEF ConsensusSends, ConsensusMessage
<1>. HIDE DEF round, sent
<1>5. Resumes(l, r, round)
  <2>1. rounds[l][r].asked = {} /\ rounds[l][r].votes = {} /\ l \notin alive[l]
    BY <1>1 DEF CoverInv, Answered
  <2>. QED BY <1>1, <1>3, <2>1 DEF Resumes, CoverInv, Answered
<1>6. /\ rounds' \in [Peer -> Seq(Round)] /\ Grows /\ LeaderInv' /\ CoverInv'
      /\ r \in DOMAIN rounds'[l] /\ rounds'[l][r] = round
  BY <1>5, ResumesKeeps
<1>7. ConsensusTypeOK'
  BY <1>1, <1>4, <1>6 DEF ConsensusTypeOK
<1>8. \A msg \in votesNet' \ votesNet : msg.type # "DECIDE" /\ SoundMessage(msg)'
  BY <1>1, <1>3, <1>4, <1>6 DEF SoundMessage, CoverInv
<1>. QED BY <1>1, <1>6, <1>7, <1>8, QuietStep

\* Whether a round is decided or not, if those that are told are the nodes
\* that were never suspected, or more.
LEMMA ConcludeKeeps ==
  ASSUME CInv, NEW l \in Peer, NEW r \in DOMAIN rounds[l], NEW round,
         NEW targets \in SUBSET Peer,
         Resumes(l, r, round), Conclude(l, r, round, targets),
         Peer \ everSuspected[l] \subseteq targets \cup {l},
         round.decided => IsMajority(round.votes, targets),
         handled \subseteq handled', handled' \subseteq votesNet,
         \A msg \in handled' \ handled : msg.type # "DECIDE"
  PROVE  CInv'
<1>. DEFINE sent == ConsensusSends("DECIDE", l, targets, r, round.value)
<1>1. /\ ConsensusTypeOK /\ LeaderInv /\ round \in Round
      /\ UNCHANGED <<leads, alive, calls, everLed, everSuspected, changes>>
  BY DEF CInv, Resumes
<1>2. r \in RoundId /\ round.value \in Value /\ round.votes \in SUBSET Peer
      /\ round.decided \in BOOLEAN
  BY <1>1, RoundTyped DEF Round
<1>3. /\ rounds' \in [Peer -> Seq(Round)] /\ Grows /\ LeaderInv' /\ CoverInv'
      /\ r \in DOMAIN rounds'[l] /\ rounds'[l][r] = round
  BY ResumesKeeps
<1>4. /\ sent \subseteq ConsensusMessage
      /\ \A msg \in sent : msg.type = "DECIDE" /\ msg.round = r /\ msg.value = round.value
      /\ \A n \in targets : \E msg \in sent : msg.to = n
  <2>1. \A n \in targets :
          [type |-> "DECIDE", from |-> l, to |-> n, round |-> r, value |-> round.value] \in sent
    BY DEF ConsensusSends
  <2>. QED BY <1>2, <2>1 DEF ConsensusSends, ConsensusMessage
<1>. HIDE DEF sent
<1>5. CASE round.decided
  <2>1. decided' = [decided EXCEPT ![l][r] = round.value] /\ votesNet' = votesNet \cup sent
    BY <1>5 DEF Conclude, sent
  <2>2. ConsensusTypeOK'
    <3>1. decided' \in [Peer -> [RoundId -> Value \cup {NoValue}]]
      BY <1>1, <1>2, <2>1 DEF ConsensusTypeOK
    <3>. QED BY <1>1, <1>3, <1>4, <2>1, <3>1 DEF ConsensusTypeOK
  <2>3. Backed(l, r, round.value)'
    <3>1. 2 * (Cardinality(round.votes) + 1) > Cardinality(Peer \ everSuspected[l])
      BY <1>2, <1>5, MajorityCovers
    <3>2. l \in everLed
      <4>1. rounds[l] # << >>
        OBVIOUS
      <4>. QED BY <1>1, <4>1 DEF LeaderInv
    <3>. QED BY <1>1, <1>3, <3>1, <3>2 DEF Backed, Resumes, Answered
  <2>4. ASSUME NEW n \in Peer PROVE Informed(n, r)'
    <3>1. CASE n \in everSuspected[l]
      BY <1>1, <2>3, <3>1 DEF Informed, Backed
    <3>2. CASE n \in targets
      BY <1>4, <2>1, <3>2 DEF Informed
    <3>3. CASE n = l
      <4>1. decided'[l][r] = round.value
        BY <1>1, <1>2, <2>1 DEF ConsensusTypeOK
      <4>. QED BY <1>2, <3>3, <4>1 DEF Informed, Value, NoValue
    <3>. QED BY <3>1, <3>2, <3>3
  <2>. QED BY <1>2, <1>3, <1>4, <2>1, <2>2, <2>3, <2>4, DecidingStep
<1>6. CASE ~ round.decided
  <2>1. decided' = decided /\ votesNet' = votesNet
    <3>1. decided' = [decided EXCEPT ![l][r] = decided[l][r]] /\ votesNet' = votesNet \cup {}
      BY <1>6 DEF Conclude
    <3>. QED BY <1>1, <1>2, <3>1 DEF ConsensusTypeOK
  <2>2. ConsensusTypeOK'
    BY <1>1, <1>3, <2>1 DEF ConsensusTypeOK
  <2>. QED BY <1>3, <2>1, <2>2, QuietStep
<1>. QED BY <1>5, <1>6

LEMMA StopWaitingKeeps ==
  ASSUME CInv, NEW l \in Peer, NEW r \in DOMAIN rounds[l], StopWaiting(l, r)
  PROVE  CInv'
<1>. DEFINE old == rounds[l][r]
            round == [old EXCEPT !.pc = "returned"]
            counted == [round EXCEPT !.decided = IsMajority(round.votes, round.asked)]
<1>1. /\ ConsensusTypeOK /\ LeaderInv /\ CoverInv /\ old.pc = "waiting"
      /\ UNCHANGED <<leads, alive, calls, handled, everLed, everSuspected, changes>>
      /\ handled \subseteq votesNet
  BY DEF CInv, StopWaiting, ConsensusTypeOK
<1>2. old \in Round
  BY <1>1, RoundTyped
<1>3. /\ round \in Round /\ round.value = old.value /\ round.votes = old.votes
      /\ round.asked = old.asked /\ round.pc = "returned"
      /\ old.asked \in SUBSET Peer
  BY <1>2 DEF Round
<1>4. Peer \ everSuspected[l] \subseteq old.asked \cup {l}
  BY <1>1 DEF CoverInv
<1>5. CASE round.decided /\ rounds' = [rounds EXCEPT ![l][r] = round]
           /\ UNCHANGED <<decided, votesNet>>
  <2>. HIDE DEF round
  <2>1. Resumes(l, r, round)
    BY <1>1, <1>3, <1>5 DEF Resumes, CoverInv, Answered
  <2>2. rounds' \in [Peer -> Seq(Round)] /\ Grows /\ LeaderInv' /\ CoverInv'
    BY <2>1, ResumesKeeps
  <2>3. ConsensusTypeOK'
    BY <1>1, <1>5, <2>2 DEF ConsensusTypeOK
  <2>. QED BY <1>1, <1>5, <2>2, <2>3, QuietStep
<1>6. CASE Conclude(l, r, counted, round.asked)
  <2>1. IsMajority(round.votes, round.asked) \in BOOLEAN
    BY DEF IsMajority
  <2>. HIDE DEF round
  <2>2. /\ counted \in Round /\ counted.value = old.value /\ counted.votes = round.votes
        /\ counted.pc = "returned" /\ counted.asked = round.asked
        /\ counted.decided = IsMajority(round.votes, round.asked)
    BY <1>3, <2>1 DEF Round
  <2>. HIDE DEF counted
  <2>3. Resumes(l, r, counted)
    BY <1>1, <1>3, <1>6, <2>2 DEF Resumes, Conclude, CoverInv, Answered
  <2>. QED BY <1>1, <1>3, <1>4, <1>6, <2>2, <2>3, ConcludeKeeps
<1>. QED BY <1>5, <1>6 DEF StopWaiting

-----------------------------------------------------------------------------
(* The handlers.                                                           *)

LEMMA HandleVoteKeeps ==
  ASSUME CInv, NEW l \in Peer, NEW msg \in votesNet \ handled, msg.to = l,
         handled' = handled \cup {msg}, HandleVote(l, msg),
         UNCHANGED <<leads, alive, calls, everLed, everSuspected, changes>>
  PROVE  CInv'
<1>. DEFINE r == msg.round
            old == rounds[l][r]
            round == [old EXCEPT !.votes = @ \cup {msg.from}]
            counted == [round EXCEPT !.decided = IsMajority(round.votes, alive[l])]
<1>1. /\ ConsensusTypeOK /\ LeaderInv /\ CoverInv /\ msg.type = "VOTE_ACCEPT"
      /\ r \in DOMAIN rounds[l] /\ msg.from \in Peer /\ alive[l] \in SUBSET Peer
      /\ msg.from \in old.asked \ {l}
      /\ handled' \subseteq votesNet
  BY DEF CInv, HandleVote, MessageInv, SoundMessage, ConsensusTypeOK, ConsensusMessage
<1>2. old \in Round
  BY <1>1, RoundTyped
<1>3. /\ round \in Round /\ round.value = old.value /\ round.votes = old.votes \cup {msg.from}
      /\ round.asked = old.asked /\ round.pc = old.pc
  BY <1>1, <1>2 DEF Round
<1>4. CASE UNCHANGED <<rounds, decided, votesNet>>
  <2>1. ConsensusTypeOK'
    BY <1>1, <1>4 DEF ConsensusTypeOK
  <2>2. Grows /\ LeaderInv' /\ CoverInv'
    BY <1>1, <1>4 DEF Grows, LeaderInv, CoverInv
  <2>. QED BY <1>1, <1>4, <2>1, <2>2, QuietStep
<1>5. CASE Conclude(l, r, counted, Told(l, round))
  <2>1. IsMajority(round.votes, alive[l]) \in BOOLEAN
    BY DEF IsMajority
  <2>2. Told(l, round) = alive[l]
    BY DEF Told
  <2>. HIDE DEF round
  <2>3. /\ counted \in Round /\ counted.value = old.value /\ counted.votes = round.votes
        /\ counted.pc = old.pc /\ counted.asked = old.asked
        /\ counted.decided = IsMajority(round.votes, alive[l])
    BY <1>3, <2>1 DEF Round
  <2>. HIDE DEF counted
  <2>4. /\ Peer \ everSuspected[l] \subseteq alive[l] \cup {l}
        /\ old.pc = "waiting" => Peer \ everSuspected[l] \subseteq old.asked \cup {l}
    BY <1>1 DEF CoverInv
  <2>5. Resumes(l, r, counted)
    <3>1. Answered(l, old)
      BY <1>1 DEF CoverInv
    <3>2. Answered(l, counted)
      BY <1>1, <1>3, <2>3, <3>1 DEF Answered
    <3>. QED BY <1>1, <1>3, <1>5, <2>3, <2>4, <3>2 DEF Resumes, Conclude
  <2>6. Conclude(l, r, counted, alive[l])
    BY <1>5, <2>2
  <2>7. \A m \in handled' \ handled : m.type # "DECIDE"
    BY <1>1
  <2>. HIDE DEF r
  <2>. QED BY <1>1, <2>3, <2>4, <2>5, <2>6, <2>7, ConcludeKeeps
<1>. QED BY <1>4, <1>5 DEF HandleVote

LEMMA HandleProposeKeeps ==
  ASSUME CInv, NEW n \in Peer, NEW msg \in votesNet \ handled, msg.to = n,
         handled' = handled \cup {msg}, HandlePropose(n, msg),
         UNCHANGED <<leads, alive, calls, everLed, everSuspected, changes>>
  PROVE  CInv'
<1>. DEFINE sent == ConsensusSends("VOTE_ACCEPT", n, {msg.from}, msg.round, NoValue)
<1>1. /\ ConsensusTypeOK /\ LeaderInv /\ CoverInv /\ msg.type = "PROPOSE"
      /\ msg.from \in Peer /\ msg.round \in RoundId /\ msg.round \in DOMAIN rounds[msg.from]
      /\ n \in rounds[msg.from][msg.round].asked \ {msg.from}
      /\ votesNet' = votesNet \cup sent /\ UNCHANGED <<rounds, decided>>
  BY DEF CInv, HandlePropose, MessageInv, SoundMessage, ConsensusTypeOK, ConsensusMessage
<1>2. /\ sent \subseteq ConsensusMessage
      /\ \A m \in sent : m.type = "VOTE_ACCEPT" /\ m.from = n /\ m.to = msg.from
                          /\ m.round = msg.round
  BY <1>1 DEF ConsensusSends, ConsensusMessage
<1>. HIDE DEF sent
<1>3. ConsensusTypeOK'
  BY <1>1, <1>2 DEF ConsensusTypeOK
<1>4. Grows /\ LeaderInv' /\ CoverInv'
  BY <1>1 DEF Grows, LeaderInv, CoverInv
<1>5. \A m \in votesNet' \ votesNet : m.type # "DECIDE" /\ SoundMessage(m)'
  BY <1>1, <1>2 DEF SoundMessage
<1>. QED BY <1>1, <1>3, <1>4, <1>5, QuietStep

LEMMA HandleDecideKeeps ==
  ASSUME CInv, NEW n \in Peer, NEW msg \in votesNet \ handled, msg.to = n,
         handled' = handled \cup {msg}, HandleDecide(n, msg),
         UNCHANGED <<leads, alive, calls, everLed, everSuspected, changes>>
  PROVE  CInv'
<1>. DEFINE r == msg.round
            v == msg.value
            round == [rounds[n][r] EXCEPT !.decided = TRUE]
<1>1. /\ ConsensusTypeOK /\ LeaderInv /\ CoverInv /\ MessageInv /\ ToldInv
      /\ msg.type = "DECIDE" /\ votesNet' = votesNet /\ decided' = [decided EXCEPT ![n][r] = v]
  BY DEF CInv, HandleDecide
<1>2. r \in RoundId /\ v \in Value /\ \E a \in Peer : Backed(a, r, v)
  BY <1>1 DEF MessageInv, SoundMessage, ConsensusTypeOK, ConsensusMessage
<1>3. rounds' \in [Peer -> Seq(Round)] /\ Grows /\ LeaderInv' /\ CoverInv'
  <2>1. CASE r \in DOMAIN rounds[n]
    <3>1. rounds[n][r] \in Round
      BY <1>1, <2>1, RoundTyped
    <3>2. /\ round \in Round /\ round.value = rounds[n][r].value
          /\ round.votes = rounds[n][r].votes
          /\ round.pc = rounds[n][r].pc /\ round.asked = rounds[n][r].asked
      BY <3>1 DEF Round
    <3>3. rounds' = [rounds EXCEPT ![n][r] = round]
      BY <2>1 DEF HandleDecide
    <3>. HIDE DEF round
    <3>4. Resumes(n, r, round)
      BY <1>1, <2>1, <3>2, <3>3 DEF Resumes, CoverInv, Answered
    <3>. QED BY <2>1, <3>4, ResumesKeeps
  <2>2. CASE r \notin DOMAIN rounds[n]
    <3>1. rounds' = rounds
      BY <2>2 DEF HandleDecide
    <3>. QED BY <1>1, <3>1 DEF Grows, LeaderInv, CoverInv, ConsensusTypeOK
  <2>. QED BY <2>1, <2>2
<1>. HIDE DEF r, v
<1>4. ConsensusTypeOK'
  <2>1. decided' \in [Peer -> [RoundId -> Value \cup {NoValue}]]
    BY <1>1, <1>2 DEF ConsensusTypeOK
  <2>. QED BY <1>1, <1>3, <2>1 DEF ConsensusTypeOK
<1>5. \E a \in Peer : Backed(a, r, v)'
  BY <1>1, <1>2, <1>3, <1>4, BackedStays
<1>6. \A m \in Peer : Informed(m, r)'
  <2>1. \A m \in Peer : Informed(m, r)
    BY <1>1 DEF ToldInv, r
  <2>2. ASSUME NEW m \in Peer PROVE decided[m][r] # NoValue => decided'[m][r] # NoValue
    BY <1>1, <1>2 DEF ConsensusTypeOK, Value, NoValue
  <2>. QED BY <1>1, <1>3, <2>1, <2>2, InformedStays DEF Grows, ConsensusTypeOK
<1>7. \A m \in handled' \ handled : m.type = "DECIDE" => m.to = n /\ m.round = r
  BY DEF r
<1>. QED BY <1>1, <1>2, <1>3, <1>4, <1>5, <1>6, <1>7, DecidingStep

LEMMA HandleConsensusKeeps ==
  ASSUME CInv, NEW n \in Peer, NEW msg \in votesNet, HandleConsensus(n, msg)
  PROVE  CInv'
<1>1. /\ msg \in votesNet \ handled /\ msg.to = n /\ handled' = handled \cup {msg}
      /\ UNCHANGED <<leads, alive, calls, everLed, everSuspected, changes>>
      /\ HandlePropose(n, msg) \/ HandleVote(n, msg) \/ HandleDecide(n, msg)
  BY DEF HandleConsensus
<1>. QED BY <1>1, HandleProposeKeeps, HandleVoteKeeps, HandleDecideKeeps

-----------------------------------------------------------------------------
(* What happens around it.                                                 *)

LEMMA AroundKeeps ==
  ASSUME CInv, NEW n \in Peer, NEW m \in Peer, Suspect(n, m) \/ Recover(n, m) \/ Elect(n)
  PROVE  CInv'
<1>1. /\ ConsensusTypeOK /\ LeaderInv /\ CoverInv
      /\ UNCHANGED <<rounds, decided, calls, votesNet, handled>>
      /\ changes < MaxChanges /\ changes' = changes + 1
  BY DEF CInv, Suspect, Recover, Elect
<1>2. changes' \in 0 .. MaxChanges
  BY <1>1, ConsensusAssumption DEF ConsensusTypeOK
<1>3. CASE Suspect(n, m)
  <2>1. ConsensusTypeOK'
    BY <1>1, <1>2, <1>3 DEF Suspect, ConsensusTypeOK
  <2>2. /\ \A a \in Peer : everSuspected[a] \subseteq everSuspected'[a]
        /\ UNCHANGED <<leads, everLed>>
    BY <1>1, <1>3 DEF Suspect, ConsensusTypeOK
  <2>3. Grows /\ LeaderInv'
    BY <1>1, <2>2 DEF Grows, LeaderInv
  <2>4. \A a \in Peer :
          /\ Peer \ everSuspected'[a] \subseteq alive'[a] \cup {a}
          /\ everSuspected[a] \subseteq everSuspected'[a]
          /\ a \notin alive'[a] /\ a \notin everSuspected'[a]
    BY <1>1, <1>3 DEF Suspect, ConsensusTypeOK, CoverInv
  <2>5. CoverInv'
    BY <1>1, <2>2, <2>4 DEF CoverInv
  <2>. QED BY <1>1, <2>1, <2>3, <2>5, QuietStep
<1>4. CASE Recover(n, m)
  <2>1. ConsensusTypeOK'
    BY <1>1, <1>2, <1>4 DEF Recover, ConsensusTypeOK
  <2>2. \A a \in Peer : alive[a] \subseteq alive'[a] /\ a \notin alive'[a]
    BY <1>1, <1>4 DEF Recover, ConsensusTypeOK, CoverInv
  <2>3. UNCHANGED <<leads, everLed, everSuspected>>
    BY <1>4 DEF Recover
  <2>4. Grows /\ LeaderInv'
    BY <1>1, <2>3 DEF Grows, LeaderInv
  <2>5. CoverInv'
    BY <1>1, <2>2, <2>3 DEF CoverInv
  <2>. QED BY <1>1, <2>1, <2>4, <2>5, QuietStep
<1>5. CASE Elect(n)
  <2>1. /\ leads' \in {{n}, leads \cup {n}} /\ everLed' = everLed \cup {n}
        /\ UNCHANGED <<alive, everSuspected>>
    BY <1>5 DEF Elect
  <2>2. ConsensusTypeOK'
    BY <1>1, <1>2, <2>1 DEF ConsensusTypeOK
  <2>3. Grows /\ LeaderInv' /\ CoverInv'
    BY <1>1, <2>1 DEF Grows, LeaderInv, CoverInv
  <2>. QED BY <1>1, <2>2, <2>3, QuietStep
<1>. QED BY <1>3, <1>4, <1>5

-----------------------------------------------------------------------------
(* The invariant, and what follows.                                        *)

LEMMA CInitially == ConsensusInit => CInv
<1>. SUFFICES ASSUME ConsensusInit PROVE CInv
  OBVIOUS
<1>1. \A l \in Peer : rounds[l] = << >> /\ DOMAIN rounds[l] = {} /\ Len(rounds[l]) = 0
  BY DEF ConsensusInit
<1>2. ConsensusTypeOK
  BY ConsensusAssumption DEF ConsensusInit, ConsensusTypeOK
<1>3. LeaderInv /\ CoverInv
  BY <1>1 DEF ConsensusInit, LeaderInv, CoverInv
<1>4. MessageInv /\ DecidedInv /\ ToldInv
  BY DEF ConsensusInit, MessageInv, DecidedInv, ToldInv
<1>. QED BY <1>2, <1>3, <1>4 DEF CInv

LEMMA CInductive == CInv /\ [ConsensusNext]_consensusVars => CInv'
<1>. SUFFICES ASSUME CInv, [ConsensusNext]_consensusVars PROVE CInv'
  OBVIOUS
<1>1. CASE UNCHANGED consensusVars
  <2>1. ConsensusTypeOK' /\ Grows /\ LeaderInv' /\ CoverInv'
    BY <1>1 DEF consensusVars, CInv, ConsensusTypeOK, Grows, LeaderInv, CoverInv
  <2>. QED BY <1>1, <2>1, QuietStep DEF consensusVars
<1>2. ASSUME NEW n \in Peer, ConsensusNode(n) PROVE CInv'
  BY <1>2, AskAliveKeeps, StopWaitingKeeps, HandleConsensusKeeps DEF ConsensusNode
<1>3. ASSUME NEW n \in Peer, Propose(n) \/ Elect(n) PROVE CInv'
  BY <1>3, ProposeKeeps, AroundKeeps
<1>4. ASSUME NEW n \in Peer, NEW m \in Peer, Suspect(n, m) \/ Recover(n, m) PROVE CInv'
  BY <1>4, AroundKeeps
<1>. QED BY <1>1, <1>2, <1>3, <1>4 DEF ConsensusNext

\* Every decision, known or under way, is backed by a round of a leader, and
\* everybody is informed of it, in every interleaving of propose with the
\* handlers.
THEOREM CInvAlways == ConsensusSpec => []CInv
BY CInitially, CInductive, PTL DEF ConsensusSpec

\* What any node takes for decided was voted for by nodes its leader had asked, in
\* a number that with the leader exceeds half the number of those it has never
\* suspected, although propose and _handle_vote count against different sets.
THEOREM EnoughAcceptedAlways == ConsensusSpec => []EnoughAccepted
<1>1. CInv => EnoughAccepted
  <2>. SUFFICES ASSUME CInv, NEW n \in Peer, NEW r \in RoundId, decided[n][r] # NoValue
                PROVE  \E l \in everLed : \E k \in DOMAIN rounds[l] :
                         /\ k = r
                         /\ rounds[l][r].value = decided[n][r]
                         /\ rounds[l][r].votes \subseteq rounds[l][r].asked \ {l}
                         /\ 2 * (Cardinality(rounds[l][r].votes) + 1)
                              > Cardinality(Peer \ everSuspected[l])
    BY DEF EnoughAccepted
  <2>. QED BY DEF CInv, DecidedInv, Backed
<1>. QED BY <1>1, CInvAlways, PTL

\* If there has been one leader only, no round of propose is decided twice
\* with different values.
THEOREM OneValuePerRoundAlways == ConsensusSpec => []OneValuePerRound
<1>1. CInv => OneValuePerRound
  <2>. SUFFICES ASSUME CInv, Cardinality(everLed) = 1,
                       NEW n \in Peer, NEW m \in Peer, NEW r \in RoundId,
                       NoValue \notin {decided[n][r], decided[m][r]}
                PROVE  decided[n][r] = decided[m][r]
    BY DEF OneValuePerRound
  <2>1. PICK a \in Peer : Backed(a, r, decided[n][r])
    BY DEF CInv, DecidedInv
  <2>2. PICK b \in Peer : Backed(b, r, decided[m][r])
    BY DEF CInv, DecidedInv
  <2>3. a = b
    <3>1. IsFiniteSet(everLed)
      BY ConsensusAssumption, FS_Subset DEF CInv, ConsensusTypeOK
    <3>2. \E x : everLed = {x}
      BY <3>1, FS_Singleton
    <3>. QED BY <2>1, <2>2, <3>2 DEF Backed
  <2>. QED BY <2>1, <2>2, <2>3 DEF Backed
<1>. QED BY <1>1, CInvAlways, PTL

\* A decision has reached every node, is on its way to it, or the node was
\* suspected, whether propose or _handle_vote has made it.
THEOREM EverybodyToldAlways == ConsensusSpec => []EverybodyTold
<1>1. CInv => EverybodyTold
  <2>. SUFFICES ASSUME CInv, NEW l \in Peer, NEW n \in Peer, NEW r \in RoundId,
                       decided[l][r] # NoValue, decided[n][r] = NoValue,
                       ~ \E k \in everLed : n \in everSuspected[k]
                PROVE  \E msg \in votesNet \ handled :
                         msg.type = "DECIDE" /\ msg.to = n /\ msg.round = r
    BY DEF EverybodyTold
  <2>1. Informed(n, r)
    BY DEF CInv, ToldInv
  <2>. QED BY <2>1 DEF Informed, CInv, ToldInv
<1>. QED BY <1>1, CInvAlways, PTL
=============================================================================
