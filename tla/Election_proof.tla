--------------------------- MODULE Election_proof ---------------------------
(***************************************************************************)
(* Both elections only ever announce the highest node that is running, for *)
(* any number of nodes, elections and failures.                            *)
(***************************************************************************)
EXTENDS Bully, ChangRoberts, TLAPS

NoneAbove(n) == Above(n) \cap up = {}

\* Whoever is taken for the leader.
LeaderInv == \A n \in Node : leader[n] # NoLeader => NoneAbove(leader[n])

Holds(s, type) == \E i \in DOMAIN s : s[i].type = type

\* A thread or a timer is of the last election its node took part in, or of an
\* earlier one.
EpochInv == \A n \in Node : \A e \in calling[n] \cup armed[n] : e <= epoch[n]

\* A node that is down runs nothing and is sent nothing.
DownInv ==
  \A n \in Node \ up : calling[n] \cup armed[n] = {} /\ \A m \in Node : net[m][n] = << >>

\* The election of n goes on and nobody has answered.
Unanswered(n) == inElection[n] /\ ~ gotOk[n] /\ epoch[n] \in calling[n] \cup armed[n]

\* Then each higher node that runs has the call before it, or its answer is on
\* the way.
Answered(links) ==
  \A n \in Node : Unanswered(n) =>
    \A m \in Above(n) \cap up :
      Holds(links[n][m], "ELECTION") \/ Holds(links[m][n], "ELECTION_OK")

\* Whoever has sent that it is the leader, or is about to.
Announced(links) ==
  \A n, m \in Node : Holds(links[n][m], "COORDINATOR") => NoneAbove(n)

DeclaringInv == \A n \in Node : declaring[n] # {} => NoneAbove(n)

BullyInv == /\ BullyTypeOK /\ EpochInv /\ DownInv /\ Answered(net) /\ Announced(net)
            /\ DeclaringInv /\ LeaderInv

\* A candidate has got past no higher node that runs; who has gone all the way
\* round is the highest.
CandidateInv ==
  \A a, b \in Node : \A i \in DOMAIN net[a][b] :
    net[a][b][i].type = "ELECTION_RING" =>
      \A k \in Between(net[a][b][i].id, b) \cap up : k < net[a][b][i].id

ElectedInv ==
  \A a, b \in Node : \A i \in DOMAIN net[a][b] :
    net[a][b][i].type = "ELECTED_RING" => NoneAbove(net[a][b][i].id)

RingInv == RingTypeOK /\ CandidateInv /\ ElectedInv /\ LeaderInv

-----------------------------------------------------------------------------
(* Connections.                                                            *)

Links(S) == [Node -> [Node -> Seq(S)]]

LEMMA SendingIs ==
  ASSUME NEW S, NEW links \in Links(S), NEW n \in Node, NEW targets, NEW msg \in S
  PROVE  /\ Sending(links, n, targets, msg) \in Links(S)
         /\ \A a, b \in Node : Sending(links, n, targets, msg)[a][b] =
              IF a = n /\ b \in targets \cap up THEN Append(links[a][b], msg) ELSE links[a][b]
<1>. DEFINE row == [m \in Node |-> IF m \in targets \cap up THEN Append(links[n][m], msg)
                                   ELSE links[n][m]]
<1>1. \A a, b \in Node : links[a][b] \in Seq(S) /\ Append(links[a][b], msg) \in Seq(S)
  BY DEF Links
<1>2. row \in [Node -> Seq(S)]
  BY <1>1
<1>3. Sending(links, n, targets, msg) = [links EXCEPT ![n] = row]
  BY DEF Sending, Links
<1>4. \A b \in Node : row[b] = IF b \in targets \cap up THEN Append(links[n][b], msg)
                               ELSE links[n][b]
  OBVIOUS
<1>. HIDE DEF row
<1>. QED BY <1>2, <1>3, <1>4 DEF Links

LEMMA TakingIs ==
  ASSUME NEW S, net \in Links(S), NEW n \in Node, NEW m \in Node, net[m][n] # << >>
  PROVE  /\ Taking(n, m) \in Links(S)
         /\ Head(net[m][n]) \in S
         /\ \A a, b \in Node : Taking(n, m)[a][b] =
              IF a = m /\ b = n THEN Tail(net[a][b]) ELSE net[a][b]
<1>1. net[m][n] \in Seq(S)
  BY DEF Links
<1>2. Tail(net[m][n]) \in Seq(S) /\ Head(net[m][n]) \in S
  BY <1>1
<1>. QED BY <1>2 DEF Links, Taking

LEMMA HoldsAppend ==
  ASSUME NEW S, NEW s \in Seq(S), NEW x \in S, NEW type
  PROVE  Holds(Append(s, x), type) <=> Holds(s, type) \/ x.type = type
<1>. DEFINE t == Append(s, x)
<1>1. /\ DOMAIN s = 1 .. Len(s) /\ DOMAIN t = 1 .. Len(s) + 1 /\ Len(s) \in Nat
      /\ \A i \in 1 .. Len(s) : t[i] = s[i]
      /\ t[Len(s) + 1] = x
  OBVIOUS
<1>. HIDE DEF t
<1>2. \A i \in DOMAIN t : (i \in DOMAIN s /\ t[i] = s[i]) \/ t[i] = x
  BY <1>1
<1>3. \A i \in DOMAIN s : i \in DOMAIN t /\ t[i] = s[i]
  BY <1>1
<1>4. Len(s) + 1 \in DOMAIN t
  BY <1>1
<1>5. Holds(t, type) <=> Holds(s, type) \/ x.type = type
  BY <1>1, <1>2, <1>3, <1>4 DEF Holds
<1>. QED BY <1>5 DEF t

LEMMA HoldsTail ==
  ASSUME NEW S, NEW s \in Seq(S), s # << >>, NEW type
  PROVE  /\ Holds(Tail(s), type) => Holds(s, type)
         /\ Holds(s, type) /\ Head(s).type # type => Holds(Tail(s), type)
         /\ Holds(s, Head(s).type)
<1>. DEFINE t == Tail(s)
<1>1. /\ DOMAIN s = 1 .. Len(s) /\ DOMAIN t = 1 .. Len(s) - 1 /\ Len(s) \in Nat /\ Len(s) # 0
      /\ \A i \in 1 .. Len(s) - 1 : t[i] = s[i + 1]
      /\ Head(s) = s[1]
  OBVIOUS
<1>. HIDE DEF t
<1>2. \A i \in DOMAIN t : i + 1 \in DOMAIN s /\ t[i] = s[i + 1]
  BY <1>1
<1>3. \A i \in DOMAIN s : i = 1 \/ (i - 1 \in DOMAIN t /\ t[i - 1] = s[i])
  <2>1. ASSUME NEW i \in DOMAIN s, i # 1 PROVE i - 1 \in DOMAIN t /\ t[i - 1] = s[i]
    <3>1. i - 1 \in 1 .. Len(s) - 1 /\ (i - 1) + 1 = i
      BY <1>1, <2>1
    <3>. QED BY <1>1, <3>1
  <2>. QED BY <2>1
<1>4. 1 \in DOMAIN s
  BY <1>1
<1>5. Holds(t, type) => Holds(s, type)
  BY <1>2 DEF Holds
<1>6. Holds(s, type) /\ Head(s).type # type => Holds(t, type)
  BY <1>1, <1>3 DEF Holds
<1>7. Holds(s, Head(s).type)
  BY <1>1, <1>4 DEF Holds
<1>. QED BY <1>5, <1>6, <1>7 DEF t

-----------------------------------------------------------------------------
(* Bully.                                                                  *)

LEMMA BullyMessages ==
  /\ Ok \in BullyMessage /\ Ok.type = "ELECTION_OK"
  /\ \A e \in Nat : /\ Electing(e) \in BullyMessage /\ Electing(e).type = "ELECTION"
                    /\ Coordinating(e) \in BullyMessage
                    /\ Coordinating(e).type = "COORDINATOR"
BY DEF Ok, Electing, Coordinating, BullyMessage

\* What a connection holds after a message was sent on it or not.
LEMMA HoldsSending ==
  ASSUME NEW links \in Links(BullyMessage), NEW n \in Node, NEW targets,
         NEW msg \in BullyMessage, NEW a \in Node, NEW b \in Node, NEW type
  PROVE  Holds(Sending(links, n, targets, msg)[a][b], type)
           <=> Holds(links[a][b], type)
               \/ (a = n /\ b \in targets \cap up /\ msg.type = type)
<1>1. links[a][b] \in Seq(BullyMessage)
  BY DEF Links
<1>2. Sending(links, n, targets, msg)[a][b] =
        IF a = n /\ b \in targets \cap up THEN Append(links[a][b], msg) ELSE links[a][b]
  BY SendingIs
<1>. QED BY <1>1, <1>2, HoldsAppend

\* What is left on the connections after n has taken a message from m.
LessOne(n, m, links) ==
  \A a, b \in Node : \A type \in {"ELECTION", "ELECTION_OK", "COORDINATOR"} :
    /\ Holds(links[a][b], type) => Holds(net[a][b], type)
    /\ Holds(net[a][b], type) => \/ Holds(links[a][b], type)
                                 \/ a = m /\ b = n /\ Head(net[m][n]).type = type

LEMMA HoldsTaking ==
  ASSUME net \in Links(BullyMessage), NEW n \in Node, NEW m \in Node, net[m][n] # << >>
  PROVE  LessOne(n, m, Taking(n, m))
<1>1. ASSUME NEW a \in Node, NEW b \in Node, NEW type
      PROVE  /\ Holds(Taking(n, m)[a][b], type) => Holds(net[a][b], type)
             /\ Holds(net[a][b], type)
                  => \/ Holds(Taking(n, m)[a][b], type)
                     \/ a = m /\ b = n /\ Head(net[m][n]).type = type
  <2>1. net[m][n] \in Seq(BullyMessage)
    BY DEF Links
  <2>2. Taking(n, m)[a][b] = IF a = m /\ b = n THEN Tail(net[a][b]) ELSE net[a][b]
    BY TakingIs
  <2>. QED BY <2>1, <2>2, HoldsTail
<1>. QED BY <1>1 DEF LessOne

\* start_election, after links have been written to.
LEMMA StartKeeps ==
  ASSUME BullyTypeOK, EpochInv, DownInv, DeclaringInv, LeaderInv,
         NEW n \in up, NEW links \in Links(BullyMessage), StartBully(n, links),
         \A a \in Node \ up : \A b \in Node : links[b][a] = << >>,
         Answered(links), Announced(links),
         UNCHANGED <<up, leader, timer, armed>>
  PROVE  /\ net' \in Links(BullyMessage)
         /\ epoch' \in [Node -> Nat] /\ inElection' \in [Node -> BOOLEAN]
         /\ gotOk' \in [Node -> BOOLEAN]
         /\ calling' \in [Node -> SUBSET Nat] /\ declaring' \in [Node -> SUBSET Nat]
         /\ EpochInv' /\ DownInv' /\ Answered(net)' /\ Announced(net)' /\ DeclaringInv'
<1>0. n \in Node
  BY DEF BullyTypeOK
<1>1. CASE inElection[n] /\ net' = links /\ UNCHANGED <<flags, calling, declaring>>
  <2>1. UNCHANGED <<epoch, inElection, gotOk, calling, declaring>>
    BY <1>1 DEF flags
  <2>2. EpochInv' /\ DownInv' /\ DeclaringInv'
    BY <1>1, <2>1 DEF EpochInv, DownInv, DeclaringInv, NoneAbove
  <2>3. Answered(net)'
    BY <1>1, <2>1 DEF Answered, Unanswered
  <2>4. Announced(net)'
    BY <1>1 DEF Announced, NoneAbove
  <2>. QED BY <1>1, <2>1, <2>2, <2>3, <2>4 DEF BullyTypeOK
<1>2. CASE ~ inElection[n]
  <2>. DEFINE e == epoch[n] + 1
              msg == Electing(e)
  <2>1. /\ inElection' = [inElection EXCEPT ![n] = TRUE]
        /\ gotOk' = [gotOk EXCEPT ![n] = FALSE]
        /\ epoch' = [epoch EXCEPT ![n] = e]
        /\ net' = Sending(links, n, Above(n), msg)
        /\ \/ /\ Above(n) = {} /\ declaring' = [declaring EXCEPT ![n] = @ \cup {e}]
              /\ UNCHANGED calling
           \/ /\ calling' = [calling EXCEPT ![n] = @ \cup {e}]
              /\ UNCHANGED declaring
    BY <1>2 DEF StartBully
  <2>2. e \in Nat /\ epoch[n] \in Nat /\ msg \in BullyMessage /\ msg.type = "ELECTION"
    BY <1>0, BullyMessages DEF BullyTypeOK
  <2>. HIDE DEF e, msg
  <2>3. /\ epoch' \in [Node -> Nat] /\ inElection' \in [Node -> BOOLEAN]
        /\ gotOk' \in [Node -> BOOLEAN]
        /\ calling' \in [Node -> SUBSET Nat] /\ declaring' \in [Node -> SUBSET Nat]
        /\ epoch'[n] = e /\ inElection'[n] = TRUE /\ gotOk'[n] = FALSE
        /\ calling'[n] \subseteq calling[n] \cup {e}
        /\ \A a \in Node \ {n} : /\ epoch'[a] = epoch[a] /\ inElection'[a] = inElection[a]
                                 /\ gotOk'[a] = gotOk[a] /\ calling'[a] = calling[a]
                                 /\ declaring'[a] = declaring[a]
        /\ declaring'[n] = declaring[n] \/ Above(n) = {}
    <3>1. /\ epoch' \in [Node -> Nat] /\ inElection' \in [Node -> BOOLEAN]
          /\ gotOk' \in [Node -> BOOLEAN]
          /\ epoch'[n] = e /\ inElection'[n] = TRUE /\ gotOk'[n] = FALSE
          /\ \A a \in Node \ {n} : /\ epoch'[a] = epoch[a] /\ inElection'[a] = inElection[a]
                                   /\ gotOk'[a] = gotOk[a]
      BY <1>0, <2>1, <2>2 DEF BullyTypeOK
    <3>2. /\ calling' \in [Node -> SUBSET Nat] /\ calling'[n] \subseteq calling[n] \cup {e}
          /\ \A a \in Node \ {n} : calling'[a] = calling[a]
      <4>1. calling' = calling \/ calling' = [calling EXCEPT ![n] = @ \cup {e}]
        BY <2>1
      <4>2. calling \in [Node -> SUBSET Nat]
        BY DEF BullyTypeOK
      <4>. QED BY <1>0, <2>2, <4>1, <4>2
    <3>3. /\ declaring' \in [Node -> SUBSET Nat]
          /\ \A a \in Node \ {n} : declaring'[a] = declaring[a]
          /\ declaring'[n] = declaring[n] \/ Above(n) = {}
      <4>1. \/ declaring' = declaring
            \/ Above(n) = {} /\ declaring' = [declaring EXCEPT ![n] = @ \cup {e}]
        BY <2>1
      <4>2. declaring \in [Node -> SUBSET Nat]
        BY DEF BullyTypeOK
      <4>. QED BY <1>0, <2>2, <4>1, <4>2
    <3>. QED BY <3>1, <3>2, <3>3
  <2>4. /\ net' \in Links(BullyMessage)
        /\ \A a, b \in Node : net'[a][b] = IF a = n /\ b \in Above(n) \cap up
                                           THEN Append(links[a][b], msg) ELSE links[a][b]
    BY <1>0, <2>1, <2>2, SendingIs
  <2>5. ASSUME NEW a \in Node, NEW b \in Node, NEW type
        PROVE  Holds(net[a][b], type)'
                 <=> Holds(links[a][b], type)
                     \/ (a = n /\ b \in Above(n) \cap up /\ type = "ELECTION")
    <3>1. Holds(net'[a][b], type) <=> Holds(links[a][b], type)
                     \/ (a = n /\ b \in Above(n) \cap up /\ type = "ELECTION")
      BY <1>0, <2>1, <2>2, HoldsSending
    <3>. QED BY <3>1 DEF Holds
  <2>6. EpochInv'
    <3>1. ASSUME NEW a \in Node, NEW x \in calling'[a] \cup armed[a] PROVE x <= epoch'[a]
      <4>1. CASE a = n
        <5>1. x = e \/ x \in calling[n] \cup armed[n]
          BY <2>3, <3>1, <4>1
        <5>2. x \in Nat
          BY <1>0, <2>2, <5>1 DEF BullyTypeOK
        <5>3. x = e \/ x <= epoch[n]
          BY <1>0, <5>1 DEF EpochInv
        <5>. QED BY <2>2, <2>3, <4>1, <5>2, <5>3 DEF e
      <4>2. CASE a # n
        BY <2>3, <3>1, <4>2 DEF EpochInv
      <4>. QED BY <4>1, <4>2
    <3>. QED BY <3>1 DEF EpochInv
  <2>7. DownInv'
    <3>1. ASSUME NEW a \in Node \ up
          PROVE calling'[a] \cup armed'[a] = {} /\ \A m \in Node : net'[m][a] = << >>
      <4>1. a # n /\ a \in Node
        OBVIOUS
      <4>2. calling'[a] \cup armed'[a] = {}
        BY <2>3, <4>1 DEF DownInv
      <4>3. \A m \in Node : net'[m][a] = links[m][a]
        BY <2>4, <4>1
      <4>. QED BY <4>2, <4>3
    <3>. QED BY <3>1 DEF DownInv
  <2>8. Answered(net)'
    <3>1. ASSUME NEW a \in Node, Unanswered(a)', NEW b \in Above(a) \cap up
          PROVE  Holds(net[a][b], "ELECTION")' \/ Holds(net[b][a], "ELECTION_OK")'
      <4>1. b \in Node
        BY DEF Above
      <4>2. CASE a = n
        BY <1>0, <2>5, <4>1, <4>2
      <4>3. CASE a # n
        <5>1. Unanswered(a)
          BY <2>3, <3>1, <4>3 DEF Unanswered
        <5>2. Holds(links[a][b], "ELECTION") \/ Holds(links[b][a], "ELECTION_OK")
          BY <5>1 DEF Answered
        <5>. QED BY <2>5, <4>1, <5>2
      <4>. QED BY <4>2, <4>3
    <3>2. \A a \in Node : Unanswered(a)' =>
            \A b \in Above(a) \cap up :
              Holds(net[a][b], "ELECTION")' \/ Holds(net[b][a], "ELECTION_OK")'
      BY <3>1
    <3>. QED BY <3>2 DEF Answered, Above
  <2>9. Announced(net)'
    <3>1. ASSUME NEW a \in Node, NEW b \in Node, Holds(net[a][b], "COORDINATOR")'
          PROVE  NoneAbove(a)
      BY <2>5, <3>1 DEF Announced
    <3>. QED BY <3>1 DEF Announced, NoneAbove, Above
  <2>10. DeclaringInv'
    <3>1. ASSUME NEW a \in Node, declaring'[a] # {} PROVE NoneAbove(a)
      <4>1. CASE Above(a) = {}
        BY <4>1 DEF NoneAbove
      <4>2. CASE declaring'[a] = declaring[a]
        BY <3>1, <4>2 DEF DeclaringInv
      <4>. QED BY <2>3, <4>1, <4>2
    <3>. QED BY <3>1 DEF DeclaringInv, NoneAbove, Above
  <2>. QED BY <2>3, <2>4, <2>6, <2>7, <2>8, <2>9, <2>10
<1>. QED BY <1>1, <1>2 DEF StartBully

\* The invariant when nobody fails, nothing is sent and no leader changes.
LEMMA QuietKeeps ==
  ASSUME UNCHANGED <<up, net, leader>>
  PROVE  /\ Announced(net) => Announced(net)'
         /\ LeaderInv => LeaderInv'
         /\ \A n \in Node : NoneAbove(n) => NoneAbove(n)'
BY DEF Announced, LeaderInv, NoneAbove, Above, Holds

LEMMA BullyInitInv == BullyInit => BullyInv
<1>. SUFFICES ASSUME BullyInit PROVE BullyInv
  OBVIOUS
<1>1. /\ up = Node /\ \A n \in Node : leader[n] = NoLeader
      /\ net \in Links(BullyMessage) /\ \A n, m \in Node : net[n][m] = << >>
      /\ \A n \in Node : ~ inElection[n] /\ declaring[n] = {}
      /\ \A n \in Node : calling[n] = {} /\ armed[n] = {}
  BY DEF BullyInit, ClusterInit, Nothing, Links
<1>2. BullyTypeOK
  BY <1>1 DEF BullyInit, ClusterInit, BullyTypeOK, Nothing, Links
<1>3. Answered(net)
  BY <1>1 DEF Answered, Unanswered
<1>4. Announced(net)
  BY <1>1 DEF Announced, Holds
<1>. QED BY <1>1, <1>2, <1>3, <1>4 DEF BullyInv, EpochInv, DownInv, DeclaringInv, LeaderInv

LEMMA ClientStartsKeeps ==
  ASSUME BullyInv, NEW n \in Node, ClientStarts(n)
  PROVE  BullyInv'
<1>1. /\ n \in up /\ starts' = starts + 1 /\ StartBully(n, net)
      /\ UNCHANGED <<up, leader, noticed, calm, timer, armed>>
  BY DEF ClientStarts, Start
<1>2. net \in Links(BullyMessage)
  BY DEF BullyInv, BullyTypeOK, Links
<1>3. /\ net' \in Links(BullyMessage)
      /\ epoch' \in [Node -> Nat] /\ inElection' \in [Node -> BOOLEAN]
      /\ gotOk' \in [Node -> BOOLEAN]
      /\ calling' \in [Node -> SUBSET Nat] /\ declaring' \in [Node -> SUBSET Nat]
      /\ EpochInv' /\ DownInv' /\ Answered(net)' /\ Announced(net)' /\ DeclaringInv'
  BY <1>1, <1>2, StartKeeps DEF BullyInv, DownInv
<1>4. BullyTypeOK'
  BY <1>1, <1>3 DEF BullyInv, BullyTypeOK, Links
<1>5. LeaderInv'
  BY <1>1 DEF BullyInv, LeaderInv, NoneAbove, Above
<1>. QED BY <1>3, <1>4, <1>5 DEF BullyInv

LEMMA OnNodeFailureKeeps ==
  ASSUME BullyInv, NEW n \in Node, NEW m \in Node, OnNodeFailure(n, m)
  PROVE  BullyInv'
<1>1. /\ n \in up /\ noticed' = [noticed EXCEPT ![n] = @ \cup {m}]
      /\ UNCHANGED <<up, leader, starts, calm, timer, armed>>
      /\ StartBully(n, net) \/ UNCHANGED <<flags, calling, declaring, net>>
  BY DEF OnNodeFailure, Notice
<1>2. net \in Links(BullyMessage) /\ noticed' \in [Node -> SUBSET Node]
  BY <1>1 DEF BullyInv, BullyTypeOK, Links
<1>3. /\ net' \in Links(BullyMessage)
      /\ epoch' \in [Node -> Nat] /\ inElection' \in [Node -> BOOLEAN]
      /\ gotOk' \in [Node -> BOOLEAN]
      /\ calling' \in [Node -> SUBSET Nat] /\ declaring' \in [Node -> SUBSET Nat]
      /\ EpochInv' /\ DownInv' /\ Answered(net)' /\ Announced(net)' /\ DeclaringInv'
  <2>1. CASE StartBully(n, net)
    BY <1>1, <1>2, <2>1, StartKeeps DEF BullyInv, DownInv
  <2>2. CASE UNCHANGED <<flags, calling, declaring, net>>
    <3>1. UNCHANGED <<epoch, inElection, gotOk, calling, armed, declaring, net, up, leader>>
      BY <1>1, <2>2 DEF flags
    <3>2. EpochInv' /\ DownInv' /\ DeclaringInv'
      BY <3>1 DEF BullyInv, EpochInv, DownInv, DeclaringInv, NoneAbove, Above
    <3>3. Answered(net)'
      BY <3>1 DEF BullyInv, Answered, Unanswered, Above, Holds
    <3>. QED BY <1>2, <3>1, <3>2, <3>3, QuietKeeps DEF BullyInv, BullyTypeOK
  <2>. QED BY <1>1, <2>1, <2>2
<1>4. BullyTypeOK'
  BY <1>1, <1>2, <1>3 DEF BullyInv, BullyTypeOK, Links
<1>5. LeaderInv'
  BY <1>1 DEF BullyInv, LeaderInv, NoneAbove, Above
<1>. QED BY <1>3, <1>4, <1>5 DEF BullyInv

LEMMA ArmTimerKeeps ==
  ASSUME BullyInv, NEW n \in Node, NEW e \in calling[n], ArmTimer(n, e)
  PROVE  BullyInv'
<1>1. /\ calling' = [calling EXCEPT ![n] = @ \ {e}]
      /\ armed' = [armed EXCEPT ![n] = @ \cup {e}]
      /\ timer' = [timer EXCEPT ![n] = e]
      /\ UNCHANGED <<up, leader, starts, net, noticed, calm, epoch, inElection, gotOk,
                     declaring>>
  BY DEF ArmTimer, clusterVars, flags
<1>2. BullyTypeOK'
  BY <1>1 DEF BullyInv, BullyTypeOK
<1>3. \A a \in Node : calling'[a] \cup armed'[a] = calling[a] \cup armed[a]
  BY <1>1 DEF BullyInv, BullyTypeOK
<1>4. EpochInv' /\ DownInv' /\ DeclaringInv'
  BY <1>1, <1>3 DEF BullyInv, EpochInv, DownInv, DeclaringInv, NoneAbove, Above
<1>5. \A a \in Node : Unanswered(a)' => Unanswered(a)
  BY <1>1, <1>3 DEF Unanswered
<1>6. Answered(net)'
  BY <1>1, <1>5 DEF BullyInv, Answered, Above, Holds
<1>. QED BY <1>1, <1>2, <1>4, <1>6, QuietKeeps DEF BullyInv

LEMMA OnTimeoutKeeps ==
  ASSUME BullyInv, NEW n \in Node, NEW e \in armed[n], OnTimeout(n, e)
  PROVE  BullyInv'
<1>1. /\ Timely(n) /\ armed' = [armed EXCEPT ![n] = @ \ {e}]
      /\ declaring' = [declaring EXCEPT ![n] = IF Wins(n, e) THEN @ \cup {e} ELSE @]
      /\ UNCHANGED <<up, leader, starts, net, noticed, calm, epoch, inElection, gotOk,
                     timer, calling>>
  BY DEF OnTimeout, clusterVars, flags
<1>2. BullyTypeOK'
  BY <1>1 DEF BullyInv, BullyTypeOK
<1>3. \A a \in Node : calling'[a] \cup armed'[a] \subseteq calling[a] \cup armed[a]
  BY <1>1 DEF BullyInv, BullyTypeOK
<1>4. EpochInv' /\ DownInv'
  BY <1>1, <1>3 DEF BullyInv, EpochInv, DownInv
<1>5. \A a \in Node : Unanswered(a)' => Unanswered(a)
  BY <1>1, <1>3 DEF Unanswered
<1>6. Answered(net)'
  BY <1>1, <1>5 DEF BullyInv, Answered, Above, Holds
<1>7. ASSUME Wins(n, e) PROVE NoneAbove(n)
  <2>1. Unanswered(n)
    BY <1>7 DEF Wins, Unanswered
  <2>2. ASSUME NEW m \in Above(n) \cap up PROVE FALSE
    <3>1. Holds(net[n][m], "ELECTION") \/ Holds(net[m][n], "ELECTION_OK")
      BY <2>1 DEF BullyInv, Answered
    <3>2. m \in Node
      BY DEF Above
    <3>. QED BY <1>1, <3>1, <3>2 DEF Timely, Holds
  <2>. QED BY <2>2 DEF NoneAbove
<1>8. DeclaringInv'
  <2>1. ASSUME NEW a \in Node, declaring'[a] # {} PROVE NoneAbove(a)
    BY <1>1, <1>7, <2>1 DEF BullyInv, BullyTypeOK, DeclaringInv
  <2>. QED BY <1>1, <2>1 DEF DeclaringInv, NoneAbove, Above
<1>. QED BY <1>1, <1>2, <1>4, <1>6, <1>8, QuietKeeps DEF BullyInv

LEMMA DeclareVictoryKeeps ==
  ASSUME BullyInv, NEW n \in Node, NEW e \in declaring[n], DeclareVictory(n, e)
  PROVE  BullyInv'
<1>1. /\ declaring' = [declaring EXCEPT ![n] = @ \ {e}]
      /\ UNCHANGED <<up, starts, epoch, gotOk, timer, calling, armed, noticed, calm>>
      /\ \/ /\ inElection' = [inElection EXCEPT ![n] = FALSE]
            /\ leader' = [leader EXCEPT ![n] = n]
            /\ net' = Sending(net, n, Node \ {n}, Coordinating(e))
         \/ UNCHANGED <<inElection, leader, net>>
  BY DEF DeclareVictory
<1>2. NoneAbove(n)
  BY DEF BullyInv, DeclaringInv
<1>3. /\ net \in Links(BullyMessage) /\ Coordinating(e) \in BullyMessage
      /\ Coordinating(e).type = "COORDINATOR"
  BY BullyMessages DEF BullyInv, BullyTypeOK, Links
<1>4. declaring' \in [Node -> SUBSET Nat] /\ \A a \in Node : declaring'[a] \subseteq declaring[a]
  BY <1>1 DEF BullyInv, BullyTypeOK
<1>5. DeclaringInv' /\ EpochInv'
  BY <1>1, <1>4 DEF BullyInv, DeclaringInv, EpochInv, NoneAbove, Above
<1>6. CASE /\ inElection' = [inElection EXCEPT ![n] = FALSE]
           /\ leader' = [leader EXCEPT ![n] = n]
           /\ net' = Sending(net, n, Node \ {n}, Coordinating(e))
  <2>1. /\ net' \in Links(BullyMessage)
        /\ \A a, b \in Node : net'[a][b] = IF a = n /\ b \in (Node \ {n}) \cap up
                                THEN Append(net[a][b], Coordinating(e)) ELSE net[a][b]
    BY <1>3, <1>6, SendingIs
  <2>2. ASSUME NEW a \in Node, NEW b \in Node, NEW type
        PROVE  Holds(net[a][b], type)'
                 <=> Holds(net[a][b], type)
                     \/ (a = n /\ b \in (Node \ {n}) \cap up /\ type = "COORDINATOR")
    <3>1. Holds(net'[a][b], type)
            <=> Holds(net[a][b], type)
                \/ (a = n /\ b \in (Node \ {n}) \cap up /\ type = "COORDINATOR")
      BY <1>3, <1>6, HoldsSending
    <3>. QED BY <3>1 DEF Holds
  <2>3. /\ inElection' \in [Node -> BOOLEAN] /\ leader' \in [Node -> Node \cup {NoLeader}]
        /\ leader'[n] = n /\ \A a \in Node \ {n} : leader'[a] = leader[a]
        /\ \A a \in Node : inElection'[a] => inElection[a]
    BY <1>6 DEF BullyInv, BullyTypeOK
  <2>4. BullyTypeOK'
    BY <1>1, <1>4, <2>1, <2>3 DEF BullyInv, BullyTypeOK, Links
  <2>5. DownInv'
    <3>1. ASSUME NEW a \in Node \ up, NEW m \in Node PROVE net'[m][a] = << >>
      BY <2>1 DEF BullyInv, DownInv
    <3>. QED BY <1>1, <3>1 DEF BullyInv, DownInv
  <2>6. Answered(net)'
    <3>1. \A a \in Node : Unanswered(a)' => Unanswered(a)
      BY <1>1, <2>3 DEF Unanswered
    <3>2. ASSUME NEW a \in Node, Unanswered(a)', NEW b \in Above(a) \cap up
          PROVE  Holds(net[a][b], "ELECTION")' \/ Holds(net[b][a], "ELECTION_OK")'
      <4>1. b \in Node
        BY DEF Above
      <4>2. Holds(net[a][b], "ELECTION") \/ Holds(net[b][a], "ELECTION_OK")
        BY <3>1, <3>2 DEF BullyInv, Answered
      <4>. QED BY <2>2, <4>1, <4>2
    <3>. QED BY <1>1, <3>2 DEF Answered, Above
  <2>7. Announced(net)'
    <3>1. ASSUME NEW a \in Node, NEW b \in Node, Holds(net[a][b], "COORDINATOR")'
          PROVE  NoneAbove(a)
      BY <1>2, <2>2, <3>1 DEF BullyInv, Announced
    <3>. QED BY <1>1, <3>1 DEF Announced, NoneAbove, Above
  <2>8. LeaderInv'
    <3>1. ASSUME NEW a \in Node, leader'[a] # NoLeader PROVE NoneAbove(leader'[a])
      BY <1>2, <2>3, <3>1 DEF BullyInv, LeaderInv
    <3>. QED BY <1>1, <3>1 DEF LeaderInv, NoneAbove, Above
  <2>. QED BY <1>5, <2>4, <2>5, <2>6, <2>7, <2>8 DEF BullyInv
<1>7. CASE UNCHANGED <<inElection, leader, net>>
  <2>1. BullyTypeOK'
    BY <1>1, <1>4, <1>7 DEF BullyInv, BullyTypeOK
  <2>2. DownInv'
    BY <1>1, <1>7 DEF BullyInv, DownInv
  <2>3. Answered(net)'
    BY <1>1, <1>7 DEF BullyInv, Answered, Unanswered, Above, Holds
  <2>. QED BY <1>1, <1>5, <1>7, <2>1, <2>2, <2>3, QuietKeeps DEF BullyInv
<1>. QED BY <1>1, <1>6, <1>7

\* A node that takes a message is up.
LEMMA ReceiverIsUp ==
  ASSUME DownInv, NEW n \in Node, NEW m \in Node, net[m][n] # << >>
  PROVE  n \in up
BY DEF DownInv

LEMMA HandleElectionKeeps ==
  ASSUME BullyInv, NEW n \in Node, NEW m \in Node, net[m][n] # << >>,
         HandleElection(n, m, Head(net[m][n]))
  PROVE  BullyInv'
<1>. DEFINE taken == Taking(n, m)
            links == Sending(taken, n, {m}, Ok)
<1>1. /\ Head(net[m][n]).type = "ELECTION" /\ StartBully(n, links)
      /\ UNCHANGED <<up, leader, starts, timer, armed, noticed, calm>>
  BY DEF HandleElection
<1>2. net \in Links(BullyMessage) /\ n \in up
  BY ReceiverIsUp DEF BullyInv, BullyTypeOK, Links
<1>3. /\ taken \in Links(BullyMessage)
      /\ \A a, b \in Node : taken[a][b] = IF a = m /\ b = n THEN Tail(net[a][b]) ELSE net[a][b]
  BY <1>2, TakingIs
<1>4. ASSUME NEW a \in Node, NEW b \in Node,
             NEW type \in {"ELECTION", "ELECTION_OK", "COORDINATOR"}
      PROVE  /\ Holds(taken[a][b], type) => Holds(net[a][b], type)
             /\ Holds(net[a][b], type) => \/ Holds(taken[a][b], type)
                                          \/ a = m /\ b = n /\ type = "ELECTION"
  <2>1. LessOne(n, m, taken)
    BY <1>2, HoldsTaking
  <2>. QED BY <1>1, <2>1 DEF LessOne
<1>. HIDE DEF taken
<1>5. /\ links \in Links(BullyMessage)
      /\ \A a, b \in Node : links[a][b] = IF a = n /\ b \in {m} \cap up
                                          THEN Append(taken[a][b], Ok) ELSE taken[a][b]
  BY <1>3, BullyMessages, SendingIs
<1>6. ASSUME NEW a \in Node, NEW b \in Node, NEW type
      PROVE  Holds(links[a][b], type)
               <=> Holds(taken[a][b], type)
                   \/ (a = n /\ b = m /\ m \in up /\ type = "ELECTION_OK")
  <2>1. Holds(links[a][b], type)
          <=> Holds(taken[a][b], type) \/ (a = n /\ b \in {m} \cap up /\ Ok.type = type)
    BY <1>3, BullyMessages, HoldsSending
  <2>. QED BY <2>1, BullyMessages
<1>. HIDE DEF links
<1>7. Answered(links)
  <2>1. ASSUME NEW a \in Node, Unanswered(a), NEW b \in Above(a) \cap up
        PROVE  Holds(links[a][b], "ELECTION") \/ Holds(links[b][a], "ELECTION_OK")
    <3>1. b \in Node /\ a \in up
      BY <2>1 DEF Above, BullyInv, DownInv, Unanswered
    <3>2. CASE Holds(net[a][b], "ELECTION")
      BY <1>4, <1>6, <3>1, <3>2
    <3>3. CASE Holds(net[b][a], "ELECTION_OK")
      BY <1>4, <1>6, <3>1, <3>3
    <3>. QED BY <2>1, <3>2, <3>3 DEF BullyInv, Answered
  <2>. QED BY <2>1 DEF Answered
<1>8. Announced(links)
  <2>1. ASSUME NEW a \in Node, NEW b \in Node, Holds(links[a][b], "COORDINATOR")
        PROVE  NoneAbove(a)
    BY <1>4, <1>6, <2>1 DEF BullyInv, Announced
  <2>. QED BY <2>1 DEF Announced
<1>9. \A a \in Node \ up : \A b \in Node : links[b][a] = << >>
  <2>1. ASSUME NEW a \in Node \ up, NEW b \in Node PROVE links[b][a] = << >>
    <3>1. a # n /\ net[b][a] = << >>
      BY <1>2 DEF BullyInv, DownInv
    <3>. QED BY <1>3, <1>5, <3>1
  <2>. QED BY <2>1
<1>10. /\ net' \in Links(BullyMessage)
       /\ epoch' \in [Node -> Nat] /\ inElection' \in [Node -> BOOLEAN]
       /\ gotOk' \in [Node -> BOOLEAN]
       /\ calling' \in [Node -> SUBSET Nat] /\ declaring' \in [Node -> SUBSET Nat]
       /\ EpochInv' /\ DownInv' /\ Answered(net)' /\ Announced(net)' /\ DeclaringInv'
  BY <1>1, <1>2, <1>5, <1>7, <1>8, <1>9, StartKeeps DEF BullyInv
<1>11. BullyTypeOK'
  BY <1>1, <1>10 DEF BullyInv, BullyTypeOK, Links
<1>12. LeaderInv'
  BY <1>1 DEF BullyInv, LeaderInv, NoneAbove, Above
<1>. QED BY <1>10, <1>11, <1>12 DEF BullyInv

\* A message is taken that nobody waits for, or its receiver does not go on
\* waiting; no election is started and no timer.
LEMMA TakingKeeps ==
  ASSUME BullyInv, NEW n \in Node, NEW m \in Node, net[m][n] # << >>,
         net' = Taking(n, m), Head(net[m][n]).type # "ELECTION",
         UNCHANGED <<up, starts, calling, declaring, noticed, calm>>,
         epoch' \in [Node -> Nat], inElection' \in [Node -> BOOLEAN],
         gotOk' \in [Node -> BOOLEAN], timer' \in [Node -> Nat],
         armed' \in [Node -> SUBSET Nat], leader' \in [Node -> Node \cup {NoLeader}],
         \A a \in Node : armed'[a] \subseteq armed[a],
         epoch'[n] >= epoch[n],
         \A a \in Node \ {n} : /\ epoch'[a] = epoch[a] /\ inElection'[a] = inElection[a]
                               /\ gotOk'[a] = gotOk[a],
         Unanswered(n)' => Unanswered(n) /\ Head(net[m][n]).type # "ELECTION_OK",
         LeaderInv'
  PROVE  BullyInv'
<1>1. net \in Links(BullyMessage)
  BY DEF BullyInv, BullyTypeOK, Links
<1>2. /\ net' \in Links(BullyMessage)
      /\ \A a, b \in Node : net'[a][b] = IF a = m /\ b = n THEN Tail(net[a][b]) ELSE net[a][b]
  BY <1>1, TakingIs
<1>3. ASSUME NEW a \in Node, NEW b \in Node,
             NEW type \in {"ELECTION", "ELECTION_OK", "COORDINATOR"}
      PROVE  /\ Holds(net[a][b], type)' => Holds(net[a][b], type)
             /\ Holds(net[a][b], type) => \/ Holds(net[a][b], type)'
                                          \/ a = m /\ b = n /\ Head(net[m][n]).type = type
  <2>1. LessOne(n, m, net')
    BY <1>1, HoldsTaking
  <2>2. /\ Holds(net'[a][b], type) => Holds(net[a][b], type)
        /\ Holds(net[a][b], type) => \/ Holds(net'[a][b], type)
                                     \/ a = m /\ b = n /\ Head(net[m][n]).type = type
    BY <2>1 DEF LessOne
  <2>3. Holds(net'[a][b], type) <=> Holds(net[a][b], type)'
    BY DEF Holds
  <2>. QED BY <2>2, <2>3
<1>4. BullyTypeOK'
  BY <1>2 DEF BullyInv, BullyTypeOK, Links
<1>5. EpochInv'
  <2>1. ASSUME NEW a \in Node, NEW x \in calling'[a] \cup armed'[a] PROVE x <= epoch'[a]
    <3>1. x \in calling[a] \cup armed[a]
      OBVIOUS
    <3>2. x <= epoch[a] /\ epoch[a] \in Nat /\ epoch'[a] \in Nat /\ x \in Nat
      BY <3>1 DEF BullyInv, EpochInv, BullyTypeOK
    <3>3. epoch'[a] >= epoch[a]
      <4>1. CASE a = n
        BY <4>1
      <4>2. CASE a # n
        BY <3>2, <4>2
      <4>. QED BY <4>1, <4>2
    <3>. QED BY <3>2, <3>3
  <2>. QED BY <2>1 DEF EpochInv
<1>6. DownInv'
  <2>1. ASSUME NEW a \in Node \ up
        PROVE calling'[a] \cup armed'[a] = {} /\ \A b \in Node : net'[b][a] = << >>
    <3>1. a # n
      BY ReceiverIsUp DEF BullyInv
    <3>2. calling[a] \cup armed[a] = {} /\ \A b \in Node : net[b][a] = << >>
      BY DEF BullyInv, DownInv
    <3>3. \A b \in Node : net'[b][a] = << >>
      BY <1>2, <3>1, <3>2
    <3>. QED BY <3>2, <3>3
  <2>. QED BY <2>1 DEF DownInv
<1>7. Answered(net)'
  <2>1. ASSUME NEW a \in Node, Unanswered(a)', NEW b \in Above(a) \cap up
        PROVE  Holds(net[a][b], "ELECTION")' \/ Holds(net[b][a], "ELECTION_OK")'
    <3>1. b \in Node
      BY DEF Above
    <3>2. Unanswered(a) /\ (a = n => Head(net[m][n]).type # "ELECTION_OK")
      BY <2>1 DEF Unanswered
    <3>3. Holds(net[a][b], "ELECTION") \/ Holds(net[b][a], "ELECTION_OK")
      BY <3>2 DEF BullyInv, Answered
    <3>. QED BY <1>3, <3>1, <3>2, <3>3
  <2>. QED BY <2>1 DEF Answered, Above
<1>8. Announced(net)'
  BY <1>3 DEF BullyInv, Announced, NoneAbove, Above
<1>9. DeclaringInv'
  BY DEF BullyInv, DeclaringInv, NoneAbove, Above
<1>. QED BY <1>4, <1>5, <1>6, <1>7, <1>8, <1>9 DEF BullyInv

LEMMA CancelTimerIs ==
  ASSUME BullyTypeOK, NEW n \in Node, CancelTimer(n)
  PROVE  /\ armed' \in [Node -> SUBSET Nat] /\ timer' \in [Node -> Nat]
         /\ \A a \in Node : armed'[a] \subseteq armed[a]
BY DEF BullyTypeOK, CancelTimer

LEMMA HandleElectionOkKeeps ==
  ASSUME BullyInv, NEW n \in Node, NEW m \in Node, net[m][n] # << >>,
         HandleElectionOk(n, m, Head(net[m][n]))
  PROVE  BullyInv'
<1>1. /\ Head(net[m][n]).type = "ELECTION_OK" /\ net' = Taking(n, m)
      /\ gotOk' = [gotOk EXCEPT ![n] = TRUE] /\ CancelTimer(n)
      /\ UNCHANGED <<up, leader, starts, epoch, inElection, calling, declaring, noticed, calm>>
  BY DEF HandleElectionOk
<1>2. BullyTypeOK
  BY DEF BullyInv
<1>3. /\ gotOk' \in [Node -> BOOLEAN] /\ gotOk'[n] /\ \A a \in Node \ {n} : gotOk'[a] = gotOk[a]
      /\ epoch[n] \in Nat
  BY <1>1, <1>2 DEF BullyTypeOK
<1>4. LeaderInv'
  BY <1>1 DEF BullyInv, LeaderInv, NoneAbove, Above
<1>5. epoch'[n] >= epoch[n]
  BY <1>1, <1>3
<1>6. Unanswered(n)' => FALSE
  BY <1>3 DEF Unanswered
<1>7. /\ epoch' \in [Node -> Nat] /\ inElection' \in [Node -> BOOLEAN]
      /\ leader' \in [Node -> Node \cup {NoLeader}]
  BY <1>1, <1>2 DEF BullyTypeOK
<1>. QED BY <1>1, <1>2, <1>3, <1>4, <1>5, <1>6, <1>7, CancelTimerIs, TakingKeeps

LEMMA HandleCoordinatorKeeps ==
  ASSUME BullyInv, NEW n \in Node, NEW m \in Node, net[m][n] # << >>,
         HandleCoordinator(n, m, Head(net[m][n]))
  PROVE  BullyInv'
<1>. DEFINE msg == Head(net[m][n])
<1>1. /\ msg.type = "COORDINATOR" /\ net' = Taking(n, m)
      /\ UNCHANGED <<up, starts, gotOk, calling, declaring, noticed, calm>>
  BY DEF HandleCoordinator
<1>2. BullyTypeOK /\ net \in Links(BullyMessage)
  BY DEF BullyInv, BullyTypeOK, Links
<1>3. msg \in BullyMessage /\ msg.epoch \in Nat
  <2>1. msg \in BullyMessage
    BY <1>2, TakingIs
  <2>. QED BY <2>1 DEF BullyMessage
<1>4. NoneAbove(m)
  <2>1. Holds(net[m][n], Head(net[m][n]).type)
    <3>1. net[m][n] \in Seq(BullyMessage)
      BY <1>2 DEF Links
    <3>. QED BY <3>1, HoldsTail
  <2>. QED BY <1>1, <2>1 DEF BullyInv, Announced
<1>. HIDE DEF msg
<1>5. CASE IsOld(n, msg) /\ UNCHANGED <<epoch, inElection, timer, armed, leader>>
  <2>1. LeaderInv'
    BY <1>1, <1>5 DEF BullyInv, LeaderInv, NoneAbove, Above
  <2>2. Unanswered(n)' => Unanswered(n)
    BY <1>1, <1>5 DEF Unanswered
  <2>3. epoch'[n] >= epoch[n]
    BY <1>2, <1>5 DEF BullyTypeOK
  <2>4. /\ epoch' \in [Node -> Nat] /\ inElection' \in [Node -> BOOLEAN]
        /\ gotOk' \in [Node -> BOOLEAN] /\ timer' \in [Node -> Nat]
        /\ armed' \in [Node -> SUBSET Nat] /\ leader' \in [Node -> Node \cup {NoLeader}]
    BY <1>1, <1>2, <1>5 DEF BullyTypeOK
  <2>. QED BY <1>1, <1>5, <2>1, <2>2, <2>3, <2>4, TakingKeeps DEF msg
<1>6. CASE /\ ~ IsOld(n, msg)
           /\ epoch' = [epoch EXCEPT ![n] = msg.epoch]
           /\ inElection' = [inElection EXCEPT ![n] = FALSE]
           /\ CancelTimer(n)
           /\ leader' = [leader EXCEPT ![n] = m]
  <2>1. /\ epoch' \in [Node -> Nat] /\ epoch'[n] = msg.epoch /\ epoch'[n] >= epoch[n]
        /\ \A a \in Node \ {n} : epoch'[a] = epoch[a]
    BY <1>2, <1>3, <1>6 DEF BullyTypeOK, IsOld
  <2>2. /\ inElection' \in [Node -> BOOLEAN] /\ ~ inElection'[n]
        /\ \A a \in Node \ {n} : inElection'[a] = inElection[a]
    BY <1>2, <1>6 DEF BullyTypeOK
  <2>3. /\ leader' \in [Node -> Node \cup {NoLeader}] /\ leader'[n] = m
        /\ \A a \in Node \ {n} : leader'[a] = leader[a]
    BY <1>2, <1>6 DEF BullyTypeOK
  <2>4. LeaderInv'
    <3>1. ASSUME NEW a \in Node, leader'[a] # NoLeader PROVE NoneAbove(leader'[a])
      BY <1>4, <2>3, <3>1 DEF BullyInv, LeaderInv
    <3>. QED BY <1>1, <3>1 DEF LeaderInv, NoneAbove, Above
  <2>5. Unanswered(n)' => FALSE
    BY <2>2 DEF Unanswered
  <2>6. gotOk' \in [Node -> BOOLEAN] /\ \A a \in Node : gotOk'[a] = gotOk[a]
    BY <1>1, <1>2 DEF BullyTypeOK
  <2>. QED BY <1>1, <1>2, <1>6, <2>1, <2>2, <2>3, <2>4, <2>5, <2>6, CancelTimerIs, TakingKeeps
       DEF msg
<1>. QED BY <1>5, <1>6 DEF HandleCoordinator, msg

LEMMA BullyCrashKeeps ==
  ASSUME BullyInv, NEW n \in Node, NEW reached \in Node, BullyCrash(n, reached)
  PROVE  BullyInv'
<1>1. /\ up' = up \ {n}
      /\ net' = [a \in Node |-> [b \in Node |->
                  IF b = n \/ (a = n /\ b >= reached) THEN << >> ELSE net[a][b]]]
      /\ calm' \in BOOLEAN
      /\ UNCHANGED <<leader, starts, noticed, epoch, inElection, gotOk, timer>>
  BY DEF BullyCrash, GoDown, flags
<1>2. /\ calling' = [calling EXCEPT ![n] = {}] /\ armed' = [armed EXCEPT ![n] = {}]
      /\ declaring' = [declaring EXCEPT ![n] = {}]
  BY DEF BullyCrash
<1>3. net \in Links(BullyMessage)
  BY DEF BullyInv, BullyTypeOK, Links
<1>4. /\ net' \in Links(BullyMessage)
      /\ \A a, b \in Node : net'[a][b] = << >> \/ net'[a][b] = net[a][b]
      /\ \A a \in Node : net'[a][n] = << >>
      /\ \A a, b \in Node : a # n /\ b # n => net'[a][b] = net[a][b]
  BY <1>1, <1>3 DEF Links
<1>5. /\ calling' \in [Node -> SUBSET Nat] /\ calling'[n] = {}
      /\ \A a \in Node \ {n} : calling'[a] = calling[a]
  BY <1>2 DEF BullyInv, BullyTypeOK
<1>6. /\ armed' \in [Node -> SUBSET Nat] /\ armed'[n] = {}
      /\ \A a \in Node \ {n} : armed'[a] = armed[a]
  BY <1>2 DEF BullyInv, BullyTypeOK
<1>7. /\ declaring' \in [Node -> SUBSET Nat] /\ declaring'[n] = {}
      /\ \A a \in Node \ {n} : declaring'[a] = declaring[a]
  BY <1>2 DEF BullyInv, BullyTypeOK
<1>8. BullyTypeOK'
  BY <1>1, <1>4, <1>5, <1>6, <1>7 DEF BullyInv, BullyTypeOK, Links
<1>9. \A a \in Node : NoneAbove(a) => NoneAbove(a)'
  BY <1>1 DEF NoneAbove, Above
<1>10. EpochInv'
  BY <1>1, <1>5, <1>6 DEF BullyInv, EpochInv
<1>11. DownInv'
  <2>1. ASSUME NEW a \in Node \ up'
        PROVE calling'[a] \cup armed'[a] = {} /\ \A b \in Node : net'[b][a] = << >>
    <3>1. CASE a = n
      BY <1>4, <1>5, <1>6, <3>1
    <3>2. CASE a # n
      BY <1>1, <1>4, <1>5, <1>6, <3>2 DEF BullyInv, DownInv
    <3>. QED BY <3>1, <3>2
  <2>. QED BY <2>1 DEF DownInv
<1>12. Answered(net)'
  <2>1. ASSUME NEW a \in Node, Unanswered(a)', NEW b \in Above(a) \cap up'
        PROVE  Holds(net[a][b], "ELECTION")' \/ Holds(net[b][a], "ELECTION_OK")'
    <3>1. a # n /\ b # n /\ b \in Node /\ b \in up
      BY <1>1, <1>5, <1>6, <2>1 DEF Above, Unanswered
    <3>2. Unanswered(a)
      BY <1>1, <1>5, <1>6, <2>1, <3>1 DEF Unanswered
    <3>3. Holds(net[a][b], "ELECTION") \/ Holds(net[b][a], "ELECTION_OK")
      BY <3>1, <3>2 DEF BullyInv, Answered
    <3>. QED BY <1>4, <3>1, <3>3 DEF Holds
  <2>. QED BY <2>1 DEF Answered, Above
<1>13. Announced(net)'
  <2>1. ASSUME NEW a \in Node, NEW b \in Node, Holds(net[a][b], "COORDINATOR")'
        PROVE  NoneAbove(a)'
    <3>1. net'[a][b] = net[a][b]
      BY <1>4, <2>1 DEF Holds
    <3>. QED BY <1>9, <2>1, <3>1 DEF BullyInv, Announced, Holds
  <2>. QED BY <2>1 DEF Announced
<1>14. DeclaringInv'
  BY <1>7, <1>9 DEF BullyInv, DeclaringInv
<1>15. LeaderInv'
  BY <1>1 DEF BullyInv, LeaderInv, NoneAbove, Above
<1>. QED BY <1>8, <1>10, <1>11, <1>12, <1>13, <1>14, <1>15 DEF BullyInv

LEMMA BullyStep ==
  ASSUME BullyInv, [BullyNext]_bullyVars
  PROVE  BullyInv'
<1>1. ASSUME NEW n \in Node, NEW m \in Node, OnNodeFailure(n, m) PROVE BullyInv'
  BY <1>1, OnNodeFailureKeeps
<1>2. ASSUME NEW n \in Node, NEW e \in calling[n], ArmTimer(n, e) PROVE BullyInv'
  BY <1>2, ArmTimerKeeps
<1>3. ASSUME NEW n \in Node, NEW e \in armed[n], OnTimeout(n, e) PROVE BullyInv'
  BY <1>3, OnTimeoutKeeps
<1>4. ASSUME NEW n \in Node, NEW e \in declaring[n], DeclareVictory(n, e) PROVE BullyInv'
  BY <1>4, DeclareVictoryKeeps
<1>5. ASSUME NEW n \in Node, NEW m \in Node, NEW msg \in Arriving(n, m), HandleBully(n, m, msg)
      PROVE BullyInv'
  <2>1. net[m][n] # << >> /\ msg = Head(net[m][n])
    BY DEF Arriving
  <2>. QED BY <1>5, <2>1, HandleElectionKeeps, HandleElectionOkKeeps, HandleCoordinatorKeeps
       DEF HandleBully
<1>6. ASSUME NEW n \in Node, ClientStarts(n) PROVE BullyInv'
  BY <1>6, ClientStartsKeeps
<1>7. ASSUME NEW n \in Node, NEW k \in Node, BullyCrash(n, k) PROVE BullyInv'
  BY <1>7, BullyCrashKeeps
<1>8. CASE UNCHANGED bullyVars
  <2>1. UNCHANGED <<up, leader, starts, net, noticed, calm, epoch, inElection, gotOk,
                    timer, calling, armed, declaring>>
    BY <1>8 DEF bullyVars, clusterVars, flags
  <2>2. BullyTypeOK' /\ EpochInv' /\ DownInv'
    BY <2>1 DEF BullyInv, BullyTypeOK, EpochInv, DownInv
  <2>3. Answered(net)'
    BY <2>1 DEF BullyInv, Answered, Unanswered, Above, Holds
  <2>4. DeclaringInv'
    BY <2>1 DEF BullyInv, DeclaringInv, NoneAbove, Above
  <2>. QED BY <2>1, <2>2, <2>3, <2>4, QuietKeeps DEF BullyInv
<1>. QED BY <1>1, <1>2, <1>3, <1>4, <1>5, <1>6, <1>7, <1>8 DEF BullyNext, BullyNode

LEMMA LeaderInvIs == LeaderInv /\ up \subseteq Node => LeaderIsHighest
BY DEF LeaderInv, LeaderIsHighest, NoneAbove

\* Types of the bully election.
THEOREM BullyTypes == BullySpec => []BullyTypeOK
<1>1. BullyInv => BullyTypeOK
  BY DEF BullyInv
<1>. QED BY <1>1, BullyInitInv, BullyStep, PTL DEF BullySpec

\* A node that has won the bully election, and whoever it has told so, follows
\* a leader above which no node is running.
THEOREM BullyLeaderIsHighest == BullySpec => []LeaderIsHighest
<1>1. BullyInv => LeaderIsHighest
  BY LeaderInvIs DEF BullyInv, BullyTypeOK
<1>. QED BY <1>1, BullyInitInv, BullyStep, PTL DEF BullySpec

-----------------------------------------------------------------------------
(* Chang-Roberts.                                                          *)

LEMMA RingMessages ==
  \A i \in Node : /\ Candidate(i) \in RingMessage /\ Elected(i) \in RingMessage
                  /\ Candidate(i).type = "ELECTION_RING" /\ Candidate(i).id = i
                  /\ Elected(i).type = "ELECTED_RING" /\ Elected(i).id = i
BY DEF Candidate, Elected, RingMessage

\* A message that may be on the way to b.
Sound(msg, b) ==
  /\ msg.type = "ELECTION_RING" => \A k \in Between(msg.id, b) \cap up : k < msg.id
  /\ msg.type = "ELECTED_RING" => NoneAbove(msg.id)

\* The way from i to t leads over b if the way from b to t is the rest of it.
LEMMA RoundTheRing ==
  ASSUME NEW i \in Node, NEW b \in Node, NEW t \in Node, i # b
  PROVE  Between(i, t) \subseteq Between(i, b) \cup {b} \cup Between(b, t)
<1>1. ASSUME NEW k \in Between(i, t), k # b, k \notin Between(i, b) PROVE k \in Between(b, t)
  <2>1. k \in Node /\ k \in Nat /\ i \in Nat /\ b \in Nat /\ t \in Nat
    BY <1>1, ClusterAssumption DEF Between
  <2>2. IF i < t THEN i < k /\ k < t ELSE k > i \/ k < t
    BY <1>1 DEF Between
  <2>3. IF i < b THEN ~ (i < k /\ k < b) ELSE ~ (k > i \/ k < b)
    BY <1>1, <2>1 DEF Between
  <2>4. IF b < t THEN b < k /\ k < t ELSE k > b \/ k < t
    BY <1>1, <2>1, <2>2, <2>3
  <2>. QED BY <2>1, <2>4 DEF Between
<1>. QED BY <1>1

\* A connection after a message was sent, or taken.
LEMMA SoundAppend ==
  ASSUME NEW s \in Seq(RingMessage), NEW x \in RingMessage, NEW b \in Node,
         \A i \in DOMAIN s : Sound(s[i], b), Sound(x, b)
  PROVE  \A i \in DOMAIN Append(s, x) : Sound(Append(s, x)[i], b)
<1>1. \A i \in DOMAIN Append(s, x) : (i \in DOMAIN s /\ Append(s, x)[i] = s[i])
                                     \/ Append(s, x)[i] = x
  OBVIOUS
<1>. QED BY <1>1

LEMMA SoundTail ==
  ASSUME NEW s \in Seq(RingMessage), s # << >>, NEW b \in Node,
         \A i \in DOMAIN s : Sound(s[i], b)
  PROVE  /\ \A i \in DOMAIN Tail(s) : Sound(Tail(s)[i], b)
         /\ Sound(Head(s), b)
<1>1. \A i \in DOMAIN Tail(s) : i + 1 \in DOMAIN s /\ Tail(s)[i] = s[i + 1]
  OBVIOUS
<1>2. 1 \in DOMAIN s /\ Head(s) = s[1]
  OBVIOUS
<1>3. \A i \in DOMAIN Tail(s) : Sound(Tail(s)[i], b)
  BY <1>1
<1>. QED BY <1>2, <1>3

SoundLinks(links) ==
  \A a, b \in Node : \A i \in DOMAIN links[a][b] : Sound(links[a][b][i], b)

LEMMA RingInvIs ==
  RingInv <=> RingTypeOK /\ SoundLinks(net) /\ LeaderInv
BY DEF RingInv, CandidateInv, ElectedInv, SoundLinks, Sound

\* What a node may send on its way round: nobody between it and the next who
\* runs is passed over.
LEMMA SendToSuccessorIs ==
  ASSUME NEW links \in Links(RingMessage), SoundLinks(links), NEW n \in Node, NEW broken,
         NEW msg \in RingMessage, SendToSuccessor(links, n, broken, msg),
         \A t \in Node \ {n} : Between(n, t) \cap up = {} => Sound(msg, t)
  PROVE  net' \in Links(RingMessage) /\ SoundLinks(net')
<1>1. CASE net' = links
  BY <1>1
<1>2. ASSUME NEW t \in Successors(n, broken), net' = Sending(links, n, {t}, msg)
      PROVE  net' \in Links(RingMessage) /\ SoundLinks(net')
  <2>1. t \in Node /\ Sound(msg, t)
    BY DEF Successors
  <2>2. /\ net' \in Links(RingMessage)
        /\ \A a, b \in Node : net'[a][b] = IF a = n /\ b \in {t} \cap up
                                           THEN Append(links[a][b], msg) ELSE links[a][b]
    BY <1>2, SendingIs
  <2>3. ASSUME NEW a \in Node, NEW b \in Node
        PROVE  \A i \in DOMAIN net'[a][b] : Sound(net'[a][b][i], b)
    <3>1. links[a][b] \in Seq(RingMessage) /\ \A i \in DOMAIN links[a][b] : Sound(links[a][b][i], b)
      BY DEF Links, SoundLinks
    <3>2. net'[a][b] = links[a][b] \/ (b = t /\ net'[a][b] = Append(links[a][b], msg))
      BY <2>2
    <3>3. CASE net'[a][b] = links[a][b]
      BY <3>1, <3>3
    <3>4. CASE b = t /\ net'[a][b] = Append(links[a][b], msg)
      BY <2>1, <3>1, <3>4, SoundAppend
    <3>. QED BY <3>2, <3>3, <3>4
  <2>. QED BY <2>2, <2>3 DEF SoundLinks
<1>. QED BY <1>1, <1>2 DEF SendToSuccessor

\* A node puts itself up.
LEMMA CandidateIsSound ==
  ASSUME NEW n \in Node, NEW t \in Node \ {n}, Between(n, t) \cap up = {}
  PROVE  Sound(Candidate(n), t)
BY RingMessages DEF Sound

\* A node passes a message on, unless it is the candidate that has come back.
LEMMA PassedOnIsSound ==
  ASSUME NEW msg \in RingMessage, NEW n \in Node, Sound(msg, n),
         msg.type = "ELECTION_RING" => n < msg.id,
         NEW t \in Node \ {n}, Between(n, t) \cap up = {}
  PROVE  Sound(msg, t)
<1>1. msg.id \in Node
  BY DEF RingMessage
<1>2. ASSUME msg.type = "ELECTION_RING", NEW k \in Between(msg.id, t) \cap up
      PROVE  k < msg.id
  <2>1. msg.id # n
    BY <1>1, <1>2, ClusterAssumption
  <2>2. k \in Between(msg.id, n) \cup {n} \cup Between(n, t)
    BY <1>1, <2>1, RoundTheRing
  <2>. QED BY <1>2, <2>2 DEF Sound
<1>. QED BY <1>2 DEF Sound

\* Whose number has gone all the way round is the highest.
LEMMA BackIsHighest ==
  ASSUME NEW msg \in RingMessage, NEW n \in Node, Sound(msg, n),
         msg.type = "ELECTION_RING", msg.id = n
  PROVE  NoneAbove(n)
<1>1. ASSUME NEW k \in Above(n) \cap up PROVE FALSE
  <2>1. k \in Node /\ k > n
    BY DEF Above
  <2>2. k \in Between(n, n)
    BY <2>1, ClusterAssumption DEF Between
  <2>3. k < n
    BY <2>2 DEF Sound
  <2>. QED BY <2>1, <2>3, ClusterAssumption
<1>. QED BY <1>1 DEF NoneAbove

\* As long as nobody goes down, what is sound stays so.
LEMMA RingKeeps ==
  ASSUME RingInv, UNCHANGED up, net' \in Links(RingMessage), SoundLinks(net'),
         starts' \in Nat, noticed' \in [Node -> SUBSET Node], calm' \in BOOLEAN,
         participant' \in [Node -> BOOLEAN],
         \/ UNCHANGED leader
         \/ \E n, m \in Node : leader' = [leader EXCEPT ![n] = m] /\ NoneAbove(m)
  PROVE  RingInv'
<1>1. RingTypeOK
  BY DEF RingInv
<1>2. /\ leader' \in [Node -> Node \cup {NoLeader}]
      /\ \A a \in Node : leader'[a] = leader[a] \/ NoneAbove(leader'[a])
  <2>1. leader \in [Node -> Node \cup {NoLeader}]
    BY <1>1 DEF RingTypeOK
  <2>2. CASE UNCHANGED leader
    BY <2>1, <2>2
  <2>3. ASSUME NEW n \in Node, NEW m \in Node, leader' = [leader EXCEPT ![n] = m], NoneAbove(m)
        PROVE  /\ leader' \in [Node -> Node \cup {NoLeader}]
               /\ \A a \in Node : leader'[a] = leader[a] \/ NoneAbove(leader'[a])
    BY <2>1, <2>3
  <2>. QED BY <2>2, <2>3
<1>3. RingTypeOK'
  BY <1>1, <1>2 DEF RingTypeOK, Links
<1>4. LeaderInv'
  <2>1. ASSUME NEW a \in Node, leader'[a] # NoLeader PROVE NoneAbove(leader'[a])
    BY <1>2, <2>1 DEF RingInv, LeaderInv
  <2>. QED BY <2>1 DEF LeaderInv, NoneAbove, Above
<1>5. ASSUME NEW a \in Node, NEW b \in Node, NEW i \in DOMAIN net'[a][b]
      PROVE  /\ net'[a][b][i].type = "ELECTION_RING" =>
                  \A k \in Between(net'[a][b][i].id, b) \cap up' : k < net'[a][b][i].id
             /\ net'[a][b][i].type = "ELECTED_RING" =>
                  Above(net'[a][b][i].id) \cap up' = {}
  <2>1. Sound(net'[a][b][i], b)
    BY DEF SoundLinks
  <2>. QED BY <2>1 DEF Sound, NoneAbove
<1>6. CandidateInv'
  BY <1>5 DEF CandidateInv, Between
<1>7. ElectedInv'
  BY <1>5 DEF ElectedInv, NoneAbove, Above
<1>. QED BY <1>3, <1>4, <1>6, <1>7 DEF RingInv

LEMMA RingInitInv == RingInit => RingInv
<1>. SUFFICES ASSUME RingInit PROVE RingInv
  OBVIOUS
<1>1. /\ \A n \in Node : leader[n] = NoLeader
      /\ net \in Links(RingMessage) /\ \A n, m \in Node : net[n][m] = << >>
  BY DEF RingInit, ClusterInit, Links
<1>2. RingTypeOK
  BY <1>1 DEF RingInit, ClusterInit, RingTypeOK, Links
<1>. QED BY <1>1, <1>2 DEF RingInv, CandidateInv, ElectedInv, LeaderInv

LEMMA StartRingKeeps ==
  ASSUME RingInv, NEW n \in Node, NEW broken, StartRing(n, broken),
         UNCHANGED <<up, leader>>,
         starts' \in Nat, noticed' \in [Node -> SUBSET Node], calm' \in BOOLEAN
  PROVE  RingInv'
<1>1. RingTypeOK /\ net \in Links(RingMessage) /\ SoundLinks(net)
  BY RingInvIs DEF RingTypeOK, Links
<1>2. participant' \in [Node -> BOOLEAN]
  BY <1>1 DEF StartRing, RingTypeOK
<1>3. SendToSuccessor(net, n, broken, Candidate(n)) /\ Candidate(n) \in RingMessage
  BY RingMessages DEF StartRing
<1>4. net' \in Links(RingMessage) /\ SoundLinks(net')
  BY <1>1, <1>3, CandidateIsSound, SendToSuccessorIs
<1>. QED BY <1>2, <1>4, RingKeeps

LEMMA RingOnNodeFailureKeeps ==
  ASSUME RingInv, NEW n \in Node, NEW m \in Node, RingOnNodeFailure(n, m)
  PROVE  RingInv'
<1>1. /\ noticed' = [noticed EXCEPT ![n] = @ \cup {m}] /\ UNCHANGED <<up, leader, starts, calm>>
      /\ StartRing(n, Broken \cup {m}) \/ UNCHANGED <<net, participant>>
  BY DEF RingOnNodeFailure, Notice
<1>2. RingTypeOK /\ net \in Links(RingMessage) /\ SoundLinks(net)
  BY RingInvIs DEF RingTypeOK, Links
<1>3. starts' \in Nat /\ noticed' \in [Node -> SUBSET Node] /\ calm' \in BOOLEAN
  BY <1>1, <1>2 DEF RingTypeOK
<1>4. CASE StartRing(n, Broken \cup {m})
  BY <1>1, <1>3, <1>4, StartRingKeeps
<1>5. CASE UNCHANGED <<net, participant>>
  <2>1. participant' \in [Node -> BOOLEAN] /\ net' = net
    BY <1>2, <1>5 DEF RingTypeOK
  <2>. QED BY <1>1, <1>2, <1>3, <2>1, RingKeeps
<1>. QED BY <1>1, <1>4, <1>5

\* A message is taken, and was sound.
LEMMA RingTaking ==
  ASSUME RingInv, NEW n \in Node, NEW m \in Node, net[m][n] # << >>
  PROVE  /\ Taking(n, m) \in Links(RingMessage) /\ SoundLinks(Taking(n, m))
         /\ Head(net[m][n]) \in RingMessage /\ Sound(Head(net[m][n]), n)
<1>1. net \in Links(RingMessage) /\ SoundLinks(net)
  BY RingInvIs DEF RingTypeOK, Links
<1>2. /\ Taking(n, m) \in Links(RingMessage) /\ Head(net[m][n]) \in RingMessage
      /\ \A a, b \in Node : Taking(n, m)[a][b] = IF a = m /\ b = n THEN Tail(net[a][b])
                                                 ELSE net[a][b]
  BY <1>1, TakingIs
<1>3. net[m][n] \in Seq(RingMessage) /\ \A i \in DOMAIN net[m][n] : Sound(net[m][n][i], n)
  BY <1>1 DEF Links, SoundLinks
<1>4. Sound(Head(net[m][n]), n) /\ \A i \in DOMAIN Tail(net[m][n]) : Sound(Tail(net[m][n])[i], n)
  BY <1>3, SoundTail
<1>5. SoundLinks(Taking(n, m))
  <2>1. ASSUME NEW a \in Node, NEW b \in Node
        PROVE \A i \in DOMAIN Taking(n, m)[a][b] : Sound(Taking(n, m)[a][b][i], b)
    <3>1. CASE a = m /\ b = n
      BY <1>2, <1>4, <3>1
    <3>2. CASE ~ (a = m /\ b = n)
      BY <1>1, <1>2, <3>2 DEF SoundLinks
    <3>. QED BY <3>1, <3>2
  <2>. QED BY <2>1 DEF SoundLinks
<1>. QED BY <1>2, <1>4, <1>5

LEMMA HandleElectionRingKeeps ==
  ASSUME RingInv, NEW n \in Node, NEW m \in Node, net[m][n] # << >>,
         HandleElectionRing(n, m, Head(net[m][n]))
  PROVE  RingInv'
<1>. DEFINE msg == Head(net[m][n])
<1>1. /\ Taking(n, m) \in Links(RingMessage) /\ SoundLinks(Taking(n, m))
      /\ msg \in RingMessage /\ Sound(msg, n)
  BY RingTaking
<1>2. RingTypeOK
  BY DEF RingInv
<1>3. /\ msg.type = "ELECTION_RING" /\ UNCHANGED <<up, starts, noticed, calm>>
      /\ starts' \in Nat /\ noticed' \in [Node -> SUBSET Node] /\ calm' \in BOOLEAN
  BY <1>2 DEF HandleElectionRing, RingTypeOK
<1>. HIDE DEF msg
<1>4. CASE /\ Passes(n, msg.id)
           /\ participant' = [participant EXCEPT ![n] = TRUE]
           /\ SendToSuccessor(Taking(n, m), n, Broken, msg)
           /\ UNCHANGED leader
  <2>1. n < msg.id
    BY <1>1, <1>4, ClusterAssumption DEF Passes, RingMessage
  <2>2. \A t \in Node \ {n} : Between(n, t) \cap up = {} => Sound(msg, t)
    BY <1>1, <2>1, PassedOnIsSound
  <2>3. net' \in Links(RingMessage) /\ SoundLinks(net')
    BY <1>1, <1>4, <2>2, SendToSuccessorIs
  <2>4. participant' \in [Node -> BOOLEAN]
    BY <1>2, <1>4 DEF RingTypeOK
  <2>. QED BY <1>3, <1>4, <2>3, <2>4, RingKeeps
<1>5. CASE /\ participant' = [participant EXCEPT ![n] = TRUE]
           /\ SendToSuccessor(Taking(n, m), n, Broken, Candidate(n))
           /\ UNCHANGED leader
  <2>1. net' \in Links(RingMessage) /\ SoundLinks(net')
    BY <1>1, <1>5, RingMessages, CandidateIsSound, SendToSuccessorIs
  <2>2. participant' \in [Node -> BOOLEAN]
    BY <1>2, <1>5 DEF RingTypeOK
  <2>. QED BY <1>3, <1>5, <2>1, <2>2, RingKeeps
<1>6. CASE /\ msg.id = n
           /\ participant' = [participant EXCEPT ![n] = FALSE]
           /\ leader' = [leader EXCEPT ![n] = n]
           /\ SendToSuccessor(Taking(n, m), n, Broken, Elected(n))
  <2>1. NoneAbove(n)
    BY <1>1, <1>3, <1>6, BackIsHighest
  <2>2. \A t \in Node : Sound(Elected(n), t)
    BY <2>1, RingMessages DEF Sound
  <2>3. net' \in Links(RingMessage) /\ SoundLinks(net')
    BY <1>1, <1>6, <2>2, RingMessages, SendToSuccessorIs
  <2>4. participant' \in [Node -> BOOLEAN]
    BY <1>2, <1>6 DEF RingTypeOK
  <2>. QED BY <1>3, <1>6, <2>1, <2>3, <2>4, RingKeeps
<1>7. CASE net' = Taking(n, m) /\ UNCHANGED <<participant, leader>>
  <2>1. participant' \in [Node -> BOOLEAN]
    BY <1>2, <1>7 DEF RingTypeOK
  <2>. QED BY <1>1, <1>3, <1>7, <2>1, RingKeeps
<1>. QED BY <1>4, <1>5, <1>6, <1>7 DEF HandleElectionRing, msg

LEMMA HandleElectedRingKeeps ==
  ASSUME RingInv, NEW n \in Node, NEW m \in Node, net[m][n] # << >>,
         HandleElectedRing(n, m, Head(net[m][n]))
  PROVE  RingInv'
<1>. DEFINE msg == Head(net[m][n])
<1>1. /\ Taking(n, m) \in Links(RingMessage) /\ SoundLinks(Taking(n, m))
      /\ msg \in RingMessage /\ Sound(msg, n)
  BY RingTaking
<1>2. RingTypeOK
  BY DEF RingInv
<1>3. /\ msg.type = "ELECTED_RING" /\ UNCHANGED <<up, starts, noticed, calm>>
      /\ starts' \in Nat /\ noticed' \in [Node -> SUBSET Node] /\ calm' \in BOOLEAN
      /\ participant' \in [Node -> BOOLEAN]
      /\ leader' = [leader EXCEPT ![n] = msg.id]
      /\ net' = Taking(n, m) \/ SendToSuccessor(Taking(n, m), n, Broken, msg)
  BY <1>2 DEF HandleElectedRing, RingTypeOK
<1>. HIDE DEF msg
<1>4. NoneAbove(msg.id) /\ msg.id \in Node
  BY <1>1, <1>3 DEF Sound, RingMessage
<1>5. \A t \in Node : Sound(msg, t)
  BY <1>3, <1>4 DEF Sound
<1>6. net' \in Links(RingMessage) /\ SoundLinks(net')
  BY <1>1, <1>3, <1>5, SendToSuccessorIs
<1>. QED BY <1>3, <1>4, <1>6, RingKeeps

LEMMA RingCrashKeeps ==
  ASSUME RingInv, NEW n \in Node, NEW reached \in Node, RingCrash(n, reached)
  PROVE  RingInv'
<1>1. /\ up' = up \ {n}
      /\ net' = [a \in Node |-> [b \in Node |->
                  IF b = n \/ (a = n /\ b >= reached) THEN << >> ELSE net[a][b]]]
      /\ calm' \in BOOLEAN
      /\ UNCHANGED <<leader, starts, noticed, participant>>
  BY DEF RingCrash, GoDown
<1>2. RingTypeOK /\ net \in Links(RingMessage)
  BY DEF RingInv, RingTypeOK, Links
<1>3. net' \in Links(RingMessage) /\ \A a, b \in Node : net'[a][b] = << >> \/ net'[a][b] = net[a][b]
  BY <1>1, <1>2 DEF Links
<1>4. RingTypeOK'
  BY <1>1, <1>2, <1>3 DEF RingTypeOK, Links
<1>5. CandidateInv'
  <2>1. ASSUME NEW a \in Node, NEW b \in Node, NEW i \in DOMAIN net'[a][b],
               net'[a][b][i].type = "ELECTION_RING",
               NEW k \in Between(net'[a][b][i].id, b) \cap up'
        PROVE  k < net'[a][b][i].id
    <3>1. net'[a][b] = net[a][b] /\ k \in up
      BY <1>1, <1>3
    <3>. QED BY <2>1, <3>1 DEF RingInv, CandidateInv
  <2>. QED BY <2>1 DEF CandidateInv, Between
<1>6. ElectedInv'
  <2>1. ASSUME NEW a \in Node, NEW b \in Node, NEW i \in DOMAIN net'[a][b],
               net'[a][b][i].type = "ELECTED_RING"
        PROVE  Above(net'[a][b][i].id) \cap up' = {}
    <3>1. net'[a][b] = net[a][b]
      BY <1>3
    <3>. QED BY <1>1, <2>1, <3>1 DEF RingInv, ElectedInv, NoneAbove
  <2>. QED BY <2>1 DEF ElectedInv, NoneAbove, Above
<1>7. LeaderInv'
  BY <1>1 DEF RingInv, LeaderInv, NoneAbove, Above
<1>. QED BY <1>4, <1>5, <1>6, <1>7 DEF RingInv

LEMMA RingStep ==
  ASSUME RingInv, [RingNext]_ringVars
  PROVE  RingInv'
<1>1. ASSUME NEW n \in Node, NEW m \in Node, RingOnNodeFailure(n, m) PROVE RingInv'
  BY <1>1, RingOnNodeFailureKeeps
<1>2. ASSUME NEW n \in Node, NEW m \in Node, NEW msg \in Arriving(n, m),
             HandleElectionRing(n, m, msg) \/ HandleElectedRing(n, m, msg)
      PROVE RingInv'
  <2>1. net[m][n] # << >> /\ msg = Head(net[m][n])
    BY DEF Arriving
  <2>. QED BY <1>2, <2>1, HandleElectionRingKeeps, HandleElectedRingKeeps
<1>3. ASSUME NEW n \in Node, ClientStartsRing(n) PROVE RingInv'
  <2>1. /\ StartRing(n, Broken) /\ UNCHANGED <<up, leader, noticed, calm>> /\ starts' = starts + 1
    BY <1>3 DEF ClientStartsRing, Start
  <2>2. starts' \in Nat /\ noticed' \in [Node -> SUBSET Node] /\ calm' \in BOOLEAN
    BY <2>1 DEF RingInv, RingTypeOK
  <2>. QED BY <2>1, <2>2, StartRingKeeps
<1>4. ASSUME NEW n \in Node, NEW k \in Node, RingCrash(n, k) PROVE RingInv'
  BY <1>4, RingCrashKeeps
<1>5. CASE UNCHANGED ringVars
  <2>1. UNCHANGED <<up, leader, starts, net, noticed, calm, participant>>
    BY <1>5 DEF ringVars, clusterVars
  <2>. QED BY <2>1 DEF RingInv, RingTypeOK, CandidateInv, ElectedInv, LeaderInv, NoneAbove,
                       Above, Between
<1>. QED BY <1>1, <1>2, <1>3, <1>4, <1>5 DEF RingNext, RingNode

\* Types of the ring election.
THEOREM RingTypes == RingSpec => []RingTypeOK
<1>1. RingInv => RingTypeOK
  BY DEF RingInv
<1>. QED BY <1>1, RingInitInv, RingStep, PTL DEF RingSpec

\* A candidate that has gone round the ring, and whoever it has told so, follows
\* a leader above which no node is running.
THEOREM RingLeaderIsHighest == RingSpec => []LeaderIsHighest
<1>1. RingInv => LeaderIsHighest
  BY LeaderInvIs DEF RingInv, RingTypeOK
<1>. QED BY <1>1, RingInitInv, RingStep, PTL DEF RingSpec

=============================================================================
