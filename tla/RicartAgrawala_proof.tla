------------------------ MODULE RicartAgrawala_proof ------------------------
(***************************************************************************)
(* Mutual exclusion and the order of service of RicartAgrawala, for any    *)
(* number of nodes, resources and requests, as long as no client gives up. *)
(***************************************************************************)
EXTENDS RicartAgrawala, FiniteSetTheorems, TLAPS

One(b) == IF b THEN 1 ELSE 0

Holds(links, i, j, type) == \E msg \in links[i][j] : msg.type = type

\* Where the request of i to j is before j has let it pass ...
Asking(i, j) ==
  One(j \in toAsk[i]) + One(Holds(net, i, j, "REQUEST"))
    + One(hand[j][i].type = "REQUEST") + deferred[j][i]

\* ... and where the answer is until i has counted it.
Answering(i, j) ==
  toAnswer[j][i] + One(hand[j][i].type = "granting")
    + One(Holds(net, j, i, "REPLY")) + One(hand[i][j].type = "REPLY")

Token(i, j) == Asking(i, j) + Answering(i, j)

\* The nodes that i still waits for.
Open(i) == {j \in Node : Token(i, j) # 0}

ClientInv ==
  \A i \in Node :
    /\ state[i] = CASE pc[i] = "idle" -> "RELEASED"
                    [] pc[i] = "wait" -> "WANTED"
                    [] pc[i] = "cs" -> "HELD"
    /\ requestTs[i] <= clock[i]
    /\ pc[i] # "idle" => toAnswer[i] = None

\* A request, or its answer, is in one place at most.
TokenInv ==
  \A i, j \in Node :
    /\ Token(i, j) <= 1
    /\ i = j \/ pc[i] # "wait" => Token(i, j) = 0

UniqueInv ==
  \A i, j \in Node : \A a, b \in net[i][j] : a.type = b.type => a = b

\* So the count of the replies is the count of the nodes that answered.
CountInv ==
  \A i \in Node : pc[i] = "wait" =>
    /\ replies[i] + Cardinality(Open(i)) = Cardinality(Node \ {i})
    /\ event[i] => Open(i) = {}

\* What is under way is the latest request of its sender, and the clock of
\* whoever has it is ahead of it.
RequestInv ==
  \A i, j \in Node :
    /\ \A msg \in net[i][j] : msg.type = "REQUEST" =>
         msg.ts = requestTs[i] /\ msg.resource = resource[i] /\ msg.stamp > msg.ts
    /\ hand[j][i].type = "REQUEST" =>
         /\ hand[j][i].ts = requestTs[i] /\ hand[j][i].resource = resource[i]
         /\ clock[j] >= requestTs[i]
    /\ deferred[j][i] # 0 => clock[j] >= requestTs[i]

\* The request of i is with j no more.
Passed(i, j) == i # j /\ pc[i] # "idle" /\ Asking(i, j) = 0

\* Who has let i pass is behind i from then on.
PassedInv ==
  \A i, j \in Node : Passed(i, j) =>
    /\ clock[j] >= requestTs[i]
    /\ pc[j] # "idle" /\ resource[j] = resource[i] => pc[j] = "wait" /\ Before(i, j)

\* A client that waits has asked for something.
AsksInv == \A i \in Node : pc[i] = "wait" => resource[i] \in Resource

RAInv ==
  TypeOK /\ AsksInv /\ ClientInv /\ TokenInv /\ UniqueInv
  /\ CountInv /\ RequestInv /\ PassedInv

-----------------------------------------------------------------------------
(* Types.                                                                  *)

Messages == Request \cup Reply

LEMMA MessageTypes ==
  /\ \A msg \in Request : msg.type = "REQUEST" /\ msg.stamp \in Nat /\ msg.ts \in Nat
                          /\ msg.resource \in Resource
  /\ \A msg \in Reply : msg.type = "REPLY" /\ msg.stamp \in Nat
  /\ Idle.type = "idle" /\ Granting.type = "granting"
BY DEF Request, Reply, Idle, Granting

LEMMA PutKeepsType ==
  ASSUME NEW i \in Node, NEW j \in Node, NEW msg \in Messages, Put(i, j, msg),
         net \in [Node -> [Node -> SUBSET Messages]]
  PROVE  net' \in [Node -> [Node -> SUBSET Messages]]
BY DEF Put

LEMMA TypesKept == TypeOK /\ AsksInv /\ [Next]_vars => TypeOK' /\ AsksInv'
<1>. SUFFICES ASSUME TypeOK, AsksInv, [Next]_vars PROVE TypeOK' /\ AsksInv'
  OBVIOUS
<1>. USE RAAssumption
<1>1. ASSUME NEW i \in Node, NEW r \in Wants[i], RequestCS(i, r)
      PROVE TypeOK' /\ AsksInv'
  <2>1. r \in Resource /\ clock[i] \in Nat /\ asked \in Nat /\ asked + 1 \in 0 .. MaxRequests
    BY <1>1 DEF TypeOK, RequestCS
  <2>. QED BY <1>1, <2>1 DEF TypeOK, AsksInv, RequestCS, Tick
<1>2. ASSUME NEW i \in Node, NEW j \in Node, Ask(i, j) PROVE TypeOK' /\ AsksInv'
  <2>. DEFINE msg == [type |-> "REQUEST", stamp |-> clock[i] + 1,
                      ts |-> requestTs[i], resource |-> resource[i]]
  <2>1. msg \in Messages
    BY <1>2 DEF TypeOK, AsksInv, Ask, Messages, Request
  <2>2. net' \in [Node -> [Node -> SUBSET Messages]]
    BY <1>2, <2>1, PutKeepsType DEF TypeOK, Ask, SendRequest, Messages
  <2>3. /\ clock' \in [Node -> Nat]
        /\ toAsk' \in [Node -> SUBSET Node]
        /\ UNCHANGED <<state, requestTs, resource, replies, deferred, event,
                       pc, toAnswer, hand, asked>>
    BY <1>2 DEF TypeOK, Ask, SendRequest, Tick
  <2>. QED BY <2>2, <2>3 DEF TypeOK, AsksInv, Messages
<1>3. ASSUME NEW i \in Node, NEW j \in Node, Answer(i, j) \/ Grant(i, j)
      PROVE TypeOK' /\ AsksInv'
  <2>1. [type |-> "REPLY", stamp |-> clock[i] + 1] \in Messages
    BY DEF TypeOK, Messages, Reply
  <2>2. net' \in [Node -> [Node -> SUBSET Messages]]
    BY <1>3, <2>1, PutKeepsType DEF TypeOK, Answer, Grant, SendReply, Messages
  <2>3. CASE Answer(i, j)
    BY <2>2, <2>3 DEF TypeOK, AsksInv, Answer, SendReply, Tick, Messages
  <2>4. CASE Grant(i, j)
    BY <2>2, <2>4 DEF TypeOK, AsksInv, Grant, SendReply, Tick, Messages
  <2>. QED BY <1>3, <2>3, <2>4
<1>4. ASSUME NEW i \in Node, Enter(i) \/ TimeOut(i) \/ ReleaseCS(i)
      PROVE TypeOK' /\ AsksInv'
  BY <1>4 DEF TypeOK, AsksInv, Enter, TimeOut, ReleaseCS, None
<1>5. ASSUME NEW j \in Node, NEW i \in Node, Receive(j, i) PROVE TypeOK' /\ AsksInv'
  <2>1. PICK msg \in net[i][j] :
          /\ net' = [net EXCEPT ![i][j] = @ \ {msg}]
          /\ clock' = [clock EXCEPT ![j] = (IF msg.stamp > @ THEN msg.stamp ELSE @) + 1]
          /\ hand' = [hand EXCEPT ![j][i] = msg]
    BY <1>5 DEF Receive
  <2>2. msg \in Request \cup Reply /\ msg.stamp \in Nat
    BY MessageTypes DEF TypeOK
  <2>. QED BY <1>5, <2>1, <2>2 DEF TypeOK, AsksInv, Receive
<1>6. ASSUME NEW j \in Node, NEW i \in Node, HandleRequest(j, i) \/ HandleReply(j, i)
      PROVE TypeOK' /\ AsksInv'
  <2>1. CASE HandleRequest(j, i)
    <3>1. hand' \in [Node -> [Node -> Messages \cup {Idle, Granting}]]
      BY <2>1 DEF TypeOK, HandleRequest, Messages
    <3>2. deferred' \in [Node -> [Node -> Nat]]
      BY <2>1 DEF TypeOK, HandleRequest
    <3>. QED BY <2>1, <3>1, <3>2 DEF TypeOK, AsksInv, HandleRequest, Messages
  <2>2. CASE HandleReply(j, i)
    <3>1. hand' \in [Node -> [Node -> Messages \cup {Idle, Granting}]]
      BY <2>2 DEF TypeOK, HandleReply, Messages
    <3>. QED BY <2>2, <3>1 DEF TypeOK, AsksInv, HandleReply, Messages
  <2>. QED BY <1>6, <2>1, <2>2
<1>7. CASE UNCHANGED vars
  BY <1>7 DEF TypeOK, AsksInv, vars
<1>. QED
  BY <1>1, <1>2, <1>3, <1>4, <1>5, <1>6, <1>7 DEF Next, Client, Receiver

-----------------------------------------------------------------------------
(* How a request and its answer move.                                      *)

LEMMA HoldsPut ==
  ASSUME TypeOK, NEW i \in Node, NEW j \in Node, NEW msg, Put(i, j, msg),
         NEW p \in Node, NEW q \in Node, NEW type
  PROVE  Holds(net, p, q, type)' <=>
           Holds(net, p, q, type) \/ (p = i /\ q = j /\ msg.type = type)
BY DEF TypeOK, Put, Holds

Take(i, j, msg) == net' = [net EXCEPT ![i][j] = @ \ {msg}]

LEMMA HoldsTaken ==
  ASSUME TypeOK, UniqueInv, NEW i \in Node, NEW j \in Node,
         NEW msg \in net[i][j], Take(i, j, msg),
         NEW p \in Node, NEW q \in Node, NEW type
  PROVE  Holds(net, p, q, type)' <=>
           Holds(net, p, q, type) /\ ~ (p = i /\ q = j /\ msg.type = type)
<1>1. CASE p = i /\ q = j
  BY <1>1 DEF TypeOK, UniqueInv, Holds, Take
<1>2. CASE ~ (p = i /\ q = j)
  <2>1. net'[p][q] = net[p][q]
    BY <1>2 DEF TypeOK, Take
  <2>. QED BY <1>2, <2>1 DEF Holds
<1>. QED BY <1>1, <1>2

LEMMA CountsAreNumbers ==
  ASSUME TypeOK, NEW p \in Node, NEW q \in Node
  PROVE  deferred[p][q] \in Nat /\ toAnswer[p][q] \in Nat
BY DEF TypeOK

LEMMA TokensAreNumbers ==
  ASSUME TypeOK, NEW p \in Node, NEW q \in Node
  PROVE  Asking(p, q) \in Nat /\ Answering(p, q) \in Nat
BY CountsAreNumbers DEF Asking, Answering, One

LEMMA AskMoves ==
  ASSUME RAInv, NEW i \in Node, NEW j \in Node, Ask(i, j),
         NEW p \in Node, NEW q \in Node
  PROVE  Asking(p, q)' = Asking(p, q) /\ Token(p, q)' = Token(p, q)
<1>. DEFINE msg == [type |-> "REQUEST", stamp |-> clock[i] + 1,
                    ts |-> requestTs[i], resource |-> resource[i]]
<1>1. /\ j \in toAsk[i] /\ toAsk' = [toAsk EXCEPT ![i] = @ \ {j}] /\ Put(i, j, msg)
      /\ UNCHANGED <<hand, deferred, toAnswer>> /\ msg.type = "REQUEST"
  BY DEF Ask, SendRequest
<1>2. /\ Holds(net, p, q, "REQUEST")' <=> Holds(net, p, q, "REQUEST") \/ (p = i /\ q = j)
      /\ Holds(net, q, p, "REPLY")' <=> Holds(net, q, p, "REPLY")
  BY <1>1, HoldsPut DEF RAInv
<1>3. q \in toAsk'[p] <=> q \in toAsk[p] /\ ~ (p = i /\ q = j)
  BY <1>1 DEF RAInv, TypeOK
<1>4. Token(i, j) <= 1
  BY DEF RAInv, TokenInv
<1>5. CASE p = i /\ q = j
  BY <1>1, <1>2, <1>3, <1>4, <1>5, CountsAreNumbers
  DEF RAInv, Token, Asking, Answering, One
<1>6. CASE ~ (p = i /\ q = j)
  BY <1>1, <1>2, <1>3, <1>6 DEF Token, Asking, Answering, One
<1>. QED BY <1>5, <1>6

LEMMA ReplyMoves ==
  ASSUME RAInv, NEW i \in Node, NEW j \in Node, Answer(i, j) \/ Grant(i, j),
         NEW p \in Node, NEW q \in Node
  PROVE  Asking(p, q)' = Asking(p, q) /\ Token(p, q)' = Token(p, q)
<1>. DEFINE msg == [type |-> "REPLY", stamp |-> clock[i] + 1]
<1>1. Put(i, j, msg) /\ msg.type = "REPLY" /\ UNCHANGED <<toAsk, deferred>>
  BY DEF Answer, Grant, SendReply
<1>2. /\ Holds(net, q, p, "REPLY")' <=> Holds(net, q, p, "REPLY") \/ (q = i /\ p = j)
      /\ Holds(net, p, q, "REQUEST")' <=> Holds(net, p, q, "REQUEST")
  BY <1>1, HoldsPut DEF RAInv
<1>3. Token(j, i) <= 1
  BY DEF RAInv, TokenInv
<1>4. CASE Answer(i, j)
  <2>1. toAnswer[i][j] > 0 /\ toAnswer' = [toAnswer EXCEPT ![i][j] = @ - 1] /\ hand' = hand
    BY <1>4 DEF Answer
  <2>2. toAnswer'[q][p] = IF q = i /\ p = j THEN toAnswer[q][p] - 1 ELSE toAnswer[q][p]
    BY <2>1 DEF RAInv, TypeOK
  <2>3. CASE q = i /\ p = j
    BY <1>1, <1>2, <1>3, <2>1, <2>2, <2>3, CountsAreNumbers
    DEF RAInv, Token, Asking, Answering, One
  <2>4. CASE ~ (q = i /\ p = j)
    BY <1>1, <1>2, <2>1, <2>2, <2>4 DEF Token, Asking, Answering, One
  <2>. QED BY <2>3, <2>4
<1>5. CASE Grant(i, j)
  <2>1. hand[i][j] = Granting /\ hand' = [hand EXCEPT ![i][j] = Idle] /\ toAnswer' = toAnswer
    BY <1>5 DEF Grant
  <2>2. hand'[i][j] = Idle /\ \A m, n \in Node : ~ (m = i /\ n = j) => hand'[m][n] = hand[m][n]
    BY <2>1 DEF RAInv, TypeOK
  <2>3. /\ hand'[q][p].type = "granting" <=> hand[q][p].type = "granting" /\ ~ (q = i /\ p = j)
        /\ hand'[q][p].type = "REQUEST" <=> hand[q][p].type = "REQUEST"
        /\ hand'[p][q].type = "REPLY" <=> hand[p][q].type = "REPLY"
    BY <2>1, <2>2, MessageTypes
  <2>4. CASE q = i /\ p = j
    <3>1. hand[q][p].type = "granting"
      BY <2>1, <2>4, MessageTypes
    <3>. QED BY <1>1, <1>2, <1>3, <2>1, <2>3, <2>4, <3>1, CountsAreNumbers
         DEF RAInv, Token, Asking, Answering, One
  <2>5. CASE ~ (q = i /\ p = j)
    BY <1>1, <1>2, <2>1, <2>3, <2>5 DEF Token, Asking, Answering, One
  <2>. QED BY <2>4, <2>5
<1>. QED BY <1>4, <1>5

LEMMA ReceiveMoves ==
  ASSUME RAInv, NEW j \in Node, NEW i \in Node, Receive(j, i),
         NEW p \in Node, NEW q \in Node
  PROVE  Asking(p, q)' = Asking(p, q) /\ Token(p, q)' = Token(p, q)
<1>1. PICK msg \in net[i][j] :
        Take(i, j, msg) /\ hand' = [hand EXCEPT ![j][i] = msg]
  BY DEF Receive, Take
<1>2. hand[j][i] = Idle /\ UNCHANGED <<toAsk, deferred, toAnswer>>
  BY DEF Receive
<1>3. hand'[j][i] = msg /\ \A m, n \in Node : ~ (m = j /\ n = i) => hand'[m][n] = hand[m][n]
  BY <1>1 DEF RAInv, TypeOK
<1>4. msg.type \in {"REQUEST", "REPLY"}
  BY MessageTypes DEF RAInv, TypeOK
<1>5. Holds(net, i, j, msg.type)
  BY DEF Holds
<1>6. /\ Holds(net, p, q, "REQUEST")' <=>
           Holds(net, p, q, "REQUEST") /\ ~ (p = i /\ q = j /\ msg.type = "REQUEST")
      /\ Holds(net, q, p, "REPLY")' <=>
           Holds(net, q, p, "REPLY") /\ ~ (q = i /\ p = j /\ msg.type = "REPLY")
  BY <1>1, HoldsTaken DEF RAInv
<1>7. hand[j][i].type = "idle"
  BY <1>2, MessageTypes
<1>8. hand'[q][p].type = "granting" <=> hand[q][p].type = "granting"
  BY <1>3, <1>4, <1>7
<1>9. hand'[q][p].type = "REQUEST" <=>
        hand[q][p].type = "REQUEST" \/ (p = i /\ q = j /\ msg.type = "REQUEST")
  BY <1>3, <1>4, <1>7
<1>10. hand'[p][q].type = "REPLY" <=>
         hand[p][q].type = "REPLY" \/ (q = i /\ p = j /\ msg.type = "REPLY")
  BY <1>3, <1>4, <1>7
<1>11. Asking(p, q)' = Asking(p, q)
  BY <1>2, <1>5, <1>6, <1>7, <1>9, CountsAreNumbers DEF RAInv, Asking, One
<1>12. Answering(p, q)' = Answering(p, q)
  BY <1>2, <1>5, <1>6, <1>7, <1>8, <1>10, CountsAreNumbers DEF RAInv, Answering, One
<1>. QED BY <1>11, <1>12 DEF Token

LEMMA HandleRequestMoves ==
  ASSUME RAInv, NEW j \in Node, NEW i \in Node, HandleRequest(j, i),
         NEW p \in Node, NEW q \in Node
  PROVE  Token(p, q)' = Token(p, q)
<1>1. hand[j][i].type = "REQUEST" /\ toAsk' = toAsk /\ toAnswer' = toAnswer /\ net' = net
  BY DEF HandleRequest
<1>2. /\ Holds(net, p, q, "REQUEST")' <=> Holds(net, p, q, "REQUEST")
      /\ Holds(net, q, p, "REPLY")' <=> Holds(net, q, p, "REPLY")
  BY <1>1 DEF Holds
<1>3. CASE hand' = [hand EXCEPT ![j][i] = Granting] /\ deferred' = deferred
  <2>1. /\ hand'[j][i] = Granting
        /\ \A m, n \in Node : ~ (m = j /\ n = i) => hand'[m][n] = hand[m][n]
    BY <1>3 DEF RAInv, TypeOK
  <2>2. /\ hand'[q][p].type = "granting" <=>
             hand[q][p].type = "granting" \/ (q = j /\ p = i)
        /\ hand'[q][p].type = "REQUEST" <=>
             hand[q][p].type = "REQUEST" /\ ~ (q = j /\ p = i)
        /\ hand'[p][q].type = "REPLY" <=> hand[p][q].type = "REPLY"
    BY <1>1, <2>1, MessageTypes
  <2>. QED BY <1>1, <1>2, <1>3, <2>2, CountsAreNumbers
       DEF RAInv, Token, Asking, Answering, One
<1>4. CASE /\ hand' = [hand EXCEPT ![j][i] = Idle]
           /\ deferred' = [deferred EXCEPT ![j][i] = @ + 1]
  <2>1. /\ hand'[j][i] = Idle
        /\ \A m, n \in Node : ~ (m = j /\ n = i) => hand'[m][n] = hand[m][n]
    BY <1>4 DEF RAInv, TypeOK
  <2>2. /\ hand'[q][p].type = "granting" <=> hand[q][p].type = "granting"
        /\ hand'[q][p].type = "REQUEST" <=>
             hand[q][p].type = "REQUEST" /\ ~ (q = j /\ p = i)
        /\ hand'[p][q].type = "REPLY" <=> hand[p][q].type = "REPLY"
    BY <1>1, <2>1, MessageTypes
  <2>3. deferred'[q][p] = IF q = j /\ p = i THEN deferred[q][p] + 1 ELSE deferred[q][p]
    BY <1>4 DEF RAInv, TypeOK
  <2>. QED BY <1>1, <1>2, <2>2, <2>3, CountsAreNumbers
       DEF RAInv, Token, Asking, Answering, One
<1>. QED BY <1>3, <1>4 DEF HandleRequest

LEMMA ReleaseMoves ==
  ASSUME RAInv, NEW i \in Node, Enter(i) \/ ReleaseCS(i),
         NEW p \in Node, NEW q \in Node
  PROVE  Token(p, q)' = Token(p, q)
<1>1. UNCHANGED <<toAsk, hand, net>>
  BY DEF Enter, ReleaseCS
<1>2. /\ Holds(net, p, q, "REQUEST")' <=> Holds(net, p, q, "REQUEST")
      /\ Holds(net, q, p, "REPLY")' <=> Holds(net, q, p, "REPLY")
  BY <1>1 DEF Holds
<1>3. CASE Enter(i)
  BY <1>1, <1>2, <1>3 DEF Enter, Token, Asking, Answering
<1>4. CASE ReleaseCS(i)
  <2>1. toAnswer[i] = None /\ deferred' = [deferred EXCEPT ![i] = None]
        /\ toAnswer' = [toAnswer EXCEPT ![i] = deferred[i]]
    BY <1>4 DEF RAInv, ClientInv, ReleaseCS
  <2>2. deferred'[q][p] + toAnswer'[q][p] = deferred[q][p] + toAnswer[q][p]
        /\ deferred'[q][p] \in Nat /\ toAnswer'[q][p] \in Nat
    BY <2>1 DEF RAInv, TypeOK, None
  <2>. QED BY <1>1, <1>2, <2>2, CountsAreNumbers DEF RAInv, Token, Asking, Answering, One
<1>. QED BY <1>3, <1>4

-----------------------------------------------------------------------------
(* One lemma per step.                                                     *)

\* Steps at which no client moves and no reply is counted.
LEMMA SteadyClients ==
  ASSUME RAInv, TypeOK', UNCHANGED <<pc, state, requestTs, replies, event>>,
         \A p, q \in Node : Token(p, q)' = Token(p, q),
         \A n \in Node : clock'[n] >= clock[n],
         \A n \in Node : pc[n] # "idle" => toAnswer'[n] = toAnswer[n]
  PROVE  ClientInv' /\ TokenInv' /\ CountInv'
<1>1. ClientInv'
  BY DEF RAInv, ClientInv, TypeOK
<1>2. TokenInv'
  BY DEF RAInv, TokenInv
<1>3. \A n \in Node : Open(n)' = Open(n)
  BY DEF Open
<1>4. CountInv'
  BY <1>3 DEF RAInv, CountInv
<1>. QED BY <1>1, <1>2, <1>4

LEMMA SteadyPasses ==
  ASSUME RAInv, TypeOK', UNCHANGED <<pc, requestTs, resource>>,
         \A p, q \in Node : Asking(p, q)' = Asking(p, q),
         \A n \in Node : clock'[n] >= clock[n]
  PROVE  PassedInv'
BY DEF RAInv, TypeOK, PassedInv, Passed, Before

LEMMA AskKeeps ==
  ASSUME RAInv, TypeOK', AsksInv', NEW i \in Node, NEW j \in Node, Ask(i, j)
  PROVE  RAInv'
<1>. DEFINE msg == [type |-> "REQUEST", stamp |-> clock[i] + 1,
                    ts |-> requestTs[i], resource |-> resource[i]]
<1>1. /\ j \in toAsk[i] /\ Put(i, j, msg) /\ Tick(i)
      /\ UNCHANGED <<pc, state, requestTs, resource, replies, event>>
      /\ UNCHANGED <<hand, deferred, toAnswer>>
  BY DEF Ask, SendRequest
<1>2. \A n \in Node : clock[n] \in Nat /\ clock'[n] \in Nat /\ clock'[n] >= clock[n]
  BY <1>1 DEF RAInv, TypeOK, Tick
<1>3. ClientInv' /\ TokenInv' /\ CountInv'
  BY <1>1, <1>2, AskMoves, SteadyClients
<1>4. PassedInv'
  BY <1>1, <1>2, AskMoves, SteadyPasses
<1>5. UniqueInv'
  <2>1. ~ Holds(net, i, j, "REQUEST")
    <3>1. Token(i, j) <= 1
      BY DEF RAInv, TokenInv
    <3>. QED BY <1>1, <3>1, CountsAreNumbers DEF RAInv, Token, Asking, Answering, One
  <2>2. \A a \in net[i][j] : a.type # msg.type
    BY <2>1 DEF Holds
  <2>. QED BY <1>1, <2>2 DEF RAInv, TypeOK, UniqueInv, Put
<1>6. RequestInv'
  <2>1. requestTs[i] <= clock[i] /\ requestTs[i] \in Nat
    BY DEF RAInv, ClientInv, TypeOK
  <2>2. /\ msg.ts = requestTs[i] /\ msg.resource = resource[i]
        /\ msg.stamp > msg.ts
    BY <1>2, <2>1
  <2>3. \A p, q \in Node : \A m \in net'[p][q] : m \in net[p][q] \/ (p = i /\ m = msg)
    BY <1>1 DEF RAInv, TypeOK, Put
  <2>4. \A p \in Node : requestTs[p] \in Nat
    BY DEF RAInv, TypeOK
  <2>. QED BY <1>1, <1>2, <2>2, <2>3, <2>4 DEF RAInv, RequestInv
<1>. QED BY <1>3, <1>4, <1>5, <1>6 DEF RAInv

LEMMA ReplyKeeps ==
  ASSUME RAInv, TypeOK', AsksInv', NEW i \in Node, NEW j \in Node,
         Answer(i, j) \/ Grant(i, j)
  PROVE  RAInv'
<1>. DEFINE msg == [type |-> "REPLY", stamp |-> clock[i] + 1]
<1>1. /\ Put(i, j, msg) /\ msg.type = "REPLY" /\ Tick(i)
      /\ UNCHANGED <<pc, state, requestTs, resource, replies, event>>
      /\ deferred' = deferred
  BY DEF Answer, Grant, SendReply
<1>2. \A n \in Node : clock[n] \in Nat /\ clock'[n] \in Nat /\ clock'[n] >= clock[n]
  BY <1>1 DEF RAInv, TypeOK, Tick
<1>3. \A n \in Node : pc[n] # "idle" => toAnswer'[n] = toAnswer[n]
  <2>1. CASE Answer(i, j)
    <3>1. pc[i] = "idle"
      BY <2>1 DEF RAInv, ClientInv, Answer, None
    <3>2. \A n \in Node : n # i => toAnswer'[n] = toAnswer[n]
      BY <2>1 DEF RAInv, TypeOK, Answer
    <3>. QED BY <3>1, <3>2
  <2>2. CASE Grant(i, j)
    BY <2>2 DEF Grant
  <2>. QED BY <2>1, <2>2
<1>4. ClientInv' /\ TokenInv' /\ CountInv'
  BY <1>1, <1>2, <1>3, ReplyMoves, SteadyClients
<1>5. PassedInv'
  BY <1>1, <1>2, ReplyMoves, SteadyPasses
<1>6. UniqueInv'
  <2>1. ~ Holds(net, i, j, "REPLY")
    <3>1. Token(j, i) <= 1
      BY DEF RAInv, TokenInv
    <3>2. toAnswer[i][j] > 0 \/ hand[i][j].type = "granting"
      BY MessageTypes DEF Answer, Grant
    <3>. QED BY <3>1, <3>2, CountsAreNumbers DEF RAInv, Token, Asking, Answering, One
  <2>2. \A a \in net[i][j] : a.type # msg.type
    BY <2>1 DEF Holds
  <2>. QED BY <1>1, <2>2 DEF RAInv, TypeOK, UniqueInv, Put
<1>7. RequestInv'
  <2>1. \A p, q \in Node : \A m \in net'[p][q] : m.type = "REQUEST" => m \in net[p][q]
    BY <1>1 DEF RAInv, TypeOK, Put
  <2>2. \A p, q \in Node : hand'[p][q].type = "REQUEST" => hand'[p][q] = hand[p][q]
    <3>1. CASE Answer(i, j)
      BY <3>1 DEF Answer
    <3>2. CASE Grant(i, j)
      BY <3>2, MessageTypes DEF RAInv, TypeOK, Grant
    <3>. QED BY <3>1, <3>2
  <2>3. \A p \in Node : requestTs[p] \in Nat
    BY DEF RAInv, TypeOK
  <2>4. ASSUME NEW p \in Node, NEW q \in Node, hand'[q][p].type = "REQUEST"
        PROVE  /\ hand'[q][p].ts = requestTs[p] /\ hand'[q][p].resource = resource[p]
               /\ clock[q] >= requestTs[p]
    BY <2>2, <2>4 DEF RAInv, RequestInv
  <2>. QED BY <1>1, <1>2, <2>1, <2>3, <2>4 DEF RAInv, RequestInv
<1>. QED BY <1>4, <1>5, <1>6, <1>7 DEF RAInv

LEMMA ReceiveKeeps ==
  ASSUME RAInv, TypeOK', AsksInv', NEW j \in Node, NEW i \in Node, Receive(j, i)
  PROVE  RAInv'
<1>1. PICK msg \in net[i][j] :
        /\ Take(i, j, msg)
        /\ clock' = [clock EXCEPT ![j] = (IF msg.stamp > @ THEN msg.stamp ELSE @) + 1]
        /\ hand' = [hand EXCEPT ![j][i] = msg]
  BY DEF Receive, Take
<1>2. /\ UNCHANGED <<pc, state, requestTs, resource, replies, event>>
      /\ deferred' = deferred /\ toAnswer' = toAnswer
  BY DEF Receive
<1>3. msg.stamp \in Nat
  BY MessageTypes DEF RAInv, TypeOK
<1>4. /\ \A n \in Node : clock[n] \in Nat /\ clock'[n] \in Nat /\ clock'[n] >= clock[n]
      /\ clock'[j] > msg.stamp
  BY <1>1, <1>3 DEF RAInv, TypeOK
<1>5. ClientInv' /\ TokenInv' /\ CountInv'
  BY <1>2, <1>4, ReceiveMoves, SteadyClients
<1>6. PassedInv'
  BY <1>2, <1>4, ReceiveMoves, SteadyPasses
<1>7. \A p, q \in Node : net'[p][q] \subseteq net[p][q]
  BY <1>1 DEF RAInv, TypeOK, Take
<1>8. UniqueInv'
  BY <1>7 DEF RAInv, UniqueInv
<1>9. RequestInv'
  <2>1. \A p \in Node : requestTs[p] \in Nat
    BY DEF RAInv, TypeOK
  <2>2. ASSUME NEW p \in Node, NEW q \in Node, hand'[q][p].type = "REQUEST"
        PROVE  /\ hand'[q][p].ts = requestTs[p] /\ hand'[q][p].resource = resource[p]
               /\ clock'[q] >= requestTs[p]
    <3>1. CASE p = i /\ q = j
      <4>1. hand'[q][p] = msg
        BY <1>1, <3>1 DEF RAInv, TypeOK
      <4>2. msg.ts = requestTs[p] /\ msg.resource = resource[p] /\ msg.stamp > msg.ts
        BY <2>2, <3>1, <4>1 DEF RAInv, RequestInv
      <4>. QED BY <1>3, <1>4, <2>1, <3>1, <4>1, <4>2
    <3>2. CASE ~ (p = i /\ q = j)
      <4>1. hand'[q][p] = hand[q][p]
        BY <1>1, <3>2 DEF RAInv, TypeOK
      <4>2. /\ hand[q][p].ts = requestTs[p] /\ hand[q][p].resource = resource[p]
            /\ clock[q] >= requestTs[p]
        BY <2>2, <4>1 DEF RAInv, RequestInv
      <4>. QED BY <1>4, <2>1, <4>1, <4>2
    <3>. QED BY <3>1, <3>2
  <2>3. ASSUME NEW p \in Node, NEW q \in Node, deferred'[q][p] # 0
        PROVE  clock'[q] >= requestTs[p]
    BY <1>2, <1>4, <2>1, <2>3 DEF RAInv, RequestInv
  <2>4. ASSUME NEW p \in Node, NEW q \in Node, NEW m \in net'[p][q], m.type = "REQUEST"
        PROVE  m.ts = requestTs[p] /\ m.resource = resource[p] /\ m.stamp > m.ts
    BY <1>7, <2>4 DEF RAInv, RequestInv
  <2>. QED BY <1>2, <2>2, <2>3, <2>4 DEF RequestInv
<1>. QED BY <1>5, <1>6, <1>8, <1>9 DEF RAInv

LEMMA HandleRequestKeeps ==
  ASSUME RAInv, TypeOK', AsksInv', NEW j \in Node, NEW i \in Node, HandleRequest(j, i)
  PROVE  RAInv'
<1>1. /\ hand[j][i].type = "REQUEST"
      /\ UNCHANGED <<pc, state, requestTs, resource, replies, event>>
      /\ UNCHANGED <<clock, toAsk, toAnswer, net>>
  BY DEF HandleRequest
<1>2. /\ hand[j][i].ts = requestTs[i] /\ hand[j][i].resource = resource[i]
      /\ clock[j] >= requestTs[i]
  BY <1>1 DEF RAInv, RequestInv
<1>3. i # j
  <2>1. Token(i, j) # 0
    BY <1>1, CountsAreNumbers DEF RAInv, Token, Asking, Answering, One
  <2>. QED BY <2>1 DEF RAInv, TokenInv
<1>4. \A n \in Node : clock[n] \in Nat /\ clock'[n] >= clock[n]
  BY <1>1 DEF RAInv, TypeOK
<1>5. ClientInv' /\ TokenInv' /\ CountInv'
  <2>1. \A p, q \in Node : Token(p, q)' = Token(p, q)
    BY HandleRequestMoves
  <2>. QED BY <1>1, <1>4, <2>1, SteadyClients
<1>6. UniqueInv'
  BY <1>1 DEF RAInv, UniqueInv
<1>7. \A p, q \in Node : ~ (p = i /\ q = j) =>
        /\ hand'[q][p] = hand[q][p] /\ deferred'[q][p] = deferred[q][p]
  BY DEF RAInv, TypeOK, HandleRequest
<1>8. hand'[j][i] \in {Granting, Idle}
  BY DEF RAInv, TypeOK, HandleRequest
<1>9. RequestInv'
  <2>1. ASSUME NEW p \in Node, NEW q \in Node, hand'[q][p].type = "REQUEST"
        PROVE  /\ hand'[q][p].ts = requestTs[p] /\ hand'[q][p].resource = resource[p]
               /\ clock[q] >= requestTs[p]
    <3>1. ~ (p = i /\ q = j)
      BY <1>8, <2>1, MessageTypes
    <3>. QED BY <1>7, <2>1, <3>1 DEF RAInv, RequestInv
  <2>2. ASSUME NEW p \in Node, NEW q \in Node, deferred'[q][p] # 0
        PROVE  clock[q] >= requestTs[p]
    BY <1>2, <1>7, <2>2 DEF RAInv, RequestInv
  <2>. QED BY <1>1, <2>1, <2>2 DEF RAInv, RequestInv
<1>10. PassedInv'
  <2>1. ASSUME NEW p \in Node, NEW q \in Node, ~ (p = i /\ q = j)
        PROVE  Asking(p, q)' = Asking(p, q)
    BY <1>1, <1>7, <2>1 DEF Asking, Holds
  <2>2. ASSUME ~ Yields(j, i, hand[j][i])
        PROVE  Asking(i, j)' # 0
    <3>1. deferred'[j][i] = deferred[j][i] + 1
      BY <2>2 DEF RAInv, TypeOK, HandleRequest
    <3>. QED BY <3>1, CountsAreNumbers DEF RAInv, Asking, One
  <2>3. ASSUME Yields(j, i, hand[j][i]), pc[j] # "idle", resource[j] = resource[i]
        PROVE  pc[j] = "wait" /\ Before(i, j)
    <3>1. state[j] = "WANTED"
      BY <2>3, <1>2 DEF RAInv, ClientInv, TypeOK, Yields
    <3>2. pc[j] = "wait"
      BY <3>1 DEF RAInv, ClientInv, TypeOK
    <3>. QED BY <1>2, <2>3, <3>1, <3>2 DEF Yields, Before
  <2>4. ASSUME NEW p \in Node, NEW q \in Node, Passed(p, q)'
        PROVE  /\ clock'[q] >= requestTs'[p]
               /\ pc'[q] # "idle" /\ resource'[q] = resource'[p] =>
                    pc'[q] = "wait" /\ Before(p, q)'
    <3>1. CASE p = i /\ q = j
      BY <1>1, <1>2, <2>2, <2>3, <2>4, <3>1 DEF Passed, Before
    <3>2. CASE ~ (p = i /\ q = j)
      BY <1>1, <2>1, <2>4, <3>2 DEF RAInv, PassedInv, Passed, Before
    <3>. QED BY <3>1, <3>2
  <2>. QED BY <2>4 DEF PassedInv
<1>. QED BY <1>5, <1>6, <1>9, <1>10 DEF RAInv

LEMMA HandleReplyKeeps ==
  ASSUME RAInv, TypeOK', AsksInv', NEW j \in Node, NEW i \in Node, HandleReply(j, i)
  PROVE  RAInv'
<1>1. /\ hand[j][i].type = "REPLY"
      /\ hand' = [hand EXCEPT ![j][i] = Idle]
      /\ replies' = [replies EXCEPT ![j] = @ + 1]
      /\ event' = [event EXCEPT ![j] = @ \/ replies[j] + 1 >= Cardinality(Node \ {j})]
      /\ UNCHANGED <<pc, state, requestTs, resource>>
      /\ UNCHANGED <<clock, toAsk, toAnswer, deferred, net>>
  BY DEF HandleReply
<1>2. hand'[j][i] = Idle /\ \A p, q \in Node : ~ (p = i /\ q = j) => hand'[q][p] = hand[q][p]
  BY <1>1 DEF RAInv, TypeOK
<1>3. ASSUME NEW p \in Node, NEW q \in Node
      PROVE  Asking(p, q)' = Asking(p, q)
  <2>1. hand'[q][p].type = "REQUEST" <=> hand[q][p].type = "REQUEST"
    BY <1>1, <1>2, MessageTypes
  <2>. QED BY <1>1, <2>1 DEF Asking, Holds, One
<1>4. ASSUME NEW p \in Node, NEW q \in Node
      PROVE  Token(p, q)' = IF p = j /\ q = i THEN Token(p, q) - 1 ELSE Token(p, q)
  <2>1. /\ hand'[q][p].type = "granting" <=> hand[q][p].type = "granting"
        /\ hand'[p][q].type = "REPLY" <=> hand[p][q].type = "REPLY" /\ ~ (p = j /\ q = i)
    BY <1>1, <1>2, MessageTypes
  <2>2. Holds(net, q, p, "REPLY")' <=> Holds(net, q, p, "REPLY")
    BY <1>1 DEF Holds
  <2>3. CASE p = j /\ q = i
    BY <1>1, <1>3, <2>1, <2>2, <2>3, CountsAreNumbers
    DEF RAInv, Token, Asking, Answering, One
  <2>4. CASE ~ (p = j /\ q = i)
    BY <1>1, <1>3, <2>1, <2>2, <2>4 DEF Token, Answering, One
  <2>. QED BY <2>3, <2>4
<1>5. Token(j, i) = 1
  <2>1. Token(j, i) # 0 /\ Token(j, i) \in Nat
    BY <1>1, CountsAreNumbers DEF RAInv, Token, Asking, Answering, One
  <2>. QED BY <2>1 DEF RAInv, TokenInv
<1>6. j # i /\ pc[j] = "wait"
  BY <1>5 DEF RAInv, TokenInv
<1>7. TokenInv'
  BY <1>1, <1>4, <1>5 DEF RAInv, TokenInv
<1>8. ClientInv' /\ UniqueInv'
  BY <1>1 DEF RAInv, ClientInv, UniqueInv
<1>9. RequestInv'
  <2>1. \A p, q \in Node : hand'[q][p].type = "REQUEST" => hand'[q][p] = hand[q][p]
    BY <1>2, MessageTypes
  <2>. QED BY <1>1, <2>1 DEF RAInv, RequestInv
<1>10. PassedInv'
  <2>1. \A n \in Node : clock'[n] >= clock[n]
    BY <1>1 DEF RAInv, TypeOK
  <2>. QED BY <1>1, <1>3, <2>1, SteadyPasses
<1>11. CountInv'
  <2>1. ASSUME NEW n \in Node, pc[n] = "wait", n # j
        PROVE  /\ replies'[n] + Cardinality(Open(n)') = Cardinality(Node \ {n})
               /\ event'[n] => Open(n)' = {}
    <3>1. Open(n)' = Open(n)
      BY <1>4, <2>1 DEF Open
    <3>2. replies'[n] = replies[n] /\ event'[n] = event[n]
      BY <1>1, <2>1 DEF RAInv, TypeOK
    <3>. QED BY <2>1, <3>1, <3>2 DEF RAInv, CountInv
  <2>2. /\ replies'[j] + Cardinality(Open(j)') = Cardinality(Node \ {j})
        /\ event'[j] => Open(j)' = {}
    <3>1. Open(j)' = Open(j) \ {i} /\ i \in Open(j)
      BY <1>4, <1>5 DEF Open
    <3>2. IsFiniteSet(Open(j)) /\ Cardinality(Open(j)) \in Nat
      BY RAAssumption, FS_Subset, FS_CardinalityType DEF Open
    <3>3. /\ IsFiniteSet(Open(j)') /\ Cardinality(Open(j)') \in Nat
          /\ Cardinality(Open(j)') = Cardinality(Open(j)) - 1
      BY <3>1, <3>2, FS_RemoveElement, FS_CardinalityType
    <3>4. replies[j] \in Nat /\ replies'[j] = replies[j] + 1
      BY <1>1 DEF RAInv, TypeOK
    <3>5. replies[j] + Cardinality(Open(j)) = Cardinality(Node \ {j}) /\ ~ event[j]
      BY <1>6, <3>1 DEF RAInv, CountInv
    <3>6. event'[j] => replies'[j] >= Cardinality(Node \ {j})
      BY <1>1, <3>4, <3>5 DEF RAInv, TypeOK
    <3>7. event'[j] => Cardinality(Open(j)') = 0
      BY <3>2, <3>3, <3>4, <3>5, <3>6
    <3>8. event'[j] => Open(j)' = {}
      BY <3>3, <3>7, FS_EmptySet
    <3>. QED BY <3>2, <3>3, <3>4, <3>5, <3>8
  <2>. QED BY <1>1, <2>1, <2>2 DEF CountInv
<1>. QED BY <1>7, <1>8, <1>9, <1>10, <1>11 DEF RAInv

LEMMA RequestKeeps ==
  ASSUME RAInv, TypeOK', AsksInv', NEW i \in Node, NEW r \in Wants[i], RequestCS(i, r)
  PROVE  RAInv'
<1>1. /\ pc[i] = "idle" /\ toAnswer[i] = None
      /\ state' = [state EXCEPT ![i] = "WANTED"]
      /\ clock' = [clock EXCEPT ![i] = @ + 1]
      /\ requestTs' = [requestTs EXCEPT ![i] = clock[i] + 1]
      /\ resource' = [resource EXCEPT ![i] = r]
      /\ replies' = [replies EXCEPT ![i] = 0]
      /\ event' = [event EXCEPT ![i] = FALSE]
      /\ toAsk' = [toAsk EXCEPT ![i] = Node \ {i}]
      /\ pc' = [pc EXCEPT ![i] = "wait"]
      /\ deferred' = deferred /\ toAnswer' = toAnswer /\ hand' = hand /\ net' = net
  BY DEF RequestCS, Tick
<1>2. /\ pc'[i] = "wait" /\ state'[i] = "WANTED" /\ requestTs'[i] = clock[i] + 1
      /\ clock'[i] = clock[i] + 1 /\ replies'[i] = 0 /\ event'[i] = FALSE
      /\ toAsk'[i] = Node \ {i}
  BY <1>1 DEF RAInv, TypeOK
<1>3. \A n \in Node : n # i =>
        /\ pc'[n] = pc[n] /\ state'[n] = state[n] /\ requestTs'[n] = requestTs[n]
        /\ clock'[n] = clock[n] /\ replies'[n] = replies[n] /\ event'[n] = event[n]
        /\ toAsk'[n] = toAsk[n] /\ resource'[n] = resource[n]
  BY <1>1 DEF RAInv, TypeOK
<1>4. \A n \in Node : clock[n] \in Nat /\ requestTs[n] \in Nat
  BY DEF RAInv, TypeOK
<1>5. ASSUME NEW p \in Node, NEW q \in Node, p # i
      PROVE  Asking(p, q)' = Asking(p, q) /\ Token(p, q)' = Token(p, q)
  BY <1>1, <1>3, <1>5 DEF Token, Asking, Answering, Holds
<1>6. ASSUME NEW q \in Node
      PROVE  /\ ~ Holds(net, i, q, "REQUEST") /\ hand[q][i].type # "REQUEST"
             /\ deferred[q][i] = 0
             /\ Asking(i, q)' = One(q # i) /\ Token(i, q)' = One(q # i)
  <2>1. Token(i, q) = 0
    BY <1>1 DEF RAInv, TokenInv
  <2>2. /\ ~ Holds(net, i, q, "REQUEST") /\ hand[q][i].type # "REQUEST"
        /\ deferred[q][i] = 0 /\ Answering(i, q) = 0
    BY <2>1, CountsAreNumbers DEF RAInv, Token, Asking, Answering, One
  <2>3. Answering(i, q)' = 0 /\ (Holds(net, i, q, "REQUEST")' <=> Holds(net, i, q, "REQUEST"))
    BY <1>1, <2>2 DEF Answering, Holds
  <2>. QED BY <1>1, <1>2, <2>2, <2>3 DEF Token, Asking, One
<1>7. ClientInv'
  <2>1. ASSUME NEW n \in Node, n # i
        PROVE  /\ state'[n] = CASE pc'[n] = "idle" -> "RELEASED"
                               [] pc'[n] = "wait" -> "WANTED"
                               [] pc'[n] = "cs" -> "HELD"
               /\ requestTs'[n] <= clock'[n]
               /\ pc'[n] # "idle" => toAnswer'[n] = None
    BY <1>1, <1>3, <2>1 DEF RAInv, ClientInv
  <2>2. requestTs'[i] <= clock'[i] /\ toAnswer'[i] = None
    BY <1>1, <1>2, <1>4
  <2>. QED BY <1>2, <2>1, <2>2 DEF ClientInv
<1>8. TokenInv' /\ UniqueInv'
  BY <1>1, <1>2, <1>3, <1>5, <1>6 DEF RAInv, TokenInv, UniqueInv, One
<1>9. CountInv'
  <2>1. Open(i)' = Node \ {i}
    BY <1>6 DEF Open, One
  <2>2. Cardinality(Node \ {i}) \in Nat
    BY RAAssumption, FS_Subset, FS_CardinalityType
  <2>3. \A n \in Node : n # i => Open(n)' = Open(n)
    BY <1>5 DEF Open
  <2>4. /\ replies'[i] + Cardinality(Open(i)') = Cardinality(Node \ {i})
        /\ event'[i] => Open(i)' = {}
    BY <1>2, <2>1, <2>2
  <2>5. ASSUME NEW n \in Node, n # i, pc'[n] = "wait"
        PROVE  /\ replies'[n] + Cardinality(Open(n)') = Cardinality(Node \ {n})
               /\ event'[n] => Open(n)' = {}
    BY <1>3, <2>3, <2>5 DEF RAInv, CountInv
  <2>. QED BY <2>4, <2>5 DEF CountInv
<1>10. RequestInv'
  <2>1. ASSUME NEW p \in Node, NEW q \in Node
        PROVE  /\ \A m \in net[p][q] : m.type = "REQUEST" => p # i
               /\ hand[q][p].type = "REQUEST" => p # i
               /\ deferred[q][p] # 0 => p # i
    BY <1>6 DEF Holds
  <2>2. \A n \in Node : clock'[n] >= clock[n]
    BY <1>2, <1>3, <1>4
  <2>. QED BY <1>1, <1>3, <1>4, <2>1, <2>2 DEF RAInv, RequestInv, TypeOK
<1>11. PassedInv'
  <2>1. ASSUME NEW p \in Node, NEW q \in Node, Passed(p, q)'
        PROVE  /\ clock'[q] >= requestTs'[p]
               /\ pc'[q] # "idle" /\ resource'[q] = resource'[p] =>
                    pc'[q] = "wait" /\ Before(p, q)'
    <3>1. p # i
      BY <1>6, <2>1 DEF Passed, One
    <3>2. Passed(p, q) /\ p # q
      BY <1>3, <1>5, <2>1, <3>1 DEF Passed
    <3>3. clock[q] >= requestTs[p]
      BY <3>2 DEF RAInv, PassedInv
    <3>4. CASE q = i
      BY <1>2, <1>3, <1>4, <3>1, <3>3, <3>4 DEF Before
    <3>5. CASE q # i
      BY <1>3, <3>1, <3>2, <3>5 DEF RAInv, PassedInv, Before
    <3>. QED BY <3>4, <3>5
  <2>. QED BY <2>1 DEF PassedInv
<1>. QED BY <1>7, <1>8, <1>9, <1>10, <1>11 DEF RAInv

\* Nobody is in, or before i in the queue, once everybody has answered i.
LEMMA LastReplySaysAll ==
  ASSUME RAInv, NEW i \in Node, Enter(i), NEW p \in Node, p # i,
         pc[p] # "idle", resource[p] = resource[i]
  PROVE  pc[p] = "wait" /\ Before(i, p)
<1>1. pc[i] = "wait" /\ Open(i) = {}
  BY DEF RAInv, CountInv, Enter
<1>2. Token(i, p) = 0
  BY <1>1 DEF Open
<1>3. Asking(i, p) = 0
  BY <1>2, TokensAreNumbers DEF RAInv, Token
<1>4. Passed(i, p)
  BY <1>1, <1>3 DEF Passed
<1>. QED BY <1>4 DEF RAInv, PassedInv

LEMMA EnterKeeps ==
  ASSUME RAInv, TypeOK', AsksInv', NEW i \in Node, Enter(i)
  PROVE  RAInv'
<1>1. /\ pc[i] = "wait"
      /\ state' = [state EXCEPT ![i] = "HELD"] /\ pc' = [pc EXCEPT ![i] = "cs"]
      /\ UNCHANGED <<clock, requestTs, resource, replies, deferred, event>>
      /\ toAsk' = toAsk /\ toAnswer' = toAnswer /\ hand' = hand /\ net' = net
  BY DEF Enter
<1>2. pc'[i] = "cs" /\ state'[i] = "HELD"
      /\ \A n \in Node : n # i => pc'[n] = pc[n] /\ state'[n] = state[n]
  BY <1>1 DEF RAInv, TypeOK
<1>3. \A p, q \in Node : Token(p, q)' = Token(p, q) /\ Asking(p, q)' = Asking(p, q)
  BY <1>1 DEF Token, Asking, Answering, Holds
<1>4. \A q \in Node : Token(i, q) = 0
  BY DEF RAInv, CountInv, Enter, Open
<1>5. ClientInv'
  BY <1>1, <1>2 DEF RAInv, ClientInv
<1>6. TokenInv' /\ UniqueInv' /\ RequestInv'
  BY <1>1, <1>2, <1>3, <1>4 DEF RAInv, TokenInv, UniqueInv, RequestInv
<1>7. CountInv'
  <2>1. \A n \in Node : Open(n)' = Open(n)
    BY <1>3 DEF Open
  <2>. QED BY <1>1, <1>2, <2>1 DEF RAInv, CountInv
<1>8. PassedInv'
  <2>1. ASSUME NEW p \in Node, NEW q \in Node, Passed(p, q)'
        PROVE  /\ clock[q] >= requestTs[p]
               /\ pc'[q] # "idle" /\ resource[q] = resource[p] =>
                    pc'[q] = "wait" /\ Before(p, q)
    <3>1. Passed(p, q) /\ p # q
      BY <1>1, <1>2, <1>3, <2>1 DEF Passed
    <3>2. ASSUME q = i, resource[q] = resource[p]
          PROVE  FALSE
      <4>1. Before(p, i)
        BY <1>1, <3>1, <3>2 DEF RAInv, PassedInv
      <4>2. pc[p] # "idle"
        BY <3>1 DEF Passed
      <4>3. Before(i, p)
        BY <3>1, <3>2, <4>2, LastReplySaysAll
      <4>. QED BY <3>1, <3>2, <4>1, <4>3, RAAssumption DEF RAInv, TypeOK, Before
    <3>. QED BY <1>2, <3>1, <3>2 DEF RAInv, PassedInv
  <2>. QED BY <1>1, <2>1 DEF PassedInv, Before
<1>. QED BY <1>5, <1>6, <1>7, <1>8 DEF RAInv

LEMMA ReleaseKeeps ==
  ASSUME RAInv, TypeOK', AsksInv', NEW i \in Node, ReleaseCS(i)
  PROVE  RAInv'
<1>1. /\ pc[i] = "cs"
      /\ state' = [state EXCEPT ![i] = "RELEASED"] /\ pc' = [pc EXCEPT ![i] = "idle"]
      /\ resource' = [resource EXCEPT ![i] = "None"]
      /\ toAnswer' = [toAnswer EXCEPT ![i] = deferred[i]]
      /\ deferred' = [deferred EXCEPT ![i] = None]
      /\ UNCHANGED <<clock, requestTs, replies, event>>
      /\ toAsk' = toAsk /\ hand' = hand /\ net' = net
  BY DEF ReleaseCS
<1>2. /\ pc'[i] = "idle" /\ state'[i] = "RELEASED" /\ deferred'[i] = None
      /\ \A n \in Node : n # i =>
           /\ pc'[n] = pc[n] /\ state'[n] = state[n] /\ resource'[n] = resource[n]
           /\ toAnswer'[n] = toAnswer[n] /\ deferred'[n] = deferred[n]
  BY <1>1 DEF RAInv, TypeOK
<1>3. \A p, q \in Node : Token(p, q)' = Token(p, q)
  BY ReleaseMoves
<1>4. ClientInv'
  <2>1. ASSUME NEW n \in Node, n # i
        PROVE  /\ state'[n] = CASE pc'[n] = "idle" -> "RELEASED"
                               [] pc'[n] = "wait" -> "WANTED"
                               [] pc'[n] = "cs" -> "HELD"
               /\ requestTs[n] <= clock[n]
               /\ pc'[n] # "idle" => toAnswer'[n] = None
    BY <1>2, <2>1 DEF RAInv, ClientInv
  <2>2. requestTs[i] <= clock[i]
    BY DEF RAInv, ClientInv
  <2>. QED BY <1>1, <1>2, <2>1, <2>2 DEF ClientInv
<1>5. TokenInv' /\ UniqueInv'
  BY <1>1, <1>2, <1>3 DEF RAInv, TokenInv, UniqueInv
<1>6. CountInv'
  <2>1. \A n \in Node : Open(n)' = Open(n)
    BY <1>3 DEF Open
  <2>. QED BY <1>1, <1>2, <2>1 DEF RAInv, CountInv
<1>7. RequestInv'
  <2>1. ASSUME NEW q \in Node
        PROVE  ~ Holds(net, i, q, "REQUEST") /\ hand[q][i].type # "REQUEST"
    <3>1. Token(i, q) = 0
      BY <1>1 DEF RAInv, TokenInv
    <3>. QED BY <3>1, CountsAreNumbers DEF RAInv, Token, Asking, Answering, One
  <2>2. ASSUME NEW p \in Node, NEW q \in Node
        PROVE  /\ \A m \in net[p][q] : m.type = "REQUEST" => p # i
               /\ hand[q][p].type = "REQUEST" => p # i
               /\ deferred'[q][p] # 0 => deferred[q][p] # 0
    BY <1>2, <2>1 DEF Holds, None
  <2>. QED BY <1>1, <1>2, <2>2 DEF RAInv, RequestInv
<1>8. PassedInv'
  <2>1. ASSUME NEW p \in Node, NEW q \in Node, Passed(p, q)'
        PROVE  /\ clock[q] >= requestTs[p]
               /\ pc'[q] # "idle" /\ resource'[q] = resource'[p] =>
                    pc'[q] = "wait" /\ Before(p, q)
    <3>1. p # i /\ p # q /\ pc[p] # "idle"
      BY <1>2, <2>1 DEF Passed
    <3>2. CASE q = i
      <4>1. deferred[q][p] # 0 \/ Asking(p, q)' = Asking(p, q)
        <5>1. deferred'[q][p] = 0
          BY <1>2, <3>2 DEF None
        <5>2. Holds(net, p, q, "REQUEST")' <=> Holds(net, p, q, "REQUEST")
          BY <1>1 DEF Holds
        <5>. QED BY <1>1, <5>1, <5>2 DEF Asking, One
      <4>2. clock[q] >= requestTs[p]
        BY <2>1, <3>1, <4>1 DEF RAInv, RequestInv, PassedInv, Passed
      <4>. QED BY <1>2, <3>2, <4>2
    <3>3. CASE q # i
      <4>1. Asking(p, q)' = Asking(p, q)
        BY <1>1, <1>2, <3>3 DEF Asking, Holds
      <4>2. Passed(p, q)
        BY <2>1, <3>1, <4>1 DEF Passed
      <4>. QED BY <1>2, <3>1, <3>3, <4>2 DEF RAInv, PassedInv
    <3>. QED BY <3>2, <3>3
  <2>. QED BY <1>1, <2>1 DEF PassedInv, Before
<1>. QED BY <1>4, <1>5, <1>6, <1>7, <1>8 DEF RAInv

-----------------------------------------------------------------------------
(* The theorems.                                                           *)

LEMMA RAInvHoldsInitially == Init => RAInv
<1>. SUFFICES ASSUME Init PROVE RAInv
  OBVIOUS
<1>1. TypeOK /\ AsksInv
  BY RAAssumption DEF Init, TypeOK, AsksInv, None
<1>2. /\ \A n \in Node : pc[n] = "idle" /\ state[n] = "RELEASED" /\ requestTs[n] = 0
                         /\ clock[n] = 0 /\ toAnswer[n] = None /\ toAsk[n] = {}
      /\ \A m, n \in Node : deferred[m][n] = 0 /\ toAnswer[m][n] = 0
                            /\ hand[m][n] = Idle /\ net[m][n] = {}
  BY DEF Init, None
<1>3. \A p, q \in Node : Token(p, q) = 0
  BY <1>2, MessageTypes DEF Token, Asking, Answering, Holds, One
<1>4. ClientInv /\ TokenInv /\ UniqueInv /\ CountInv /\ PassedInv
  BY <1>2, <1>3 DEF ClientInv, TokenInv, UniqueInv, CountInv, PassedInv, Passed
<1>5. RequestInv
  BY <1>2, MessageTypes DEF RequestInv
<1>. QED BY <1>1, <1>4, <1>5 DEF RAInv

LEMMA StepKeepsRAInv ==
  ASSUME GivesUp = {}, RAInv, [Next]_vars
  PROVE  RAInv'
<1>1. TypeOK' /\ AsksInv'
  BY TypesKept DEF RAInv
<1>2. ASSUME NEW i \in Node, Client(i) PROVE RAInv'
  BY <1>1, <1>2, AskKeeps, ReplyKeeps, EnterKeeps, ReleaseKeeps DEF Client
<1>3. ASSUME NEW j \in Node, NEW i \in Node, Receiver(j, i) PROVE RAInv'
  BY <1>1, <1>3, ReceiveKeeps, HandleRequestKeeps, ReplyKeeps, HandleReplyKeeps
  DEF Receiver
<1>4. ASSUME NEW i \in Node, NEW r \in Wants[i], RequestCS(i, r) PROVE RAInv'
  BY <1>1, <1>4, RequestKeeps
<1>5. ASSUME NEW i \in Node PROVE ~ TimeOut(i)
  BY DEF TimeOut
<1>6. CASE UNCHANGED vars
  <2>1. \A p, q \in Node : Asking(p, q)' = Asking(p, q) /\ Token(p, q)' = Token(p, q)
    BY <1>6 DEF vars, Asking, Answering, Token, Holds
  <2>2. \A n \in Node : clock'[n] >= clock[n]
    BY <1>6 DEF vars, RAInv, TypeOK
  <2>3. ClientInv' /\ TokenInv' /\ CountInv' /\ PassedInv'
    BY <1>1, <1>6, <2>1, <2>2, SteadyClients, SteadyPasses DEF vars
  <2>4. UniqueInv' /\ RequestInv'
    BY <1>6 DEF vars, RAInv, UniqueInv, RequestInv
  <2>. QED BY <1>1, <2>3, <2>4 DEF RAInv
<1>. QED BY <1>2, <1>3, <1>4, <1>5, <1>6 DEF Next

\* The inductive invariant, and with it the types: any interleaving of client
\* and receiver threads keeps requests, answers and counts in step.
THEOREM RAInvAlways == ASSUME GivesUp = {} PROVE Spec => []RAInv
<1>. QED BY RAInvHoldsInitially, StepKeepsRAInv, PTL DEF Spec

\* Two nodes are never in for the same resource, whatever the number of
\* nodes, requests and messages under way: request_cs and release_cs of
\* RicartAgrawala without a timeout.
THEOREM MutualExclusionAlways == ASSUME GivesUp = {} PROVE Spec => []MutualExclusion
<1>1. RAInv => MutualExclusion
  <2>. SUFFICES ASSUME RAInv, NEW i \in Node, NEW j \in Node, i # j,
                       state[i] = "HELD", state[j] = "HELD", resource[i] = resource[j]
                PROVE  FALSE
    BY DEF MutualExclusion
  <2>1. pc[i] = "cs" /\ pc[j] = "cs"
    BY DEF RAInv, ClientInv, TypeOK
  <2>2. Asking(i, j) = 0
    <3>1. Token(i, j) = 0
      BY <2>1 DEF RAInv, TokenInv
    <3>. QED BY <3>1, TokensAreNumbers DEF RAInv, Token
  <2>. QED BY <2>1, <2>2 DEF RAInv, PassedInv, Passed
<1>. QED BY <1>1, RAInvAlways, PTL

\* Nobody gets in past an earlier request for the resource that still waits
\* (the comparison in _handle_request).
THEOREM ServedInOrderAlways == ASSUME GivesUp = {} PROVE Spec => ServedInOrder
<1>1. RAInv /\ [Next]_vars =>
        [\A i, j \in Node :
           (/\ state[i] = "WANTED" /\ state'[i] = "HELD"
            /\ j # i /\ state[j] = "WANTED" /\ resource[j] = resource[i])
           => Before(i, j)]_vars
  <2>. SUFFICES ASSUME RAInv, Next, NEW i \in Node, NEW j \in Node,
                       state[i] = "WANTED", state'[i] = "HELD",
                       j # i, state[j] = "WANTED", resource[j] = resource[i]
                PROVE  Before(i, j)
    OBVIOUS
  <2>1. Enter(i)
    <3>1. \A n \in Node : Enter(n) => n = i
      BY DEF RAInv, TypeOK, Enter
    <3>2. \A n \in Node : ~ ReleaseCS(n)
      BY DEF RAInv, TypeOK, ReleaseCS
    <3>3. ASSUME NEW n \in Node, NEW r \in Resource PROVE ~ RequestCS(n, r)
      <4>1. RequestCS(n, r) => state' = [state EXCEPT ![n] = "WANTED"]
        BY DEF RequestCS
      <4>. QED BY <4>1 DEF RAInv, TypeOK
    <3>4. state' # state
      OBVIOUS
    <3>. QED BY <3>1, <3>2, <3>3, <3>4, RAAssumption
         DEF Next, Client, Receiver, Ask, Answer, TimeOut, Receive, HandleRequest, Grant,
             HandleReply
  <2>2. pc[j] # "idle"
    BY DEF RAInv, ClientInv, TypeOK
  <2>. QED BY <2>1, <2>2, LastReplySaysAll
<1>. QED BY <1>1, RAInvAlways, PTL DEF Spec, ServedInOrder

-----------------------------------------------------------------------------
(* The refinement.                                                         *)

LEMMA StepRefines ==
  ASSUME GivesUp = {}, RAInv, [Next]_vars
  PROVE  [CS!CSNext]_CS!csVars
<1>1. ASSUME UNCHANGED <<state, resource>> PROVE UNCHANGED CS!csVars
  BY <1>1 DEF CS!csVars, phase
<1>2. ASSUME NEW i \in Node, NEW r \in Wants[i], RequestCS(i, r) PROVE CS!CSNext
  <2>1. r \in Resource
    BY RAAssumption
  <2>2. /\ pc[i] = "idle" /\ resource' = [resource EXCEPT ![i] = r]
        /\ state' = [state EXCEPT ![i] = "WANTED"]
    BY <1>2 DEF RequestCS
  <2>3. phase[i] # "in"
    BY <2>2 DEF RAInv, ClientInv, TypeOK, phase
  <2>4. phase' = [phase EXCEPT ![i] = "waiting"]
    BY <2>2 DEF RAInv, TypeOK, phase
  <2>. QED BY <2>1, <2>2, <2>3, <2>4 DEF CS!CSNext, CS!Ask
<1>3. ASSUME NEW i \in Node, Enter(i) PROVE CS!CSNext
  <2>1. pc[i] = "wait" /\ state' = [state EXCEPT ![i] = "HELD"] /\ resource' = resource
    BY <1>3 DEF Enter
  <2>2. phase[i] = "waiting"
    BY <2>1 DEF RAInv, ClientInv, TypeOK, phase
  <2>3. ASSUME NEW m \in Node, phase[m] = "in" PROVE resource[m] # resource[i]
    <3>1. pc[m] = "cs"
      BY <2>3 DEF RAInv, ClientInv, TypeOK, phase
    <3>. QED BY <1>3, <2>1, <3>1, LastReplySaysAll
  <2>4. phase' = [phase EXCEPT ![i] = "in"]
    BY <2>1 DEF RAInv, TypeOK, phase
  <2>. QED BY <2>1, <2>2, <2>3, <2>4 DEF CS!CSNext, CS!GetIn
<1>4. ASSUME NEW i \in Node, ReleaseCS(i) PROVE CS!CSNext
  <2>1. /\ pc[i] = "cs" /\ state' = [state EXCEPT ![i] = "RELEASED"]
        /\ resource' = [resource EXCEPT ![i] = "None"]
    BY <1>4 DEF ReleaseCS
  <2>2. phase[i] = "in"
    BY <2>1 DEF RAInv, ClientInv, TypeOK, phase
  <2>3. phase' = [phase EXCEPT ![i] = "out"]
    BY <2>1 DEF RAInv, TypeOK, phase
  <2>. QED BY <2>1, <2>2, <2>3 DEF CS!CSNext, CS!Leave
<1>5. ASSUME NEW i \in Node, NEW j \in Node,
             Ask(i, j) \/ Answer(i, j) \/ TimeOut(i) \/ Receiver(i, j)
      PROVE  UNCHANGED <<state, resource>>
  BY <1>5 DEF Ask, Answer, TimeOut, Receiver, Receive, HandleRequest, Grant, HandleReply
<1>6. CASE UNCHANGED vars
  BY <1>1, <1>6 DEF vars
<1>. QED BY <1>1, <1>2, <1>3, <1>4, <1>5, <1>6 DEF Next, Client

\* The algorithm implements the critical section: a node gets in only for
\* what it asked for and only while nobody else is in for it.
THEOREM ImplementsCriticalSectionAlways ==
  ASSUME GivesUp = {} PROVE Spec => ImplementsCriticalSection
<1>1. Init => CS!CSInit
  BY DEF Init, CS!CSInit, phase
<1>2. RAInv /\ [Next]_vars => [CS!CSNext]_CS!csVars
  BY StepRefines
<1>. QED BY <1>1, <1>2, RAInvAlways, PTL DEF Spec, CS!CSSpec, ImplementsCriticalSection
=============================================================================
