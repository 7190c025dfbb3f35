--------------------------- MODULE RicartAgrawala ---------------------------
(***************************************************************************)
(* src/mutex/ricart_agrawala.py over the nodes, Lamport clocks and         *)
(* connections of src/node.py and src/network.                             *)
(*                                                                         *)
(* A node runs one client thread, which calls request_cs and release_cs in *)
(* turn, and one receiver thread per connection, which dispatches one      *)
(* message after the other.  What these do under self._lock, and every     *)
(* send, is a step of its own.  All nodes are up, so that no send fails.   *)
(***************************************************************************)
EXTENDS Naturals, FiniteSets

CONSTANTS Node,          \* config.NODES
          Resource,      \* resources a client may ask for
          Wants,         \* the resources the client of each node asks for
          MaxRequests,   \* bound: calls of request_cs, all nodes together
          GivesUp        \* resources whose clients may time out waiting

ASSUME RAAssumption ==
  /\ Node \subseteq Nat
  /\ IsFiniteSet(Node)
  /\ Wants \in [Node -> SUBSET Resource]
  /\ MaxRequests \in Nat
  /\ GivesUp \subseteq Resource

VARIABLES
  clock,       \* node.clock
  state,       \* _state
  requestTs,   \* _request_ts
  resource,    \* _request_resource, "None" after release_cs
  replies,     \* _replies_received
  deferred,    \* _deferred: entries per sender
  event,       \* _cs_event
  pc,          \* where the client thread is
  toAsk,       \* nodes the client has still to send its request to
  toAnswer,    \* deferred entries the client has still to answer
  hand,        \* hand[j][i]: what the receiver of j for i is working on
  net,         \* net[i][j]: messages on the connection from i to j
  asked        \* calls of request_cs so far

vars == <<clock, state, requestTs, resource, replies, deferred, event,
          pc, toAsk, toAnswer, hand, net, asked>>

Request == [type : {"REQUEST"}, stamp : Nat, ts : Nat, resource : Resource]
Reply == [type : {"REPLY"}, stamp : Nat]
Idle == [type |-> "idle"]
Granting == [type |-> "granting"]     \* reply decided on, not yet sent

TypeOK ==
  /\ clock \in [Node -> Nat]
  /\ state \in [Node -> {"RELEASED", "WANTED", "HELD"}]
  /\ requestTs \in [Node -> Nat]
  /\ resource \in [Node -> Resource \cup {"None"}]
  /\ replies \in [Node -> Nat]
  /\ deferred \in [Node -> [Node -> Nat]]
  /\ event \in [Node -> BOOLEAN]
  /\ pc \in [Node -> {"idle", "wait", "cs"}]
  /\ toAsk \in [Node -> SUBSET Node]
  /\ toAnswer \in [Node -> [Node -> Nat]]
  /\ hand \in [Node -> [Node -> Request \cup Reply \cup {Idle, Granting}]]
  /\ net \in [Node -> [Node -> SUBSET (Request \cup Reply)]]
  /\ asked \in 0 .. MaxRequests

None == [n \in Node |-> 0]

Init ==
  /\ clock = None
  /\ state = [n \in Node |-> "RELEASED"]
  /\ requestTs = None
  /\ resource = [n \in Node |-> "None"]
  /\ replies = None
  /\ deferred = [n \in Node |-> None]
  /\ event = [n \in Node |-> FALSE]
  /\ pc = [n \in Node |-> "idle"]
  /\ toAsk = [n \in Node |-> {}]
  /\ toAnswer = [n \in Node |-> None]
  /\ hand = [n \in Node |-> [m \in Node |-> Idle]]
  /\ net = [n \in Node |-> [m \in Node |-> {}]]
  /\ asked = 0

-----------------------------------------------------------------------------
(* node.send: every message is stamped with a clock of its own.            *)

Put(i, j, msg) == net' = [net EXCEPT ![i][j] = @ \cup {msg}]

Tick(i) == clock' = [clock EXCEPT ![i] = @ + 1]

SendRequest(i, j) ==
  /\ Tick(i)
  /\ Put(i, j, [type |-> "REQUEST", stamp |-> clock[i] + 1,
                ts |-> requestTs[i], resource |-> resource[i]])

SendReply(i, j) ==
  /\ Tick(i)
  /\ Put(i, j, [type |-> "REPLY", stamp |-> clock[i] + 1])

-----------------------------------------------------------------------------
(* The client thread.  A call that timed out leaves the state WANTED, and  *)
(* the next call starts over it.                                           *)

RequestCS(i, r) ==
  /\ pc[i] = "idle"
  /\ toAnswer[i] = None
  /\ asked < MaxRequests
  /\ state' = [state EXCEPT ![i] = "WANTED"]
  /\ Tick(i)
  /\ requestTs' = [requestTs EXCEPT ![i] = clock[i] + 1]
  /\ resource' = [resource EXCEPT ![i] = r]
  /\ replies' = [replies EXCEPT ![i] = 0]
  /\ event' = [event EXCEPT ![i] = FALSE]
  /\ toAsk' = [toAsk EXCEPT ![i] = Node \ {i}]
  /\ pc' = [pc EXCEPT ![i] = "wait"]
  /\ asked' = asked + 1
  /\ UNCHANGED <<deferred, toAnswer, hand, net>>

\* Requests go out in the order of config.NODES.
Ask(i, j) ==
  /\ pc[i] = "wait"
  /\ j \in toAsk[i]
  /\ \A k \in toAsk[i] : j <= k
  /\ SendRequest(i, j)
  /\ toAsk' = [toAsk EXCEPT ![i] = @ \ {j}]
  /\ UNCHANGED <<state, requestTs, resource, replies, deferred, event,
                 pc, toAnswer, hand, asked>>

Enter(i) ==
  /\ pc[i] = "wait"
  /\ toAsk[i] = {}
  /\ event[i]
  /\ state' = [state EXCEPT ![i] = "HELD"]
  /\ pc' = [pc EXCEPT ![i] = "cs"]
  /\ UNCHANGED <<clock, requestTs, resource, replies, deferred, event,
                 toAsk, toAnswer, hand, net, asked>>

TimeOut(i) ==
  /\ resource[i] \in GivesUp
  /\ pc[i] = "wait"
  /\ toAsk[i] = {}
  /\ ~ event[i]
  /\ pc' = [pc EXCEPT ![i] = "idle"]
  /\ UNCHANGED <<clock, state, requestTs, resource, replies, deferred, event,
                 toAsk, toAnswer, hand, net, asked>>

ReleaseCS(i) ==
  /\ pc[i] = "cs"
  /\ state' = [state EXCEPT ![i] = "RELEASED"]
  /\ resource' = [resource EXCEPT ![i] = "None"]
  /\ toAnswer' = [toAnswer EXCEPT ![i] = deferred[i]]
  /\ deferred' = [deferred EXCEPT ![i] = None]
  /\ pc' = [pc EXCEPT ![i] = "idle"]
  /\ UNCHANGED <<clock, requestTs, replies, event,
                 toAsk, hand, net, asked>>

Answer(i, j) ==
  /\ toAnswer[i][j] > 0
  /\ SendReply(i, j)
  /\ toAnswer' = [toAnswer EXCEPT ![i][j] = @ - 1]
  /\ UNCHANGED <<state, requestTs, resource, replies, deferred, event,
                 pc, toAsk, hand, asked>>

-----------------------------------------------------------------------------
(* The receiver thread of j for the connection from i.                     *)

\* Messages arrive in the order of their stamps; the clock catches up before
\* the handler is called.
Receive(j, i) ==
  /\ hand[j][i] = Idle
  /\ \E msg \in net[i][j] :
       /\ \A other \in net[i][j] : msg.stamp <= other.stamp
       /\ net' = [net EXCEPT ![i][j] = @ \ {msg}]
       /\ clock' = [clock EXCEPT ![j] = (IF msg.stamp > @ THEN msg.stamp ELSE @) + 1]
       /\ hand' = [hand EXCEPT ![j][i] = msg]
  /\ UNCHANGED <<state, requestTs, resource, replies, deferred, event,
                 pc, toAsk, toAnswer, asked>>

\* Mutant: equal timestamps are not told apart.
YieldsWithoutTies(j, i, req) ==
  \/ state[j] = "RELEASED"
  \/ /\ state[j] = "WANTED"
     /\ req.resource # resource[j] \/ req.ts <= requestTs[j]

\* Mutant: the node with the lower id always goes first.
YieldsById(j, i, req) ==
  \/ state[j] = "RELEASED"
  \/ /\ state[j] = "WANTED"
     /\ req.resource # resource[j] \/ i < j

\* Mutant: a node that waits puts everybody off.
YieldsWhenReleased(j, i, req) ==
  state[j] = "RELEASED" \/ (state[j] = "WANTED" /\ req.resource # resource[j])

\* j, at the moment it looks, lets the request of i pass.
Yields(j, i, req) ==
  \/ state[j] = "RELEASED"
  \/ /\ state[j] = "WANTED"
     /\ \/ req.resource # resource[j]
        \/ req.ts < requestTs[j]
        \/ req.ts = requestTs[j] /\ i < j

HandleRequest(j, i) ==
  /\ hand[j][i].type = "REQUEST"
  /\ \/ /\ Yields(j, i, hand[j][i])
        /\ hand' = [hand EXCEPT ![j][i] = Granting]
        /\ UNCHANGED deferred
     \/ /\ ~ Yields(j, i, hand[j][i])
        /\ hand' = [hand EXCEPT ![j][i] = Idle]
        /\ deferred' = [deferred EXCEPT ![j][i] = @ + 1]
  /\ UNCHANGED <<clock, state, requestTs, resource, replies, event,
                 pc, toAsk, toAnswer, net, asked>>

Grant(j, i) ==
  /\ hand[j][i] = Granting
  /\ SendReply(j, i)
  /\ hand' = [hand EXCEPT ![j][i] = Idle]
  /\ UNCHANGED <<state, requestTs, resource, replies, deferred, event,
                 pc, toAsk, toAnswer, asked>>

\* Mutant: one reply less will do.
HandleReplyEarly(j, i) ==
  /\ hand[j][i].type = "REPLY"
  /\ replies' = [replies EXCEPT ![j] = @ + 1]
  /\ event' = [event EXCEPT ![j] = @ \/ replies[j] + 2 >= Cardinality(Node \ {j})]
  /\ hand' = [hand EXCEPT ![j][i] = Idle]
  /\ UNCHANGED <<clock, state, requestTs, resource, deferred,
                 pc, toAsk, toAnswer, net, asked>>

\* A reply does not say which request it answers.
HandleReply(j, i) ==
  /\ hand[j][i].type = "REPLY"
  /\ replies' = [replies EXCEPT ![j] = @ + 1]
  /\ event' = [event EXCEPT ![j] = @ \/ replies[j] + 1 >= Cardinality(Node \ {j})]
  /\ hand' = [hand EXCEPT ![j][i] = Idle]
  /\ UNCHANGED <<clock, state, requestTs, resource, deferred,
                 pc, toAsk, toAnswer, net, asked>>

-----------------------------------------------------------------------------

Client(i) ==
  \/ (\E j \in Node : Ask(i, j) \/ Answer(i, j))
  \/ Enter(i) \/ ReleaseCS(i)

Receiver(j, i) ==
  Receive(j, i) \/ HandleRequest(j, i) \/ Grant(j, i) \/ HandleReply(j, i)

Next ==
  \/ \E i \in Node : Client(i) \/ TimeOut(i) \/ \E r \in Wants[i] : RequestCS(i, r)
  \/ \E j, i \in Node : Receiver(j, i)

Spec == Init /\ [][Next]_vars

\* As long as some thread can run some thread does, and a client that is in
\* leaves again; nobody has to ask.  Fairness to every thread, which the
\* scheduler gives, implies this, and no thread runs forever here.
Threads ==
  \/ \E i \in Node : Client(i)
  \/ \E j, i \in Node : Receiver(j, i)

FairSpec == Spec /\ WF_vars(Threads)

-----------------------------------------------------------------------------
(* What the algorithm is for.                                              *)

\* Two nodes are never in for the same resource: between the last reply and
\* the assignment of HELD, too, nobody else may slip in.
MutualExclusion ==
  \A i, j \in Node :
    i # j /\ state[i] = "HELD" /\ state[j] = "HELD" => resource[i] # resource[j]

\* i asked before j, in the order the handlers go by.
Before(i, j) ==
  requestTs[i] < requestTs[j] \/ (requestTs[i] = requestTs[j] /\ i < j)

\* Requests for a resource are served in the order of their timestamps:
\* nobody gets in past an earlier request that is still waiting.
ServedInOrder ==
  [][\A i, j \in Node :
       (/\ state[i] = "WANTED" /\ state'[i] = "HELD"
        /\ j # i /\ state[j] = "WANTED" /\ resource[j] = resource[i])
       => Before(i, j)]_vars

\* Whoever asks gets in unless it gives up, as long as everybody who is in
\* leaves: no two nodes put each other off, and no put-off request is
\* forgotten.  Requests are bounded, so it is enough that in the end nobody
\* is waiting.
EverybodyGetsIn == <>[](\A i \in Node : pc[i] # "wait")

\* The states of the algorithm as the phases of a critical section.
phase == [n \in Node |-> CASE state[n] = "RELEASED" -> "out"
                           [] state[n] = "WANTED" -> "waiting"
                           [] state[n] = "HELD" -> "in"]

CS == INSTANCE CriticalSection WITH wanted <- resource

\* The algorithm implements the critical section; a client that gave up is
\* still waiting.
ImplementsCriticalSection == CS!CSSpec

=============================================================================
