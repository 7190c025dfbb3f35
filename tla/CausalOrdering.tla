--------------------------- MODULE CausalOrdering ---------------------------
(***************************************************************************)
(* CausalOrdering of src/network/ordering.py with the VectorClock of       *)
(* src/network/clock.py.                                                   *)
(*                                                                         *)
(* The vector clock has a lock of its own: a client thread may count and   *)
(* send a message while a receiver thread is in the middle of its flush.   *)
(* Nobody sends to itself.                                                 *)
(*                                                                         *)
(* A message is known by its sender and the sender's entry in its vector.  *)
(* past is a history variable: the messages a node has sent, delivered, or *)
(* has heard of through what it delivered.  It does not look at vectors.   *)
(***************************************************************************)
EXTENDS Ordering, SequencesExt

VARIABLES
  vc,               \* vc._clock
  causalBuffer,     \* _buffer, in the order of arrival
  scan,             \* where in the buffer _flush_buffer is, 0 if it does not run
  causalDelivered,  \* messages delivered
  past,
  causalSent,       \* every message sent so far
  causalNet,        \* those under way
  causalLost        \* those that will never arrive

causalVars == <<vc, causalBuffer, scan, causalDelivered, past,
                causalSent, causalNet, causalLost>>

Vector == [Node -> Nat]
CausalMessage == [from : Node, to : Node, vc : Vector,
                  past : SUBSET (Node \X Nat)]

Id(m) == <<m.from, m.vc[m.from]>>

CausalTypeOK ==
  /\ vc \in [Node -> Vector]
  /\ causalBuffer \in [Node -> Seq(CausalMessage)]
  /\ scan \in [Node -> Nat]
  /\ causalDelivered \in [Node -> SUBSET CausalMessage]
  /\ past \in [Node -> SUBSET (Node \X Nat)]
  /\ causalSent \subseteq CausalMessage
  /\ causalNet \subseteq causalSent
  /\ causalLost \subseteq causalSent

ZeroVector == [n \in Node |-> 0]

CausalInit ==
  /\ vc = [n \in Node |-> ZeroVector]
  /\ causalBuffer = [n \in Node |-> << >>]
  /\ scan = [n \in Node |-> 0]
  /\ causalDelivered = [n \in Node |-> {}]
  /\ past = [n \in Node |-> {}]
  /\ causalSent = {} /\ causalNet = {} /\ causalLost = {}

-----------------------------------------------------------------------------
(* VectorClock.                                                            *)

Increment(v, n) == [v EXCEPT ![n] = @ + 1]

Merge(v, w) == [n \in Node |-> IF v[n] >= w[n] THEN v[n] ELSE w[n]]

HappensBefore(v, w) ==
  /\ \A n \in Node : v[n] <= w[n]
  /\ \E n \in Node : v[n] < w[n]

-----------------------------------------------------------------------------

CausalBound == Cardinality({Id(m) : m \in causalSent}) < MaxSent

\* Mutant: the message goes out with the vector from before it was counted.
StampBefore(n) == vc[n]

Stamp(n) == Increment(vc[n], n)

CausalCall(n, targets) ==
  LET new == [from : {n}, to : targets, vc : {Stamp(n)}, past : {past[n]}] IN
  /\ CausalBound
  /\ vc' = [vc EXCEPT ![n] = Increment(@, n)]
  /\ past' = [past EXCEPT ![n] = @ \cup {<<n, Stamp(n)[n]>>}]
  /\ causalSent' = causalSent \cup new
  /\ causalNet' = causalNet \cup new
  /\ UNCHANGED <<causalBuffer, scan, causalDelivered, causalLost>>

CausalSend(n, t) == t # n /\ CausalCall(n, {t})

CausalBroadcast(n) == CausalCall(n, Node \ {n})

CausalLose(m) ==
  /\ m \in causalNet
  /\ Cardinality(causalLost) < MaxLost
  /\ causalNet' = causalNet \ {m}
  /\ causalLost' = causalLost \cup {m}
  /\ UNCHANGED <<vc, causalBuffer, scan, causalDelivered, past, causalSent>>

\* Mutant: only the sender's own messages are looked at.
CanDeliverFifo(n, m) == m.vc[m.from] = vc[n][m.from] + 1

CanDeliver(n, m) ==
  \A k \in Node :
    IF k = m.from THEN m.vc[k] = vc[n][k] + 1 ELSE m.vc[k] <= vc[n][k]

CausalDeliver(n, m) ==
  /\ vc' = [vc EXCEPT ![n] = Merge(@, m.vc)]
  /\ causalDelivered' = [causalDelivered EXCEPT ![n] = @ \cup {m}]
  /\ past' = [past EXCEPT ![n] = @ \cup m.past \cup {Id(m)}]

\* _handle_causal, up to the flush.
HandleCausal(n, m) ==
  /\ m \in causalNet /\ m.to = n
  /\ scan[n] = 0
  /\ causalNet' = causalNet \ {m}
  /\ \/ /\ CanDeliver(n, m)
        /\ CausalDeliver(n, m)
        /\ scan' = [scan EXCEPT ![n] = 1]
        /\ UNCHANGED causalBuffer
     \/ /\ ~ CanDeliver(n, m)
        /\ causalBuffer' = [causalBuffer EXCEPT ![n] = Append(@, m)]
        /\ UNCHANGED <<vc, causalDelivered, past, scan>>
  /\ UNCHANGED <<causalSent, causalLost>>

Ready(n) == {i \in DOMAIN causalBuffer[n] : CanDeliver(n, causalBuffer[n][i])}

\* Mutant: one pass through the buffer, not one more after each delivery.
FlushNextOnePass(n) ==
  LET ahead == {i \in Ready(n) : i >= scan[n]} IN
  IF ahead = {} THEN {} ELSE {Min(ahead)}

\* The pass goes on behind the last delivery, and starts over as long as it
\* has delivered something.
FlushNext(n) ==
  LET ahead == {i \in Ready(n) : i >= scan[n]} IN
  IF ahead # {} THEN {Min(ahead)}
  ELSE IF Ready(n) # {} THEN {Min(Ready(n))} ELSE {}

CausalFlush(n) ==
  /\ scan[n] > 0
  /\ \/ \E i \in FlushNext(n) :
          /\ CausalDeliver(n, causalBuffer[n][i])
          /\ causalBuffer' = [causalBuffer EXCEPT ![n] = RemoveAt(@, i)]
          /\ scan' = [scan EXCEPT ![n] = i]
     \/ /\ FlushNext(n) = {}
        /\ scan' = [scan EXCEPT ![n] = 0]
        /\ UNCHANGED <<vc, causalDelivered, past, causalBuffer>>
  /\ UNCHANGED <<causalSent, causalNet, causalLost>>

CausalNext ==
  \/ \E n \in Node : CausalBroadcast(n) \/ CausalFlush(n)
  \/ \E n, t \in Node : CausalSend(n, t)
  \/ \E n \in Node, m \in causalNet : HandleCausal(n, m)
  \/ \E m \in causalNet : CausalLose(m)

CausalSpec == CausalInit /\ [][CausalNext]_causalVars

-----------------------------------------------------------------------------
(* What causal delivery is for.                                            *)

\* When the callback of a node is told of a message it has been told of
\* everything addressed to it that the sender knew of, also through others,
\* and also when the sender was in the middle of its own deliveries.
CausalOrder ==
  \A n \in Node : \A m \in causalDelivered[n] : \A a \in causalSent :
    a.to = n /\ Id(a) \in m.past => a \in causalDelivered[n]

\* happens_before says of the vectors of two messages what is true of the
\* messages: the sender of the second knew of the first.
VectorsTellCausality ==
  \A a, b \in causalSent : HappensBefore(a.vc, b.vc) <=> Id(a) \in b.past

\* A message is held back only for another one that is not there: the flush
\* leaves nothing in the buffer that only waits for what is in the buffer.
CausalGapExplained ==
  \A n \in Node : scan[n] = 0 =>
    \A i \in DOMAIN causalBuffer[n] :
      \E id \in causalBuffer[n][i].past :
        /\ id[1] # n
        /\ \A m \in causalDelivered[n] \cup ToSet(causalBuffer[n]) : Id(m) # id

=============================================================================
