---------------------------- MODULE FIFOOrdering ----------------------------
(***************************************************************************)
(* FIFOOrdering of src/network/ordering.py.  What the callback is told is  *)
(* kept in fifoDelivered; data are identified by their numbers.  Nobody    *)
(* sends to itself.                                                        *)
(***************************************************************************)
EXTENDS Ordering

VARIABLES
  seq,             \* _seq
  expectedSeq,     \* _expected_seq, per sender
  fifoBuffer,      \* _buffer, per sender
  fifoFlushing,    \* the sender whose buffer is gone through under the lock
  fifoDelivered,   \* numbers delivered, per sender
  fifoSent,        \* every message sent so far
  fifoNet,         \* those under way
  fifoLost         \* those that will never arrive

fifoVars == <<seq, expectedSeq, fifoBuffer, fifoFlushing, fifoDelivered,
              fifoSent, fifoNet, fifoLost>>

FifoMessage == [from : Node, to : Node, seq : Nat]

FifoTypeOK ==
  /\ seq \in [Node -> Nat]
  /\ expectedSeq \in [Node -> [Node -> Nat \ {0}]]
  /\ fifoBuffer \in [Node -> [Node -> SUBSET Nat]]
  /\ fifoFlushing \in [Node -> SUBSET Node]
  /\ fifoDelivered \in [Node -> [Node -> Seq(Nat)]]
  /\ fifoSent \subseteq FifoMessage
  /\ fifoNet \subseteq fifoSent
  /\ fifoLost \subseteq fifoSent

FifoInit ==
  /\ seq = [n \in Node |-> 0]
  /\ expectedSeq = [n \in Node |-> [m \in Node |-> 1]]
  /\ fifoBuffer = [n \in Node |-> [m \in Node |-> {}]]
  /\ fifoFlushing = [n \in Node |-> {}]
  /\ fifoDelivered = [n \in Node |-> [m \in Node |-> << >>]]
  /\ fifoSent = {} /\ fifoNet = {} /\ fifoLost = {}

-----------------------------------------------------------------------------

FifoBound == Cardinality({<<m.from, m.seq>> : m \in fifoSent}) < MaxSent

Numbered(n, targets) == [from : {n}, to : targets, seq : {seq[n] + 1}]

FifoCall(n, targets) ==
  /\ FifoBound
  /\ fifoFlushing[n] = {}
  /\ seq' = [seq EXCEPT ![n] = @ + 1]
  /\ fifoSent' = fifoSent \cup Numbered(n, targets)
  /\ fifoNet' = fifoNet \cup Numbered(n, targets)
  /\ UNCHANGED <<expectedSeq, fifoBuffer, fifoFlushing, fifoDelivered, fifoLost>>

FifoSend(n, t) == t # n /\ FifoCall(n, {t})

FifoBroadcast(n) == FifoCall(n, Node \ {n})

FifoLose(m) ==
  /\ m \in fifoNet
  /\ Cardinality(fifoLost) < MaxLost
  /\ fifoNet' = fifoNet \ {m}
  /\ fifoLost' = fifoLost \cup {m}
  /\ UNCHANGED <<seq, expectedSeq, fifoBuffer, fifoFlushing, fifoDelivered, fifoSent>>

FifoDeliver(n, s, k) ==
  /\ fifoDelivered' = [fifoDelivered EXCEPT ![n][s] = Append(@, k)]
  /\ expectedSeq' = [expectedSeq EXCEPT ![n][s] = @ + 1]

\* Mutant: a number beyond the one expected will do.
IsExpectedOrLater(n, m) == m.seq >= expectedSeq[n][m.from]

IsExpected(n, m) == m.seq = expectedSeq[n][m.from]

\* _handle_fifo, up to the flush.
HandleFifo(n, m) ==
  /\ m \in fifoNet /\ m.to = n
  /\ fifoFlushing[n] = {}
  /\ fifoNet' = fifoNet \ {m}
  /\ \/ /\ IsExpected(n, m)
        /\ FifoDeliver(n, m.from, m.seq)
        /\ fifoFlushing' = [fifoFlushing EXCEPT ![n] = {m.from}]
        /\ UNCHANGED fifoBuffer
     \/ /\ ~ IsExpected(n, m)
        /\ fifoBuffer' = [fifoBuffer EXCEPT ![n][m.from] = @ \cup {m.seq}]
        /\ UNCHANGED <<expectedSeq, fifoDelivered, fifoFlushing>>
  /\ UNCHANGED <<seq, fifoSent, fifoLost>>

\* Mutant: the buffer is looked at once, not until it has nothing more to give.
FifoHeadSingle(n, s, k) ==
  /\ k \in fifoBuffer[n][s]
  /\ k = expectedSeq[n][s]
  /\ Cardinality(fifoBuffer[n][s]) > 1

\* The lowest number in the buffer, which is sorted, is the one expected.
FifoHead(n, s, k) ==
  /\ k \in fifoBuffer[n][s]
  /\ \A other \in fifoBuffer[n][s] : k <= other
  /\ k = expectedSeq[n][s]

FifoFlush(n, s) ==
  /\ s \in fifoFlushing[n]
  /\ \/ \E k \in fifoBuffer[n][s] :
          /\ FifoHead(n, s, k)
          /\ FifoDeliver(n, s, k)
          /\ fifoBuffer' = [fifoBuffer EXCEPT ![n][s] = @ \ {k}]
          /\ UNCHANGED fifoFlushing
     \/ /\ \A k \in fifoBuffer[n][s] : ~ FifoHead(n, s, k)
        /\ fifoFlushing' = [fifoFlushing EXCEPT ![n] = {}]
        /\ UNCHANGED <<expectedSeq, fifoDelivered, fifoBuffer>>
  /\ UNCHANGED <<seq, fifoSent, fifoNet, fifoLost>>

FifoNext ==
  \/ \E n \in Node : FifoBroadcast(n)
  \/ \E n, t \in Node : FifoSend(n, t)
  \/ \E n \in Node, m \in fifoNet : HandleFifo(n, m)
  \/ \E n, s \in Node : FifoFlush(n, s)
  \/ \E m \in fifoNet : FifoLose(m)

FifoSpec == FifoInit /\ [][FifoNext]_fifoVars

-----------------------------------------------------------------------------
(* What FIFO delivery is for.                                              *)

\* Whatever overtakes whatever on the way, the callback sees the messages of
\* a sender in the order of sending, each once and none left out.
FifoOrder ==
  \A n, s \in Node : \A i \in 1 .. Len(fifoDelivered[n][s]) :
    /\ fifoDelivered[n][s][i] = i
    /\ [from |-> s, to |-> n, seq |-> i] \in fifoSent

\* Nothing is held back without a reason: a message waits in the buffer only
\* while the next one of its sender is under way, or was lost, or was never
\* meant for this node, since unicasts and broadcasts share one counter.
\* In the last two cases it waits for ever.
FifoGapExplained ==
  \A n, s \in Node :
    fifoBuffer[n][s] # {} /\ fifoFlushing[n] = {} =>
      LET next == [from |-> s, to |-> n, seq |-> expectedSeq[n][s]]
      IN  next \in fifoNet \cup fifoLost \/ next \notin fifoSent

=============================================================================
