--------------------------- MODULE Ordering_proof ---------------------------
(***************************************************************************)
(* The three orderings of src/network/ordering.py, for any number of       *)
(* nodes, messages and losses:                                             *)
(*                                                                         *)
(*   FIFO          delivery in the order of sending, without gaps          *)
(*   total order   nodes deliver along one order, and what is held back    *)
(*                 waits for a message that is under way or was lost       *)
(*   causal order  delivery after everything that the sender knew of;      *)
(*                 vectors tell causality; what is held back waits for a   *)
(*                 message that is not there                               *)
(***************************************************************************)
EXTENDS FIFOOrdering, TotalOrdering, CausalOrdering,
        FiniteSetTheorems, WellFoundedInduction, TLAPS

-----------------------------------------------------------------------------
(* FIFO.                                                                    *)

Msg(s, n, k) == [from |-> s, to |-> n, seq |-> k]

\* A sender has used the numbers up to its counter.
NumberInv == \A m \in fifoSent : m.seq \in 1 .. seq[m.from]

\* A receiver has delivered the numbers below the one it expects.
FifoDeliveredInv ==
  \A n, s \in Node :
    /\ Len(fifoDelivered[n][s]) = expectedSeq[n][s] - 1
    /\ \A i \in 1 .. Len(fifoDelivered[n][s]) :
         fifoDelivered[n][s][i] = i /\ Msg(s, n, i) \in fifoSent

\* What is held back was sent, is not delivered, and is not the next message
\* unless the buffer is just being gone through.
FifoHeldInv ==
  \A n, s \in Node : \A k \in fifoBuffer[n][s] :
    /\ Msg(s, n, k) \in fifoSent
    /\ k >= expectedSeq[n][s]
    /\ k = expectedSeq[n][s] => s \in fifoFlushing[n]

\* What is under way is neither delivered nor held back.
FifoNetInv ==
  \A m \in fifoNet :
    m.seq >= expectedSeq[m.to][m.from] /\ m.seq \notin fifoBuffer[m.to][m.from]

\* Nothing vanishes.
NothingVanishes ==
  \A m \in fifoSent :
    \/ m \in fifoNet \cup fifoLost
    \/ m.seq \in fifoBuffer[m.to][m.from]
    \/ m.seq < expectedSeq[m.to][m.from]

\* One buffer at a time is gone through.
OneFlush == \A n \in Node : \A s, t \in fifoFlushing[n] : s = t

FInv == /\ FifoTypeOK /\ NumberInv /\ FifoDeliveredInv /\ FifoHeldInv
        /\ FifoNetInv /\ NothingVanishes /\ OneFlush

-----------------------------------------------------------------------------

LEMMA MsgFields ==
  ASSUME NEW m \in FifoMessage
  PROVE  /\ m.from \in Node /\ m.to \in Node /\ m.seq \in Nat
         /\ m = Msg(m.from, m.to, m.seq)
BY DEF FifoMessage, Msg

LEMMA MsgIs ==
  ASSUME NEW s \in Node, NEW n \in Node, NEW k \in Nat
  PROVE  /\ Msg(s, n, k) \in FifoMessage
         /\ Msg(s, n, k).from = s /\ Msg(s, n, k).to = n /\ Msg(s, n, k).seq = k
BY DEF FifoMessage, Msg

LEMMA CountingOn ==
  ASSUME NEW q \in Seq(Nat), NEW k \in Nat, Len(q) = k - 1,
         \A i \in 1 .. Len(q) : q[i] = i
  PROVE  /\ Append(q, k) \in Seq(Nat) /\ Len(Append(q, k)) = k
         /\ \A i \in 1 .. k : Append(q, k)[i] = i
<1>1. Append(q, k) \in Seq(Nat) /\ Len(Append(q, k)) = k
  OBVIOUS
<1>2. ASSUME NEW i \in 1 .. k PROVE Append(q, k)[i] = i
  <2>1. CASE i = k
    BY <2>1
  <2>2. CASE i # k
    BY <2>2
  <2>. QED BY <2>1, <2>2
<1>. QED BY <1>1, <1>2

\* The step concerns what n has of s, and nothing else.
Elsewhere(n, s) ==
  \A j, t \in Node :
    (j = n /\ t = s) \/ UNCHANGED <<expectedSeq[j][t], fifoDelivered[j][t], fifoBuffer[j][t]>>

Delivery(n, s, k) ==
  /\ FifoDeliver(n, s, k)
  /\ UNCHANGED <<seq, fifoSent, fifoLost>>
  /\ fifoNet' = fifoNet \ {Msg(s, n, k)}
  /\ fifoBuffer' \in [Node -> [Node -> SUBSET Nat]]
  /\ fifoBuffer'[n][s] = fifoBuffer[n][s] \ {k}
  /\ \A j, t \in Node : (j = n /\ t = s) \/ UNCHANGED fifoBuffer[j][t]
  /\ fifoFlushing' \in [Node -> SUBSET Node]
  /\ fifoFlushing[n] \subseteq {s} /\ fifoFlushing'[n] = {s}
  /\ \A j \in Node \ {n} : UNCHANGED fifoFlushing[j]

LEMMA CallKeepsFInv ==
  ASSUME FInv, NEW n \in Node, NEW targets \in SUBSET Node, FifoCall(n, targets)
  PROVE  FInv'
<1>. DEFINE new == Numbered(n, targets)
<1>1. /\ seq' = [seq EXCEPT ![n] = @ + 1]
      /\ fifoSent' = fifoSent \cup new /\ fifoNet' = fifoNet \cup new
      /\ UNCHANGED <<expectedSeq, fifoBuffer, fifoFlushing, fifoDelivered, fifoLost>>
  BY DEF FifoCall
<1>2. /\ seq \in [Node -> Nat] /\ seq[n] \in Nat
      /\ seq' \in [Node -> Nat] /\ seq'[n] = seq[n] + 1
      /\ \A j \in Node \ {n} : seq'[j] = seq[j]
  BY <1>1 DEF FInv, FifoTypeOK
<1>3. \A m \in new : /\ m \in FifoMessage /\ m.from = n /\ m.to \in Node
                     /\ m.seq = seq[n] + 1
  BY <1>2 DEF Numbered, FifoMessage
<1>4. FifoTypeOK'
  BY <1>1, <1>2, <1>3 DEF FInv, FifoTypeOK
<1>5. NumberInv'
  <2>1. ASSUME NEW m \in fifoSent PROVE m.seq \in 1 .. seq'[m.from]
    <3>1. m.from \in Node /\ m.seq \in 1 .. seq[m.from]
      BY MsgFields DEF FInv, FifoTypeOK, NumberInv
    <3>2. CASE m.from = n
      BY <1>2, <3>1, <3>2
    <3>3. CASE m.from # n
      BY <1>2, <3>1, <3>3
    <3>. QED BY <3>2, <3>3
  <2>2. ASSUME NEW m \in new PROVE m.seq \in 1 .. seq'[m.from]
    BY <1>2, <1>3
  <2>. QED BY <1>1, <2>1, <2>2 DEF NumberInv
<1>6. FifoDeliveredInv' /\ FifoHeldInv' /\ OneFlush'
  BY <1>1 DEF FInv, FifoDeliveredInv, FifoHeldInv, OneFlush
<1>7. FifoNetInv'
  <2>1. ASSUME NEW m \in new
        PROVE m.seq >= expectedSeq[m.to][n] /\ m.seq \notin fifoBuffer[m.to][n]
    <3>1. m.to \in Node /\ m.seq = seq[n] + 1
      BY <1>3
    <3>2. expectedSeq[m.to][n] \in Nat \ {0}
      BY <3>1 DEF FInv, FifoTypeOK
    <3>3. \A k \in Nat : Msg(n, m.to, k) \in fifoSent => k \in 1 .. seq[n]
      BY <3>1, MsgIs DEF FInv, NumberInv
    <3>4. expectedSeq[m.to][n] <= seq[n] + 1
      <4>1. CASE expectedSeq[m.to][n] = 1
        BY <1>2, <4>1
      <4>2. CASE expectedSeq[m.to][n] > 1
        <5>1. /\ expectedSeq[m.to][n] - 1 \in Nat
              /\ expectedSeq[m.to][n] - 1 \in 1 .. Len(fifoDelivered[m.to][n])
          BY <3>1, <3>2, <4>2 DEF FInv, FifoDeliveredInv
        <5>2. Msg(n, m.to, expectedSeq[m.to][n] - 1) \in fifoSent
          BY <3>1, <5>1 DEF FInv, FifoDeliveredInv
        <5>. QED BY <1>2, <3>2, <3>3, <5>1, <5>2
      <4>. QED BY <3>2, <4>1, <4>2
    <3>5. \A k \in fifoBuffer[m.to][n] : k \in Nat /\ Msg(n, m.to, k) \in fifoSent
      BY <3>1 DEF FInv, FifoTypeOK, FifoHeldInv
    <3>. QED BY <1>2, <3>1, <3>2, <3>3, <3>4, <3>5
  <2>. QED BY <1>1, <1>3, <2>1 DEF FInv, FifoNetInv
<1>8. NothingVanishes'
  BY <1>1 DEF FInv, NothingVanishes
<1>. QED BY <1>4, <1>5, <1>6, <1>7, <1>8 DEF FInv

LEMMA LosingKeepsFInv ==
  ASSUME FInv, NEW m \in fifoNet, FifoLose(m)
  PROVE  FInv'
<1>1. /\ m \in fifoSent
      /\ fifoNet' = fifoNet \ {m} /\ fifoLost' = fifoLost \cup {m}
      /\ UNCHANGED <<seq, expectedSeq, fifoBuffer, fifoFlushing, fifoDelivered, fifoSent>>
  BY DEF FifoLose, FInv, FifoTypeOK
<1>2. FifoTypeOK'
  BY <1>1 DEF FInv, FifoTypeOK
<1>3. NumberInv' /\ FifoDeliveredInv' /\ FifoHeldInv' /\ OneFlush'
  BY <1>1 DEF FInv, NumberInv, FifoDeliveredInv, FifoHeldInv, OneFlush
<1>4. FifoNetInv' /\ NothingVanishes'
  BY <1>1 DEF FInv, FifoNetInv, NothingVanishes
<1>. QED BY <1>2, <1>3, <1>4 DEF FInv

\* Node n delivers number k of s, from the network or from its buffer.
LEMMA DeliveryKeepsFInv ==
  ASSUME FInv, NEW n \in Node, NEW s \in Node, NEW k \in Nat,
         k = expectedSeq[n][s], Msg(s, n, k) \in fifoSent, Delivery(n, s, k)
  PROVE  FInv'
<1>1. /\ expectedSeq' \in [Node -> [Node -> Nat \ {0}]]
      /\ expectedSeq'[n][s] = k + 1
      /\ \A j, t \in Node : (j = n /\ t = s) \/ expectedSeq'[j][t] = expectedSeq[j][t]
  <2>1. /\ expectedSeq \in [Node -> [Node -> Nat \ {0}]] /\ k + 1 \in Nat \ {0}
        /\ expectedSeq' = [expectedSeq EXCEPT ![n][s] = k + 1]
    BY DEF FInv, FifoTypeOK, Delivery, FifoDeliver
  <2>. QED BY <2>1
<1>2. /\ fifoDelivered[n][s] \in Seq(Nat) /\ Len(fifoDelivered[n][s]) = k - 1
      /\ \A i \in 1 .. Len(fifoDelivered[n][s]) : fifoDelivered[n][s][i] = i
  BY DEF FInv, FifoTypeOK, FifoDeliveredInv
<1>3. /\ fifoDelivered' \in [Node -> [Node -> Seq(Nat)]]
      /\ fifoDelivered'[n][s] = Append(fifoDelivered[n][s], k)
      /\ \A j, t \in Node : (j = n /\ t = s) \/ fifoDelivered'[j][t] = fifoDelivered[j][t]
  <2>1. Append(fifoDelivered[n][s], k) \in Seq(Nat)
    BY <1>2
  <2>. QED BY <2>1 DEF FInv, FifoTypeOK, Delivery, FifoDeliver
<1>4. Elsewhere(n, s)
  BY <1>1, <1>3 DEF Delivery, Elsewhere
<1>5. /\ fifoBuffer'[n][s] = fifoBuffer[n][s] \ {k}
      /\ fifoNet' = fifoNet \ {Msg(s, n, k)}
      /\ UNCHANGED <<seq, fifoSent, fifoLost>>
  BY DEF Delivery
<1>6. FifoTypeOK'
  BY <1>1, <1>3 DEF FInv, FifoTypeOK, Delivery
<1>7. NumberInv'
  BY <1>5 DEF FInv, NumberInv
<1>8. OneFlush'
  BY DEF FInv, OneFlush, Delivery
<1>9. FifoDeliveredInv'
  <2>1. ASSUME NEW j \in Node, NEW t \in Node
        PROVE /\ Len(fifoDelivered'[j][t]) = expectedSeq'[j][t] - 1
              /\ \A i \in 1 .. Len(fifoDelivered'[j][t]) :
                   fifoDelivered'[j][t][i] = i /\ Msg(t, j, i) \in fifoSent
    <3>1. /\ Len(fifoDelivered[j][t]) = expectedSeq[j][t] - 1
          /\ \A i \in 1 .. Len(fifoDelivered[j][t]) :
               fifoDelivered[j][t][i] = i /\ Msg(t, j, i) \in fifoSent
      BY DEF FInv, FifoDeliveredInv
    <3>2. CASE ~ (j = n /\ t = s)
      <4>1. /\ fifoDelivered'[j][t] = fifoDelivered[j][t]
            /\ expectedSeq'[j][t] = expectedSeq[j][t]
        BY <1>4, <3>2 DEF Elsewhere
      <4>. QED BY <3>1, <4>1
    <3>3. CASE j = n /\ t = s
      <4>1. /\ Len(fifoDelivered'[n][s]) = k
            /\ \A i \in 1 .. k : fifoDelivered'[n][s][i] = i
        <5>1. /\ Len(Append(fifoDelivered[n][s], k)) = k
              /\ \A i \in 1 .. k : Append(fifoDelivered[n][s], k)[i] = i
          BY <1>2, CountingOn
        <5>. QED BY <1>3, <5>1
      <4>2. \A i \in 1 .. k - 1 : Msg(s, n, i) \in fifoSent
        BY <1>2, <3>1, <3>3
      <4>3. \A i \in 1 .. k : Msg(s, n, i) \in fifoSent
        BY <4>2
      <4>. QED BY <1>1, <3>3, <4>1, <4>3
    <3>. QED BY <3>2, <3>3
  <2>. QED BY <1>5, <2>1 DEF FifoDeliveredInv
<1>10. FifoHeldInv'
  <2>1. ASSUME NEW j \in Node, NEW t \in Node, NEW h \in fifoBuffer'[j][t]
        PROVE /\ Msg(t, j, h) \in fifoSent
              /\ h >= expectedSeq'[j][t]
              /\ h = expectedSeq'[j][t] => t \in fifoFlushing'[j]
    <3>1. CASE j = n /\ t = s
      <4>1. h \in fifoBuffer[n][s] /\ h # k /\ h \in Nat
        BY <1>5, <3>1 DEF FInv, FifoTypeOK
      <4>2. Msg(s, n, h) \in fifoSent /\ h >= k
        BY <4>1 DEF FInv, FifoHeldInv
      <4>3. s \in fifoFlushing'[n]
        BY DEF Delivery
      <4>. QED BY <1>1, <3>1, <4>1, <4>2, <4>3
    <3>2. CASE ~ (j = n /\ t = s)
      <4>1. h \in fifoBuffer[j][t] /\ expectedSeq'[j][t] = expectedSeq[j][t]
        BY <1>4, <3>2 DEF Elsewhere
      <4>2. /\ Msg(t, j, h) \in fifoSent /\ h >= expectedSeq[j][t]
            /\ h = expectedSeq[j][t] => t \in fifoFlushing[j]
        BY <4>1 DEF FInv, FifoHeldInv
      <4>3. t \in fifoFlushing[j] => t \in fifoFlushing'[j]
        BY DEF Delivery
      <4>. QED BY <4>1, <4>2, <4>3
    <3>. QED BY <3>1, <3>2
  <2>. QED BY <1>5, <2>1 DEF FifoHeldInv
<1>11. FifoNetInv'
  <2>1. ASSUME NEW m \in fifoNet'
        PROVE /\ m.seq >= expectedSeq'[m.to][m.from]
              /\ m.seq \notin fifoBuffer'[m.to][m.from]
    <3>1. /\ m \in FifoMessage /\ m # Msg(s, n, k)
          /\ m.seq >= expectedSeq[m.to][m.from]
          /\ m.seq \notin fifoBuffer[m.to][m.from]
      BY <1>5 DEF FInv, FifoTypeOK, FifoNetInv
    <3>2. /\ m.from \in Node /\ m.to \in Node /\ m.seq \in Nat
          /\ m = Msg(m.from, m.to, m.seq)
      BY <3>1, MsgFields
    <3>3. CASE m.to = n /\ m.from = s
      <4>1. m.seq # k
        BY <3>1, <3>2, <3>3
      <4>2. m.seq >= k /\ m.seq \notin fifoBuffer[n][s]
        BY <3>1, <3>3
      <4>3. m.seq >= k + 1
        BY <3>2, <4>1, <4>2
      <4>4. m.seq \notin fifoBuffer'[n][s]
        BY <1>5, <4>2
      <4>. QED BY <1>1, <3>3, <4>3, <4>4
    <3>4. CASE ~ (m.to = n /\ m.from = s)
      <4>1. /\ expectedSeq'[m.to][m.from] = expectedSeq[m.to][m.from]
            /\ fifoBuffer'[m.to][m.from] = fifoBuffer[m.to][m.from]
        BY <1>4, <3>2, <3>4 DEF Elsewhere
      <4>. QED BY <3>1, <4>1
    <3>. QED BY <3>3, <3>4
  <2>. QED BY <2>1 DEF FifoNetInv
<1>12. NothingVanishes'
  <2>1. ASSUME NEW m \in fifoSent
        PROVE \/ m \in fifoNet' \cup fifoLost
              \/ m.seq \in fifoBuffer'[m.to][m.from]
              \/ m.seq < expectedSeq'[m.to][m.from]
    <3>1. /\ m.from \in Node /\ m.to \in Node /\ m.seq \in Nat
          /\ m = Msg(m.from, m.to, m.seq)
      BY MsgFields DEF FInv, FifoTypeOK
    <3>2. \/ m \in fifoNet \cup fifoLost
          \/ m.seq \in fifoBuffer[m.to][m.from]
          \/ m.seq < expectedSeq[m.to][m.from]
      BY DEF FInv, NothingVanishes
    <3>3. CASE m.to = n /\ m.from = s
      <4>1. CASE m.seq = k
        BY <1>1, <3>3, <4>1
      <4>2. CASE m.seq # k
        <5>1. m # Msg(s, n, k)
          BY <4>2, MsgIs
        <5>2. m.seq < k => m.seq < k + 1
          BY <3>1
        <5>. QED BY <1>1, <1>5, <3>2, <3>3, <4>2, <5>1, <5>2
      <4>. QED BY <4>1, <4>2
    <3>4. CASE ~ (m.to = n /\ m.from = s)
      <4>1. m # Msg(s, n, k)
        BY <3>4, MsgIs
      <4>2. /\ expectedSeq'[m.to][m.from] = expectedSeq[m.to][m.from]
            /\ fifoBuffer'[m.to][m.from] = fifoBuffer[m.to][m.from]
        BY <1>4, <3>1, <3>4 DEF Elsewhere
      <4>. QED BY <1>5, <3>2, <4>1, <4>2
    <3>. QED BY <3>3, <3>4
  <2>. QED BY <1>5, <2>1 DEF NothingVanishes
<1>. QED BY <1>6, <1>7, <1>8, <1>9, <1>10, <1>11, <1>12 DEF FInv

LEMMA ArrivalKeepsFInv ==
  ASSUME FInv, NEW n \in Node, NEW m \in fifoNet, HandleFifo(n, m)
  PROVE  FInv'
<1>. DEFINE s == m.from
            k == m.seq
<1>1. /\ m.to = n /\ fifoFlushing[n] = {} /\ fifoNet' = fifoNet \ {m}
      /\ UNCHANGED <<seq, fifoSent, fifoLost>>
  BY DEF HandleFifo
<1>2. /\ m \in fifoSent /\ s \in Node /\ k \in Nat /\ m = Msg(s, n, k)
      /\ k >= expectedSeq[n][s] /\ k \notin fifoBuffer[n][s]
  BY <1>1, MsgFields DEF FInv, FifoTypeOK, FifoNetInv
<1>3. CASE /\ IsExpected(n, m) /\ FifoDeliver(n, s, k)
           /\ fifoFlushing' = [fifoFlushing EXCEPT ![n] = {s}]
           /\ UNCHANGED fifoBuffer
  <2>1. /\ fifoBuffer' \in [Node -> [Node -> SUBSET Nat]]
        /\ fifoBuffer'[n][s] = fifoBuffer[n][s] \ {k}
        /\ \A j, t \in Node : fifoBuffer'[j][t] = fifoBuffer[j][t]
    BY <1>2, <1>3 DEF FInv, FifoTypeOK
  <2>2. /\ fifoFlushing' \in [Node -> SUBSET Node] /\ fifoFlushing'[n] = {s}
        /\ \A j \in Node \ {n} : fifoFlushing'[j] = fifoFlushing[j]
    BY <1>2, <1>3 DEF FInv, FifoTypeOK
  <2>3. k = expectedSeq[n][s]
    BY <1>3 DEF IsExpected
  <2>4. Delivery(n, s, k)
    BY <1>1, <1>2, <1>3, <2>1, <2>2 DEF Delivery
  <2>. QED BY <1>2, <2>3, <2>4, DeliveryKeepsFInv
<1>4. CASE /\ ~ IsExpected(n, m)
           /\ fifoBuffer' = [fifoBuffer EXCEPT ![n][s] = @ \cup {k}]
           /\ UNCHANGED <<expectedSeq, fifoDelivered, fifoFlushing>>
  <2>1. /\ fifoBuffer' \in [Node -> [Node -> SUBSET Nat]]
        /\ fifoBuffer'[n][s] = fifoBuffer[n][s] \cup {k}
        /\ \A j, t \in Node : (j = n /\ t = s) \/ fifoBuffer'[j][t] = fifoBuffer[j][t]
    BY <1>2, <1>4 DEF FInv, FifoTypeOK
  <2>0. FifoTypeOK'
    BY <1>1, <1>4, <2>1 DEF FInv, FifoTypeOK
  <2>2. NumberInv' /\ OneFlush'
    BY <1>1, <1>4 DEF FInv, NumberInv, OneFlush
  <2>6. FifoDeliveredInv'
    BY <1>1, <1>4 DEF FInv, FifoDeliveredInv
  <2>3. FifoHeldInv'
    <3>1. ASSUME NEW j \in Node, NEW t \in Node, NEW h \in fifoBuffer'[j][t]
          PROVE /\ Msg(t, j, h) \in fifoSent
                /\ h >= expectedSeq[j][t]
                /\ h = expectedSeq[j][t] => t \in fifoFlushing[j]
      <4>1. h \in fifoBuffer[j][t] \/ (j = n /\ t = s /\ h = k)
        BY <2>1
      <4>2. CASE h \in fifoBuffer[j][t]
        BY <4>2 DEF FInv, FifoHeldInv
      <4>3. CASE j = n /\ t = s /\ h = k
        BY <1>2, <1>4, <4>3 DEF IsExpected
      <4>. QED BY <4>1, <4>2, <4>3
    <3>. QED BY <1>1, <1>4, <3>1 DEF FifoHeldInv
  <2>4. FifoNetInv'
    <3>1. ASSUME NEW c \in fifoNet'
          PROVE /\ c.seq >= expectedSeq[c.to][c.from]
                /\ c.seq \notin fifoBuffer'[c.to][c.from]
      <4>1. /\ c # m /\ c.from \in Node /\ c.to \in Node
            /\ c = Msg(c.from, c.to, c.seq)
            /\ c.seq >= expectedSeq[c.to][c.from]
            /\ c.seq \notin fifoBuffer[c.to][c.from]
        BY <1>1, MsgFields DEF FInv, FifoTypeOK, FifoNetInv
      <4>. QED BY <1>2, <2>1, <4>1
    <3>. QED BY <1>4, <3>1 DEF FifoNetInv
  <2>5. NothingVanishes'
    <3>1. ASSUME NEW c \in fifoSent
          PROVE \/ c \in fifoNet' \cup fifoLost
                \/ c.seq \in fifoBuffer'[c.to][c.from]
                \/ c.seq < expectedSeq[c.to][c.from]
      <4>1. c.from \in Node /\ c.to \in Node
        BY MsgFields DEF FInv, FifoTypeOK
      <4>2. CASE c = m
        BY <1>1, <2>1, <4>2
      <4>3. CASE c # m
        BY <1>1, <2>1, <4>1, <4>3 DEF FInv, NothingVanishes
      <4>. QED BY <4>2, <4>3
    <3>. QED BY <1>1, <1>4, <3>1 DEF NothingVanishes
  <2>. QED BY <2>0, <2>2, <2>3, <2>4, <2>5, <2>6 DEF FInv
<1>. QED BY <1>3, <1>4 DEF HandleFifo

LEMMA FlushKeepsFInv ==
  ASSUME FInv, NEW n \in Node, NEW s \in Node, FifoFlush(n, s)
  PROVE  FInv'
<1>1. /\ s \in fifoFlushing[n] /\ fifoFlushing[n] \subseteq {s}
      /\ UNCHANGED <<seq, fifoSent, fifoNet, fifoLost>>
  BY DEF FifoFlush, FInv, OneFlush
<1>2. ASSUME NEW k \in fifoBuffer[n][s], FifoHead(n, s, k), FifoDeliver(n, s, k),
             fifoBuffer' = [fifoBuffer EXCEPT ![n][s] = @ \ {k}],
             UNCHANGED fifoFlushing
      PROVE  FInv'
  <2>1. k \in Nat /\ k = expectedSeq[n][s] /\ Msg(s, n, k) \in fifoSent
    BY <1>2 DEF FInv, FifoTypeOK, FifoHeldInv, FifoHead
  <2>2. Msg(s, n, k) \notin fifoNet
    BY <2>1, MsgIs DEF FInv, FifoNetInv
  <2>3. /\ fifoBuffer' \in [Node -> [Node -> SUBSET Nat]]
        /\ fifoBuffer'[n][s] = fifoBuffer[n][s] \ {k}
        /\ \A j, t \in Node : (j = n /\ t = s) \/ fifoBuffer'[j][t] = fifoBuffer[j][t]
    BY <1>2 DEF FInv, FifoTypeOK
  <2>4. /\ fifoFlushing' \in [Node -> SUBSET Node] /\ fifoFlushing'[n] = {s}
        /\ \A j \in Node \ {n} : fifoFlushing'[j] = fifoFlushing[j]
    BY <1>1, <1>2 DEF FInv, FifoTypeOK
  <2>5. fifoNet' = fifoNet \ {Msg(s, n, k)}
    BY <1>1, <2>2
  <2>6. Delivery(n, s, k)
    BY <1>1, <1>2, <2>3, <2>4, <2>5 DEF Delivery
  <2>. QED BY <2>1, <2>6, DeliveryKeepsFInv
<1>3. CASE /\ \A k \in fifoBuffer[n][s] : ~ FifoHead(n, s, k)
           /\ fifoFlushing' = [fifoFlushing EXCEPT ![n] = {}]
           /\ UNCHANGED <<expectedSeq, fifoDelivered, fifoBuffer>>
  <2>1. /\ fifoFlushing' \in [Node -> SUBSET Node] /\ fifoFlushing'[n] = {}
        /\ \A j \in Node \ {n} : fifoFlushing'[j] = fifoFlushing[j]
    BY <1>3 DEF FInv, FifoTypeOK
  <2>2. /\ FifoTypeOK' /\ NumberInv' /\ FifoDeliveredInv' /\ FifoNetInv'
        /\ NothingVanishes' /\ OneFlush'
    <3>1. FifoTypeOK'
      BY <1>1, <1>3, <2>1 DEF FInv, FifoTypeOK
    <3>2. NumberInv' /\ FifoDeliveredInv' /\ FifoNetInv' /\ NothingVanishes'
      BY <1>1, <1>3
      DEF FInv, NumberInv, FifoDeliveredInv, FifoNetInv, NothingVanishes
    <3>3. OneFlush'
      BY <2>1 DEF FInv, OneFlush
    <3>. QED BY <3>1, <3>2, <3>3
  <2>3. ASSUME NEW j \in Node, NEW t \in Node, NEW h \in fifoBuffer[j][t],
               h = expectedSeq[j][t]
        PROVE  t \in fifoFlushing'[j]
    <3>1. t \in fifoFlushing[j] /\ \A other \in fifoBuffer[j][t] : h <= other
      BY <2>3 DEF FInv, FifoHeldInv
    <3>2. j # n
      <4>. SUFFICES ASSUME j = n PROVE FALSE
        OBVIOUS
      <4>1. t = s
        BY <1>1, <3>1
      <4>. QED BY <1>3, <2>3, <3>1, <4>1 DEF FifoHead
    <3>. QED BY <2>1, <3>1, <3>2
  <2>4. FifoHeldInv'
    BY <1>1, <1>3, <2>3 DEF FInv, FifoHeldInv
  <2>. QED BY <2>2, <2>4 DEF FInv
<1>. QED BY <1>2, <1>3 DEF FifoFlush

-----------------------------------------------------------------------------

LEMMA FInvStart == FifoInit => FInv
<1>. SUFFICES ASSUME FifoInit PROVE FInv
  OBVIOUS
<1>1. << >> \in Seq(Nat) /\ Len(<< >>) = 0
  OBVIOUS
<1>2. FifoTypeOK
  BY <1>1 DEF FifoInit, FifoTypeOK
<1>3. FifoDeliveredInv
  BY <1>1 DEF FifoInit, FifoDeliveredInv
<1>. QED
  BY <1>2, <1>3
  DEF FifoInit, FInv, NumberInv, FifoHeldInv, FifoNetInv, NothingVanishes, OneFlush

LEMMA FInvStep == FInv /\ [FifoNext]_fifoVars => FInv'
<1>. SUFFICES ASSUME FInv, [FifoNext]_fifoVars PROVE FInv'
  OBVIOUS
<1>1. ASSUME NEW n \in Node, FifoBroadcast(n) PROVE FInv'
  BY <1>1, CallKeepsFInv DEF FifoBroadcast
<1>2. ASSUME NEW n \in Node, NEW t \in Node, FifoSend(n, t) PROVE FInv'
  BY <1>2, CallKeepsFInv DEF FifoSend
<1>3. CASE \E n \in Node, m \in fifoNet : HandleFifo(n, m)
  BY <1>3, ArrivalKeepsFInv
<1>4. CASE \E n, s \in Node : FifoFlush(n, s)
  BY <1>4, FlushKeepsFInv
<1>5. CASE \E m \in fifoNet : FifoLose(m)
  BY <1>5, LosingKeepsFInv
<1>6. CASE UNCHANGED fifoVars
  BY <1>6
  DEF fifoVars, FInv, FifoTypeOK, NumberInv, FifoDeliveredInv, FifoHeldInv,
      FifoNetInv, NothingVanishes, OneFlush
<1>. QED BY <1>1, <1>2, <1>3, <1>4, <1>5, <1>6 DEF FifoNext

LEMMA FInvAlways == FifoSpec => []FInv
BY FInvStart, FInvStep, PTL DEF FifoSpec

\* The callback sees the messages of a sender in the order of sending, each
\* once and none left out (_handle_fifo and _flush_buffer of FIFOOrdering).
THEOREM FifoOrderAlways == FifoSpec => []FifoOrder
<1>1. FInv => FifoOrder
  BY DEF FInv, FifoDeliveredInv, FifoOrder, Msg
<1>. QED BY <1>1, FInvAlways, PTL

\* What is held back waits for a message that is under way, was lost, or was
\* never meant for this node (_flush_buffer of FIFOOrdering).
THEOREM FifoGapExplainedAlways == FifoSpec => []FifoGapExplained
<1>1. FInv => FifoGapExplained
  <2>. SUFFICES ASSUME FInv, NEW n \in Node, NEW s \in Node, fifoFlushing[n] = {},
                       Msg(s, n, expectedSeq[n][s]) \in fifoSent
                PROVE  Msg(s, n, expectedSeq[n][s]) \in fifoNet \cup fifoLost
    BY DEF FifoGapExplained, Msg
  <2>1. expectedSeq[n][s] \in Nat /\ expectedSeq[n][s] \notin fifoBuffer[n][s]
    BY DEF FInv, FifoTypeOK, FifoHeldInv
  <2>. QED BY <2>1, MsgIs DEF FInv, NothingVanishes
<1>. QED BY <1>1, FInvAlways, PTL

-----------------------------------------------------------------------------
(* Total order.                                                             *)

\* Numbers are drawn one after the other, each for a message that was sent
\* and is numbered only once.
DrawInv ==
  /\ globalSeq = Len(order)
  /\ \A k \in 1 .. Len(order) : order[k] \in totalSent \ toNumber

\* An assignment carries the message that has its number.
AssignmentInv ==
  \A a \in totalNet \cup totalLost : a.seq \in 1 .. Len(order) /\ a.msg = order[a.seq]

\* What a node holds back is for it, is not delivered and not under way, and
\* is not the next message, unless the buffer is just being emptied.
TotalBufferInv ==
  /\ \A n \in Node : \A b \in totalBuffer[n] :
       /\ b.to = n
       /\ b.seq \in expected[n] .. Len(order)
       /\ b.msg = order[b.seq]
       /\ b.seq = expected[n] => totalFlushing[n]
  /\ \A a \in totalNet : a.seq >= expected[a.to] /\ a \notin totalBuffer[a.to]

\* A node has delivered as many messages as it says.
TotalDeliveredInv ==
  \A n \in Node :
    Len(totalDelivered[n]) = expected[n] - 1 /\ expected[n] <= Len(order) + 1

\* Every number that is drawn and not delivered is somewhere.
NothingMissing ==
  \A n \in Node : \A k \in expected[n] .. Len(order) :
    \E a \in totalNet \cup totalLost \cup totalBuffer[n] : a.to = n /\ a.seq = k

TInv == /\ TotalTypeOK /\ DrawInv /\ AssignmentInv
        /\ TotalBufferInv /\ TotalDeliveredInv /\ NothingMissing

-----------------------------------------------------------------------------
(* One lemma per step.                                                     *)

LEMMA SendKeepsTInv ==
  ASSUME TInv, NEW n \in Node, NEW d \in Data, TotalSend(n, d)
  PROVE  TInv'
<1>. DEFINE m == [origin |-> n, data |-> d]
<1>1. /\ m \in TotalMessage /\ m \notin totalSent
      /\ totalSent' = totalSent \cup {m} /\ toNumber' = toNumber \cup {m}
      /\ UNCHANGED <<globalSeq, order, totalNet, totalLost, expected,
                     totalBuffer, totalFlushing, totalDelivered>>
  BY DEF TotalSend, TotalMessage, receiving
<1>2. TotalTypeOK'
  BY <1>1 DEF TInv, TotalTypeOK
<1>3. DrawInv'
  BY <1>1 DEF TInv, DrawInv
<1>. QED
  BY <1>1, <1>2, <1>3
  DEF TInv, AssignmentInv, TotalBufferInv, TotalDeliveredInv, NothingMissing

LEMMA NumberingKeepsTInv ==
  ASSUME TInv, NEW m \in toNumber, HandleTotalMsg(m)
  PROVE  TInv'
<1>. DEFINE new == [to : Node, seq : {globalSeq + 1}, msg : {m}]
<1>1. /\ toNumber' = toNumber \ {m}
      /\ globalSeq' = globalSeq + 1
      /\ order' = Append(order, m)
      /\ totalNet' = totalNet \cup new
      /\ UNCHANGED <<totalSent, totalLost, expected, totalBuffer,
                     totalFlushing, totalDelivered>>
  BY DEF HandleTotalMsg, Draw, receiving
<1>2. /\ m \in TotalMessage /\ m \in totalSent /\ order \in Seq(TotalMessage)
      /\ globalSeq = Len(order) /\ Len(order) \in Nat
  BY DEF TInv, TotalTypeOK, DrawInv
<1>3. /\ order' \in Seq(TotalMessage) /\ Len(order') = Len(order) + 1
      /\ order'[Len(order) + 1] = m
      /\ \A k \in 1 .. Len(order) : order'[k] = order[k]
  BY <1>1, <1>2
<1>4. \A a \in new : /\ a \in Assignment /\ a.to \in Node
                     /\ a.seq = Len(order) + 1 /\ a.msg = m
  BY <1>2 DEF Assignment
<1>5. TotalTypeOK'
  BY <1>1, <1>2, <1>3, <1>4 DEF TInv, TotalTypeOK
<1>6. DrawInv'
  <2>1. ASSUME NEW k \in 1 .. Len(order') PROVE order'[k] \in totalSent' \ toNumber'
    <3>1. CASE k = Len(order) + 1
      BY <1>1, <1>2, <1>3, <3>1
    <3>2. CASE k \in 1 .. Len(order)
      BY <1>1, <1>3, <3>2 DEF TInv, DrawInv
    <3>. QED BY <1>2, <1>3, <3>1, <3>2
  <2>. QED BY <1>1, <1>2, <1>3, <2>1 DEF DrawInv
<1>7. AssignmentInv'
  <2>1. ASSUME NEW a \in totalNet \cup totalLost
        PROVE a.seq \in 1 .. Len(order') /\ a.msg = order'[a.seq]
    BY <1>2, <1>3 DEF TInv, AssignmentInv
  <2>2. ASSUME NEW a \in new
        PROVE a.seq \in 1 .. Len(order') /\ a.msg = order'[a.seq]
    BY <1>2, <1>3, <1>4
  <2>. QED BY <1>1, <2>1, <2>2 DEF AssignmentInv
<1>8. TotalBufferInv'
  <2>1. ASSUME NEW n \in Node, NEW b \in totalBuffer[n]
        PROVE /\ b.to = n
              /\ b.seq \in expected[n] .. Len(order')
              /\ b.msg = order'[b.seq]
              /\ b.seq = expected[n] => totalFlushing[n]
    <3>1. /\ b.to = n /\ b.seq \in expected[n] .. Len(order)
          /\ b.msg = order[b.seq]
          /\ b.seq = expected[n] => totalFlushing[n]
      BY DEF TInv, TotalBufferInv
    <3>2. expected[n] \in Nat \ {0}
      BY DEF TInv, TotalTypeOK
    <3>. QED BY <1>2, <1>3, <3>1, <3>2
  <2>2. ASSUME NEW a \in new
        PROVE a.seq >= expected[a.to] /\ a \notin totalBuffer[a.to]
    <3>1. a.to \in Node /\ a.seq = Len(order) + 1
      BY <1>4
    <3>2. expected[a.to] <= Len(order) + 1 /\ expected[a.to] \in Nat
      BY <3>1 DEF TInv, TotalDeliveredInv, TotalTypeOK
    <3>3. \A b \in totalBuffer[a.to] : b.seq \in expected[a.to] .. Len(order)
      BY <3>1 DEF TInv, TotalBufferInv
    <3>. QED BY <1>2, <3>1, <3>2, <3>3
  <2>3. \A a \in totalNet : a.seq >= expected[a.to] /\ a \notin totalBuffer[a.to]
    BY DEF TInv, TotalBufferInv
  <2>. QED BY <1>1, <2>1, <2>2, <2>3 DEF TotalBufferInv
<1>9. TotalDeliveredInv'
  <2>1. ASSUME NEW n \in Node
        PROVE Len(totalDelivered[n]) = expected[n] - 1 /\ expected[n] <= Len(order) + 2
    BY <1>2 DEF TInv, TotalDeliveredInv, TotalTypeOK
  <2>. QED BY <1>1, <1>2, <1>3, <2>1 DEF TotalDeliveredInv
<1>10. NothingMissing'
  <2>1. ASSUME NEW n \in Node, NEW k \in expected[n] .. Len(order')
        PROVE \E a \in totalNet' \cup totalLost \cup totalBuffer[n] : a.to = n /\ a.seq = k
    <3>0. expected[n] \in Nat
      BY DEF TInv, TotalTypeOK
    <3>1. CASE k \in expected[n] .. Len(order)
      BY <1>1, <3>1 DEF TInv, NothingMissing
    <3>2. CASE k = Len(order) + 1
      <4>. DEFINE a == [to |-> n, seq |-> globalSeq + 1, msg |-> m]
      <4>1. a \in new /\ a.to = n /\ a.seq = k
        BY <1>2, <3>2
      <4>. QED BY <1>1, <4>1
    <3>. QED BY <1>2, <1>3, <3>0, <3>1, <3>2
  <2>. QED BY <1>1, <2>1 DEF NothingMissing
<1>. QED BY <1>5, <1>6, <1>7, <1>8, <1>9, <1>10 DEF TInv

LEMMA LosingKeepsTInv ==
  ASSUME TInv,
         \/ \E m \in toNumber : LoseRequest(m)
         \/ \E a \in totalNet : LoseAssignment(a)
  PROVE  TInv'
<1>1. /\ toNumber' \subseteq toNumber /\ totalNet' \subseteq totalNet
      /\ totalNet' \cup totalLost' = totalNet \cup totalLost
      /\ totalLost' \subseteq totalNet \cup totalLost
      /\ UNCHANGED <<totalSent, globalSeq, order, receiving>>
  BY DEF LoseRequest, LoseAssignment, assigning
<1>2. TotalTypeOK'
  BY <1>1 DEF TInv, TotalTypeOK, receiving
<1>3. DrawInv' /\ AssignmentInv' /\ TotalBufferInv' /\ TotalDeliveredInv'
  BY <1>1 DEF TInv, DrawInv, AssignmentInv, TotalBufferInv, TotalDeliveredInv, receiving
<1>4. NothingMissing'
  BY <1>1 DEF TInv, NothingMissing, receiving
<1>. QED BY <1>2, <1>3, <1>4 DEF TInv

\* Node n delivers the assignment a, from the network or from its buffer.
LEMMA DeliveryKeepsTInv ==
  ASSUME TInv, NEW n \in Node, NEW a \in totalNet \cup totalBuffer[n],
         a.to = n, IsNext(n, a), TotalDeliver(n, a),
         UNCHANGED <<assigning, totalLost>>,
         totalNet' = totalNet \ {a},
         totalBuffer' \in [Node -> SUBSET Assignment],
         totalBuffer'[n] = totalBuffer[n] \ {a},
         \A j \in Node \ {n} : totalBuffer'[j] = totalBuffer[j],
         totalFlushing' \in [Node -> BOOLEAN],
         totalFlushing'[n],
         \A j \in Node \ {n} : totalFlushing'[j] = totalFlushing[j]
  PROVE  TInv'
<1>1. /\ a \in Assignment /\ a.seq = expected[n]
      /\ a.seq \in 1 .. Len(order) /\ a.msg = order[a.seq]
      /\ expected[n] \in Nat \ {0} /\ Len(order) \in Nat
  BY DEF TInv, TotalTypeOK, AssignmentInv, TotalBufferInv, IsNext
<1>2. /\ expected' \in [Node -> Nat \ {0}]
      /\ expected'[n] = expected[n] + 1
      /\ \A j \in Node \ {n} : expected'[j] = expected[j]
  BY <1>1 DEF TInv, TotalTypeOK, TotalDeliver
<1>3. /\ totalDelivered' \in [Node -> Seq(TotalMessage)]
      /\ Len(totalDelivered'[n]) = Len(totalDelivered[n]) + 1
      /\ \A j \in Node \ {n} : totalDelivered'[j] = totalDelivered[j]
  <2>1. a.msg \in TotalMessage /\ totalDelivered[n] \in Seq(TotalMessage)
    BY <1>1 DEF Assignment, TInv, TotalTypeOK
  <2>. QED BY <2>1 DEF TInv, TotalTypeOK, TotalDeliver
<1>4. UNCHANGED <<totalSent, toNumber, globalSeq, order, totalLost>>
  BY DEF assigning
<1>5. ASSUME NEW b \in Assignment, b.to = n, b.seq = expected[n], b.msg = order[b.seq]
      PROVE  b = a
  BY <1>1, <1>5 DEF Assignment
<1>6. TotalTypeOK'
  BY <1>2, <1>3, <1>4 DEF TInv, TotalTypeOK
<1>7. DrawInv' /\ AssignmentInv'
  BY <1>4 DEF TInv, DrawInv, AssignmentInv
<1>8. TotalBufferInv'
  <2>1. ASSUME NEW j \in Node, NEW b \in totalBuffer'[j]
        PROVE /\ b.to = j
              /\ b.seq \in expected'[j] .. Len(order)
              /\ b.msg = order[b.seq]
              /\ b.seq = expected'[j] => totalFlushing'[j]
    <3>1. /\ b \in totalBuffer[j] /\ b.to = j /\ b.msg = order[b.seq]
          /\ b.seq \in expected[j] .. Len(order)
          /\ b.seq = expected[j] => totalFlushing[j]
      BY DEF TInv, TotalBufferInv
    <3>2. CASE j # n
      BY <1>2, <3>1, <3>2
    <3>3. CASE j = n
      <4>1. b \in Assignment /\ b # a
        BY <3>1, <3>3 DEF TInv, TotalTypeOK
      <4>2. b.seq # expected[n]
        BY <1>5, <3>1, <3>3, <4>1
      <4>. QED BY <1>1, <1>2, <3>1, <3>3, <4>2
    <3>. QED BY <3>2, <3>3
  <2>2. ASSUME NEW c \in totalNet'
        PROVE c.seq >= expected'[c.to] /\ c \notin totalBuffer'[c.to]
    <3>1. /\ c \in Assignment /\ c.to \in Node /\ c.seq \in Nat /\ c # a
          /\ c.seq >= expected[c.to] /\ c \notin totalBuffer[c.to]
          /\ c.msg = order[c.seq]
      BY DEF TInv, TotalTypeOK, TotalBufferInv, AssignmentInv, Assignment
    <3>2. CASE c.to # n
      BY <1>2, <3>1, <3>2
    <3>3. CASE c.to = n
      BY <1>1, <1>2, <1>5, <3>1, <3>3
    <3>. QED BY <3>2, <3>3
  <2>. QED BY <1>4, <2>1, <2>2 DEF TotalBufferInv
<1>9. TotalDeliveredInv'
  <2>1. ASSUME NEW j \in Node
        PROVE /\ Len(totalDelivered'[j]) = expected'[j] - 1
              /\ expected'[j] <= Len(order) + 1
    <3>1. Len(totalDelivered[j]) = expected[j] - 1 /\ expected[j] <= Len(order) + 1
      BY DEF TInv, TotalDeliveredInv
    <3>2. CASE j # n
      BY <1>2, <1>3, <3>1, <3>2
    <3>3. CASE j = n
      BY <1>1, <1>2, <1>3, <3>1, <3>3
    <3>. QED BY <3>2, <3>3
  <2>. QED BY <1>4, <2>1 DEF TotalDeliveredInv
<1>10. NothingMissing'
  <2>1. ASSUME NEW j \in Node, NEW k \in expected'[j] .. Len(order)
        PROVE \E b \in totalNet' \cup totalLost \cup totalBuffer'[j] :
                b.to = j /\ b.seq = k
    <3>0. expected[j] \in Nat /\ expected'[j] \in Nat
      BY <1>2 DEF TInv, TotalTypeOK
    <3>1. k \in expected[j] .. Len(order)
      <4>1. CASE j = n
        BY <1>1, <1>2, <3>0, <4>1
      <4>2. CASE j # n
        BY <1>2, <4>2
      <4>. QED BY <4>1, <4>2
    <3>2. PICK b \in totalNet \cup totalLost \cup totalBuffer[j] : b.to = j /\ b.seq = k
      BY <3>1 DEF TInv, NothingMissing
    <3>3. b # a
      BY <1>1, <1>2, <3>2
    <3>4. b \in totalNet' \cup totalLost \cup totalBuffer'[j]
      BY <3>2, <3>3
    <3>. QED BY <3>2, <3>4
  <2>. QED BY <1>4, <2>1 DEF NothingMissing
<1>. QED BY <1>6, <1>7, <1>8, <1>9, <1>10 DEF TInv

LEMMA AssignmentKeepsTInv ==
  ASSUME TInv, NEW n \in Node, NEW a \in totalNet, HandleSeqAssign(n, a)
  PROVE  TInv'
<1>1. /\ a.to = n /\ ~ totalFlushing[n] /\ totalNet' = totalNet \ {a}
      /\ UNCHANGED <<assigning, totalLost>>
  BY DEF HandleSeqAssign
<1>2. CASE /\ IsNext(n, a) /\ TotalDeliver(n, a)
           /\ totalFlushing' = [totalFlushing EXCEPT ![n] = TRUE]
           /\ UNCHANGED totalBuffer
  <2>1. /\ totalBuffer' \in [Node -> SUBSET Assignment]
        /\ totalBuffer'[n] = totalBuffer[n] \ {a}
    BY <1>1, <1>2 DEF TInv, TotalTypeOK, TotalBufferInv
  <2>2. /\ totalFlushing' \in [Node -> BOOLEAN] /\ totalFlushing'[n]
        /\ \A j \in Node \ {n} : totalFlushing'[j] = totalFlushing[j]
    BY <1>2 DEF TInv, TotalTypeOK
  <2>. QED BY <1>1, <1>2, <2>1, <2>2, DeliveryKeepsTInv
<1>3. CASE /\ ~ IsNext(n, a)
           /\ totalBuffer' = [totalBuffer EXCEPT ![n] = @ \cup {a}]
           /\ UNCHANGED <<expected, totalFlushing, totalDelivered>>
  <2>1. /\ a \in Assignment /\ a.seq \in expected[n] .. Len(order)
        /\ a.seq # expected[n] /\ a.msg = order[a.seq]
    BY <1>1, <1>3 DEF TInv, TotalTypeOK, AssignmentInv, TotalBufferInv, IsNext
  <2>2. /\ totalBuffer' \in [Node -> SUBSET Assignment]
        /\ totalBuffer'[n] = totalBuffer[n] \cup {a}
        /\ \A j \in Node \ {n} : totalBuffer'[j] = totalBuffer[j]
    BY <1>3, <2>1 DEF TInv, TotalTypeOK
  <2>3. TotalTypeOK' /\ DrawInv' /\ AssignmentInv' /\ TotalDeliveredInv'
    BY <1>1, <1>3, <2>2
    DEF TInv, TotalTypeOK, DrawInv, AssignmentInv, TotalDeliveredInv, assigning
  <2>4. TotalBufferInv'
    <3>1. ASSUME NEW j \in Node, NEW b \in totalBuffer'[j]
          PROVE /\ b.to = j /\ b.seq \in expected[j] .. Len(order)
                /\ b.msg = order[b.seq]
                /\ b.seq = expected[j] => totalFlushing[j]
      <4>1. b \in totalBuffer[j] \/ (j = n /\ b = a)
        BY <2>2
      <4>. QED BY <1>1, <2>1, <4>1 DEF TInv, TotalBufferInv
    <3>2. ASSUME NEW c \in totalNet'
          PROVE c.seq >= expected[c.to] /\ c \notin totalBuffer'[c.to]
      <4>1. c \in totalNet /\ c # a /\ c.to \in Node
        BY <1>1 DEF TInv, TotalTypeOK, Assignment
      <4>. QED BY <2>2, <4>1 DEF TInv, TotalBufferInv
    <3>. QED BY <1>1, <1>3, <3>1, <3>2 DEF TotalBufferInv, assigning
  <2>5. NothingMissing'
    <3>1. ASSUME NEW j \in Node, NEW k \in expected[j] .. Len(order)
          PROVE \E b \in totalNet' \cup totalLost \cup totalBuffer'[j] :
                  b.to = j /\ b.seq = k
      <4>1. PICK b \in totalNet \cup totalLost \cup totalBuffer[j] : b.to = j /\ b.seq = k
        BY DEF TInv, NothingMissing
      <4>2. b \in totalNet' \cup totalLost \cup totalBuffer'[j]
        BY <1>1, <2>2, <4>1
      <4>. QED BY <4>1, <4>2
    <3>. QED BY <1>1, <1>3, <3>1 DEF NothingMissing, assigning
  <2>. QED BY <2>3, <2>4, <2>5 DEF TInv
<1>. QED BY <1>2, <1>3 DEF HandleSeqAssign

LEMMA FlushKeepsTInv ==
  ASSUME TInv, NEW n \in Node, TotalFlush(n)
  PROVE  TInv'
<1>1. UNCHANGED <<assigning, totalNet, totalLost>> /\ totalFlushing[n]
  BY DEF TotalFlush
<1>2. ASSUME NEW a \in totalBuffer[n], IsNext(n, a), TotalDeliver(n, a),
             totalBuffer' = [totalBuffer EXCEPT ![n] = @ \ {a}],
             UNCHANGED totalFlushing
      PROVE  TInv'
  <2>1. a.to = n /\ a \notin totalNet
    BY DEF TInv, TotalBufferInv
  <2>2. /\ totalBuffer' \in [Node -> SUBSET Assignment]
        /\ totalBuffer'[n] = totalBuffer[n] \ {a}
        /\ \A j \in Node \ {n} : totalBuffer'[j] = totalBuffer[j]
    BY <1>2 DEF TInv, TotalTypeOK
  <2>3. totalFlushing' \in [Node -> BOOLEAN] /\ totalFlushing'[n]
    BY <1>1, <1>2 DEF TInv, TotalTypeOK
  <2>4. totalNet' = totalNet \ {a}
    BY <1>1, <2>1
  <2>. QED BY <1>1, <1>2, <2>1, <2>2, <2>3, <2>4, DeliveryKeepsTInv
<1>3. CASE /\ ~ MoreToFlush(n)
           /\ totalFlushing' = [totalFlushing EXCEPT ![n] = FALSE]
           /\ UNCHANGED <<expected, totalBuffer, totalDelivered>>
  <2>1. /\ totalFlushing' \in [Node -> BOOLEAN]
        /\ \A j \in Node \ {n} : totalFlushing'[j] = totalFlushing[j]
    BY <1>3 DEF TInv, TotalTypeOK
  <2>2. /\ TotalTypeOK' /\ DrawInv' /\ AssignmentInv' /\ TotalDeliveredInv'
        /\ NothingMissing'
    BY <1>1, <1>3, <2>1
    DEF TInv, TotalTypeOK, DrawInv, AssignmentInv, TotalDeliveredInv,
        NothingMissing, assigning
  <2>3. TotalBufferInv'
    <3>1. ASSUME NEW j \in Node, NEW b \in totalBuffer[j]
          PROVE b.seq = expected[j] => totalFlushing'[j]
      <4>1. CASE j = n
        BY <1>3, <4>1 DEF MoreToFlush
      <4>2. CASE j # n
        BY <2>1, <4>2 DEF TInv, TotalBufferInv
      <4>. QED BY <4>1, <4>2
    <3>. QED BY <1>1, <1>3, <3>1 DEF TInv, TotalBufferInv, assigning
  <2>. QED BY <2>2, <2>3 DEF TInv
<1>. QED BY <1>2, <1>3 DEF TotalFlush

-----------------------------------------------------------------------------

LEMMA TInvStart == TotalInit => TInv
<1>. SUFFICES ASSUME TotalInit PROVE TInv
  OBVIOUS
<1>1. Len(<< >>) = 0
  OBVIOUS
<1>. QED
  BY <1>1
  DEF TotalInit, TInv, TotalTypeOK, DrawInv, AssignmentInv, TotalBufferInv,
      TotalDeliveredInv, NothingMissing

LEMMA TInvStep == TInv /\ [TotalNext]_totalVars => TInv'
<1>. SUFFICES ASSUME TInv, [TotalNext]_totalVars PROVE TInv'
  OBVIOUS
<1>1. CASE \E n \in Node, d \in Data : TotalSend(n, d)
  BY <1>1, SendKeepsTInv
<1>2. CASE \E m \in toNumber : HandleTotalMsg(m)
  BY <1>2, NumberingKeepsTInv
<1>3. CASE \/ \E m \in toNumber : LoseRequest(m)
           \/ \E a \in totalNet : LoseAssignment(a)
  BY <1>3, LosingKeepsTInv
<1>4. CASE \E n \in Node, a \in totalNet : HandleSeqAssign(n, a)
  BY <1>4, AssignmentKeepsTInv
<1>5. CASE \E n \in Node : TotalFlush(n)
  BY <1>5, FlushKeepsTInv
<1>6. CASE UNCHANGED totalVars
  BY <1>6
  DEF totalVars, assigning, receiving, TInv, TotalTypeOK, DrawInv,
      AssignmentInv, TotalBufferInv, TotalDeliveredInv, NothingMissing
<1>. QED BY <1>1, <1>2, <1>3, <1>4, <1>5, <1>6 DEF TotalNext

LEMMA TInvAlways == TotalSpec => []TInv
BY TInvStart, TInvStep, PTL DEF TotalSpec

\* What a node holds back waits for a message that is under way or was lost
\* (_flush_buffer of TotalOrdering): the buffer is not empty, so the number
\* expected is drawn, and it is not in the buffer.
THEOREM TotalGapExplainedAlways == TotalSpec => []TotalGapExplained
<1>1. TInv => TotalGapExplained
  <2>. SUFFICES ASSUME TInv, NEW n \in Node,
                       totalBuffer[n] # {}, ~ totalFlushing[n]
                PROVE  \E a \in totalNet \cup totalLost :
                         a.to = n /\ a.seq = expected[n]
    BY DEF TotalGapExplained
  <2>1. PICK b \in totalBuffer[n] : b.seq \in expected[n] .. Len(order)
    BY DEF TInv, TotalBufferInv
  <2>2. expected[n] \in expected[n] .. Len(order)
    BY <2>1 DEF TInv, TotalTypeOK
  <2>3. PICK a \in totalNet \cup totalLost \cup totalBuffer[n] :
          a.to = n /\ a.seq = expected[n]
    BY <2>2 DEF TInv, NothingMissing
  <2>4. a \notin totalBuffer[n]
    BY <2>3 DEF TInv, TotalBufferInv
  <2>. QED BY <2>3, <2>4
<1>. QED BY <1>1, TInvAlways, PTL

-----------------------------------------------------------------------------
(* The refinement.                                                         *)

\* A node that delivers the next message delivers the next in the order.
LEMMA DeliveryRefines ==
  ASSUME TInv, NEW n \in Node, NEW a \in totalNet \cup totalBuffer[n],
         IsNext(n, a), TotalDeliver(n, a), UNCHANGED assigning
  PROVE  TO!TONext
<1>1. /\ a.seq = expected[n] /\ a.seq \in 1 .. Len(order)
      /\ a.msg = order[a.seq] /\ expected[n] \in Nat \ {0}
  BY DEF TInv, TotalTypeOK, AssignmentInv, TotalBufferInv, IsNext
<1>2. Len(totalDelivered[n]) = expected[n] - 1 /\ Len(order) \in Nat
  BY DEF TInv, TotalDeliveredInv, TotalTypeOK
<1>3. Len(totalDelivered[n]) < Len(order) /\ Len(totalDelivered[n]) + 1 = expected[n]
  BY <1>1, <1>2
<1>4. totalDelivered' = [totalDelivered EXCEPT ![n] = Append(@, order[Len(@) + 1])]
  BY <1>1, <1>3 DEF TotalDeliver
<1>. QED BY <1>3, <1>4 DEF TO!TONext, TO!Deliver, assigning

\* Total order by a sequencer implements TotalOrder: every message gets at
\* most one place and all nodes deliver along the order, leaving none out
\* (TotalOrdering of src/network/ordering.py as a whole).
THEOREM ImplementsTotalOrderAlways == TotalSpec => ImplementsTotalOrder
<1>1. TotalInit => TO!TOInit
  BY DEF TotalInit, TO!TOInit
<1>2. TInv /\ [TotalNext]_totalVars => [TO!TONext]_TO!toVars
  <2>. SUFFICES ASSUME TInv, [TotalNext]_totalVars PROVE [TO!TONext]_TO!toVars
    OBVIOUS
  <2>1. ASSUME NEW n \in Node, NEW d \in Data, TotalSend(n, d)
        PROVE TO!TONext
    <3>. DEFINE m == [origin |-> n, data |-> d]
    <3>1. m \in TotalMessage /\ TO!Send(m)
      BY <2>1 DEF TotalSend, TotalMessage, TO!Send, receiving
    <3>. QED BY <3>1 DEF TO!TONext
  <2>2. ASSUME NEW m \in toNumber, HandleTotalMsg(m)
        PROVE TO!TONext
    <3>1. m \in TotalMessage /\ m \in totalSent
      BY DEF TInv, TotalTypeOK
    <3>2. \A k \in 1 .. Len(order) : order[k] # m
      BY DEF TInv, DrawInv
    <3>. QED BY <2>2, <3>1, <3>2 DEF HandleTotalMsg, TO!TONext, TO!Place, receiving
  <2>3. ASSUME NEW n \in Node, NEW a \in totalNet, HandleSeqAssign(n, a)
        PROVE [TO!TONext]_TO!toVars
    BY <2>3, DeliveryRefines DEF HandleSeqAssign, TO!toVars, assigning
  <2>4. ASSUME NEW n \in Node, TotalFlush(n)
        PROVE [TO!TONext]_TO!toVars
    BY <2>4, DeliveryRefines DEF TotalFlush, TO!toVars, assigning
  <2>5. CASE \/ \E m \in toNumber : LoseRequest(m)
             \/ \E a \in totalNet : LoseAssignment(a)
             \/ UNCHANGED totalVars
    BY <2>5 DEF LoseRequest, LoseAssignment, totalVars, TO!toVars, assigning, receiving
  <2>. QED BY <2>1, <2>2, <2>3, <2>4, <2>5 DEF TotalNext
<1>. QED BY <1>1, <1>2, TInvAlways, PTL DEF TotalSpec, TO!TOSpec, ImplementsTotalOrder

-----------------------------------------------------------------------------
(* Causal order.                                                            *)

\* The messages that a vector counts.
Upto(v) == {id \in Node \X Nat : id[2] \in 1 .. v[id[1]]}

\* The vector of a node, and of a message, counts what its past holds.
PastInv ==
  /\ \A n \in Node : past[n] = Upto(vc[n])
  /\ \A m \in causalSent :
       m.past = Upto(m.vc) \ {Id(m)} /\ IsFiniteSet(m.past) /\ m.vc[m.from] >= 1
  /\ \A n \in Node : IsFiniteSet(past[n])

\* Nobody counts more messages of a node than it has sent.
CountInv ==
  \A k \in Node :
    /\ \A n \in Node : vc[n][k] <= vc[k][k]
    /\ \A m \in causalSent : m.vc[k] <= vc[k][k]

\* Who counts a message counts all that its sender counted.
ClosedInv ==
  \A a \in causalSent :
    /\ \A n \in Node : a.vc[a.from] <= vc[n][a.from] => \A k \in Node : a.vc[k] <= vc[n][k]
    /\ \A b \in causalSent : a.vc[a.from] <= b.vc[a.from] => \A k \in Node : a.vc[k] <= b.vc[k]

\* Of two messages of different nodes one does not count the other.
AcyclicInv ==
  \A a, b \in causalSent : a.from # b.from =>
    a.vc[a.from] > b.vc[a.from] \/ b.vc[b.from] > a.vc[b.from]

\* A node counts the messages that it has delivered, and of those addressed to
\* it no others.
CausalDeliveredInv ==
  /\ \A n \in Node : \A m \in causalDelivered[n] : m \in causalSent /\ m.to = n
  /\ \A m \in causalSent :
       m.from # m.to /\ (m \in causalDelivered[m.to] <=> m.vc[m.from] <= vc[m.to][m.from])

\* A message is under way or held back once, and is not delivered then.
CausalBufferInv ==
  \A n \in Node :
    /\ \A i \in DOMAIN causalBuffer[n] :
         LET m == causalBuffer[n][i] IN
         m \in causalSent \ causalNet /\ m.to = n /\ m \notin causalDelivered[n]
    /\ \A i, j \in DOMAIN causalBuffer[n] : causalBuffer[n][i] = causalBuffer[n][j] => i = j

CausalNetInv == \A m \in causalNet : m \notin causalDelivered[m.to]

\* What is held back after a flush is not ready.
FlushedInv == \A n \in Node : scan[n] = 0 => Ready(n) = {}

CausalInv ==
  CausalTypeOK /\ PastInv /\ CountInv /\ ClosedInv /\ AcyclicInv
  /\ CausalDeliveredInv /\ CausalBufferInv /\ CausalNetInv /\ FlushedInv

-----------------------------------------------------------------------------
(* Vectors.                                                                *)

LEMMA UptoHas ==
  ASSUME NEW v \in Vector, NEW k \in Node, NEW j \in Nat
  PROVE  <<k, j>> \in Upto(v) <=> 1 <= j /\ j <= v[k]
BY DEF Upto, Vector

LEMMA UptoElement ==
  ASSUME NEW v \in Vector, NEW id \in Upto(v)
  PROVE  id[1] \in Node /\ id[2] \in Nat /\ id = <<id[1], id[2]>>
BY DEF Upto

LEMMA UptoGrows ==
  ASSUME NEW v \in Vector, NEW w \in Vector, \A k \in Node : v[k] <= w[k]
  PROVE  Upto(v) \subseteq Upto(w)
<1>1. ASSUME NEW id \in Upto(v) PROVE id \in Upto(w)
  <2>1. id[1] \in Node /\ id[2] \in Nat /\ id = <<id[1], id[2]>>
    BY UptoElement
  <2>2. v[id[1]] \in Nat /\ w[id[1]] \in Nat /\ v[id[1]] <= w[id[1]]
    BY <2>1 DEF Vector
  <2>3. 1 <= id[2] /\ id[2] <= v[id[1]]
    BY <2>1, UptoHas
  <2>4. 1 <= id[2] /\ id[2] <= w[id[1]]
    BY <2>1, <2>2, <2>3
  <2>. QED BY <2>1, <2>4, UptoHas
<1>. QED BY <1>1

LEMMA IncrementIs ==
  ASSUME NEW v \in Vector, NEW n \in Node
  PROVE  /\ Increment(v, n) \in Vector
         /\ Increment(v, n)[n] = v[n] + 1
         /\ \A k \in Node \ {n} : Increment(v, n)[k] = v[k]
BY DEF Increment, Vector

\* A vector that counts one more message of n counts this message besides.
LEMMA UptoIncrement ==
  ASSUME NEW v \in Vector, NEW n \in Node
  PROVE  /\ Upto(Increment(v, n)) = Upto(v) \cup {<<n, v[n] + 1>>}
         /\ <<n, v[n] + 1>> \notin Upto(v)
<1>. DEFINE w == Increment(v, n)
<1>1. w \in Vector /\ w[n] = v[n] + 1 /\ \A k \in Node \ {n} : w[k] = v[k]
  BY IncrementIs
<1>2. \A k \in Node : v[k] \in Nat /\ w[k] \in Nat
  BY <1>1 DEF Vector
<1>. HIDE DEF w
<1>3. \A k \in Node : v[k] <= w[k]
  BY <1>1, <1>2
<1>4. Upto(v) \subseteq Upto(w)
  BY <1>1, <1>3, UptoGrows
<1>5. v[n] + 1 \in Nat /\ 1 <= v[n] + 1 /\ v[n] + 1 <= w[n] /\ ~ (v[n] + 1 <= v[n])
  BY <1>1, <1>2
<1>6. <<n, v[n] + 1>> \in Upto(w) /\ <<n, v[n] + 1>> \notin Upto(v)
  BY <1>1, <1>5, UptoHas
<1>7. ASSUME NEW id \in Upto(w), id \notin Upto(v) PROVE id = <<n, v[n] + 1>>
  <2>1. id[1] \in Node /\ id[2] \in Nat /\ id = <<id[1], id[2]>>
    BY <1>1, UptoElement
  <2>2. 1 <= id[2] /\ id[2] <= w[id[1]]
    BY <1>1, <2>1, UptoHas
  <2>3. ~ (id[2] <= v[id[1]])
    BY <1>7, <2>1, <2>2, UptoHas
  <2>4. id[1] = n
    BY <1>1, <2>1, <2>2, <2>3
  <2>5. id[2] = v[n] + 1
    BY <1>1, <1>2, <2>1, <2>2, <2>3, <2>4
  <2>. QED BY <2>1, <2>4, <2>5
<1>. QED BY <1>4, <1>6, <1>7 DEF w

LEMMA MergeIs ==
  ASSUME NEW v \in Vector, NEW w \in Vector
  PROVE  /\ Merge(v, w) \in Vector
         /\ \A k \in Node : /\ v[k] <= Merge(v, w)[k] /\ w[k] <= Merge(v, w)[k]
                            /\ Merge(v, w)[k] = v[k] \/ Merge(v, w)[k] = w[k]
BY DEF Merge, Vector

\* The merged vector counts what one of the two counts.
LEMMA UptoMerge ==
  ASSUME NEW v \in Vector, NEW w \in Vector
  PROVE  Upto(Merge(v, w)) = Upto(v) \cup Upto(w)
<1>1. /\ Merge(v, w) \in Vector
      /\ \A k \in Node : /\ v[k] <= Merge(v, w)[k] /\ w[k] <= Merge(v, w)[k]
                         /\ Merge(v, w)[k] = v[k] \/ Merge(v, w)[k] = w[k]
  BY MergeIs
<1>2. Upto(v) \subseteq Upto(Merge(v, w)) /\ Upto(w) \subseteq Upto(Merge(v, w))
  BY <1>1, UptoGrows
<1>3. ASSUME NEW id \in Upto(Merge(v, w)) PROVE id \in Upto(v) \cup Upto(w)
  <2>1. id[1] \in Node /\ id[2] \in Nat /\ id = <<id[1], id[2]>>
    BY <1>1, UptoElement
  <2>2. 1 <= id[2] /\ id[2] <= Merge(v, w)[id[1]]
    BY <1>1, <2>1, UptoHas
  <2>3. 1 <= id[2] /\ (id[2] <= v[id[1]] \/ id[2] <= w[id[1]])
    BY <1>1, <2>1, <2>2
  <2>. QED BY <2>1, <2>3, UptoHas
<1>. QED BY <1>2, <1>3

-----------------------------------------------------------------------------
(* Messages.                                                               *)

LEMMA MessageType ==
  ASSUME CausalTypeOK, NEW m \in causalSent
  PROVE  /\ m \in CausalMessage
         /\ m.from \in Node /\ m.to \in Node /\ m.vc \in Vector
         /\ m.past \in SUBSET (Node \X Nat)
         /\ \A k \in Node : m.vc[k] \in Nat
         /\ Id(m) = <<m.from, m.vc[m.from]>>
BY DEF CausalTypeOK, CausalMessage, Vector, Id

LEMMA NodeType ==
  ASSUME CausalTypeOK, NEW n \in Node
  PROVE  /\ vc[n] \in Vector
         /\ \A k \in Node : vc[n][k] \in Nat
BY DEF CausalTypeOK, Vector

\* Two messages of one node with the same number have one vector.
LEMMA SameVector ==
  ASSUME CausalInv, NEW a \in causalSent, NEW b \in causalSent, Id(a) = Id(b)
  PROVE  a.from = b.from /\ a.vc = b.vc /\ a.past = b.past
<1>1. /\ a.from \in Node /\ b.from \in Node /\ a.vc \in Vector /\ b.vc \in Vector
      /\ \A k \in Node : a.vc[k] \in Nat /\ b.vc[k] \in Nat
  BY MessageType DEF CausalInv
<1>2. a.from = b.from /\ a.vc[a.from] = b.vc[b.from]
  BY DEF Id
<1>3. \A k \in Node : a.vc[k] <= b.vc[k]
  BY <1>1, <1>2 DEF CausalInv, ClosedInv
<1>4. \A k \in Node : b.vc[k] <= a.vc[k]
  BY <1>1, <1>2 DEF CausalInv, ClosedInv
<1>5. \A k \in Node : a.vc[k] = b.vc[k]
  BY <1>1, <1>3, <1>4
<1>6. a.vc = b.vc
  BY <1>1, <1>5 DEF Vector
<1>. QED BY <1>2, <1>6 DEF CausalInv, PastInv

\* They are the same message when they have the same receiver.
LEMMA SameMessage ==
  ASSUME CausalInv, NEW a \in causalSent, NEW b \in causalSent, Id(a) = Id(b), a.to = b.to
  PROVE  a = b
<1>1. a \in CausalMessage /\ b \in CausalMessage
  BY MessageType DEF CausalInv
<1>2. a.from = b.from /\ a.vc = b.vc /\ a.past = b.past
  BY SameVector
<1>. QED BY <1>1, <1>2 DEF CausalMessage

-----------------------------------------------------------------------------
(* Naturals and sequences.                                                 *)

LEMMA Least ==
  ASSUME NEW T \in SUBSET Nat, T # {}
  PROVE  \E x \in T : \A y \in T : x <= y
<1>. DEFINE R == OpToRel(<, Nat)
<1>1. IsWellFoundedOn(R, Nat)
  BY NatLessThanWellFounded
<1>2. ASSUME NEW x \in Nat, NEW y \in Nat PROVE <<x, y>> \in R <=> x < y
  BY DEF OpToRel
<1>. HIDE DEF R
<1>3. \E x \in T : \A y \in T : ~ (<<y, x>> \in R)
  BY <1>1, WFMin
<1>4. PICK x \in T : \A y \in T : ~ (<<y, x>> \in R)
  BY <1>3
<1>5. ASSUME NEW y \in T PROVE x <= y
  <2>1. ~ (y < x)
    BY <1>2, <1>4
  <2>. QED BY <2>1
<1>. QED BY <1>5

LEMMA MinIs ==
  ASSUME NEW T \in SUBSET Nat, T # {}
  PROVE  Min(T) \in T
BY Least DEF Min

LEMMA RemoveAtIs ==
  ASSUME NEW S, NEW s \in Seq(S), NEW i \in 1 .. Len(s)
  PROVE  /\ RemoveAt(s, i) \in Seq(S)
         /\ Len(RemoveAt(s, i)) = Len(s) - 1
         /\ \A j \in 1 .. Len(s) - 1 :
              RemoveAt(s, i)[j] = s[IF j < i THEN j ELSE j + 1]
<1>. DEFINE a == SubSeq(s, 1, i - 1)
            b == SubSeq(s, i + 1, Len(s))
<1>1. a \in Seq(S) /\ Len(a) = i - 1 /\ \A j \in 1 .. i - 1 : a[j] = s[j]
  OBVIOUS
<1>2. b \in Seq(S) /\ Len(b) = Len(s) - i /\ \A j \in 1 .. Len(s) - i : b[j] = s[i + j]
  OBVIOUS
<1>3. RemoveAt(s, i) = a \o b
  BY DEF RemoveAt
<1>. HIDE DEF a, b
<1>4. a \o b \in Seq(S) /\ Len(a \o b) = Len(s) - 1
  <2>. a \in Seq(S) /\ b \in Seq(S)
    BY <1>1, <1>2
  <2>1. a \o b \in Seq(S) /\ Len(a \o b) = Len(a) + Len(b)
    OBVIOUS
  <2>2. (i - 1) + (Len(s) - i) = Len(s) - 1
    OBVIOUS
  <2>. QED BY <1>1, <1>2, <2>1, <2>2
<1>5. ASSUME NEW j \in 1 .. Len(s) - 1
      PROVE (a \o b)[j] = s[IF j < i THEN j ELSE j + 1]
  <2>1. CASE j < i
    BY <1>1, <1>2, <2>1
  <2>2. CASE ~ (j < i)
    <3>1. (a \o b)[j] = b[j - (i - 1)]
      BY <1>1, <1>2, <2>2
    <3>2. j - (i - 1) \in 1 .. Len(s) - i /\ i + (j - (i - 1)) = j + 1
      BY <2>2
    <3>. QED BY <1>2, <2>2, <3>1, <3>2
  <2>. QED BY <2>1, <2>2
<1>. QED BY <1>3, <1>4, <1>5

-----------------------------------------------------------------------------
(* A step keeps the invariant.                                             *)

LEMMA CausalInitInv == CausalInit => CausalInv
<1>. SUFFICES ASSUME CausalInit PROVE CausalInv
  OBVIOUS
<1>1. /\ ZeroVector \in Vector /\ \A k \in Node : ZeroVector[k] = 0
      /\ vc = [n \in Node |-> ZeroVector] /\ \A n \in Node : vc[n] = ZeroVector
  BY DEF CausalInit, ZeroVector, Vector
<1>2. CausalTypeOK
  BY <1>1 DEF CausalInit, CausalTypeOK
<1>3. Upto(ZeroVector) = {}
  <2>1. ASSUME NEW id \in Upto(ZeroVector) PROVE FALSE
    <3>1. id[1] \in Node /\ id[2] \in Nat /\ id = <<id[1], id[2]>>
      BY <1>1, UptoElement
    <3>2. 1 <= id[2] /\ id[2] <= 0
      BY <1>1, <3>1, UptoHas
    <3>. QED BY <3>1, <3>2
  <2>. QED BY <2>1
<1>4. PastInv
  BY <1>1, <1>3, FS_EmptySet DEF CausalInit, PastInv
<1>5. CountInv /\ ClosedInv /\ AcyclicInv
  BY <1>1 DEF CausalInit, CountInv, ClosedInv, AcyclicInv
<1>6. CausalDeliveredInv /\ CausalBufferInv /\ CausalNetInv /\ FlushedInv
  BY DEF CausalInit, CausalDeliveredInv, CausalBufferInv, CausalNetInv, FlushedInv, Ready
<1>. QED BY <1>2, <1>4, <1>5, <1>6 DEF CausalInv

LEMMA CallKeepsCausalInv ==
  ASSUME CausalInv, NEW n \in Node, NEW targets \in SUBSET (Node \ {n}),
         CausalCall(n, targets)
  PROVE  CausalInv'
<1>. DEFINE s == Stamp(n)
            new == [from : {n}, to : targets, vc : {s}, past : {past[n]}]
<1>1. /\ vc' = [vc EXCEPT ![n] = Increment(@, n)]
      /\ past' = [past EXCEPT ![n] = @ \cup {<<n, s[n]>>}]
      /\ causalSent' = causalSent \cup new
      /\ causalNet' = causalNet \cup new
      /\ UNCHANGED <<causalBuffer, scan, causalDelivered, causalLost>>
  BY DEF CausalCall
<1>2. /\ vc[n] \in Vector /\ s \in Vector /\ s[n] = vc[n][n] + 1
      /\ \A k \in Node \ {n} : s[k] = vc[n][k]
  BY NodeType, IncrementIs DEF CausalInv, Stamp
<1>3. /\ vc' \in [Node -> Vector] /\ vc'[n] = s
      /\ \A j \in Node \ {n} : vc'[j] = vc[j]
  BY <1>1, <1>2 DEF CausalInv, CausalTypeOK, Stamp
<1>4. \A j, k \in Node : vc[j][k] \in Nat /\ vc'[j][k] \in Nat /\ s[k] \in Nat
  BY <1>2, <1>3, NodeType DEF CausalInv, Vector
<1>5. /\ past[n] \in SUBSET (Node \X Nat)
      /\ past' \in [Node -> SUBSET (Node \X Nat)]
      /\ past'[n] = past[n] \cup {<<n, s[n]>>}
      /\ \A j \in Node \ {n} : past'[j] = past[j]
  BY <1>1, <1>4 DEF CausalInv, CausalTypeOK
<1>6. \A m \in new : /\ m \in CausalMessage
                     /\ m.from = n /\ m.to \in targets /\ m.vc = s /\ m.past = past[n]
                     /\ Id(m) = <<n, s[n]>>
  BY <1>2, <1>5 DEF CausalMessage, Id
<1>. HIDE DEF s, new
<1>7. \A m \in causalSent : /\ m.from \in Node /\ m.to \in Node /\ m.vc \in Vector
                            /\ \A k \in Node : m.vc[k] \in Nat
  BY MessageType DEF CausalInv
<1>8. \A m \in causalSent : m.vc[n] <= vc[n][n]
  BY DEF CausalInv, CountInv
<1>9. \A j \in Node : vc[j][n] <= vc[n][n]
  BY DEF CausalInv, CountInv
<1>10. ASSUME NEW m \in causalSent PROVE ~ (s[n] <= m.vc[n]) /\ m \notin new
  <2>1. m.vc[n] <= vc[n][n] /\ m.vc[n] \in Nat /\ vc[n][n] \in Nat
    BY <1>4, <1>7, <1>8
  <2>. QED BY <1>2, <1>6, <2>1
<1>11. CausalTypeOK'
  BY <1>1, <1>3, <1>5, <1>6 DEF CausalInv, CausalTypeOK
<1>12. PastInv'
  <2>1. Upto(s) = Upto(vc[n]) \cup {<<n, s[n]>>} /\ <<n, s[n]>> \notin Upto(vc[n])
    BY <1>2, UptoIncrement DEF s, Stamp
  <2>2. past[n] = Upto(vc[n]) /\ IsFiniteSet(past[n])
    BY DEF CausalInv, PastInv
  <2>3. \A j \in Node : past'[j] = Upto(vc'[j])
    BY <1>3, <1>5, <2>1, <2>2 DEF CausalInv, PastInv
  <2>4. \A j \in Node : IsFiniteSet(past'[j])
    <3>1. IsFiniteSet(past[n] \cup {<<n, s[n]>>})
      BY <2>2, FS_AddElement
    <3>2. \A j \in Node : IsFiniteSet(past[j])
      BY DEF CausalInv, PastInv
    <3>. QED BY <1>5, <3>1, <3>2
  <2>5. \A m \in new : m.past = Upto(m.vc) \ {Id(m)} /\ IsFiniteSet(m.past) /\ m.vc[m.from] >= 1
    BY <1>2, <1>4, <1>6, <2>1, <2>2
  <2>. QED BY <1>1, <2>3, <2>4, <2>5 DEF CausalInv, PastInv
<1>13. CountInv'
  <2>1. ASSUME NEW k \in Node PROVE vc[k][k] <= vc'[k][k]
    BY <1>2, <1>3, <1>4
  <2>2. ASSUME NEW j \in Node, NEW k \in Node PROVE vc'[j][k] <= vc'[k][k]
    <3>1. vc[j][k] <= vc[k][k]
      BY DEF CausalInv, CountInv
    <3>2. vc'[j][k] = vc[j][k] \/ (j = n /\ k = n)
      BY <1>2, <1>3
    <3>. QED BY <1>4, <2>1, <3>1, <3>2
  <2>3. ASSUME NEW m \in causalSent, NEW k \in Node PROVE m.vc[k] <= vc'[k][k]
    <3>1. m.vc[k] <= vc[k][k]
      BY DEF CausalInv, CountInv
    <3>. QED BY <1>4, <1>7, <2>1, <3>1
  <2>4. ASSUME NEW m \in new, NEW k \in Node PROVE m.vc[k] <= vc'[k][k]
    BY <1>3, <1>6, <2>2
  <2>. QED BY <1>1, <2>2, <2>3, <2>4 DEF CountInv
<1>14. ClosedInv'
  <2>1. ASSUME NEW a \in causalSent, a.vc[a.from] <= s[a.from], NEW k \in Node
        PROVE  a.vc[k] <= s[k]
    <3>1. a.vc[a.from] <= vc[n][a.from]
      BY <1>2, <1>7, <1>8, <2>1
    <3>2. a.vc[k] <= vc[n][k]
      BY <3>1 DEF CausalInv, ClosedInv
    <3>3. vc[n][k] <= s[k]
      BY <1>2, <1>4
    <3>. QED BY <1>4, <1>7, <3>2, <3>3
  <2>2. ASSUME NEW a \in causalSent, NEW j \in Node, a.vc[a.from] <= vc'[j][a.from],
               NEW k \in Node
        PROVE  a.vc[k] <= vc'[j][k]
    <3>1. CASE j = n
      BY <1>3, <2>1, <2>2, <3>1
    <3>2. CASE j # n
      BY <1>3, <2>2, <3>2 DEF CausalInv, ClosedInv
    <3>. QED BY <3>1, <3>2
  <2>3. ASSUME NEW a \in new, NEW j \in Node, a.vc[a.from] <= vc'[j][a.from],
               NEW k \in Node
        PROVE  a.vc[k] <= vc'[j][k]
    <3>1. s[n] <= vc'[j][n]
      BY <1>6, <2>3
    <3>2. j = n
      BY <1>2, <1>3, <1>4, <1>9, <3>1
    <3>. QED BY <1>3, <1>4, <1>6, <3>2
  <2>4. ASSUME NEW a \in causalSent, NEW b \in causalSent, a.vc[a.from] <= b.vc[a.from],
               NEW k \in Node
        PROVE  a.vc[k] <= b.vc[k]
    BY <2>4 DEF CausalInv, ClosedInv
  <2>5. ASSUME NEW a \in causalSent, NEW b \in new, a.vc[a.from] <= b.vc[a.from],
               NEW k \in Node
        PROVE  a.vc[k] <= b.vc[k]
    BY <1>6, <2>1, <2>5
  <2>6. ASSUME NEW a \in new, NEW b \in causalSent, a.vc[a.from] <= b.vc[a.from]
        PROVE  FALSE
    BY <1>6, <1>10, <2>6
  <2>7. ASSUME NEW a \in new, NEW b \in new, NEW k \in Node PROVE a.vc[k] <= b.vc[k]
    BY <1>4, <1>6
  <2>8. ASSUME NEW a \in causalSent \cup new, NEW b \in causalSent \cup new,
               a.vc[a.from] <= b.vc[a.from], NEW k \in Node
        PROVE  a.vc[k] <= b.vc[k]
    BY <2>4, <2>5, <2>6, <2>7, <2>8
  <2>. QED BY <1>1, <2>2, <2>3, <2>8 DEF ClosedInv
<1>15. AcyclicInv'
  <2>1. ASSUME NEW a \in causalSent, NEW b \in new, a.from # b.from
        PROVE  b.vc[b.from] > a.vc[b.from]
    <3>1. a.vc[n] <= vc[n][n] /\ a.vc[n] \in Nat /\ vc[n][n] \in Nat /\ s[n] = vc[n][n] + 1
      BY <1>2, <1>4, <1>7, <1>8
    <3>2. s[n] > a.vc[n]
      BY <3>1
    <3>. QED BY <1>6, <3>2
  <2>2. \A a, b \in new : a.from = b.from
    BY <1>6
  <2>3. ASSUME NEW a \in causalSent \cup new, NEW b \in causalSent \cup new, a.from # b.from
        PROVE  a.vc[a.from] > b.vc[a.from] \/ b.vc[b.from] > a.vc[b.from]
    BY <2>1, <2>2, <2>3 DEF CausalInv, AcyclicInv
  <2>. QED BY <1>1, <2>3 DEF AcyclicInv
<1>16. CausalDeliveredInv'
  <2>1. \A j \in Node : \A m \in causalDelivered'[j] : m \in causalSent' /\ m.to = j
    BY <1>1 DEF CausalInv, CausalDeliveredInv
  <2>2. ASSUME NEW m \in causalSent
        PROVE  /\ m.from # m.to
               /\ m \in causalDelivered'[m.to] <=> m.vc[m.from] <= vc'[m.to][m.from]
    <3>1. /\ m.from # m.to
          /\ m \in causalDelivered[m.to] <=> m.vc[m.from] <= vc[m.to][m.from]
      BY DEF CausalInv, CausalDeliveredInv
    <3>2. vc'[m.to][m.from] = vc[m.to][m.from]
      BY <1>2, <1>3, <1>7, <3>1
    <3>. QED BY <1>1, <3>1, <3>2
  <2>3. ASSUME NEW m \in new
        PROVE  /\ m.from # m.to /\ m \notin causalDelivered'[m.to]
               /\ ~ (m.vc[m.from] <= vc'[m.to][m.from])
    <3>1. m.to \in Node \ {n} /\ m.from = n
      BY <1>6
    <3>2. m \notin causalDelivered[m.to]
      BY <1>10, <3>1 DEF CausalInv, CausalDeliveredInv
    <3>3. vc'[m.to][n] = vc[m.to][n] /\ vc[m.to][n] <= vc[n][n]
      BY <1>3, <1>9, <3>1
    <3>4. ~ (s[n] <= vc'[m.to][n])
      BY <1>2, <1>4, <3>1, <3>3
    <3>. QED BY <1>1, <1>6, <3>1, <3>2, <3>4
  <2>. QED BY <1>1, <2>1, <2>2, <2>3 DEF CausalDeliveredInv
<1>17. CausalBufferInv'
  BY <1>1, <1>10 DEF CausalInv, CausalBufferInv
<1>18. CausalNetInv'
  <2>1. \A m \in new : m.to \in Node /\ m \notin causalSent
    BY <1>6, <1>10
  <2>2. \A m \in new : m \notin causalDelivered[m.to]
    BY <2>1 DEF CausalInv, CausalDeliveredInv
  <2>. QED BY <1>1, <2>2 DEF CausalInv, CausalNetInv
<1>19. FlushedInv'
  <2>1. ASSUME NEW j \in Node, NEW m \in causalSent, m.to = j
        PROVE  CanDeliver(j, m)' <=> CanDeliver(j, m)
    <3>1. CASE j # n
      BY <1>3, <3>1 DEF CanDeliver
    <3>2. CASE j = n
      <4>1. m.from # n
        BY <2>1, <3>2 DEF CausalInv, CausalDeliveredInv
      <4>2. m.vc[n] <= vc[n][n] /\ m.vc[n] <= vc'[n][n]
        BY <1>2, <1>3, <1>4, <1>7, <1>8
      <4>3. \A k \in Node \ {n} : vc'[n][k] = vc[n][k]
        BY <1>2, <1>3
      <4>. QED BY <3>2, <4>1, <4>2, <4>3 DEF CanDeliver
    <3>. QED BY <3>1, <3>2
  <2>2. ASSUME NEW j \in Node, scan'[j] = 0, NEW i \in DOMAIN causalBuffer'[j]
        PROVE  ~ CanDeliver(j, causalBuffer[j][i])'
    <3>1. scan[j] = 0 /\ i \in DOMAIN causalBuffer[j] /\ causalBuffer' = causalBuffer
      BY <1>1, <2>2
    <3>2. causalBuffer[j][i] \in causalSent /\ causalBuffer[j][i].to = j
      BY <3>1 DEF CausalInv, CausalBufferInv
    <3>3. ~ CanDeliver(j, causalBuffer[j][i])
      BY <3>1 DEF CausalInv, FlushedInv, Ready
    <3>. QED BY <2>1, <3>1, <3>2, <3>3 DEF CanDeliver
  <2>. QED BY <2>2 DEF FlushedInv, Ready
<1>. QED BY <1>11, <1>12, <1>13, <1>14, <1>15, <1>16, <1>17, <1>18, <1>19 DEF CausalInv

LEMMA LoseKeepsCausalInv ==
  ASSUME CausalInv, NEW m \in causalNet, CausalLose(m)
  PROVE  CausalInv'
<1>1. /\ causalNet' = causalNet \ {m} /\ causalLost' = causalLost \cup {m}
      /\ UNCHANGED <<vc, causalBuffer, scan, causalDelivered, past, causalSent>>
  BY DEF CausalLose
<1>2. CausalTypeOK'
  BY <1>1 DEF CausalInv, CausalTypeOK
<1>3. PastInv' /\ CountInv' /\ ClosedInv' /\ AcyclicInv' /\ CausalDeliveredInv'
  BY <1>1 DEF CausalInv, PastInv, CountInv, ClosedInv, AcyclicInv, CausalDeliveredInv
<1>4. CausalBufferInv' /\ CausalNetInv'
  BY <1>1 DEF CausalInv, CausalBufferInv, CausalNetInv
<1>5. FlushedInv'
  BY <1>1 DEF CausalInv, FlushedInv, Ready, CanDeliver
<1>. QED BY <1>2, <1>3, <1>4, <1>5 DEF CausalInv

\* What a message that is not delivered has to be counted for.
LEMMA NotYetCounted ==
  ASSUME CausalInv, NEW m \in causalSent, m \notin causalDelivered[m.to]
  PROVE  m.vc[m.from] > vc[m.to][m.from]
<1>1. m.from \in Node /\ m.to \in Node /\ m.vc[m.from] \in Nat
  BY MessageType DEF CausalInv
<1>2. vc[m.to][m.from] \in Nat
  BY <1>1, NodeType DEF CausalInv
<1>3. ~ (m.vc[m.from] <= vc[m.to][m.from])
  BY DEF CausalInv, CausalDeliveredInv
<1>. QED BY <1>1, <1>2, <1>3

\* What a delivery alone changes, and what it does not.
LEMMA DeliveryKeeps ==
  ASSUME CausalInv, NEW n \in Node, NEW m \in causalSent,
         m.to = n, m \notin causalDelivered[n], CanDeliver(n, m), CausalDeliver(n, m),
         UNCHANGED causalSent
  PROVE  /\ vc' \in [Node -> Vector] /\ past' \in [Node -> SUBSET (Node \X Nat)]
         /\ causalDelivered' \in [Node -> SUBSET CausalMessage]
         /\ causalDelivered'[n] = causalDelivered[n] \cup {m}
         /\ \A j \in Node \ {n} : vc'[j] = vc[j] /\ causalDelivered'[j] = causalDelivered[j]
         /\ PastInv' /\ CountInv' /\ ClosedInv' /\ AcyclicInv' /\ CausalDeliveredInv'
<1>. DEFINE f == m.from
<1>1. /\ vc' = [vc EXCEPT ![n] = Merge(@, m.vc)]
      /\ causalDelivered' = [causalDelivered EXCEPT ![n] = @ \cup {m}]
      /\ past' = [past EXCEPT ![n] = @ \cup m.past \cup {Id(m)}]
  BY DEF CausalDeliver
<1>2. /\ m \in CausalMessage /\ f \in Node /\ m.vc \in Vector /\ m.past \in SUBSET (Node \X Nat)
      /\ Id(m) = <<f, m.vc[f]>> /\ \A k \in Node : m.vc[k] \in Nat
  BY MessageType DEF CausalInv
<1>3. vc[n] \in Vector /\ \A j, k \in Node : vc[j][k] \in Nat
  BY NodeType DEF CausalInv
<1>4. /\ vc' \in [Node -> Vector] /\ vc'[n] = Merge(vc[n], m.vc)
      /\ \A j \in Node \ {n} : vc'[j] = vc[j]
  BY <1>1, <1>2, <1>3, MergeIs DEF CausalInv, CausalTypeOK
<1>5. \A j, k \in Node : vc'[j][k] \in Nat
  BY <1>4 DEF Vector
<1>6. f # n
  BY DEF CausalInv, CausalDeliveredInv
<1>7. /\ m.vc[f] = vc[n][f] + 1
      /\ \A k \in Node \ {f} : m.vc[k] <= vc[n][k]
  BY <1>2 DEF CanDeliver
<1>. HIDE DEF f
<1>8. \A k \in Node : /\ vc[n][k] <= vc'[n][k] /\ m.vc[k] <= vc'[n][k]
                      /\ vc'[n][k] = vc[n][k] \/ vc'[n][k] = m.vc[k]
  BY <1>2, <1>3, <1>4, MergeIs
<1>9. vc'[n][f] = m.vc[f] /\ \A k \in Node \ {f} : vc'[n][k] = vc[n][k]
  <2>1. vc'[n][f] = m.vc[f]
    BY <1>2, <1>3, <1>7, <1>8
  <2>2. ASSUME NEW k \in Node \ {f} PROVE vc'[n][k] = vc[n][k]
    BY <1>2, <1>3, <1>7, <1>8
  <2>. QED BY <2>1, <2>2
<1>10. \A k \in Node : vc'[k][k] = vc[k][k]
  BY <1>4, <1>6, <1>9
<1>11. /\ past' \in [Node -> SUBSET (Node \X Nat)]
       /\ past'[n] = (past[n] \cup m.past) \cup {Id(m)}
       /\ \A j \in Node \ {n} : past'[j] = past[j]
  BY <1>1, <1>2 DEF CausalInv, CausalTypeOK
<1>12. /\ causalDelivered' \in [Node -> SUBSET CausalMessage]
       /\ causalDelivered'[n] = causalDelivered[n] \cup {m}
       /\ \A j \in Node \ {n} : causalDelivered'[j] = causalDelivered[j]
  BY <1>1, <1>2 DEF CausalInv, CausalTypeOK
<1>13. PastInv'
  <2>1. m.past = Upto(m.vc) \ {Id(m)} /\ IsFiniteSet(m.past) /\ m.vc[f] >= 1
    BY DEF CausalInv, PastInv, f
  <2>2. Id(m) \in Upto(m.vc)
    BY <1>2, <2>1, UptoHas
  <2>3. past[n] = Upto(vc[n]) /\ IsFiniteSet(past[n])
    BY DEF CausalInv, PastInv
  <2>4. past'[n] = Upto(vc'[n])
    BY <1>2, <1>3, <1>4, <1>11, <2>1, <2>2, <2>3, UptoMerge
  <2>5. IsFiniteSet(past[n] \cup m.past)
    BY <2>1, <2>3, FS_Union
  <2>6. IsFiniteSet((past[n] \cup m.past) \cup {Id(m)})
    BY <2>5, FS_AddElement
  <2>. QED BY <1>4, <1>11, <2>4, <2>6 DEF CausalInv, PastInv
<1>14. CountInv'
  <2>1. ASSUME NEW j \in Node, NEW k \in Node PROVE vc'[j][k] <= vc'[k][k]
    <3>1. vc[j][k] <= vc[k][k] /\ m.vc[k] <= vc[k][k]
      BY DEF CausalInv, CountInv
    <3>2. vc'[j][k] = vc[j][k] \/ vc'[j][k] = m.vc[k]
      BY <1>4, <1>8
    <3>. QED BY <1>10, <3>1, <3>2
  <2>2. \A k \in Node : \A a \in causalSent : a.vc[k] <= vc'[k][k]
    BY <1>10 DEF CausalInv, CountInv
  <2>. QED BY <2>1, <2>2 DEF CountInv
<1>15. ClosedInv'
  <2>1. ASSUME NEW a \in causalSent, NEW j \in Node, a.vc[a.from] <= vc'[j][a.from],
               NEW k \in Node
        PROVE  a.vc[k] <= vc'[j][k]
    <3>1. a.from \in Node /\ a.vc[k] \in Nat
      BY MessageType DEF CausalInv
    <3>2. CASE j # n
      BY <1>4, <2>1, <3>2 DEF CausalInv, ClosedInv
    <3>3. CASE j = n /\ a.vc[a.from] <= vc[n][a.from]
      <4>1. a.vc[k] <= vc[n][k]
        BY <3>3 DEF CausalInv, ClosedInv
      <4>. QED BY <1>3, <1>5, <1>8, <3>1, <3>3, <4>1
    <3>4. CASE j = n /\ a.vc[a.from] <= m.vc[a.from]
      <4>1. a.vc[k] <= m.vc[k]
        BY <3>4 DEF CausalInv, ClosedInv
      <4>. QED BY <1>2, <1>5, <1>8, <3>1, <3>4, <4>1
    <3>. QED BY <1>8, <2>1, <3>1, <3>2, <3>3, <3>4
  <2>. QED BY <2>1 DEF CausalInv, ClosedInv
<1>16. AcyclicInv'
  BY DEF CausalInv, AcyclicInv
<1>17. CausalDeliveredInv'
  <2>1. \A j \in Node : \A a \in causalDelivered'[j] : a \in causalSent' /\ a.to = j
    BY <1>12 DEF CausalInv, CausalDeliveredInv
  <2>2. ASSUME NEW a \in causalSent
        PROVE  a \in causalDelivered'[a.to] <=> a.vc[a.from] <= vc'[a.to][a.from]
    <3>1. a \in causalDelivered[a.to] <=> a.vc[a.from] <= vc[a.to][a.from]
      BY DEF CausalInv, CausalDeliveredInv
    <3>2. a.from \in Node /\ a.to \in Node /\ a.vc[a.from] \in Nat
          /\ Id(a) = <<a.from, a.vc[a.from]>>
      BY MessageType DEF CausalInv
    <3>3. CASE a.to # n
      BY <1>4, <1>12, <3>1, <3>2, <3>3
    <3>4. CASE a.to = n /\ a.from # f
      <4>1. a # m
        BY <3>4 DEF f
      <4>. QED BY <1>9, <1>12, <3>1, <3>2, <3>4, <4>1
    <3>5. CASE a.to = n /\ a.from = f
      <4>1. CASE a = m
        BY <1>4, <1>9, <1>12, <3>5, <4>1, <1>2, <1>5
      <4>2. CASE a # m
        <5>1. a.vc[f] # m.vc[f]
          BY <1>2, <3>2, <3>5, <4>2, SameMessage
        <5>2. a.vc[f] <= vc'[n][f] <=> a.vc[f] <= vc[n][f]
          BY <1>2, <1>3, <1>7, <1>9, <3>2, <3>5, <5>1
        <5>. QED BY <1>12, <3>1, <3>5, <4>2, <5>2
      <4>. QED BY <4>1, <4>2
    <3>. QED BY <3>3, <3>4, <3>5
  <2>3. \A a \in causalSent : a.from # a.to
    BY DEF CausalInv, CausalDeliveredInv
  <2>. QED BY <2>1, <2>2, <2>3 DEF CausalDeliveredInv
<1>. QED BY <1>4, <1>11, <1>12, <1>13, <1>14, <1>15, <1>16, <1>17

\* Elsewhere nothing becomes ready.
LEMMA FlushedElsewhere ==
  ASSUME CausalInv, NEW n \in Node,
         \A j \in Node \ {n} : /\ vc'[j] = vc[j] /\ scan'[j] = scan[j]
                               /\ causalBuffer'[j] = causalBuffer[j]
  PROVE  \A j \in Node \ {n} : scan'[j] = 0 => Ready(j)' = {}
BY DEF CausalInv, FlushedInv, Ready, CanDeliver

LEMMA HandleKeepsCausalInv ==
  ASSUME CausalInv, NEW n \in Node, NEW m \in causalNet, HandleCausal(n, m)
  PROVE  CausalInv'
<1>1. /\ m \in causalSent /\ m.to = n /\ scan[n] = 0 /\ causalNet' = causalNet \ {m}
      /\ UNCHANGED <<causalSent, causalLost>>
  BY DEF HandleCausal, CausalInv, CausalTypeOK
<1>2. m \notin causalDelivered[n]
  BY <1>1 DEF CausalInv, CausalNetInv
<1>3. \A i \in DOMAIN causalBuffer[n] : causalBuffer[n][i] # m
  BY DEF CausalInv, CausalBufferInv
<1>4. CASE /\ CanDeliver(n, m) /\ CausalDeliver(n, m)
           /\ scan' = [scan EXCEPT ![n] = 1] /\ UNCHANGED causalBuffer
  <2>1. /\ vc' \in [Node -> Vector] /\ past' \in [Node -> SUBSET (Node \X Nat)]
        /\ causalDelivered' \in [Node -> SUBSET CausalMessage]
        /\ causalDelivered'[n] = causalDelivered[n] \cup {m}
        /\ \A j \in Node \ {n} : vc'[j] = vc[j] /\ causalDelivered'[j] = causalDelivered[j]
        /\ PastInv' /\ CountInv' /\ ClosedInv' /\ AcyclicInv' /\ CausalDeliveredInv'
    BY <1>1, <1>2, <1>4, DeliveryKeeps
  <2>2. /\ scan' \in [Node -> Nat] /\ scan'[n] = 1
        /\ \A j \in Node \ {n} : scan'[j] = scan[j]
    BY <1>4 DEF CausalInv, CausalTypeOK
  <2>3. CausalTypeOK'
    BY <1>1, <1>4, <2>1, <2>2 DEF CausalInv, CausalTypeOK
  <2>4. CausalBufferInv'
    BY <1>1, <1>3, <1>4, <2>1 DEF CausalInv, CausalBufferInv
  <2>5. CausalNetInv'
    <3>1. ASSUME NEW x \in causalNet' PROVE x \notin causalDelivered'[x.to]
      <4>1. x \in causalNet /\ x # m /\ x.to \in Node /\ x \notin causalDelivered[x.to]
        BY <1>1, <3>1, MessageType DEF CausalInv, CausalTypeOK, CausalNetInv
      <4>. QED BY <2>1, <4>1
    <3>. QED BY <3>1 DEF CausalNetInv
  <2>6. FlushedInv'
    <3>1. \A j \in Node \ {n} : scan'[j] = 0 => Ready(j)' = {}
      BY <1>4, <2>1, <2>2, FlushedElsewhere
    <3>. QED BY <2>2, <3>1 DEF FlushedInv
  <2>. QED BY <2>1, <2>3, <2>4, <2>5, <2>6 DEF CausalInv
<1>5. CASE /\ ~ CanDeliver(n, m)
           /\ causalBuffer' = [causalBuffer EXCEPT ![n] = Append(@, m)]
           /\ UNCHANGED <<vc, causalDelivered, past, scan>>
  <2>1. causalBuffer[n] \in Seq(CausalMessage) /\ m \in CausalMessage
    BY <1>1, MessageType DEF CausalInv, CausalTypeOK
  <2>. DEFINE b == causalBuffer[n]
              c == Append(b, m)
  <2>2. /\ c \in Seq(CausalMessage) /\ DOMAIN b = 1 .. Len(b) /\ DOMAIN c = 1 .. Len(b) + 1
        /\ \A i \in 1 .. Len(b) : c[i] = b[i]
        /\ c[Len(b) + 1] = m /\ Len(b) \in Nat
    BY <2>1
  <2>3. /\ causalBuffer' \in [Node -> Seq(CausalMessage)] /\ causalBuffer'[n] = c
        /\ \A j \in Node \ {n} : causalBuffer'[j] = causalBuffer[j]
    BY <1>5, <2>2 DEF CausalInv, CausalTypeOK
  <2>. HIDE DEF c
  <2>4. CausalTypeOK'
    BY <1>1, <1>5, <2>3 DEF CausalInv, CausalTypeOK
  <2>5. PastInv' /\ CountInv' /\ ClosedInv' /\ AcyclicInv' /\ CausalDeliveredInv'
    BY <1>1, <1>5 DEF CausalInv, PastInv, CountInv, ClosedInv, AcyclicInv, CausalDeliveredInv
  <2>6. CausalNetInv'
    BY <1>1, <1>5 DEF CausalInv, CausalNetInv
  <2>7. ASSUME NEW i \in DOMAIN c
        PROVE  \/ i \in DOMAIN b /\ c[i] = b[i]
               \/ i = Len(b) + 1 /\ c[i] = m
    BY <2>2
  <2>8. CausalBufferInv'
    <3>1. \A i \in DOMAIN b : /\ b[i] \in causalSent \ causalNet /\ b[i].to = n
                              /\ b[i] \notin causalDelivered[n]
      BY DEF CausalInv, CausalBufferInv
    <3>2. \A i \in DOMAIN c : /\ c[i] \in causalSent \ causalNet' /\ c[i].to = n
                              /\ c[i] \notin causalDelivered[n]
      BY <1>1, <1>2, <2>7, <3>1
    <3>3. \A i, j \in DOMAIN b : b[i] = b[j] => i = j
      BY DEF CausalInv, CausalBufferInv
    <3>4. \A i, j \in DOMAIN c : c[i] = c[j] => i = j
      BY <1>3, <2>7, <3>3
    <3>5. \A j \in Node \ {n} :
            /\ \A i \in DOMAIN causalBuffer[j] :
                 /\ causalBuffer[j][i] \in causalSent \ causalNet
                 /\ causalBuffer[j][i].to = j /\ causalBuffer[j][i] \notin causalDelivered[j]
            /\ \A i, k \in DOMAIN causalBuffer[j] :
                 causalBuffer[j][i] = causalBuffer[j][k] => i = k
      BY DEF CausalInv, CausalBufferInv
    <3>. QED BY <1>1, <1>5, <2>3, <3>2, <3>4, <3>5 DEF CausalBufferInv
  <2>9. FlushedInv'
    <3>1. \A i \in DOMAIN b : ~ CanDeliver(n, b[i])
      BY <1>1 DEF CausalInv, FlushedInv, Ready
    <3>2. \A i \in DOMAIN c : ~ CanDeliver(n, c[i])
      BY <1>5, <2>7, <3>1
    <3>3. \A i \in DOMAIN causalBuffer'[n] : ~ CanDeliver(n, causalBuffer[n][i])'
      BY <1>5, <2>3, <3>2 DEF CanDeliver
    <3>4. \A j \in Node \ {n} : scan'[j] = 0 => Ready(j)' = {}
      BY <1>5, <2>3, FlushedElsewhere
    <3>. QED BY <3>3, <3>4 DEF FlushedInv, Ready
  <2>. QED BY <2>4, <2>5, <2>6, <2>8, <2>9 DEF CausalInv
<1>. QED BY <1>4, <1>5 DEF HandleCausal

\* What the flush takes out of the buffer is ready, and it ends when nothing is.
LEMMA FlushNextIs ==
  ASSUME CausalTypeOK, NEW n \in Node
  PROVE  /\ FlushNext(n) \subseteq Ready(n)
         /\ FlushNext(n) = {} => Ready(n) = {}
<1>. DEFINE ahead == {i \in Ready(n) : i >= scan[n]}
<1>1. Ready(n) \in SUBSET Nat /\ ahead \in SUBSET Nat
  BY DEF CausalTypeOK, Ready
<1>. HIDE DEF ahead
<1>2. ahead # {} => Min(ahead) \in ahead
  BY <1>1, MinIs
<1>3. Ready(n) # {} => Min(Ready(n)) \in Ready(n)
  BY <1>1, MinIs
<1>4. ahead \subseteq Ready(n)
  BY DEF ahead
<1>5. FlushNext(n) = IF ahead # {} THEN {Min(ahead)}
                     ELSE IF Ready(n) # {} THEN {Min(Ready(n))} ELSE {}
  BY DEF FlushNext, ahead
<1>. QED BY <1>2, <1>3, <1>4, <1>5

LEMMA FlushKeepsCausalInv ==
  ASSUME CausalInv, NEW n \in Node, CausalFlush(n)
  PROVE  CausalInv'
<1>1. scan[n] > 0 /\ UNCHANGED <<causalSent, causalNet, causalLost>>
  BY DEF CausalFlush
<1>2. ASSUME NEW i \in FlushNext(n),
             CausalDeliver(n, causalBuffer[n][i]),
             causalBuffer' = [causalBuffer EXCEPT ![n] = RemoveAt(@, i)],
             scan' = [scan EXCEPT ![n] = i]
      PROVE  CausalInv'
  <2>. DEFINE b == causalBuffer[n]
              c == RemoveAt(b, i)
              m == b[i]
  <2>1. i \in DOMAIN b /\ CanDeliver(n, m)
    BY <1>2, FlushNextIs DEF CausalInv, Ready
  <2>2. b \in Seq(CausalMessage) /\ DOMAIN b = 1 .. Len(b) /\ Len(b) \in Nat
    BY DEF CausalInv, CausalTypeOK
  <2>3. /\ c \in Seq(CausalMessage) /\ DOMAIN c = 1 .. Len(b) - 1
        /\ \A j \in 1 .. Len(b) - 1 : c[j] = b[IF j < i THEN j ELSE j + 1]
    <3>1. i \in 1 .. Len(b)
      BY <2>1, <2>2
    <3>2. /\ c \in Seq(CausalMessage) /\ Len(c) = Len(b) - 1
          /\ \A j \in 1 .. Len(b) - 1 : c[j] = b[IF j < i THEN j ELSE j + 1]
      BY <2>2, <3>1, RemoveAtIs
    <3>3. DOMAIN c = 1 .. Len(c)
      BY <3>2
    <3>. QED BY <3>2, <3>3
  <2>4. /\ causalBuffer' \in [Node -> Seq(CausalMessage)] /\ causalBuffer'[n] = c
        /\ \A j \in Node \ {n} : causalBuffer'[j] = causalBuffer[j]
    BY <1>2, <2>3 DEF CausalInv, CausalTypeOK
  <2>. HIDE DEF c, m
  <2>5. /\ m \in causalSent /\ m.to = n /\ m \notin causalDelivered[n]
    BY <2>1 DEF CausalInv, CausalBufferInv, m
  <2>6. /\ vc' \in [Node -> Vector] /\ past' \in [Node -> SUBSET (Node \X Nat)]
        /\ causalDelivered' \in [Node -> SUBSET CausalMessage]
        /\ causalDelivered'[n] = causalDelivered[n] \cup {m}
        /\ \A j \in Node \ {n} : vc'[j] = vc[j] /\ causalDelivered'[j] = causalDelivered[j]
        /\ PastInv' /\ CountInv' /\ ClosedInv' /\ AcyclicInv' /\ CausalDeliveredInv'
    <3>1. CausalDeliver(n, m)
      BY <1>2 DEF m
    <3>. QED BY <1>1, <2>1, <2>5, <3>1, DeliveryKeeps
  <2>7. /\ scan' \in [Node -> Nat] /\ scan'[n] = i /\ i # 0
        /\ \A j \in Node \ {n} : scan'[j] = scan[j]
    BY <1>2, <2>1, <2>2 DEF CausalInv, CausalTypeOK
  <2>8. CausalTypeOK'
    BY <1>1, <2>4, <2>6, <2>7 DEF CausalInv, CausalTypeOK
  <2>9. CausalBufferInv'
    <3>1. \A j \in DOMAIN b : /\ b[j] \in causalSent \ causalNet /\ b[j].to = n
                              /\ b[j] \notin causalDelivered[n]
      BY DEF CausalInv, CausalBufferInv
    <3>2. \A j, k \in DOMAIN b : b[j] = b[k] => j = k
      BY DEF CausalInv, CausalBufferInv
    <3>3. ASSUME NEW j \in DOMAIN c, NEW p, p = IF j < i THEN j ELSE j + 1
          PROVE  p \in DOMAIN b /\ p # i /\ c[j] = b[p]
      BY <2>1, <2>2, <2>3, <3>3
    <3>4. ASSUME NEW j \in DOMAIN c
          PROVE  /\ c[j] \in causalSent \ causalNet /\ c[j].to = n
                 /\ c[j] \notin causalDelivered'[n]
      <4>1. PICK p : p = IF j < i THEN j ELSE j + 1
        OBVIOUS
      <4>2. p \in DOMAIN b /\ p # i /\ c[j] = b[p]
        BY <3>3, <4>1
      <4>3. c[j] # m
        BY <2>1, <3>2, <4>2 DEF m
      <4>. QED BY <2>6, <3>1, <4>2, <4>3
    <3>5. ASSUME NEW j \in DOMAIN c, NEW k \in DOMAIN c, c[j] = c[k] PROVE j = k
      <4>1. PICK p : p = IF j < i THEN j ELSE j + 1
        OBVIOUS
      <4>2. PICK q : q = IF k < i THEN k ELSE k + 1
        OBVIOUS
      <4>3. p \in DOMAIN b /\ c[j] = b[p] /\ q \in DOMAIN b /\ c[k] = b[q]
        BY <3>3, <4>1, <4>2
      <4>4. p = q
        BY <3>2, <3>5, <4>3
      <4>. QED BY <2>1, <2>2, <2>3, <4>1, <4>2, <4>4
    <3>6. \A j \in Node \ {n} :
            /\ \A k \in DOMAIN causalBuffer[j] :
                 /\ causalBuffer[j][k] \in causalSent \ causalNet
                 /\ causalBuffer[j][k].to = j /\ causalBuffer[j][k] \notin causalDelivered[j]
            /\ \A k, l \in DOMAIN causalBuffer[j] :
                 causalBuffer[j][k] = causalBuffer[j][l] => k = l
      BY DEF CausalInv, CausalBufferInv
    <3>7. ASSUME NEW j \in Node
          PROVE /\ \A k \in DOMAIN causalBuffer'[j] :
                     /\ causalBuffer'[j][k] \in causalSent' \ causalNet'
                     /\ causalBuffer'[j][k].to = j
                     /\ causalBuffer'[j][k] \notin causalDelivered'[j]
                /\ \A k, l \in DOMAIN causalBuffer'[j] :
                     causalBuffer'[j][k] = causalBuffer'[j][l] => k = l
      <4>1. CASE j = n
        <5>1. causalSent' \ causalNet' = causalSent \ causalNet
          BY <1>1
        <5>. QED BY <2>4, <3>4, <3>5, <4>1, <5>1
      <4>2. CASE j # n
        BY <1>1, <2>4, <2>6, <3>6, <4>2
      <4>. QED BY <4>1, <4>2
    <3>. QED BY <3>7 DEF CausalBufferInv
  <2>10. CausalNetInv'
    <3>1. ASSUME NEW x \in causalNet' PROVE x \notin causalDelivered'[x.to]
      <4>1. x \in causalNet /\ x.to \in Node /\ x \notin causalDelivered[x.to]
        BY <1>1, <3>1, MessageType DEF CausalInv, CausalTypeOK, CausalNetInv
      <4>2. x # m
        BY <2>1, <4>1 DEF CausalInv, CausalBufferInv, m
      <4>. QED BY <2>6, <4>1, <4>2
    <3>. QED BY <3>1 DEF CausalNetInv
  <2>11. FlushedInv'
    <3>1. \A j \in Node \ {n} : scan'[j] = 0 => Ready(j)' = {}
      BY <2>4, <2>6, <2>7, FlushedElsewhere
    <3>. QED BY <2>7, <3>1 DEF FlushedInv
  <2>. QED BY <2>6, <2>8, <2>9, <2>10, <2>11 DEF CausalInv
<1>3. CASE /\ FlushNext(n) = {} /\ scan' = [scan EXCEPT ![n] = 0]
           /\ UNCHANGED <<vc, causalDelivered, past, causalBuffer>>
  <2>1. Ready(n) = {}
    BY <1>3, FlushNextIs DEF CausalInv
  <2>2. /\ scan' \in [Node -> Nat] /\ \A j \in Node \ {n} : scan'[j] = scan[j]
    BY <1>3 DEF CausalInv, CausalTypeOK
  <2>3. CausalTypeOK'
    BY <1>1, <1>3, <2>2 DEF CausalInv, CausalTypeOK
  <2>4. PastInv' /\ CountInv' /\ ClosedInv' /\ AcyclicInv' /\ CausalDeliveredInv'
    BY <1>1, <1>3 DEF CausalInv, PastInv, CountInv, ClosedInv, AcyclicInv, CausalDeliveredInv
  <2>5. CausalBufferInv' /\ CausalNetInv'
    BY <1>1, <1>3 DEF CausalInv, CausalBufferInv, CausalNetInv
  <2>6. FlushedInv'
    <3>1. Ready(n)' = {}
      BY <1>3, <2>1 DEF Ready, CanDeliver
    <3>2. \A j \in Node \ {n} : scan'[j] = 0 => Ready(j)' = {}
      BY <1>3, <2>2, FlushedElsewhere
    <3>. QED BY <3>1, <3>2 DEF FlushedInv
  <2>. QED BY <2>3, <2>4, <2>5, <2>6 DEF CausalInv
<1>. QED BY <1>2, <1>3 DEF CausalFlush

LEMMA StepKeepsCausalInv ==
  ASSUME CausalInv, [CausalNext]_causalVars
  PROVE  CausalInv'
<1>1. ASSUME NEW n \in Node, CausalBroadcast(n) PROVE CausalInv'
  BY <1>1, CallKeepsCausalInv DEF CausalBroadcast
<1>2. ASSUME NEW n \in Node, CausalFlush(n) PROVE CausalInv'
  BY <1>2, FlushKeepsCausalInv
<1>3. ASSUME NEW n \in Node, NEW t \in Node, CausalSend(n, t) PROVE CausalInv'
  BY <1>3, CallKeepsCausalInv DEF CausalSend
<1>4. ASSUME NEW n \in Node, NEW m \in causalNet, HandleCausal(n, m) PROVE CausalInv'
  BY <1>4, HandleKeepsCausalInv
<1>5. ASSUME NEW m \in causalNet, CausalLose(m) PROVE CausalInv'
  BY <1>5, LoseKeepsCausalInv
<1>6. CASE UNCHANGED causalVars
  <2>1. UNCHANGED <<vc, causalBuffer, scan, causalDelivered, past,
                    causalSent, causalNet, causalLost>>
    BY <1>6 DEF causalVars
  <2>2. CausalTypeOK' /\ PastInv' /\ CountInv' /\ ClosedInv' /\ AcyclicInv'
    BY <2>1 DEF CausalInv, CausalTypeOK, PastInv, CountInv, ClosedInv, AcyclicInv
  <2>3. CausalDeliveredInv' /\ CausalBufferInv' /\ CausalNetInv'
    BY <2>1 DEF CausalInv, CausalDeliveredInv, CausalBufferInv, CausalNetInv
  <2>4. FlushedInv'
    BY <2>1 DEF CausalInv, FlushedInv, Ready, CanDeliver
  <2>. QED BY <2>2, <2>3, <2>4 DEF CausalInv
<1>. QED BY <1>1, <1>2, <1>3, <1>4, <1>5, <1>6 DEF CausalNext

\* The inductive invariant of causal delivery.
THEOREM CausalInvHolds == CausalSpec => []CausalInv
<1>. QED BY CausalInitInv, StepKeepsCausalInv, PTL DEF CausalSpec

-----------------------------------------------------------------------------
(* What it implies.                                                        *)

\* The vectors of two messages tell which of them was known when the other was
\* sent.
LEMMA InvVectors == CausalInv => VectorsTellCausality
<1>. SUFFICES ASSUME CausalInv, NEW a \in causalSent, NEW b \in causalSent
              PROVE  HappensBefore(a.vc, b.vc) <=> Id(a) \in b.past
  BY DEF VectorsTellCausality
<1>1. /\ a.from \in Node /\ b.from \in Node /\ a.vc \in Vector /\ b.vc \in Vector
      /\ Id(a) = <<a.from, a.vc[a.from]>> /\ Id(b) = <<b.from, b.vc[b.from]>>
      /\ \A k \in Node : a.vc[k] \in Nat /\ b.vc[k] \in Nat
  BY MessageType DEF CausalInv
<1>2. b.past = Upto(b.vc) \ {Id(b)} /\ a.vc[a.from] >= 1
  BY DEF CausalInv, PastInv
<1>3. Id(a) \in Upto(b.vc) <=> a.vc[a.from] <= b.vc[a.from]
  BY <1>1, <1>2, UptoHas
<1>4. a.vc[a.from] <= b.vc[a.from] => \A k \in Node : a.vc[k] <= b.vc[k]
  BY DEF CausalInv, ClosedInv
<1>5. ASSUME HappensBefore(a.vc, b.vc) PROVE Id(a) \in b.past
  <2>1. a.vc[a.from] <= b.vc[a.from]
    BY <1>1, <1>5 DEF HappensBefore
  <2>2. ASSUME Id(a) = Id(b) PROVE FALSE
    <3>1. a.vc = b.vc
      BY <2>2, SameVector
    <3>2. PICK k \in Node : a.vc[k] < b.vc[k]
      BY <1>5 DEF HappensBefore
    <3>. QED BY <1>1, <3>1, <3>2
  <2>. QED BY <1>2, <1>3, <2>1, <2>2
<1>6. ASSUME Id(a) \in b.past PROVE HappensBefore(a.vc, b.vc)
  <2>1. a.vc[a.from] <= b.vc[a.from] /\ Id(a) # Id(b)
    BY <1>2, <1>3, <1>6
  <2>2. \A k \in Node : a.vc[k] <= b.vc[k]
    BY <1>4, <2>1
  <2>3. CASE a.from = b.from
    <3>1. a.vc[a.from] < b.vc[a.from]
      BY <1>1, <2>1, <2>3
    <3>. QED BY <1>1, <2>2, <3>1 DEF HappensBefore
  <2>4. CASE a.from # b.from
    <3>1. a.vc[a.from] > b.vc[a.from] \/ b.vc[b.from] > a.vc[b.from]
      BY <2>4 DEF CausalInv, AcyclicInv
    <3>2. a.vc[b.from] < b.vc[b.from]
      BY <1>1, <2>1, <3>1
    <3>. QED BY <1>1, <2>2, <3>2 DEF HappensBefore
  <2>. QED BY <2>3, <2>4
<1>. QED BY <1>5, <1>6

LEMMA InvOrder == CausalInv => CausalOrder
<1>. SUFFICES ASSUME CausalInv, NEW n \in Node, NEW m \in causalDelivered[n],
                     NEW a \in causalSent, a.to = n, Id(a) \in m.past
              PROVE  a \in causalDelivered[n]
  BY DEF CausalOrder
<1>1. m \in causalSent /\ m.to = n
  BY DEF CausalInv, CausalDeliveredInv
<1>2. HappensBefore(a.vc, m.vc)
  BY <1>1, InvVectors DEF VectorsTellCausality
<1>3. m.vc[m.from] <= vc[n][m.from]
  BY <1>1 DEF CausalInv, CausalDeliveredInv
<1>4. /\ a.from \in Node /\ \A k \in Node : a.vc[k] \in Nat /\ m.vc[k] \in Nat
      /\ \A k \in Node : vc[n][k] \in Nat
  BY <1>1, MessageType, NodeType DEF CausalInv
<1>5. a.vc[a.from] <= m.vc[a.from] /\ m.vc[a.from] <= vc[n][a.from]
  BY <1>1, <1>2, <1>3, <1>4 DEF CausalInv, ClosedInv, HappensBefore
<1>6. a.vc[a.from] <= vc[n][a.from]
  BY <1>4, <1>5
<1>. QED BY <1>6 DEF CausalInv, CausalDeliveredInv

\* What came before is a smaller history.
LEMMA SmallerPast ==
  ASSUME CausalInv, NEW a \in causalSent, NEW b \in causalSent, Id(a) \in b.past
  PROVE  /\ a.past \subseteq b.past
         /\ Cardinality(a.past) \in Nat /\ Cardinality(b.past) \in Nat
         /\ Cardinality(a.past) < Cardinality(b.past)
<1>1. /\ a.vc \in Vector /\ b.vc \in Vector /\ b.from \in Node
      /\ Id(b) = <<b.from, b.vc[b.from]>>
      /\ \A k \in Node : a.vc[k] \in Nat /\ b.vc[k] \in Nat
  BY MessageType DEF CausalInv
<1>2. HappensBefore(a.vc, b.vc)
  BY InvVectors DEF VectorsTellCausality
<1>3. /\ a.past = Upto(a.vc) \ {Id(a)} /\ b.past = Upto(b.vc) \ {Id(b)}
      /\ IsFiniteSet(a.past) /\ IsFiniteSet(b.past)
      /\ b.vc[b.from] >= 1
  BY DEF CausalInv, PastInv
<1>4. Upto(a.vc) \subseteq Upto(b.vc)
  BY <1>1, <1>2, UptoGrows DEF HappensBefore
<1>5. Id(b) \notin Upto(a.vc)
  <2>1. ASSUME b.vc[b.from] <= a.vc[b.from] PROVE FALSE
    <3>1. \A k \in Node : b.vc[k] <= a.vc[k]
      BY <2>1 DEF CausalInv, ClosedInv
    <3>2. PICK k \in Node : a.vc[k] < b.vc[k]
      BY <1>2 DEF HappensBefore
    <3>. QED BY <1>1, <3>1, <3>2
  <2>. QED BY <1>1, <1>3, <2>1, UptoHas
<1>6. a.past \subseteq b.past
  BY <1>3, <1>4, <1>5
<1>7. a.past # b.past
  BY <1>3
<1>8. Cardinality(a.past) \in Nat /\ Cardinality(b.past) \in Nat
  BY <1>3, FS_CardinalityType
<1>9. /\ Cardinality(a.past) <= Cardinality(b.past)
      /\ Cardinality(a.past) = Cardinality(b.past) => a.past = b.past
  BY <1>3, <1>6, FS_Subset
<1>. QED BY <1>6, <1>7, <1>8, <1>9

\* Why a message that n has not counted is not ready: something that its sender
\* knew of is missing.
LEMMA MissingMessage ==
  ASSUME CausalInv, NEW n \in Node, NEW m \in causalSent, m.to = n,
         m \notin causalDelivered[n], ~ CanDeliver(n, m)
  PROVE  \E k \in Node \ {n} : <<k, vc[n][k] + 1>> \in m.past
<1>1. /\ m.from \in Node /\ m.vc \in Vector /\ \A k \in Node : m.vc[k] \in Nat
      /\ Id(m) = <<m.from, m.vc[m.from]>>
  BY MessageType DEF CausalInv
<1>2. \A k \in Node : vc[n][k] \in Nat
  BY NodeType DEF CausalInv
<1>3. m.past = Upto(m.vc) \ {Id(m)} /\ m.from # n
  BY DEF CausalInv, PastInv, CausalDeliveredInv
<1>4. m.vc[n] <= vc[n][n]
  BY DEF CausalInv, CountInv
<1>5. m.vc[m.from] > vc[n][m.from]
  BY NotYetCounted
<1>6. CASE m.vc[m.from] # vc[n][m.from] + 1
  <2>1. /\ vc[n][m.from] + 1 \in Nat /\ 1 <= vc[n][m.from] + 1
        /\ vc[n][m.from] + 1 <= m.vc[m.from]
    BY <1>1, <1>2, <1>5
  <2>2. <<m.from, vc[n][m.from] + 1>> \in Upto(m.vc)
    BY <1>1, <2>1, UptoHas
  <2>. QED BY <1>1, <1>3, <1>6, <2>2
<1>7. ASSUME NEW k \in Node \ {m.from}, ~ (m.vc[k] <= vc[n][k])
      PROVE  k # n /\ <<k, vc[n][k] + 1>> \in m.past
  <2>1. k # n
    BY <1>4, <1>7
  <2>2. /\ vc[n][k] + 1 \in Nat /\ 1 <= vc[n][k] + 1
        /\ vc[n][k] + 1 <= m.vc[k]
    BY <1>1, <1>2, <1>7
  <2>3. <<k, vc[n][k] + 1>> \in Upto(m.vc)
    BY <1>1, <2>2, UptoHas
  <2>4. <<k, vc[n][k] + 1>> # Id(m)
    BY <1>1, <1>7
  <2>. QED BY <1>3, <2>1, <2>3, <2>4
<1>. QED BY <1>6, <1>7 DEF CanDeliver

LEMMA InvGap == CausalInv => CausalGapExplained
<1>. SUFFICES ASSUME CausalInv, NEW n \in Node, scan[n] = 0,
                     NEW i \in DOMAIN causalBuffer[n]
              PROVE  \E id \in causalBuffer[n][i].past :
                       /\ id[1] # n
                       /\ \A m \in causalDelivered[n] \cup ToSet(causalBuffer[n]) : Id(m) # id
  BY DEF CausalGapExplained
<1>. DEFINE held == ToSet(causalBuffer[n])
            top == causalBuffer[n][i]
            cone == {m \in held : m = top \/ Id(m) \in top.past}
            sizes == {Cardinality(m.past) : m \in cone}
<1>1. \A m \in held : /\ m \in causalSent /\ m.to = n /\ m \notin causalDelivered[n]
                      /\ ~ CanDeliver(n, m)
  BY DEF CausalInv, CausalBufferInv, FlushedInv, Ready, ToSet
<1>2. top \in held
  BY DEF ToSet
<1>. HIDE DEF held, top
<1>3. \A m \in held : Cardinality(m.past) \in Nat
  BY <1>1, FS_CardinalityType DEF CausalInv, PastInv
<1>4. PICK m \in cone : \A x \in cone : Cardinality(m.past) <= Cardinality(x.past)
  <2>1. sizes \in SUBSET Nat /\ sizes # {}
    BY <1>2, <1>3
  <2>2. PICK z \in sizes : \A y \in sizes : z <= y
    BY <2>1, Least
  <2>. QED BY <2>2
<1>5. /\ m \in held /\ m \in causalSent /\ m.to = n /\ m \notin causalDelivered[n]
      /\ ~ CanDeliver(n, m) /\ top \in causalSent
  BY <1>1, <1>2
<1>6. PICK k \in Node \ {n} : <<k, vc[n][k] + 1>> \in m.past
  BY <1>5, MissingMessage
<1>7. m.past \subseteq top.past
  <2>1. CASE m = top
    BY <2>1
  <2>2. CASE Id(m) \in top.past
    BY <1>5, <2>2, SmallerPast
  <2>. QED BY <2>1, <2>2
<1>8. ASSUME NEW x \in causalDelivered[n] PROVE Id(x) # <<k, vc[n][k] + 1>>
  <2>1. x \in causalSent /\ x.vc[x.from] <= vc[n][x.from]
    BY DEF CausalInv, CausalDeliveredInv
  <2>2. x.from \in Node /\ x.vc[x.from] \in Nat /\ vc[n][x.from] \in Nat
        /\ Id(x) = <<x.from, x.vc[x.from]>>
    BY <2>1, MessageType, NodeType DEF CausalInv
  <2>. QED BY <2>1, <2>2
<1>9. ASSUME NEW x \in held, Id(x) = <<k, vc[n][k] + 1>> PROVE FALSE
  <2>1. x \in cone /\ Id(x) \in m.past /\ x \in causalSent
    BY <1>1, <1>6, <1>7, <1>9
  <2>2. /\ Cardinality(x.past) \in Nat /\ Cardinality(m.past) \in Nat
        /\ Cardinality(x.past) < Cardinality(m.past)
    BY <1>5, <2>1, SmallerPast
  <2>3. Cardinality(m.past) <= Cardinality(x.past)
    BY <1>4, <2>1
  <2>. QED BY <2>2, <2>3
<1>. QED BY <1>6, <1>7, <1>8, <1>9 DEF held, top

\* A node is told of a message only after everything addressed to it that the
\* sender knew of.
THEOREM CausalOrderHolds == CausalSpec => []CausalOrder
<1>. QED BY CausalInvHolds, InvOrder, PTL

\* VectorClock.happens_before on the vectors of two messages is causality.
THEOREM VectorsTellCausalityHolds == CausalSpec => []VectorsTellCausality
<1>. QED BY CausalInvHolds, InvVectors, PTL

\* A flush leaves a message in the buffer only for another one that is neither
\* delivered nor held back.
THEOREM CausalGapExplainedHolds == CausalSpec => []CausalGapExplained
<1>. QED BY CausalInvHolds, InvGap, PTL

=============================================================================
