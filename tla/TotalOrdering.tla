---------------------------- MODULE TotalOrdering ----------------------------
(***************************************************************************)
(* TotalOrdering of src/network/ordering.py: every message goes to the     *)
(* sequencer, which numbers it and sends it to all.                        *)
(*                                                                         *)
(* The receiver threads of the sequencer number messages under its lock    *)
(* and broadcast outside it.  The sequencer handles its own assignment by  *)
(* a call, from the same thread, after the broadcast: that one is under    *)
(* way in the meantime as well, and cannot be lost.                        *)
(***************************************************************************)
EXTENDS Ordering

CONSTANTS Sequencer,
          Data    \* what a node may send, each only once

ASSUME SequencerAssumption == Sequencer \in Node

VARIABLES
  totalSent,       \* messages handed to send
  toNumber,        \* TOTAL_MSG messages under way to the sequencer
  globalSeq,       \* _global_seq of the sequencer
  order,           \* messages in the order in which they were numbered
  totalNet,        \* TOTAL_SEQ_ASSIGN messages under way
  totalLost,       \* those that will never arrive
  expected,        \* _expected_seq
  totalBuffer,     \* _buffer
  totalFlushing,   \* _flush_buffer is running, under the lock
  totalDelivered   \* what the callback was told

assigning == <<totalSent, toNumber, globalSeq, order>>
receiving == <<expected, totalBuffer, totalFlushing, totalDelivered>>
totalVars == <<assigning, totalNet, totalLost, receiving>>

TotalMessage == [origin : Node, data : Data]
Assignment == [to : Node, seq : Nat, msg : TotalMessage]

TotalTypeOK ==
  /\ totalSent \subseteq TotalMessage
  /\ toNumber \subseteq totalSent
  /\ globalSeq \in Nat
  /\ order \in Seq(TotalMessage)
  /\ totalNet \subseteq Assignment
  /\ totalLost \subseteq Assignment
  /\ expected \in [Node -> Nat \ {0}]
  /\ totalBuffer \in [Node -> SUBSET Assignment]
  /\ totalFlushing \in [Node -> BOOLEAN]
  /\ totalDelivered \in [Node -> Seq(TotalMessage)]

TotalInit ==
  /\ totalSent = {} /\ toNumber = {}
  /\ globalSeq = 0 /\ order = << >>
  /\ totalNet = {} /\ totalLost = {}
  /\ expected = [n \in Node |-> 1]
  /\ totalBuffer = [n \in Node |-> {}]
  /\ totalFlushing = [n \in Node |-> FALSE]
  /\ totalDelivered = [n \in Node |-> << >>]

-----------------------------------------------------------------------------

TotalSend(n, d) ==
  LET m == [origin |-> n, data |-> d] IN
  /\ Cardinality(totalSent) < MaxSent
  /\ m \notin totalSent
  /\ totalSent' = totalSent \cup {m}
  /\ toNumber' = toNumber \cup {m}
  /\ UNCHANGED <<globalSeq, order, totalNet, totalLost, receiving>>

\* Mutant: two threads of the sequencer read the same number.
DrawTwice == IF globalSeq = 1 THEN 1 ELSE globalSeq + 1

Draw == globalSeq + 1

\* _handle_total_msg.
HandleTotalMsg(m) ==
  /\ m \in toNumber
  /\ ~ totalFlushing[Sequencer]
  /\ toNumber' = toNumber \ {m}
  /\ globalSeq' = Draw
  /\ order' = Append(order, m)
  /\ totalNet' = totalNet \cup [to : Node, seq : {Draw}, msg : {m}]
  /\ UNCHANGED <<totalSent, totalLost, receiving>>

LoseRequest(m) ==
  /\ m \in toNumber
  /\ Cardinality(totalLost) < MaxLost
  /\ toNumber' = toNumber \ {m}
  /\ UNCHANGED <<totalSent, globalSeq, order, totalNet, totalLost, receiving>>

LoseAssignment(a) ==
  /\ a \in totalNet
  /\ a.to # Sequencer
  /\ Cardinality(totalLost) < MaxLost
  /\ totalNet' = totalNet \ {a}
  /\ totalLost' = totalLost \cup {a}
  /\ UNCHANGED <<assigning, receiving>>

TotalDeliver(n, a) ==
  /\ totalDelivered' = [totalDelivered EXCEPT ![n] = Append(@, a.msg)]
  /\ expected' = [expected EXCEPT ![n] = @ + 1]

IsNext(n, a) == a.seq = expected[n]

\* _handle_seq_assign_internal, up to the flush.
HandleSeqAssign(n, a) ==
  /\ a \in totalNet /\ a.to = n
  /\ ~ totalFlushing[n]
  /\ totalNet' = totalNet \ {a}
  /\ \/ /\ IsNext(n, a)
        /\ TotalDeliver(n, a)
        /\ totalFlushing' = [totalFlushing EXCEPT ![n] = TRUE]
        /\ UNCHANGED totalBuffer
     \/ /\ ~ IsNext(n, a)
        /\ totalBuffer' = [totalBuffer EXCEPT ![n] = @ \cup {a}]
        /\ UNCHANGED <<expected, totalFlushing, totalDelivered>>
  /\ UNCHANGED <<assigning, totalLost>>

\* Mutant: the flush ends after one message.
MoreToFlushOnce(n) ==
  Cardinality(totalBuffer[n]) > 1 /\ \E a \in totalBuffer[n] : a.seq = expected[n]

MoreToFlush(n) == \E a \in totalBuffer[n] : a.seq = expected[n]

TotalFlush(n) ==
  /\ totalFlushing[n]
  /\ \/ /\ MoreToFlush(n)
        /\ \E a \in totalBuffer[n] :
             /\ IsNext(n, a)
             /\ TotalDeliver(n, a)
             /\ totalBuffer' = [totalBuffer EXCEPT ![n] = @ \ {a}]
        /\ UNCHANGED totalFlushing
     \/ /\ ~ MoreToFlush(n)
        /\ totalFlushing' = [totalFlushing EXCEPT ![n] = FALSE]
        /\ UNCHANGED <<expected, totalBuffer, totalDelivered>>
  /\ UNCHANGED <<assigning, totalNet, totalLost>>

TotalNext ==
  \/ \E n \in Node, d \in Data : TotalSend(n, d)
  \/ \E m \in toNumber : HandleTotalMsg(m) \/ LoseRequest(m)
  \/ \E n \in Node, a \in totalNet : HandleSeqAssign(n, a)
  \/ \E n \in Node : TotalFlush(n)
  \/ \E a \in totalNet : LoseAssignment(a)

TotalSpec == TotalInit /\ [][TotalNext]_totalVars

-----------------------------------------------------------------------------
(* What total order is for.                                                *)

TO == INSTANCE TotalOrder
        WITH Message <- TotalMessage, sent <- totalSent, delivered <- totalDelivered

\* All nodes deliver along one order, none skips a message that another one
\* has delivered before, and no message is delivered twice.
ImplementsTotalOrder == TO!TOSpec

\* A node that holds messages back waits for the one with the next number,
\* and that one is under way or was lost: no number is drawn and not sent,
\* or overlooked in the buffer.
TotalGapExplained ==
  \A n \in Node :
    totalBuffer[n] # {} /\ ~ totalFlushing[n] =>
      \E a \in totalNet \cup totalLost : a.to = n /\ a.seq = expected[n]

=============================================================================
