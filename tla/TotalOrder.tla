----------------------------- MODULE TotalOrder -----------------------------
(***************************************************************************)
(* What TotalOrdering of src/network/ordering.py promises: the messages    *)
(* that get a place in the order get one each, and every node delivers     *)
(* them in that order without leaving one out.                             *)
(***************************************************************************)
EXTENDS Naturals, Sequences

CONSTANTS Node, Message

VARIABLES sent,        \* messages handed to send
          order,       \* those that have their place
          delivered    \* what each node has delivered

toVars == <<sent, order, delivered>>

TOInit ==
  /\ sent = {}
  /\ order = << >>
  /\ delivered = [n \in Node |-> << >>]

Send(m) ==
  /\ sent' = sent \cup {m}
  /\ UNCHANGED <<order, delivered>>

Place(m) ==
  /\ m \in sent
  /\ \A i \in 1 .. Len(order) : order[i] # m
  /\ order' = Append(order, m)
  /\ UNCHANGED <<sent, delivered>>

Deliver(n) ==
  /\ Len(delivered[n]) < Len(order)
  /\ delivered' = [delivered EXCEPT ![n] = Append(@, order[Len(@) + 1])]
  /\ UNCHANGED <<sent, order>>

TONext == (\E m \in Message : Send(m) \/ Place(m)) \/ \E n \in Node : Deliver(n)

TOSpec == TOInit /\ [][TONext]_toVars

=============================================================================
