------------------------------ MODULE Ordering ------------------------------
(***************************************************************************)
(* What the three orderings of src/network/ordering.py run on.             *)
(*                                                                         *)
(* Every call of send or broadcast may come from a thread of its own and   *)
(* takes its number under a lock but sends outside it, and a broken        *)
(* connection is replaced while the old one is still being read: messages  *)
(* overtake each other.  So the messages under way are a set, and one is   *)
(* in it from the moment it has its number.  A send to a node that is      *)
(* down, or over a connection that breaks, is lost.  None is duplicated:   *)
(* nothing is sent twice.                                                  *)
(***************************************************************************)
EXTENDS Naturals, Sequences, FiniteSets

CONSTANTS Node,
          MaxSent,    \* bound: calls of send and broadcast, all nodes together
          MaxLost     \* bound: messages that get lost

=============================================================================
