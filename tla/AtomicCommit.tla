---------------------------- MODULE AtomicCommit ----------------------------
(***************************************************************************)
(* What the log files of a coordinator and of its participants say about   *)
(* one distributed transaction, whatever crashes: votes and the decision   *)
(* are final, commit is decided only when everybody voted for it, and a    *)
(* participant commits only after that.                                    *)
(*                                                                         *)
(* It is weaker than atomic commitment is usually stated, because src/     *)
(* lets participants do what it forbids: a participant may abort although  *)
(* it voted commit, and at those of Revocable an abort that runs into the  *)
(* handler of the decision can be followed by a commit.                    *)
(***************************************************************************)
CONSTANTS Participant,
          Revocable      \* the participants where an abort is not final

VARIABLES vote,      \* what each participant has logged as its vote
          decision,  \* what the coordinator has logged
          outcome    \* how the transaction ended at each participant

acVars == <<vote, decision, outcome>>

ACInit ==
  /\ vote = [p \in Participant |-> "none"]
  /\ decision = "none"
  /\ outcome = [p \in Participant |-> "none"]

Vote(p, v) ==
  /\ vote[p] = "none"
  /\ vote' = [vote EXCEPT ![p] = v]
  /\ UNCHANGED <<decision, outcome>>

DecideCommit ==
  /\ decision = "none"
  /\ \A p \in Participant : vote[p] = "commit"
  /\ decision' = "commit"
  /\ UNCHANGED <<vote, outcome>>

DecideAbort ==
  /\ decision = "none"
  /\ decision' = "abort"
  /\ UNCHANGED <<vote, outcome>>

CommitAt(p) ==
  /\ decision = "commit"
  /\ outcome[p] = "none" \/ (outcome[p] = "abort" /\ p \in Revocable)
  /\ outcome' = [outcome EXCEPT ![p] = "commit"]
  /\ UNCHANGED <<vote, decision>>

AbortAt(p) ==
  /\ outcome[p] = "none"
  /\ outcome' = [outcome EXCEPT ![p] = "abort"]
  /\ UNCHANGED <<vote, decision>>

ACNext ==
  \/ DecideCommit
  \/ DecideAbort
  \/ \E p \in Participant :
       \/ Vote(p, "commit") \/ Vote(p, "abort")
       \/ CommitAt(p) \/ AbortAt(p)

ACSpec == ACInit /\ [][ACNext]_acVars

=============================================================================
