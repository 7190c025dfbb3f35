------------------------------ MODULE TwoPhase ------------------------------
(***************************************************************************)
(* Two-phase commit of one transaction: src/commit/two_phase.py, with the  *)
(* transactions, the start-up recovery and the connections it works on.    *)
(*                                                                         *)
(* coordinate_commit runs in a client thread of the coordinator; every     *)
(* message is handled by the receiver thread of its connection.  Any node  *)
(* may crash and start again: its log survives.  A send is lost when the   *)
(* target is down, when it dies before it reads, or when the connection    *)
(* broke; nobody looks at what send returns.                               *)
(*                                                                         *)
(* At the participants of LocalAborts another thread, the detector's or a  *)
(* client's, may abort the transaction.  Neither that thread nor the       *)
(* handler holds a lock between the look at the status, the entry in the   *)
(* log and the new status, so each of these is a step.                     *)
(*                                                                         *)
(* An id is coordinated once, at another node than its participants.       *)
(* _pending_decisions is left out: nothing in src/ ever reads it.          *)
(***************************************************************************)
EXTENDS Integers, FiniteSets, Sequences

CONSTANTS Participant,
          LocalAborts,   \* the participants where another thread may abort
          AckRetries,    \* ack_retries
          MaxFailures    \* bound: crashes and broken connections, all together

ASSUME TwoPhaseAssumption ==
  /\ Participant # {} /\ IsFiniteSet(Participant)
  /\ LocalAborts \subseteq Participant
  /\ AckRetries \in Nat
  /\ MaxFailures \in Nat

VARIABLES
  clog, plog,     \* entries of the logs about the transaction
  call,           \* where coordinate_commit is, or the node is "down"
  todo,           \* participants it has still to send to
  votes, acks,    \* _votes, _acks
  voteEvent, ackEvent,
  decision,
  attempt,
  check,          \* what _check_can_commit returns
  status,         \* Transaction.status, "none" if the id is not known
  hand,           \* what the receiver of a participant is doing
  local,          \* what another thread that aborts is doing
  toP, toC,       \* connections from and to the coordinator
  failures

logs == <<clog, plog>>
caller == <<call, todo, decision, attempt>>
answers == <<votes, acks, voteEvent, ackEvent>>
part == <<check, status, hand, local>>
vars == <<logs, caller, answers, part, toP, toC, failures>>

Voting == {"prepare", "votes", "clearVotes", "decide"}
Calling == Voting \cup {"inform", "acks", "clearAcks", "tally"}

TypeOK ==
  /\ clog \subseteq {"PREPARE", "GLOBAL_COMMIT", "GLOBAL_ABORT"}
  /\ plog \in [Participant ->
       SUBSET {"BEGIN", "VOTE_COMMIT", "VOTE_ABORT", "COMMIT", "ABORT"}]
  /\ call \in Calling \cup {"ready", "over", "down"}
  /\ todo \subseteq Participant
  /\ votes \in [Participant -> {"none", "commit", "abort"}]
  /\ acks \subseteq Participant
  /\ voteEvent \in BOOLEAN /\ ackEvent \in BOOLEAN
  /\ decision \in {"none", "GLOBAL_COMMIT", "GLOBAL_ABORT"}
  /\ attempt \in 0 .. AckRetries
  /\ check \in [Participant -> BOOLEAN]
  /\ status \in [Participant -> {"none", "active", "committed", "aborted"}]
  /\ hand \in [Participant ->
       {"idle", "vote", "commit", "store", "abort", "undo", "ack", "down"}]
  /\ local \in [Participant -> {"idle", "log", "clear", "mark"}]
  /\ toP \in [Participant -> Seq({"PREPARE", "GLOBAL_COMMIT", "GLOBAL_ABORT"})]
  /\ toC \in [Participant -> Seq({"VOTE_COMMIT", "VOTE_ABORT", "ACK"})]
  /\ failures \in 0 .. MaxFailures

NoVotes == [p \in Participant |-> "none"]

\* _check_can_commit returns True for every transaction; where tests and
\* demonstrations want a vote to abort they put another function there.  A
\* participant need not have begun the transaction.
Init ==
  /\ clog = {}
  /\ call = "ready" /\ todo = {} /\ decision = "none" /\ attempt = 0
  /\ votes = NoVotes /\ acks = {} /\ voteEvent = FALSE /\ ackEvent = FALSE
  /\ check \in [Participant -> BOOLEAN]
  /\ status \in [Participant -> {"none", "active"}]
  /\ plog = [p \in Participant |-> IF status[p] = "active" THEN {"BEGIN"} ELSE {}]
  /\ hand = [p \in Participant |-> "idle"]
  /\ local = hand
  /\ toP = [p \in Participant |-> << >>]
  /\ toC = toP
  /\ failures = 0

-----------------------------------------------------------------------------
(* The connections.                                                        *)

Failure == failures < MaxFailures /\ failures' = failures + 1

SendTo(p, m) ==
  \/ /\ hand[p] # "down"
     /\ toP' = [toP EXCEPT ![p] = Append(@, m)]
     /\ UNCHANGED failures
  \/ hand[p] = "down" /\ UNCHANGED <<toP, failures>>
  \/ hand[p] # "down" /\ UNCHANGED toP /\ Failure

SendBack(p, m) ==
  \/ /\ call # "down"
     /\ toC' = [toC EXCEPT ![p] = Append(@, m)]
     /\ UNCHANGED failures
  \/ call = "down" /\ UNCHANGED <<toC, failures>>
  \/ call # "down" /\ UNCHANGED toC /\ Failure

-----------------------------------------------------------------------------
(* coordinate_commit.                                                      *)

Missing == {p \in Participant : votes[p] = "none"}
AbortVoted == \E p \in Participant : votes[p] = "abort"

\* Mutant: missing votes are not missed.
Optimistic == ~ AbortVoted

Unanimous == Missing = {} /\ ~ AbortVoted

RetriesLeft == attempt < AckRetries

Coordinate ==
  /\ call = "ready"
  /\ clog' = clog \cup {"PREPARE"}
  /\ call' = "prepare" /\ todo' = Participant
  /\ UNCHANGED <<plog, decision, attempt, answers, part, toP, toC, failures>>

\* One iteration of a loop that sends; the last one leads on to waiting.
Deliver(from, m, next) ==
  /\ call = from
  /\ \E p \in todo :
       /\ SendTo(p, m)
       /\ todo' = todo \ {p}
       /\ call' = IF todo = {p} THEN next ELSE from
  /\ UNCHANGED <<logs, decision, attempt, answers, part, toC>>

SendPrepare == Deliver("prepare", "PREPARE", "votes")
SendDecision == Deliver("inform", decision, "acks")

\* A wait returned because the event is set: enough, or clear it and wait on.
\* What arrives between the look and the clear wakes nobody up any more.
WaitFor(from, event, enough, next, clear) ==
  /\ call = from /\ event
  /\ call' = IF enough THEN next ELSE clear
  /\ UNCHANGED <<logs, todo, decision, attempt, answers, part, toP, toC, failures>>

LookAtVotes ==
  WaitFor("votes", voteEvent, Missing = {} \/ AbortVoted, "decide", "clearVotes")

LookAtAcks ==
  WaitFor("acks", ackEvent, acks = Participant, "tally", "clearAcks")

ClearVotes ==
  /\ call = "clearVotes"
  /\ call' = "votes" /\ voteEvent' = FALSE
  /\ UNCHANGED <<logs, todo, decision, attempt, votes, acks, ackEvent, part,
                 toP, toC, failures>>

ClearAcks ==
  /\ call = "clearAcks"
  /\ call' = "acks" /\ ackEvent' = FALSE
  /\ UNCHANGED <<logs, todo, decision, attempt, votes, acks, voteEvent, part,
                 toP, toC, failures>>

\* Mutant: waits without a deadline.
Patience(from, next) ==
  /\ call = from
  /\ IF from = "votes" THEN voteEvent ELSE ackEvent
  /\ call' = next
  /\ UNCHANGED <<logs, todo, decision, attempt, answers, part, toP, toC, failures>>

Deadline(from, next) ==
  /\ call = from
  /\ call' = next
  /\ UNCHANGED <<logs, todo, decision, attempt, answers, part, toP, toC, failures>>

VoteTimeout == Deadline("votes", "decide")
AckTimeout == Deadline("acks", "tally")

\* The votes are looked at once more, the outcome is logged, then sent.  The
\* votes that came and those to come play no part any more: they are dropped
\* here already.
Decide ==
  /\ call = "decide"
  /\ decision' = IF Unanimous THEN "GLOBAL_COMMIT" ELSE "GLOBAL_ABORT"
  /\ clog' = clog \cup {decision'}
  /\ call' = "inform" /\ todo' = Participant
  /\ votes' = NoVotes /\ voteEvent' = FALSE
  /\ UNCHANGED <<plog, attempt, acks, ackEvent, part, toP, toC, failures>>

Retry ==
  /\ call = "tally" /\ acks # Participant /\ RetriesLeft
  /\ call' = "inform" /\ todo' = Participant \ acks /\ attempt' = attempt + 1
  /\ UNCHANGED <<logs, decision, answers, part, toP, toC, failures>>

\* _acks and the locals are dropped: whatever arrives later is not recorded.
Return ==
  /\ call = "tally" /\ (acks = Participant \/ ~ RetriesLeft)
  /\ call' = "over"
  /\ acks' = {} /\ ackEvent' = FALSE
  /\ decision' = "none" /\ attempt' = 0
  /\ UNCHANGED <<logs, todo, votes, voteEvent, part, toP, toC, failures>>

\* handle_vote_commit, handle_vote_abort, handle_ack.
ReceiveAnswer(p) ==
  /\ call # "down" /\ toC[p] # << >>
  /\ toC' = [toC EXCEPT ![p] = Tail(@)]
  /\ LET m == Head(toC[p]) IN
     \/ /\ m = "ACK" /\ call \in Calling
        /\ acks' = acks \cup {p} /\ ackEvent' = TRUE
        /\ UNCHANGED <<votes, voteEvent>>
     \/ /\ m # "ACK" /\ call \in Voting
        /\ votes' = [votes EXCEPT ![p] = IF m = "VOTE_COMMIT" THEN "commit" ELSE "abort"]
        /\ voteEvent' = TRUE
        /\ UNCHANGED <<acks, ackEvent>>
     \/ /\ call \notin (IF m = "ACK" THEN Calling ELSE Voting)
        /\ UNCHANGED answers
  /\ UNCHANGED <<logs, caller, part, toP, failures>>

\* Mutant: recovery does not look for a decision.
UndecidedCareless == "PREPARE" \in clog

Undecided == "PREPARE" \in clog /\ clog \cap {"GLOBAL_COMMIT", "GLOBAL_ABORT"} = {}

\* TwoPhaseCoordinator.recover_pending: the log is closed, nobody is told.
RecoverCoordinator ==
  /\ call \in {"ready", "over"}
  /\ Undecided
  /\ clog' = clog \cup {"GLOBAL_ABORT"}
  /\ UNCHANGED <<plog, caller, answers, part, toP, toC, failures>>

-----------------------------------------------------------------------------
(* A participant.                                                          *)

Log(p, entries) == plog' = [plog EXCEPT ![p] = @ \cup entries]

\* The log says how the transaction ended.
Ended(p) == plog[p] \cap {"COMMIT", "ABORT"} # {}

Received(p, m) ==
  /\ hand[p] = "idle"
  /\ toP[p] # << >> /\ Head(toP[p]) = m
  /\ toP' = [toP EXCEPT ![p] = Tail(@)]

\* The first half of handle_prepare: the vote is logged before it is sent.
HandlePrepare(p) ==
  /\ Received(p, "PREPARE")
  /\ Log(p, {IF check[p] THEN "VOTE_COMMIT" ELSE "VOTE_ABORT"})
  /\ hand' = [hand EXCEPT ![p] = "vote"]
  /\ UNCHANGED <<clog, caller, answers, check, status, local, toC, failures>>

SendVote(p) ==
  /\ hand[p] = "vote"
  /\ SendBack(p, IF check[p] THEN "VOTE_COMMIT" ELSE "VOTE_ABORT")
  /\ hand' = [hand EXCEPT ![p] = "idle"]
  /\ UNCHANGED <<logs, caller, answers, check, status, local, toP>>

\* Mutant: an abort is acknowledged and not carried out.
DoingCommitOnly(p, how) == IF status[p] = "active" /\ how = "commit" THEN how ELSE "ack"

\* What the handler of a decision turns to: a transaction that is not active,
\* or not known, is only acknowledged.
Doing(p, how) == IF status[p] = "active" THEN how ELSE "ack"

\* handle_global_commit and handle_global_abort, up to the look at the status.
HandleDecision(p) ==
  /\ \/ /\ Received(p, "GLOBAL_COMMIT")
        /\ hand' = [hand EXCEPT ![p] = Doing(p, "commit")]
     \/ /\ Received(p, "GLOBAL_ABORT")
        /\ hand' = [hand EXCEPT ![p] = Doing(p, "abort")]
  /\ UNCHANGED <<logs, caller, answers, check, status, local, toC, failures>>

\* TransactionManager.commit and abort: first the log ...
LogEnd(p) ==
  /\ \/ /\ hand[p] = "commit" /\ Log(p, {"COMMIT"})
        /\ hand' = [hand EXCEPT ![p] = "store"]
     \/ /\ hand[p] = "abort" /\ Log(p, {"ABORT"})
        /\ hand' = [hand EXCEPT ![p] = "undo"]
  /\ UNCHANGED <<clog, caller, answers, check, status, local, toP, toC, failures>>

\* ... then the buffer, the status and the locks.
FinishEnd(p) ==
  /\ hand[p] \in {"store", "undo"}
  /\ status' = [status EXCEPT ![p] =
       IF hand[p] = "store" THEN "committed" ELSE "aborted"]
  /\ hand' = [hand EXCEPT ![p] = "ack"]
  /\ UNCHANGED <<logs, caller, answers, check, local, toP, toC, failures>>

SendAck(p) ==
  /\ hand[p] = "ack"
  /\ SendBack(p, "ACK")
  /\ hand' = [hand EXCEPT ![p] = "idle"]
  /\ UNCHANGED <<logs, caller, answers, check, status, local, toP>>

\* TransactionManager.abort in another thread: the look at the status, ...
StartAbort(p) ==
  /\ p \in LocalAborts
  /\ local[p] = "idle" /\ status[p] = "active"
  /\ local' = [local EXCEPT ![p] = "log"]
  /\ UNCHANGED <<logs, caller, answers, check, status, hand, toP, toC, failures>>

\* ... the log, ...
LogAbort(p) ==
  /\ local[p] = "log"
  /\ Log(p, {"ABORT"})
  /\ local' = [local EXCEPT ![p] = "clear"]
  /\ UNCHANGED <<clog, caller, answers, check, status, hand, toP, toC, failures>>

\* ... the buffer: a commit that is storing its items may fail on that, and
\* then the receiver drops the message without an ACK ...
ClearBuffer(p) ==
  /\ local[p] = "clear"
  /\ local' = [local EXCEPT ![p] = "mark"]
  /\ \/ UNCHANGED hand
     \/ hand[p] = "store" /\ hand' = [hand EXCEPT ![p] = "idle"]
  /\ UNCHANGED <<logs, caller, answers, check, status, toP, toC, failures>>

\* ... and the status.
FinishAbort(p) ==
  /\ local[p] = "mark"
  /\ local' = [local EXCEPT ![p] = "idle"]
  /\ status' = [status EXCEPT ![p] = "aborted"]
  /\ UNCHANGED <<logs, caller, answers, check, hand, toP, toC, failures>>

\* TwoPhaseParticipant.recover_pending: a vote to abort is carried out, a vote
\* to commit is only remembered.
RecoverParticipant(p) ==
  /\ hand[p] # "down" /\ status[p] = "none"
  /\ ~ Ended(p) /\ "VOTE_ABORT" \in plog[p]
  /\ Log(p, {"ABORT"})
  /\ UNCHANGED <<clog, caller, answers, part, toP, toC, failures>>

-----------------------------------------------------------------------------
(* Crashes and restarts.                                                   *)

CrashCoordinator ==
  /\ call # "down" /\ Failure
  /\ call' = "down" /\ todo' = {} /\ decision' = "none" /\ attempt' = 0
  /\ votes' = NoVotes /\ acks' = {} /\ voteEvent' = FALSE /\ ackEvent' = FALSE
  /\ toC' = [p \in Participant |-> << >>]
  /\ UNCHANGED <<logs, part, toP>>

RestartCoordinator ==
  /\ call = "down"
  /\ call' = IF "PREPARE" \in clog THEN "over" ELSE "ready"
  /\ UNCHANGED <<logs, todo, decision, attempt, answers, part, toP, toC, failures>>

CrashParticipant(p) ==
  /\ hand[p] # "down" /\ Failure
  /\ hand' = [hand EXCEPT ![p] = "down"]
  /\ local' = [local EXCEPT ![p] = "idle"]
  /\ status' = [status EXCEPT ![p] = "none"]
  /\ toP' = [toP EXCEPT ![p] = << >>]
  /\ UNCHANGED <<logs, caller, answers, check, toC>>

\* RecoveryManager.recover takes a transaction without an end as aborted,
\* whatever it has voted.
RestartParticipant(p) ==
  /\ hand[p] = "down"
  /\ hand' = [hand EXCEPT ![p] = "idle"]
  /\ IF "BEGIN" \in plog[p] /\ ~ Ended(p)
       THEN Log(p, {"ABORT"}) ELSE UNCHANGED plog
  /\ UNCHANGED <<clog, caller, answers, check, status, local, toP, toC, failures>>

-----------------------------------------------------------------------------
CallStep ==
  \/ SendPrepare \/ LookAtVotes \/ ClearVotes \/ VoteTimeout \/ Decide
  \/ SendDecision \/ LookAtAcks \/ ClearAcks \/ AckTimeout \/ Retry \/ Return

ParticipantStep(p) ==
  \/ ReceiveAnswer(p)
  \/ HandlePrepare(p) \/ SendVote(p)
  \/ HandleDecision(p) \/ LogEnd(p) \/ FinishEnd(p) \/ SendAck(p)
  \/ StartAbort(p) \/ LogAbort(p) \/ ClearBuffer(p) \/ FinishAbort(p)
  \/ RecoverParticipant(p)
  \/ CrashParticipant(p) \/ RestartParticipant(p)

Next ==
  \/ Coordinate \/ CallStep \/ RecoverCoordinator
  \/ CrashCoordinator \/ RestartCoordinator
  \/ \E p \in Participant : ParticipantStep(p)

Spec == Init /\ [][Next]_vars

\* The thread of a call goes on, and its deadlines pass.
FairSpec == Spec /\ WF_vars(CallStep)

-----------------------------------------------------------------------------
(* What must hold.                                                         *)

\* The log of the coordinator, over all crashes and calls of recover_pending,
\* never holds both outcomes (two_phase.py:58-66, 151-153), and the outcome a
\* participant is told is the one in the log.
OneDecision ==
  /\ ~ {"GLOBAL_COMMIT", "GLOBAL_ABORT"} \subseteq clog
  /\ \A p \in Participant : \A i \in 1 .. Len(toP[p]) :
       toP[p][i] \in clog

\* The transaction is not open, and the log says how it ended if it began here.
Settled(p) == status[p] # "active" /\ ("BEGIN" \in plog[p] => Ended(p))

\* coordinate_commit takes an ACK as proof that the participant is through
\* with the transaction and needs no retry (two_phase.py:92-98).  It is, and its
\* log says so, whatever crashes and whichever thread ended the transaction.
AckedMeansSettled == \A p \in acks : Settled(p)

\* Whatever votes and acknowledgements are lost, and although a wakeup can
\* be lost between the look at the votes and the clear of the event
\* (two_phase.py:44-48, 84-88), a call ends unless its node dies.
EveryCallReturns ==
  [](call \in Calling => <>(call \in {"over", "down"}))

\* The logs, read as votes, decision and outcomes, implement AtomicCommit.
\* Where a log has COMMIT and ABORT, recovery takes the transaction as
\* committed (recovery.py:28-42).
Logged(set, commit, abort) ==
  IF commit \in set THEN "commit" ELSE IF abort \in set THEN "abort" ELSE "none"

LoggedVote == [p \in Participant |-> Logged(plog[p], "VOTE_COMMIT", "VOTE_ABORT")]
LoggedDecision == Logged(clog, "GLOBAL_COMMIT", "GLOBAL_ABORT")
LoggedOutcome == [p \in Participant |-> Logged(plog[p], "COMMIT", "ABORT")]

AC == INSTANCE AtomicCommit WITH
  Revocable <- LocalAborts,
  vote <- LoggedVote, decision <- LoggedDecision, outcome <- LoggedOutcome

\* Final votes, a final decision, commit only when all voted for it, and no
\* participant commits before that is in the log of the coordinator.  How the
\* transaction ended at a participant is final too, except that where another
\* thread may abort, a COMMIT can follow the ABORT (two_phase.py:204-205,
\* transaction.py:104-116, 131-137).
ImplementsAtomicCommit == AC!ACSpec

=============================================================================
