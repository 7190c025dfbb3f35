--------------------------- MODULE TwoPhase_proof ---------------------------
(***************************************************************************)
(* Two-phase commit keeps its promises for any number of participants,     *)
(* crashes, lost messages and retries.                                     *)
(***************************************************************************)
EXTENDS TwoPhase, TLAPS

Decisions == {"GLOBAL_COMMIT", "GLOBAL_ABORT"}
Informing == {"inform", "acks", "clearAcks", "tally"}

\* How far the log of the coordinator is, by the place of the call.
CallInv ==
  /\ "PREPARE" \notin clog => clog = {}
  /\ call = "ready" => clog = {}
  /\ call \in Voting => clog = {"PREPARE"}
  /\ call \in Informing => decision \in Decisions /\ decision \in clog
  /\ ~ Decisions \subseteq clog

\* What participants are told is in the log.
ToldInv == \A p \in Participant : \A i \in 1 .. Len(toP[p]) : toP[p][i] \in clog

\* What an answer on its way says is true of its sender.
Justified(p) ==
  {m \in {"VOTE_COMMIT", "VOTE_ABORT", "ACK"} :
     /\ m = "VOTE_COMMIT" => "VOTE_COMMIT" \in plog[p]
     /\ m = "ACK" => Settled(p)}

AnswerInv ==
  \A p \in Participant :
    /\ \A i \in 1 .. Len(toC[p]) : toC[p][i] \in Justified(p)
    /\ hand[p] = "vote" /\ check[p] => "VOTE_COMMIT" \in plog[p]
    /\ hand[p] = "ack" => status[p] # "active"
    /\ votes[p] = "commit" => "VOTE_COMMIT" \in plog[p]
    /\ p \in acks => Settled(p)

\* A log has one vote.
VoteInv ==
  \A p \in Participant :
    /\ "VOTE_COMMIT" \in plog[p] => check[p]
    /\ "VOTE_ABORT" \in plog[p] => ~ check[p]

\* Who ends a transaction logs it first, and COMMIT only after the coordinator;
\* where no other thread aborts, what is open has no end in the log.
LogOK(p) ==
  /\ hand[p] = "down" => status[p] = "none" /\ local[p] = "idle"
  /\ hand[p] \in {"commit", "store"} => "GLOBAL_COMMIT" \in clog
  /\ hand[p] \in {"store", "undo"} => Ended(p)
  /\ local[p] \in {"clear", "mark"} => Ended(p)
  /\ status[p] \in {"committed", "aborted"} => Ended(p)
  /\ status[p] = "none" /\ hand[p] # "down" /\ "BEGIN" \in plog[p] => Ended(p)
  /\ p \notin LocalAborts =>
       /\ local[p] = "idle"
       /\ hand[p] \in {"commit", "abort", "store", "undo"} => status[p] = "active"
       /\ status[p] = "active" /\ Ended(p) => hand[p] \in {"store", "undo"}

LogInv == \A p \in Participant : LogOK(p)

IInv == TypeOK /\ CallInv /\ ToldInv /\ AnswerInv /\ VoteInv /\ LogInv

-----------------------------------------------------------------------------
(* Sequences.                                                              *)

LEMMA AppendIn ==
  ASSUME NEW S, NEW T, NEW s \in Seq(S), NEW m \in S, m \in T,
         \A i \in 1 .. Len(s) : s[i] \in T
  PROVE  /\ Append(s, m) \in Seq(S)
         /\ \A i \in 1 .. Len(Append(s, m)) : Append(s, m)[i] \in T
<1>1. Append(s, m) \in Seq(S) /\ Len(Append(s, m)) = Len(s) + 1
  OBVIOUS
<1>2. ASSUME NEW i \in 1 .. Len(s) + 1 PROVE Append(s, m)[i] \in T
  <2>1. CASE i = Len(s) + 1
    BY <2>1
  <2>2. CASE i \in 1 .. Len(s)
    BY <2>2
  <2>. QED BY <2>1, <2>2
<1>. QED BY <1>1, <1>2

LEMMA TailIn ==
  ASSUME NEW S, NEW T, NEW s \in Seq(S), s # << >>,
         \A i \in 1 .. Len(s) : s[i] \in T
  PROVE  /\ Tail(s) \in Seq(S)
         /\ \A i \in 1 .. Len(Tail(s)) : Tail(s)[i] \in T
         /\ Head(s) \in S /\ Head(s) \in T
<1>1. Tail(s) \in Seq(S) /\ Len(Tail(s)) = Len(s) - 1 /\ Len(s) \in Nat \ {0}
  OBVIOUS
<1>2. ASSUME NEW i \in 1 .. Len(s) - 1 PROVE Tail(s)[i] \in T
  <2>1. Tail(s)[i] = s[i + 1] /\ i + 1 \in 1 .. Len(s)
    BY <1>1
  <2>. QED BY <2>1
<1>3. Head(s) = s[1] /\ 1 \in 1 .. Len(s)
  BY <1>1
<1>4. Head(s) \in S
  BY <1>3
<1>. QED BY <1>1, <1>2, <1>3, <1>4

-----------------------------------------------------------------------------
(* The connections, seen by what holds of everything on them.              *)

PMsg == {"PREPARE", "GLOBAL_COMMIT", "GLOBAL_ABORT"}
CMsg == {"VOTE_COMMIT", "VOTE_ABORT", "ACK"}
Entries == {"BEGIN", "VOTE_COMMIT", "VOTE_ABORT", "COMMIT", "ABORT"}

LEMMA SendToIn ==
  ASSUME NEW p \in Participant, NEW m \in PMsg, SendTo(p, m), TypeOK,
         ToldInv, m \in clog
  PROVE  /\ toP' \in [Participant -> Seq(PMsg)] /\ failures' \in 0 .. MaxFailures
         /\ \A q \in Participant :
              \A i \in 1 .. Len(toP'[q]) : toP'[q][i] \in clog
<1>1. toP \in [Participant -> Seq(PMsg)]
  BY DEF TypeOK, PMsg
<1>2. failures' \in 0 .. MaxFailures
  BY TwoPhaseAssumption DEF SendTo, Failure, TypeOK
<1>3. CASE toP' = toP
  BY <1>1, <1>2, <1>3 DEF ToldInv
<1>4. CASE toP' = [toP EXCEPT ![p] = Append(@, m)]
  <2>1. \A i \in 1 .. Len(toP[p]) : toP[p][i] \in clog
    BY DEF ToldInv
  <2>2. toP[p] \in Seq(PMsg)
    BY <1>1
  <2>3. /\ Append(toP[p], m) \in Seq(PMsg)
        /\ \A i \in 1 .. Len(Append(toP[p], m)) : Append(toP[p], m)[i] \in clog
    BY <2>1, <2>2, AppendIn
  <2>4. toP' \in [Participant -> Seq(PMsg)]
    BY <1>1, <1>4, <2>3
  <2>5. ASSUME NEW q \in Participant
        PROVE \A i \in 1 .. Len(toP'[q]) : toP'[q][i] \in clog
    <3>1. CASE q = p
      BY <1>1, <1>4, <2>3, <3>1
    <3>2. CASE q # p
      BY <1>1, <1>4, <3>2 DEF ToldInv
    <3>. QED BY <3>1, <3>2
  <2>. QED BY <1>2, <2>4, <2>5
<1>. QED BY <1>3, <1>4 DEF SendTo

LEMMA SendBackIn ==
  ASSUME NEW p \in Participant, NEW m \in CMsg, SendBack(p, m), TypeOK,
         AnswerInv, m \in Justified(p)
  PROVE  /\ toC' \in [Participant -> Seq(CMsg)] /\ failures' \in 0 .. MaxFailures
         /\ \A q \in Participant :
             \A i \in 1 .. Len(toC'[q]) : toC'[q][i] \in Justified(q)
<1>1. toC \in [Participant -> Seq(CMsg)]
  BY DEF TypeOK, CMsg
<1>2. failures' \in 0 .. MaxFailures
  BY TwoPhaseAssumption DEF SendBack, Failure, TypeOK
<1>3. CASE toC' = toC
  BY <1>1, <1>2, <1>3 DEF AnswerInv
<1>4. CASE toC' = [toC EXCEPT ![p] = Append(@, m)]
  <2>1. \A i \in 1 .. Len(toC[p]) : toC[p][i] \in Justified(p)
    BY DEF AnswerInv
  <2>2. toC[p] \in Seq(CMsg)
    BY <1>1
  <2>3. /\ Append(toC[p], m) \in Seq(CMsg)
        /\ \A i \in 1 .. Len(Append(toC[p], m)) : Append(toC[p], m)[i] \in Justified(p)
    BY <2>1, <2>2, AppendIn
  <2>4. toC' \in [Participant -> Seq(CMsg)]
    BY <1>1, <1>4, <2>3
  <2>5. ASSUME NEW q \in Participant
        PROVE \A i \in 1 .. Len(toC'[q]) : toC'[q][i] \in Justified(q)
    <3>1. CASE q = p
      BY <1>1, <1>4, <2>3, <3>1
    <3>2. CASE q # p
      BY <1>1, <1>4, <3>2 DEF AnswerInv
    <3>. QED BY <3>1, <3>2
  <2>. QED BY <1>2, <2>4, <2>5
<1>. QED BY <1>3, <1>4 DEF SendBack

LEMMA ReceivedIn ==
  ASSUME NEW p \in Participant, NEW m, Received(p, m), TypeOK, ToldInv
  PROVE  /\ toP' \in [Participant -> Seq(PMsg)]
         /\ \A q \in Participant :
              \A i \in 1 .. Len(toP'[q]) : toP'[q][i] \in clog
         /\ m \in clog
<1>1. toP \in [Participant -> Seq(PMsg)]
  BY DEF TypeOK, PMsg
<1>2. \A i \in 1 .. Len(toP[p]) : toP[p][i] \in clog
  BY DEF ToldInv
<1>3. toP[p] \in Seq(PMsg) /\ toP[p] # << >>
  BY <1>1 DEF Received
<1>4. /\ Tail(toP[p]) \in Seq(PMsg)
      /\ \A i \in 1 .. Len(Tail(toP[p])) : Tail(toP[p])[i] \in clog
      /\ Head(toP[p]) \in clog
  BY <1>2, <1>3, TailIn
<1>5. toP' = [toP EXCEPT ![p] = Tail(toP[p])]
  BY DEF Received
<1>6. toP' \in [Participant -> Seq(PMsg)]
  BY <1>1, <1>4, <1>5
<1>7. ASSUME NEW q \in Participant
      PROVE \A i \in 1 .. Len(toP'[q]) : toP'[q][i] \in clog
  <2>1. CASE q = p
    BY <1>1, <1>4, <1>5, <2>1
  <2>2. CASE q # p
    BY <1>1, <1>5, <2>2 DEF ToldInv
  <2>. QED BY <2>1, <2>2
<1>. QED BY <1>4, <1>6, <1>7 DEF Received

-----------------------------------------------------------------------------
(* Every step keeps the invariant.                                         *)

\* A step of coordinate_commit that neither sends nor logs.
LEMMA QuietStepKeeps ==
  ASSUME IInv,
         \/ LookAtVotes \/ ClearVotes \/ VoteTimeout \/ LookAtAcks \/ ClearAcks
         \/ AckTimeout \/ Retry \/ Return
  PROVE  IInv'
<1>. USE DEF IInv
<1>1. CASE LookAtVotes \/ LookAtAcks
  <2>1. TypeOK'
    BY TwoPhaseAssumption, <1>1
    DEF TypeOK, LookAtVotes, LookAtAcks, WaitFor, logs, caller, answers, part,
        Calling, Voting, NoVotes, Log, Failure
  <2>2. CallInv'
    BY <1>1
    DEF CallInv, TypeOK, LookAtVotes, LookAtAcks, WaitFor, logs, caller,
        answers, part, Calling, Voting, Informing, Decisions, Undecided
  <2>3. ToldInv'
    BY <1>1
    DEF ToldInv, TypeOK, LookAtVotes, LookAtAcks, WaitFor, logs, caller,
        answers, part
  <2>4. AnswerInv'
    BY <1>1
    DEF AnswerInv, Justified, Settled, Ended, TypeOK, LookAtVotes, LookAtAcks,
        WaitFor, logs, caller, answers, part, NoVotes, Log
  <2>5. VoteInv' /\ LogInv'
    BY <1>1
    DEF VoteInv, LogInv, LogOK, Ended, TypeOK, LookAtVotes, LookAtAcks,
        WaitFor, logs, caller, answers, part, Log
  <2>. QED BY <2>1, <2>2, <2>3, <2>4, <2>5
<1>2. CASE ClearVotes \/ ClearAcks
  <2>1. TypeOK'
    BY TwoPhaseAssumption, <1>2
    DEF TypeOK, ClearVotes, ClearAcks, logs, caller, answers, part, Calling,
        Voting, NoVotes, Log, Failure
  <2>2. CallInv'
    BY <1>2
    DEF CallInv, TypeOK, ClearVotes, ClearAcks, logs, caller, answers, part,
        Calling, Voting, Informing, Decisions, Undecided
  <2>3. ToldInv'
    BY <1>2
    DEF ToldInv, TypeOK, ClearVotes, ClearAcks, logs, caller, answers, part
  <2>4. AnswerInv'
    <3>1. UNCHANGED <<logs, part, votes, acks, toC>>
      BY <1>2 DEF ClearVotes, ClearAcks
    <3>. QED BY <3>1 DEF AnswerInv, Justified, Settled, Ended, logs, part
  <2>5. VoteInv' /\ LogInv'
    BY <1>2
    DEF VoteInv, LogInv, LogOK, Ended, TypeOK, ClearVotes, ClearAcks, logs,
        caller, answers, part, Log
  <2>. QED BY <2>1, <2>2, <2>3, <2>4, <2>5
<1>3. CASE VoteTimeout \/ AckTimeout
  <2>1. TypeOK'
    BY TwoPhaseAssumption, <1>3
    DEF TypeOK, VoteTimeout, AckTimeout, Deadline, logs, caller, answers, part,
        Calling, Voting, NoVotes, Log, Failure
  <2>2. CallInv'
    BY <1>3
    DEF CallInv, TypeOK, VoteTimeout, AckTimeout, Deadline, logs, caller,
        answers, part, Calling, Voting, Informing, Decisions, Undecided
  <2>3. ToldInv'
    BY <1>3
    DEF ToldInv, TypeOK, VoteTimeout, AckTimeout, Deadline, logs, caller,
        answers, part
  <2>4. AnswerInv'
    BY <1>3
    DEF AnswerInv, Justified, Settled, Ended, TypeOK, VoteTimeout, AckTimeout,
        Deadline, logs, caller, answers, part, NoVotes, Log
  <2>5. VoteInv' /\ LogInv'
    BY <1>3
    DEF VoteInv, LogInv, LogOK, Ended, TypeOK, VoteTimeout, AckTimeout,
        Deadline, logs, caller, answers, part, Log
  <2>. QED BY <2>1, <2>2, <2>3, <2>4, <2>5
<1>4. CASE Retry
  <2>1. TypeOK'
    <3>1. attempt' \in 0 .. AckRetries
      BY TwoPhaseAssumption, <1>4 DEF TypeOK, Retry, RetriesLeft
    <3>2. todo' \subseteq Participant
      BY <1>4 DEF TypeOK, Retry
    <3>. QED
      BY <1>4, <3>1, <3>2
      DEF TypeOK, Retry, logs, answers, part, Calling, Voting
  <2>2. CallInv'
    BY <1>4
    DEF CallInv, TypeOK, Retry, logs, caller, answers, part, Calling, Voting,
        Informing, Decisions, Undecided
  <2>3. ToldInv'
    BY <1>4 DEF ToldInv, TypeOK, Retry, logs, caller, answers, part
  <2>4. AnswerInv'
    BY <1>4
    DEF AnswerInv, Justified, Settled, Ended, TypeOK, Retry, logs, caller,
        answers, part, NoVotes, Log
  <2>5. VoteInv' /\ LogInv'
    BY <1>4
    DEF VoteInv, LogInv, LogOK, Ended, TypeOK, Retry, logs, caller, answers,
        part, Log
  <2>. QED BY <2>1, <2>2, <2>3, <2>4, <2>5
<1>5. CASE Return
  <2>1. TypeOK'
    <3>1. attempt' \in 0 .. AckRetries
      BY TwoPhaseAssumption, <1>5 DEF Return
    <3>. QED
      BY <1>5, <3>1 DEF TypeOK, Return, logs, part, Calling, Voting
  <2>2. CallInv'
    BY <1>5
    DEF CallInv, TypeOK, Return, logs, caller, answers, part, Calling, Voting,
        Informing, Decisions, Undecided
  <2>3. ToldInv'
    BY <1>5 DEF ToldInv, TypeOK, Return, logs, caller, answers, part
  <2>4. AnswerInv'
    BY <1>5
    DEF AnswerInv, Justified, Settled, Ended, TypeOK, Return, logs, caller,
        answers, part, NoVotes, Log
  <2>5. VoteInv' /\ LogInv'
    BY <1>5
    DEF VoteInv, LogInv, LogOK, Ended, TypeOK, Return, logs, caller, answers,
        part, Log
  <2>. QED BY <2>1, <2>2, <2>3, <2>4, <2>5
<1>. QED BY <1>1, <1>2, <1>3, <1>4, <1>5

LEMMA LoudStepKeeps ==
  ASSUME IInv, Coordinate \/ SendPrepare \/ Decide \/ SendDecision
  PROVE  IInv'
<1>. USE DEF IInv
<1>1. CASE Coordinate
  <2>1. TypeOK'
    BY TwoPhaseAssumption, <1>1
    DEF TypeOK, Coordinate, logs, caller, answers, part, Calling, Voting,
        NoVotes, Log, Failure
  <2>2. CallInv'
    BY <1>1
    DEF CallInv, TypeOK, Coordinate, logs, caller, answers, part, Calling,
        Voting, Informing, Decisions, Undecided
  <2>3. ToldInv'
    BY <1>1 DEF ToldInv, TypeOK, Coordinate, logs, caller, answers, part
  <2>4. AnswerInv'
    BY <1>1
    DEF AnswerInv, Justified, Settled, Ended, TypeOK, Coordinate, logs, caller,
        answers, part, NoVotes, Log
  <2>5. VoteInv' /\ LogInv'
    BY <1>1
    DEF VoteInv, LogInv, LogOK, Ended, TypeOK, Coordinate, logs, caller,
        answers, part, Log
  <2>. QED BY <2>1, <2>2, <2>3, <2>4, <2>5
<1>2. CASE SendPrepare
  <2>. PICK p \in todo : SendTo(p, "PREPARE") /\ todo' = todo \ {p}
    BY <1>2 DEF SendPrepare, Deliver
  <2>. p \in Participant /\ "PREPARE" \in PMsg /\ "PREPARE" \in clog
    BY <1>2
    DEF TypeOK, CallInv, SendPrepare, Deliver, PMsg, Voting, Informing,
        Decisions
  <2>6. /\ toP' \in [Participant -> Seq(PMsg)] /\ failures' \in 0 .. MaxFailures
        /\ \A q \in Participant : \A i \in 1 .. Len(toP'[q]) : toP'[q][i] \in clog
    BY SendToIn
  <2>1. TypeOK'
    BY <1>2, <2>6
    DEF TypeOK, SendPrepare, Deliver, logs, answers, part, Calling, Voting,
        PMsg
  <2>2. CallInv'
    BY <1>2
    DEF CallInv, TypeOK, SendPrepare, Deliver, logs, caller, answers, part,
        Calling, Voting, Informing, Decisions, Undecided
  <2>3. ToldInv'
    BY <1>2, <2>6 DEF ToldInv, SendPrepare, Deliver, logs
  <2>4. AnswerInv'
    BY <1>2
    DEF AnswerInv, Justified, Settled, Ended, TypeOK, SendPrepare, Deliver,
        logs, caller, answers, part, NoVotes, Log
  <2>5. VoteInv' /\ LogInv'
    BY <1>2
    DEF VoteInv, LogInv, LogOK, Ended, TypeOK, SendPrepare, Deliver, logs,
        caller, answers, part, Log
  <2>. QED BY <2>1, <2>2, <2>3, <2>4, <2>5
<1>3. CASE Decide
  <2>1. TypeOK'
    BY TwoPhaseAssumption, <1>3
    DEF TypeOK, Decide, logs, caller, answers, part, Calling, Voting, NoVotes,
        Log, Failure
  <2>2. CallInv'
    BY <1>3
    DEF CallInv, TypeOK, Decide, logs, caller, answers, part, Calling, Voting,
        Informing, Decisions, Undecided
  <2>3. ToldInv'
    BY <1>3 DEF ToldInv, TypeOK, Decide, logs, caller, answers, part
  <2>4. AnswerInv'
    BY <1>3
    DEF AnswerInv, Justified, Settled, Ended, TypeOK, Decide, logs, caller,
        answers, part, NoVotes, Log
  <2>5. VoteInv' /\ LogInv'
    BY <1>3
    DEF VoteInv, LogInv, LogOK, Ended, TypeOK, Decide, logs, caller, answers,
        part, Log
  <2>. QED BY <2>1, <2>2, <2>3, <2>4, <2>5
<1>4. CASE SendDecision
  <2>. PICK p \in todo : SendTo(p, decision) /\ todo' = todo \ {p}
    BY <1>4 DEF SendDecision, Deliver
  <2>. p \in Participant /\ decision \in PMsg /\ decision \in clog
    BY <1>4
    DEF TypeOK, CallInv, SendDecision, Deliver, PMsg, Voting, Informing,
        Decisions
  <2>6. /\ toP' \in [Participant -> Seq(PMsg)] /\ failures' \in 0 .. MaxFailures
        /\ \A q \in Participant : \A i \in 1 .. Len(toP'[q]) : toP'[q][i] \in clog
    BY SendToIn
  <2>1. TypeOK'
    BY <1>4, <2>6
    DEF TypeOK, SendDecision, Deliver, logs, answers, part, Calling, Voting,
        PMsg
  <2>2. CallInv'
    BY <1>4
    DEF CallInv, TypeOK, SendDecision, Deliver, logs, caller, answers, part,
        Calling, Voting, Informing, Decisions, Undecided
  <2>3. ToldInv'
    BY <1>4, <2>6 DEF ToldInv, SendDecision, Deliver, logs
  <2>4. AnswerInv'
    BY <1>4
    DEF AnswerInv, Justified, Settled, Ended, TypeOK, SendDecision, Deliver,
        logs, caller, answers, part, NoVotes, Log
  <2>5. VoteInv' /\ LogInv'
    BY <1>4
    DEF VoteInv, LogInv, LogOK, Ended, TypeOK, SendDecision, Deliver, logs,
        caller, answers, part, Log
  <2>. QED BY <2>1, <2>2, <2>3, <2>4, <2>5
<1>. QED BY <1>1, <1>2, <1>3, <1>4

\* Crash, restart and recovery of the coordinator.
LEMMA CoordinatorFailureKeeps ==
  ASSUME IInv, CrashCoordinator \/ RestartCoordinator \/ RecoverCoordinator
  PROVE  IInv'
<1>. USE DEF IInv
<1>1. CASE CrashCoordinator
  <2>1. TypeOK'
    <3>1. attempt' \in 0 .. AckRetries /\ failures' \in 0 .. MaxFailures
      BY TwoPhaseAssumption, <1>1 DEF TypeOK, CrashCoordinator, Failure
    <3>2. toC' \in [Participant -> Seq(CMsg)]
      BY <1>1 DEF CrashCoordinator
    <3>. QED
      BY <1>1, <3>1, <3>2
      DEF TypeOK, CrashCoordinator, logs, part, NoVotes, CMsg
  <2>2. CallInv'
    BY <1>1
    DEF CallInv, TypeOK, CrashCoordinator, logs, caller, answers, part,
        Calling, Voting, Informing, Decisions, Undecided
  <2>3. ToldInv'
    BY <1>1 DEF ToldInv, TypeOK, CrashCoordinator, logs, caller, answers, part
  <2>4. AnswerInv'
    BY <1>1
    DEF AnswerInv, Justified, Settled, Ended, TypeOK, CrashCoordinator, logs,
        caller, answers, part, NoVotes, Log
  <2>5. VoteInv' /\ LogInv'
    BY <1>1
    DEF VoteInv, LogInv, LogOK, Ended, TypeOK, CrashCoordinator, logs, caller,
        answers, part, Log
  <2>. QED BY <2>1, <2>2, <2>3, <2>4, <2>5
<1>2. CASE RestartCoordinator
  <2>1. TypeOK'
    BY TwoPhaseAssumption, <1>2
    DEF TypeOK, RestartCoordinator, logs, caller, answers, part, Calling,
        Voting, NoVotes, Log, Failure
  <2>2. CallInv'
    BY <1>2
    DEF CallInv, TypeOK, RestartCoordinator, logs, caller, answers, part,
        Calling, Voting, Informing, Decisions, Undecided
  <2>3. ToldInv'
    BY <1>2 DEF ToldInv, TypeOK, RestartCoordinator, logs, caller, answers, part
  <2>4. AnswerInv'
    BY <1>2
    DEF AnswerInv, Justified, Settled, Ended, TypeOK, RestartCoordinator, logs,
        caller, answers, part, NoVotes, Log
  <2>5. VoteInv' /\ LogInv'
    BY <1>2
    DEF VoteInv, LogInv, LogOK, Ended, TypeOK, RestartCoordinator, logs,
        caller, answers, part, Log
  <2>. QED BY <2>1, <2>2, <2>3, <2>4, <2>5
<1>3. CASE RecoverCoordinator
  <2>1. TypeOK'
    BY TwoPhaseAssumption, <1>3
    DEF TypeOK, RecoverCoordinator, logs, caller, answers, part, Calling,
        Voting, NoVotes, Log, Failure
  <2>2. CallInv'
    BY <1>3
    DEF CallInv, TypeOK, RecoverCoordinator, logs, caller, answers, part,
        Calling, Voting, Informing, Decisions, Undecided
  <2>3. ToldInv'
    BY <1>3 DEF ToldInv, TypeOK, RecoverCoordinator, logs, caller, answers, part
  <2>4. AnswerInv'
    BY <1>3
    DEF AnswerInv, Justified, Settled, Ended, TypeOK, RecoverCoordinator, logs,
        caller, answers, part, NoVotes, Log
  <2>5. VoteInv' /\ LogInv'
    BY <1>3
    DEF VoteInv, LogInv, LogOK, Ended, TypeOK, RecoverCoordinator, logs,
        caller, answers, part, Log
  <2>. QED BY <2>1, <2>2, <2>3, <2>4, <2>5
<1>. QED BY <1>1, <1>2, <1>3

LEMMA ReceiveAnswerKeeps ==
  ASSUME IInv, NEW p \in Participant, ReceiveAnswer(p)
  PROVE  IInv'
<1>. USE DEF IInv
<1>6. /\ Tail(toC[p]) \in Seq(CMsg)
      /\ \A i \in 1 .. Len(Tail(toC[p])) : Tail(toC[p])[i] \in Justified(p)
      /\ Head(toC[p]) \in CMsg /\ Head(toC[p]) \in Justified(p)
  <2>1. toC[p] \in Seq(CMsg) /\ toC[p] # << >>
    BY DEF TypeOK, CMsg, ReceiveAnswer
  <2>2. \A i \in 1 .. Len(toC[p]) : toC[p][i] \in Justified(p)
    BY DEF AnswerInv
  <2>. QED BY <2>1, <2>2, TailIn
<1>7. toC' = [toC EXCEPT ![p] = Tail(toC[p])]
  BY DEF ReceiveAnswer
<1>1. TypeOK'
  <2>1. toC' \in [Participant -> Seq(CMsg)]
    BY <1>6, <1>7 DEF TypeOK, CMsg
  <2>. QED
    BY <1>6, <2>1 DEF TypeOK, ReceiveAnswer, CMsg, logs, caller, answers, part
<1>2. CallInv'
  BY DEF CallInv, ReceiveAnswer, logs, caller
<1>3. ToldInv'
  BY DEF ToldInv, ReceiveAnswer, logs
<1>4. AnswerInv'
  <2>1. \A q \in Participant : Justified(q)' = Justified(q)
    BY DEF ReceiveAnswer, Justified, Settled, Ended, logs, part
  <2>2. ASSUME NEW q \in Participant
        PROVE \A i \in 1 .. Len(toC'[q]) : toC'[q][i] \in Justified(q)
    <3>1. CASE q = p
      BY <1>6, <1>7, <3>1 DEF TypeOK
    <3>2. CASE q # p
      BY <1>7, <3>2 DEF TypeOK, AnswerInv
    <3>. QED BY <3>1, <3>2
  <2>. QED
    BY <1>6, <2>1, <2>2
    DEF AnswerInv, ReceiveAnswer, Justified, Settled, Ended, TypeOK, logs,
        part, answers
<1>5. VoteInv' /\ LogInv'
  BY DEF VoteInv, LogInv, LogOK, Ended, ReceiveAnswer, logs, part
<1>. QED BY <1>1, <1>2, <1>3, <1>4, <1>5

\* What an entry in the log of a participant does to what is said of its end.
LEMMA LogIn ==
  ASSUME TypeOK, NEW p \in Participant, NEW e \in Entries \ {"BEGIN"}, Log(p, {e})
  PROVE  /\ plog' \in [Participant -> SUBSET Entries]
         /\ plog' = [plog EXCEPT ![p] = plog[p] \cup {e}]
         /\ e \in {"COMMIT", "ABORT"} => Ended(p)'
         /\ e \notin {"COMMIT", "ABORT"} => (Ended(p)' <=> Ended(p))
         /\ \A q \in Participant :
              /\ "BEGIN" \in plog'[q] <=> "BEGIN" \in plog[q]
              /\ Ended(q) => Ended(q)'
              /\ q # p => (Ended(q)' <=> Ended(q))
<1>1. plog \in [Participant -> SUBSET Entries]
  BY DEF TypeOK, Entries
<1>2. plog' = [plog EXCEPT ![p] = plog[p] \cup {e}]
  BY DEF Log
<1>3. plog[p] \cup {e} \in SUBSET Entries
  BY <1>1 DEF Entries
<1>4. plog' \in [Participant -> SUBSET Entries]
  BY <1>1, <1>2, <1>3
<1>5. \A q \in Participant : q # p => plog'[q] = plog[q]
  BY <1>1, <1>2
<1>6. plog'[p] = plog[p] \cup {e}
  BY <1>1, <1>2
<1>7. /\ e \in {"COMMIT", "ABORT"} => Ended(p)'
      /\ e \notin {"COMMIT", "ABORT"} => (Ended(p)' <=> Ended(p))
  BY <1>6 DEF Ended
<1>8. ASSUME NEW q \in Participant
      PROVE  /\ "BEGIN" \in plog'[q] <=> "BEGIN" \in plog[q]
             /\ Ended(q) => Ended(q)'
             /\ q # p => (Ended(q)' <=> Ended(q))
  <2>1. CASE q = p
    BY <1>6, <2>1 DEF Ended
  <2>2. CASE q # p
    BY <1>5, <2>2 DEF Ended
  <2>. QED BY <2>1, <2>2
<1>. QED BY <1>2, <1>4, <1>7, <1>8

\* A message is handled by a participant.
LEMMA HandlerKeeps ==
  ASSUME IInv, NEW p \in Participant,
         HandlePrepare(p) \/ SendVote(p) \/ HandleDecision(p) \/ SendAck(p)
  PROVE  IInv'
<1>. USE DEF IInv
<1>1. CASE HandlePrepare(p)
  <2>6. /\ toP' \in [Participant -> Seq(PMsg)]
        /\ \A q \in Participant : \A i \in 1 .. Len(toP'[q]) : toP'[q][i] \in clog
    BY <1>1, ReceivedIn DEF HandlePrepare
  <2>. DEFINE e == IF check[p] THEN "VOTE_COMMIT" ELSE "VOTE_ABORT"
  <2>. e \in Entries \ {"BEGIN"}
    BY DEF Entries
  <2>7. Log(p, {e})
    BY <1>1 DEF HandlePrepare
  <2>. HIDE DEF e
  <2>8. /\ plog' \in [Participant -> SUBSET Entries]
        /\ plog' = [plog EXCEPT ![p] = plog[p] \cup {e}]
        /\ e \in {"COMMIT", "ABORT"} => Ended(p)'
        /\ e \notin {"COMMIT", "ABORT"} => (Ended(p)' <=> Ended(p))
        /\ \A q \in Participant :
             /\ "BEGIN" \in plog'[q] <=> "BEGIN" \in plog[q]
             /\ Ended(q) => Ended(q)'
             /\ q # p => (Ended(q)' <=> Ended(q))
    BY <2>7, LogIn
  <2>. USE DEF e
  <2>1. TypeOK'
    BY <1>1, <2>6, <2>8
    DEF TypeOK, HandlePrepare, caller, answers, PMsg, Entries
  <2>2. CallInv'
    BY <1>1 DEF CallInv, HandlePrepare, caller
  <2>3. ToldInv'
    BY <1>1, <2>6 DEF ToldInv, HandlePrepare
  <2>4. AnswerInv'
    BY <1>1, <2>8
    DEF AnswerInv, Justified, Settled, TypeOK, HandlePrepare, answers
  <2>5. VoteInv' /\ LogInv'
    <3>1. VoteInv'
      BY <1>1, <2>8 DEF VoteInv, TypeOK, HandlePrepare
    <3>2. ASSUME NEW q \in Participant, q # p PROVE LogOK(q)'
      BY <1>1, <2>8, <3>2 DEF LogInv, LogOK, TypeOK, HandlePrepare
    <3>3. LogOK(p)'
      BY <1>1, <2>8 DEF LogInv, LogOK, TypeOK, HandlePrepare, Received
    <3>. QED BY <3>1, <3>2, <3>3 DEF LogInv
  <2>. QED BY <2>1, <2>2, <2>3, <2>4, <2>5
<1>2. CASE SendVote(p)
  <2>. DEFINE m == IF check[p] THEN "VOTE_COMMIT" ELSE "VOTE_ABORT"
  <2>. m \in CMsg /\ m \in Justified(p)
    BY <1>2 DEF SendVote, AnswerInv, Justified, CMsg
  <2>6. /\ toC' \in [Participant -> Seq(CMsg)] /\ failures' \in 0 .. MaxFailures
        /\ \A q \in Participant :
             \A i \in 1 .. Len(toC'[q]) : toC'[q][i] \in Justified(q)
    BY <1>2, SendBackIn DEF SendVote
  <2>1. TypeOK'
    BY <1>2, <2>6 DEF TypeOK, SendVote, logs, caller, answers, CMsg
  <2>2. CallInv'
    BY <1>2
    DEF CallInv, TypeOK, SendVote, logs, caller, answers, part, Calling,
        Voting, Informing, Decisions, Undecided
  <2>3. ToldInv'
    BY <1>2 DEF ToldInv, TypeOK, SendVote, logs, caller, answers, part
  <2>4. AnswerInv'
    BY <1>2, <2>6
    DEF AnswerInv, Justified, Settled, Ended, TypeOK, SendVote, logs, answers
  <2>5. VoteInv' /\ LogInv'
    BY <1>2
    DEF VoteInv, LogInv, LogOK, Ended, TypeOK, SendVote, logs, caller, answers,
        part, Log
  <2>. QED BY <2>1, <2>2, <2>3, <2>4, <2>5
<1>3. CASE HandleDecision(p)
  <2>6. /\ toP' \in [Participant -> Seq(PMsg)]
        /\ \A q \in Participant : \A i \in 1 .. Len(toP'[q]) : toP'[q][i] \in clog
    BY <1>3, ReceivedIn DEF HandleDecision
  <2>7. \/ /\ "GLOBAL_COMMIT" \in clog
           /\ hand' = [hand EXCEPT ![p] = Doing(p, "commit")]
        \/ hand' = [hand EXCEPT ![p] = Doing(p, "abort")]
    BY <1>3, ReceivedIn DEF HandleDecision
  <2>8. hand[p] = "idle"
    BY <1>3 DEF HandleDecision, Received
  <2>1. TypeOK'
    BY <1>3, <2>6, <2>7
    DEF TypeOK, HandleDecision, Doing, logs, caller, answers, PMsg
  <2>2. CallInv'
    BY <1>3 DEF CallInv, HandleDecision, logs, caller
  <2>3. ToldInv'
    BY <1>3, <2>6 DEF ToldInv, HandleDecision, logs
  <2>4. AnswerInv'
    BY <1>3, <2>7, <2>8
    DEF AnswerInv, Justified, Settled, Ended, TypeOK, HandleDecision, Doing,
        logs, answers
  <2>5. VoteInv' /\ LogInv'
    <3>1. VoteInv'
      BY <1>3 DEF VoteInv, HandleDecision, logs
    <3>2. ASSUME NEW q \in Participant, q # p PROVE LogOK(q)'
      BY <1>3, <2>7, <3>2
      DEF LogInv, LogOK, Ended, TypeOK, HandleDecision, logs
    <3>3. LogOK(p)'
      <4>1. LogOK(p) /\ hand[p] = "idle"
        BY <2>8 DEF LogInv
      <4>2. UNCHANGED <<plog, clog, status, local>> /\ (Ended(p)' <=> Ended(p))
        BY <1>3 DEF HandleDecision, logs, Ended
      <4>3. CASE status[p] = "active"
        <5>1. \/ hand'[p] = "commit" /\ "GLOBAL_COMMIT" \in clog
              \/ hand'[p] = "abort"
          BY <2>7, <4>3 DEF Doing, TypeOK
        <5>. QED BY <4>1, <4>2, <4>3, <5>1 DEF LogOK
      <4>4. CASE status[p] # "active"
        <5>1. hand'[p] = "ack"
          BY <2>7, <4>4 DEF Doing, TypeOK
        <5>. QED BY <4>1, <4>2, <4>4, <5>1 DEF LogOK
      <4>. QED BY <4>3, <4>4
    <3>. QED BY <3>1, <3>2, <3>3 DEF LogInv
  <2>. QED BY <2>1, <2>2, <2>3, <2>4, <2>5
<1>4. CASE SendAck(p)
  <2>. DEFINE m == "ACK"
  <2>. m \in CMsg /\ m \in Justified(p)
    BY <1>4
    DEF SendAck, AnswerInv, LogInv, LogOK, Ended, Settled, Justified, TypeOK,
        CMsg
  <2>6. /\ toC' \in [Participant -> Seq(CMsg)] /\ failures' \in 0 .. MaxFailures
        /\ \A q \in Participant :
             \A i \in 1 .. Len(toC'[q]) : toC'[q][i] \in Justified(q)
    BY <1>4, SendBackIn DEF SendAck
  <2>1. TypeOK'
    BY <1>4, <2>6 DEF TypeOK, SendAck, logs, caller, answers, CMsg
  <2>2. CallInv'
    BY <1>4
    DEF CallInv, TypeOK, SendAck, logs, caller, answers, part, Calling, Voting,
        Informing, Decisions, Undecided
  <2>3. ToldInv'
    BY <1>4 DEF ToldInv, TypeOK, SendAck, logs, caller, answers, part
  <2>4. AnswerInv'
    BY <1>4, <2>6
    DEF AnswerInv, Justified, Settled, Ended, TypeOK, SendAck, logs, answers
  <2>5. VoteInv' /\ LogInv'
    BY <1>4
    DEF VoteInv, LogInv, LogOK, Ended, TypeOK, SendAck, logs, caller, answers,
        part, Log
  <2>. QED BY <2>1, <2>2, <2>3, <2>4, <2>5
<1>. QED BY <1>1, <1>2, <1>3, <1>4

\* A transaction is ended by the handler of a decision.
LEMMA EndKeeps ==
  ASSUME IInv, NEW p \in Participant, LogEnd(p) \/ FinishEnd(p)
  PROVE  IInv'
<1>. USE DEF IInv
<1>1. CASE LogEnd(p)
  <2>. PICK e \in {"COMMIT", "ABORT"} : Log(p, {e})
    BY <1>1 DEF LogEnd
  <2>6. /\ plog' \in [Participant -> SUBSET Entries]
        /\ plog' = [plog EXCEPT ![p] = plog[p] \cup {e}]
        /\ Ended(p)'
        /\ \A q \in Participant :
             /\ "BEGIN" \in plog'[q] <=> "BEGIN" \in plog[q]
             /\ Ended(q) => Ended(q)'
             /\ q # p => (Ended(q)' <=> Ended(q))
    BY LogIn DEF Entries
  <2>1. TypeOK'
    BY <1>1, <2>6 DEF TypeOK, LogEnd, caller, answers, Entries
  <2>2. CallInv' /\ ToldInv'
    BY <1>1 DEF CallInv, ToldInv, LogEnd, caller
  <2>3. AnswerInv'
    BY <1>1, <2>6 DEF AnswerInv, Justified, Settled, TypeOK, LogEnd, answers
  <2>4. VoteInv'
    BY <1>1, <2>6 DEF VoteInv, LogEnd
  <2>5. LogInv'
    <3>1. ASSUME NEW q \in Participant, q # p PROVE LogOK(q)'
      BY <1>1, <2>6, <3>1 DEF LogInv, LogOK, TypeOK, LogEnd
    <3>2. LogOK(p)'
      BY <1>1, <2>6 DEF LogInv, LogOK, TypeOK, LogEnd
    <3>. QED BY <3>1, <3>2 DEF LogInv
  <2>. QED BY <2>1, <2>2, <2>3, <2>4, <2>5
<1>2. CASE FinishEnd(p)
  <2>1. TypeOK'
    BY <1>2 DEF TypeOK, FinishEnd, logs, caller, answers
  <2>2. CallInv' /\ ToldInv'
    BY <1>2 DEF CallInv, ToldInv, FinishEnd, logs, caller
  <2>3. AnswerInv'
    BY <1>2
    DEF AnswerInv, Justified, Settled, LogInv, LogOK, Ended, TypeOK, FinishEnd,
        logs, answers
  <2>4. VoteInv'
    BY <1>2 DEF VoteInv, FinishEnd, logs
  <2>5. LogInv'
    BY <1>2 DEF LogInv, LogOK, Ended, TypeOK, FinishEnd, logs
  <2>. QED BY <2>1, <2>2, <2>3, <2>4, <2>5
<1>. QED BY <1>1, <1>2

\* A transaction is aborted by another thread.
LEMMA LocalAbortKeeps ==
  ASSUME IInv, NEW p \in Participant,
         StartAbort(p) \/ LogAbort(p) \/ ClearBuffer(p) \/ FinishAbort(p)
  PROVE  IInv'
<1>. USE DEF IInv
<1>1. CASE StartAbort(p)
  <2>1. TypeOK'
    BY <1>1 DEF TypeOK, StartAbort, logs, caller, answers
  <2>2. CallInv' /\ ToldInv'
    BY <1>1 DEF CallInv, ToldInv, StartAbort, logs, caller
  <2>3. AnswerInv' /\ VoteInv'
    BY <1>1
    DEF AnswerInv, VoteInv, Justified, Settled, Ended, TypeOK, StartAbort,
        logs, answers
  <2>4. LogInv'
    BY <1>1 DEF LogInv, LogOK, Ended, TypeOK, StartAbort, logs
  <2>. QED BY <2>1, <2>2, <2>3, <2>4
<1>2. CASE LogAbort(p)
  <2>6. /\ plog' \in [Participant -> SUBSET Entries]
        /\ plog' = [plog EXCEPT ![p] = plog[p] \cup {"ABORT"}]
        /\ Ended(p)'
        /\ \A q \in Participant :
             /\ "BEGIN" \in plog'[q] <=> "BEGIN" \in plog[q]
             /\ Ended(q) => Ended(q)'
             /\ q # p => (Ended(q)' <=> Ended(q))
    BY <1>2, LogIn DEF LogAbort, Entries
  <2>1. TypeOK'
    BY <1>2, <2>6 DEF TypeOK, LogAbort, caller, answers, Entries
  <2>2. CallInv' /\ ToldInv'
    BY <1>2 DEF CallInv, ToldInv, LogAbort, caller
  <2>3. AnswerInv'
    BY <1>2, <2>6 DEF AnswerInv, Justified, Settled, TypeOK, LogAbort, answers
  <2>4. VoteInv'
    BY <1>2, <2>6 DEF VoteInv, LogAbort
  <2>5. LogInv'
    <3>1. ASSUME NEW q \in Participant, q # p PROVE LogOK(q)'
      BY <1>2, <2>6, <3>1 DEF LogInv, LogOK, TypeOK, LogAbort
    <3>2. LogOK(p)'
      BY <1>2, <2>6 DEF LogInv, LogOK, TypeOK, LogAbort
    <3>. QED BY <3>1, <3>2 DEF LogInv
  <2>. QED BY <2>1, <2>2, <2>3, <2>4, <2>5
<1>3. CASE ClearBuffer(p)
  <2>1. TypeOK'
    BY <1>3 DEF TypeOK, ClearBuffer, logs, caller, answers
  <2>2. CallInv' /\ ToldInv'
    BY <1>3 DEF CallInv, ToldInv, ClearBuffer, logs, caller
  <2>3. AnswerInv' /\ VoteInv'
    BY <1>3
    DEF AnswerInv, VoteInv, Justified, Settled, Ended, TypeOK, ClearBuffer,
        logs, answers
  <2>4. LogInv'
    BY <1>3 DEF LogInv, LogOK, Ended, TypeOK, ClearBuffer, logs
  <2>. QED BY <2>1, <2>2, <2>3, <2>4
<1>4. CASE FinishAbort(p)
  <2>1. TypeOK'
    BY <1>4 DEF TypeOK, FinishAbort, logs, caller, answers
  <2>2. CallInv' /\ ToldInv'
    BY <1>4 DEF CallInv, ToldInv, FinishAbort, logs, caller
  <2>3. AnswerInv' /\ VoteInv'
    BY <1>4
    DEF AnswerInv, VoteInv, Justified, Settled, LogInv, LogOK, Ended, TypeOK,
        FinishAbort, logs, answers
  <2>4. LogInv'
    BY <1>4 DEF LogInv, LogOK, Ended, TypeOK, FinishAbort, logs
  <2>. QED BY <2>1, <2>2, <2>3, <2>4
<1>. QED BY <1>1, <1>2, <1>3, <1>4

\* What else happens at a participant.
LEMMA ParticipantEventKeeps ==
  ASSUME IInv, NEW p \in Participant,
         RecoverParticipant(p) \/ CrashParticipant(p) \/ RestartParticipant(p)
  PROVE  IInv'
<1>. USE DEF IInv
<1>1. CASE RecoverParticipant(p)
  <2>. DEFINE e == "ABORT"
  <2>. e \in Entries \ {"BEGIN"}
    BY DEF Entries
  <2>7. Log(p, {e})
    BY <1>1 DEF RecoverParticipant
  <2>. HIDE DEF e
  <2>8. /\ plog' \in [Participant -> SUBSET Entries]
        /\ plog' = [plog EXCEPT ![p] = plog[p] \cup {e}]
        /\ e \in {"COMMIT", "ABORT"} => Ended(p)'
        /\ e \notin {"COMMIT", "ABORT"} => (Ended(p)' <=> Ended(p))
        /\ \A q \in Participant :
             /\ "BEGIN" \in plog'[q] <=> "BEGIN" \in plog[q]
             /\ Ended(q) => Ended(q)'
             /\ q # p => (Ended(q)' <=> Ended(q))
    BY <2>7, LogIn
  <2>. USE DEF e
  <2>1. TypeOK'
    BY <1>1, <2>8 DEF TypeOK, RecoverParticipant, caller, answers, part, Entries
  <2>2. CallInv' /\ ToldInv'
    BY <1>1 DEF CallInv, ToldInv, RecoverParticipant, caller
  <2>3. AnswerInv'
    BY <1>1, <2>8
    DEF AnswerInv, Justified, Settled, TypeOK, RecoverParticipant, answers,
        part
  <2>4. VoteInv'
    BY <1>1, <2>8 DEF VoteInv, TypeOK, RecoverParticipant, part
  <2>5. LogInv'
    <3>1. ASSUME NEW q \in Participant, q # p PROVE LogOK(q)'
      BY <1>1, <2>8, <3>1 DEF LogInv, LogOK, TypeOK, RecoverParticipant, part
    <3>2. LogOK(p)'
      BY <1>1, <2>8 DEF LogInv, LogOK, TypeOK, RecoverParticipant, part
    <3>. QED BY <3>1, <3>2 DEF LogInv
  <2>. QED BY <2>1, <2>2, <2>3, <2>4, <2>5
<1>2. CASE CrashParticipant(p)
  <2>1. TypeOK'
    BY TwoPhaseAssumption, <1>2
    DEF TypeOK, CrashParticipant, logs, caller, answers, part, Calling, Voting,
        NoVotes, Log, Failure
  <2>2. CallInv'
    BY <1>2
    DEF CallInv, TypeOK, CrashParticipant, logs, caller, answers, part,
        Calling, Voting, Informing, Decisions, Undecided
  <2>3. ToldInv'
    BY <1>2 DEF ToldInv, TypeOK, CrashParticipant, logs, caller, answers, part
  <2>4. AnswerInv'
    BY <1>2
    DEF AnswerInv, Justified, Settled, Ended, TypeOK, CrashParticipant, logs,
        caller, answers, part, NoVotes, Log
  <2>5. VoteInv' /\ LogInv'
    BY <1>2
    DEF VoteInv, LogInv, LogOK, Ended, TypeOK, CrashParticipant, logs, caller,
        answers, part, Log
  <2>. QED BY <2>1, <2>2, <2>3, <2>4, <2>5
<1>3. CASE RestartParticipant(p)
  <2>6. /\ plog' \in [Participant -> SUBSET Entries]
        /\ \A q \in Participant :
             plog[q] \subseteq plog'[q] /\ plog'[q] \subseteq plog[q] \cup {"ABORT"}
        /\ \A q \in Participant :
             /\ "BEGIN" \in plog'[q] <=> "BEGIN" \in plog[q]
             /\ Ended(q) => Ended(q)'
             /\ q # p => (Ended(q)' <=> Ended(q))
        /\ "BEGIN" \in plog'[p] => Ended(p)'
    <3>1. CASE UNCHANGED plog /\ ("BEGIN" \in plog[p] => Ended(p))
      BY <3>1 DEF TypeOK, Entries, Ended
    <3>2. CASE Log(p, {"ABORT"})
      <4>1. "ABORT" \in Entries \ {"BEGIN"}
        BY DEF Entries
      <4>2. /\ plog' \in [Participant -> SUBSET Entries]
            /\ plog' = [plog EXCEPT ![p] = plog[p] \cup {"ABORT"}]
            /\ Ended(p)'
            /\ \A q \in Participant :
                 /\ "BEGIN" \in plog'[q] <=> "BEGIN" \in plog[q]
                 /\ Ended(q) => Ended(q)'
                 /\ q # p => (Ended(q)' <=> Ended(q))
        BY <3>2, <4>1, LogIn
      <4>3. \A q \in Participant :
              plog[q] \subseteq plog'[q] /\ plog'[q] \subseteq plog[q] \cup {"ABORT"}
        BY <4>2 DEF TypeOK
      <4>. QED BY <4>2, <4>3
    <3>. QED BY <1>3, <3>1, <3>2 DEF RestartParticipant
  <2>1. TypeOK'
    BY <1>3, <2>6 DEF TypeOK, RestartParticipant, caller, answers, Entries
  <2>2. CallInv' /\ ToldInv'
    BY <1>3 DEF CallInv, ToldInv, RestartParticipant, caller
  <2>3. AnswerInv'
    BY <1>3, <2>6
    DEF AnswerInv, Justified, Settled, TypeOK, RestartParticipant, answers
  <2>4. VoteInv'
    BY <1>3, <2>6 DEF VoteInv, TypeOK, RestartParticipant
  <2>5. LogInv'
    <3>1. ASSUME NEW q \in Participant, q # p PROVE LogOK(q)'
      BY <1>3, <2>6, <3>1 DEF LogInv, LogOK, TypeOK, RestartParticipant
    <3>2. LogOK(p)'
      BY <1>3, <2>6 DEF LogInv, LogOK, TypeOK, RestartParticipant
    <3>. QED BY <3>1, <3>2 DEF LogInv
  <2>. QED BY <2>1, <2>2, <2>3, <2>4, <2>5
<1>. QED BY <1>1, <1>2, <1>3

-----------------------------------------------------------------------------
(* The theorems.                                                           *)

LEMMA InitIInv == Init => IInv
<1>. SUFFICES ASSUME Init PROVE IInv
  OBVIOUS
<1>1. TypeOK
  <2>1. plog \in [Participant -> SUBSET Entries]
    BY DEF Init, Entries
  <2>2. /\ toP \in [Participant -> Seq(PMsg)]
        /\ toC \in [Participant -> Seq(CMsg)]
    BY DEF Init
  <2>3. attempt \in 0 .. AckRetries /\ failures \in 0 .. MaxFailures
    BY TwoPhaseAssumption DEF Init
  <2>4. status \in [Participant -> {"none", "active", "committed", "aborted"}]
    <3>1. {"none", "active"} \subseteq {"none", "active", "committed", "aborted"}
      OBVIOUS
    <3>. QED BY <3>1 DEF Init
  <2>5. /\ votes \in [Participant -> {"none", "commit", "abort"}]
        /\ hand \in [Participant -> {"idle"}] /\ local \in [Participant -> {"idle"}]
    BY DEF Init, NoVotes
  <2>. QED
    BY <2>1, <2>2, <2>3, <2>4, <2>5 DEF Init, TypeOK, Entries, PMsg, CMsg
<1>2. CallInv /\ ToldInv /\ AnswerInv /\ VoteInv /\ LogInv
  BY DEF Init, CallInv, ToldInv, AnswerInv, VoteInv, LogInv, LogOK, Ended, NoVotes,
         Voting, Informing, Decisions
<1>. QED BY <1>1, <1>2 DEF IInv

LEMMA NextIInv == IInv /\ [Next]_vars => IInv'
<1>. SUFFICES ASSUME IInv, [Next]_vars PROVE IInv'
  OBVIOUS
<1>1. CASE Coordinate \/ SendPrepare \/ Decide \/ SendDecision
  BY <1>1, LoudStepKeeps
<1>2. CASE \/ LookAtVotes \/ ClearVotes \/ VoteTimeout \/ LookAtAcks
           \/ ClearAcks \/ AckTimeout \/ Retry \/ Return
  BY <1>2, QuietStepKeeps
<1>3. CASE CrashCoordinator \/ RestartCoordinator \/ RecoverCoordinator
  BY <1>3, CoordinatorFailureKeeps
<1>4. ASSUME NEW p \in Participant, ParticipantStep(p) PROVE IInv'
  BY <1>4, ReceiveAnswerKeeps, HandlerKeeps, EndKeeps, LocalAbortKeeps,
     ParticipantEventKeeps
  DEF ParticipantStep
<1>5. CASE UNCHANGED vars
  <2>. USE <1>5 DEF vars, logs, caller, answers, part, IInv
  <2>1. TypeOK'
    BY DEF TypeOK
  <2>2. CallInv' /\ ToldInv'
    BY DEF CallInv, ToldInv
  <2>3. AnswerInv' /\ VoteInv' /\ LogInv'
    BY DEF AnswerInv, Justified, Settled, VoteInv, LogInv, LogOK, Ended
  <2>. QED BY <2>1, <2>2, <2>3
<1>. QED BY <1>1, <1>2, <1>3, <1>4, <1>5 DEF Next, CallStep

\* The invariant holds in every state of every behaviour.
THEOREM IInvAlways == Spec => []IInv
BY InitIInv, NextIInv, PTL DEF Spec

\* Variables keep their types: above all a call retries at most AckRetries
\* times (two_phase.py:77-98).
THEOREM TypeOKAlways == Spec => []TypeOK
<1>1. IInv => TypeOK
  BY DEF IInv
<1>. QED BY <1>1, IInvAlways, PTL

\* Recovery and a call never log two outcomes, and no participant is told what
\* is not in the log (two_phase.py:58-75, 151-153).
THEOREM OneDecisionAlways == Spec => []OneDecision
<1>1. IInv => OneDecision
  BY DEF IInv, CallInv, ToldInv, OneDecision, Decisions
<1>. QED BY <1>1, IInvAlways, PTL

\* A participant whose ACK was counted is through with the transaction, and its
\* log says how it ended, if it began there (two_phase.py:92-98, 196-228).
THEOREM AckedMeansSettledAlways == Spec => []AckedMeansSettled
<1>1. IInv => AckedMeansSettled
  BY DEF IInv, TypeOK, AnswerInv, AckedMeansSettled
<1>. QED BY <1>1, IInvAlways, PTL

-----------------------------------------------------------------------------
(* The refinement.  Only five kinds of step show in the logs.              *)

\* What an addition to the log of one participant does to LoggedVote and
\* LoggedOutcome.
LEMMA LogStep ==
  ASSUME TypeOK, NEW p \in Participant, NEW e, Log(p, {e}), UNCHANGED clog
  PROVE  /\ plog' = [plog EXCEPT ![p] = @ \cup {e}]
         /\ plog'[p] = plog[p] \cup {e}
         /\ \A q \in Participant : q # p => plog'[q] = plog[q]
         /\ LoggedDecision' = LoggedDecision
BY DEF TypeOK, Log, LoggedDecision

LEMMA VoteStep ==
  ASSUME IInv, NEW p \in Participant, HandlePrepare(p)
  PROVE  [AC!ACNext]_AC!acVars
<1>. USE DEF IInv
<1>. DEFINE e == IF check[p] THEN "VOTE_COMMIT" ELSE "VOTE_ABORT"
            v == IF check[p] THEN "commit" ELSE "abort"
<1>1. Log(p, {e}) /\ UNCHANGED clog
  BY DEF HandlePrepare
<1>. HIDE DEF e
<1>2. /\ plog' = [plog EXCEPT ![p] = @ \cup {e}]
      /\ plog'[p] = plog[p] \cup {e}
      /\ \A q \in Participant : q # p => plog'[q] = plog[q]
      /\ LoggedDecision' = LoggedDecision
  BY <1>1, LogStep
<1>. USE DEF e
<1>3. LoggedOutcome' = LoggedOutcome
  <2>1. ASSUME NEW q \in Participant
        PROVE Logged(plog'[q], "COMMIT", "ABORT") = Logged(plog[q], "COMMIT", "ABORT")
    BY <1>2 DEF Logged
  <2>. QED BY <2>1 DEF LoggedOutcome
<1>4. /\ \A q \in Participant : q # p => LoggedVote'[q] = LoggedVote[q]
      /\ LoggedVote'[p] = v
      /\ LoggedVote[p] \in {"none", v}
  <2>1. \A q \in Participant : q # p =>
          Logged(plog'[q], "VOTE_COMMIT", "VOTE_ABORT")
          = Logged(plog[q], "VOTE_COMMIT", "VOTE_ABORT")
    BY <1>2
  <2>2. /\ Logged(plog'[p], "VOTE_COMMIT", "VOTE_ABORT") = v
        /\ Logged(plog[p], "VOTE_COMMIT", "VOTE_ABORT") \in {"none", v}
    BY <1>2 DEF Logged, VoteInv
  <2>. QED BY <2>1, <2>2 DEF LoggedVote
<1>5. CASE LoggedVote[p] = v
  <2>1. LoggedVote' = LoggedVote
    BY <1>4, <1>5 DEF LoggedVote
  <2>. QED BY <1>2, <1>3, <2>1 DEF AC!acVars
<1>6. CASE LoggedVote[p] = "none"
  <2>1. LoggedVote' = [LoggedVote EXCEPT ![p] = v]
    BY <1>4 DEF LoggedVote
  <2>2. AC!Vote(p, v)
    BY <1>2, <1>3, <1>6, <2>1 DEF AC!Vote
  <2>. QED BY <2>2 DEF AC!ACNext
<1>. QED BY <1>4, <1>5, <1>6

\* An end is logged: a COMMIT follows the decision, and an end only where an
\* abort may be revoked.
LEMMA EndStep ==
  ASSUME IInv, NEW p \in Participant, NEW e \in {"COMMIT", "ABORT"},
         Log(p, {e}), UNCHANGED clog,
         e = "COMMIT" =>
           "GLOBAL_COMMIT" \in clog /\ (p \in LocalAborts \/ ~ Ended(p))
  PROVE  [AC!ACNext]_AC!acVars
<1>. USE DEF IInv
<1>. DEFINE v == IF e = "COMMIT" THEN "commit" ELSE "abort"
<1>2. /\ plog' = [plog EXCEPT ![p] = @ \cup {e}]
      /\ plog'[p] = plog[p] \cup {e}
      /\ \A q \in Participant : q # p => plog'[q] = plog[q]
      /\ LoggedDecision' = LoggedDecision
  BY LogStep
<1>3. LoggedVote' = LoggedVote
  <2>1. ASSUME NEW q \in Participant
        PROVE Logged(plog'[q], "VOTE_COMMIT", "VOTE_ABORT")
              = Logged(plog[q], "VOTE_COMMIT", "VOTE_ABORT")
    BY <1>2 DEF Logged
  <2>. QED BY <2>1 DEF LoggedVote
<1>4. \A q \in Participant : q # p => LoggedOutcome'[q] = LoggedOutcome[q]
  <2>1. \A q \in Participant : q # p =>
          Logged(plog'[q], "COMMIT", "ABORT") = Logged(plog[q], "COMMIT", "ABORT")
    BY <1>2
  <2>. QED BY <2>1 DEF LoggedOutcome
<1>5. LoggedOutcome[p] \in {"none", "commit", "abort"}
  BY DEF LoggedOutcome, Logged
<1>6. LoggedOutcome'[p] = IF LoggedOutcome[p] = "commit" THEN "commit" ELSE v
  BY <1>2 DEF LoggedOutcome, Logged
<1>7. CASE LoggedOutcome[p] \in {"commit", v}
  <2>1. LoggedOutcome'[p] = LoggedOutcome[p]
    BY <1>6, <1>7
  <2>2. LoggedOutcome' = LoggedOutcome
    BY <1>4, <2>1 DEF LoggedOutcome
  <2>. QED BY <1>2, <1>3, <2>2 DEF AC!acVars
<1>8. CASE LoggedOutcome[p] \notin {"commit", v}
  <2>1. LoggedOutcome'[p] = v
    BY <1>6, <1>8
  <2>2. LoggedOutcome' = [LoggedOutcome EXCEPT ![p] = v]
    BY <1>4, <2>1 DEF LoggedOutcome
  <2>3. CASE e = "COMMIT"
    <3>1. LoggedDecision = "commit"
      BY <2>3 DEF LoggedDecision, Logged
    <3>2. LoggedOutcome[p] = "none" \/ (LoggedOutcome[p] = "abort" /\ p \in LocalAborts)
      <4>1. CASE p \in LocalAborts
        BY <1>5, <1>8, <4>1
      <4>2. CASE ~ Ended(p)
        BY <4>2 DEF Ended, LoggedOutcome, Logged
      <4>. QED BY <2>3, <4>1, <4>2
    <3>3. AC!CommitAt(p)
      BY <1>2, <1>3, <2>2, <2>3, <3>1, <3>2 DEF AC!CommitAt
    <3>. QED BY <3>3 DEF AC!ACNext
  <2>4. CASE e = "ABORT"
    <3>1. LoggedOutcome[p] = "none"
      BY <1>5, <1>8, <2>4
    <3>2. AC!AbortAt(p)
      BY <1>2, <1>3, <2>2, <2>4, <3>1 DEF AC!AbortAt
    <3>. QED BY <3>2 DEF AC!ACNext
  <2>. QED BY <2>3, <2>4
<1>. QED BY <1>7, <1>8

\* The outcome is logged by a call or by recover_pending.
LEMMA DecideStep ==
  ASSUME IInv, Decide \/ RecoverCoordinator
  PROVE  AC!ACNext
<1>. USE DEF IInv
<1>1. LoggedVote' = LoggedVote /\ LoggedOutcome' = LoggedOutcome
  BY DEF Decide, RecoverCoordinator, LoggedVote, LoggedOutcome, Logged
<1>2. LoggedDecision = "none"
  BY DEF Decide, RecoverCoordinator, Undecided, CallInv, Voting, LoggedDecision,
         Logged
<1>3. CASE Decide /\ Unanimous
  <2>1. ASSUME NEW p \in Participant PROVE LoggedVote[p] = "commit"
    <3>1. votes[p] = "commit"
      BY <1>3 DEF Unanimous, Missing, AbortVoted, TypeOK
    <3>. QED BY <3>1 DEF AnswerInv, LoggedVote, Logged
  <2>2. LoggedDecision' = "commit"
    BY <1>3 DEF Decide, LoggedDecision, Logged
  <2>3. AC!DecideCommit
    BY <1>1, <1>2, <2>1, <2>2 DEF AC!DecideCommit
  <2>. QED BY <2>3 DEF AC!ACNext
<1>4. CASE (Decide /\ ~ Unanimous) \/ RecoverCoordinator
  <2>1. LoggedDecision' = "abort"
    BY <1>2, <1>4
    DEF Decide, RecoverCoordinator, Undecided, CallInv, Voting, LoggedDecision,
        Logged
  <2>2. AC!DecideAbort
    BY <1>1, <1>2, <2>1 DEF AC!DecideAbort
  <2>. QED BY <2>2 DEF AC!ACNext
<1>. QED BY <1>3, <1>4

\* A step that leaves the logs alone, or begins the log of a call.
LEMMA SilentStep ==
  ASSUME UNCHANGED plog, clog' = clog \/ clog' = clog \cup {"PREPARE"}
  PROVE  UNCHANGED AC!acVars
<1>1. LoggedDecision' = LoggedDecision
  BY DEF LoggedDecision, Logged
<1>. QED BY <1>1 DEF AC!acVars, LoggedVote, LoggedOutcome, Logged

\* A step of a participant is a vote, an end, or nothing.
LEMMA ParticipantStepRefines ==
  ASSUME IInv, NEW p \in Participant, ParticipantStep(p)
  PROVE  [AC!ACNext]_AC!acVars
<1>. USE DEF IInv
<1>1. CASE HandlePrepare(p)
  BY <1>1, VoteStep
<1>2. CASE LogEnd(p)
  <2>1. CASE hand[p] = "commit" /\ Log(p, {"COMMIT"})
    <3>1. UNCHANGED clog
      BY <1>2 DEF LogEnd
    <3>2. "GLOBAL_COMMIT" \in clog /\ (p \in LocalAborts \/ ~ Ended(p))
      BY <2>1 DEF LogInv, LogOK, TypeOK
    <3>. QED BY <2>1, <3>1, <3>2, EndStep
  <2>2. CASE Log(p, {"ABORT"})
    BY <1>2, <2>2, EndStep DEF LogEnd
  <2>. QED BY <1>2, <2>1, <2>2 DEF LogEnd
<1>3. CASE LogAbort(p)
  BY <1>3, EndStep DEF LogAbort
<1>4. CASE RecoverParticipant(p)
  BY <1>4, EndStep DEF RecoverParticipant
<1>5. CASE RestartParticipant(p)
  <2>1. UNCHANGED clog
    BY <1>5 DEF RestartParticipant
  <2>2. CASE UNCHANGED plog
    BY <2>1, <2>2, SilentStep
  <2>3. CASE Log(p, {"ABORT"})
    BY <2>1, <2>3, EndStep
  <2>. QED BY <1>5, <2>2, <2>3 DEF RestartParticipant
<1>6. CASE \/ ReceiveAnswer(p) \/ SendVote(p) \/ HandleDecision(p)
           \/ FinishEnd(p) \/ SendAck(p) \/ StartAbort(p) \/ ClearBuffer(p)
           \/ FinishAbort(p) \/ CrashParticipant(p)
  BY <1>6, SilentStep
  DEF ReceiveAnswer, SendVote, HandleDecision, FinishEnd, SendAck, StartAbort,
      ClearBuffer, FinishAbort, CrashParticipant, logs
<1>. QED BY <1>1, <1>2, <1>3, <1>4, <1>5, <1>6 DEF ParticipantStep

\* The logs implement AtomicCommit: a decision to commit needs every vote, is
\* final, and precedes every COMMIT, and how a transaction ended at a participant
\* is final unless another thread may abort there (src/commit/two_phase.py as a
\* whole, transaction.py:103-139).
THEOREM ImplementsAtomicCommitAlways == Spec => ImplementsAtomicCommit
<1>1. Init => AC!ACInit
  BY DEF Init, AC!ACInit, LoggedVote, LoggedDecision, LoggedOutcome, Logged
<1>2. IInv /\ [Next]_vars => [AC!ACNext]_AC!acVars
  <2>. SUFFICES ASSUME IInv, [Next]_vars PROVE [AC!ACNext]_AC!acVars
    OBVIOUS
  <2>1. ASSUME NEW p \in Participant, ParticipantStep(p)
        PROVE [AC!ACNext]_AC!acVars
    BY <2>1, ParticipantStepRefines
  <2>2. CASE Decide \/ RecoverCoordinator
    BY <2>2, DecideStep
  <2>3. CASE \/ Coordinate \/ SendPrepare \/ LookAtVotes \/ ClearVotes
             \/ VoteTimeout \/ SendDecision \/ LookAtAcks \/ ClearAcks
             \/ AckTimeout \/ Retry \/ Return \/ CrashCoordinator
             \/ RestartCoordinator
    BY <2>3, SilentStep
    DEF Coordinate, SendPrepare, SendDecision, Deliver, LookAtVotes,
        LookAtAcks, WaitFor, ClearVotes, ClearAcks, VoteTimeout, AckTimeout,
        Deadline, Retry, Return, CrashCoordinator, RestartCoordinator, logs
  <2>4. CASE UNCHANGED vars
    BY <2>4, SilentStep DEF vars, logs
  <2>. QED BY <2>1, <2>2, <2>3, <2>4 DEF Next, CallStep
<1>. QED BY <1>1, <1>2, IInvAlways, PTL DEF Spec, AC!ACSpec, ImplementsAtomicCommit

=============================================================================
