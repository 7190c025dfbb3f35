--------------------------- MODULE FailureDetector ---------------------------
(***************************************************************************)
(* src/consensus/failure_detector.py.                                      *)
(*                                                                         *)
(* Time: last_seen is kept as whether it lies more than HEARTBEAT_TIMEOUT  *)
(* back.  That comes to be so whenever the other node is down, and also    *)
(* while it is up, since threads and messages may be slow.  A node that    *)
(* comes back is a new FailureDetector, that takes everyone to be alive.   *)
(***************************************************************************)
EXTENDS Naturals, FiniteSets

CONSTANTS Member,         \* nodes of config.NODES that run a detector
          Watcher, Watched,   \* any two of them, for the properties
          MaxFailures,    \* bound: how often a node goes down
          MaxSlow         \* bound: how often a running node is late

VARIABLES
  running,      \* the nodes whose detector runs
  overdue,      \* others a node has not heard of for too long
  suspected,    \* suspected; alive is the rest
  checkNext,    \* the loop has sent, or is sending, and will check
  targets,      \* those _send_heartbeats has still to send to
  fdNet,        \* messages under way
  failures, slow

fdVars == <<running, overdue, suspected, checkNext, targets, fdNet, failures, slow>>

Others(n) == Member \ {n}

Heartbeats == [type : {"HEARTBEAT", "HEARTBEAT_ACK"}, from : Member, to : Member]

FDTypeOK ==
  /\ running \subseteq Member
  /\ overdue \in [Member -> SUBSET Member]
  /\ suspected \in [Member -> SUBSET Member]
  /\ checkNext \in [Member -> BOOLEAN]
  /\ targets \in [Member -> SUBSET Member]
  /\ fdNet \subseteq Heartbeats
  /\ failures \in 0 .. MaxFailures
  /\ slow \in 0 .. MaxSlow

FDInit ==
  /\ running = Member
  /\ overdue = [n \in Member |-> {}]
  /\ suspected = [n \in Member |-> {}]
  /\ checkNext = [n \in Member |-> FALSE]
  /\ targets = [n \in Member |-> {}]
  /\ fdNet = {}
  /\ failures = 0
  /\ slow = 0

\* A message to a node that is down does not arrive.
FDSends(type, n, m) == [type : {type}, from : {n}, to : {m} \cap running]

-----------------------------------------------------------------------------
(* _detector_loop.                                                         *)

Targets(n) == Others(n) \ suspected[n]

\* _send_heartbeats, under the lock.
ChooseTargets(n) ==
  /\ n \in running
  /\ ~ checkNext[n]
  /\ checkNext' = [checkNext EXCEPT ![n] = TRUE]
  /\ targets' = [targets EXCEPT ![n] = Targets(n)]
  /\ UNCHANGED <<running, overdue, suspected, fdNet, failures, slow>>

SendHeartbeat(n, m) ==
  /\ m \in targets[n]
  /\ targets' = [targets EXCEPT ![n] = @ \ {m}]
  /\ fdNet' = fdNet \cup FDSends("HEARTBEAT", n, m)
  /\ UNCHANGED <<running, overdue, suspected, checkNext, failures, slow>>

Overdue(n, m) ==
  /\ n \in running
  /\ m \in Others(n) \ overdue[n]
  /\ \/ m \notin running /\ UNCHANGED slow
     \/ m \in running /\ slow < MaxSlow /\ slow' = slow + 1
  /\ overdue' = [overdue EXCEPT ![n] = @ \cup {m}]
  /\ UNCHANGED <<running, suspected, checkNext, targets, fdNet, failures>>

\* Mutant: "in" for "not in".
LateInverted(n) == overdue[n] \cap suspected[n]

Late(n) == overdue[n] \ suspected[n]

CheckTimeouts(n) ==
  /\ checkNext[n] /\ targets[n] = {}
  /\ checkNext' = [checkNext EXCEPT ![n] = FALSE]
  /\ suspected' = [suspected EXCEPT ![n] = @ \cup Late(n)]
  /\ UNCHANGED <<running, overdue, targets, fdNet, failures, slow>>

-----------------------------------------------------------------------------
(* The handlers.                                                           *)

\* Mutant: only the time is noted.
UnsuspectedNever(n, m) == suspected[n]

Unsuspected(n, m) == suspected[n] \ {m}

MarkAlive(n, m) ==
  /\ overdue' = [overdue EXCEPT ![n] = @ \ {m}]
  /\ suspected' = [suspected EXCEPT ![n] = Unsuspected(n, m)]

HandleHeartbeat(n, m) ==
  LET msg == [type |-> "HEARTBEAT", from |-> m, to |-> n] IN
  /\ msg \in fdNet
  /\ MarkAlive(n, m)
  /\ fdNet' = (fdNet \ {msg}) \cup FDSends("HEARTBEAT_ACK", n, m)
  /\ UNCHANGED <<running, checkNext, targets, failures, slow>>

HandleHeartbeatAck(n, m) ==
  LET msg == [type |-> "HEARTBEAT_ACK", from |-> m, to |-> n] IN
  /\ msg \in fdNet
  /\ MarkAlive(n, m)
  /\ fdNet' = fdNet \ {msg}
  /\ UNCHANGED <<running, checkNext, targets, failures, slow>>

-----------------------------------------------------------------------------

\* What the node has sent still arrives.
Stop(n) ==
  /\ n \in running
  /\ failures < MaxFailures
  /\ failures' = failures + 1
  /\ running' = running \ {n}
  /\ checkNext' = [checkNext EXCEPT ![n] = FALSE]
  /\ targets' = [targets EXCEPT ![n] = {}]
  /\ fdNet' = {msg \in fdNet : msg.to # n}
  /\ UNCHANGED <<overdue, suspected, slow>>

Restart(n) ==
  /\ n \notin running
  /\ running' = running \cup {n}
  /\ overdue' = [overdue EXCEPT ![n] = {}]
  /\ suspected' = [suspected EXCEPT ![n] = {}]
  /\ UNCHANGED <<checkNext, targets, fdNet, failures, slow>>

DetectorLoop(n) ==
  ChooseTargets(n) \/ CheckTimeouts(n) \/ \E m \in Member : SendHeartbeat(n, m)

Receiver(n) == \E m \in Member : HandleHeartbeat(n, m) \/ HandleHeartbeatAck(n, m)

FDNext ==
  \E n \in Member :
    \/ DetectorLoop(n) \/ Receiver(n) \/ Stop(n) \/ Restart(n)
    \/ \E m \in Member : Overdue(n, m)

Silence(n) == \E m \in Member \ running : Overdue(n, m)

\* The loop goes round, messages arrive, and silence shows in the end.
FDFairness ==
  \A n \in Member :
    WF_fdVars(DetectorLoop(n)) /\ WF_fdVars(Receiver(n)) /\ WF_fdVars(Silence(n))

FDSpec == FDInit /\ [][FDNext]_fdVars /\ FDFairness

-----------------------------------------------------------------------------

Suspects(n, m) == n \in running /\ m \in suspected[n]

\* Completeness: a node that stays down comes to be suspected by any that
\* stays up, also when heartbeats it has sent arrive late.
DownIsSuspected ==
  Watcher \in running /\ Watched \notin running ~>
    (Suspects(Watcher, Watched) \/ Watcher \notin running \/ Watched \in running)

\* A wrong suspicion, or one of a node that has come back, is taken back,
\* unless that node suspects this one as well: then neither sends the other
\* a heartbeat any more.
SuspicionHeals ==
  Suspects(Watcher, Watched) ~>
    \/ ~ Suspects(Watcher, Watched)
    \/ Suspects(Watched, Watcher)
    \/ Watched \notin running

=============================================================================
