---------------------------- MODULE Transactions ----------------------------
(***************************************************************************)
(* TransactionManager, ConcurrencyControl and DeadlockDetector of          *)
(* src/storage, over the lock table of LockManager.                        *)
(*                                                                         *)
(* Each transaction is driven by one client thread; thread 0 is the        *)
(* deadlock detector.  A thread runs Python code that takes a mutex now    *)
(* and then, so between two of its accesses to shared state any other      *)
(* thread may run: pc[th] says which access comes next.  The manager runs  *)
(* without a log here (its default, wal=None).                             *)
(*                                                                         *)
(* One key per resource, and a transaction writes one value: the content   *)
(* of a resource is the id of its writer, 0 at the start.                  *)
(***************************************************************************)
EXTENDS LockManager, Integers

CONSTANTS Nesting,    \* may a transaction begin as the child of another?
          Timeouts,   \* may a lock wait time out (10 s by default)?
          Detection   \* is the deadlock detector started?

ASSUME TxnAssumption ==
  /\ Txn \subseteq Nat \ {0}
  /\ IsFiniteSet(Resource)
  /\ {Nesting, Timeouts, Detection} \subseteq BOOLEAN

Detector == 0
Thread == Txn \cup {Detector}
Unread == -1
NoOp == [mode |-> "None", res |-> "None"]

VARIABLES
  parent,      \* Transaction.parent_txn_id, 0 for none
  status,      \* Transaction.status, "none" before begin
  readSet,     \* Transaction.read_set
  buffer,      \* keys of Transaction.write_buffer
  locksHeld,   \* Transaction.locks_held
  disk,        \* the record of every resource (shared_memory)
  pc,          \* where every thread is
  op,          \* resource and mode of the operation a client is in
  event,       \* the client's entry of _wait_events and its flag
  iter,        \* the iteration over write_buffer in commit
  victim,      \* the transaction the detector is aborting
  toWake       \* grants a thread still has to signal in release_all

tmVars == <<parent, status, readSet, buffer, locksHeld, disk>>
threadVars == <<pc, op, event, iter, victim, toWake>>
vars == <<locks, txnLocks, tmVars, threadVars>>

PC == {"ready",                                          \* between calls
       "upgrade", "lock", "register", "wait", "retry", "access",
       "commit", "apply", "write", "finish", "inherit", "absorb",
       "check", "clear", "mark", "release", "failed"}

TypeOK ==
  /\ LockTypeOK
  /\ parent \in [Txn -> Txn \cup {0}]
  /\ status \in [Txn -> {"none", "active", "committed", "aborted"}]
  /\ readSet \in [Txn -> [Resource -> Txn \cup {0, Unread}]]
  /\ buffer \in [Txn -> SUBSET Resource]
  /\ locksHeld \in [Txn -> SUBSET (Resource \X LockType)]
  /\ disk \in [Resource -> Txn \cup {0}]
  /\ pc \in [Thread -> PC]
  /\ op \in [Txn -> [mode : LockType, res : Resource] \cup {NoOp}]
  /\ event \in [Txn -> {"none", "clear", "set"}]
  /\ iter \in [Txn -> [size : Nat, todo : SUBSET Resource]]
  /\ victim \in Txn \cup {0}
  /\ toWake \in [Thread -> SUBSET (Txn \X Resource)]

Init ==
  /\ LockInit
  /\ parent = [t \in Txn |-> 0]
  /\ status = [t \in Txn |-> "none"]
  /\ readSet = [t \in Txn |-> [r \in Resource |-> Unread]]
  /\ buffer = [t \in Txn |-> {}]
  /\ locksHeld = [t \in Txn |-> {}]
  /\ disk = [r \in Resource |-> 0]
  /\ pc = [th \in Thread |-> "ready"]
  /\ op = [t \in Txn |-> NoOp]
  /\ event = [t \in Txn |-> "none"]
  /\ iter = [t \in Txn |-> [size |-> 0, todo |-> {}]]
  /\ victim = 0
  /\ toWake = [th \in Thread |-> {}]

Goto(th, there) == pc' = [pc EXCEPT ![th] = there]

\* The call of client t is over, and with it its arguments.
Leave(t, there) == Goto(t, there) /\ op' = [op EXCEPT ![t] = NoOp]

-----------------------------------------------------------------------------
(* begin, and the calls a client makes on its active transaction.          *)

\* Ids are numbered in the order of begin.  Nothing asks what became of the
\* parent.  One level of nesting, as the tests and the demo use it.
Begin(t, p) ==
  /\ status[t] = "none"
  /\ \A u \in Txn : u < t => status[u] # "none"
  /\ p = 0 \/ (Nesting /\ p \in Txn /\ status[p] # "none" /\ parent[p] = 0)
  /\ parent' = [parent EXCEPT ![t] = p]
  /\ status' = [status EXCEPT ![t] = "active"]
  /\ UNCHANGED <<lockVars, readSet, buffer, locksHeld, disk, threadVars>>

Calls(t, there) ==
  /\ pc[t] = "ready"
  /\ status[t] = "active"
  /\ Goto(t, there)
  /\ UNCHANGED <<lockVars, tmVars, event, iter, victim, toWake>>

\* A key the transaction wrote itself is answered from its buffer.
CallRead(t, r) ==
  /\ r \notin buffer[t]
  /\ op' = [op EXCEPT ![t] = [mode |-> "S", res |-> r]]
  /\ Calls(t, "lock")

CallWrite(t, r) ==
  /\ op' = [op EXCEPT ![t] = [mode |-> "X", res |-> r]]
  /\ \/ <<r, "S">> \in locksHeld[t] /\ Calls(t, "upgrade")
     \/ <<r, "S">> \notin locksHeld[t] /\ <<r, "X">> \in locksHeld[t] /\ Calls(t, "access")
     \/ {<<r, "S">>, <<r, "X">>} \cap locksHeld[t] = {} /\ Calls(t, "lock")

CallCommit(t) == Calls(t, "commit") /\ UNCHANGED op

CallAbort(t) == Calls(t, "clear") /\ UNCHANGED op

Call(t) ==
  \/ \E p \in Txn \cup {0} : Begin(t, p)
  \/ \E r \in Resource : CallRead(t, r) \/ CallWrite(t, r)
  \/ CallCommit(t)
  \/ CallAbort(t)

-----------------------------------------------------------------------------
(* Taking the lock: ConcurrencyControl._acquire on behalf of read, write.  *)

TryUpgrade(t) ==
  /\ pc[t] = "upgrade"
  /\ \/ UpgradeGranted(t, op[t].res) /\ Goto(t, "access")
     \/ ~ CanUpgrade(t, op[t].res) /\ Goto(t, "lock") /\ UNCHANGED lockVars
  /\ UNCHANGED <<tmVars, op, event, iter, victim, toWake>>

TryLock(t) ==
  /\ pc[t] = "lock"
  /\ \/ AcquireGranted(t, op[t].res, op[t].mode) /\ Goto(t, "access")
     \/ AcquireQueued(t, op[t].res, op[t].mode) /\ Goto(t, "register")
  /\ UNCHANGED <<tmVars, op, event, iter, victim, toWake>>

\* Only now can a release find the waiter's event.
Register(t) ==
  /\ pc[t] = "register"
  /\ event' = [event EXCEPT ![t] = "clear"]
  /\ Goto(t, "wait")
  /\ UNCHANGED <<lockVars, tmVars, op, iter, victim, toWake>>

WakeUp(t) ==
  /\ pc[t] = "wait"
  /\ event[t] = "set"
  /\ event' = [event EXCEPT ![t] = "none"]
  /\ Goto(t, "retry")
  /\ UNCHANGED <<lockVars, tmVars, op, iter, victim, toWake>>

\* The request stays in the queue of the lock table.
TimeOut(t) ==
  /\ Timeouts
  /\ pc[t] = "wait"
  /\ event[t] = "clear"
  /\ event' = [event EXCEPT ![t] = "none"]
  /\ Leave(t, "ready")
  /\ UNCHANGED <<lockVars, tmVars, iter, victim, toWake>>

\* Mutant: a signalled waiter takes the lock for granted.
RetryTrusting(t) ==
  /\ pc[t] = "retry"
  /\ Goto(t, "access")
  /\ UNCHANGED <<lockVars, tmVars, op, event, iter, victim, toWake>>

\* The second acquire; when it fails the operation does.
Retry(t) ==
  /\ pc[t] = "retry"
  /\ \/ AcquireGranted(t, op[t].res, op[t].mode) /\ Goto(t, "access") /\ UNCHANGED op
     \/ AcquireQueued(t, op[t].res, op[t].mode) /\ Leave(t, "ready")
  /\ UNCHANGED <<tmVars, event, iter, victim, toWake>>

\* The rest of read and of write: neither looks at the status again.
Access(t) ==
  /\ pc[t] = "access"
  /\ LET r == op[t].res
     IN \/ /\ op[t].mode = "S"
           /\ locksHeld' = [locksHeld EXCEPT ![t] = @ \cup {<<r, "S">>}]
           /\ readSet' = [readSet EXCEPT ![t][r] = disk[r]]
           /\ UNCHANGED buffer
        \/ /\ op[t].mode = "X"
           /\ locksHeld' = [locksHeld EXCEPT ![t] = (@ \ {<<r, "S">>}) \cup {<<r, "X">>}]
           /\ buffer' = [buffer EXCEPT ![t] = @ \cup {r}]
           /\ UNCHANGED readSet
  /\ Leave(t, "ready")
  /\ UNCHANGED <<lockVars, parent, status, disk, event, iter, victim, toWake>>

-----------------------------------------------------------------------------
(* commit, after its check of the status.                                  *)

\* for ... in write_buffer.items(): the iterator remembers the size.
StartApply(t) ==
  /\ pc[t] = "commit"
  /\ iter' = [iter EXCEPT ![t] = [size |-> Cardinality(buffer[t]), todo |-> buffer[t]]]
  /\ Goto(t, "apply")
  /\ UNCHANGED <<lockVars, tmVars, op, event, victim, toWake>>

\* Mutant: the last item is not waited for.
NextItemStopsShort(t) ==
  /\ pc[t] = "apply"
  /\ Cardinality(buffer[t]) = iter[t].size
  /\ \/ /\ Cardinality(iter[t].todo) <= 1
        /\ Leave(t, "finish")
        /\ UNCHANGED iter
     \/ \E r \in iter[t].todo :
          /\ Cardinality(iter[t].todo) > 1
          /\ op' = [op EXCEPT ![t] = [mode |-> "X", res |-> r]]
          /\ iter' = [iter EXCEPT ![t].todo = @ \ {r}]
          /\ Goto(t, "write")
  /\ UNCHANGED <<lockVars, tmVars, event, victim, toWake>>

NextItem(t) ==
  /\ pc[t] = "apply"
  /\ Cardinality(buffer[t]) = iter[t].size
  /\ \/ /\ iter[t].todo = {}
        /\ Leave(t, "finish")
        /\ UNCHANGED iter
     \/ \E r \in iter[t].todo :
          /\ op' = [op EXCEPT ![t] = [mode |-> "X", res |-> r]]
          /\ iter' = [iter EXCEPT ![t].todo = @ \ {r}]
          /\ Goto(t, "write")
  /\ UNCHANGED <<lockVars, tmVars, event, victim, toWake>>

\* "dictionary changed size during iteration": commit ends in an exception.
IterationFails(t) ==
  /\ pc[t] = "apply"
  /\ Cardinality(buffer[t]) # iter[t].size
  /\ Leave(t, "failed")
  /\ UNCHANGED <<lockVars, tmVars, event, iter, victim, toWake>>

WriteItem(t) ==
  /\ pc[t] = "write"
  /\ disk' = [disk EXCEPT ![op[t].res] = t]
  /\ Goto(t, "apply")
  /\ UNCHANGED <<lockVars, parent, status, readSet, buffer, locksHeld,
                 op, event, iter, victim, toWake>>

Finish(t) ==
  /\ pc[t] = "finish"
  /\ status' = [status EXCEPT ![t] = "committed"]
  /\ Goto(t, IF parent[t] = 0 THEN "release" ELSE "inherit")
  /\ UNCHANGED <<lockVars, parent, readSet, buffer, locksHeld, disk,
                 op, event, iter, victim, toWake>>

Inherit(t) ==
  /\ pc[t] = "inherit"
  /\ TransferLocks(t, parent[t])
  /\ Goto(t, "absorb")
  /\ UNCHANGED <<tmVars, op, event, iter, victim, toWake>>

Absorb(t) ==
  /\ pc[t] = "absorb"
  /\ locksHeld' = [locksHeld EXCEPT ![parent[t]] = @ \cup locksHeld[t]]
  /\ Goto(t, "ready")
  /\ UNCHANGED <<lockVars, parent, status, readSet, buffer, disk,
                 op, event, iter, victim, toWake>>

-----------------------------------------------------------------------------
(* abort, by the client on its own transaction or by the detector on its   *)
(* victim, and ConcurrencyControl.release_all.                             *)

Subject(th) == IF th = Detector THEN victim ELSE th

ClearBuffer(th) ==
  /\ pc[th] = "clear"
  /\ buffer' = [buffer EXCEPT ![Subject(th)] = {}]
  /\ Goto(th, "mark")
  /\ UNCHANGED <<lockVars, parent, status, readSet, locksHeld, disk,
                 op, event, iter, victim, toWake>>

MarkAborted(th) ==
  /\ pc[th] = "mark"
  /\ status' = [status EXCEPT ![Subject(th)] = "aborted"]
  /\ Goto(th, "release")
  /\ UNCHANGED <<lockVars, parent, readSet, buffer, locksHeld, disk,
                 op, event, iter, victim, toWake>>

ReleaseLocks(th) ==
  /\ pc[th] = "release"
  /\ ReleaseAll(Subject(th))
  /\ toWake' = [toWake EXCEPT ![th] = GrantedByReleaseAll(Subject(th))]
  /\ Goto(th, "ready")
  /\ UNCHANGED <<tmVars, op, event, iter, victim>>

\* A granted waiter is signalled if its event is registered by now.
Signal(th) ==
  \E g \in toWake[th] :
    LET u == g[1]
        listens == event[u] # "none" /\ op[u].res = g[2]
    IN /\ toWake' = [toWake EXCEPT ![th] = @ \ {g}]
       /\ event' = IF listens THEN [event EXCEPT ![u] = "set"] ELSE event
       /\ UNCHANGED <<lockVars, tmVars, pc, op, iter, victim>>

-----------------------------------------------------------------------------
(* The deadlock detector.                                                  *)

\* t waits, directly or through others of N, for itself.
OnCycle(t, N) ==
  \A S \in SUBSET N :
    (\A u \in S \cup {t} : WaitsFor(u) \cap N \subseteq S) => t \in S

\* Mutant: only pairs that wait for each other are looked for.
VictimsOfPairs ==
  {v \in Txn : \E u \in WaitsFor(v) : u < v /\ v \in WaitsFor(u)}

\* The youngest of some cycle, whichever cycle the search comes upon.
Victims == {v \in Txn : OnCycle(v, {n \in Txn : n <= v})}

Detect ==
  /\ Detection
  /\ pc[Detector] = "ready"
  /\ toWake[Detector] = {}
  /\ victim' \in Victims
  /\ Goto(Detector, "check")
  /\ UNCHANGED <<lockVars, tmVars, op, event, iter, toWake>>

CheckVictim ==
  /\ pc[Detector] = "check"
  /\ Goto(Detector, IF status[victim] = "active" THEN "clear" ELSE "ready")
  /\ UNCHANGED <<lockVars, tmVars, op, event, iter, victim, toWake>>

-----------------------------------------------------------------------------

\* What a client thread does by itself once it is inside a call.
Proceed(t) ==
  \/ TryUpgrade(t) \/ TryLock(t) \/ Register(t) \/ WakeUp(t) \/ Retry(t)
  \/ Access(t)
  \/ StartApply(t) \/ NextItem(t) \/ IterationFails(t) \/ WriteItem(t)
  \/ Finish(t) \/ Inherit(t) \/ Absorb(t)

AbortStep(th) == ClearBuffer(th) \/ MarkAborted(th) \/ ReleaseLocks(th) \/ Signal(th)

Next ==
  \/ \E t \in Txn : Call(t) \/ Proceed(t) \/ TimeOut(t)
  \/ \E th \in Thread : AbortStep(th)
  \/ Detect
  \/ CheckVictim

Spec == Init /\ [][Next]_vars

\* Threads that can run do run; nothing makes a client call again.
FairSpec ==
  /\ Spec
  /\ \A t \in Txn : WF_vars(Proceed(t)) /\ WF_vars(AbortStep(t))
  /\ WF_vars(AbortStep(Detector) \/ Detect \/ CheckVictim)

-----------------------------------------------------------------------------
(* What strict two-phase locking is for.                                   *)

\* The locks an active transaction believes it holds (locks_held, which
\* write trusts to skip or upgrade a lock) are its locks in the lock table.
HeldLocksAreReal ==
  \A t \in Txn : status[t] = "active" =>
    \A h \in locksHeld[t] : Covers(locks[h[1]], t, h[2])

\* Repeatable reads and no lost update: until an active transaction itself
\* writes it back, what it read is what is stored.
ReadsStayCurrent ==
  \A t \in Txn : status[t] = "active" =>
    \A r \in Resource :
      readSet[t][r] # Unread => disk[r] \in {readSet[t][r], t}

\* No dirty read: what was read is the initial content or the write of a
\* transaction that is committed.
ReadsCommitted ==
  \A t \in Txn, r \in Resource :
    readSet[t][r] \in {0, Unread} \/ status[readSet[t][r]] = "committed"

\* Atomicity: an aborted transaction left nothing on disk, and one that
\* committed and has not yet let go of its locks left everything.
AllOrNothing ==
  \A t \in Txn :
    /\ status[t] = "aborted" => \A r \in Resource : disk[r] # t
    /\ status[t] = "committed" /\ pc[t] \in {"release", "inherit"} =>
         \A r \in buffer[t] : disk[r] = t

\* The detector aborts a transaction only while its client is blocked on a
\* lock, never one that goes on to commit.
VictimIsBlocked ==
  pc[Detector] \in {"clear", "mark"} => pc[victim] \in {"register", "wait"}

\* A cycle of waiting transactions does not last.
DeadlocksAreBroken ==
  \A t \in Txn :
    (status[t] = "active" /\ OnCycle(t, Txn)) ~> ~(status[t] = "active" /\ OnCycle(t, Txn))

\* A transaction that is over, and whose locks nobody is about to release,
\* holds nothing.
FinishedHoldNothing ==
  \A t \in Txn :
    (/\ status[t] \in {"committed", "aborted"}
     /\ pc[t] \notin {"release", "inherit"}
     /\ ~(pc[Detector] = "release" /\ victim = t))
    => \A r \in Resource : t \notin locks[r].holders

=============================================================================
