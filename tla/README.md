# TLA+ models of the distributed shared memory system

The repository is a teaching-scale distributed system in Python: nodes that
talk over TCP, and on top of them transactions with locks and a log,
distributed commit, two mutual exclusion algorithms, two elections, consensus,
a failure detector and ordered delivery. This directory models all of these in
TLA+, model-checks them with TLC and proves with TLAPS, for systems of any size,
the safety properties of the lock table, the transaction manager, recovery,
two-phase commit, mutual exclusion, elections, consensus and ordered delivery.
Paths below are relative to the repository.

## The system and its hard parts

| Component | State | Operations | Talks to | What must hold |
|---|---|---|---|---|
| Lock manager (`src/storage/lock_manager.py`) | lock entry per resource: type, holders, wait queue; index of locks per transaction | acquire, release, release_all, transfer_locks, upgrade, get_wait_edges; each under one mutex | called by the two below | compatibility matrix; a waiter waits for a holder; index and holders agree |
| Concurrency control and transactions (`concurrency.py`, `transaction.py`) | status, read set, write buffer, locks held, parent; events of waiting threads | begin, read, write, commit, abort | lock manager, data files, log | strict two-phase locking: repeatable reads, no dirty read, atomic commit |
| Deadlock detector (`deadlock.py`) | none of its own | every 2 s: read the wait-for graph, find a cycle, abort the youngest | lock manager; `abort` in its own thread | deadlocks end; nobody else is aborted |
| Log and recovery (`src/recovery`, `shared_memory.py`) | `wal.log`, data files | log entries, recover at start-up | transactions, node start | committed writes survive a crash, others leave no trace |
| Ricart-Agrawala (`src/mutex/ricart_agrawala.py`) | state, timestamp, replies, deferred list, event | request_cs, release_cs, two message handlers | node, clock, transport | exclusion, timestamp order, everybody gets in |
| Maekawa (`src/mutex/maekawa.py`) | vote given, queue, votes held, in_cs | request_cs, release_cs, six handlers | as above | exclusion, no vote counted twice, no circle of waiting sites |
| Two-phase commit (`src/commit/two_phase.py`) | votes, acks, pending decisions, log | coordinate, vote, decide, ack, recover_pending | transactions, log, node | one decision, crash or not |
| Elections (`src/election`) | epoch, flags and timer / participant; leader_id | start, handlers, timer | node; started by the failure detector | all agree on the highest node, again after it fails |
| Consensus (`src/consensus/consensus.py`) | rounds, votes, decided values | propose, vote, decide | leader_id, failure detector | one value per round, enough acceptors behind it, told to all |
| Failure detector (`src/consensus/failure_detector.py`) | last seen, suspected | a loop of heartbeats and checks, two handlers | node; calls the election | who is down is suspected; wrong suspicions end |
| Ordering (`src/network/ordering.py`) | sequence numbers, vector clock, buffers | send, broadcast, deliver | node | FIFO, causal and total order; nothing held back without a reason |
| Node, clock, transport (`src/node.py`, `src/network`) | Lamport clock, handlers, one connection per pair | send, broadcast, dispatch | everybody | order of a connection; clock update before the handler |
| Demonstrations (`src/demo`) | none | scripts | everybody | - |

What makes it hard is concurrency: client threads, one receiver thread per
connection, the detector thread and timers share objects and take their mutexes
for a few lines at a time. Much happens between two mutexes (the event of a
waiter is registered after the failed `acquire`; `commit` iterates over a buffer
that `abort` clears). Then timeouts that leave requests behind, late
replies, crashes between a log entry and the write it announces, and restarts
that count ids from the beginning. `PROJECT.json` lists these hazards line by
line with the properties that watch them.

## Modules

| Module | Models |
|---|---|
| `LockManager` | the lock table, one atomic action per method |
| `Transactions` | transactions, lock waits and the detector; EXTENDS `LockManager` and uses its operators inside its own steps |
| `CriticalSection` | abstract: what request_cs and release_cs promise, for any algorithm |
| `RicartAgrawala` | the algorithm over clocks and connections; refines `CriticalSection` |
| `Recovery` | one node with log, files, crashes and recovery |
| `AtomicCommit` | abstract: votes, decision and outcomes as the log files show them |
| `TwoPhase` | coordinator and participants with their logs, crashes and lost messages; refines `AtomicCommit` |
| `Maekawa` | the voting algorithm over connections |
| `Ordering` | the bounds that the three orderings share |
| `FIFOOrdering`, `CausalOrdering` | one class of `ordering.py` each; the second with `VectorClock` |
| `TotalOrder` | abstract: one order, a prefix of it delivered at every node |
| `TotalOrdering` | sequencer and receivers; refines `TotalOrder` |
| `Consensus` | rounds of a leader, or of several, over messages in any order |
| `Cluster` | what the elections share: who is up, leader_id, connections; and what an election is for |
| `Bully`, `ChangRoberts` | the two elections; EXTEND `Cluster` |
| `FailureDetector` | heartbeats, suspicion, nodes that stop and come back |
| `MCStorage` | the lock table by itself or under a few client threads |
| `MCMutex`, `MCMessaging`, `MCCluster` | several components in one run: one of them is chosen at the start, the others stay as they are. They share no state in the code either |
| other `MC...` | instances for TLC |
| `Transactions_proof` | theorems about `LockManager` and `Transactions` |
| `Ordering_proof` | theorems about the three orderings |
| `Election_proof` | theorems about `Bully` and `ChangRoberts` |
| `Recovery_proof`, `TwoPhase_proof`, `RicartAgrawala_proof`, `Maekawa_proof`, `Consensus_proof` | theorems about the module of that name |

**LockManager.** `locks` is `_locks`, `txnLocks` is `_txn_locks`. `acquire` is
`AcquireAgain`, `AcquireNow` (both return True) and `AcquireQueued` (returns
False and leaves a request behind). `GrantWaiting` is `_grant_waiting` with its
slicing and its removal of duplicates: `Picked` keeps the elements of a queue at some of its
places, in their order. `release_all` works from the index and
drops it last, as the code does.

**Transactions.** A transaction has one client thread; thread 0 is the
detector. `pc` says which access to shared state a thread makes next; a step is
the code between two such accesses. The path of a lock request is `lock`,
`register`, `wait`, `retry`, `access`: the event is registered after the failed
acquire, and a signal that comes in between is lost. `commit` is a step for
every iteration and every `write_record`, then the status, then the locks in
one step (`release`) or two (`inherit`, `absorb`, for a nested transaction).
`abort` is three steps, in the thread of the client or of the detector.
`Detect` may find any cycle and takes its youngest transaction. The content of a
resource is the id of its last writer. One key per resource; locks are per
resource in the code as well.

**RicartAgrawala.** A client thread and, per connection, a receiver thread. A
message in `net[i][j]` carries the clock stamp of `node.send`, and is received
in the order of stamps: a connection is TCP and is read by one thread. `hand`
is the message a receiver works on: the clock update of `_dispatch`, the
decision under the mutex and the sending of the reply are separate steps.
`_deferred` is kept as a count per sender, since every entry is answered alike.
A client that times out stays WANTED, and its next call starts over that
state.

**Recovery.** `log` and `disk` survive a `Crash`; everything else is as new
afterwards. `write_record` is two steps, because it truncates the file and then
writes it: `Truncate` and `Rewrite`. `recover` is `StartRecovery` (read and
analyse the whole log), then `Redo`, `Undo`, `LogLoser` for each ABORT and `Serve`; it
can crash at every step. The lists of writes to redo and to undo are the sets
of their places in the log, `redo` and `undo`: the first is worked off from its lowest
place, the second from its highest. The exclusive lock of a
writer is `owner`; that nobody else writes meanwhile is what `Transactions`
establishes. `promised` is a history variable: the records as they would be had
every logged commit taken effect at once. A value may be `""`, which is also what the log says of a record that
does not exist (`AsLogged`), so undo deletes the record in both cases (`UndoValue`). Other values are opaque: what a `|` or a
line break in one does to the lines of log and file is left out with the parsing of lines.

**TwoPhase.** One transaction id, one call of `coordinate_commit` for it. `call`
is where that call is: a step per send, a step for the look at the answers after a
wait and another for the clear of the event, then the decision, which looks at the votes
again, logs and leads on to the sending. A handler of a participant is a step for every access it shares with others: a prepare is logged (`HandlePrepare`),
then answered; a decision is looked up against the status (`HandleDecision`), logged as the end of the
transaction (`LogEnd`), carried out (`FinishEnd`), then answered. `hand` says what is due next.
Neither `commit` nor `abort` holds a lock over these steps, so at the participants of
`LocalAborts` another thread, that of the detector or of a client, may abort in between: it looks at the status
(`StartAbort`), logs (`LogAbort`), clears the buffer (`ClearBuffer`) and sets the status (`FinishAbort`). A
commit that is iterating over the buffer then may raise; the receiver thread drops the message, no ACK is sent,
and the decision is tried again. A log is the set of its entries about the transaction. What happens to the
transaction itself is reduced to `status`: it is unknown after a restart, and recovery
logs ABORT for it if it had no end, vote or not (`RestartParticipant`).
`check` is what `_check_can_commit` returns. The code always returns True; the tests and the
demonstration replace the function to get a vote to abort, so `Init` allows both.

`AtomicCommit` promises less than the textbook. Because `_check_can_commit` does not
look at its own finding, and because a restarted or deadlocked participant aborts
what it has voted for, GLOBAL_COMMIT can reach a participant that has nothing to
commit any more and acknowledges all the same. So commit at one participant and
abort at another is possible, and `coordinate_commit` returns True for it. And how the transaction ended at a participant
is not final where another thread may abort (`Revocable`, the participants of `LocalAborts`): that thread logs ABORT,
the handler of GLOBAL_COMMIT still finds the status active and logs COMMIT after it. With `Revocable` empty TLC
shows this in 17 states. What does hold is that
the *decision* is unanimous, final, and in the log before anybody acts on it, and that elsewhere the outcome is final.

**Maekawa.** `votedFor`, `votedTs`, `inquireSent` and `requestQueue` are the
voter of a site, `votesHeld`, `allVotes` (the event) and `inCs` the one that
asks. The client is woken in one step (`Wake`) and sets `_in_cs` in another
(`EnterCs`): `Event.wait` returns True once it has been notified, even if the
event is cleared before the thread runs. What a method sends under the lock or
right after it is one step with it; a connection keeps the order. `Overtaken`
names the sites where an INQUIRE may come between the two steps of the client;
with the empty set the model has the algorithm as it was meant. A site may ask
with any time above all request times it has seen, which covers every history
of its Lamport clock.

**FIFOOrdering, CausalOrdering, TotalOrdering.** Messages under way are a set,
and `...Lose` takes one out: threads send outside the lock and a broken
connection is replaced while the old one is still read, so order on a
connection is nothing the receiver can count on. A handler is one step for the
message and its delivery and one for every delivery of the flush, because the
callback may be watched in between; that matters for causal order, where the vector
clock has a lock of its own and `send` can run in the middle of a flush. In
`CausalOrdering`, `past` is a history variable that follows messages, not
vectors; `CausalOrder` and `VectorsTellCausality` compare the two.
`FlushNext` says which message the flush, a scan that starts over after a
pass with deliveries, takes next.

**Consensus.** A round is its value, its votes and where `propose` is with it. All
rounds share one event and the wait has a timeout, so waiting may end at any
time (`StopWaiting`). Votes are counted in `StopWaiting` against the nodes that were asked and
in `HandleVote` against those that are alive now, as in the code. Messages may
come in any order, late or never. Who is suspected (`Suspect`, `Recover`)
and who leads (`Elect`) changes from outside.

**Cluster, Bully, ChangRoberts.** A node that goes down loses what was on the
way to it and may be in the middle of a broadcast (`reached`). The failure
detector appears as `Notice`: every node finds out in its own time. In Bully, a
region under the lock is one step together with the leader_id and the messages that
follow from it; the end of `start_election`, which makes the timer, the timer,
and `_declare_victory` are steps of their own, each with the epoch it was
called for. `Timely` is the assumption behind `ELECTION_TIMEOUT`: who is up is reached
and answers in time. In Chang-Roberts a message goes to the
first successor that takes it (`Successors`): one that is up, or one that
went down while the connection to it has not noticed; then the message is lost. The
connections are known to be broken once some node has noticed the failure, since
heartbeats try them every second and a failure is noticed after three.

**FailureDetector.** `last_seen` is reduced to whether it is too old
(`overdue`). That comes to be so for a node that is down, and, `MaxSlow`
times, for one that is merely slow. A node that comes back starts afresh, and its old
heartbeats may still arrive.

## Runs

| Run | Question | Result |
|---|---|---|
| `lock_table` | the table under any calls of 3 transactions, and under 2 client threads with detector and timeouts together; 1 resource, or 2 that are only written; no nesting | the table stays sound; what an active transaction believes it holds, it holds |
| `s2pl` | threads without the detector; 2 transactions, 2 resources, nesting, timeouts | isolation and atomicity hold |
| `detector` | detector without timeouts; 2 transactions, 2 resources | deadlocks are broken, only blocked transactions are aborted |
| `zombie_lock` | is a finished transaction free of locks? | violated |
| `mutex` | Ricart-Agrawala: 3 nodes, 2 requests; Maekawa: 3 sites with quorums of two, 3 requests | exclusion, order, liveness, refinement hold; every vote held is real |
| `late_replies` | 2 nodes that may time out and ask again, 3 requests | exclusion violated |
| `recovery` | one crash of a serving node, any number during recovery | committed writes and only those are stored, but for records with the value `""`; one fate each |
| `two_phase` | two participants, one with a thread that aborts; one retry, one crash or lost message anywhere | one logged decision, backed by all votes; acknowledgements are true; calls end |
| `reused_ids` | two crashes of a serving node | an uncommitted write is redone |
| `messaging` | the orderings: 3 nodes, 3 messages, one lost; consensus: 3 nodes, 2 rounds, one change of leader or suspicion | order, explained gaps, refinement; enough acceptors, one value, everybody told |
| `cluster` | elections: 3 nodes, 2 (Bully) or 3 (ring) starts and failures; detector: 2 nodes, 2 failures, 2 slow ones | the highest leads and is replaced; suspicion is complete and heals |
| `relinquished` | the quorums of the program; may an INQUIRE come in before `_in_cs` is set? | exclusion violated |

**lock_table.** The callers are unrestricted: even calls that `Transactions`
never makes, such as `release`, are in. Three transactions allow two readers,
an upgrade and a writer that waits; resources do not influence each
other except through the index. The same properties are then asked of the table as the
threads use it, with the detector and timeouts both on, which
is the configuration of the program: reads and writes of one resource
or writes alone of two resources, where a victim may be in the middle of its
commit (`StorageBounds`, an action constraint of the run). There `HeldLocksAreReal` holds too. It
does not for nested transactions under detector and timeouts together. With three clients TLC found: a
child asks for an upgrade, gives up, reads under the lock it has and commits; its old request makes it wait
for itself (`get_wait_edges` does not leave out a waiter that is also a holder), the detector aborts it in the
middle of its commit, its lock is gone when it should pass to the parent, and the parent adds it to
`locks_held` all the same. `WaitersLeaveOnlyAsHolders` is an action property.

**s2pl, detector.** Two transactions are enough for every pairwise
conflict, for parent and child, and for a deadlock (crosswise, or two
upgrades). Deadlock of more than two is left to the definition of `OnCycle`.
The isolation properties are about pairs and are proved below for
any number. With the detector *and* timeouts, several properties
stop holding in the code as it is. A request that timed out stays in the
wait-for graph, so a transaction in the middle of its commit can be chosen as a
victim, its buffer is cleared under the iteration and part of its writes stay.
Of this combination only the properties of `lock_table` are claimed. With the
detector alone, all three properties of `s2pl` hold, as proved below; TLC also checked them with three transactions on
one resource, nested.

**mutex, Ricart-Agrawala.** Nodes 0 and 1 compete for one resource and node 1 also asks for
another; the third node only answers, so that an entry needs
two replies. Clients of the other resource may give up. Two requests in
all let every pair of request, reply, deferral and release interleave; clocks
stay small by themselves. Where a client gives up a resource others want, they
wait for ever, because its node stays WANTED and defers them: that is why
only the uncontested resource has a timeout in this run.

**mutex, Maekawa.** Quorums of two among three sites meet pairwise without a
site common to all, so that three requests can form a circle. Two different
times suffice for older, younger and equal. Three requests give each site one,
or one site several: site 0 may time out and ask again behind votes it never gave back.
`EverySiteGetsIn` speaks of runs without a timeout: afterwards votes stay
with a site that does not want them, and others wait for ever.
The quorums of the program (three of four sites) are those of `relinquished`.

**recovery.** Two transactions, two keys of one file and one of another, two
values of which `""` is one, two WRITE entries. That is enough for a commit torn in the middle, two
commits to one key whose order matters, an abort, and a truncated file with
another key in it. One crash of a serving node is the bound because a second one meets
reused ids (`reused_ids`); crashes during recovery are not bounded.
`CommittedIsStored` lets a record be missing whose committed value is `""` (`Kept`), and nothing else. The
exception is needed: with `Kept(v) == {v}` TLC finds the property violated after one crash, in a trace of 21 states. A
transaction commits `""`, another one writes over it, and the node crashes before its commit. The log has
`""` for what was there before (`transaction.py:97` writes it also where there was no record), undo
(`recovery.py:60`) takes that for no record and deletes it. This is a defect of the code.

**two_phase.** Two participants make a vote of each kind, a missing vote, and a decision
that only one has heard of. One of them has a thread that aborts, so that the exception that `AtomicCommit` makes is
tried at one and the rule at the other. `AckedMeansSettled` says what an ACK is worth, for which the coordinator takes a
participant off its retries: the transaction is not active there and, if it began there, its log has an end. It does
not say that this is the end that was decided, which is not so. One failure means a crash of any node or one lost message; deadlines
may pass at any time besides, so slow answers are not failures. Two failures
would take TLC too long with the temporal properties; the inductive invariant was
checked with two as well, and the proofs cover any number.

**messaging.** Three messages make a predecessor that is late, one that is
lost and a buffer with two messages in it; causality needs three nodes, and a
message of each. Total order has the sequencer among the receivers. In
consensus, two rounds are two at once of one leader, or one each of two
leaders; with three nodes one suspicion turns a majority of three into
one of two. `EnoughAccepted` is about numbers: a leader and those that accepted, all of which it had asked, are more than half of
the number of the nodes it never suspected. They need not be a majority *of these nodes*. Leader 2 asks
0 and 1, 0 accepts, 2 comes to suspect 0, and `_handle_vote` counts the vote of 0 against the one node still alive: decided,
though of 1 and 2, never suspected, only 2 stands behind it. `OneValuePerRound` is stated for one leader: with two, it does not
hold, since each numbers its rounds from 1.

**cluster.** An election that a client starts, those that it sets off, and a
failure during it or before; in the ring, also two elections at once or
two failures. `AllAgree` and `LeaderReplaced` do not speak of failures in the middle of
an election: a Bully node that was told OK by a node that then goes down waits for
ever, and a candidate in the ring can be lost with its node. Chang-Roberts was also checked
alone with four nodes. For the detector two nodes are enough, since a
detector treats every other node by itself.

**Type invariants.** Each module has one. `LockTypeOK`, which also says that a
resource has a lock type exactly while somebody holds it, is part of `lock_table`.
All are proved, by themselves or as part of an inductive invariant, but that of
`FailureDetector`, which was checked in the run `cluster` and is not listed with it.

### Findings

1. *Zombie locks* (`concurrency.py:55`). A request that was given up is still in
   the wait queue. When the holder leaves, the finished transaction
   becomes a holder and stays one. In the trace a deadlock victim, aborted while it
   waits, is granted the resource it waited for.
2. *Late replies* (`ricart_agrawala.py:91`). Node 0 asks, times out and asks
   again. Node 1 has asked in between and been granted; its reply to the first
   request is counted for the second, and both nodes are in.
3. *Reused ids* (`transaction.py:41`). Transaction 1 commits, the node crashes
   and recovers. The new transaction 1 writes and the node crashes again before
   its commit. Recovery finds a COMMIT of transaction 1 and redoes the write.
4. *Relinquished votes* (`maekawa.py:71`). A site has all votes and its client is notified.
   Before it sets `_in_cs`, an INQUIRE for an older request arrives: the receiver
   gives the vote back and clears the event, the client enters all the same.
   The voter grants the older request and both sites are in.

### Fairness

`Transactions!FairSpec` is weakly fair to what a thread does inside a call and to
the detector, which sleeps and looks again for ever. Nothing makes a client
call again, and no timeout has to happen. `RicartAgrawala!FairSpec`
asks only that some thread runs while one can, which fairness of the scheduler
to every thread implies; with a bounded number of requests no set of threads
can run for ever, so it is enough. A client that is in leaves again.
`TwoPhase!FairSpec` is weakly fair to the thread of a call: it runs on, and its
deadlines pass, since `wait` has a timeout each time. No message has to arrive and
no node has to restart. `Maekawa!MaekawaSpec` is fair like Ricart-Agrawala, with
the same argument. `Bully` and `ChangRoberts` are weakly fair to every node: its
receiver threads, its timer and its failure detector run on, so what was sent arrives and
failures come to be noticed. No election has to be started and no node fails of itself.
`FailureDetector` is weakly fair to the loop of a node, to its receiver, and to the
passing of time (`Silence`). A slow node is never forced to be overdue. The
specifications of the orderings and of consensus state no fairness.

Deadlock checking is off where the system may simply be finished: all
transactions over, all requests served, all bounds reached.

## Proofs

`Transactions_proof` proves of the lock table, for all sets of transactions and
resources, that `LockSpec` keeps `LockCompatible`, `NoStrandedWaiter` and `IndexSound`. These
three together with the shape of entries are inductive (`LockInv`): granting to
waiters needs a non-empty queue to imply holders, and transfer and release_all
need the index to be sound. There is one lemma per operation, about entries
rather than about the whole table. `LockTypesHold` and `WaitersLeaveOnlyAsHoldersHolds`
are about the queues: `_grant_waiting` cuts one up and puts it together again, and each
request of it is afterwards in the new queue or its transaction among the holders. What `Picked`
and `Nth` keep of a sequence is stated by lemmas (`NthIs`, `PickedIs`), by induction over the least place for
which they could fail; `GrantWaitingIs` has the outcome.

`ThreadsUseTheTable` proves `Spec => LockSpec`: whatever client threads, detector and timeouts do,
the table takes steps of its own, so that what holds of the table holds in the program. It rests on where a thread
can be with which arguments (`ThreadTypes`), which also gives `TransactionTypesHold`.

It further proves for `Spec`, with any number of transactions and
resources, with and without nesting and timeouts:

- `VictimIsBlockedAlways`, under the assumption `~ Timeouts`;
- `ReadsStayCurrentAlways`, `ReadsCommittedAlways` and `AllOrNothingAlways`, under
  `~ Detection \/ ~ Timeouts`;
- `HeldLocksAreRealAlways`, under `~ Detection \/ ~ Timeouts \/ ~ Nesting`.

With detector and timeouts both on (and, for the last, nesting) TLC finds each of these violated, in 13 to
28 steps: the assumptions are needed (see `lock_table` and `s2pl, detector` above).

`VictimIsBlocked` is about the time between the detector's look at the wait-for graph and the end of its
abort. `BlockedInv` says that somebody in a circle of waiters stays blocked for so long: the
victim is in a set of transactions each of which has a request queued behind another one of the set
(`VictimInv`). No member can leave the set, because a queued request of an active transaction is
always the one its client is blocked on (`QueueInv`), and a client that was told its lock is
granted has it (`ToldInv`, `RequestInv`); so nobody in the circle is granted a lock or releases one.
Timeouts break just this: a client that gave up goes on, and its request stays in the queue.

The inductive invariant of isolation, `IInv`, is `LockInv`, the types, and for each transaction:

- `PlaceInv`: what a client may rely on at its place, above all that at `access` the
  lock is held in the lock table;
- `LockedInv`: a live transaction has all its locks indexed (so a commit finds
  them), `locks_held` is covered by them, and whatever it has read or buffered is
  locked. *Live* includes a commit that has not let go of its locks yet;
- `AbsorbInv`: between the two steps of a transfer the child's locks are already the
  parent's;
- `NestInv`: parents have begun and have no parents;
- `DiskInv`, `ReadInv`: who wrote what is on disk, and how far a commit is.

`LockedInv` is what makes the others inductive: a write to disk is harmless to a
reader only because the writer's exclusive lock excludes the reader's lock, and
both are in the table. The proof has one lemma per group of actions, over lemmas saying
which locks a lock operation leaves alone (`AcquireKeeps`, `ReleaseAllKeeps`,
`TransferKeeps`). TLC checked `IInv` as an invariant first. The detector comes in by `Calm`: whom it
aborts is blocked in a lock request until its locks are gone, so it is not in the middle of a commit
(`VictimStep`). `Calm` holds trivially without the detector, and by
`BlockedInv` without timeouts. Where detector and timeouts are both on, `HeldLocksAreReal` has an invariant of its own,
`OwnInv`: a release only ever concerns a transaction that is committed or aborted, and only a
transfer adds to `locks_held` what a transaction did not acquire itself. The assumption on the
constants is `TxnAssumption` (ids are positive numbers, finitely many resources).

`TwoPhase_proof` proves for any set of participants, any number of retries and
of failures that `Spec` keeps `TypeOK`, `OneDecision` and `AckedMeansSettled` and
implements `AtomicCommit` (`ImplementsAtomicCommitAlways`). The inductive
invariant `IInv` adds to the types: how far the coordinator's log is at each place of
the call (`CallInv`: no outcome is logged while votes are collected, the
decision is logged while it is sent); every message to a participant is in
that log (`ToldInv`); every answer, under way or counted, is true of its
sender (`AnswerInv`: a vote to commit is logged, an acknowledged transaction
is `Settled`); a participant's log has one vote (`VoteInv`), has an end wherever a handler or an aborting thread has got past
logging or the transaction is over, and, where no other thread may abort, has none while the transaction is
active and no handler has logged it (`LogInv`). Neither OneDecision nor the refinement is inductive without them: the votes a decision
rests on are copies of log entries that travelled over a connection. For the refinement, `VoteStep`,
`EndStep` and `DecideStep` map the steps that write a log entry to a step of
`AtomicCommit`, and `SilentStep` all others to a stutter.

`Recovery_proof` proves, for any transactions, files, keys and values (the value `""` included; `RecoveryAssumption` only asks
that the model's marks for *no record* and *not written* are not values), that `CommittedIsStored` and `DecidedOnce` hold as long
as `failures <= 1`: until a running node crashes for the second time, and however often recovery
itself is cut short. After a second crash they do not hold (`reused_ids`). In the invariant `IInv`, the log determines the promise: the value
promised for a record is its last committed write, and what undo makes of every undecided write of it is that value or, for `""`, no record (`PromiseInv`, `Kept`). While a node serves for the first time,
undecided writes are in the buffers of their transactions (`RunInv`). While it recovers, what is left to redo is a suffix of
the committed writes, records without a write in it are as promised (or what is kept of that), and the rest is on the page of a
truncated file (`RecoveryInv`); so recovery may start over at any moment. `OpenInv` says which entries BEGIN are without a fate: those of running clients, or those recovery has still
to log as losers.

`Ordering_proof` proves of total order `TotalGapExplainedAlways` and
`ImplementsTotalOrderAlways` for any nodes, data, and number of messages and
losses. The invariant `TInv` says that the number drawn last is the length of
the order, that every assignment, under way or buffered, carries the message at its place
of the order, that a node has delivered as many messages as it has counted,
and that each number not yet delivered at a node is under way to
it, in its buffer or lost. The last part is what makes a gap explainable; the first three make delivery
by number delivery along the order.

Of FIFO order it proves `FifoOrderAlways` and `FifoGapExplainedAlways` in the same
generality. `FInv` says that numbers of messages sent lie below the
counter of their sender, that what is delivered is counted by the expected
number, that a message under way or buffered is not delivered yet, and that each
message sent is under way, lost, buffered or delivered. Between a delivery and the end of its flush
the buffer may start with the number that is expected; `FifoGapExplained`
therefore speaks of a node that is not flushing.

Of causal order it proves `CausalOrderHolds`, `VectorsTellCausalityHolds` and `CausalGapExplainedHolds`. In
`CausalInv` the vector of a node or a message counts exactly what is in its past (`PastInv`), nobody counts more
messages of a node than that node has sent (`CountInv`), who counts a message counts
all that its sender counted (`ClosedInv`), and of two messages one does not count the other
(`AcyclicInv`). With these the comparison of vectors in `can_deliver` is a statement about the past.
That a message held back waits for one that has not come follows from a message of least past among those
missing.

`RicartAgrawala_proof` proves `MutualExclusionAlways`, `ServedInOrderAlways` and
`ImplementsCriticalSectionAlways` for any number of nodes, resources and
requests, under the assumption `GivesUp = {}`: the run `late_replies` shows that they
are false without it. In the invariant `RAInv`, the request of i to j and
its answer are one token, which is at one place at most: still to be asked, under way, in
hand, deferred, or, as an answer, owed, in hand, under way, about to be counted
(`TokenInv`). So the replies counted and the nodes that i still waits for are all other
nodes (`CountInv`), and the event is set only when nobody is left. Once a request
has left j, as an answer or for good, j is behind i (`PassedInv`): its clock is, so its
next request is too, and if it asks already, its request is the later one. Two nodes that are
both in would be behind each other. The invariant speaks of a node from its request to
its release, hence no client may leave early. TLC checked it first, with three nodes.

`Maekawa_proof` proves `VotesAreRealAlways` and `OneSiteInAlways` for any number of sites,
any quorums that meet pairwise, and clients that may give up and ask again, under the assumption
`Overtaken = {}`: the run `relinquished` shows that `OneSiteIn` is false when an INQUIRE may come
in before `_in_cs` is set. In the invariant `VotesInv`, a vote is with its voter, under way as LOCKED,
held, or under way back, and at one of these only (`VotesSound`); that is why RELINQUISH and RELEASE,
which name no request, always give back the vote that is out. `AskedSound` keeps
votes to the quorum, so that a count of votes (`Enough`) is the whole quorum, and
`ClientInv` says that a client past the waiting has them all until it releases.

`Consensus_proof` proves `EnoughAcceptedAlways`, `OneValuePerRoundAlways` and
`EverybodyToldAlways` for any finite set of nodes and any bounds, with several leaders and suspicions
that come and go. A decision, known or in a DECIDE under way, is *backed*: some leader has
proposed its value in a round of that number, and has the votes for it (`DecidedInv`,
`MessageInv`). No step takes a backing away (`BackedStays`), since rounds keep their values and votes and
suspicions are remembered. `CoverInv` says that both sets the code counts votes against, those asked in `propose`
and those alive in `_handle_vote`, hold every other node that was never suspected; from it follow the
number of acceptors, and that those told are enough (`ToldInv`). With one leader the backing of two decisions of a
round is the same round, which is why there is one value.

`Election_proof` proves `LeaderIsHighest` for both elections, any set of nodes and failures at any
moment: no node follows a leader while a higher node is running. For Bully
(`BullyInv`), a node whose election nobody has answered has, with each higher node that
runs, the call or the answer under way (`Answered`); so when its time is up, `Timely` leaves no such node, and who announces itself is the highest
(`DeclaringInv`, `Announced`). Epochs tell the timer of this election from that of an
earlier one (`EpochInv`). On the ring (`RingInv`), a candidate has got past no higher node that
runs (`CandidateInv`), so one that comes back to its sender is the highest; `RoundTheRing` is the arithmetic of it. Nodes that
come back are not modelled, so that a node found highest stays so.

Every invariant and every safety action property of the passing runs is stated by a theorem. Only
model-checked remain the types of `FailureDetector` and liveness under
fairness (`DeadlocksAreBroken`, `EverybodyGetsIn`, `EverySiteGetsIn`,
`EveryCallReturns`, `AllAgree`, `LeaderReplaced`, `DownIsSuspected`,
`SuspicionHeals`) is out of the prover's reach.

## Not modelled

Left out for good: sockets and reconnection, JSON and log
line parsing, logging, and the demonstrations, which keep no state. Within the modelled parts:
nesting deeper than one level; transactions driven by two connections at once;
isolation with the detector and timeouts together, which the code does not have (see the runs);
checkpoints, which no code in `src/` takes, and with them the numbering of log
entries; records written without a transaction; nodes that are down during
mutual exclusion; two coordinations of one transaction id, a coordinator among its own
participants, and `_pending_decisions` of two-phase commit, which nothing reads;
nodes that come back or join late in an election; answers later than
`ELECTION_TIMEOUT`; VOTE_REJECT, which nobody sends.

## Plan

In the order of what they would add:

1. Nodes that come back during an election, with the epochs they have lost.
2. Checkpoints in `Recovery`.
