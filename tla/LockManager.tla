----------------------------- MODULE LockManager -----------------------------
(***************************************************************************)
(* The lock table of src/storage/lock_manager.py.                          *)
(*                                                                         *)
(* Every public method of class LockManager runs under one mutex           *)
(* (self._lock), so each is one atomic action here.  Transaction and       *)
(* resource names are opaque; the timeouts, the events and the threads     *)
(* that call these methods are in Transactions.                            *)
(***************************************************************************)
EXTENDS Naturals, Sequences, FiniteSets, SequencesExt

CONSTANTS Txn,        \* transaction identifiers
          Resource    \* names of lockable resources

VARIABLES locks,      \* self._locks: the LockEntry of every resource
          txnLocks    \* self._txn_locks: the resources indexed under a txn

lockVars == <<locks, txnLocks>>

LockType == {"S", "X"}

WaitEntry == [txn : Txn, mode : LockType]

\* A resource without an entry and one whose entry was emptied behave alike.
FreeEntry == [type |-> "None", holders |-> {}, queue |-> <<>>]

LockTypeOK ==
  /\ locks \in [Resource -> [type    : LockType \cup {"None"},
                             holders : SUBSET Txn,
                             queue   : Seq(WaitEntry)]]
  /\ txnLocks \in [Txn -> SUBSET Resource]
  /\ \A r \in Resource : locks[r].type = "None" <=> locks[r].holders = {}

LockInit ==
  /\ locks = [r \in Resource |-> FreeEntry]
  /\ txnLocks = [t \in Txn |-> {}]

-----------------------------------------------------------------------------
(* Granting to waiters: _grant_waiting, called when the last holder left.  *)

\* Positions of the queue that are granted together: the head, and with a
\* shared head every further shared request up to the first exclusive one.
GrantedPrefix(q) ==
  {1} \cup {i \in 1 .. Len(q) : \A j \in 1 .. i : q[j].mode = "S"}

\* The elements of q at the places in S, in their order.
Nth(S, n) == CHOOSE i \in S : Cardinality({j \in S : j <= i}) = n
Picked(q, S) == [n \in 1 .. Cardinality(S) |-> q[Nth(S, n)]]

\* The queue without the requests of transactions in served, and with only
\* the first request of each of the others.
DropServed(q, served) ==
  Picked(q, {i \in DOMAIN q : /\ q[i].txn \notin served
                              /\ \A j \in DOMAIN q : q[j].txn = q[i].txn => i <= j})

\* Mutant: the granted requests are cut off one short, as with the slice
\* wait_queue[len(granted):] in place of wait_queue[len(granted) - 1:].
GrantWaitingLosesOne(q) ==
  LET granted == {q[i].txn : i \in GrantedPrefix(q)}
  IN IF q = <<>>
     THEN FreeEntry
     ELSE [type    |-> Head(q).mode,
           holders |-> granted,
           queue   |-> SubSeq(q, Cardinality(GrantedPrefix(q)) + 2, Len(q))]

GrantWaiting(q) ==
  LET granted == {q[i].txn : i \in GrantedPrefix(q)}
      waiting == SubSeq(q, Cardinality(GrantedPrefix(q)) + 1, Len(q))
  IN IF q = <<>>
     THEN FreeEntry
     ELSE [type    |-> Head(q).mode,
           holders |-> granted,
           queue   |-> IF Head(q).mode = "S"
                       THEN DropServed(waiting, granted) ELSE waiting]

\* Mutant: the waiters are not looked at when the last holder leaves.
VacateOnly(e, t) ==
  IF e.holders \subseteq {t}
  THEN [e EXCEPT !.holders = {}, !.type = "None"]
  ELSE [e EXCEPT !.holders = @ \ {t}]

\* Mutant: the type of the lock outlives its last holder.
VacateKeepsType(e, t) ==
  IF e.holders \subseteq {t} /\ e.queue # <<>>
  THEN GrantWaiting(e.queue)
  ELSE [e EXCEPT !.holders = @ \ {t}]

\* The entry after t gives up its hold, and the waiters this lets in.
Vacate(e, t) ==
  IF e.holders \subseteq {t}
  THEN GrantWaiting(e.queue)
  ELSE [e EXCEPT !.holders = @ \ {t}]

LetIn(e, t) == IF e.holders \subseteq {t} THEN Vacate(e, t).holders ELSE {}

-----------------------------------------------------------------------------
(* The operations.                                                         *)

\* t already holds r in a mode that covers m.
Covers(e, t, m) == t \in e.holders /\ (e.type = "X" \/ m = "S")

\* Mutant: any request is compatible with readers.
CompatibleWithReaders(e, t, m) == e.holders \subseteq {t} \/ e.type = "S"

\* Mutant: a shared request is let in whoever holds.
CompatibleWithWriters(e, t, m) == e.holders \subseteq {t} \/ m = "S"

\* t can join the holders in mode m: nobody else holds, or all read.
Compatible(e, t, m) == e.holders \subseteq {t} \/ (e.type = "S" /\ m = "S")

Joined(e, t, m) == [e EXCEPT !.holders = @ \cup {t}, !.type = m]

AcquireAgain(t, r, m) ==
  /\ Covers(locks[r], t, m)
  /\ UNCHANGED lockVars

AcquireNow(t, r, m) ==
  /\ ~ Covers(locks[r], t, m)
  /\ Compatible(locks[r], t, m)
  /\ locks' = [locks EXCEPT ![r] = Joined(@, t, m)]
  /\ txnLocks' = [txnLocks EXCEPT ![t] = @ \cup {r}]

AcquireQueued(t, r, m) ==
  /\ ~ Covers(locks[r], t, m)
  /\ ~ Compatible(locks[r], t, m)
  /\ LET w == [txn |-> t, mode |-> m]
     IN locks' = IF \E i \in DOMAIN locks[r].queue : locks[r].queue[i] = w
                 THEN locks
                 ELSE [locks EXCEPT ![r].queue = Append(@, w)]
  /\ UNCHANGED txnLocks

\* acquire returns True by the first two and False by the third.
AcquireGranted(t, r, m) == AcquireAgain(t, r, m) \/ AcquireNow(t, r, m)

Acquire(t, r, m) == AcquireGranted(t, r, m) \/ AcquireQueued(t, r, m)

Release(t, r) ==
  /\ locks' = [locks EXCEPT ![r] = Vacate(@, t)]
  /\ txnLocks' = [u \in Txn |->
                    (IF u = t THEN txnLocks[u] \ {r} ELSE txnLocks[u])
                      \cup (IF u \in LetIn(locks[r], t) THEN {r} ELSE {})]

\* Works from the index: a resource t holds but that is not indexed stays.
\* The index of t is dropped last, after the waiters were indexed.
ReleaseAll(t) ==
  /\ locks' = [r \in Resource |->
                 IF r \in txnLocks[t] THEN Vacate(locks[r], t) ELSE locks[r]]
  /\ txnLocks' = [u \in Txn |->
                    IF u = t THEN {}
                    ELSE txnLocks[u] \cup
                           {r \in txnLocks[t] : u \in LetIn(locks[r], t)}]

\* The waiters a ReleaseAll(t) lets in, as it returns them: <<txn, resource>>.
GrantedByReleaseAll(t) ==
  {g \in Txn \X Resource : g[2] \in txnLocks[t] /\ g[1] \in LetIn(locks[g[2]], t)}

\* Mutant: the index of the giver survives the transfer.
TransferKeepsIndex(from, to) ==
  LET moved == {r \in txnLocks[from] : from \in locks[r].holders}
  IN /\ locks' = [r \in Resource |->
                    IF r \in moved
                    THEN [locks[r] EXCEPT !.holders = (@ \ {from}) \cup {to}]
                    ELSE locks[r]]
     /\ txnLocks' = [txnLocks EXCEPT ![to] = @ \cup moved]

TransferLocks(from, to) ==
  LET moved == {r \in txnLocks[from] : from \in locks[r].holders}
  IN /\ locks' = [r \in Resource |->
                    IF r \in moved
                    THEN [locks[r] EXCEPT !.holders = (@ \ {from}) \cup {to}]
                    ELSE locks[r]]
     /\ txnLocks' = [u \in Txn |-> CASE u = from -> {}
                                     [] u = to -> txnLocks[u] \cup moved
                                     [] OTHER -> txnLocks[u]]

\* upgrade returns True iff this is enabled; it changes nothing otherwise.
CanUpgrade(t, r) ==
  t \in locks[r].holders /\ (locks[r].type = "X" \/ locks[r].holders = {t})

UpgradeGranted(t, r) ==
  /\ CanUpgrade(t, r)
  /\ locks' = [locks EXCEPT ![r].type = "X"]
  /\ txnLocks' = IF locks[r].type = "X" THEN txnLocks
                 ELSE [txnLocks EXCEPT ![t] = @ \cup {r}]

LockNext ==
  \/ \E t \in Txn, r \in Resource, m \in LockType : Acquire(t, r, m)
  \/ \E t \in Txn, r \in Resource : Release(t, r) \/ UpgradeGranted(t, r)
  \/ \E t \in Txn : ReleaseAll(t)
  \/ \E from, to \in Txn : from # to /\ TransferLocks(from, to)

LockSpec == LockInit /\ [][LockNext]_lockVars

-----------------------------------------------------------------------------
(* Readers of the table.                                                   *)

Waiting(r) == {locks[r].queue[i].txn : i \in DOMAIN locks[r].queue}

\* Mutant: an edge for everybody at the resource, waiting or not.
WaitsForAnyUser(t) ==
  UNION {locks[r].holders : r \in {s \in Resource : t \in Waiting(s) \cup locks[s].holders}}

\* get_wait_edges: a waiter points at every holder, itself included when it
\* waits to upgrade.
WaitsFor(t) == UNION {locks[r].holders : r \in {s \in Resource : t \in Waiting(s)}}

-----------------------------------------------------------------------------
(* What the lock table promises.                                           *)

\* An exclusively locked resource has one holder: the compatibility matrix
\* of acquire, upgrade, _grant_waiting and transfer_locks taken together.
LockCompatible ==
  \A r \in Resource :
    locks[r].type = "X" => \A t, u \in locks[r].holders : t = u

\* Somebody who waits waits for somebody: a request stays in a queue only
\* while the resource is held.  There is no other call that would grant it.
NoStrandedWaiter ==
  \A r \in Resource : locks[r].queue # <<>> => locks[r].holders # {}

\* What release_all will give back is held: _txn_locks never names a
\* resource whose lock went to somebody else.
IndexSound ==
  \A t \in Txn : \A r \in txnLocks[t] : t \in locks[r].holders

\* _grant_waiting cuts the queue up and puts it together again; a
\* transaction leaves it only into the holders.
WaitersLeaveOnlyAsHolders ==
  [][\A r \in Resource, t \in Txn :
       t \in Waiting(r) /\ t \notin Waiting(r)' => t \in locks'[r].holders]_lockVars

=============================================================================
