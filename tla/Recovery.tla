------------------------------ MODULE Recovery ------------------------------
(***************************************************************************)
(* One node with a write-ahead log: src/recovery, the logging half of      *)
(* TransactionManager, the files of src/storage/shared_memory.py, and the  *)
(* start of src/node.py that runs recovery before it serves transactions.  *)
(*                                                                         *)
(* The node may crash between any two steps, during recovery too.  The log *)
(* and the files survive, everything else is lost.  What Transactions says *)
(* of the locks is taken from there: a writer keeps the exclusive lock of  *)
(* the file to its end.                                                    *)
(*                                                                         *)
(* Nothing in src/ takes a checkpoint, so recovery reads the whole log, and*)
(* there is no distributed commit to write entries of its own.  The node   *)
(* is fresh: no record was put there without a transaction.                *)
(***************************************************************************)
EXTENDS Integers, Sequences, FiniteSets

CONSTANTS Txn,           \* transaction numbers, counted from 1 by every manager
          Key,           \* keys of the records
          File,          \* the file (the resource) a key lives in
          Value,         \* values of a record
          MaxWrites,     \* bound: WRITE entries of the log
          MaxFailures    \* bound: crashes of a node that is up

Absent == "absent"       \* no such record
Empty == ""              \* how the log writes that down; a value like others, too
Unset == "unset"         \* a key that a transaction has not written

ASSUME RecoveryAssumption ==
  /\ IsFiniteSet(Txn) /\ Txn = 1 .. Cardinality(Txn)
  /\ Value \cap {Absent, Unset} = {}
  /\ MaxWrites \in Nat
  /\ MaxFailures \in Nat

Recoverer == 0           \* the thread that starts the node
Thread == Txn \cup {Recoverer}
FileOf(k) == File[k]
Files == {File[k] : k \in Key}

VARIABLES
  log,        \* wal.log
  disk,       \* the records
  mode,       \* is the node down, starting, or up?
  status,     \* Transaction.status of this run of the node
  buffer,     \* Transaction.write_buffer
  owner,      \* who has the exclusive lock of a file, 0 for nobody
  pc,         \* where the client of a transaction is
  todo,       \* keys a commit has still to store
  page,       \* the new contents of the file a thread has truncated
  redo,       \* places of the WRITE entries recovery has still to redo
  undo,       \* those it has still to undo
  losers,     \* transactions recovery has still to log as aborted
  failures,   \* crashes of a node that was up
  promised    \* history: the records, had every logged commit been instant

store == <<log, disk, promised>>
clients == <<status, buffer, owner, pc, todo>>
recovery == <<redo, undo, losers>>
vars == <<store, mode, clients, page, recovery, failures>>

Entry == [type : {"BEGIN", "COMMIT", "ABORT"}, txn : Txn]
         \cup [type : {"WRITE"}, txn : Txn, key : Key,
               before : Value \cup {Empty}, after : Value]

Content == [Key -> Value \cup {Absent}]

TypeOK ==
  /\ log \in Seq(Entry)
  /\ disk \in Content /\ promised \in Content
  /\ mode \in {"down", "recovering", "up"}
  /\ status \in [Txn -> {"none", "active", "committed", "aborted"}]
  /\ buffer \in [Txn -> [Key -> Value \cup {Unset}]]
  /\ owner \in [Files -> Txn \cup {0}]
  /\ pc \in [Txn -> {"ready", "begin", "apply", "abort"}]
  /\ todo \in [Txn -> SUBSET Key]
  /\ page \in [Thread -> SUBSET [key : Key, content : Content]]
  /\ redo \subseteq DOMAIN log /\ undo \subseteq DOMAIN log
  /\ losers \subseteq Txn
  /\ failures \in 0 .. MaxFailures

NoBuffer == [k \in Key |-> Unset]
Dirty(t) == {k \in Key : buffer[t][k] # Unset}

Idle == [t \in Txn |-> "ready"]
NoTransactions == [t \in Txn |-> "none"]
NoBuffers == [t \in Txn |-> NoBuffer]
NoLocks == [f \in Files |-> 0]
Nothing == [t \in Txn |-> {}]
NoPages == [th \in Thread |-> {}]

Init ==
  /\ log = << >>
  /\ disk = [k \in Key |-> Absent]
  /\ promised = disk
  /\ mode = "down"
  /\ status = NoTransactions /\ buffer = NoBuffers /\ owner = NoLocks
  /\ pc = Idle /\ todo = Nothing
  /\ page = NoPages
  /\ redo = {} /\ undo = {} /\ losers = {}
  /\ failures = 0

-----------------------------------------------------------------------------
(* The log and the files.  An entry is one line, written and synchronised; *)
(* its number is its place, which only checkpoints look at.                *)

LogFate(type, t) == log' = Append(log, [type |-> type, txn |-> t])

\* What the log says of a record: "" for one that does not exist, too.
AsLogged(v) == IF v = Absent THEN Empty ELSE v

Stored(f, content) ==
  [k \in Key |-> IF FileOf(k) = f THEN content[k] ELSE disk[k]]

\* write_record and delete_record read the whole file and truncate it ...
Truncate(th, k, v) ==
  /\ page[th] = {}
  /\ page' = [page EXCEPT ![th] = {[key |-> k, content |-> [disk EXCEPT ![k] = v]]}]
  /\ disk' = Stored(FileOf(k), [l \in Key |-> Absent])

\* ... and then write all of it anew.
Rewrite(th, k) ==
  \E p \in page[th] :
    /\ p.key = k
    /\ page' = [page EXCEPT ![th] = {}]
    /\ disk' = Stored(FileOf(k), p.content)

-----------------------------------------------------------------------------
(* Transactions, with the log.                                             *)

Begin(t) ==
  /\ mode = "up"
  /\ status[t] = "none"
  /\ \A u \in Txn : u < t => status[u] # "none"
  /\ status' = [status EXCEPT ![t] = "active"]
  /\ pc' = [pc EXCEPT ![t] = "begin"]
  /\ UNCHANGED <<store, mode, buffer, owner, todo, page, recovery, failures>>

LogBegin(t) ==
  /\ pc[t] = "begin"
  /\ LogFate("BEGIN", t)
  /\ pc' = [pc EXCEPT ![t] = "ready"]
  /\ UNCHANGED <<disk, promised, mode, status, buffer, owner, todo, page, recovery, failures>>

\* write, from the moment it has the lock.
Write(t, k, v) ==
  /\ status[t] = "active" /\ pc[t] = "ready"
  /\ owner[FileOf(k)] \in {0, t}
  /\ Cardinality({i \in DOMAIN log : log[i].type = "WRITE"}) < MaxWrites
  /\ owner' = [owner EXCEPT ![FileOf(k)] = t]
  /\ log' = Append(log, [type |-> "WRITE", txn |-> t, key |-> k,
                         before |-> AsLogged(disk[k]), after |-> v])
  /\ buffer' = [buffer EXCEPT ![t][k] = v]
  /\ UNCHANGED <<disk, promised, mode, status, pc, todo, page, recovery, failures>>

LogCommit(t) ==
  /\ status[t] = "active" /\ pc[t] = "ready"
  /\ LogFate("COMMIT", t)
  /\ promised' = [k \in Key |-> IF k \in Dirty(t) THEN buffer[t][k] ELSE promised[k]]
  /\ todo' = [todo EXCEPT ![t] = Dirty(t)]
  /\ pc' = [pc EXCEPT ![t] = "apply"]
  /\ UNCHANGED <<disk, mode, status, buffer, owner, page, recovery, failures>>

\* One write_record after the other.
Apply(t) ==
  /\ pc[t] = "apply"
  /\ \/ \E k \in todo[t] : Truncate(t, k, buffer[t][k]) /\ UNCHANGED todo
     \/ \E k \in todo[t] : Rewrite(t, k) /\ todo' = [todo EXCEPT ![t] = @ \ {k}]
  /\ UNCHANGED <<log, promised, mode, status, buffer, owner, pc, recovery, failures>>

Unlocked(t) == [f \in Files |-> IF owner[f] = t THEN 0 ELSE owner[f]]

FinishCommit(t) ==
  /\ pc[t] = "apply" /\ todo[t] = {}
  /\ status' = [status EXCEPT ![t] = "committed"]
  /\ pc' = [pc EXCEPT ![t] = "ready"]
  /\ owner' = Unlocked(t)
  /\ UNCHANGED <<store, mode, buffer, todo, page, recovery, failures>>

LogAbort(t) ==
  /\ status[t] = "active" /\ pc[t] = "ready"
  /\ LogFate("ABORT", t)
  /\ pc' = [pc EXCEPT ![t] = "abort"]
  /\ UNCHANGED <<disk, promised, mode, status, buffer, owner, todo, page, recovery, failures>>

FinishAbort(t) ==
  /\ pc[t] = "abort"
  /\ buffer' = [buffer EXCEPT ![t] = NoBuffer]
  /\ status' = [status EXCEPT ![t] = "aborted"]
  /\ pc' = [pc EXCEPT ![t] = "ready"]
  /\ owner' = Unlocked(t)
  /\ UNCHANGED <<store, mode, todo, page, recovery, failures>>

-----------------------------------------------------------------------------
(* Crash, and RecoveryManager.recover when the node starts again.          *)

Crash ==
  /\ \/ mode = "up" /\ failures < MaxFailures /\ failures' = failures + 1
     \/ mode = "recovering" /\ UNCHANGED failures
  /\ mode' = "down"
  /\ status' = NoTransactions /\ buffer' = NoBuffers /\ owner' = NoLocks
  /\ pc' = Idle /\ todo' = Nothing
  /\ page' = NoPages
  /\ redo' = {} /\ undo' = {} /\ losers' = {}
  /\ UNCHANGED store

Logged(type) == {log[i].txn : i \in {j \in DOMAIN log : log[j].type = type}}
Committed == Logged("COMMIT")

\* Mutant: who has already been aborted is aborted again.
LosersForgetful == Logged("BEGIN") \ Committed

Losers == (Logged("BEGIN") \ Committed) \ Logged("ABORT")

Writes(txns) == {i \in DOMAIN log : log[i].type = "WRITE" /\ log[i].txn \in txns}

\* All of the log is read and analysed before the first change.
StartRecovery ==
  /\ mode = "down"
  /\ mode' = "recovering"
  /\ redo' = Writes(Committed)
  /\ undo' = Writes(Losers)
  /\ losers' = Losers
  /\ UNCHANGED <<store, clients, page, failures>>

\* Mutant: the writes of committed transactions are redone newest first.
NewestRedo == {i \in redo : \A j \in redo : i >= j}

NextRedo == {i \in redo : \A j \in redo : i <= j}
NextUndo == {i \in undo : \A j \in undo : i >= j}

Redo ==
  /\ mode = "recovering"
  /\ \E i \in NextRedo :
       \/ Truncate(Recoverer, log[i].key, log[i].after) /\ UNCHANGED redo
       \/ Rewrite(Recoverer, log[i].key) /\ redo' = redo \ {i}
  /\ UNCHANGED <<log, promised, mode, clients, undo, losers, failures>>

\* Before "" there was no record, or one that held "".
UndoValue(e) == IF e.before = Empty THEN Absent ELSE e.before

\* A record that is not there is not deleted.
Undo ==
  /\ mode = "recovering" /\ redo = {}
  /\ \E i \in NextUndo :
       LET k == log[i].key
           v == UndoValue(log[i])
       IN \/ /\ v # Absent \/ disk[k] # Absent
             /\ Truncate(Recoverer, k, v)
             /\ UNCHANGED undo
          \/ Rewrite(Recoverer, k) /\ undo' = undo \ {i}
          \/ /\ v = Absent /\ disk[k] = Absent /\ page[Recoverer] = {}
             /\ undo' = undo \ {i}
             /\ UNCHANGED <<disk, page>>
  /\ UNCHANGED <<log, promised, mode, clients, redo, losers, failures>>

LogLoser ==
  /\ mode = "recovering" /\ redo = {} /\ undo = {}
  /\ \E t \in losers :
       /\ LogFate("ABORT", t)
       /\ losers' = losers \ {t}
  /\ UNCHANGED <<disk, promised, mode, clients, page, redo, undo, failures>>

\* Only now does the node get its TransactionManager: an empty one, whose
\* ids count from 1 again.
Serve ==
  /\ mode = "recovering"
  /\ redo = {} /\ undo = {} /\ losers = {}
  /\ mode' = "up"
  /\ UNCHANGED <<store, clients, page, recovery, failures>>

-----------------------------------------------------------------------------

Next ==
  \/ \E t \in Txn :
       \/ Begin(t) \/ LogBegin(t)
       \/ \E k \in Key, v \in Value : Write(t, k, v)
       \/ LogCommit(t) \/ Apply(t) \/ FinishCommit(t)
       \/ LogAbort(t) \/ FinishAbort(t)
  \/ Crash
  \/ StartRecovery \/ Redo \/ Undo \/ LogLoser \/ Serve

Spec == Init /\ [][Next]_vars

-----------------------------------------------------------------------------
(* What the log is for.                                                    *)

\* What is left of a value that was stored: undo takes "" for no record and
\* deletes one that held it.
Kept(v) == {v} \cup (IF v = Empty THEN {Absent} ELSE {})

BeingStored(k) == \E t \in Txn : pc[t] = "apply" /\ owner[FileOf(k)] = t

\* Atomicity and durability: in a node that is up the records are what the
\* transactions with a logged commit left, in the order of their commits,
\* wherever no such transaction is still storing its writes; only that a
\* record with the value "" may be gone.
CommittedIsStored ==
  mode = "up" => \A k \in Key : disk[k] \in Kept(promised[k]) \/ BeingStored(k)

\* The entries that decide the transaction begun by entry i.
Fates(i) ==
  {j \in i + 1 .. Len(log) :
     /\ log[j].txn = log[i].txn
     /\ log[j].type \in {"COMMIT", "ABORT"}
     /\ \A l \in i + 1 .. j : log[l].txn = log[i].txn => log[l].type # "BEGIN"}

\* Every transaction has one fate: no entry takes back a commit or an abort,
\* and a node that is up has left no transaction of an earlier run undecided.
DecidedOnce ==
  \A i \in DOMAIN log : log[i].type = "BEGIN" =>
    /\ Cardinality(Fates(i)) <= 1
    /\ mode = "up" /\ Fates(i) = {} => status[log[i].txn] = "active"

=============================================================================
