--------------------------- MODULE Recovery_proof ---------------------------
(***************************************************************************)
(* Atomicity and durability of the log and of recovery, up to the second   *)
(* crash of a running node, for every set of transactions, records and     *)
(* files and however often recovery itself is cut short.  What a second    *)
(* crash can do is shown by a run of MCRecovery.                           *)
(***************************************************************************)
EXTENDS Recovery, FiniteSetTheorems, TLAPS

\* Types, with what keeps the contents of the pages within theirs.
TypeInv ==
  /\ TypeOK
  /\ \A t \in Txn : /\ todo[t] \subseteq Dirty(t) /\ (pc[t] # "apply" => todo[t] = {})
                    /\ status[t] # "active" => pc[t] = "ready"
  /\ \A i \in redo \cup undo : log[i].type = "WRITE"

\* A node that is not up has no clients, one that is up no recovery.
ModeInv ==
  /\ mode # "up" => /\ clients = <<NoTransactions, NoBuffers, NoLocks, Idle, Nothing>>
                    /\ \A t \in Txn : page[t] = {}
  /\ mode # "recovering" => recovery = <<{}, {}, {}>> /\ page[Recoverer] = {}
  /\ mode # "up" /\ failures = 0 => log = << >>

\* What a thread will have made of record k once its file is rewritten: v, or
\* what is kept of it.
Holds(th, k, v) ==
  /\ \A p \in page[th] : FileOf(p.key) = FileOf(k) => p.content[k] \in Kept(v)
  /\ (\A p \in page[th] : FileOf(p.key) # FileOf(k)) => disk[k] \in Kept(v)

\* A client stores what it has logged, in files it has locked.
ClientInv(t) ==
  /\ status[t] = "none" \/ pc[t] = "begin" => Dirty(t) = {}
  /\ status[t] = "active" => \A k \in Dirty(t) : owner[FileOf(k)] = t
  /\ pc[t] = "apply" => \A k \in Dirty(t) : promised[k] = buffer[t][k]
  /\ \A p \in page[t] :
       /\ page[t] = {p} /\ pc[t] = "apply"
       /\ p.key \in todo[t] /\ p.content[p.key] = promised[p.key]
  /\ pc[t] = "apply" =>
       \A k \in Key : owner[FileOf(k)] = t /\ k \notin todo[t] => Holds(t, k, promised[k])

-----------------------------------------------------------------------------
(* The log, up to the end of the first recovery: in the second run the     *)
(* transactions count from 1 again, and their entries mix with the old.    *)

Fresh == failures = 0 \/ mode # "up"
FirstRun == failures = 0 /\ mode = "up"

Decided == Committed \cup Logged("ABORT")

\* Entry i of log l writes record k for a transaction of S.
IsWrite(l, i, S, k) == l[i].type = "WRITE" /\ l[i].txn \in S /\ l[i].key = k

NoWrite(l, S, k) == \A i \in DOMAIN l : ~ IsWrite(l, i, S, k)

LastWrite(l, S, k, v) ==
  \E i \in DOMAIN l : /\ IsWrite(l, i, S, k) /\ l[i].after = v
                      /\ \A j \in DOMAIN l : IsWrite(l, j, S, k) => j <= i

\* A record never promised is nowhere.
GhostInv ==
  \A k \in Key : promised[k] = Absent =>
    disk[k] = Absent /\ \A th \in Thread : \A p \in page[th] : p.content[k] = Absent

\* What is promised is the last committed write of the log, and what undo makes
\* of every write that has not been decided is what is kept of the promise.
PromiseInv ==
  /\ \A k \in Key : \/ NoWrite(log, Committed, k) /\ promised[k] = Absent
                    \/ LastWrite(log, Committed, k, promised[k])
  /\ \A i \in DOMAIN log : log[i].type = "WRITE" /\ log[i].txn \notin Decided =>
       UndoValue(log[i]) \in Kept(promised[log[i].key])

\* The undecided writes of the first run are in the buffers of its clients,
WritesBuffered ==
  \A i \in DOMAIN log : log[i].type = "WRITE" /\ log[i].txn \notin Decided =>
    /\ status[log[i].txn] = "active" /\ pc[log[i].txn] = "ready"
    /\ log[i].key \in Dirty(log[i].txn)

\* and what is in a buffer is the last write of the log;
BuffersLogged ==
  \A t \in Txn : status[t] = "active" /\ pc[t] = "ready" =>
    \A k \in Dirty(t) : LastWrite(log, Committed \cup {t}, k, buffer[t][k])

\* who is decided is on its way out,
DecidedLeave ==
  \A t \in Decided : status[t] # "none" /\ (status[t] = "active" => pc[t] \in {"apply", "abort"})

\* and who has a first entry has begun.
BegunRun ==
  \A i \in DOMAIN log : log[i].type = "BEGIN" =>
    status[log[i].txn] # "none" /\ pc[log[i].txn] # "begin"

RunInv == WritesBuffered /\ BuffersLogged /\ DecidedLeave /\ BegunRun

\* Recovery redoes a suffix of the committed writes; the records without a
\* write in it are as promised.
RecoveryInv ==
  /\ redo \subseteq Writes(Committed) /\ undo \subseteq Writes(Losers)
  /\ losers \subseteq Losers
  /\ \A i \in redo : \A j \in Writes(Committed) : i <= j => j \in redo
  /\ \A k \in Key : (\A i \in redo : log[i].key # k) => Holds(Recoverer, k, promised[k])
  /\ \A p \in page[Recoverer] :
       /\ page[Recoverer] = {p}
       /\ \/ \E i \in NextRedo : p.key = log[i].key /\ p.content[p.key] = log[i].after
          \/ redo = {} /\ NextUndo # {}

-----------------------------------------------------------------------------
(* The fates of the transactions.                                          *)

\* Entry j of log l decides the transaction that entry i begins.
Decides(l, i, j) ==
  /\ j \in DOMAIN l /\ i < j
  /\ l[j].txn = l[i].txn
  /\ l[j].type \in {"COMMIT", "ABORT"}
  /\ \A m \in DOMAIN l : i < m /\ m <= j /\ l[m].txn = l[i].txn => l[m].type # "BEGIN"

Begins(l, i) == i \in DOMAIN l /\ l[i].type = "BEGIN"
Open(l, i) == Begins(l, i) /\ \A j \in DOMAIN l : ~ Decides(l, i, j)
NewestBegin(l, i) ==
  Begins(l, i) /\ \A j \in DOMAIN l : Begins(l, j) /\ l[j].txn = l[i].txn => j <= i

OneFate ==
  \A i, j, m \in DOMAIN log :
    Begins(log, i) /\ Decides(log, i, j) /\ Decides(log, i, m) => j = m

\* In a node that is up the open transactions are the ones its clients are
\* in, each in the newest of its incarnations.
OpenUp ==
  /\ \A i \in DOMAIN log : Open(log, i) =>
       /\ NewestBegin(log, i)
       /\ status[log[i].txn] = "active" /\ pc[log[i].txn] = "ready"
  /\ \A i \in DOMAIN log :
       NewestBegin(log, i) /\ status[log[i].txn] = "active" /\ pc[log[i].txn] = "ready"
         => Open(log, i)

\* Recovery aborts whatever is open.
OpenInv ==
  /\ OneFate
  /\ mode = "up" => OpenUp
  /\ mode = "recovering" => \A i \in DOMAIN log : Open(log, i) => log[i].txn \in losers

\* Up to the second run every transaction begins once.
BeginInv ==
  /\ \A i, j \in DOMAIN log : Begins(log, i) /\ Begins(log, j) /\ log[i].txn = log[j].txn => i = j
  /\ \A i \in DOMAIN log : Open(log, i) => log[i].txn \notin Decided

-----------------------------------------------------------------------------

BaseInv == ModeInv /\ CommittedIsStored /\ \A t \in Txn : ClientInv(t)

IInv ==
  /\ TypeInv
  /\ failures <= 1 =>
       /\ BaseInv /\ OpenInv
       /\ Fresh => GhostInv /\ PromiseInv /\ BeginInv
       /\ FirstRun => RunInv
       /\ mode = "recovering" => RecoveryInv

-----------------------------------------------------------------------------
(* Types.                                                                  *)

LEMMA TxnFacts == Txn \subseteq Nat /\ 0 \notin Txn /\ Recoverer \notin Txn
<1>1. Cardinality(Txn) \in Nat
  BY RecoveryAssumption, FS_CardinalityType
<1>2. Txn \subseteq Nat /\ 0 \notin Txn
  BY <1>1, RecoveryAssumption
<1>. QED BY <1>2 DEF Recoverer

\* What is kept of a value is the value, and of no record no record.
LEMMA KeptIs ==
  /\ \A v : v \in Kept(v)
  /\ \A v, d : d \in Kept(v) => d = v \/ (d = Absent /\ v = Empty)
  /\ Kept(Absent) = {Absent} /\ Absent \in Kept(Empty)
BY DEF Kept, Absent, Empty

Appends(e) ==
  /\ Len(log) \in Nat /\ Len(log') = Len(log) + 1
  /\ DOMAIN log = 1 .. Len(log) /\ DOMAIN log' = 1 .. Len(log')
  /\ log'[Len(log')] = e
  /\ \A i \in DOMAIN log : log'[i] = log[i]

LEMMA AppendFacts ==
  ASSUME log \in Seq(Entry), NEW e \in Entry, log' = Append(log, e)
  PROVE  Appends(e) /\ log' \in Seq(Entry)
BY DEF Appends

LEMMA FateEntry ==
  ASSUME NEW t \in Txn, NEW f \in {"BEGIN", "COMMIT", "ABORT"}
  PROVE  [type |-> f, txn |-> t] \in Entry
BY DEF Entry

LEMMA WriteEntry ==
  ASSUME NEW e \in Entry, e.type = "WRITE"
  PROVE  /\ e.txn \in Txn /\ e.key \in Key /\ e.after \in Value
         /\ UndoValue(e) \in Value \cup {Absent}
BY DEF Entry, UndoValue

LEMMA LogFateFacts ==
  ASSUME TypeOK, NEW t \in Txn, NEW f \in {"BEGIN", "COMMIT", "ABORT"}, LogFate(f, t)
  PROVE  Appends([type |-> f, txn |-> t]) /\ log' \in Seq(Entry)
BY AppendFacts, FateEntry DEF LogFate, TypeOK

LEMMA StoredType ==
  ASSUME TypeOK, NEW f, NEW c \in Content
  PROVE  Stored(f, c) \in Content
BY DEF TypeOK, Stored, Content

Page == [key : Key, content : Content]

\* What truncating and rewriting a file do to the records and the pages.
LEMMA TruncateFacts ==
  ASSUME TypeOK, NEW th \in Thread, NEW k \in Key, NEW v \in Value \cup {Absent},
         Truncate(th, k, v)
  PROVE  /\ disk' \in Content /\ page' \in [Thread -> SUBSET Page]
         /\ page[th] = {}
         /\ \E p \in Page :
              /\ page'[th] = {p} /\ p.key = k /\ p.content[k] = v
              /\ \A l \in Key : l # k => p.content[l] = disk[l]
         /\ \A u \in Thread : u # th => page'[u] = page[u]
         /\ \A l \in Key : disk'[l] = IF FileOf(l) = FileOf(k) THEN Absent ELSE disk[l]
<1>1. disk \in Content /\ page \in [Thread -> SUBSET Page]
  BY DEF TypeOK, Page
<1>. DEFINE p == [key |-> k, content |-> [disk EXCEPT ![k] = v]]
<1>2. page[th] = {} /\ page' = [page EXCEPT ![th] = {p}]
  BY DEF Truncate
<1>3. disk' = Stored(FileOf(k), [l \in Key |-> Absent])
  BY DEF Truncate
<1>4. [disk EXCEPT ![k] = v] \in Content
  BY <1>1 DEF Content
<1>5. /\ p \in Page /\ p.key = k /\ p.content[k] = v
      /\ \A l \in Key : l # k => p.content[l] = disk[l]
  BY <1>1, <1>4 DEF Page, Content
<1>6. [l \in Key |-> Absent] \in Content
  BY DEF Content
<1>7. disk' \in Content
  BY <1>3, <1>6, StoredType
<1>8. \A l \in Key : disk'[l] = IF FileOf(l) = FileOf(k) THEN Absent ELSE disk[l]
  BY <1>3 DEF Stored
<1>. HIDE DEF p
<1>9. page' \in [Thread -> SUBSET Page] /\ page'[th] = {p}
  BY <1>1, <1>2, <1>5
<1>10. \A u \in Thread : u # th => page'[u] = page[u]
  BY <1>1, <1>2
<1>. QED BY <1>2, <1>5, <1>7, <1>8, <1>9, <1>10

LEMMA RewriteFacts ==
  ASSUME TypeOK, NEW th \in Thread, NEW k \in Key, Rewrite(th, k)
  PROVE  /\ disk' \in Content /\ page' \in [Thread -> SUBSET Page]
         /\ page'[th] = {}
         /\ \A u \in Thread : u # th => page'[u] = page[u]
         /\ \E p \in page[th] :
              /\ p.key = k
              /\ \A l \in Key :
                   disk'[l] = IF FileOf(l) = FileOf(k) THEN p.content[l] ELSE disk[l]
<1>1. disk \in Content /\ page \in [Thread -> SUBSET Page]
  BY DEF TypeOK, Page
<1>2. PICK p \in page[th] : /\ p.key = k
                            /\ page' = [page EXCEPT ![th] = {}]
                            /\ disk' = Stored(FileOf(k), p.content)
  BY DEF Rewrite
<1>3. p.content \in Content
  BY <1>1 DEF Page
<1>4. disk' \in Content
  BY <1>2, <1>3, StoredType
<1>5. \A l \in Key : disk'[l] = IF FileOf(l) = FileOf(k) THEN p.content[l] ELSE disk[l]
  BY <1>2 DEF Stored
<1>6. /\ page' \in [Thread -> SUBSET Page] /\ page'[th] = {}
      /\ \A u \in Thread : u # th => page'[u] = page[u]
  BY <1>1, <1>2
<1>. QED BY <1>2, <1>4, <1>5, <1>6

LEMMA InitTypes == Init => TypeInv
<1>. SUFFICES ASSUME Init PROVE TypeInv
  OBVIOUS
<1>1. log \in Seq(Entry) /\ disk \in Content /\ promised \in Content
  BY DEF Init, Content
<1>2. /\ status \in [Txn -> {"none", "active", "committed", "aborted"}]
      /\ buffer \in [Txn -> [Key -> Value \cup {Unset}]]
      /\ owner \in [Files -> Txn \cup {0}]
      /\ pc \in [Txn -> {"ready", "begin", "apply", "abort"}]
      /\ todo \in [Txn -> SUBSET Key]
  BY DEF Init, NoTransactions, NoBuffers, NoBuffer, NoLocks, Idle, Nothing
<1>3. page \in [Thread -> SUBSET [key : Key, content : Content]]
  BY DEF Init, NoPages
<1>4. failures \in 0 .. MaxFailures
  BY RecoveryAssumption DEF Init
<1>5. TypeOK
  BY <1>1, <1>2, <1>3, <1>4 DEF Init, TypeOK
<1>6. \A t \in Txn : todo[t] = {} /\ pc[t] = "ready"
  BY DEF Init, Nothing, Idle
<1>. QED BY <1>5, <1>6 DEF Init, TypeInv

LEMMA DirtyType == ASSUME TypeOK, NEW t \in Txn, NEW k \in Dirty(t)
                   PROVE  k \in Key /\ buffer[t][k] \in Value
BY DEF TypeOK, Dirty

\* Whatever is added to the log, places in it stay what they are.
LEMMA PlacesStay ==
  ASSUME TypeInv, NEW e, Appends(e), redo' \subseteq redo, undo' \subseteq undo
  PROVE  /\ redo' \subseteq DOMAIN log' /\ undo' \subseteq DOMAIN log'
         /\ \A i \in redo' \cup undo' : log'[i].type = "WRITE"
<1>1. redo \subseteq DOMAIN log /\ undo \subseteq DOMAIN log
  BY DEF TypeInv, TypeOK
<1>2. DOMAIN log \subseteq DOMAIN log' /\ \A i \in DOMAIN log : log'[i] = log[i]
  BY DEF Appends
<1>. QED BY <1>1, <1>2 DEF TypeInv

LEMMA ClientTypes ==
  ASSUME TypeInv, NEW t \in Txn,
         \/ Begin(t) \/ LogBegin(t) \/ \E k \in Key, v \in Value : Write(t, k, v)
         \/ LogCommit(t) \/ FinishCommit(t) \/ LogAbort(t) \/ FinishAbort(t)
  PROVE  TypeInv'
<1>. USE DEF TypeInv, store, clients, recovery
<1>1. TypeOK
  OBVIOUS
<1>2. CASE Begin(t)
  <2>1. TypeOK'
    BY <1>1, <1>2 DEF TypeOK, Begin
  <2>. QED BY <1>1, <1>2, <2>1 DEF TypeOK, Begin, Dirty
<1>3. CASE LogBegin(t)
  <2>1. Appends([type |-> "BEGIN", txn |-> t]) /\ log' \in Seq(Entry)
    BY <1>1, <1>3, LogFateFacts DEF LogBegin
  <2>2. /\ redo' \subseteq DOMAIN log' /\ undo' \subseteq DOMAIN log'
        /\ \A i \in redo' \cup undo' : log'[i].type = "WRITE"
    BY <1>3, <2>1, PlacesStay DEF LogBegin
  <2>3. TypeOK'
    BY <1>3, <2>1, <2>2 DEF TypeOK, LogBegin
  <2>4. \A u \in Txn : /\ todo'[u] \subseteq Dirty(u)' /\ (pc'[u] # "apply" => todo'[u] = {})
                       /\ status'[u] # "active" => pc'[u] = "ready"
    BY <1>3, <1>1 DEF LogBegin, TypeOK, Dirty
  <2>. QED BY <2>2, <2>3, <2>4
<1>4. ASSUME NEW k \in Key, NEW v \in Value, Write(t, k, v) PROVE TypeInv'
  <2>. DEFINE e == [type |-> "WRITE", txn |-> t, key |-> k,
                    before |-> AsLogged(disk[k]), after |-> v]
  <2>1. AsLogged(disk[k]) \in Value \cup {Empty}
    BY <1>1 DEF TypeOK, Content, AsLogged
  <2>2. e \in Entry
    BY <2>1 DEF Entry
  <2>3. log' = Append(log, e)
    BY <1>4 DEF Write
  <2>. HIDE DEF e
  <2>4. Appends(e) /\ log' \in Seq(Entry)
    BY <1>1, <2>2, <2>3, AppendFacts DEF TypeOK
  <2>5. /\ redo' \subseteq DOMAIN log' /\ undo' \subseteq DOMAIN log'
        /\ \A i \in redo' \cup undo' : log'[i].type = "WRITE"
    BY <1>4, <2>4, PlacesStay DEF Write
  <2>6. owner' \in [Files -> Txn \cup {0}]
    BY <1>4, <1>1 DEF TypeOK, Write
  <2>7. buffer' \in [Txn -> [Key -> Value \cup {Unset}]]
    BY <1>4, <1>1 DEF TypeOK, Write
  <2>8. TypeOK'
    BY <1>4, <1>1, <2>4, <2>5, <2>6, <2>7 DEF TypeOK, Write
  <2>9. \A u \in Txn : /\ todo'[u] \subseteq Dirty(u)' /\ (pc'[u] # "apply" => todo'[u] = {})
                       /\ status'[u] # "active" => pc'[u] = "ready"
    BY <1>4, <1>1 DEF Write, Dirty, TypeOK
  <2>. QED BY <2>5, <2>8, <2>9
<1>5. CASE LogCommit(t)
  <2>1. Appends([type |-> "COMMIT", txn |-> t]) /\ log' \in Seq(Entry)
    BY <1>1, <1>5, LogFateFacts DEF LogCommit
  <2>2. /\ redo' \subseteq DOMAIN log' /\ undo' \subseteq DOMAIN log'
        /\ \A i \in redo' \cup undo' : log'[i].type = "WRITE"
    BY <1>5, <2>1, PlacesStay DEF LogCommit
  <2>3. promised' \in Content
    BY <1>5, <1>1, DirtyType DEF TypeOK, LogCommit, Content
  <2>4. todo' \in [Txn -> SUBSET Key] /\ todo'[t] = Dirty(t)
    BY <1>5, <1>1 DEF TypeOK, LogCommit, Dirty
  <2>5. TypeOK'
    BY <1>5, <1>1, <2>1, <2>2, <2>3, <2>4 DEF TypeOK, LogCommit
  <2>6. \A u \in Txn : /\ todo'[u] \subseteq Dirty(u)' /\ (pc'[u] # "apply" => todo'[u] = {})
                       /\ status'[u] # "active" => pc'[u] = "ready"
    BY <1>5, <1>1, <2>4 DEF LogCommit, Dirty, TypeOK
  <2>. QED BY <2>2, <2>5, <2>6
<1>6. CASE FinishCommit(t)
  <2>1. owner' \in [Files -> Txn \cup {0}]
    BY <1>6, <1>1 DEF FinishCommit, Unlocked, TypeOK
  <2>2. TypeOK'
    BY <1>6, <1>1, <2>1 DEF FinishCommit, TypeOK
  <2>3. \A u \in Txn : /\ todo'[u] \subseteq Dirty(u)' /\ (pc'[u] # "apply" => todo'[u] = {})
                       /\ status'[u] # "active" => pc'[u] = "ready"
    BY <1>6, <1>1 DEF FinishCommit, TypeOK, Dirty
  <2>. QED BY <1>6, <2>2, <2>3 DEF FinishCommit
<1>7. CASE LogAbort(t)
  <2>1. Appends([type |-> "ABORT", txn |-> t]) /\ log' \in Seq(Entry)
    BY <1>1, <1>7, LogFateFacts DEF LogAbort
  <2>2. /\ redo' \subseteq DOMAIN log' /\ undo' \subseteq DOMAIN log'
        /\ \A i \in redo' \cup undo' : log'[i].type = "WRITE"
    BY <1>7, <2>1, PlacesStay DEF LogAbort
  <2>3. TypeOK'
    BY <1>7, <2>1, <2>2 DEF TypeOK, LogAbort
  <2>4. \A u \in Txn : /\ todo'[u] \subseteq Dirty(u)' /\ (pc'[u] # "apply" => todo'[u] = {})
                       /\ status'[u] # "active" => pc'[u] = "ready"
    BY <1>7, <1>1 DEF LogAbort, TypeOK, Dirty
  <2>. QED BY <2>2, <2>3, <2>4
<1>8. CASE FinishAbort(t)
  <2>1. owner' \in [Files -> Txn \cup {0}]
    BY <1>8, <1>1 DEF FinishAbort, Unlocked, TypeOK
  <2>2. NoBuffer \in [Key -> Value \cup {Unset}]
    BY DEF NoBuffer
  <2>3. TypeOK'
    BY <1>8, <1>1, <2>1, <2>2 DEF FinishAbort, TypeOK
  <2>4. \A u \in Txn : /\ todo'[u] \subseteq Dirty(u)' /\ (pc'[u] # "apply" => todo'[u] = {})
                       /\ status'[u] # "active" => pc'[u] = "ready"
    BY <1>8, <1>1 DEF FinishAbort, TypeOK, Dirty
  <2>. QED BY <1>8, <2>3, <2>4 DEF FinishAbort
<1>. QED BY <1>2, <1>3, <1>4, <1>5, <1>6, <1>7, <1>8

LEMMA ApplyTypes ==
  ASSUME TypeInv, NEW t \in Txn, Apply(t)
  PROVE  TypeInv'
<1>1. TypeOK /\ t \in Thread
  BY DEF TypeInv, Thread
<1>2. \A k \in todo[t] : k \in Key /\ buffer[t][k] \in Value
  BY <1>1, DirtyType DEF TypeInv
<1>3. disk' \in Content /\ page' \in [Thread -> SUBSET Page]
  <2>1. ASSUME NEW k \in todo[t], Truncate(t, k, buffer[t][k])
        PROVE  disk' \in Content /\ page' \in [Thread -> SUBSET Page]
    BY <1>1, <1>2, <2>1, TruncateFacts
  <2>2. ASSUME NEW k \in todo[t], Rewrite(t, k)
        PROVE  disk' \in Content /\ page' \in [Thread -> SUBSET Page]
    BY <1>1, <1>2, <2>2, RewriteFacts
  <2>. QED BY <2>1, <2>2 DEF Apply
<1>4. todo' \in [Txn -> SUBSET Key] /\ \A u \in Txn : todo'[u] \subseteq todo[u]
  BY <1>1 DEF Apply, TypeOK
<1>5. TypeOK'
  BY <1>1, <1>3, <1>4 DEF Apply, TypeOK, Page, recovery
<1>6. \A u \in Txn : Dirty(u)' = Dirty(u)
  BY DEF Apply, Dirty
<1>. QED BY <1>4, <1>5, <1>6 DEF TypeInv, Apply, recovery

LEMMA CrashTypes == TypeInv /\ Crash => TypeInv'
<1>. SUFFICES ASSUME TypeInv, Crash PROVE TypeInv'
  OBVIOUS
<1>1. TypeOK
  BY DEF TypeInv
<1>2. /\ status' \in [Txn -> {"none", "active", "committed", "aborted"}]
      /\ buffer' \in [Txn -> [Key -> Value \cup {Unset}]]
      /\ owner' \in [Files -> Txn \cup {0}]
      /\ pc' \in [Txn -> {"ready", "begin", "apply", "abort"}]
      /\ todo' \in [Txn -> SUBSET Key]
  BY DEF Crash, NoTransactions, NoBuffers, NoBuffer, NoLocks, Idle, Nothing
<1>3. page' \in [Thread -> SUBSET [key : Key, content : Content]]
  BY DEF Crash, NoPages
<1>4. failures' \in 0 .. MaxFailures
  BY <1>1, RecoveryAssumption DEF TypeOK, Crash
<1>5. TypeOK'
  BY <1>1, <1>2, <1>3, <1>4 DEF Crash, TypeOK, store
<1>6. \A t \in Txn : todo'[t] = {} /\ pc'[t] = "ready"
  BY DEF Crash, Nothing, Idle
<1>. QED BY <1>5, <1>6 DEF Crash, TypeInv

LEMMA RecoveryTypes ==
  ASSUME TypeInv, StartRecovery \/ Redo \/ Undo \/ LogLoser \/ Serve
  PROVE  TypeInv'
<1>1. TypeOK /\ Recoverer \in Thread
  BY DEF TypeInv, Thread
<1>. USE DEF store, clients, recovery
<1>2. CASE StartRecovery
  <2>1. Losers \subseteq Txn
    BY <1>1, FateEntry DEF Losers, Logged, TypeOK, Entry
  <2>2. redo' \subseteq DOMAIN log /\ undo' \subseteq DOMAIN log
    BY <1>2 DEF StartRecovery, Writes
  <2>3. TypeOK'
    BY <1>1, <1>2, <2>1, <2>2 DEF StartRecovery, TypeOK
  <2>. QED BY <1>2, <2>3 DEF StartRecovery, TypeInv, Writes, Dirty
<1>3. ASSUME Redo \/ Undo PROVE TypeInv'
  <2>1. \A i \in redo \cup undo :
          /\ log[i] \in Entry /\ log[i].key \in Key
          /\ log[i].after \in Value /\ UndoValue(log[i]) \in Value \cup {Absent}
    BY <1>1, WriteEntry DEF TypeInv, TypeOK
  <2>2. disk' \in Content /\ page' \in [Thread -> SUBSET Page]
    <3>1. ASSUME NEW k \in Key, NEW v \in Value \cup {Absent}, Truncate(Recoverer, k, v)
          PROVE  disk' \in Content /\ page' \in [Thread -> SUBSET Page]
      BY <1>1, <3>1, TruncateFacts
    <3>2. ASSUME NEW k \in Key, Rewrite(Recoverer, k)
          PROVE  disk' \in Content /\ page' \in [Thread -> SUBSET Page]
      BY <1>1, <3>2, RewriteFacts
    <3>3. UNCHANGED <<disk, page>> => disk' \in Content /\ page' \in [Thread -> SUBSET Page]
      BY <1>1 DEF TypeOK, Page
    <3>4. NextRedo \subseteq redo /\ NextUndo \subseteq undo
      BY DEF NextRedo, NextUndo
    <3>5. CASE Redo
      BY <3>1, <3>2, <3>4, <3>5, <2>1 DEF Redo
    <3>6. CASE Undo
      BY <3>1, <3>2, <3>3, <3>4, <3>6, <2>1 DEF Undo
    <3>. QED BY <1>3, <3>5, <3>6
  <2>3. redo' \subseteq redo /\ undo' \subseteq undo
    BY <1>3 DEF Redo, Undo
  <2>4. UNCHANGED <<log, promised, mode, clients, losers, failures>>
    BY <1>3 DEF Redo, Undo
  <2>5. TypeOK'
    BY <1>1, <2>2, <2>3, <2>4 DEF TypeOK, Page
  <2>. QED BY <2>3, <2>4, <2>5 DEF TypeInv, Dirty
<1>4. CASE LogLoser
  <2>1. PICK t \in losers : LogFate("ABORT", t) /\ losers' = losers \ {t}
    BY <1>4 DEF LogLoser
  <2>2. t \in Txn
    BY <1>1, <2>1 DEF TypeOK
  <2>3. Appends([type |-> "ABORT", txn |-> t]) /\ log' \in Seq(Entry)
    BY <1>1, <2>1, <2>2, LogFateFacts
  <2>4. /\ redo' \subseteq DOMAIN log' /\ undo' \subseteq DOMAIN log'
        /\ \A i \in redo' \cup undo' : log'[i].type = "WRITE"
    BY <1>4, <2>3, PlacesStay DEF LogLoser
  <2>5. TypeOK'
    BY <1>1, <1>4, <2>1, <2>3, <2>4 DEF LogLoser, TypeOK
  <2>. QED BY <1>4, <2>4, <2>5 DEF LogLoser, TypeInv, Dirty
<1>5. CASE Serve
  <2>1. TypeOK'
    BY <1>1, <1>5 DEF TypeOK, Serve
  <2>. QED BY <1>5, <2>1 DEF TypeInv, Serve, Dirty
<1>. QED BY <1>2, <1>3, <1>4, <1>5

LEMMA StutterTypes == ASSUME TypeInv, UNCHANGED vars PROVE TypeInv'
<1>. USE DEF vars, store, clients, recovery
<1>1. TypeOK'
  BY DEF TypeInv, TypeOK
<1>. QED BY <1>1 DEF TypeInv, Dirty

LEMMA TypeStep == TypeInv /\ [Next]_vars => TypeInv'
BY ClientTypes, ApplyTypes, CrashTypes, RecoveryTypes, StutterTypes DEF Next

-----------------------------------------------------------------------------
(* The clients of a running node, and the records.                         *)

LEMMA Clients ==
  ASSUME TypeInv, ModeInv, NEW t \in Txn, mode # "up"
  PROVE  /\ status[t] = "none" /\ pc[t] = "ready" /\ buffer[t] = NoBuffer
         /\ page[t] = {}
BY DEF ModeInv, clients, NoTransactions, NoBuffers, Idle

LEMMA IdleClient ==
  ASSUME NEW t \in Txn, status'[t] = "none", pc'[t] = "ready", buffer'[t] = NoBuffer,
         page'[t] = {}
  PROVE  ClientInv(t)'
BY DEF ClientInv, Dirty, NoBuffer

\* The client a step is not about.
Bystander(u) ==
  /\ status'[u] = status[u] /\ buffer'[u] = buffer[u] /\ pc'[u] = pc[u]
  /\ todo'[u] = todo[u] /\ page'[u] = page[u]
  /\ \A k \in Key :
       /\ owner'[FileOf(k)] = u <=> owner[FileOf(k)] = u
       /\ owner[FileOf(k)] = u => disk'[k] = disk[k] /\ promised'[k] = promised[k]

LEMMA ClientFrame ==
  ASSUME TypeInv, NEW u \in Txn, ClientInv(u), Bystander(u)
  PROVE  ClientInv(u)'
<1>1. Dirty(u)' = Dirty(u) /\ Dirty(u) \subseteq Key
  BY DEF Bystander, Dirty
<1>2. pc[u] = "apply" => status[u] = "active"
  BY DEF TypeInv
<1>3. ASSUME NEW p \in page[u]
      PROVE  p.key \in Key /\ owner[FileOf(p.key)] = u /\ promised'[p.key] = promised[p.key]
  <2>1. p.key \in todo[u] /\ pc[u] = "apply"
    BY DEF ClientInv
  <2>2. p.key \in Dirty(u)
    BY <2>1 DEF TypeInv
  <2>. QED BY <1>1, <1>2, <2>1, <2>2 DEF ClientInv, Bystander
<1>4. \A k \in Key : owner[FileOf(k)] = u /\ k \notin todo[u] /\ pc[u] = "apply" =>
        Holds(u, k, promised[k])'
  BY DEF ClientInv, Bystander, Holds
<1>5. pc[u] = "apply" => \A k \in Dirty(u) : promised'[k] = buffer[u][k]
  BY <1>1, <1>2 DEF ClientInv, Bystander
<1>. QED BY <1>1, <1>2, <1>3, <1>4, <1>5 DEF ClientInv, Bystander

LEMMA UpAtWork ==
  ASSUME TypeInv, ModeInv, NEW t \in Txn,
         mode = "up" \/ status[t] # "none" \/ pc[t] # "ready"
  PROVE  mode = "up"
BY Clients

\* Steps of a client that leave the records and the pages alone.
LEMMA QuietBase ==
  ASSUME TypeInv, BaseInv, NEW t \in Txn,
         \/ Begin(t) \/ LogBegin(t) \/ \E k \in Key, v \in Value : Write(t, k, v)
         \/ FinishCommit(t) \/ LogAbort(t) \/ FinishAbort(t)
  PROVE  BaseInv'
<1>1. mode = "up" /\ mode' = "up"
  BY UpAtWork DEF BaseInv, Begin, LogBegin, Write, FinishCommit, LogAbort, FinishAbort, store
<1>2. UNCHANGED <<disk, promised, page, recovery, failures>>
  BY DEF Begin, LogBegin, Write, FinishCommit, LogAbort, FinishAbort, store
<1>3. ModeInv'
  BY <1>1, <1>2 DEF BaseInv, ModeInv, recovery
<1>4. TypeOK /\ ClientInv(t) /\ 0 \notin Txn
  BY TxnFacts DEF TypeInv, BaseInv
<1>5. ASSUME NEW u \in Txn, NEW k \in Key
      PROVE  /\ u # t => (owner'[FileOf(k)] = u <=> owner[FileOf(k)] = u)
             /\ owner[FileOf(k)] = t /\ status'[t] = "active" => owner'[FileOf(k)] = t
  <2>1. FileOf(k) \in Files
    BY DEF FileOf, Files
  <2>2. \A f \in Files : Unlocked(t)[f] = IF owner[f] = t THEN 0 ELSE owner[f]
    BY DEF Unlocked
  <2>3. CASE UNCHANGED owner
    BY <2>3
  <2>4. CASE owner' = Unlocked(t) /\ status'[t] # "active"
    BY <1>4, <2>1, <2>2, <2>4 DEF TypeOK
  <2>5. ASSUME NEW l \in Key, NEW v \in Value, Write(t, l, v)
        PROVE  /\ u # t => (owner'[FileOf(k)] = u <=> owner[FileOf(k)] = u)
               /\ owner[FileOf(k)] = t /\ status'[t] = "active" => owner'[FileOf(k)] = t
    BY <1>4, <2>1, <2>5 DEF TypeOK, Write
  <2>6. CASE Begin(t) \/ LogBegin(t) \/ LogAbort(t)
    BY <2>3, <2>6 DEF Begin, LogBegin, LogAbort
  <2>7. CASE FinishCommit(t) \/ FinishAbort(t)
    BY <1>4, <2>4, <2>7 DEF FinishCommit, FinishAbort, TypeOK
  <2>. QED BY <2>5, <2>6, <2>7
<1>6. ASSUME NEW u \in Txn, u # t PROVE ClientInv(u)'
  <2>1. /\ status'[u] = status[u] /\ buffer'[u] = buffer[u] /\ pc'[u] = pc[u]
        /\ todo'[u] = todo[u]
    BY <1>4, <1>6 DEF TypeOK, Begin, LogBegin, Write, FinishCommit, LogAbort, FinishAbort
  <2>2. Bystander(u)
    BY <1>2, <1>5, <1>6, <2>1 DEF Bystander
  <2>. QED BY <2>2, ClientFrame DEF BaseInv
<1>7. /\ ClientInv(t)' /\ page[t] = {}
      /\ pc[t] = "apply" => todo[t] = {}
  <2>1. pc'[t] # "apply" /\ (pc[t] = "apply" => todo[t] = {})
    <3>1. CASE Begin(t) \/ LogBegin(t) \/ LogAbort(t)
      BY <1>4, <3>1 DEF TypeOK, Begin, LogBegin, LogAbort, TypeInv
    <3>2. CASE FinishCommit(t) \/ FinishAbort(t)
      BY <1>4, <3>2 DEF TypeOK, FinishCommit, FinishAbort
    <3>3. ASSUME NEW k \in Key, NEW v \in Value, Write(t, k, v)
          PROVE  pc'[t] # "apply" /\ (pc[t] = "apply" => todo[t] = {})
      BY <1>4, <3>3 DEF TypeOK, Write
    <3>. QED BY <3>1, <3>2, <3>3
  <2>2. page[t] = {} /\ page'[t] = {}
    BY <1>2, <1>4, <2>1 DEF ClientInv
  <2>3. status'[t] = "none" \/ pc'[t] = "begin" => Dirty(t)' = {}
    <3>1. CASE Begin(t) \/ LogBegin(t) \/ LogAbort(t)
      BY <1>4, <3>1 DEF TypeOK, Begin, LogBegin, LogAbort, ClientInv, Dirty
    <3>2. CASE FinishCommit(t) \/ FinishAbort(t)
      BY <1>4, <3>2 DEF TypeOK, FinishCommit, FinishAbort
    <3>3. ASSUME NEW k \in Key, NEW v \in Value, Write(t, k, v)
          PROVE  status'[t] # "none" /\ pc'[t] # "begin"
      BY <1>4, <3>3 DEF TypeOK, Write
    <3>. QED BY <3>1, <3>2, <3>3
  <2>4. status'[t] = "active" => \A k \in Dirty(t)' : owner'[FileOf(k)] = t
    <3>1. CASE Begin(t)
      BY <3>1, <1>4 DEF Begin, TypeOK, ClientInv, Dirty
    <3>2. ASSUME NEW k \in Key, NEW v \in Value, Write(t, k, v)
          PROVE  \A l \in Dirty(t)' : owner'[FileOf(l)] = t
      <4>1. FileOf(k) \in Files
        BY DEF FileOf, Files
      <4>2. owner'[FileOf(k)] = t
        BY <1>4, <3>2, <4>1 DEF Write, TypeOK
      <4>3. Dirty(t)' \subseteq Dirty(t) \cup {k}
        BY <1>4, <3>2 DEF Write, TypeOK, Dirty
      <4>4. status[t] = "active" /\ status'[t] = "active" /\ Dirty(t) \subseteq Key
        BY <3>2 DEF Write, Dirty
      <4>. QED BY <1>4, <1>5, <4>2, <4>3, <4>4 DEF ClientInv
    <3>3. CASE LogBegin(t) \/ LogAbort(t)
      BY <3>3, <1>4 DEF LogBegin, LogAbort, ClientInv, Dirty
    <3>4. CASE FinishCommit(t) \/ FinishAbort(t)
      BY <3>4, <1>4 DEF FinishCommit, FinishAbort, TypeOK
    <3>. QED BY <3>1, <3>2, <3>3, <3>4
  <2>. QED BY <2>1, <2>2, <2>3, <2>4 DEF ClientInv
<1>8. CommittedIsStored'
  <2>1. SUFFICES ASSUME NEW k \in Key, disk[k] \notin Kept(promised[k])
                 PROVE  \E u \in Txn : pc'[u] = "apply" /\ owner'[FileOf(k)] = u
    BY <1>1, <1>2 DEF CommittedIsStored, BeingStored
  <2>2. PICK u \in Txn : pc[u] = "apply" /\ owner[FileOf(k)] = u
    BY <1>1, <2>1 DEF BaseInv, CommittedIsStored, BeingStored
  <2>3. u # t
    <3>1. ASSUME u = t PROVE disk[k] \in Kept(promised[k])
      BY <1>4, <1>7, <2>2, <3>1 DEF ClientInv, Holds
    <3>. QED BY <2>1, <3>1
  <2>4. pc'[u] = pc[u]
    BY <1>4, <2>3 DEF TypeOK, Begin, LogBegin, Write, FinishCommit, LogAbort, FinishAbort
  <2>. QED BY <1>5, <2>2, <2>3, <2>4
<1>. QED BY <1>3, <1>6, <1>7, <1>8 DEF BaseInv

LEMMA LogCommitBase ==
  ASSUME TypeInv, BaseInv, NEW t \in Txn, LogCommit(t)
  PROVE  BaseInv'
<1>1. /\ mode = "up" /\ mode' = "up" /\ status[t] = "active" /\ pc[t] = "ready"
      /\ UNCHANGED <<disk, status, buffer, owner, page, recovery, failures>>
  BY UpAtWork DEF BaseInv, LogCommit
<1>2. TypeOK /\ ClientInv(t)
  BY DEF TypeInv, BaseInv
<1>3. \A k \in Key : promised'[k] = IF k \in Dirty(t) THEN buffer[t][k] ELSE promised[k]
  BY DEF LogCommit
<1>4. pc'[t] = "apply" /\ todo'[t] = Dirty(t) /\ Dirty(t)' = Dirty(t)
  BY <1>1, <1>2 DEF LogCommit, TypeOK, Dirty
<1>5. ModeInv'
  BY <1>1 DEF BaseInv, ModeInv, recovery
<1>6. ASSUME NEW k \in Dirty(t) PROVE k \in Key /\ owner[FileOf(k)] = t
  BY <1>1, <1>2 DEF Dirty, ClientInv
<1>7. ASSUME NEW u \in Txn, u # t PROVE ClientInv(u)' /\ pc'[u] = pc[u]
  <2>1. /\ status'[u] = status[u] /\ buffer'[u] = buffer[u] /\ pc'[u] = pc[u]
        /\ todo'[u] = todo[u]
    BY <1>1, <1>2, <1>7 DEF TypeOK, LogCommit
  <2>2. \A k \in Key : owner[FileOf(k)] = u => promised'[k] = promised[k]
    BY <1>3, <1>6, <1>7
  <2>3. Bystander(u)
    BY <1>1, <2>1, <2>2 DEF Bystander
  <2>. QED BY <2>1, <2>3, ClientFrame DEF BaseInv
<1>8. page[t] = {}
  BY <1>1, <1>2 DEF ClientInv
<1>9. ASSUME NEW k \in Key, owner[FileOf(k)] = t, k \notin Dirty(t)
      PROVE  disk[k] \in Kept(promised'[k])
  BY <1>1, <1>3, <1>9 DEF BaseInv, CommittedIsStored, BeingStored
<1>10. ClientInv(t)'
  <2>1. \A k \in Key : owner[FileOf(k)] = t /\ k \notin Dirty(t) => Holds(t, k, promised[k])'
    BY <1>1, <1>8, <1>9 DEF Holds
  <2>2. \A k \in Dirty(t) : promised'[k] = buffer[t][k]
    BY <1>3, <1>6
  <2>. QED BY <1>1, <1>2, <1>4, <1>8, <2>1, <2>2 DEF ClientInv
<1>11. CommittedIsStored'
  <2>1. SUFFICES ASSUME NEW k \in Key, disk[k] \notin Kept(promised'[k])
                 PROVE  \E u \in Txn : pc'[u] = "apply" /\ owner[FileOf(k)] = u
    BY <1>1 DEF CommittedIsStored, BeingStored
  <2>2. CASE k \in Dirty(t)
    BY <1>4, <1>6, <2>2
  <2>3. CASE k \notin Dirty(t)
    <3>1. PICK u \in Txn : pc[u] = "apply" /\ owner[FileOf(k)] = u
      BY <1>1, <1>3, <2>1, <2>3 DEF BaseInv, CommittedIsStored, BeingStored
    <3>2. u # t
      BY <1>1, <3>1
    <3>. QED BY <1>7, <3>1, <3>2
  <2>. QED BY <2>2, <2>3
<1>. QED BY <1>5, <1>7, <1>10, <1>11 DEF BaseInv

LEMMA ApplyBase ==
  ASSUME TypeInv, BaseInv, NEW t \in Txn, Apply(t)
  PROVE  BaseInv'
<1>1. /\ pc[t] = "apply" /\ mode = "up" /\ mode' = "up"
      /\ UNCHANGED <<log, promised, status, buffer, owner, pc, recovery, failures>>
  BY UpAtWork DEF BaseInv, Apply
<1>2. TypeOK /\ ClientInv(t) /\ t \in Thread /\ status[t] = "active" /\ todo[t] \subseteq Dirty(t)
  BY <1>1 DEF TypeInv, BaseInv, Thread
<1>3. ASSUME NEW k \in todo[t] PROVE /\ k \in Key /\ owner[FileOf(k)] = t
                                     /\ buffer[t][k] \in Value /\ buffer[t][k] = promised[k]
  BY <1>1, <1>2, DirtyType DEF ClientInv
<1>4. \A u \in Thread : u # t => page'[u] = page[u]
  <2>1. ASSUME NEW k \in todo[t], Truncate(t, k, buffer[t][k])
        PROVE  \A u \in Thread : u # t => page'[u] = page[u]
    BY <1>2, <1>3, <2>1, TruncateFacts
  <2>2. ASSUME NEW k \in todo[t], Rewrite(t, k)
        PROVE  \A u \in Thread : u # t => page'[u] = page[u]
    BY <1>2, <1>3, <2>2, RewriteFacts
  <2>. QED BY <2>1, <2>2 DEF Apply
<1>5. ASSUME NEW k \in Key, owner[FileOf(k)] # t PROVE disk'[k] = disk[k]
  <2>1. ASSUME NEW l \in todo[t], Truncate(t, l, buffer[t][l]) PROVE disk'[k] = disk[k]
    BY <1>2, <1>3, <1>5, <2>1, TruncateFacts
  <2>2. ASSUME NEW l \in todo[t], Rewrite(t, l) PROVE disk'[k] = disk[k]
    BY <1>2, <1>3, <1>5, <2>2, RewriteFacts
  <2>. QED BY <2>1, <2>2 DEF Apply
<1>6. ModeInv'
  <2>1. Recoverer \in Thread /\ Recoverer # t
    BY TxnFacts DEF Thread
  <2>. QED BY <1>1, <1>4, <2>1 DEF BaseInv, ModeInv, recovery
<1>7. ASSUME NEW u \in Txn, u # t PROVE ClientInv(u)'
  <2>1. todo'[u] = todo[u] /\ page'[u] = page[u]
    BY <1>2, <1>4, <1>7 DEF TypeOK, Apply, Thread
  <2>2. Bystander(u)
    BY <1>1, <1>5, <1>7, <2>1 DEF Bystander
  <2>. QED BY <2>2, ClientFrame DEF BaseInv
<1>8. CommittedIsStored'
  <2>1. SUFFICES ASSUME NEW k \in Key, disk'[k] \notin Kept(promised[k])
                 PROVE  \E u \in Txn : pc[u] = "apply" /\ owner[FileOf(k)] = u
    BY <1>1 DEF CommittedIsStored, BeingStored
  <2>. QED BY <1>1, <1>5, <2>1 DEF BaseInv, CommittedIsStored, BeingStored
<1>9. Dirty(t)' = Dirty(t)
  BY <1>1 DEF Dirty
<1>10. ClientInv(t)'
  <2>1. ASSUME NEW k \in todo[t], Truncate(t, k, buffer[t][k]), UNCHANGED todo
        PROVE  ClientInv(t)'
    <3>1. PICK p : /\ page'[t] = {p} /\ p.key = k /\ p.content[k] = promised[k]
                   /\ \A l \in Key : l # k => p.content[l] = disk[l]
      BY <1>2, <1>3, <2>1, TruncateFacts
    <3>2. /\ page[t] = {}
          /\ \A l \in Key : FileOf(l) # FileOf(k) => disk'[l] = disk[l]
      BY <1>2, <1>3, <2>1, TruncateFacts
    <3>3. ASSUME NEW l \in Key, owner[FileOf(l)] = t, l \notin todo[t]
          PROVE  Holds(t, l, promised[l])'
      <4>1. disk[l] \in Kept(promised[l]) /\ l # k
        BY <1>1, <1>2, <3>2, <3>3 DEF ClientInv, Holds
      <4>2. FileOf(k) # FileOf(l) => disk'[l] \in Kept(promised[l])
        BY <3>2, <4>1
      <4>. QED BY <1>1, <3>1, <4>1, <4>2, KeptIs DEF Holds
    <3>. QED BY <1>1, <1>2, <1>9, <2>1, <3>1, <3>3 DEF ClientInv
  <2>2. ASSUME NEW k \in todo[t], Rewrite(t, k), todo' = [todo EXCEPT ![t] = @ \ {k}]
        PROVE  ClientInv(t)'
    <3>1. PICK p \in page[t] :
            /\ p.key = k
            /\ \A l \in Key : disk'[l] = IF FileOf(l) = FileOf(k) THEN p.content[l] ELSE disk[l]
      BY <1>2, <1>3, <2>2, RewriteFacts
    <3>2. page'[t] = {}
      BY <1>2, <1>3, <2>2, RewriteFacts
    <3>3. page[t] = {p} /\ p.content[k] = promised[k]
      BY <1>2, <3>1 DEF ClientInv
    <3>4. todo'[t] = todo[t] \ {k}
      BY <1>2, <2>2 DEF TypeOK
    <3>5. ASSUME NEW l \in Key, owner[FileOf(l)] = t, l \notin todo'[t]
          PROVE  Holds(t, l, promised[l])'
      <4>1. l = k \/ Holds(t, l, promised[l])
        BY <1>1, <1>2, <3>4, <3>5 DEF ClientInv
      <4>2. disk'[l] \in Kept(promised[l])
        BY <3>1, <3>3, <4>1, KeptIs DEF Holds
      <4>. QED BY <1>1, <3>2, <4>2 DEF Holds
    <3>. QED BY <1>1, <1>2, <1>9, <3>2, <3>5 DEF ClientInv
  <2>. QED BY <2>1, <2>2 DEF Apply
<1>. QED BY <1>6, <1>7, <1>8, <1>10 DEF BaseInv

LEMMA CrashBase == ASSUME TypeInv, BaseInv, Crash PROVE BaseInv'
<1>1. /\ clients' = <<NoTransactions, NoBuffers, NoLocks, Idle, Nothing>>
      /\ recovery' = <<{}, {}, {}>> /\ mode' = "down" /\ UNCHANGED log
  BY DEF Crash, clients, recovery, store
<1>2. \A th \in Thread : page'[th] = {}
  BY DEF Crash, NoPages
<1>3. \A t \in Txn : t \in Thread
  BY DEF Thread
<1>4. mode' # "up" /\ failures' = 0 => log' = << >>
  BY <1>1, RecoveryAssumption DEF Crash, BaseInv, ModeInv, TypeInv, TypeOK
<1>5. ModeInv'
  BY <1>1, <1>2, <1>3, <1>4 DEF ModeInv, Thread
<1>6. \A t \in Txn : ClientInv(t)'
  BY <1>1, <1>2, <1>3, IdleClient DEF clients, NoTransactions, NoBuffers, Idle
<1>7. CommittedIsStored'
  BY <1>1 DEF CommittedIsStored, BeingStored
<1>. QED BY <1>5, <1>6, <1>7 DEF BaseInv

LEMMA StartBase == ASSUME TypeInv, BaseInv, StartRecovery PROVE BaseInv'
<1>1. /\ mode = "down" /\ mode' = "recovering" /\ UNCHANGED <<store, clients, page, failures>>
  BY DEF StartRecovery
<1>2. ModeInv'
  BY <1>1 DEF BaseInv, ModeInv, store, clients
<1>3. \A t \in Txn : ClientInv(t)'
  BY <1>1, Clients, IdleClient DEF BaseInv, clients
<1>4. CommittedIsStored'
  BY <1>1 DEF CommittedIsStored, BeingStored
<1>. QED BY <1>2, <1>3, <1>4 DEF BaseInv

LEMMA RedoUndoBase == ASSUME TypeInv, BaseInv, Redo \/ Undo PROVE BaseInv'
<1>1. mode = "recovering" /\ UNCHANGED <<log, mode, clients, failures>>
  BY DEF Redo, Undo
<1>2. TypeOK /\ Recoverer \in Thread /\ \A t \in Txn : t \in Thread /\ t # Recoverer
  BY TxnFacts DEF TypeInv, Thread
<1>3. \A t \in Txn : page'[t] = page[t]
  <2>1. \A i \in redo \cup undo :
          /\ log[i] \in Entry /\ log[i].key \in Key
          /\ log[i].after \in Value /\ UndoValue(log[i]) \in Value \cup {Absent}
    BY <1>2, WriteEntry DEF TypeInv, TypeOK
  <2>2. ASSUME NEW k \in Key, NEW v \in Value \cup {Absent}, Truncate(Recoverer, k, v)
        PROVE  \A t \in Txn : page'[t] = page[t]
    BY <1>2, <2>2, TruncateFacts
  <2>3. ASSUME NEW k \in Key, Rewrite(Recoverer, k)
        PROVE  \A t \in Txn : page'[t] = page[t]
    BY <1>2, <2>3, RewriteFacts
  <2>4. NextRedo \subseteq redo /\ NextUndo \subseteq undo
    BY DEF NextRedo, NextUndo
  <2>5. CASE Redo
    BY <2>1, <2>2, <2>3, <2>4, <2>5 DEF Redo
  <2>6. CASE Undo
    BY <2>1, <2>2, <2>3, <2>4, <2>6 DEF Undo
  <2>. QED BY <2>5, <2>6
<1>4. ModeInv'
  BY <1>1, <1>3 DEF BaseInv, ModeInv, clients
<1>5. \A t \in Txn : ClientInv(t)'
  BY <1>1, <1>3, Clients, IdleClient DEF BaseInv, clients
<1>6. CommittedIsStored'
  BY <1>1 DEF CommittedIsStored, BeingStored
<1>. QED BY <1>4, <1>5, <1>6 DEF BaseInv

LEMMA LogLoserBase == ASSUME TypeInv, BaseInv, RecoveryInv, LogLoser PROVE BaseInv'
<1>1. mode = "recovering" /\ UNCHANGED <<mode, clients, page, failures>> /\ losers # {}
  BY DEF LogLoser
<1>2. log # << >>
  BY <1>1 DEF RecoveryInv, Losers, Logged
<1>3. ModeInv'
  BY <1>1, <1>2 DEF BaseInv, ModeInv, clients
<1>4. \A t \in Txn : ClientInv(t)'
  BY <1>1, Clients, IdleClient DEF BaseInv, clients
<1>5. CommittedIsStored'
  BY <1>1 DEF CommittedIsStored, BeingStored
<1>. QED BY <1>3, <1>4, <1>5 DEF BaseInv

LEMMA ServeBase == ASSUME TypeInv, BaseInv, RecoveryInv, Serve PROVE BaseInv'
<1>1. /\ mode = "recovering" /\ mode' = "up" /\ redo = {} /\ undo = {} /\ losers = {}
      /\ UNCHANGED <<store, clients, page, recovery, failures>>
  BY DEF Serve
<1>2. page[Recoverer] = {}
  BY <1>1 DEF RecoveryInv, NextRedo, NextUndo
<1>3. ModeInv'
  BY <1>1, <1>2 DEF BaseInv, ModeInv, store, recovery
<1>4. \A t \in Txn : ClientInv(t)'
  BY <1>1, Clients, IdleClient DEF BaseInv, clients
<1>5. \A k \in Key : disk[k] \in Kept(promised[k])
  BY <1>1, <1>2 DEF RecoveryInv, Holds
<1>6. CommittedIsStored'
  BY <1>1, <1>5 DEF CommittedIsStored, BeingStored, store
<1>. QED BY <1>3, <1>4, <1>6 DEF BaseInv

-----------------------------------------------------------------------------
(* The log.                                                                *)

LEMMA AppendLogged ==
  ASSUME NEW e, Appends(e), NEW f
  PROVE  Logged(f)' = IF e.type = f THEN Logged(f) \cup {e.txn} ELSE Logged(f)
<1>1. DOMAIN log' = DOMAIN log \cup {Len(log')} /\ Len(log') \notin DOMAIN log
  BY DEF Appends
<1>2. log'[Len(log')] = e /\ \A i \in DOMAIN log : log'[i] = log[i]
  BY DEF Appends
<1>. QED BY <1>1, <1>2 DEF Logged

LEMMA AppendNewest ==
  ASSUME NEW e, Appends(e)
  PROVE  /\ DOMAIN log' = DOMAIN log \cup {Len(log')} /\ Len(log') \notin DOMAIN log
         /\ log'[Len(log')] = e /\ \A i \in DOMAIN log : log'[i] = log[i]
         /\ DOMAIN log' \subseteq Nat /\ \A i \in DOMAIN log' : i <= Len(log')
BY DEF Appends

\* An entry that does not write k for anybody of S changes nothing there,
\* one that does is the last.
LEMMA OtherEntry ==
  ASSUME NEW e, Appends(e), NEW S, NEW k, NEW v,
         ~ (e.type = "WRITE" /\ e.txn \in S /\ e.key = k)
  PROVE  /\ NoWrite(log, S, k) => NoWrite(log', S, k)
         /\ LastWrite(log, S, k, v) => LastWrite(log', S, k, v)
<1>1. \A i \in DOMAIN log' : IsWrite(log', i, S, k) => i \in DOMAIN log /\ IsWrite(log, i, S, k)
  BY AppendNewest DEF IsWrite
<1>2. \A i \in DOMAIN log : /\ i \in DOMAIN log' /\ log'[i] = log[i]
                            /\ IsWrite(log, i, S, k) => IsWrite(log', i, S, k)
  BY AppendNewest DEF IsWrite
<1>. QED BY <1>1, <1>2 DEF NoWrite, LastWrite

LEMMA NewEntry ==
  ASSUME NEW e, Appends(e), NEW S, e.type = "WRITE", e.txn \in S
  PROVE  LastWrite(log', S, e.key, e.after)
<1>1. IsWrite(log', Len(log'), S, e.key) /\ log'[Len(log')].after = e.after
  BY AppendNewest DEF IsWrite
<1>2. Len(log') \in DOMAIN log' /\ \A i \in DOMAIN log' : i <= Len(log')
  BY AppendNewest
<1>. QED BY <1>1, <1>2 DEF LastWrite

LEMMA SameWriters ==
  ASSUME NEW S, NEW T, NEW k, NEW v,
         \A i \in DOMAIN log : IsWrite(log, i, S, k) <=> IsWrite(log, i, T, k)
  PROVE  /\ NoWrite(log, S, k) => NoWrite(log, T, k)
         /\ LastWrite(log, S, k, v) => LastWrite(log, T, k, v)
BY DEF NoWrite, LastWrite

LEMMA PromiseSame == PromiseInv /\ UNCHANGED <<log, promised>> => PromiseInv'
BY DEF PromiseInv, NoWrite, LastWrite, IsWrite, Decided, Committed, Logged, UndoValue

\* The writes of an active client that is between calls are undecided.
LEMMA Undecided ==
  ASSUME RunInv, NEW t \in Txn, status[t] = "active", pc[t] \in {"ready", "begin"}
  PROVE  t \notin Decided /\ t \notin Committed
BY DEF RunInv, DecidedLeave, Decided

\* A step that adds an entry other than a write or a commit.
LEMMA FatePromise ==
  ASSUME PromiseInv, NEW t, NEW f \in {"BEGIN", "ABORT"}, UNCHANGED promised,
         Appends([type |-> f, txn |-> t])
  PROVE  PromiseInv' /\ Committed' = Committed /\ Decided \subseteq Decided'
<1>. DEFINE e == [type |-> f, txn |-> t]
<1>1. Committed' = Committed /\ Decided \subseteq Decided'
  BY AppendLogged DEF Committed, Decided
<1>2. ASSUME NEW k \in Key
      PROVE  \/ NoWrite(log', Committed, k) /\ promised[k] = Absent
             \/ LastWrite(log', Committed, k, promised[k])
  BY OtherEntry DEF PromiseInv
<1>3. ASSUME NEW i \in DOMAIN log', log'[i].type = "WRITE", log'[i].txn \notin Decided'
      PROVE  UndoValue(log'[i]) \in Kept(promised[log'[i].key])
  <2>1. i \in DOMAIN log /\ log'[i] = log[i]
    BY <1>3, AppendNewest
  <2>. QED BY <1>1, <1>3, <2>1 DEF PromiseInv
<1>4. PromiseInv' <=>
        /\ \A k \in Key : \/ NoWrite(log', Committed', k) /\ promised'[k] = Absent
                          \/ LastWrite(log', Committed', k, promised'[k])
        /\ \A i \in DOMAIN log' : log'[i].type = "WRITE" /\ log'[i].txn \notin Decided' =>
             UndoValue(log'[i]) \in Kept(promised'[log'[i].key])
  BY DEF PromiseInv, UndoValue, NoWrite, LastWrite, IsWrite
<1>. QED BY <1>1, <1>2, <1>3, <1>4

\* Steps of the first run that leave the log alone.
LEMMA QuietRun ==
  ASSUME TypeInv, PromiseInv, RunInv, NEW t \in Txn,
         Begin(t) \/ Apply(t) \/ FinishCommit(t) \/ FinishAbort(t)
  PROVE  PromiseInv' /\ RunInv'
<1>1. UNCHANGED <<log, promised>>
  BY DEF Begin, Apply, FinishCommit, FinishAbort, store
<1>2. PromiseInv'
  BY <1>1, PromiseSame
<1>3. Committed' = Committed /\ Decided' = Decided
  BY <1>1 DEF Committed, Decided, Logged
<1>4. \A u \in Txn : u # t =>
        /\ status'[u] = status[u] /\ pc'[u] = pc[u]
        /\ buffer'[u] = buffer[u] /\ Dirty(u)' = Dirty(u)
  BY DEF TypeInv, TypeOK, Begin, Apply, FinishCommit, FinishAbort, Dirty
<1>5. \/ UNCHANGED <<status, pc, buffer>>
      \/ /\ status[t] = "none" /\ pc[t] # "begin" /\ status'[t] = "active" /\ pc'[t] = "begin"
      \/ /\ pc[t] \in {"apply", "abort"} /\ status[t] = "active"
         /\ status'[t] \in {"committed", "aborted"} /\ pc'[t] = "ready"
  <2>1. pc[t] \in {"begin", "apply", "abort"} => status[t] = "active"
    BY DEF TypeInv
  <2>. QED BY <2>1 DEF TypeInv, TypeOK, Begin, Apply, FinishCommit, FinishAbort
<1>6. \A i \in DOMAIN log : log[i].txn \in Txn
  BY DEF TypeInv, TypeOK, Entry
<1>7. Decided \subseteq Txn
  BY <1>6 DEF Decided, Committed, Logged
<1>8. WritesBuffered'
  <2>1. ASSUME NEW i \in DOMAIN log, log[i].type = "WRITE", log[i].txn \notin Decided
        PROVE  /\ status'[log[i].txn] = "active" /\ pc'[log[i].txn] = "ready"
               /\ log[i].key \in Dirty(log[i].txn)'
    <3>1. /\ status[log[i].txn] = "active" /\ pc[log[i].txn] = "ready"
          /\ log[i].key \in Dirty(log[i].txn)
      BY <2>1 DEF RunInv, WritesBuffered
    <3>2. UNCHANGED buffer => Dirty(t)' = Dirty(t)
      BY DEF Dirty
    <3>3. CASE log[i].txn = t
      BY <1>1, <1>5, <3>1, <3>2, <3>3
    <3>4. CASE log[i].txn # t
      BY <1>1, <1>4, <1>6, <3>1, <3>4
    <3>. QED BY <3>3, <3>4
  <2>. QED BY <1>1, <1>3, <2>1 DEF WritesBuffered
<1>9. BuffersLogged'
  <2>1. ASSUME NEW u \in Txn, status'[u] = "active", pc'[u] = "ready", NEW k \in Dirty(u)'
        PROVE  LastWrite(log, Committed \cup {u}, k, buffer'[u][k])
    <3>1. /\ status[u] = "active" /\ pc[u] = "ready"
          /\ buffer'[u] = buffer[u] /\ Dirty(u)' = Dirty(u)
      BY <1>4, <1>5, <2>1 DEF Dirty
    <3>. QED BY <2>1, <3>1 DEF RunInv, BuffersLogged
  <2>2. BuffersLogged' <=>
          \A u \in Txn : status'[u] = "active" /\ pc'[u] = "ready" =>
            \A k \in Dirty(u)' : LastWrite(log', Committed' \cup {u}, k, buffer'[u][k])
    BY DEF BuffersLogged, LastWrite, IsWrite
  <2>. QED BY <1>1, <1>3, <2>1, <2>2
<1>10. DecidedLeave'
  BY <1>3, <1>4, <1>5, <1>7 DEF RunInv, DecidedLeave
<1>11. BegunRun'
  BY <1>1, <1>4, <1>5, <1>6 DEF RunInv, BegunRun
<1>. QED BY <1>2, <1>8, <1>9, <1>10, <1>11 DEF RunInv

\* The first entry of a transaction, and the one that aborts it.
LEMMA LogBeginRun ==
  ASSUME TypeInv, BaseInv, PromiseInv, RunInv, NEW t \in Txn, LogBegin(t)
  PROVE  PromiseInv' /\ RunInv'
<1>. DEFINE e == [type |-> "BEGIN", txn |-> t]
<1>1. /\ Appends(e) /\ pc[t] = "begin" /\ status[t] = "active" /\ Dirty(t) = {}
      /\ UNCHANGED <<promised, status, buffer>>
  BY LogFateFacts DEF LogBegin, TypeInv, BaseInv, ClientInv
<1>2. PromiseInv' /\ Committed' = Committed
  BY <1>1, FatePromise
<1>3. Decided' = Decided /\ t \notin Decided
  <2>1. Logged("ABORT")' = Logged("ABORT")
    BY <1>1, AppendLogged
  <2>. QED BY <1>1, <1>2, <2>1, Undecided DEF Decided
<1>4. /\ pc'[t] = "ready" /\ \A u \in Txn : u # t => pc'[u] = pc[u]
      /\ \A u \in Txn : Dirty(u)' = Dirty(u)
  BY <1>1 DEF TypeInv, TypeOK, LogBegin, Dirty
<1>5. \A i \in DOMAIN log : log[i].txn \in Txn
  BY DEF TypeInv, TypeOK, Entry
<1>6. Decided \subseteq Txn
  BY <1>5 DEF Decided, Committed, Logged
<1>7. WritesBuffered'
  <2>1. ASSUME NEW i \in DOMAIN log', log'[i].type = "WRITE", log'[i].txn \notin Decided
        PROVE  /\ status[log'[i].txn] = "active" /\ pc'[log'[i].txn] = "ready"
               /\ log'[i].key \in Dirty(log'[i].txn)
    <3>1. i \in DOMAIN log /\ log'[i] = log[i]
      BY <1>1, <2>1, AppendNewest
    <3>2. /\ status[log[i].txn] = "active" /\ pc[log[i].txn] = "ready"
          /\ log[i].key \in Dirty(log[i].txn)
      BY <2>1, <3>1 DEF RunInv, WritesBuffered
    <3>3. log[i].txn # t
      BY <1>1, <3>2
    <3>. QED BY <1>4, <1>5, <3>1, <3>2, <3>3
  <2>2. ASSUME NEW i \in DOMAIN log', log'[i].type = "WRITE", log'[i].txn \notin Decided
        PROVE  log'[i].txn \in Txn
    BY <1>1, <1>5, <2>2, AppendNewest
  <2>. QED BY <1>1, <1>3, <1>4, <2>1, <2>2 DEF WritesBuffered
<1>8. BuffersLogged'
  <2>1. ASSUME NEW u \in Txn, status[u] = "active", pc'[u] = "ready", NEW k \in Dirty(u)
        PROVE  LastWrite(log', Committed \cup {u}, k, buffer[u][k])
    <3>1. LastWrite(log, Committed \cup {u}, k, buffer[u][k])
      BY <1>1, <1>4, <2>1 DEF RunInv, BuffersLogged
    <3>. QED BY <1>1, <3>1, OtherEntry
  <2>2. BuffersLogged' <=>
          \A u \in Txn : status'[u] = "active" /\ pc'[u] = "ready" =>
            \A k \in Dirty(u)' : LastWrite(log', Committed' \cup {u}, k, buffer'[u][k])
    BY DEF BuffersLogged, LastWrite, IsWrite
  <2>. QED BY <1>1, <1>2, <1>4, <2>1, <2>2
<1>9. DecidedLeave'
  BY <1>1, <1>3, <1>4, <1>6 DEF RunInv, DecidedLeave
<1>10. BegunRun'
  <2>1. ASSUME NEW i \in DOMAIN log', log'[i].type = "BEGIN"
        PROVE  status[log'[i].txn] # "none" /\ pc'[log'[i].txn] # "begin"
    <3>1. i \in DOMAIN log \/ log'[i].txn = t
      BY <1>1, AppendNewest
    <3>2. CASE i \in DOMAIN log /\ log[i].txn # t
      BY <1>1, <1>4, <1>5, <2>1, <3>2, AppendNewest DEF RunInv, BegunRun
    <3>3. CASE log'[i].txn = t
      BY <1>1, <1>4, <3>3
    <3>. QED BY <1>1, <3>1, <3>2, <3>3, AppendNewest
  <2>. QED BY <1>1, <2>1 DEF BegunRun
<1>. QED BY <1>2, <1>7, <1>8, <1>9, <1>10 DEF RunInv

LEMMA LogAbortRun ==
  ASSUME TypeInv, PromiseInv, RunInv, NEW t \in Txn, LogAbort(t)
  PROVE  PromiseInv' /\ RunInv'
<1>. DEFINE e == [type |-> "ABORT", txn |-> t]
<1>1. /\ Appends(e) /\ pc[t] = "ready" /\ status[t] = "active"
      /\ UNCHANGED <<promised, status, buffer>>
  BY LogFateFacts DEF LogAbort, TypeInv
<1>2. PromiseInv' /\ Committed' = Committed
  BY <1>1, FatePromise
<1>3. Decided' = Decided \cup {t}
  <2>1. Logged("ABORT")' = Logged("ABORT") \cup {t}
    BY <1>1, AppendLogged
  <2>. QED BY <1>2, <2>1 DEF Decided
<1>4. /\ pc'[t] = "abort" /\ \A u \in Txn : u # t => pc'[u] = pc[u]
      /\ \A u \in Txn : Dirty(u)' = Dirty(u)
  BY <1>1 DEF TypeInv, TypeOK, LogAbort, Dirty
<1>5. \A i \in DOMAIN log : log[i].txn \in Txn
  BY DEF TypeInv, TypeOK, Entry
<1>6. Decided \subseteq Txn
  BY <1>5 DEF Decided, Committed, Logged
<1>7. WritesBuffered'
  <2>1. ASSUME NEW i \in DOMAIN log', log'[i].type = "WRITE", log'[i].txn \notin Decided'
        PROVE  /\ status[log'[i].txn] = "active" /\ pc'[log'[i].txn] = "ready"
               /\ log'[i].key \in Dirty(log'[i].txn) /\ log'[i].txn \in Txn
    <3>1. i \in DOMAIN log /\ log'[i] = log[i]
      BY <1>1, <2>1, AppendNewest
    <3>2. log[i].txn \notin Decided /\ log[i].txn # t
      BY <1>3, <2>1, <3>1
    <3>3. /\ status[log[i].txn] = "active" /\ pc[log[i].txn] = "ready"
          /\ log[i].key \in Dirty(log[i].txn)
      BY <2>1, <3>1, <3>2 DEF RunInv, WritesBuffered
    <3>. QED BY <1>4, <1>5, <3>1, <3>2, <3>3
  <2>. QED BY <1>1, <1>4, <2>1 DEF WritesBuffered
<1>8. BuffersLogged'
  <2>1. ASSUME NEW u \in Txn, status[u] = "active", pc'[u] = "ready", NEW k \in Dirty(u)
        PROVE  LastWrite(log', Committed \cup {u}, k, buffer[u][k])
    <3>1. LastWrite(log, Committed \cup {u}, k, buffer[u][k])
      BY <1>1, <1>4, <2>1 DEF RunInv, BuffersLogged
    <3>. QED BY <1>1, <3>1, OtherEntry
  <2>2. BuffersLogged' <=>
          \A u \in Txn : status'[u] = "active" /\ pc'[u] = "ready" =>
            \A k \in Dirty(u)' : LastWrite(log', Committed' \cup {u}, k, buffer'[u][k])
    BY DEF BuffersLogged, LastWrite, IsWrite
  <2>. QED BY <1>1, <1>2, <1>4, <2>1, <2>2
<1>9. DecidedLeave'
  BY <1>1, <1>3, <1>4, <1>6 DEF RunInv, DecidedLeave
<1>10. BegunRun'
  <2>1. ASSUME NEW i \in DOMAIN log', log'[i].type = "BEGIN"
        PROVE  status[log'[i].txn] # "none" /\ pc'[log'[i].txn] # "begin"
    <3>1. i \in DOMAIN log /\ log'[i] = log[i]
      BY <1>1, <2>1, AppendNewest
    <3>2. status[log[i].txn] # "none" /\ pc[log[i].txn] # "begin"
      BY <2>1, <3>1 DEF RunInv, BegunRun
    <3>. QED BY <1>4, <1>5, <3>1, <3>2
  <2>. QED BY <1>1, <2>1 DEF BegunRun
<1>. QED BY <1>2, <1>7, <1>8, <1>9, <1>10 DEF RunInv

\* A write notes the promised value, and is the last of its record.
LEMMA WriteRun ==
  ASSUME TypeInv, BaseInv, PromiseInv, RunInv, NEW t \in Txn, NEW k \in Key, NEW v \in Value,
         Write(t, k, v)
  PROVE  PromiseInv' /\ RunInv'
<1>. DEFINE e == [type |-> "WRITE", txn |-> t, key |-> k,
                  before |-> AsLogged(disk[k]), after |-> v]
<1>1. /\ pc[t] = "ready" /\ status[t] = "active" /\ mode = "up"
      /\ UNCHANGED <<promised, status, pc>>
  BY UpAtWork DEF Write, TypeInv, BaseInv
<1>2. Appends(e)
  <2>1. e \in Entry /\ log' = Append(log, e)
    BY DEF TypeInv, TypeOK, Content, AsLogged, Entry, Write
  <2>. HIDE DEF e
  <2>. QED BY <2>1, AppendFacts DEF TypeInv, TypeOK
<1>3. Committed' = Committed /\ Decided' = Decided /\ t \notin Decided /\ t \notin Committed
  <2>1. \A f : f # "WRITE" => Logged(f)' = Logged(f)
    BY <1>2, AppendLogged
  <2>. QED BY <1>1, <2>1, Undecided DEF Decided, Committed
<1>4. /\ Dirty(t)' = Dirty(t) \cup {k} /\ buffer'[t][k] = v
      /\ \A u \in Txn : u # t => Dirty(u)' = Dirty(u) /\ buffer'[u] = buffer[u]
      /\ \A l \in Key : l # k => buffer'[t][l] = buffer[t][l]
  <2>1. v # Unset
    BY RecoveryAssumption
  <2>. QED BY <2>1 DEF TypeInv, TypeOK, Write, Dirty
<1>5. \A i \in DOMAIN log : log[i].txn \in Txn
  BY DEF TypeInv, TypeOK, Entry
<1>6. UndoValue(e) \in Kept(promised[k])
  <2>1. disk[k] \in Kept(promised[k])
    <3>1. ASSUME NEW u \in Txn, pc[u] = "apply", owner[FileOf(k)] = u PROVE FALSE
      BY <1>1, <3>1, TxnFacts DEF Write
    <3>. QED BY <1>1, <3>1 DEF BaseInv, CommittedIsStored, BeingStored
  <2>2. CASE disk[k] = Absent \/ disk[k] = Empty
    <3>1. UndoValue(e) = Absent
      BY <2>2 DEF UndoValue, AsLogged
    <3>. QED BY <2>1, <2>2, <3>1, KeptIs
  <2>3. CASE disk[k] # Absent /\ disk[k] # Empty
    <3>1. UndoValue(e) = disk[k]
      BY <2>3 DEF UndoValue, AsLogged
    <3>. QED BY <2>1, <3>1
  <2>. QED BY <2>2, <2>3
<1>. HIDE DEF e
<1>7. e.type = "WRITE" /\ e.txn = t /\ e.key = k /\ e.after = v
  BY DEF e
<1>8. PromiseInv'
  <2>1. ASSUME NEW l \in Key
        PROVE  \/ NoWrite(log', Committed, l) /\ promised[l] = Absent
               \/ LastWrite(log', Committed, l, promised[l])
    BY <1>2, <1>3, <1>7, OtherEntry DEF PromiseInv
  <2>2. ASSUME NEW i \in DOMAIN log', log'[i].type = "WRITE", log'[i].txn \notin Decided
        PROVE  UndoValue(log'[i]) \in Kept(promised[log'[i].key])
    <3>1. CASE i \in DOMAIN log
      BY <1>2, <2>2, <3>1, AppendNewest DEF PromiseInv
    <3>2. CASE log'[i] = e
      BY <1>6, <1>7, <3>2
    <3>. QED BY <1>2, <3>1, <3>2, AppendNewest
  <2>3. PromiseInv' <=>
          /\ \A l \in Key : \/ NoWrite(log', Committed', l) /\ promised'[l] = Absent
                            \/ LastWrite(log', Committed', l, promised'[l])
          /\ \A i \in DOMAIN log' : log'[i].type = "WRITE" /\ log'[i].txn \notin Decided' =>
               UndoValue(log'[i]) \in Kept(promised'[log'[i].key])
    BY DEF PromiseInv, UndoValue, NoWrite, LastWrite, IsWrite
  <2>. QED BY <1>1, <1>3, <2>1, <2>2, <2>3
<1>9. WritesBuffered'
  <2>1. ASSUME NEW i \in DOMAIN log', log'[i].type = "WRITE", log'[i].txn \notin Decided
        PROVE  /\ status[log'[i].txn] = "active" /\ pc[log'[i].txn] = "ready"
               /\ log'[i].key \in Key /\ buffer'[log'[i].txn][log'[i].key] # Unset
    <3>1. CASE i \in DOMAIN log
      <4>1. log'[i] = log[i]
        BY <1>2, <3>1, AppendNewest
      <4>2. /\ status[log[i].txn] = "active" /\ pc[log[i].txn] = "ready"
            /\ log[i].key \in Dirty(log[i].txn)
        BY <2>1, <3>1, <4>1 DEF RunInv, WritesBuffered
      <4>3. PICK u \in Txn : u = log[i].txn
        BY <1>5, <3>1
      <4>4. Dirty(u) \subseteq Dirty(u)'
        BY <1>4
      <4>5. log[i].key \in Dirty(u)'
        BY <4>2, <4>3, <4>4
      <4>. QED BY <4>1, <4>2, <4>3, <4>5 DEF Dirty
    <3>2. CASE log'[i] = e
      <4>1. k \in Dirty(t)'
        BY <1>4
      <4>. QED BY <1>1, <1>7, <3>2, <4>1 DEF Dirty
    <3>. QED BY <1>2, <3>1, <3>2, AppendNewest
  <2>. QED BY <1>1, <1>3, <2>1 DEF WritesBuffered, Dirty
<1>10. BuffersLogged'
  <2>1. ASSUME NEW u \in Txn, status[u] = "active", pc[u] = "ready", NEW l \in Dirty(u)'
        PROVE  LastWrite(log', Committed \cup {u}, l, buffer'[u][l])
    <3>1. CASE u = t /\ l = k
      BY <1>2, <1>4, <1>7, <3>1, NewEntry
    <3>2. CASE ~ (u = t /\ l = k)
      <4>1. l \in Dirty(u) /\ buffer'[u][l] = buffer[u][l]
        BY <1>4, <2>1, <3>2 DEF Dirty
      <4>2. LastWrite(log, Committed \cup {u}, l, buffer[u][l])
        BY <2>1, <4>1 DEF RunInv, BuffersLogged
      <4>3. ~ (e.type = "WRITE" /\ e.txn \in Committed \cup {u} /\ e.key = l)
        BY <1>3, <1>7, <3>2
      <4>. QED BY <1>2, <4>1, <4>2, <4>3, OtherEntry
    <3>. QED BY <3>1, <3>2
  <2>2. BuffersLogged' <=>
          \A u \in Txn : status'[u] = "active" /\ pc'[u] = "ready" =>
            \A l \in Dirty(u)' : LastWrite(log', Committed' \cup {u}, l, buffer'[u][l])
    BY DEF BuffersLogged, LastWrite, IsWrite
  <2>. QED BY <1>1, <1>3, <2>1, <2>2
<1>11. DecidedLeave'
  BY <1>1, <1>3 DEF RunInv, DecidedLeave
<1>12. BegunRun'
  <2>1. ASSUME NEW i \in DOMAIN log', log'[i].type = "BEGIN"
        PROVE  status[log'[i].txn] # "none" /\ pc[log'[i].txn] # "begin"
    <3>1. i \in DOMAIN log /\ log'[i] = log[i]
      BY <1>2, <1>7, <2>1, AppendNewest
    <3>. QED BY <2>1, <3>1 DEF RunInv, BegunRun
  <2>. QED BY <1>1, <2>1 DEF BegunRun
<1>. QED BY <1>8, <1>9, <1>10, <1>11, <1>12 DEF RunInv

\* A commit promises the last writes of its transaction; nobody else has
\* written those records since.
LEMMA LogCommitRun ==
  ASSUME TypeInv, BaseInv, PromiseInv, RunInv, NEW t \in Txn, LogCommit(t)
  PROVE  PromiseInv' /\ RunInv'
<1>. DEFINE e == [type |-> "COMMIT", txn |-> t]
<1>1. /\ Appends(e) /\ pc[t] = "ready" /\ status[t] = "active"
      /\ UNCHANGED <<status, buffer>>
  BY LogFateFacts DEF LogCommit, TypeInv
<1>2. Committed' = Committed \cup {t} /\ Decided' = Decided \cup {t}
  <2>1. Logged("COMMIT")' = Logged("COMMIT") \cup {t} /\ Logged("ABORT")' = Logged("ABORT")
    BY <1>1, AppendLogged
  <2>. QED BY <2>1 DEF Decided, Committed
<1>3. t \notin Decided
  BY <1>1, Undecided
<1>4. /\ pc'[t] = "apply" /\ \A u \in Txn : u # t => pc'[u] = pc[u]
      /\ \A u \in Txn : Dirty(u)' = Dirty(u)
  BY <1>1 DEF TypeInv, TypeOK, LogCommit, Dirty
<1>5. \A i \in DOMAIN log : log[i].txn \in Txn /\ (log[i].type = "WRITE" => log[i].key \in Key)
  BY WriteEntry DEF TypeInv, TypeOK, Entry
<1>6. Decided \subseteq Txn
  BY <1>5 DEF Decided, Committed, Logged
<1>7. \A k \in Key : promised'[k] = IF k \in Dirty(t) THEN buffer[t][k] ELSE promised[k]
  BY DEF LogCommit
<1>8. ASSUME NEW u \in Txn, u # t, status[u] = "active", NEW k \in Dirty(u)
      PROVE  k \notin Dirty(t)
  BY <1>1, <1>8 DEF BaseInv, ClientInv
<1>9. ASSUME NEW k, k \notin Dirty(t), NEW S
      PROVE  \A i \in DOMAIN log : IsWrite(log, i, S, k) <=> IsWrite(log, i, S \cup {t}, k)
  BY <1>3, <1>9 DEF IsWrite, RunInv, WritesBuffered
<1>10. PromiseInv'
  <2>1. ASSUME NEW k \in Key
        PROVE  \/ NoWrite(log', Committed', k) /\ promised'[k] = Absent
               \/ LastWrite(log', Committed', k, promised'[k])
    <3>1. CASE k \in Dirty(t)
      <4>1. LastWrite(log, Committed \cup {t}, k, buffer[t][k])
        BY <1>1, <3>1 DEF RunInv, BuffersLogged
      <4>2. LastWrite(log', Committed \cup {t}, k, buffer[t][k])
        BY <1>1, <4>1, OtherEntry
      <4>. QED BY <1>2, <1>7, <3>1, <4>2
    <3>2. CASE k \notin Dirty(t)
      <4>1. \/ NoWrite(log, Committed, k) /\ promised[k] = Absent
            \/ LastWrite(log, Committed, k, promised[k])
        BY DEF PromiseInv
      <4>2. \/ NoWrite(log, Committed \cup {t}, k) /\ promised[k] = Absent
            \/ LastWrite(log, Committed \cup {t}, k, promised[k])
        BY <1>9, <3>2, <4>1, SameWriters
      <4>3. \/ NoWrite(log', Committed \cup {t}, k) /\ promised[k] = Absent
            \/ LastWrite(log', Committed \cup {t}, k, promised[k])
        BY <1>1, <4>2, OtherEntry
      <4>. QED BY <1>2, <1>7, <3>2, <4>3
    <3>. QED BY <3>1, <3>2
  <2>2. ASSUME NEW i \in DOMAIN log', log'[i].type = "WRITE", log'[i].txn \notin Decided'
        PROVE  UndoValue(log'[i]) \in Kept(promised'[log'[i].key])
    <3>1. i \in DOMAIN log /\ log'[i] = log[i]
      BY <1>1, <2>2, AppendNewest
    <3>2. log[i].txn \notin Decided /\ log[i].txn # t
      BY <1>2, <2>2, <3>1
    <3>3. status[log[i].txn] = "active" /\ log[i].key \in Dirty(log[i].txn)
      BY <2>2, <3>1, <3>2 DEF RunInv, WritesBuffered
    <3>4. log[i].key \notin Dirty(t)
      BY <1>5, <1>8, <3>1, <3>2, <3>3
    <3>5. promised'[log[i].key] = promised[log[i].key]
      BY <1>5, <1>7, <2>2, <3>1, <3>4
    <3>. QED BY <2>2, <3>1, <3>2, <3>5 DEF PromiseInv
  <2>3. PromiseInv' <=>
          /\ \A l \in Key : \/ NoWrite(log', Committed', l) /\ promised'[l] = Absent
                            \/ LastWrite(log', Committed', l, promised'[l])
          /\ \A i \in DOMAIN log' : log'[i].type = "WRITE" /\ log'[i].txn \notin Decided' =>
               UndoValue(log'[i]) \in Kept(promised'[log'[i].key])
    BY DEF PromiseInv, UndoValue, NoWrite, LastWrite, IsWrite
  <2>. QED BY <2>1, <2>2, <2>3
<1>11. WritesBuffered'
  <2>1. ASSUME NEW i \in DOMAIN log', log'[i].type = "WRITE", log'[i].txn \notin Decided'
        PROVE  /\ status[log'[i].txn] = "active" /\ pc'[log'[i].txn] = "ready"
               /\ log'[i].key \in Dirty(log'[i].txn) /\ log'[i].txn \in Txn
    <3>1. i \in DOMAIN log /\ log'[i] = log[i]
      BY <1>1, <2>1, AppendNewest
    <3>2. log[i].txn \notin Decided /\ log[i].txn # t
      BY <1>2, <2>1, <3>1
    <3>3. /\ status[log[i].txn] = "active" /\ pc[log[i].txn] = "ready"
          /\ log[i].key \in Dirty(log[i].txn)
      BY <2>1, <3>1, <3>2 DEF RunInv, WritesBuffered
    <3>. QED BY <1>4, <1>5, <3>1, <3>2, <3>3
  <2>. QED BY <1>1, <1>4, <2>1 DEF WritesBuffered
<1>12. BuffersLogged'
  <2>1. ASSUME NEW u \in Txn, status[u] = "active", pc'[u] = "ready", NEW k \in Dirty(u)
        PROVE  LastWrite(log', Committed' \cup {u}, k, buffer[u][k])
    <3>1. pc[u] = "ready" /\ u # t
      BY <1>4, <2>1
    <3>2. LastWrite(log, Committed \cup {u}, k, buffer[u][k])
      BY <2>1, <3>1 DEF RunInv, BuffersLogged
    <3>3. LastWrite(log, (Committed \cup {u}) \cup {t}, k, buffer[u][k])
      BY <1>8, <1>9, <2>1, <3>1, <3>2, SameWriters
    <3>4. LastWrite(log', (Committed \cup {u}) \cup {t}, k, buffer[u][k])
      BY <1>1, <3>3, OtherEntry
    <3>5. (Committed \cup {u}) \cup {t} = Committed' \cup {u}
      BY <1>2
    <3>. QED BY <3>4, <3>5
  <2>2. BuffersLogged' <=>
          \A u \in Txn : status'[u] = "active" /\ pc'[u] = "ready" =>
            \A k \in Dirty(u)' : LastWrite(log', Committed' \cup {u}, k, buffer'[u][k])
    BY DEF BuffersLogged, LastWrite, IsWrite
  <2>. QED BY <1>1, <1>4, <2>1, <2>2
<1>13. DecidedLeave'
  BY <1>1, <1>2, <1>4, <1>6 DEF RunInv, DecidedLeave
<1>14. BegunRun'
  <2>1. ASSUME NEW i \in DOMAIN log', log'[i].type = "BEGIN"
        PROVE  status[log'[i].txn] # "none" /\ pc'[log'[i].txn] # "begin"
    <3>1. i \in DOMAIN log /\ log'[i] = log[i]
      BY <1>1, <2>1, AppendNewest
    <3>2. status[log[i].txn] # "none" /\ pc[log[i].txn] # "begin"
      BY <2>1, <3>1 DEF RunInv, BegunRun
    <3>. QED BY <1>4, <1>5, <3>1, <3>2
  <2>. QED BY <1>1, <2>1 DEF BegunRun
<1>. QED BY <1>10, <1>11, <1>12, <1>13, <1>14 DEF RunInv

-----------------------------------------------------------------------------
(* A record that was never promised appears nowhere.                       *)

LEMMA GhostTruncate ==
  ASSUME TypeOK, GhostInv, NEW th \in Thread, NEW k \in Key, NEW v \in Value \cup {Absent},
         Truncate(th, k, v), UNCHANGED promised, promised[k] = Absent => v = Absent
  PROVE  GhostInv'
<1>1. PICK p : /\ page'[th] = {p} /\ p.key = k /\ p.content[k] = v
               /\ \A l \in Key : l # k => p.content[l] = disk[l]
  BY TruncateFacts
<1>2. /\ \A u \in Thread : u # th => page'[u] = page[u]
      /\ \A l \in Key : disk'[l] = IF FileOf(l) = FileOf(k) THEN Absent ELSE disk[l]
  BY TruncateFacts
<1>. QED BY <1>1, <1>2 DEF GhostInv

LEMMA GhostRewrite ==
  ASSUME TypeOK, GhostInv, NEW th \in Thread, NEW k \in Key, Rewrite(th, k), UNCHANGED promised
  PROVE  GhostInv'
<1>1. PICK p \in page[th] :
        \A l \in Key : disk'[l] = IF FileOf(l) = FileOf(k) THEN p.content[l] ELSE disk[l]
  BY RewriteFacts
<1>2. page'[th] = {} /\ \A u \in Thread : u # th => page'[u] = page[u]
  BY RewriteFacts
<1>. QED BY <1>1, <1>2 DEF GhostInv

LEMMA GhostSame == GhostInv /\ UNCHANGED <<disk, page, promised>> => GhostInv'
BY DEF GhostInv

LEMMA ClientGhost ==
  ASSUME TypeInv, BaseInv, GhostInv, NEW t \in Txn,
         \/ Begin(t) \/ LogBegin(t) \/ \E k \in Key, v \in Value : Write(t, k, v)
         \/ LogCommit(t) \/ Apply(t) \/ FinishCommit(t) \/ LogAbort(t) \/ FinishAbort(t)
  PROVE  GhostInv'
<1>1. TypeOK /\ t \in Thread /\ Absent \notin Value
  BY RecoveryAssumption DEF TypeInv, Thread
<1>2. CASE UNCHANGED <<disk, page, promised>>
  BY <1>2, GhostSame
<1>3. CASE LogCommit(t)
  <2>1. \A k \in Key : promised'[k] = Absent => promised[k] = Absent
    BY <1>1, <1>3, DirtyType DEF LogCommit
  <2>. QED BY <1>3, <2>1 DEF GhostInv, LogCommit
<1>4. CASE Apply(t)
  <2>1. ASSUME NEW k \in todo[t]
        PROVE  k \in Key /\ buffer[t][k] \in Value /\ promised[k] # Absent
    <3>1. k \in Dirty(t) /\ pc[t] = "apply"
      BY <1>4 DEF TypeInv, Apply
    <3>. QED BY <1>1, <3>1, DirtyType DEF BaseInv, ClientInv
  <2>2. UNCHANGED promised
    BY <1>4 DEF Apply
  <2>. QED BY <1>1, <1>4, <2>1, <2>2, GhostTruncate, GhostRewrite DEF Apply
<1>. QED BY <1>2, <1>3, <1>4
         DEF Begin, LogBegin, Write, FinishCommit, LogAbort, FinishAbort, store

LEMMA CommittedPromise ==
  ASSUME TypeInv, PromiseInv, NEW i \in Writes(Committed)
  PROVE  /\ log[i].key \in Key /\ promised[log[i].key] # Absent
         /\ \E j \in Writes(Committed) :
              /\ log[j].key = log[i].key /\ i <= j
              /\ \A m \in Writes(Committed) : log[m].key = log[i].key => m <= j
              /\ promised[log[i].key] = log[j].after
<1>1. i \in DOMAIN log /\ IsWrite(log, i, Committed, log[i].key) /\ log[i].key \in Key
  BY WriteEntry DEF Writes, IsWrite, TypeInv, TypeOK
<1>2. LastWrite(log, Committed, log[i].key, promised[log[i].key])
  BY <1>1 DEF PromiseInv, NoWrite
<1>3. PICK j \in DOMAIN log :
        /\ IsWrite(log, j, Committed, log[i].key) /\ log[j].after = promised[log[i].key]
        /\ \A m \in DOMAIN log : IsWrite(log, m, Committed, log[i].key) => m <= j
  BY <1>2 DEF LastWrite
<1>4. log[j].after \in Value /\ j \in Writes(Committed) /\ i <= j /\ log[j].key = log[i].key
  BY <1>1, <1>3, WriteEntry DEF IsWrite, Writes, TypeInv, TypeOK
<1>5. \A m \in Writes(Committed) : log[m].key = log[i].key => m <= j
  BY <1>3 DEF IsWrite, Writes
<1>. QED BY <1>1, <1>3, <1>4, <1>5, RecoveryAssumption

LEMMA LoserPromise ==
  ASSUME TypeInv, PromiseInv, NEW i \in Writes(Losers)
  PROVE  /\ log[i].key \in Key /\ UndoValue(log[i]) \in Value \cup {Absent}
         /\ UndoValue(log[i]) \in Kept(promised[log[i].key])
<1>1. i \in DOMAIN log /\ log[i].type = "WRITE" /\ log[i].txn \notin Decided
  BY DEF Writes, Losers, Decided
<1>. QED BY <1>1, WriteEntry DEF PromiseInv, TypeInv, TypeOK

LEMMA RecoveryGhost ==
  ASSUME TypeInv, GhostInv, PromiseInv, RecoveryInv, Redo \/ Undo
  PROVE  GhostInv'
<1>1. TypeOK /\ Recoverer \in Thread /\ UNCHANGED promised
  BY DEF TypeInv, Thread, Redo, Undo
<1>2. CASE Redo
  <2>1. \A i \in NextRedo : /\ log[i].key \in Key /\ promised[log[i].key] # Absent
                            /\ log[i].after \in Value
    <3>1. ASSUME NEW i \in NextRedo PROVE i \in Writes(Committed)
      BY DEF NextRedo, RecoveryInv
    <3>2. \A i \in Writes(Committed) : log[i].after \in Value
      BY WriteEntry DEF Writes, TypeInv, TypeOK
    <3>. QED BY <3>1, <3>2, CommittedPromise
  <2>. QED BY <1>1, <1>2, <2>1, GhostTruncate, GhostRewrite DEF Redo
<1>3. CASE Undo
  <2>1. \A i \in NextUndo : /\ log[i].key \in Key /\ UndoValue(log[i]) \in Value \cup {Absent}
                            /\ UndoValue(log[i]) \in Kept(promised[log[i].key])
    BY LoserPromise DEF NextUndo, RecoveryInv
  <2>2. PICK w \in NextUndo :
          \/ Truncate(Recoverer, log[w].key, UndoValue(log[w]))
          \/ Rewrite(Recoverer, log[w].key)
          \/ UNCHANGED <<disk, page>>
    BY <1>3 DEF Undo
  <2>3. \A i \in NextUndo : promised[log[i].key] = Absent => UndoValue(log[i]) = Absent
    BY <2>1, KeptIs
  <2>. QED BY <1>1, <2>1, <2>2, <2>3, GhostTruncate, GhostRewrite, GhostSame
<1>. QED BY <1>2, <1>3

-----------------------------------------------------------------------------
(* Redo, undo, and the aborts of the losers.                               *)

LEMMA StartRecoveryInv ==
  ASSUME TypeInv, BaseInv, GhostInv, PromiseInv, StartRecovery
  PROVE  RecoveryInv'
<1>1. /\ redo' = Writes(Committed) /\ undo' = Writes(Losers) /\ losers' = Losers
      /\ UNCHANGED <<log, disk, promised, page>> /\ page[Recoverer] = {}
  BY DEF StartRecovery, store, BaseInv, ModeInv
<1>2. Writes(Committed)' = Writes(Committed) /\ Writes(Losers)' = Writes(Losers)
      /\ Losers' = Losers
  BY <1>1 DEF Writes, Committed, Losers, Logged
<1>3. ASSUME NEW k \in Key, \A i \in redo' : log[i].key # k
      PROVE  disk[k] \in Kept(promised[k])
  <2>1. NoWrite(log, Committed, k)
    BY <1>1, <1>3 DEF NoWrite, IsWrite, Writes
  <2>2. ~ LastWrite(log, Committed, k, promised[k])
    BY <2>1 DEF NoWrite, LastWrite
  <2>. QED BY <2>2, KeptIs DEF PromiseInv, GhostInv
<1>4. \A k \in Key : (\A i \in redo' : log'[i].key # k) => Holds(Recoverer, k, promised[k])'
  BY <1>1, <1>3 DEF Holds
<1>. QED BY <1>1, <1>2, <1>4 DEF RecoveryInv

\* The log alone fixes what is to be redone and undone.
LEMMA LogFixes ==
  UNCHANGED log => /\ Writes(Committed)' = Writes(Committed)
                   /\ Writes(Losers)' = Writes(Losers) /\ Losers' = Losers
BY DEF Writes, Committed, Losers, Logged

LEMMA RedoInv ==
  ASSUME TypeInv, PromiseInv, RecoveryInv, Redo
  PROVE  RecoveryInv'
<1>1. TypeOK /\ Recoverer \in Thread /\ UNCHANGED <<log, promised, undo, losers>>
  BY DEF TypeInv, Thread, Redo
<1>2. PICK i \in NextRedo :
        \/ Truncate(Recoverer, log[i].key, log[i].after) /\ UNCHANGED redo
        \/ Rewrite(Recoverer, log[i].key) /\ redo' = redo \ {i}
  BY DEF Redo
<1>. DEFINE k == log[i].key
<1>3. /\ i \in redo /\ i \in Writes(Committed) /\ i \in Nat /\ k \in Key
      /\ \A j \in redo : i <= j /\ j \in Nat
  BY CommittedPromise DEF NextRedo, RecoveryInv, TypeInv, TypeOK
<1>4. log[i].after \in Value
  BY <1>3, WriteEntry DEF TypeInv, TypeOK, Writes
<1>5. redo' \subseteq Writes(Committed) /\ redo' \subseteq redo
  BY <1>2 DEF RecoveryInv
<1>6. CASE Truncate(Recoverer, k, log[i].after) /\ UNCHANGED redo
  <2>1. PICK p : /\ page'[Recoverer] = {p} /\ p.key = k /\ p.content[k] = log[i].after
                 /\ \A l \in Key : l # k => p.content[l] = disk[l]
    BY <1>1, <1>3, <1>4, <1>6, TruncateFacts
  <2>2. /\ page[Recoverer] = {}
        /\ \A l \in Key : FileOf(l) # FileOf(k) => disk'[l] = disk[l]
    BY <1>1, <1>3, <1>4, <1>6, TruncateFacts
  <2>3. ASSUME NEW l \in Key, \A j \in redo : log[j].key # l
        PROVE  Holds(Recoverer, l, promised[l])'
    <3>1. disk[l] \in Kept(promised[l]) /\ l # k
      BY <1>3, <2>2, <2>3 DEF RecoveryInv, Holds
    <3>. QED BY <1>1, <2>1, <2>2, <3>1 DEF Holds
  <2>4. i \in NextRedo' /\ log'[i] = log[i]
    BY <1>1, <1>6 DEF NextRedo
  <2>5. \A q \in page'[Recoverer] :
          /\ page'[Recoverer] = {q}
          /\ \E j \in NextRedo' : q.key = log'[j].key /\ q.content[q.key] = log'[j].after
    BY <2>1, <2>4
  <2>. QED BY <1>1, <1>6, <2>3, <2>5, LogFixes DEF RecoveryInv
<1>7. CASE Rewrite(Recoverer, k) /\ redo' = redo \ {i}
  <2>1. PICK p \in page[Recoverer] :
          /\ p.key = k
          /\ \A l \in Key : disk'[l] = IF FileOf(l) = FileOf(k) THEN p.content[l] ELSE disk[l]
    BY <1>1, <1>3, <1>7, RewriteFacts
  <2>2. page'[Recoverer] = {}
    BY <1>1, <1>3, <1>7, RewriteFacts
  <2>3. page[Recoverer] = {p} /\ p.content[k] = log[i].after
    <3>1. PICK j \in NextRedo : p.key = log[j].key /\ p.content[p.key] = log[j].after
      BY <1>3 DEF RecoveryInv
    <3>2. j = i
      BY <1>3 DEF NextRedo
    <3>. QED BY <2>1, <3>1, <3>2 DEF RecoveryInv
  <2>4. ASSUME \A j \in redo' : log[j].key # k PROVE log[i].after = promised[k]
    <3>1. PICK j \in Writes(Committed) : log[j].key = k /\ i <= j /\ promised[k] = log[j].after
      BY <1>3, CommittedPromise
    <3>2. j \in redo
      BY <1>3, <3>1 DEF RecoveryInv
    <3>. QED BY <1>7, <2>4, <3>1, <3>2
  <2>5. ASSUME NEW l \in Key, \A j \in redo' : log[j].key # l
        PROVE  Holds(Recoverer, l, promised[l])'
    <3>1. CASE l = k
      BY <1>1, <2>1, <2>2, <2>3, <2>4, <2>5, <3>1, KeptIs DEF Holds
    <3>2. CASE l # k
      <4>1. Holds(Recoverer, l, promised[l])
        BY <1>7, <2>5, <3>2 DEF RecoveryInv
      <4>2. disk'[l] \in Kept(promised[l])
        BY <2>1, <2>3, <4>1 DEF Holds
      <4>. QED BY <1>1, <2>2, <4>2 DEF Holds
    <3>. QED BY <3>1, <3>2
  <2>6. \A j \in redo' : \A m \in Writes(Committed) : j <= m => m \in redo'
    <3>1. ASSUME NEW j \in redo', NEW m \in Writes(Committed), j <= m PROVE m \in redo'
      <4>1. j \in redo /\ j # i /\ m \in redo /\ i <= j
        BY <1>3, <1>7, <3>1 DEF RecoveryInv
      <4>2. m # i
        BY <1>3, <3>1, <4>1
      <4>. QED BY <1>7, <4>1, <4>2
    <3>. QED BY <3>1
  <2>. QED BY <1>1, <1>5, <2>2, <2>5, <2>6, LogFixes DEF RecoveryInv
<1>. QED BY <1>2, <1>6, <1>7

LEMMA UndoInv ==
  ASSUME TypeInv, PromiseInv, RecoveryInv, Undo
  PROVE  RecoveryInv'
<1>1. /\ TypeOK /\ Recoverer \in Thread
      /\ UNCHANGED <<log, promised, redo, losers>> /\ redo = {}
  BY DEF TypeInv, Thread, Undo
<1>2. PICK i \in NextUndo :
        \/ Truncate(Recoverer, log[i].key, UndoValue(log[i])) /\ UNCHANGED undo
        \/ Rewrite(Recoverer, log[i].key) /\ undo' = undo \ {i}
        \/ UNCHANGED <<disk, page>> /\ page[Recoverer] = {} /\ undo' = undo \ {i}
  BY DEF Undo
<1>. DEFINE k == log[i].key
<1>3. /\ i \in undo /\ i \in Writes(Losers) /\ k \in Key
      /\ UndoValue(log[i]) \in Value \cup {Absent}
      /\ UndoValue(log[i]) \in Kept(promised[k])
  BY LoserPromise DEF NextUndo, RecoveryInv
<1>4. \A l \in Key : Holds(Recoverer, l, promised[l])
  BY <1>1 DEF RecoveryInv
<1>5. SUFFICES /\ \A l \in Key : Holds(Recoverer, l, promised[l])'
               /\ undo' \subseteq undo
               /\ \A p \in page'[Recoverer] : page'[Recoverer] = {p} /\ NextUndo' # {}
  BY <1>1, LogFixes DEF RecoveryInv
<1>6. undo' \subseteq undo
  BY <1>2
<1>7. CASE Truncate(Recoverer, k, UndoValue(log[i])) /\ UNCHANGED undo
  <2>1. PICK p : /\ page'[Recoverer] = {p} /\ p.key = k /\ p.content[k] = UndoValue(log[i])
                 /\ \A l \in Key : l # k => p.content[l] = disk[l]
    BY <1>1, <1>3, <1>7, TruncateFacts
  <2>2. /\ page[Recoverer] = {}
        /\ \A l \in Key : FileOf(l) # FileOf(k) => disk'[l] = disk[l]
    BY <1>1, <1>3, <1>7, TruncateFacts
  <2>3. \A l \in Key : disk[l] \in Kept(promised[l])
    BY <1>4, <2>2 DEF Holds
  <2>4. \A l \in Key : Holds(Recoverer, l, promised[l])'
    BY <1>1, <1>3, <2>1, <2>2, <2>3 DEF Holds
  <2>5. i \in NextUndo'
    BY <1>1, <1>7 DEF NextUndo
  <2>. QED BY <1>6, <2>1, <2>4, <2>5
<1>8. CASE Rewrite(Recoverer, k) /\ undo' = undo \ {i}
  <2>1. PICK p \in page[Recoverer] :
          /\ p.key = k
          /\ \A l \in Key : disk'[l] = IF FileOf(l) = FileOf(k) THEN p.content[l] ELSE disk[l]
    BY <1>1, <1>3, <1>8, RewriteFacts
  <2>2. page'[Recoverer] = {}
    BY <1>1, <1>3, <1>8, RewriteFacts
  <2>3. page[Recoverer] = {p}
    BY DEF RecoveryInv
  <2>4. \A l \in Key : disk'[l] \in Kept(promised[l])
    BY <1>4, <2>1, <2>3 DEF Holds
  <2>. QED BY <1>1, <1>6, <2>2, <2>4 DEF Holds
<1>9. CASE UNCHANGED <<disk, page>> /\ page[Recoverer] = {}
  BY <1>1, <1>4, <1>6, <1>9 DEF Holds
<1>. QED BY <1>2, <1>7, <1>8, <1>9

LEMMA LogLoserInv ==
  ASSUME TypeInv, PromiseInv, RecoveryInv, LogLoser
  PROVE  RecoveryInv' /\ PromiseInv'
<1>1. PICK t \in losers : LogFate("ABORT", t) /\ losers' = losers \ {t}
  BY DEF LogLoser
<1>2. redo' = {} /\ undo' = {} /\ redo = {} /\ undo = {} /\ UNCHANGED <<promised, disk, page>>
  BY DEF LogLoser
<1>3. t \in Txn
  BY DEF TypeInv, TypeOK
<1>4. Appends([type |-> "ABORT", txn |-> t])
  BY <1>1, <1>3, LogFateFacts DEF TypeInv
<1>5. PromiseInv' /\ Committed' = Committed
  BY <1>2, <1>4, FatePromise
<1>6. Losers' = Losers \ {t}
  <2>1. /\ Logged("ABORT")' = Logged("ABORT") \cup {t}
        /\ Logged("BEGIN")' = Logged("BEGIN")
    BY <1>4, AppendLogged
  <2>. QED BY <1>5, <2>1 DEF Losers
<1>7. losers' \subseteq Losers'
  BY <1>1, <1>6 DEF RecoveryInv
<1>8. page[Recoverer] = {}
  BY <1>2 DEF RecoveryInv, NextRedo, NextUndo
<1>9. \A k \in Key : Holds(Recoverer, k, promised[k])'
  BY <1>2 DEF RecoveryInv, Holds
<1>. QED BY <1>2, <1>5, <1>7, <1>8, <1>9 DEF RecoveryInv

-----------------------------------------------------------------------------
(* Fates.                                                                  *)

LEMMA OldFates ==
  ASSUME NEW e, Appends(e), NEW i \in DOMAIN log
  PROVE  /\ Begins(log', i) <=> Begins(log, i)
         /\ \A j \in DOMAIN log : Decides(log', i, j) <=> Decides(log, i, j)
         /\ Decides(log', i, Len(log')) /\ Begins(log, i) =>
              NewestBegin(log, i) /\ e.txn = log[i].txn /\ e.type \in {"COMMIT", "ABORT"}
<1>1. /\ DOMAIN log' = DOMAIN log \cup {Len(log')} /\ Len(log') \notin DOMAIN log
      /\ log'[Len(log')] = e /\ \A m \in DOMAIN log : log'[m] = log[m]
      /\ DOMAIN log \subseteq Nat /\ Len(log') \in Nat /\ \A m \in DOMAIN log : m < Len(log')
  BY DEF Appends
<1>2. Begins(log', i) <=> Begins(log, i)
  BY <1>1 DEF Begins
<1>3. ASSUME NEW j \in DOMAIN log PROVE Decides(log', i, j) <=> Decides(log, i, j)
  <2>1. ~ (Len(log') <= j)
    BY <1>1
  <2>. QED BY <1>1, <2>1 DEF Decides
<1>4. ASSUME Decides(log', i, Len(log')), Begins(log, i)
      PROVE  NewestBegin(log, i) /\ e.txn = log[i].txn /\ e.type \in {"COMMIT", "ABORT"}
  <2>1. /\ e.txn = log[i].txn /\ e.type \in {"COMMIT", "ABORT"}
    BY <1>1, <1>4 DEF Decides
  <2>2. ASSUME NEW m \in DOMAIN log, i < m, log[m].txn = log[i].txn
        PROVE  log[m].type # "BEGIN"
    <3>1. m \in DOMAIN log' /\ m <= Len(log') /\ log'[m].txn = log'[i].txn
      <4>1. m \in Nat /\ m < Len(log') /\ Len(log') \in Nat
        BY <1>1
      <4>2. m <= Len(log')
        BY <4>1
      <4>3. log'[m] = log[m] /\ log'[i] = log[i] /\ m \in DOMAIN log'
        BY <1>1
      <4>. QED BY <2>2, <4>2, <4>3
    <3>2. log'[m].type # "BEGIN"
      BY <1>4, <2>2, <3>1 DEF Decides
    <3>. QED BY <1>1, <3>2
  <2>3. \A m \in DOMAIN log : Begins(log, m) /\ log[m].txn = log[i].txn => m <= i
    BY <1>1, <2>2 DEF Begins
  <2>. QED BY <1>4, <2>1, <2>3 DEF NewestBegin
<1>. QED BY <1>2, <1>3, <1>4

LEMMA NewFate ==
  ASSUME NEW e, Appends(e), NEW i \in DOMAIN log, NewestBegin(log, i),
         e.txn = log[i].txn, e.type \in {"COMMIT", "ABORT"}
  PROVE  Decides(log', i, Len(log'))
<1>1. /\ DOMAIN log' = DOMAIN log \cup {Len(log')} /\ Len(log') \notin DOMAIN log
      /\ log'[Len(log')] = e /\ \A m \in DOMAIN log : log'[m] = log[m]
      /\ DOMAIN log \subseteq Nat /\ Len(log') \in Nat /\ \A m \in DOMAIN log : m < Len(log')
  BY DEF Appends
<1>2. ASSUME NEW m \in DOMAIN log, i < m, log[m].txn = log[i].txn
      PROVE  log[m].type # "BEGIN"
  <2>1. ~ (m <= i)
    BY <1>1, <1>2
  <2>. QED BY <1>2, <2>1 DEF NewestBegin, Begins
<1>. QED BY <1>1, <1>2 DEF Decides

LEMMA NoFateYet ==
  ASSUME NEW e, Appends(e), NEW j
  PROVE  ~ Decides(log', Len(log'), j)
BY DEF Appends, Decides

\* What becomes of the open transactions, and of the newest beginnings.
LEMMA AppendOpen ==
  ASSUME NEW e, Appends(e), NEW i \in DOMAIN log
  PROVE  /\ Open(log', i) => Open(log, i)
         /\ Open(log', i) /\ NewestBegin(log, i) /\ e.type \in {"COMMIT", "ABORT"} =>
              log[i].txn # e.txn
         /\ Open(log, i) /\ (e.type \notin {"COMMIT", "ABORT"} \/ log[i].txn # e.txn) =>
              Open(log', i)
<1>1. DOMAIN log' = DOMAIN log \cup {Len(log')}
  BY AppendNewest
<1>. QED BY <1>1, OldFates, NewFate DEF Open

LEMMA AppendBegins ==
  ASSUME NEW e, Appends(e), NEW i \in DOMAIN log
  PROVE  /\ NewestBegin(log', i) => NewestBegin(log, i)
         /\ NewestBegin(log, i) /\ (e.type # "BEGIN" \/ log[i].txn # e.txn) =>
              NewestBegin(log', i)
BY AppendNewest DEF NewestBegin, Begins

LEMMA AppendBegin ==
  ASSUME NEW e, Appends(e), e.type = "BEGIN"
  PROVE  Open(log', Len(log')) /\ NewestBegin(log', Len(log'))
<1>1. Begins(log', Len(log'))
  BY AppendNewest DEF Begins
<1>. QED BY <1>1, NoFateYet, AppendNewest DEF Open, NewestBegin

\* A fate for a transaction whose newest beginning is open is the only one.
LEMMA AppendOneFate ==
  ASSUME NEW e, Appends(e), OneFate,
         e.type \in {"COMMIT", "ABORT"} =>
           \A i \in DOMAIN log : NewestBegin(log, i) /\ log[i].txn = e.txn => Open(log, i)
  PROVE  OneFate'
<1>1. SUFFICES ASSUME NEW i \in DOMAIN log', NEW j \in DOMAIN log', NEW m \in DOMAIN log',
                      Begins(log', i), Decides(log', i, j), Decides(log', i, m)
               PROVE  j = m
  BY DEF OneFate
<1>2. DOMAIN log' = DOMAIN log \cup {Len(log')}
  BY AppendNewest
<1>3. i \in DOMAIN log /\ Begins(log, i)
  BY <1>1, <1>2, NoFateYet, OldFates
<1>4. CASE j \in DOMAIN log /\ m \in DOMAIN log
  BY <1>1, <1>3, <1>4, OldFates DEF OneFate
<1>5. ASSUME Decides(log', i, Len(log')) PROVE \A l \in DOMAIN log : ~ Decides(log', i, l)
  <2>1. Open(log, i)
    BY <1>3, <1>5, OldFates
  <2>. QED BY <1>3, <2>1, OldFates DEF Open
<1>. QED BY <1>1, <1>2, <1>4, <1>5

LEMMA SameFates == UNCHANGED log => (OneFate => OneFate')
BY DEF OneFate, Begins, Decides

LEMMA OpenUpSame ==
  ASSUME OpenUp, UNCHANGED log,
         \A i \in DOMAIN log :
           status'[log[i].txn] = "active" /\ pc'[log[i].txn] = "ready" <=>
             status[log[i].txn] = "active" /\ pc[log[i].txn] = "ready"
  PROVE  OpenUp'
<1>1. OpenUp' <=>
        /\ \A i \in DOMAIN log' : Open(log', i) =>
             /\ NewestBegin(log', i)
             /\ status'[log'[i].txn] = "active" /\ pc'[log'[i].txn] = "ready"
        /\ \A i \in DOMAIN log' :
             NewestBegin(log', i) /\ status'[log'[i].txn] = "active" /\ pc'[log'[i].txn] = "ready"
               => Open(log', i)
  BY DEF OpenUp, Open, NewestBegin, Begins, Decides
<1>. QED BY <1>1 DEF OpenUp

LEMMA UpFates ==
  ASSUME TypeInv, BaseInv, OneFate, OpenUp, NEW t \in Txn,
         \/ Begin(t) \/ LogBegin(t) \/ \E k \in Key, v \in Value : Write(t, k, v)
         \/ LogCommit(t) \/ Apply(t) \/ FinishCommit(t) \/ LogAbort(t) \/ FinishAbort(t)
  PROVE  OneFate' /\ OpenUp'
<1>. DEFINE Ready(u) == status[u] = "active" /\ pc[u] = "ready"
            Ready1(u) == status'[u] = "active" /\ pc'[u] = "ready"
<1>1. \A i \in DOMAIN log : log[i].txn \in Txn
  BY DEF TypeInv, TypeOK, Entry
<1>2. \A u \in Txn : u # t => status'[u] = status[u] /\ pc'[u] = pc[u]
  BY DEF TypeInv, TypeOK, Begin, LogBegin, Write, LogCommit, Apply, FinishCommit, LogAbort,
         FinishAbort
<1>3. CASE Begin(t) \/ Apply(t) \/ FinishCommit(t) \/ FinishAbort(t)
  <2>1. UNCHANGED log
    BY <1>3 DEF Begin, Apply, FinishCommit, FinishAbort, store
  <2>2. Ready(t) <=> Ready1(t)
    BY <1>3 DEF TypeInv, TypeOK, Begin, Apply, FinishCommit, FinishAbort
  <2>3. \A u \in Txn : Ready(u) <=> Ready1(u)
    BY <1>2, <2>2
  <2>. QED BY <1>1, <2>1, <2>3, SameFates, OpenUpSame
<1>4. ASSUME NEW e, Appends(e), e.txn = t,
             \/ e.type = "BEGIN" /\ ~ Ready(t) /\ Ready1(t)
             \/ e.type = "WRITE" /\ (Ready(t) <=> Ready1(t))
             \/ e.type \in {"COMMIT", "ABORT"} /\ Ready(t) /\ ~ Ready1(t)
      PROVE  OneFate' /\ OpenUp'
  <2>1. OneFate'
    BY <1>4, AppendOneFate DEF OpenUp
  <2>2. DOMAIN log' = DOMAIN log \cup {Len(log')} /\ log'[Len(log')] = e
        /\ \A i \in DOMAIN log : log'[i] = log[i]
    BY <1>4, AppendNewest
  <2>3. ASSUME NEW i \in DOMAIN log', Open(log', i)
        PROVE  NewestBegin(log', i) /\ Ready1(log'[i].txn)
    <3>1. CASE i \in DOMAIN log
      <4>1. Open(log, i) /\ NewestBegin(log, i) /\ Ready(log[i].txn)
        BY <1>4, <2>3, <3>1, AppendOpen DEF OpenUp
      <4>2. e.type \in {"COMMIT", "ABORT"} => log[i].txn # t
        BY <1>4, <2>3, <3>1, <4>1, AppendOpen
      <4>3. e.type = "BEGIN" => log[i].txn # t
        BY <1>4, <4>1
      <4>4. NewestBegin(log', i)
        BY <1>4, <3>1, <4>1, <4>3, AppendBegins
      <4>5. log[i].txn = t => Ready1(t)
        BY <1>4, <4>1, <4>2
      <4>6. log[i].txn # t => Ready1(log[i].txn)
        BY <1>1, <1>2, <3>1, <4>1
      <4>. QED BY <2>2, <3>1, <4>4, <4>5, <4>6
    <3>2. CASE i = Len(log')
      <4>1. e.type = "BEGIN"
        BY <2>2, <2>3, <3>2 DEF Open, Begins
      <4>. QED BY <1>4, <2>2, <3>2, <4>1, AppendBegin
    <3>. QED BY <2>2, <3>1, <3>2
  <2>4. ASSUME NEW i \in DOMAIN log', NewestBegin(log', i), Ready1(log'[i].txn)
        PROVE  Open(log', i)
    <3>1. CASE i \in DOMAIN log
      <4>1. NewestBegin(log, i) /\ log'[i] = log[i]
        BY <1>4, <2>2, <2>4, <3>1, AppendBegins
      <4>2. e.type = "BEGIN" => log[i].txn # t
        <5>1. ASSUME e.type = "BEGIN", log[i].txn = t PROVE FALSE
          <6>1. NewestBegin(log', Len(log')) /\ Len(log') \in DOMAIN log'
            BY <1>4, <2>2, <5>1, AppendBegin
          <6>2. Len(log') <= i
            BY <1>4, <2>2, <2>4, <3>1, <4>1, <5>1, <6>1 DEF NewestBegin, Begins
          <6>. QED BY <1>4, <3>1, <6>2 DEF Appends
        <5>. QED BY <5>1
      <4>3. log[i].txn = t => e.type = "WRITE" /\ Ready(t)
        BY <1>4, <2>4, <4>1, <4>2
      <4>4. log[i].txn # t => Ready(log[i].txn)
        BY <1>1, <1>2, <2>4, <3>1, <4>1
      <4>5. Open(log, i)
        BY <3>1, <4>1, <4>3, <4>4 DEF OpenUp
      <4>. QED BY <1>4, <3>1, <4>3, <4>5, AppendOpen
    <3>2. CASE i = Len(log')
      <4>1. e.type = "BEGIN"
        BY <2>2, <2>4, <3>2 DEF NewestBegin, Begins
      <4>. QED BY <1>4, <3>2, <4>1, AppendBegin
    <3>. QED BY <2>2, <3>1, <3>2
  <2>5. OpenUp' <=>
          /\ \A i \in DOMAIN log' : Open(log', i) => NewestBegin(log', i) /\ Ready1(log'[i].txn)
          /\ \A i \in DOMAIN log' :
               NewestBegin(log', i) /\ Ready1(log'[i].txn) => Open(log', i)
    BY DEF OpenUp, Open, NewestBegin, Begins, Decides
  <2>. HIDE DEF Ready1
  <2>. QED BY <2>1, <2>3, <2>4, <2>5
<1>5. CASE LogBegin(t)
  <2>1. Appends([type |-> "BEGIN", txn |-> t])
    BY <1>5, LogFateFacts DEF LogBegin, TypeInv
  <2>2. ~ Ready(t) /\ Ready1(t)
    BY <1>5 DEF LogBegin, TypeInv, TypeOK
  <2>. QED BY <1>4, <2>1, <2>2
<1>6. ASSUME NEW k \in Key, NEW v \in Value, Write(t, k, v) PROVE OneFate' /\ OpenUp'
  <2>. DEFINE e == [type |-> "WRITE", txn |-> t, key |-> k,
                    before |-> AsLogged(disk[k]), after |-> v]
  <2>1. e \in Entry /\ log' = Append(log, e)
    BY <1>6 DEF TypeInv, TypeOK, Content, AsLogged, Entry, Write
  <2>2. e.type = "WRITE" /\ e.txn = t
    OBVIOUS
  <2>. HIDE DEF e
  <2>3. Appends(e)
    BY <2>1, AppendFacts DEF TypeInv, TypeOK
  <2>4. Ready(t) <=> Ready1(t)
    BY <1>6 DEF Write
  <2>. QED BY <1>4, <2>2, <2>3, <2>4
<1>7. CASE LogCommit(t)
  <2>1. Appends([type |-> "COMMIT", txn |-> t])
    BY <1>7, LogFateFacts DEF LogCommit, TypeInv
  <2>2. Ready(t) /\ ~ Ready1(t)
    BY <1>7 DEF LogCommit, TypeInv, TypeOK
  <2>. QED BY <1>4, <2>1, <2>2
<1>8. CASE LogAbort(t)
  <2>1. Appends([type |-> "ABORT", txn |-> t])
    BY <1>8, LogFateFacts DEF LogAbort, TypeInv
  <2>2. Ready(t) /\ ~ Ready1(t)
    BY <1>8 DEF LogAbort, TypeInv, TypeOK
  <2>. QED BY <1>4, <2>1, <2>2
<1>. QED BY <1>3, <1>5, <1>6, <1>7, <1>8

LEMMA BeginSame == BeginInv /\ UNCHANGED log => BeginInv'
BY DEF BeginInv, Begins, Open, Decides, Decided, Committed, Logged

LEMMA BeginAppend ==
  ASSUME NEW e, Appends(e), BeginInv,
         e.type = "BEGIN" => /\ e.txn \notin Decided
                             /\ \A i \in DOMAIN log : Begins(log, i) => log[i].txn # e.txn
  PROVE  BeginInv'
<1>1. /\ DOMAIN log' = DOMAIN log \cup {Len(log')} /\ log'[Len(log')] = e
      /\ \A i \in DOMAIN log : log'[i] = log[i]
  BY AppendNewest
<1>2. Decided' = IF e.type \in {"COMMIT", "ABORT"} THEN Decided \cup {e.txn} ELSE Decided
  <2>1. \A f : Logged(f)' = IF e.type = f THEN Logged(f) \cup {e.txn} ELSE Logged(f)
    BY AppendLogged
  <2>. QED BY <2>1 DEF Decided, Committed
<1>3. \A i \in DOMAIN log : Begins(log', i) <=> Begins(log, i)
  BY OldFates
<1>4. ASSUME NEW i \in DOMAIN log', NEW j \in DOMAIN log',
             Begins(log', i), Begins(log', j), log'[i].txn = log'[j].txn
      PROVE  i = j
  <2>1. Begins(log', Len(log')) => e.type = "BEGIN"
    BY <1>1 DEF Begins
  <2>2. CASE i \in DOMAIN log /\ j \in DOMAIN log
    BY <1>1, <1>3, <1>4, <2>2 DEF BeginInv
  <2>. QED BY <1>1, <1>3, <1>4, <2>1, <2>2
<1>5. ASSUME NEW i \in DOMAIN log', Open(log', i) PROVE log'[i].txn \notin Decided'
  <2>1. CASE i \in DOMAIN log
    <3>1. Open(log, i) /\ log[i].txn \notin Decided
      BY <1>5, <2>1, AppendOpen DEF BeginInv
    <3>2. NewestBegin(log, i)
      <4>1. \A j \in DOMAIN log : Begins(log, j) /\ log[j].txn = log[i].txn => j = i
        BY <2>1, <3>1 DEF BeginInv, Open
      <4>2. i <= i
        BY <2>1 DEF Appends
      <4>. QED BY <3>1, <4>1, <4>2 DEF NewestBegin, Open
    <3>3. e.type \in {"COMMIT", "ABORT"} => log[i].txn # e.txn
      BY <1>5, <2>1, <3>2, AppendOpen
    <3>. QED BY <1>1, <1>2, <2>1, <3>1, <3>3
  <2>2. CASE i = Len(log')
    <3>1. e.type = "BEGIN"
      BY <1>1, <1>5, <2>2 DEF Open, Begins
    <3>. QED BY <1>1, <1>2, <2>2, <3>1
  <2>. QED BY <1>1, <2>1, <2>2
<1>6. BeginInv' <=>
        /\ \A i, j \in DOMAIN log' :
             Begins(log', i) /\ Begins(log', j) /\ log'[i].txn = log'[j].txn => i = j
        /\ \A i \in DOMAIN log' : Open(log', i) => log'[i].txn \notin Decided'
  BY DEF BeginInv, Begins, Open, Decides
<1>. QED BY <1>4, <1>5, <1>6

LEMMA RunBegin ==
  ASSUME TypeInv, BeginInv, RunInv, NEW t \in Txn,
         \/ Begin(t) \/ LogBegin(t) \/ \E k \in Key, v \in Value : Write(t, k, v)
         \/ LogCommit(t) \/ Apply(t) \/ FinishCommit(t) \/ LogAbort(t) \/ FinishAbort(t)
  PROVE  BeginInv'
<1>1. CASE UNCHANGED log
  BY <1>1, BeginSame
<1>2. CASE LogBegin(t)
  <2>1. Appends([type |-> "BEGIN", txn |-> t]) /\ status[t] = "active" /\ pc[t] = "begin"
    BY <1>2, LogFateFacts DEF LogBegin, TypeInv
  <2>2. t \notin Decided /\ \A i \in DOMAIN log : Begins(log, i) => log[i].txn # t
    BY <2>1, Undecided DEF RunInv, BegunRun, Begins
  <2>. QED BY <2>1, <2>2, BeginAppend
<1>3. ASSUME NEW k \in Key, NEW v \in Value, Write(t, k, v) PROVE BeginInv'
  <2>. DEFINE e == [type |-> "WRITE", txn |-> t, key |-> k,
                    before |-> AsLogged(disk[k]), after |-> v]
  <2>1. e \in Entry /\ log' = Append(log, e)
    BY <1>3 DEF TypeInv, TypeOK, Content, AsLogged, Entry, Write
  <2>2. e.type = "WRITE"
    OBVIOUS
  <2>. HIDE DEF e
  <2>3. Appends(e)
    BY <2>1, AppendFacts DEF TypeInv, TypeOK
  <2>. QED BY <2>2, <2>3, BeginAppend
<1>4. CASE LogCommit(t)
  <2>1. Appends([type |-> "COMMIT", txn |-> t])
    BY <1>4, LogFateFacts DEF LogCommit, TypeInv
  <2>. QED BY <2>1, BeginAppend
<1>5. CASE LogAbort(t)
  <2>1. Appends([type |-> "ABORT", txn |-> t])
    BY <1>5, LogFateFacts DEF LogAbort, TypeInv
  <2>. QED BY <2>1, BeginAppend
<1>. QED BY <1>1, <1>2, <1>3, <1>4, <1>5 DEF Begin, Apply, FinishCommit, FinishAbort, store

LEMMA LoserFates ==
  ASSUME TypeInv, OpenInv, BeginInv, RecoveryInv, LogLoser
  PROVE  OpenInv' /\ BeginInv'
<1>1. PICK t \in losers : LogFate("ABORT", t) /\ losers' = losers \ {t}
  BY DEF LogLoser
<1>2. mode = "recovering" /\ mode' = "recovering"
  BY DEF LogLoser
<1>. DEFINE e == [type |-> "ABORT", txn |-> t]
<1>3. t \in Txn /\ Appends(e)
  BY <1>1, LogFateFacts DEF TypeInv, TypeOK
<1>4. BeginInv'
  BY <1>3, BeginAppend
<1>5. t \notin Decided
  BY DEF RecoveryInv, Losers, Decided
<1>6. \A i \in DOMAIN log : NewestBegin(log, i) /\ log[i].txn = t => Open(log, i)
  BY <1>5 DEF NewestBegin, Open, Decides, Decided, Committed, Logged
<1>7. OneFate'
  BY <1>3, <1>6, AppendOneFate DEF OpenInv
<1>8. ASSUME NEW i \in DOMAIN log', Open(log', i) PROVE log'[i].txn \in losers'
  <2>1. i \in DOMAIN log /\ log'[i] = log[i]
    BY <1>3, <1>8, AppendNewest DEF Open, Begins
  <2>2. Open(log, i) /\ log[i].txn \in losers
    BY <1>2, <1>3, <1>8, <2>1, AppendOpen DEF OpenInv
  <2>3. log'[i].txn \notin Decided'
    BY <1>4, <1>8 DEF BeginInv, Open, Begins, Decides
  <2>4. t \in Decided'
    <3>1. Logged("ABORT")' = Logged("ABORT") \cup {t}
      BY <1>3, AppendLogged
    <3>. QED BY <3>1 DEF Decided
  <2>. QED BY <1>1, <2>1, <2>2, <2>3, <2>4
<1>9. OpenInv' <=> /\ OneFate'
                   /\ mode' = "up" => OpenUp'
                   /\ mode' = "recovering" =>
                        \A i \in DOMAIN log' : Open(log', i) => log'[i].txn \in losers'
  BY DEF OpenInv, Open, Begins, Decides
<1>. QED BY <1>2, <1>4, <1>7, <1>8, <1>9

LEMMA StartFates ==
  ASSUME TypeInv, OpenInv, BeginInv, StartRecovery
  PROVE  OpenInv'
<1>1. UNCHANGED log /\ losers' = Losers /\ mode' = "recovering"
  BY DEF StartRecovery, store
<1>2. \A i \in DOMAIN log : Open(log, i) => log[i].txn \in Losers
  BY DEF Open, Begins, BeginInv, Losers, Decided, Logged
<1>3. OneFate'
  BY <1>1, SameFates DEF OpenInv
<1>. QED BY <1>1, <1>2, <1>3 DEF OpenInv, Open, Begins, Decides

LEMMA RedoUndoFates == ASSUME OpenInv, Redo \/ Undo PROVE OpenInv'
<1>1. UNCHANGED <<log, losers, mode>> /\ mode = "recovering"
  BY DEF Redo, Undo
<1>2. OneFate'
  BY <1>1, SameFates DEF OpenInv
<1>. QED BY <1>1, <1>2 DEF OpenInv, Open, Begins, Decides

LEMMA CrashFates == ASSUME OpenInv, Crash PROVE OpenInv'
<1>1. UNCHANGED log /\ mode' = "down"
  BY DEF Crash, store
<1>. QED BY <1>1, SameFates DEF OpenInv

LEMMA ServeFates ==
  ASSUME TypeInv, BaseInv, OpenInv, Serve
  PROVE  OpenInv'
<1>1. /\ UNCHANGED <<log, status, pc>> /\ losers = {} /\ mode = "recovering" /\ mode' = "up"
  BY DEF Serve, store, clients
<1>2. OneFate'
  BY <1>1, SameFates DEF OpenInv
<1>3. \A i \in DOMAIN log : ~ Open(log, i)
  BY <1>1 DEF OpenInv
<1>4. \A i \in DOMAIN log : status[log[i].txn] = "none"
  <2>1. \A i \in DOMAIN log : log[i].txn \in Txn
    BY DEF TypeInv, TypeOK, Entry
  <2>. QED BY <1>1, <2>1, Clients DEF BaseInv
<1>5. OpenUp'
  BY <1>1, <1>3, <1>4, OpenUpSame DEF OpenUp
<1>. QED BY <1>1, <1>2, <1>5 DEF OpenInv

-----------------------------------------------------------------------------
(* The invariant is inductive.                                             *)

LEMMA InitIInv == Init => IInv
<1>. SUFFICES ASSUME Init PROVE IInv
  OBVIOUS
<1>1. /\ log = << >> /\ mode = "down" /\ failures = 0
      /\ \A k \in Key : disk[k] = Absent /\ promised[k] = Absent
      /\ \A th \in Thread : page[th] = {}
      /\ clients = <<NoTransactions, NoBuffers, NoLocks, Idle, Nothing>>
      /\ recovery = <<{}, {}, {}>>
  BY DEF Init, NoPages, clients, recovery
<1>2. ModeInv
  BY <1>1 DEF ModeInv, Thread
<1>3. \A t \in Txn : ClientInv(t)
  BY <1>1 DEF clients, NoTransactions, NoBuffers, NoBuffer, Idle, ClientInv, Dirty, Thread
<1>4. DOMAIN log = {}
  BY <1>1
<1>5. OpenInv /\ PromiseInv /\ BeginInv
  BY <1>1, <1>4 DEF OpenInv, OneFate, PromiseInv, NoWrite, BeginInv, Open, Begins
<1>6. GhostInv
  BY <1>1 DEF GhostInv
<1>7. CommittedIsStored
  BY <1>1 DEF CommittedIsStored, BeingStored
<1>. QED BY <1>1, <1>2, <1>3, <1>5, <1>6, <1>7, InitTypes DEF IInv, BaseInv, FirstRun

ClientStep(t) ==
  \/ Begin(t) \/ LogBegin(t) \/ \E k \in Key, v \in Value : Write(t, k, v)
  \/ LogCommit(t) \/ Apply(t) \/ FinishCommit(t) \/ LogAbort(t) \/ FinishAbort(t)

LEMMA ClientIInv ==
  ASSUME IInv, NEW t \in Txn, ClientStep(t)
  PROVE  IInv'
<1>1. TypeInv /\ TypeInv'
  BY ClientTypes, ApplyTypes DEF IInv, ClientStep
<1>2. UNCHANGED failures
  BY DEF ClientStep, Begin, LogBegin, Write, LogCommit, Apply, FinishCommit, LogAbort, FinishAbort
<1>3. SUFFICES ASSUME failures <= 1
               PROVE  /\ BaseInv' /\ OpenInv' /\ mode' # "recovering"
                      /\ Fresh' => GhostInv' /\ PromiseInv' /\ BeginInv'
                      /\ FirstRun' => RunInv'
  BY <1>1, <1>2 DEF IInv
<1>4. mode = "up" /\ mode' = "up"
  BY <1>1, <1>3, UpAtWork DEF IInv, BaseInv, ClientStep, Begin, LogBegin, Write, LogCommit, Apply,
     FinishCommit, LogAbort, FinishAbort
<1>5. BaseInv'
  BY <1>1, <1>3, QuietBase, LogCommitBase, ApplyBase DEF IInv, ClientStep
<1>6. OpenInv'
  <2>1. OneFate /\ OpenUp
    BY <1>3, <1>4 DEF IInv, OpenInv
  <2>2. OneFate' /\ OpenUp'
    BY <1>1, <1>3, <2>1, UpFates DEF IInv, ClientStep
  <2>. QED BY <1>4, <2>2 DEF OpenInv
<1>7. ASSUME failures = 0 PROVE GhostInv' /\ PromiseInv' /\ BeginInv' /\ RunInv'
  <2>1. BaseInv /\ GhostInv /\ PromiseInv /\ BeginInv /\ RunInv
    BY <1>3, <1>4, <1>7 DEF IInv, Fresh, FirstRun
  <2>2. GhostInv'
    BY <1>1, <2>1, ClientGhost DEF ClientStep
  <2>3. BeginInv'
    BY <1>1, <2>1, RunBegin DEF ClientStep
  <2>4. PromiseInv' /\ RunInv'
    BY <1>1, <2>1, QuietRun, LogBeginRun, WriteRun, LogCommitRun, LogAbortRun DEF ClientStep
  <2>. QED BY <2>2, <2>3, <2>4
<1>. QED BY <1>2, <1>4, <1>5, <1>6, <1>7 DEF Fresh, FirstRun

LEMMA CrashIInv == ASSUME IInv, Crash PROVE IInv'
<1>1. TypeInv /\ TypeInv' /\ failures \in Nat /\ failures' \in Nat
  <2>1. TypeInv /\ TypeInv'
    BY CrashTypes DEF IInv
  <2>. QED BY <2>1, RecoveryAssumption DEF TypeInv, TypeOK
<1>2. SUFFICES ASSUME failures' <= 1
               PROVE  BaseInv' /\ OpenInv' /\ GhostInv' /\ PromiseInv' /\ BeginInv'
  BY <1>1 DEF IInv, FirstRun, Crash
<1>3. failures <= 1 /\ Fresh
  <2>1. failures' = failures + 1 \/ (failures' = failures /\ mode = "recovering")
    BY DEF Crash
  <2>2. CASE failures' = failures + 1
    BY <1>1, <1>2, <2>2 DEF Fresh
  <2>3. CASE failures' = failures /\ mode = "recovering"
    BY <1>2, <2>3 DEF Fresh
  <2>. QED BY <2>1, <2>2, <2>3
<1>4. BaseInv /\ OpenInv /\ GhostInv /\ PromiseInv /\ BeginInv
  BY <1>3 DEF IInv
<1>5. UNCHANGED <<log, promised, disk>> /\ \A th \in Thread : page'[th] = {}
  BY DEF Crash, store, NoPages
<1>6. GhostInv'
  BY <1>4, <1>5 DEF GhostInv
<1>. QED BY <1>1, <1>4, <1>5, <1>6, CrashBase, CrashFates, PromiseSame, BeginSame

LEMMA RecoverIInv ==
  ASSUME IInv, StartRecovery \/ Redo \/ Undo \/ LogLoser \/ Serve
  PROVE  IInv'
<1>1. TypeInv /\ TypeInv'
  BY RecoveryTypes DEF IInv
<1>2. UNCHANGED failures /\ mode # "up" /\ UNCHANGED promised
  BY DEF StartRecovery, Redo, Undo, LogLoser, Serve, store
<1>3. SUFFICES ASSUME failures <= 1
               PROVE  /\ BaseInv' /\ OpenInv' /\ GhostInv' /\ PromiseInv' /\ BeginInv'
                      /\ FirstRun' => RunInv'
                      /\ mode' = "recovering" => RecoveryInv'
  BY <1>1, <1>2 DEF IInv
<1>4. BaseInv /\ OpenInv /\ GhostInv /\ PromiseInv /\ BeginInv
  BY <1>2, <1>3 DEF IInv, Fresh
<1>5. mode = "recovering" => RecoveryInv
  BY <1>3 DEF IInv
<1>6. CASE StartRecovery
  <2>1. UNCHANGED <<log, disk, page>> /\ mode' = "recovering"
    BY <1>6 DEF StartRecovery, store
  <2>2. GhostInv' /\ PromiseInv' /\ BeginInv'
    BY <1>2, <1>4, <2>1, GhostSame, PromiseSame, BeginSame
  <2>3. BaseInv' /\ OpenInv' /\ RecoveryInv'
    BY <1>1, <1>4, <1>6, StartBase, StartFates, StartRecoveryInv
  <2>. QED BY <2>1, <2>2, <2>3 DEF FirstRun
<1>7. CASE Redo \/ Undo
  <2>1. UNCHANGED log /\ mode = "recovering" /\ mode' = "recovering"
    BY <1>7 DEF Redo, Undo
  <2>2. GhostInv' /\ PromiseInv' /\ BeginInv'
    BY <1>1, <1>2, <1>4, <1>5, <1>7, <2>1, RecoveryGhost, PromiseSame, BeginSame
  <2>3. BaseInv' /\ OpenInv' /\ RecoveryInv'
    BY <1>1, <1>4, <1>5, <1>7, <2>1, RedoUndoBase, RedoUndoFates, RedoInv, UndoInv
  <2>. QED BY <2>1, <2>2, <2>3 DEF FirstRun
<1>8. CASE LogLoser
  <2>1. UNCHANGED <<disk, page>> /\ mode = "recovering" /\ mode' = "recovering"
    BY <1>8 DEF LogLoser
  <2>2. GhostInv'
    BY <1>2, <1>4, <2>1, GhostSame
  <2>3. OpenInv' /\ BeginInv'
    BY <1>1, <1>4, <1>5, <1>8, <2>1, LoserFates
  <2>4. RecoveryInv' /\ PromiseInv'
    BY <1>1, <1>4, <1>5, <1>8, <2>1, LogLoserInv
  <2>5. BaseInv'
    BY <1>1, <1>4, <1>5, <1>8, <2>1, LogLoserBase
  <2>. QED BY <2>1, <2>2, <2>3, <2>4, <2>5 DEF FirstRun
<1>9. CASE Serve
  <2>1. /\ UNCHANGED <<log, disk, page, status, pc, buffer>>
        /\ mode = "recovering" /\ mode' = "up"
    BY <1>9 DEF Serve, store, clients
  <2>2. GhostInv' /\ PromiseInv' /\ BeginInv'
    BY <1>2, <1>4, <2>1, GhostSame, PromiseSame, BeginSame
  <2>3. BaseInv'
    BY <1>1, <1>4, <1>5, <1>9, <2>1, ServeBase
  <2>4. OpenInv'
    BY <1>1, <1>4, <1>9, ServeFates
  <2>5. ASSUME failures = 0 PROVE RunInv'
    <3>1. log' = << >>
      BY <1>2, <1>4, <2>1, <2>5 DEF BaseInv, ModeInv
    <3>2. DOMAIN log' = {}
      BY <3>1
    <3>3. Decided' = {}
      BY <3>2 DEF Decided, Committed, Logged
    <3>4. \A t \in Txn : status'[t] = "none"
      BY <1>1, <1>2, <1>4, <2>1, Clients DEF BaseInv
    <3>. QED BY <3>2, <3>3, <3>4
             DEF RunInv, WritesBuffered, BuffersLogged, DecidedLeave, BegunRun
  <2>. QED BY <1>2, <2>1, <2>2, <2>3, <2>4, <2>5 DEF FirstRun
<1>. QED BY <1>6, <1>7, <1>8, <1>9

LEMMA StutterIInv == ASSUME IInv, UNCHANGED vars PROVE IInv'
<1>. USE DEF vars, store, clients, recovery
<1>1. TypeInv'
  BY StutterTypes DEF IInv
<1>2. BaseInv => BaseInv'
  <2>1. ModeInv => ModeInv'
    BY DEF ModeInv
  <2>2. CommittedIsStored => CommittedIsStored'
    BY DEF CommittedIsStored, BeingStored
  <2>3. ASSUME NEW t \in Txn, ClientInv(t) PROVE ClientInv(t)'
    BY <2>3 DEF ClientInv, Dirty, Holds
  <2>. QED BY <2>1, <2>2, <2>3 DEF BaseInv
<1>3. OpenInv => OpenInv'
  <2>1. OpenUp => OpenUp'
    BY OpenUpSame
  <2>. QED BY <2>1, SameFates DEF OpenInv, Open, Begins, Decides
<1>4. RunInv => RunInv'
  <2>1. Committed' = Committed /\ Decided' = Decided
    BY DEF Committed, Decided, Logged
  <2>. QED BY <2>1 DEF RunInv, WritesBuffered, BuffersLogged, DecidedLeave, BegunRun, Dirty,
                      LastWrite, IsWrite
<1>5. RecoveryInv => RecoveryInv'
  BY LogFixes DEF RecoveryInv, Holds, NextRedo, NextUndo
<1>. QED BY <1>1, <1>2, <1>3, <1>4, <1>5, GhostSame, PromiseSame, BeginSame
         DEF IInv, Fresh, FirstRun

LEMMA IInvStep == IInv /\ [Next]_vars => IInv'
<1>1. ASSUME IInv, Next PROVE IInv'
  <2>1. \/ \E t \in Txn : ClientStep(t)
        \/ Crash
        \/ StartRecovery \/ Redo \/ Undo \/ LogLoser \/ Serve
    BY <1>1 DEF Next, ClientStep
  <2>. QED BY <1>1, <2>1, ClientIInv, CrashIInv, RecoverIInv
<1>. QED BY <1>1, StutterIInv

LEMMA Invariance == Spec => []IInv
BY InitIInv, IInvStep, PTL DEF Spec

\* The log, the files, the clients and recovery stay of their types, however
\* often the node crashes.
THEOREM RecoveryTypesHold == Spec => []TypeOK
<1>1. IInv => TypeOK
  BY DEF IInv, TypeInv
<1>. QED BY <1>1, Invariance, PTL

\* Atomicity and durability (recover, _apply_writes): up to the second crash
\* of a running node, and however often recovery is cut short, the records of
\* a node that is up are what the transactions with a logged commit left.  A
\* record that was left with the value "" may be missing, since undo takes a
\* before_value "" for no record (recover); nothing else may.
THEOREM CommittedIsStoredHolds == Spec => [](failures <= 1 => CommittedIsStored)
<1>1. IInv => (failures <= 1 => CommittedIsStored)
  BY DEF IInv, BaseInv
<1>. QED BY <1>1, Invariance, PTL

LEMMA FatesAre ==
  ASSUME TypeOK, NEW i \in DOMAIN log, log[i].type = "BEGIN"
  PROVE  Fates(i) = {j \in DOMAIN log : Decides(log, i, j)}
<1>1. Len(log) \in Nat /\ DOMAIN log = 1 .. Len(log) /\ i \in Nat /\ 1 <= i
  BY DEF TypeOK
<1>2. \A j : j \in i + 1 .. Len(log) <=> j \in DOMAIN log /\ i < j
  BY <1>1
<1>3. ASSUME NEW j \in DOMAIN log, i < j
      PROVE  \A m : m \in i + 1 .. j <=> m \in DOMAIN log /\ i < m /\ m <= j
  BY <1>1, <1>3
<1>. QED BY <1>2, <1>3 DEF Fates, Decides

\* Up to the second crash of a running node no entry of the log takes back a
\* commit or an abort, and a node that is up has left no transaction of an
\* earlier run undecided (log_abort for every transaction still active).
THEOREM DecidedOnceHolds == Spec => [](failures <= 1 => DecidedOnce)
<1>1. ASSUME IInv, failures <= 1, NEW i \in DOMAIN log, log[i].type = "BEGIN"
      PROVE  /\ Cardinality(Fates(i)) <= 1
             /\ mode = "up" /\ Fates(i) = {} => status[log[i].txn] = "active"
  <2>1. Fates(i) = {j \in DOMAIN log : Decides(log, i, j)} /\ Begins(log, i) /\ OpenInv
    BY <1>1, FatesAre DEF IInv, TypeInv, Begins
  <2>2. \A j, m \in Fates(i) : j = m
    BY <2>1 DEF OpenInv, OneFate
  <2>3. Cardinality(Fates(i)) <= 1
    <3>1. CASE Fates(i) = {}
      BY <3>1, FS_EmptySet
    <3>2. CASE Fates(i) # {}
      <4>1. PICK j : Fates(i) = {j}
        BY <2>2, <3>2
      <4>2. Cardinality(Fates(i)) = 1
        BY <4>1, FS_Singleton
      <4>. QED BY <4>2
    <3>. QED BY <3>1, <3>2
  <2>4. Fates(i) = {} => Open(log, i)
    BY <2>1 DEF Open
  <2>. QED BY <2>1, <2>3, <2>4 DEF OpenInv, OpenUp
<1>2. IInv => (failures <= 1 => DecidedOnce)
  BY <1>1 DEF DecidedOnce
<1>. QED BY <1>2, Invariance, PTL

=============================================================================
