------------------------- MODULE Transactions_proof -------------------------
(***************************************************************************)
(* The lock table keeps its promises for every set of transactions and of  *)
(* resources; and on it rest the isolation and the atomicity of the        *)
(* transaction manager, nested or not, with timeouts or with the deadlock  *)
(* detector.  Without timeouts the detector aborts only who is blocked.    *)
(***************************************************************************)
EXTENDS Transactions, SequenceTheorems, FiniteSetTheorems, NaturalsInduction,
        WellFoundedInduction, TLAPS

(* The lock table.                                                         *)

LockShape ==
  /\ DOMAIN locks = Resource
  /\ \A r \in Resource : DOMAIN locks[r] = {"type", "holders", "queue"}
  /\ txnLocks \in [Txn -> SUBSET Resource]

LockInv == LockShape /\ LockCompatible /\ NoStrandedWaiter /\ IndexSound

\* What an entry must satisfy by itself.
GoodEntry(e) ==
  /\ DOMAIN e = {"type", "holders", "queue"}
  /\ e.type = "X" => \A t, u \in e.holders : t = u
  /\ e.queue # <<>> => e.holders # {}

\* Granting from a queue: an exclusive head is let in alone, and somebody is
\* let in whenever somebody waits.
LEMMA GrantWaitingGood ==
  ASSUME NEW q
  PROVE  GoodEntry(GrantWaiting(q))
<1>1. CASE q = <<>>
  BY <1>1 DEF GrantWaiting, FreeEntry, GoodEntry
<1>2. CASE q # <<>>
  <2>. DEFINE g == GrantWaiting(q)
  <2>1. /\ DOMAIN g = {"type", "holders", "queue"}
        /\ g.type = Head(q).mode
        /\ g.holders = {q[i].txn : i \in GrantedPrefix(q)}
    BY <1>2 DEF GrantWaiting
  <2>2. q[1].txn \in g.holders
    BY <2>1 DEF GrantedPrefix
  <2>3. ASSUME g.type = "X" PROVE \A t, u \in g.holders : t = u
    <3>1. q[1].mode = "X"
      BY <2>1, <2>3, <1>2
    <3>2. GrantedPrefix(q) = {1}
      BY <3>1 DEF GrantedPrefix
    <3>. QED BY <2>1, <3>2
  <2>. HIDE DEF g
  <2>. QED BY <2>1, <2>2, <2>3 DEF GoodEntry, g
<1>. QED BY <1>1, <1>2

\* Giving up a hold leaves the other holders in, and lets waiters in only
\* when there is no other holder.
LEMMA VacateGood ==
  ASSUME NEW e, NEW t, GoodEntry(e)
  PROVE  /\ GoodEntry(Vacate(e, t))
         /\ \A u \in e.holders : u # t => u \in Vacate(e, t).holders
         /\ ~ (e.holders \subseteq {t}) =>
              /\ Vacate(e, t).holders = e.holders \ {t}
              /\ Vacate(e, t).type = e.type
         /\ LetIn(e, t) \subseteq Vacate(e, t).holders
<1>1. CASE e.holders \subseteq {t}
  BY <1>1, GrantWaitingGood DEF Vacate, LetIn
<1>2. CASE ~ (e.holders \subseteq {t})
  BY <1>2 DEF Vacate, LetIn, GoodEntry
<1>. QED BY <1>1, <1>2

LEMMA InvEntries ==
  ASSUME LockInv, NEW r \in Resource
  PROVE  GoodEntry(locks[r])
BY DEF LockInv, LockShape, LockCompatible, NoStrandedWaiter, GoodEntry

\* The invariant is a property of each entry and of the index.
LEMMA InvFromEntries ==
  ASSUME DOMAIN locks' = Resource,
         \A r \in Resource : GoodEntry(locks'[r]),
         txnLocks' \in [Txn -> SUBSET Resource],
         \A t \in Txn : \A r \in txnLocks'[t] : t \in locks'[r].holders
  PROVE  LockInv'
BY DEF LockInv, LockShape, LockCompatible, NoStrandedWaiter, IndexSound, GoodEntry

LEMMA LockInitInv == LockInit => LockInv
BY DEF LockInit, LockInv, LockShape, LockCompatible, NoStrandedWaiter, IndexSound,
       FreeEntry

-----------------------------------------------------------------------------
(* One lemma per operation.                                                *)

LEMMA AcquireInv ==
  ASSUME LockInv, NEW t \in Txn, NEW r \in Resource, NEW m \in LockType, Acquire(t, r, m)
  PROVE  LockInv'
<1>1. CASE AcquireAgain(t, r, m)
  BY <1>1 DEF AcquireAgain, lockVars, LockInv, LockShape, LockCompatible,
              NoStrandedWaiter, IndexSound
<1>2. CASE AcquireNow(t, r, m)
  <2>1. GoodEntry(locks[r]) /\ DOMAIN locks = Resource
    BY InvEntries DEF LockInv, LockShape
  <2>2. /\ locks'[r] = Joined(locks[r], t, m)
        /\ DOMAIN locks' = Resource
        /\ \A s \in Resource : s # r => locks'[s] = locks[s]
    BY <1>2, <2>1 DEF AcquireNow
  <2>3. /\ locks'[r].holders = locks[r].holders \cup {t}
        /\ locks'[r].type = m
        /\ DOMAIN locks'[r] = {"type", "holders", "queue"}
        /\ locks'[r].queue = locks[r].queue
    BY <2>2, <2>1 DEF GoodEntry, Joined
  <2>4. GoodEntry(locks'[r])
    BY <1>2, <2>3 DEF AcquireNow, Compatible, GoodEntry
  <2>5. \A s \in Resource : GoodEntry(locks'[s])
    BY <2>2, <2>4, InvEntries
  <2>6. /\ txnLocks' \in [Txn -> SUBSET Resource]
        /\ \A u \in Txn : \A s \in txnLocks'[u] : u \in locks'[s].holders
    BY <1>2, <2>2, <2>3 DEF AcquireNow, LockInv, LockShape, IndexSound
  <2>. QED BY <2>2, <2>5, <2>6, InvFromEntries
<1>3. CASE AcquireQueued(t, r, m)
  <2>1. GoodEntry(locks[r]) /\ DOMAIN locks = Resource
    BY InvEntries DEF LockInv, LockShape
  <2>2. /\ locks'[r].holders = locks[r].holders
        /\ locks'[r].type = locks[r].type
        /\ DOMAIN locks'[r] = {"type", "holders", "queue"}
        /\ DOMAIN locks' = Resource
        /\ \A s \in Resource : s # r => locks'[s] = locks[s]
    BY <1>3, <2>1 DEF AcquireQueued, GoodEntry
  <2>3. locks[r].holders # {}
    BY <1>3 DEF AcquireQueued, Compatible
  <2>4. \A s \in Resource : GoodEntry(locks'[s])
    BY <2>1, <2>2, <2>3, InvEntries DEF GoodEntry
  <2>5. /\ txnLocks' \in [Txn -> SUBSET Resource]
        /\ \A u \in Txn : \A s \in txnLocks'[u] : u \in locks'[s].holders
    BY <1>3, <2>2 DEF AcquireQueued, LockInv, LockShape, IndexSound
  <2>. QED BY <2>2, <2>4, <2>5, InvFromEntries
<1>. QED BY <1>1, <1>2, <1>3 DEF Acquire, AcquireGranted

LEMMA ReleaseInv ==
  ASSUME LockInv, NEW t \in Txn, NEW r \in Resource, Release(t, r)
  PROVE  LockInv'
<1>1. /\ locks'[r] = Vacate(locks[r], t)
      /\ DOMAIN locks' = Resource
      /\ \A s \in Resource : s # r => locks'[s] = locks[s]
  BY DEF Release, LockInv, LockShape
<1>2. \A s \in Resource : GoodEntry(locks'[s])
  BY <1>1, InvEntries, VacateGood
<1>3. txnLocks' \in [Txn -> SUBSET Resource]
  BY DEF Release, LockInv, LockShape
<1>4. ASSUME NEW u \in Txn, NEW s \in txnLocks'[u] PROVE u \in locks'[s].holders
  <2>1. s \in Resource
    BY <1>3
  <2>2. CASE s = r /\ u \in LetIn(locks[r], t)
    BY <2>2, <1>1, InvEntries, VacateGood
  <2>3. CASE s \in txnLocks[u] /\ ~ (s = r /\ u = t)
    BY <2>1, <2>3, <1>1, InvEntries, VacateGood DEF LockInv, IndexSound
  <2>. QED BY <2>2, <2>3, <1>4 DEF Release
<1>. QED BY <1>1, <1>2, <1>3, <1>4, InvFromEntries

LEMMA ReleaseAllInv ==
  ASSUME LockInv, NEW t \in Txn, ReleaseAll(t)
  PROVE  LockInv'
<1>1. /\ DOMAIN locks' = Resource
      /\ \A s \in Resource :
           locks'[s] = IF s \in txnLocks[t] THEN Vacate(locks[s], t) ELSE locks[s]
  BY DEF ReleaseAll
<1>2. \A s \in Resource : GoodEntry(locks'[s])
  BY <1>1, InvEntries, VacateGood
<1>3. txnLocks' \in [Txn -> SUBSET Resource]
  BY DEF ReleaseAll, LockInv, LockShape
<1>4. ASSUME NEW u \in Txn, NEW s \in txnLocks'[u] PROVE u \in locks'[s].holders
  <2>1. s \in Resource /\ u # t
    BY <1>3, <1>4 DEF ReleaseAll
  <2>2. CASE s \in txnLocks[t] /\ u \in LetIn(locks[s], t)
    BY <2>1, <2>2, <1>1, InvEntries, VacateGood
  <2>3. CASE s \in txnLocks[u]
    BY <2>1, <2>3, <1>1, InvEntries, VacateGood DEF LockInv, IndexSound
  <2>. QED BY <2>1, <2>2, <2>3, <1>4 DEF ReleaseAll
<1>. QED BY <1>1, <1>2, <1>3, <1>4, InvFromEntries

LEMMA TransferInv ==
  ASSUME LockInv, NEW from \in Txn, NEW to \in Txn, from # to, TransferLocks(from, to)
  PROVE  LockInv'
<1>. DEFINE moved == {r \in txnLocks[from] : from \in locks[r].holders}
<1>1. /\ DOMAIN locks' = Resource
      /\ \A s \in Resource :
           locks'[s] = IF s \in moved
                       THEN [locks[s] EXCEPT !.holders = (@ \ {from}) \cup {to}]
                       ELSE locks[s]
      /\ txnLocks' = [u \in Txn |-> CASE u = from -> {}
                                      [] u = to -> txnLocks[u] \cup moved
                                      [] OTHER -> txnLocks[u]]
  BY DEF TransferLocks
<1>2. ASSUME NEW s \in Resource PROVE GoodEntry(locks'[s])
  <2>1. GoodEntry(locks[s])
    BY InvEntries
  <2>2. CASE s \in moved
    BY <2>1, <2>2, <1>1 DEF GoodEntry
  <2>. QED BY <2>1, <2>2, <1>1
<1>3. moved \subseteq Resource /\ txnLocks \in [Txn -> SUBSET Resource]
  BY DEF LockInv, LockShape
<1>4. txnLocks' \in [Txn -> SUBSET Resource]
  BY <1>1, <1>3
<1>5. ASSUME NEW u \in Txn, NEW s \in txnLocks'[u] PROVE u \in locks'[s].holders
  <2>1. s \in Resource /\ GoodEntry(locks[s])
    BY <1>4, InvEntries
  <2>2. u # from
    BY <1>1, <1>3, <1>5
  <2>3. CASE s \in moved
    <3>1. u = to \/ u \in locks[s].holders
      BY <1>1, <1>3, <1>5, <2>2 DEF LockInv, IndexSound
    <3>. QED BY <3>1, <2>1, <2>2, <2>3, <1>1 DEF GoodEntry
  <2>4. CASE s \notin moved
    <3>1. s \in txnLocks[u]
      BY <2>2, <2>4, <1>1, <1>3, <1>5
    <3>. QED BY <3>1, <2>1, <2>4, <1>1 DEF LockInv, IndexSound
  <2>. QED BY <2>3, <2>4
<1>. QED BY <1>1, <1>2, <1>4, <1>5, InvFromEntries

LEMMA UpgradeInv ==
  ASSUME LockInv, NEW t \in Txn, NEW r \in Resource, UpgradeGranted(t, r)
  PROVE  LockInv'
<1>1. GoodEntry(locks[r]) /\ DOMAIN locks = Resource
  BY InvEntries DEF LockInv, LockShape
<1>2. /\ locks'[r].holders = locks[r].holders
      /\ locks'[r].type = "X"
      /\ locks'[r].queue = locks[r].queue
      /\ DOMAIN locks'[r] = {"type", "holders", "queue"}
      /\ DOMAIN locks' = Resource
      /\ \A s \in Resource : s # r => locks'[s] = locks[s]
  BY <1>1 DEF UpgradeGranted, GoodEntry
<1>3. GoodEntry(locks'[r])
  BY <1>1, <1>2 DEF UpgradeGranted, CanUpgrade, GoodEntry
<1>4. \A s \in Resource : GoodEntry(locks'[s])
  BY <1>2, <1>3, InvEntries
<1>5. /\ txnLocks' \in [Txn -> SUBSET Resource]
      /\ \A u \in Txn : \A s \in txnLocks'[u] : u \in locks'[s].holders
  BY <1>2 DEF UpgradeGranted, CanUpgrade, LockInv, LockShape, IndexSound
<1>. QED BY <1>2, <1>4, <1>5, InvFromEntries

\* Every operation of the lock table keeps the invariant.
LEMMA LockStep ==
  ASSUME LockInv, [LockNext]_lockVars
  PROVE  LockInv'
<1>1. CASE UNCHANGED lockVars
  BY <1>1 DEF lockVars, LockInv, LockShape, LockCompatible, NoStrandedWaiter, IndexSound
<1>2. CASE LockNext
  BY <1>2, AcquireInv, ReleaseInv, ReleaseAllInv, TransferInv, UpgradeInv DEF LockNext
<1>. QED BY <1>1, <1>2

LEMMA LockInvAlways == LockSpec => []LockInv
<1>1. LockInv /\ [LockNext]_lockVars => LockInv'
  BY LockStep
<1>. QED BY <1>1, LockInitInv, PTL DEF LockSpec

\* An exclusively locked resource never has two holders.
THEOREM LockCompatibleAlways == LockSpec => []LockCompatible
<1>1. LockInv => LockCompatible
  BY DEF LockInv
<1>. QED BY <1>1, LockInvAlways, PTL

\* A request waits only for a resource that somebody holds.
THEOREM NoStrandedWaiterAlways == LockSpec => []NoStrandedWaiter
<1>1. LockInv => NoStrandedWaiter
  BY DEF LockInv
<1>. QED BY <1>1, LockInvAlways, PTL

\* release_all gives back only locks that its transaction holds.
THEOREM IndexSoundAlways == LockSpec => []IndexSound
<1>1. LockInv => IndexSound
  BY DEF LockInv
<1>. QED BY <1>1, LockInvAlways, PTL

-----------------------------------------------------------------------------
(* Counting places: what GrantWaiting does to a queue.                     *)

\* Every nonempty set of naturals has a least element.
LEMMA Least ==
  ASSUME NEW T \in SUBSET Nat, T # {}
  PROVE  \E x \in T : \A y \in T : x <= y
<1>. DEFINE R == OpToRel(<, Nat)
<1>1. IsWellFoundedOn(R, Nat)
  BY NatLessThanWellFounded
<1>2. ASSUME NEW x \in Nat, NEW y \in Nat PROVE <<x, y>> \in R <=> x < y
  BY DEF OpToRel
<1>. HIDE DEF R
<1>3. \E x \in T : \A y \in T : ~ (<<y, x>> \in R)
  BY <1>1, WFMin
<1>4. PICK x \in T : \A y \in T : ~ (<<y, x>> \in R)
  BY <1>3
<1>5. ASSUME NEW y \in T PROVE x <= y
  <2>1. ~ (y < x)
    BY <1>2, <1>4
  <2>. QED BY <2>1
<1>. QED BY <1>5

UpTo(S, i) == {j \in S : j <= i}

\* Of a finite set of naturals, the n-th is there and only one.
LEMMA NthIs ==
  ASSUME NEW S \in SUBSET Nat, IsFiniteSet(S), NEW n \in 1 .. Cardinality(S)
  PROVE  Nth(S, n) \in S /\ Cardinality(UpTo(S, Nth(S, n))) = n
<1>1. Cardinality(S) \in Nat /\ \A i : IsFiniteSet(UpTo(S, i))
  BY FS_CardinalityType, FS_Subset DEF UpTo
<1>. DEFINE T == {m \in 1 .. Cardinality(S) : \A i \in S : Cardinality(UpTo(S, i)) # m}
<1>2. ASSUME T # {} PROVE FALSE
  <2>1. T \in SUBSET Nat
    BY <1>1
  <2>. HIDE DEF T
  <2>2. PICK m \in T : \A y \in T : m <= y
    BY <1>2, <2>1, Least
  <2>3. /\ m \in 1 .. Cardinality(S) /\ m \in Nat /\ m >= 1 /\ m <= Cardinality(S)
        /\ \A i \in S : Cardinality(UpTo(S, i)) # m
    BY <1>1 DEF T
  <2>4. CASE m = 1
    <3>1. S # {}
      BY <2>3, FS_EmptySet
    <3>2. PICK i \in S : \A y \in S : i <= y
      BY <3>1, Least
    <3>3. i \in Nat /\ \A j \in S : j \in Nat
      BY <3>2
    <3>4. ASSUME NEW j PROVE j \in UpTo(S, i) <=> j = i
      <4>1. j \in UpTo(S, i) <=> j \in S /\ j <= i
        BY DEF UpTo
      <4>2. j \in S => j \in Nat /\ i <= j
        BY <3>2, <3>3
      <4>3. i \in S /\ i <= i
        BY <3>3
      <4>. QED BY <3>3, <4>1, <4>2, <4>3
    <3>5. UpTo(S, i) = {i}
      BY <3>4
    <3>. QED BY <2>3, <2>4, <3>5, FS_Singleton
  <2>5. CASE m # 1
    <3>1. m - 1 \in 1 .. Cardinality(S) /\ m - 1 \in Nat /\ ~ (m <= m - 1)
      BY <1>1, <2>3, <2>5
    <3>2. m - 1 \notin T
      BY <2>2, <3>1
    <3>3. PICK i \in S : Cardinality(UpTo(S, i)) = m - 1
      BY <3>1, <3>2 DEF T
    <3>. DEFINE U == {j \in S : i < j}
    <3>4. U # {}
      <4>1. ASSUME U = {} PROVE UpTo(S, i) = S
        <5>1. i \in Nat /\ \A j \in S : j \in Nat /\ ~ (i < j)
          BY <3>3, <4>1
        <5>2. \A j \in S : j <= i
          BY <5>1
        <5>. QED BY <5>2 DEF UpTo
      <4>2. Cardinality(S) # m - 1
        <5>1. m - 1 < m
          BY <2>3
        <5>. QED BY <1>1, <2>3, <5>1
      <4>. QED BY <3>3, <4>1, <4>2
    <3>5. U \in SUBSET Nat
      OBVIOUS
    <3>6. PICK k \in U : \A y \in U : k <= y
      BY <3>4, <3>5, Least
    <3>7. UpTo(S, k) = UpTo(S, i) \cup {k} /\ k \notin UpTo(S, i)
      <4>1. i \in Nat /\ k \in Nat /\ k \in S /\ i < k /\ \A j \in S : j \in Nat
        BY <3>3, <3>5, <3>6
      <4>2. \A j \in S : i < j => k <= j
        BY <3>6
      <4>3. \A j \in S : j <= k <=> (j <= i \/ j = k)
        BY <4>1, <4>2
      <4>4. ~ (k <= i)
        BY <4>1
      <4>5. \A j : j \in UpTo(S, k) <=> j \in UpTo(S, i) \/ j = k
        BY <4>1, <4>3 DEF UpTo
      <4>6. UpTo(S, k) = UpTo(S, i) \cup {k}
        BY <4>5
      <4>7. k \notin UpTo(S, i)
        BY <4>4 DEF UpTo
      <4>. QED BY <4>6, <4>7
    <3>8. Cardinality(UpTo(S, k)) = m - 1 + 1
      <4>1. /\ IsFiniteSet(UpTo(S, i))
            /\ Cardinality(UpTo(S, i) \cup {k}) = Cardinality(UpTo(S, i)) + 1
        BY <1>1, <3>7, FS_AddElement
      <4>. QED BY <3>3, <3>7, <4>1
    <3>9. m - 1 + 1 = m
      BY <2>3
    <3>. QED BY <2>3, <3>6, <3>8, <3>9
  <2>. QED BY <2>4, <2>5
<1>3. \E i \in S : Cardinality(UpTo(S, i)) = n
  BY <1>2
<1>. QED BY <1>3 DEF Nth, UpTo

LEMMA NthOf ==
  ASSUME NEW S \in SUBSET Nat, IsFiniteSet(S), NEW i \in S
  PROVE  \E n \in 1 .. Cardinality(S) : Nth(S, n) = i
<1>1. /\ Cardinality(S) \in Nat /\ \A j : IsFiniteSet(UpTo(S, j))
      /\ \A j : Cardinality(UpTo(S, j)) \in Nat
  BY FS_CardinalityType, FS_Subset DEF UpTo
<1>. DEFINE n == Cardinality(UpTo(S, i))
<1>2. n \in 1 .. Cardinality(S)
  <2>1. UpTo(S, i) \subseteq S /\ UpTo(S, i) # {}
    BY DEF UpTo
  <2>2. n <= Cardinality(S) /\ n # 0
    BY <1>1, <2>1, FS_Subset, FS_EmptySet
  <2>. QED BY <1>1, <2>2
<1>3. ASSUME NEW j \in S, NEW k \in S, j < k
      PROVE  Cardinality(UpTo(S, j)) < Cardinality(UpTo(S, k))
  <2>0. /\ j \in Nat /\ k \in Nat /\ ~ (k <= j) /\ k <= k
        /\ \A x \in S : x \in Nat
    BY <1>3
  <2>a. \A x \in S : x <= j => x <= k
    BY <1>3, <2>0
  <2>b. k \notin UpTo(S, j) /\ k \in UpTo(S, k)
    BY <2>0 DEF UpTo
  <2>c. \A x \in UpTo(S, j) : x \in UpTo(S, k)
    BY <2>a DEF UpTo
  <2>1. UpTo(S, j) \cup {k} \subseteq UpTo(S, k) /\ k \notin UpTo(S, j)
    BY <2>b, <2>c
  <2>2. Cardinality(UpTo(S, j) \cup {k}) = Cardinality(UpTo(S, j)) + 1
    BY <1>1, <2>1, FS_AddElement
  <2>3. Cardinality(UpTo(S, j) \cup {k}) <= Cardinality(UpTo(S, k))
    BY <1>1, <2>1, FS_Subset
  <2>. QED BY <1>1, <2>2, <2>3
<1>. HIDE DEF n
<1>4. Nth(S, n) \in S /\ Cardinality(UpTo(S, Nth(S, n))) = n
  BY <1>2, NthIs
<1>. DEFINE k == Nth(S, n)
<1>. HIDE DEF k
<1>5. k \in S /\ k \in Nat /\ i \in Nat /\ Cardinality(UpTo(S, k)) = n /\ n \in Nat
  BY <1>1, <1>2, <1>4 DEF k
<1>6. ~ (k < i) /\ ~ (i < k)
  <2>1. Cardinality(UpTo(S, i)) = n /\ ~ (n < n)
    BY <1>5 DEF n
  <2>. QED BY <1>3, <1>5, <2>1
<1>7. k = i
  BY <1>5, <1>6
<1>. QED BY <1>2, <1>7 DEF k

\* q2 is what is left of q when it loses the requests at the places in out.
Thinned(q2, q, out) ==
  \E f \in [DOMAIN q2 -> DOMAIN q \ out] :
    /\ \A m, n \in DOMAIN q2 : f[m] = f[n] => m = n
    /\ \A n \in DOMAIN q2 : q2[n] = q[f[n]]

LEMMA PickedIs ==
  ASSUME NEW A, NEW q \in Seq(A), NEW S \in SUBSET DOMAIN q
  PROVE  /\ Picked(q, S) \in Seq(A)
         /\ Thinned(Picked(q, S), q, {})
         /\ \A i \in S : \E n \in DOMAIN Picked(q, S) : Picked(q, S)[n] = q[i]
<1>1. Len(q) \in Nat /\ DOMAIN q = 1 .. Len(q)
  OBVIOUS
<1>2. S \in SUBSET Nat /\ IsFiniteSet(S) /\ Cardinality(S) \in Nat
  <2>1. IsFiniteSet(1 .. Len(q))
    BY <1>1, FS_Interval
  <2>. QED BY <1>1, <2>1, FS_Subset, FS_CardinalityType
<1>. DEFINE p == Picked(q, S)
<1>3. /\ DOMAIN p = 1 .. Cardinality(S)
      /\ \A n \in DOMAIN p : p[n] = q[Nth(S, n)]
  BY DEF Picked
<1>4. \A n \in DOMAIN p : Nth(S, n) \in S /\ Cardinality(UpTo(S, Nth(S, n))) = n
  BY <1>2, <1>3, NthIs
<1>5. \A n \in 1 .. Cardinality(S) : q[Nth(S, n)] \in A
  BY <1>1, <1>3, <1>4
<1>6. p \in Seq(A)
  <2>1. [n \in 1 .. Cardinality(S) |-> q[Nth(S, n)]] \in [1 .. Cardinality(S) -> A]
    BY <1>5
  <2>. QED BY <1>2, <2>1 DEF Picked
<1>7. Thinned(p, q, {})
  <2>. DEFINE f == [n \in DOMAIN p |-> Nth(S, n)]
  <2>1. f \in [DOMAIN p -> DOMAIN q \ {}]
    BY <1>4
  <2>2. \A m, n \in DOMAIN p : f[m] = f[n] => m = n
    BY <1>4
  <2>3. \A n \in DOMAIN p : p[n] = q[f[n]]
    BY <1>3
  <2>. HIDE DEF f, p
  <2>. QED BY <2>1, <2>2, <2>3 DEF Thinned
<1>8. ASSUME NEW i \in S PROVE \E n \in DOMAIN p : p[n] = q[i]
  BY <1>2, <1>3, NthOf
<1>. QED BY <1>6, <1>7, <1>8

\* The granted requests are the first of the queue.
LEMMA PrefixIs ==
  ASSUME NEW q \in Seq(WaitEntry), q # <<>>
  PROVE  /\ Cardinality(GrantedPrefix(q)) \in 1 .. Len(q)
         /\ GrantedPrefix(q) = 1 .. Cardinality(GrantedPrefix(q))
<1>1. Len(q) \in Nat /\ DOMAIN q = 1 .. Len(q) /\ Len(q) >= 1
  OBVIOUS
<1>. DEFINE G == GrantedPrefix(q)
            T == {i \in Nat \ {0} : i \notin G}
<1>2. G \subseteq 1 .. Len(q) /\ 1 \in G
  BY <1>1 DEF GrantedPrefix
<1>3. \A i \in G, j \in Nat : 1 <= j /\ j <= i => j \in G
  BY <1>1 DEF GrantedPrefix
<1>. HIDE DEF G
<1>4. Len(q) + 1 \in T
  BY <1>1, <1>2
<1>5. PICK m \in T : \A y \in T : m <= y
  <2>1. T \in SUBSET Nat /\ T # {}
    BY <1>4
  <2>. QED BY <2>1, Least
<1>6. m \in Nat /\ 2 <= m /\ m <= Len(q) + 1
  BY <1>1, <1>2, <1>4, <1>5
<1>7. G = 1 .. m - 1
  <2>1. \A i \in 1 .. m - 1 : i \in G
    BY <1>5, <1>6
  <2>2. ASSUME NEW i \in G, ~ (i <= m - 1) PROVE FALSE
    <3>1. i \in Nat /\ m <= i
      BY <1>1, <1>2, <1>6, <2>2
    <3>. QED BY <1>3, <1>5, <1>6, <3>1
  <2>3. \A i \in G : i \in 1 .. m - 1
    BY <1>1, <1>2, <1>6, <2>2
  <2>. QED BY <2>1, <2>3
<1>8. Cardinality(1 .. m - 1) = m - 1
  <2>1. 1 \in Int /\ m - 1 \in Int
    BY <1>6
  <2>2. Cardinality(1 .. m - 1) = IF 1 > m - 1 THEN 0 ELSE m - 1 - 1 + 1
    BY <2>1, FS_Interval
  <2>. QED BY <1>6, <2>2
<1>. QED BY <1>1, <1>6, <1>7, <1>8 DEF G

EntryOK(e) ==
  /\ e \in [type : LockType \cup {"None"}, holders : SUBSET Txn, queue : Seq(WaitEntry)]
  /\ e.type = "None" <=> e.holders = {}

\* Granting from a queue: who is let in leaves the queue, and nobody else does.
LEMMA GrantWaitingIs ==
  ASSUME NEW q \in Seq(WaitEntry)
  PROVE  /\ EntryOK(GrantWaiting(q))
         /\ q # <<>> => Thinned(GrantWaiting(q).queue, q, GrantedPrefix(q))
         /\ \A i \in DOMAIN q :
              \/ q[i].txn \in GrantWaiting(q).holders
              \/ \E n \in DOMAIN GrantWaiting(q).queue :
                   GrantWaiting(q).queue[n].txn = q[i].txn
<1>1. CASE q = <<>>
  BY <1>1 DEF GrantWaiting, FreeEntry, EntryOK
<1>2. CASE q # <<>>
  <2>. DEFINE c == Cardinality(GrantedPrefix(q))
              granted == {q[i].txn : i \in GrantedPrefix(q)}
              rest == SubSeq(q, c + 1, Len(q))
              S == {i \in DOMAIN rest :
                      /\ rest[i].txn \notin granted
                      /\ \A j \in DOMAIN rest : rest[j].txn = rest[i].txn => i <= j}
              left == IF Head(q).mode = "S" THEN DropServed(rest, granted) ELSE rest
  <2>1. GrantWaiting(q) = [type |-> Head(q).mode, holders |-> granted, queue |-> left]
    BY <1>2 DEF GrantWaiting
  <2>2. /\ c \in 1 .. Len(q) /\ GrantedPrefix(q) = 1 .. c
        /\ Len(q) \in Nat /\ DOMAIN q = 1 .. Len(q)
    BY <1>2, PrefixIs
  <2>. HIDE DEF c
  <2>3. /\ rest \in Seq(WaitEntry) /\ Len(rest) = Len(q) - c
        /\ \A i \in 1 .. Len(q) - c : rest[i] = q[i + c]
    <3>1. /\ c \in Nat /\ c + 1 \in Int /\ Len(q) \in Int
          /\ Len(q) - c \in Nat
          /\ \A i \in c + 1 .. Len(q) : q[i] \in WaitEntry
      BY <2>2
    <3>2. /\ rest \in Seq(WaitEntry)
          /\ Len(rest) = IF c + 1 <= Len(q) THEN Len(q) - (c + 1) + 1 ELSE 0
          /\ \A i \in 1 .. Len(q) - (c + 1) + 1 : rest[i] = q[c + 1 + i - 1]
      BY <3>1, SubSeqProperties
    <3>3. /\ Len(q) - (c + 1) + 1 = Len(q) - c
          /\ ~ (c + 1 <= Len(q)) => Len(q) - c = 0
      <4>. DEFINE k == Len(q)
      <4>1. c \in Nat /\ k \in Int /\ c <= k
        BY <2>2, <3>1
      <4>. HIDE DEF k
      <4>2. /\ k - (c + 1) + 1 = k - c
            /\ ~ (c + 1 <= k) => k - c = 0
        BY <4>1
      <4>. QED BY <4>2 DEF k
    <3>4. \A i \in 1 .. Len(q) - c : c + 1 + i - 1 = i + c
      BY <3>1
    <3>5. Len(rest) = Len(q) - c
      BY <3>2, <3>3
    <3>. QED BY <3>2, <3>3, <3>4, <3>5
  <2>4. DOMAIN rest = 1 .. Len(q) - c
    BY <2>3
  <2>5. Head(q).mode \in LockType /\ \A i \in DOMAIN q : q[i].txn \in Txn
    <3>1. Head(q) = q[1] /\ 1 \in DOMAIN q
      BY <1>2, <2>2
    <3>2. \A i \in DOMAIN q : q[i] \in WaitEntry
      BY <2>2
    <3>3. \A e \in WaitEntry : e.mode \in LockType /\ e.txn \in Txn
      BY DEF WaitEntry
    <3>. QED BY <3>1, <3>2, <3>3
  <2>6. granted \in SUBSET Txn /\ granted # {}
    BY <2>2, <2>5
  <2>. HIDE DEF rest, granted
  <2>7. S \in SUBSET DOMAIN rest
    OBVIOUS
  <2>8. DropServed(rest, granted) = Picked(rest, S)
    BY DEF DropServed
  <2>9. left \in Seq(WaitEntry) /\ Thinned(left, rest, {})
    <3>1. Thinned(rest, rest, {})
      <4>. DEFINE f == [n \in DOMAIN rest |-> n]
      <4>1. f \in [DOMAIN rest -> DOMAIN rest \ {}]
        OBVIOUS
      <4>2. (\A m, n \in DOMAIN rest : f[m] = f[n] => m = n)
            /\ \A n \in DOMAIN rest : rest[n] = rest[f[n]]
        OBVIOUS
      <4>. HIDE DEF f
      <4>. QED BY <4>1, <4>2 DEF Thinned
    <3>2. Picked(rest, S) \in Seq(WaitEntry) /\ Thinned(Picked(rest, S), rest, {})
      BY <2>3, <2>7, PickedIs
    <3>. QED BY <2>3, <2>8, <3>1, <3>2
  <2>10. EntryOK(GrantWaiting(q))
    <3>1. Head(q).mode # "None"
      BY <2>5 DEF LockType
    <3>. QED BY <2>1, <2>5, <2>6, <2>9, <3>1 DEF EntryOK
  <2>11. Thinned(left, q, GrantedPrefix(q))
    <3>1. PICK f \in [DOMAIN left -> DOMAIN rest \ {}] :
            /\ \A m, n \in DOMAIN left : f[m] = f[n] => m = n
            /\ \A n \in DOMAIN left : left[n] = rest[f[n]]
      BY <2>9 DEF Thinned
    <3>. DEFINE g == [n \in DOMAIN left |-> f[n] + c]
    <3>2. ASSUME NEW n \in DOMAIN left
          PROVE  /\ f[n] \in 1 .. Len(q) - c /\ f[n] \in Nat
                 /\ g[n] \in DOMAIN q \ GrantedPrefix(q) /\ g[n] = f[n] + c
      BY <2>2, <2>4
    <3>3. ASSUME NEW m \in DOMAIN left, NEW n \in DOMAIN left, g[m] = g[n]
          PROVE  m = n
      <4>1. /\ f[m] \in Nat /\ f[n] \in Nat /\ c \in Nat
            /\ f[m] + c = f[n] + c
        <5>1. g[m] = f[m] + c /\ g[n] = f[n] + c /\ f[m] \in Nat /\ f[n] \in Nat
          BY <3>2
        <5>. QED BY <2>2, <3>3, <5>1
      <4>2. f[m] = f[n]
        BY <4>1
      <4>. QED BY <3>1, <4>2
    <3>4. \A n \in DOMAIN left : left[n] = q[g[n]]
      BY <2>3, <3>1, <3>2
    <3>5. g \in [DOMAIN left -> DOMAIN q \ GrantedPrefix(q)]
      BY <3>2
    <3>. HIDE DEF g
    <3>. QED BY <3>3, <3>4, <3>5 DEF Thinned
  <2>12. ASSUME NEW i \in DOMAIN q, q[i].txn \notin granted
         PROVE  \E n \in DOMAIN left : left[n].txn = q[i].txn
    <3>1. i \notin GrantedPrefix(q)
      BY <2>12 DEF granted
    <3>2. i - c \in DOMAIN rest /\ rest[i - c] = q[i]
      BY <2>2, <2>3, <2>4, <3>1
    <3>3. CASE left = rest
      BY <3>2, <3>3
    <3>4. CASE left = Picked(rest, S)
      <4>. DEFINE U == {j \in DOMAIN rest : rest[j].txn = q[i].txn}
      <4>1. U \in SUBSET Nat /\ U # {}
        BY <2>2, <2>4, <3>2
      <4>2. PICK m \in U : \A j \in U : m <= j
        BY <4>1, Least
      <4>3. m \in S
        BY <2>12, <4>2
      <4>4. \E n \in DOMAIN Picked(rest, S) : Picked(rest, S)[n] = rest[m]
        BY <2>3, <2>7, <4>3, PickedIs
      <4>. QED BY <3>4, <4>2, <4>4
    <3>. QED BY <2>8, <3>3, <3>4
  <2>. HIDE DEF left
  <2>. QED BY <2>1, <2>10, <2>11, <2>12
<1>. QED BY <1>1, <1>2

-----------------------------------------------------------------------------
(* Types and queues, entry by entry.                                       *)

Waits(e, t) == \E i \in DOMAIN e.queue : e.queue[i].txn = t

\* Whoever waits at e and no longer waits at e2 holds e2.
OnlyAsHolders(e, e2) == \A t \in Txn : Waits(e, t) /\ ~ Waits(e2, t) => t \in e2.holders

EntryStep(e, e2) == EntryOK(e2) /\ OnlyAsHolders(e, e2)

LEMMA SameQueue ==
  ASSUME NEW e, NEW e2, e2.queue = e.queue
  PROVE  OnlyAsHolders(e, e2)
BY DEF OnlyAsHolders, Waits

LEMMA VacateStep ==
  ASSUME NEW e, EntryOK(e), NEW t \in Txn
  PROVE  EntryStep(e, Vacate(e, t))
<1>1. CASE e.holders \subseteq {t}
  <2>1. Vacate(e, t) = GrantWaiting(e.queue)
    BY <1>1 DEF Vacate
  <2>2. e.queue \in Seq(WaitEntry)
    BY DEF EntryOK
  <2>3. OnlyAsHolders(e, GrantWaiting(e.queue))
    BY <2>2, GrantWaitingIs DEF OnlyAsHolders, Waits
  <2>. QED BY <2>1, <2>2, <2>3, GrantWaitingIs DEF EntryStep
<1>2. CASE ~ (e.holders \subseteq {t})
  <2>. DEFINE e2 == [e EXCEPT !.holders = @ \ {t}]
  <2>1. Vacate(e, t) = e2
    BY <1>2 DEF Vacate
  <2>2. /\ e2 \in [type : LockType \cup {"None"}, holders : SUBSET Txn, queue : Seq(WaitEntry)]
        /\ e2.type = e.type /\ e2.holders = e.holders \ {t} /\ e2.queue = e.queue
    BY DEF EntryOK
  <2>3. EntryOK(e2)
    BY <1>2, <2>2 DEF EntryOK
  <2>. QED BY <2>1, <2>2, <2>3, SameQueue DEF EntryStep
<1>. QED BY <1>1, <1>2

LEMMA JoinedStep ==
  ASSUME NEW e, EntryOK(e), NEW t \in Txn, NEW m \in LockType
  PROVE  EntryStep(e, Joined(e, t, m))
<1>1. /\ Joined(e, t, m) \in [type : LockType \cup {"None"}, holders : SUBSET Txn,
                              queue : Seq(WaitEntry)]
      /\ Joined(e, t, m).type = m /\ t \in Joined(e, t, m).holders
      /\ Joined(e, t, m).queue = e.queue
  BY DEF EntryOK, Joined
<1>2. m # "None"
  BY DEF LockType
<1>. QED BY <1>1, <1>2, SameQueue DEF EntryOK, EntryStep

LEMMA QueuedStep ==
  ASSUME NEW e, EntryOK(e), NEW w \in WaitEntry
  PROVE  EntryStep(e, [e EXCEPT !.queue = Append(@, w)])
<1>. DEFINE e2 == [e EXCEPT !.queue = Append(@, w)]
<1>1. /\ e.queue \in Seq(WaitEntry) /\ Append(e.queue, w) \in Seq(WaitEntry)
      /\ DOMAIN e.queue \subseteq DOMAIN Append(e.queue, w)
      /\ \A i \in DOMAIN e.queue : Append(e.queue, w)[i] = e.queue[i]
  BY DEF EntryOK
<1>2. /\ e2 \in [type : LockType \cup {"None"}, holders : SUBSET Txn, queue : Seq(WaitEntry)]
      /\ e2.type = e.type /\ e2.holders = e.holders /\ e2.queue = Append(e.queue, w)
  BY <1>1 DEF EntryOK
<1>3. EntryOK(e2)
  BY <1>2 DEF EntryOK
<1>4. OnlyAsHolders(e, e2)
  BY <1>1, <1>2 DEF OnlyAsHolders, Waits
<1>. QED BY <1>3, <1>4 DEF EntryStep

LEMMA MovedStep ==
  ASSUME NEW e, EntryOK(e), NEW from \in e.holders, NEW to \in Txn
  PROVE  EntryStep(e, [e EXCEPT !.holders = (@ \ {from}) \cup {to}])
<1>. DEFINE e2 == [e EXCEPT !.holders = (@ \ {from}) \cup {to}]
<1>1. /\ e2 \in [type : LockType \cup {"None"}, holders : SUBSET Txn, queue : Seq(WaitEntry)]
      /\ e2.type = e.type /\ to \in e2.holders /\ e2.queue = e.queue
      /\ e.type # "None"
  BY DEF EntryOK
<1>2. EntryOK(e2)
  BY <1>1 DEF EntryOK
<1>. QED BY <1>1, <1>2, SameQueue DEF EntryStep

LEMMA UpgradedStep ==
  ASSUME NEW e, EntryOK(e), e.holders # {}
  PROVE  EntryStep(e, [e EXCEPT !.type = "X"])
<1>. DEFINE e2 == [e EXCEPT !.type = "X"]
<1>1. /\ e2 \in [type : LockType \cup {"None"}, holders : SUBSET Txn, queue : Seq(WaitEntry)]
      /\ e2.type = "X" /\ e2.holders = e.holders /\ e2.queue = e.queue
  BY DEF EntryOK, LockType
<1>2. EntryOK(e2)
  BY <1>1 DEF EntryOK
<1>. QED BY <1>1, <1>2, SameQueue DEF EntryStep

LEMMA TypedEntries ==
  LockTypeOK <=> /\ locks = [r \in Resource |-> locks[r]]
                 /\ txnLocks \in [Txn -> SUBSET Resource]
                 /\ \A r \in Resource : EntryOK(locks[r])
<1>. DEFINE E == [type : LockType \cup {"None"}, holders : SUBSET Txn, queue : Seq(WaitEntry)]
<1>1. locks \in [Resource -> E] <=>
        locks = [r \in Resource |-> locks[r]] /\ \A r \in Resource : locks[r] \in E
  OBVIOUS
<1>2. LockTypeOK <=>
        /\ locks \in [Resource -> E] /\ txnLocks \in [Txn -> SUBSET Resource]
        /\ \A r \in Resource : locks[r].type = "None" <=> locks[r].holders = {}
  BY DEF LockTypeOK
<1>3. (\A r \in Resource : EntryOK(locks[r])) <=>
        /\ \A r \in Resource : locks[r] \in E
        /\ \A r \in Resource : locks[r].type = "None" <=> locks[r].holders = {}
  BY DEF EntryOK
<1>. HIDE DEF E
<1>. QED BY <1>1, <1>2, <1>3

\* Every entry is left as it was or takes a step of an entry.
TypedStep ==
  /\ locks' = [r \in Resource |-> locks'[r]]
  /\ txnLocks' \in [Txn -> SUBSET Resource]
  /\ \A r \in Resource : locks'[r] = locks[r] \/ EntryStep(locks[r], locks'[r])

LEMMA AcquireTyped ==
  ASSUME LockTypeOK, NEW t \in Txn, NEW r \in Resource, NEW m \in LockType, Acquire(t, r, m)
  PROVE  TypedStep
<1>1. /\ locks = [s \in Resource |-> locks[s]] /\ txnLocks \in [Txn -> SUBSET Resource]
      /\ EntryOK(locks[r])
  BY TypedEntries
<1>2. CASE AcquireAgain(t, r, m)
  BY <1>1, <1>2 DEF AcquireAgain, lockVars, TypedStep
<1>3. CASE AcquireNow(t, r, m)
  <2>1. EntryStep(locks[r], Joined(locks[r], t, m))
    BY <1>1, JoinedStep
  <2>2. /\ locks' = [s \in Resource |-> locks'[s]]
        /\ \A s \in Resource :
             locks'[s] = IF s = r THEN Joined(locks[r], t, m) ELSE locks[s]
    BY <1>1, <1>3 DEF AcquireNow
  <2>3. txnLocks' \in [Txn -> SUBSET Resource]
    BY <1>1, <1>3 DEF AcquireNow
  <2>. QED BY <2>1, <2>2, <2>3 DEF TypedStep
<1>4. CASE AcquireQueued(t, r, m)
  <2>. DEFINE w == [txn |-> t, mode |-> m]
              e2 == [locks[r] EXCEPT !.queue = Append(@, w)]
  <2>1. w \in WaitEntry
    BY DEF WaitEntry
  <2>2. EntryStep(locks[r], e2)
    BY <1>1, <2>1, QueuedStep
  <2>3. locks' = locks \/ locks' = [locks EXCEPT ![r] = e2]
    BY <1>4 DEF AcquireQueued
  <2>. HIDE DEF e2
  <2>4. /\ locks' = [s \in Resource |-> locks'[s]]
        /\ \A s \in Resource : locks'[s] = locks[s] \/ (s = r /\ locks'[s] = e2)
    BY <1>1, <2>3
  <2>5. txnLocks' \in [Txn -> SUBSET Resource]
    BY <1>1, <1>4 DEF AcquireQueued
  <2>. QED BY <2>2, <2>4, <2>5 DEF TypedStep
<1>. QED BY <1>2, <1>3, <1>4 DEF Acquire, AcquireGranted

LEMMA VacatesTyped ==
  ASSUME LockTypeOK, NEW t \in Txn, NEW R \in SUBSET Resource,
         locks' = [r \in Resource |-> IF r \in R THEN Vacate(locks[r], t) ELSE locks[r]],
         txnLocks' \in [Txn -> SUBSET Resource]
  PROVE  TypedStep
<1>1. \A r \in Resource : EntryOK(locks[r])
  BY TypedEntries
<1>2. \A r \in Resource : EntryStep(locks[r], Vacate(locks[r], t))
  BY <1>1, VacateStep
<1>. QED BY <1>2 DEF TypedStep

LEMMA ReleaseTyped ==
  ASSUME LockTypeOK, NEW t \in Txn, NEW r \in Resource, Release(t, r)
  PROVE  TypedStep
<1>1. locks = [s \in Resource |-> locks[s]] /\ txnLocks \in [Txn -> SUBSET Resource]
  BY TypedEntries
<1>2. locks' = [s \in Resource |-> IF s \in {r} THEN Vacate(locks[s], t) ELSE locks[s]]
  BY <1>1 DEF Release
<1>3. txnLocks' \in [Txn -> SUBSET Resource]
  BY <1>1 DEF Release
<1>. QED BY <1>2, <1>3, VacatesTyped

LEMMA ReleaseAllTyped ==
  ASSUME LockTypeOK, NEW t \in Txn, ReleaseAll(t)
  PROVE  TypedStep
<1>1. txnLocks \in [Txn -> SUBSET Resource] /\ txnLocks[t] \in SUBSET Resource
  BY TypedEntries
<1>2. txnLocks' \in [Txn -> SUBSET Resource]
  BY <1>1 DEF ReleaseAll
<1>. QED BY <1>1, <1>2, VacatesTyped DEF ReleaseAll

LEMMA TransferTyped ==
  ASSUME LockTypeOK, NEW from \in Txn, NEW to \in Txn, TransferLocks(from, to)
  PROVE  TypedStep
<1>. DEFINE moved == {r \in txnLocks[from] : from \in locks[r].holders}
<1>1. txnLocks \in [Txn -> SUBSET Resource] /\ \A r \in Resource : EntryOK(locks[r])
  BY TypedEntries
<1>2. /\ locks' = [r \in Resource |->
                     IF r \in moved
                     THEN [locks[r] EXCEPT !.holders = (@ \ {from}) \cup {to}]
                     ELSE locks[r]]
      /\ txnLocks' = [u \in Txn |-> CASE u = from -> {}
                                      [] u = to -> txnLocks[u] \cup moved
                                      [] OTHER -> txnLocks[u]]
  BY DEF TransferLocks
<1>3. \A r \in moved : from \in locks[r].holders /\ r \in Resource
  BY <1>1
<1>4. moved \in SUBSET Resource
  BY <1>3
<1>. HIDE DEF moved
<1>5. \A r \in moved :
        EntryStep(locks[r], [locks[r] EXCEPT !.holders = (@ \ {from}) \cup {to}])
  BY <1>1, <1>3, MovedStep
<1>6. txnLocks' \in [Txn -> SUBSET Resource]
  BY <1>1, <1>2, <1>4
<1>. QED BY <1>2, <1>5, <1>6 DEF TypedStep

LEMMA UpgradeTyped ==
  ASSUME LockTypeOK, NEW t \in Txn, NEW r \in Resource, UpgradeGranted(t, r)
  PROVE  TypedStep
<1>. DEFINE e2 == [locks[r] EXCEPT !.type = "X"]
<1>1. /\ locks = [s \in Resource |-> locks[s]] /\ txnLocks \in [Txn -> SUBSET Resource]
      /\ EntryOK(locks[r])
  BY TypedEntries
<1>2. EntryStep(locks[r], e2)
  BY <1>1, UpgradedStep DEF UpgradeGranted, CanUpgrade
<1>3. locks' = [locks EXCEPT ![r] = e2]
  BY DEF UpgradeGranted
<1>. HIDE DEF e2
<1>4. /\ locks' = [s \in Resource |-> locks'[s]]
      /\ \A s \in Resource : locks'[s] = IF s = r THEN e2 ELSE locks[s]
  BY <1>1, <1>3
<1>5. txnLocks' \in [Txn -> SUBSET Resource]
  BY <1>1 DEF UpgradeGranted
<1>. QED BY <1>2, <1>4, <1>5 DEF TypedStep

LEMMA LockTypeStep ==
  ASSUME LockTypeOK, LockNext
  PROVE  TypedStep
BY AcquireTyped, ReleaseTyped, ReleaseAllTyped, TransferTyped, UpgradeTyped DEF LockNext

LEMMA TypedStepTyped ==
  ASSUME LockTypeOK, TypedStep
  PROVE  LockTypeOK'
<1>1. \A r \in Resource : EntryOK(locks[r])
  BY TypedEntries
<1>2. /\ locks' = [r \in Resource |-> locks'[r]]
      /\ txnLocks' \in [Txn -> SUBSET Resource]
      /\ \A r \in Resource : EntryOK(locks'[r])
  BY <1>1 DEF TypedStep, EntryStep
<1>. DEFINE E == [type : LockType \cup {"None"}, holders : SUBSET Txn, queue : Seq(WaitEntry)]
<1>3. \A r \in Resource :
        locks'[r] \in E /\ (locks'[r].type = "None" <=> locks'[r].holders = {})
  BY <1>2 DEF EntryOK
<1>. HIDE DEF E
<1>4. locks' \in [Resource -> E]
  BY <1>2, <1>3
<1>. QED BY <1>2, <1>3, <1>4 DEF LockTypeOK, E

LEMMA LockTypeInvariant == LockSpec => []LockTypeOK
<1>1. LockInit => LockTypeOK
  <2>1. <<>> \in Seq(WaitEntry)
    OBVIOUS
  <2>. QED BY <2>1 DEF LockInit, LockTypeOK, FreeEntry
<1>2. LockTypeOK /\ [LockNext]_lockVars => LockTypeOK'
  <2>1. ASSUME LockTypeOK, UNCHANGED lockVars PROVE LockTypeOK'
    BY <2>1 DEF LockTypeOK, lockVars
  <2>. QED BY <2>1, LockTypeStep, TypedStepTyped
<1>. QED BY <1>1, <1>2, PTL DEF LockSpec

\* The table keeps its types, and a resource has a lock type exactly while
\* somebody holds it.
THEOREM LockTypesHold == LockSpec => []LockTypeOK
BY LockTypeInvariant

\* Cutting the queue up and putting it together again loses no waiter.
THEOREM WaitersLeaveOnlyAsHoldersHolds == LockSpec => WaitersLeaveOnlyAsHolders
<1>1. ASSUME LockTypeOK, [LockNext]_lockVars
      PROVE  [\A r \in Resource, t \in Txn :
                t \in Waiting(r) /\ t \notin Waiting(r)' => t \in locks'[r].holders]_lockVars
  <2>1. CASE UNCHANGED lockVars
    BY <2>1
  <2>2. CASE LockNext
    <3>1. TypedStep
      BY <1>1, <2>2, LockTypeStep
    <3>2. ASSUME NEW r \in Resource, NEW t \in Txn,
                 t \in Waiting(r), t \notin Waiting(r)'
          PROVE  t \in locks'[r].holders
      <4>1. Waits(locks[r], t) /\ ~ Waits(locks'[r], t)
        BY <3>2 DEF Waiting, Waits
      <4>2. OnlyAsHolders(locks[r], locks'[r])
        BY <3>1, <4>1 DEF TypedStep, EntryStep
      <4>. QED BY <4>1, <4>2 DEF OnlyAsHolders
    <3>. QED BY <3>2
  <2>. QED BY <1>1, <2>1, <2>2
<1>. QED BY <1>1, LockTypeInvariant, PTL DEF LockSpec, WaitersLeaveOnlyAsHolders
-----------------------------------------------------------------------------
(* The transactions.                                                       *)

Operation == [mode : LockType, res : Resource]

\* Types, as far as the argument needs them.
Shape ==
  /\ parent \in [Txn -> Txn \cup {0}]
  /\ status \in [Txn -> {"none", "active", "committed", "aborted"}]
  /\ readSet \in [Txn -> [Resource -> Txn \cup {0, Unread}]]
  /\ buffer \in [Txn -> SUBSET Resource]
  /\ locksHeld \in [Txn -> SUBSET (Resource \X LockType)]
  /\ disk \in [Resource -> Txn \cup {0}]
  /\ pc \in [Thread -> PC]
  /\ op \in [Txn -> Operation \cup {NoOp}]
  /\ iter \in [Txn -> [size : Nat, todo : SUBSET Resource]]

Indexed(t) == \A r \in Resource : t \in locks[r].holders => r \in txnLocks[t]

CoversHeld(t, u) == \A h \in locksHeld[t] : Covers(locks[h[1]], u, h[2])

-----------------------------------------------------------------------------
(* What the operations of the lock table do to the locks of everybody.     *)

\* A step of the lock table that takes nothing away from u.
Keeps(u) ==
  /\ \A r \in Resource, m \in LockType :
       Covers(locks[r], u, m) => Covers(locks'[r], u, m)
  /\ Indexed(u) => Indexed(u)'

LEMMA KeepsUnchanged ==
  ASSUME UNCHANGED lockVars, NEW u PROVE Keeps(u)
BY DEF lockVars, Keeps, Indexed

LEMMA AcquireKeeps ==
  ASSUME LockInv, NEW t \in Txn, NEW r \in Resource, NEW m \in LockType,
         Acquire(t, r, m), NEW u \in Txn
  PROVE  Keeps(u)
<1>. USE DEF LockInv, LockShape
<1>1. CASE AcquireAgain(t, r, m)
  BY <1>1, KeepsUnchanged DEF AcquireAgain
<1>2. CASE AcquireNow(t, r, m)
  <2>1. /\ locks'[r] = Joined(locks[r], t, m)
        /\ \A s \in Resource : s # r => locks'[s] = locks[s]
        /\ txnLocks' = [txnLocks EXCEPT ![t] = @ \cup {r}]
    BY <1>2 DEF AcquireNow
  <2>2. locks'[r].holders = locks[r].holders \cup {t} /\ locks'[r].type = m
    BY <2>1 DEF Joined
  <2>3. \A n \in LockType : Covers(locks[r], u, n) => Covers(locks'[r], u, n)
    BY <1>2, <2>2 DEF AcquireNow, Covers, Compatible, LockType
  <2>4. Indexed(u) => Indexed(u)'
    BY <2>1, <2>2 DEF Indexed
  <2>. QED BY <2>1, <2>3, <2>4 DEF Keeps
<1>3. CASE AcquireQueued(t, r, m)
  <2>1. /\ locks'[r].holders = locks[r].holders
        /\ locks'[r].type = locks[r].type
        /\ \A s \in Resource : s # r => locks'[s] = locks[s]
        /\ txnLocks' = txnLocks
    BY <1>3 DEF AcquireQueued
  <2>. QED BY <2>1 DEF Keeps, Covers, Indexed
<1>. QED BY <1>1, <1>2, <1>3 DEF Acquire, AcquireGranted

\* What acquire returns True for is held.
LEMMA AcquireGives ==
  ASSUME LockInv, NEW t \in Txn, NEW r \in Resource, NEW m \in LockType,
         AcquireGranted(t, r, m)
  PROVE  Covers(locks'[r], t, m)
<1>. USE DEF LockInv, LockShape
<1>1. CASE AcquireAgain(t, r, m)
  BY <1>1 DEF AcquireAgain, lockVars
<1>2. CASE AcquireNow(t, r, m)
  <2>1. locks'[r] = Joined(locks[r], t, m)
    BY <1>2 DEF AcquireNow
  <2>2. locks'[r].holders = locks[r].holders \cup {t} /\ locks'[r].type = m
    BY <2>1 DEF Joined
  <2>. QED BY <2>2 DEF Covers, LockType
<1>. QED BY <1>1, <1>2 DEF AcquireGranted

LEMMA UpgradeKeeps ==
  ASSUME LockInv, NEW t \in Txn, NEW r \in Resource, UpgradeGranted(t, r), NEW u \in Txn
  PROVE  Keeps(u) /\ Covers(locks'[r], t, "X")
<1>1. /\ locks'[r].holders = locks[r].holders
      /\ locks'[r].type = "X"
      /\ \A s \in Resource : s # r => locks'[s] = locks[s]
      /\ t \in locks[r].holders
      /\ txnLocks' = txnLocks \/ txnLocks' = [txnLocks EXCEPT ![t] = @ \cup {r}]
  BY DEF UpgradeGranted, CanUpgrade, LockInv, LockShape
<1>2. Indexed(u) => Indexed(u)'
  BY <1>1 DEF Indexed, LockInv, LockShape
<1>. QED BY <1>1, <1>2 DEF Keeps, Covers

LEMMA ReleaseAllKeeps ==
  ASSUME LockInv, NEW t \in Txn, ReleaseAll(t), NEW u \in Txn, u # t
  PROVE  Keeps(u)
<1>1. \A s \in Resource :
        locks'[s] = IF s \in txnLocks[t] THEN Vacate(locks[s], t) ELSE locks[s]
  BY DEF ReleaseAll
<1>2. ASSUME NEW s \in Resource, NEW m \in LockType, Covers(locks[s], u, m)
      PROVE  Covers(locks'[s], u, m)
  <2>1. u \in locks[s].holders
    BY <1>2 DEF Covers
  <2>2. CASE s \in txnLocks[t]
    <3>1. /\ Vacate(locks[s], t).holders = locks[s].holders \ {t}
          /\ Vacate(locks[s], t).type = locks[s].type
      BY <2>1, InvEntries, VacateGood
    <3>. QED BY <3>1, <2>2, <1>1, <1>2 DEF Covers
  <2>. QED BY <2>2, <1>1, <1>2
<1>3. ASSUME Indexed(u), NEW s \in Resource, u \in locks'[s].holders
      PROVE  s \in txnLocks'[u]
  <2>1. s \in txnLocks[u] => s \in txnLocks'[u]
    BY DEF ReleaseAll
  <2>2. CASE s \in txnLocks[t] /\ locks[s].holders \subseteq {t}
    <3>1. u \in LetIn(locks[s], t)
      BY <1>1, <1>3, <2>2 DEF LetIn
    <3>. QED BY <3>1, <2>2 DEF ReleaseAll
  <2>3. CASE s \in txnLocks[t] /\ ~ (locks[s].holders \subseteq {t})
    <3>1. u \in locks[s].holders
      BY <1>1, <1>3, <2>3, InvEntries, VacateGood
    <3>. QED BY <3>1, <2>1, <1>3 DEF Indexed
  <2>4. CASE s \notin txnLocks[t]
    BY <2>1, <2>4, <1>1, <1>3 DEF Indexed
  <2>. QED BY <2>2, <2>3, <2>4
<1>. QED BY <1>2, <1>3 DEF Keeps, Indexed

LEMMA TransferKeeps ==
  ASSUME LockInv, NEW from \in Txn, NEW to \in Txn, from # to, TransferLocks(from, to)
  PROVE  /\ \A u \in Txn : u # from => Keeps(u)
         /\ Indexed(from) =>
              \A r \in Resource, m \in LockType :
                Covers(locks[r], from, m) => Covers(locks'[r], to, m)
<1>. DEFINE moved == {r \in txnLocks[from] : from \in locks[r].holders}
<1>1. /\ \A s \in Resource :
           locks'[s] = IF s \in moved
                       THEN [locks[s] EXCEPT !.holders = (@ \ {from}) \cup {to}]
                       ELSE locks[s]
      /\ txnLocks' = [u \in Txn |-> CASE u = from -> {}
                                      [] u = to -> txnLocks[u] \cup moved
                                      [] OTHER -> txnLocks[u]]
  BY DEF TransferLocks
<1>2. \A s \in Resource :
        /\ locks'[s].type = locks[s].type
        /\ locks'[s].holders = IF s \in moved THEN (locks[s].holders \ {from}) \cup {to}
                                              ELSE locks[s].holders
  BY <1>1 DEF LockInv, LockShape
<1>3. ASSUME NEW u \in Txn, u # from PROVE Keeps(u)
  <2>1. Indexed(u) => Indexed(u)'
    BY <1>1, <1>2, <1>3 DEF Indexed
  <2>. QED BY <2>1, <1>2, <1>3 DEF Keeps, Covers
<1>4. ASSUME Indexed(from), NEW r \in Resource, NEW m \in LockType, Covers(locks[r], from, m)
      PROVE  Covers(locks'[r], to, m)
  BY <1>2, <1>4 DEF Covers, Indexed
<1>. QED BY <1>3, <1>4

LEMMA KeepsHeld ==
  ASSUME Shape, NEW u \in Txn, NEW v \in Txn, locksHeld'[u] = locksHeld[u],
         Keeps(v), CoversHeld(u, v)
  PROVE  CoversHeld(u, v)'
<1>1. \A h \in locksHeld[u] : h[1] \in Resource /\ h[2] \in LockType
  <2>1. locksHeld[u] \subseteq Resource \X LockType
    BY DEF Shape
  <2>. QED BY <2>1
<1>2. \A h \in locksHeld[u] : Covers(locks'[h[1]], v, h[2])
  BY <1>1 DEF Keeps, CoversHeld
<1>. QED BY <1>2 DEF CoversHeld, Covers


-----------------------------------------------------------------------------
(* Types of the threads, with the detector and whatever else: every call   *)
(* into the lock table is one of its operations.                           *)

Asking == {"register", "wait", "retry", "access"}
Locking == {"upgrade", "lock"} \cup Asking

\* What a thread hands to the lock table.
PlaceOK(t) ==
  /\ pc[t] \in Locking \cup {"write"} => op[t] \in Operation
  /\ pc[t] \in {"inherit", "absorb"} => parent[t] # 0
  /\ parent[t] # t
  /\ pc[t] # "ready" => status[t] # "none"

DetectorOK ==
  /\ pc[Detector] \in {"ready", "check", "clear", "mark", "release"}
  /\ pc[Detector] # "ready" => victim \in Txn

SignalTypes ==
  /\ event \in [Txn -> {"none", "clear", "set"}]
  /\ victim \in Txn \cup {0}
  /\ toWake \in [Thread -> SUBSET (Txn \X Resource)]

ThreadTypes ==
  Shape /\ SignalTypes /\ DetectorOK /\ \A t \in Txn : PlaceOK(t)

\* A step of a client that takes it further in its call.
ClientStep(t) ==
  /\ UNCHANGED <<tmVars, victim, toWake>>
  /\ pc' = [pc EXCEPT ![t] = pc'[t]]
  /\ op' = [op EXCEPT ![t] = op'[t]]
  /\ event' = [event EXCEPT ![t] = event'[t]]
  /\ iter' = [iter EXCEPT ![t] = iter'[t]]
  /\ pc'[t] \in PC \ {"inherit", "absorb"}
  /\ op'[t] \in Operation \cup {NoOp}
  /\ event'[t] \in {"none", "clear", "set"}
  /\ iter'[t] \in [size : Nat, todo : SUBSET Resource]
  /\ pc'[t] \in Locking \cup {"write"} => op'[t] \in Operation
  /\ status[t] # "none"

LEMMA NotDetector ==
  ASSUME NEW t \in Txn PROVE t # Detector /\ t \in Thread /\ Detector \in Thread
BY TxnAssumption DEF Detector, Thread

LEMMA ClientStepTypes ==
  ASSUME ThreadTypes, NEW t \in Txn, ClientStep(t)
  PROVE  ThreadTypes'
<1>. USE DEF ClientStep
<1>1. Shape /\ SignalTypes /\ DetectorOK
  BY DEF ThreadTypes
<1>2. pc' \in [Thread -> PC]
  BY <1>1, NotDetector DEF Shape
<1>3. op' \in [Txn -> Operation \cup {NoOp}]
  BY <1>1 DEF Shape
<1>4. iter' \in [Txn -> [size : Nat, todo : SUBSET Resource]]
  BY <1>1 DEF Shape
<1>5. Shape'
  BY <1>1, <1>2, <1>3, <1>4 DEF Shape, tmVars
<1>6. event' \in [Txn -> {"none", "clear", "set"}]
  BY <1>1 DEF SignalTypes
<1>7. SignalTypes'
  BY <1>1, <1>6 DEF SignalTypes
<1>8. pc'[Detector] = pc[Detector]
  BY <1>1, NotDetector DEF Shape
<1>9. DetectorOK'
  BY <1>1, <1>8 DEF DetectorOK
<1>10. ASSUME NEW u \in Txn PROVE PlaceOK(u)'
  <2>1. PlaceOK(u)
    BY DEF ThreadTypes
  <2>2. CASE u = t
    BY <2>1, <2>2 DEF PlaceOK, tmVars
  <2>3. CASE u # t
    <3>1. pc'[u] = pc[u] /\ op'[u] = op[u] /\ parent' = parent /\ status' = status
      BY <1>1, <2>3, NotDetector DEF Shape, tmVars
    <3>. QED BY <2>1, <3>1 DEF PlaceOK
  <2>. QED BY <2>2, <2>3
<1>. QED BY <1>5, <1>7, <1>9, <1>10 DEF ThreadTypes

LEMMA CallsTypes ==
  ASSUME ThreadTypes, NEW t \in Txn,
         \/ \E r \in Resource : CallRead(t, r) \/ CallWrite(t, r)
         \/ CallCommit(t) \/ CallAbort(t)
  PROVE  ThreadTypes' /\ UNCHANGED lockVars
<1>1. Shape /\ SignalTypes
  BY DEF ThreadTypes
<1>2. PICK there \in {"upgrade", "lock", "access", "commit", "clear"} :
        /\ Calls(t, there)
        /\ \/ UNCHANGED op /\ there \in {"commit", "clear"}
           \/ \E o \in Operation : op' = [op EXCEPT ![t] = o]
  <2>1. ASSUME NEW r \in Resource
        PROVE  [mode |-> "S", res |-> r] \in Operation /\ [mode |-> "X", res |-> r] \in Operation
    BY DEF Operation, LockType
  <2>2. ASSUME NEW r \in Resource, CallRead(t, r)
        PROVE  Calls(t, "lock") /\ \E o \in Operation : op' = [op EXCEPT ![t] = o]
    BY <2>1, <2>2 DEF CallRead
  <2>3. ASSUME NEW r \in Resource, CallWrite(t, r)
        PROVE  /\ Calls(t, "lock") \/ Calls(t, "upgrade") \/ Calls(t, "access")
               /\ \E o \in Operation : op' = [op EXCEPT ![t] = o]
    BY <2>1, <2>3 DEF CallWrite
  <2>4. CASE CallCommit(t)
    BY <2>4 DEF CallCommit
  <2>5. CASE CallAbort(t)
    BY <2>5 DEF CallAbort
  <2>. QED BY <2>2, <2>3, <2>4, <2>5
<1>3. /\ op' = [op EXCEPT ![t] = op'[t]]
      /\ op'[t] \in Operation \cup {NoOp}
      /\ there \in {"upgrade", "lock", "access"} => op'[t] \in Operation
  BY <1>1, <1>2 DEF Shape
<1>4. pc' = [pc EXCEPT ![t] = pc'[t]] /\ pc'[t] = there
  BY <1>1, <1>2, NotDetector DEF Calls, Goto, Shape
<1>5. /\ event' = [event EXCEPT ![t] = event'[t]] /\ event'[t] \in {"none", "clear", "set"}
      /\ iter' = [iter EXCEPT ![t] = iter'[t]]
      /\ iter'[t] \in [size : Nat, todo : SUBSET Resource]
  BY <1>1, <1>2 DEF Calls, Shape, SignalTypes
<1>6. there \in PC \ {"inherit", "absorb"} /\ there # "write" /\ there \notin Asking \ {"access"}
  BY DEF PC, Asking
<1>7. UNCHANGED <<tmVars, victim, toWake>> /\ status[t] # "none"
  BY <1>2 DEF Calls
<1>8. there \in Locking \cup {"write"} => op'[t] \in Operation
  BY <1>3, <1>6 DEF Locking
<1>9. ClientStep(t)
  BY <1>3, <1>4, <1>5, <1>6, <1>7, <1>8 DEF ClientStep
<1>. QED BY <1>2, <1>9, ClientStepTypes DEF Calls

\* Asking for a lock, up to the answer.
LEMMA LockingTypes ==
  ASSUME ThreadTypes, NEW t \in Txn,
         TryUpgrade(t) \/ TryLock(t) \/ Register(t) \/ WakeUp(t) \/ TimeOut(t) \/ Retry(t)
  PROVE  ThreadTypes' /\ [LockNext]_lockVars
<1>1. Shape /\ SignalTypes /\ PlaceOK(t)
  BY DEF ThreadTypes
<1>2. pc[t] \in {"upgrade", "lock", "register", "wait", "retry"}
  BY DEF TryUpgrade, TryLock, Register, WakeUp, TimeOut, Retry
<1>3. op[t] \in Operation /\ op[t].res \in Resource /\ op[t].mode \in LockType
  <2>1. op[t] \in Operation
    BY <1>1, <1>2 DEF PlaceOK, Locking, Asking
  <2>. QED BY <2>1 DEF Operation
<1>4. \E there \in {"lock", "access", "register", "wait", "retry", "ready"} :
        /\ Goto(t, there)
        /\ UNCHANGED op \/ (there = "ready" /\ op' = [op EXCEPT ![t] = NoOp])
  BY DEF TryUpgrade, TryLock, Register, WakeUp, TimeOut, Retry, Leave
<1>5. /\ UNCHANGED <<tmVars, victim, toWake, iter>>
      /\ UNCHANGED event \/ \E e \in {"none", "clear"} : event' = [event EXCEPT ![t] = e]
  BY DEF TryUpgrade, TryLock, Register, WakeUp, TimeOut, Retry
<1>6. /\ op' = [op EXCEPT ![t] = op'[t]]
      /\ op'[t] \in Operation \cup {NoOp}
      /\ pc' = [pc EXCEPT ![t] = pc'[t]]
      /\ pc'[t] \in {"lock", "access", "register", "wait", "retry", "ready"}
      /\ pc'[t] = "ready" \/ op'[t] \in Operation
  BY <1>1, <1>3, <1>4, NotDetector DEF Goto, Shape
<1>7. event' = [event EXCEPT ![t] = event'[t]] /\ event'[t] \in {"none", "clear", "set"}
  BY <1>1, <1>5 DEF SignalTypes
<1>8. /\ iter' = [iter EXCEPT ![t] = iter'[t]]
      /\ iter'[t] \in [size : Nat, todo : SUBSET Resource]
  BY <1>1, <1>5 DEF Shape
<1>9. pc'[t] \in PC \ {"inherit", "absorb"}
  BY <1>6 DEF PC
<1>10. pc'[t] \in Locking \cup {"write"} => op'[t] \in Operation
  BY <1>6 DEF Locking, Asking
<1>11. ClientStep(t)
  BY <1>1, <1>2, <1>5, <1>6, <1>7, <1>8, <1>9, <1>10 DEF ClientStep, PlaceOK
<1>12. \/ UNCHANGED lockVars
       \/ UpgradeGranted(t, op[t].res)
       \/ Acquire(t, op[t].res, op[t].mode)
  BY DEF TryUpgrade, TryLock, Register, WakeUp, TimeOut, Retry, Acquire
<1>13. [LockNext]_lockVars
  BY <1>3, <1>12 DEF LockNext
<1>. QED BY <1>11, <1>13, ClientStepTypes

\* The iteration over the buffer.
LEMMA ApplyTypes ==
  ASSUME ThreadTypes, NEW t \in Txn, StartApply(t) \/ NextItem(t) \/ IterationFails(t)
  PROVE  ThreadTypes' /\ UNCHANGED lockVars
<1>1. Shape /\ SignalTypes
  BY DEF ThreadTypes
<1>2. buffer[t] \in SUBSET Resource /\ iter[t] \in [size : Nat, todo : SUBSET Resource]
  BY <1>1 DEF Shape
<1>3. Cardinality(buffer[t]) \in Nat
  BY <1>2, TxnAssumption, FS_Subset, FS_CardinalityType
<1>4. UNCHANGED <<lockVars, tmVars, victim, toWake, event>>
  BY DEF StartApply, NextItem, IterationFails
<1>5. /\ event' = [event EXCEPT ![t] = event'[t]]
      /\ event'[t] \in {"none", "clear", "set"}
  BY <1>1, <1>4 DEF SignalTypes
<1>6. \E there \in {"apply", "finish", "write", "failed"} : Goto(t, there)
  BY DEF StartApply, NextItem, IterationFails, Leave
<1>7. /\ pc' = [pc EXCEPT ![t] = pc'[t]]
      /\ pc'[t] \in {"apply", "finish", "write", "failed"}
  BY <1>1, <1>6, NotDetector DEF Goto, Shape
<1>8. /\ iter' = [iter EXCEPT ![t] = iter'[t]]
      /\ iter'[t] \in [size : Nat, todo : SUBSET Resource]
  <2>1. CASE StartApply(t)
    BY <1>1, <1>2, <1>3, <2>1 DEF StartApply, Shape
  <2>2. CASE NextItem(t) \/ IterationFails(t)
    BY <1>1, <1>2, <2>2 DEF NextItem, IterationFails, Shape
  <2>. QED BY <2>1, <2>2
<1>9. /\ op' = [op EXCEPT ![t] = op'[t]] /\ op'[t] \in Operation \cup {NoOp}
      /\ pc'[t] = "write" => op'[t] \in Operation
  <2>1. CASE StartApply(t)
    BY <1>1, <1>7, <2>1, NotDetector DEF StartApply, Goto, Shape
  <2>2. CASE NextItem(t)
    <3>1. ASSUME NEW r \in Resource PROVE [mode |-> "X", res |-> r] \in Operation
      BY DEF Operation, LockType
    <3>2. \/ op' = [op EXCEPT ![t] = NoOp] /\ pc' = [pc EXCEPT ![t] = "finish"]
          \/ \E r \in Resource : op' = [op EXCEPT ![t] = [mode |-> "X", res |-> r]]
      BY <1>2, <2>2 DEF NextItem, Leave, Goto
    <3>3. \/ op' = [op EXCEPT ![t] = NoOp] /\ pc' = [pc EXCEPT ![t] = "finish"]
          \/ \E o \in Operation : op' = [op EXCEPT ![t] = o]
      BY <3>1, <3>2
    <3>. QED BY <1>1, <3>3, NotDetector DEF Shape
  <2>3. CASE IterationFails(t)
    BY <1>1, <1>7, <2>3, NotDetector DEF IterationFails, Leave, Goto, Shape
  <2>. QED BY <2>1, <2>2, <2>3
<1>10. pc'[t] \in PC \ {"inherit", "absorb"}
  BY <1>7 DEF PC
<1>11. pc'[t] \in Locking \cup {"write"} => op'[t] \in Operation
  BY <1>7, <1>9 DEF Locking, Asking
<1>13. status[t] # "none"
  BY DEF ThreadTypes, PlaceOK, StartApply, NextItem, IterationFails
<1>12. ClientStep(t)
  BY <1>4, <1>5, <1>7, <1>8, <1>9, <1>10, <1>11, <1>13 DEF ClientStep
<1>. QED BY <1>4, <1>12, ClientStepTypes

\* A step of thread th that leaves the calls of the others alone.
LEMMA OthersTypes ==
  ASSUME ThreadTypes, NEW th \in Thread, Shape', SignalTypes', DetectorOK',
         op' = op, parent' = parent, pc' = [pc EXCEPT ![th] = pc'[th]],
         pc'[th] \notin Locking \cup {"write"},
         \A u \in Txn : status'[u] = "none" => status[u] = "none",
         pc[th] # "ready",
         pc'[th] \in {"inherit", "absorb"} => parent[th] # 0
  PROVE  ThreadTypes'
<1>1. ASSUME NEW u \in Txn PROVE PlaceOK(u)'
  <2>1. PlaceOK(u)
    BY DEF ThreadTypes
  <2>2. u # th => pc'[u] = pc[u]
    BY NotDetector DEF ThreadTypes, Shape
  <2>3. CASE u = th
    BY <2>1, <2>3 DEF PlaceOK
  <2>4. CASE u # th
    BY <2>1, <2>2, <2>4 DEF PlaceOK
  <2>. QED BY <2>3, <2>4
<1>. QED BY <1>1 DEF ThreadTypes

LEMMA ClientDetector ==
  ASSUME ThreadTypes, NEW t \in Txn, pc' = [pc EXCEPT ![t] = pc'[t]], victim' = victim
  PROVE  DetectorOK'
<1>1. pc'[Detector] = pc[Detector]
  BY NotDetector DEF ThreadTypes, Shape
<1>. QED BY <1>1 DEF ThreadTypes, DetectorOK

LEMMA BeginTypes ==
  ASSUME ThreadTypes, NEW t \in Txn, NEW p \in Txn \cup {0}, Begin(t, p)
  PROVE  ThreadTypes' /\ UNCHANGED lockVars
<1>1. Shape /\ SignalTypes /\ DetectorOK /\ \A u \in Txn : PlaceOK(u)
  BY DEF ThreadTypes
<1>2. /\ parent' = [parent EXCEPT ![t] = p] /\ status' = [status EXCEPT ![t] = "active"]
      /\ UNCHANGED <<lockVars, readSet, buffer, locksHeld, disk>>
      /\ UNCHANGED <<pc, op, event, iter, victim, toWake>>
      /\ status[t] = "none"
  BY DEF Begin, threadVars
<1>3. p # t
  BY TxnAssumption DEF Begin
<1>4. /\ parent' \in [Txn -> Txn \cup {0}]
      /\ status' \in [Txn -> {"none", "active", "committed", "aborted"}]
  BY <1>1, <1>2 DEF Shape
<1>5. Shape' /\ SignalTypes' /\ DetectorOK'
  BY <1>1, <1>2, <1>4 DEF Shape, SignalTypes, DetectorOK
<1>6. ASSUME NEW u \in Txn PROVE PlaceOK(u)'
  <2>1. pc[t] = "ready"
    BY <1>1, <1>2 DEF PlaceOK
  <2>2. CASE u # t
    BY <1>1, <1>2, <2>2 DEF PlaceOK, Shape
  <2>3. CASE u = t
    <3>1. parent'[t] = p /\ status'[t] = "active" /\ pc'[t] = "ready"
      BY <1>1, <1>2, <2>1 DEF Shape
    <3>. QED BY <1>3, <2>3, <3>1 DEF PlaceOK, Locking, Asking
  <2>. QED BY <2>2, <2>3
<1>. QED BY <1>2, <1>5, <1>6 DEF ThreadTypes

LEMMA AccessTypes ==
  ASSUME ThreadTypes, NEW t \in Txn, Access(t)
  PROVE  ThreadTypes' /\ UNCHANGED lockVars
<1>1. Shape /\ SignalTypes /\ DetectorOK /\ PlaceOK(t)
  BY DEF ThreadTypes
<1>2. op[t].res \in Resource
  BY <1>1 DEF Access, PlaceOK, Locking, Asking, Operation
<1>3. /\ pc' = [pc EXCEPT ![t] = "ready"] /\ op' = [op EXCEPT ![t] = NoOp]
      /\ UNCHANGED <<lockVars, parent, status, disk, event, iter, victim, toWake>>
  BY DEF Access, Leave, Goto
<1>4. pc' \in [Thread -> PC] /\ op' \in [Txn -> Operation \cup {NoOp}]
  BY <1>1, <1>3, NotDetector DEF Shape, PC
<1>5. readSet' \in [Txn -> [Resource -> Txn \cup {0, Unread}]]
  <2>1. \/ readSet' = readSet
        \/ readSet' = [readSet EXCEPT ![t] = [readSet[t] EXCEPT ![op[t].res] = disk[op[t].res]]]
    BY DEF Access
  <2>2. disk[op[t].res] \in Txn \cup {0}
    BY <1>1, <1>2 DEF Shape
  <2>3. [readSet[t] EXCEPT ![op[t].res] = disk[op[t].res]] \in [Resource -> Txn \cup {0, Unread}]
    BY <1>1, <2>2 DEF Shape
  <2>. QED BY <1>1, <2>1, <2>3 DEF Shape
<1>6. buffer' \in [Txn -> SUBSET Resource]
  <2>1. buffer' = buffer \/ buffer' = [buffer EXCEPT ![t] = buffer[t] \cup {op[t].res}]
    BY DEF Access
  <2>2. buffer[t] \cup {op[t].res} \in SUBSET Resource
    BY <1>1, <1>2 DEF Shape
  <2>. QED BY <1>1, <2>1, <2>2 DEF Shape
<1>7. locksHeld' \in [Txn -> SUBSET (Resource \X LockType)]
  <2>1. <<op[t].res, "S">> \in Resource \X LockType /\ <<op[t].res, "X">> \in Resource \X LockType
    BY <1>2 DEF LockType
  <2>2. \E L \in SUBSET (Resource \X LockType) : locksHeld' = [locksHeld EXCEPT ![t] = L]
    <3>1. locksHeld[t] \in SUBSET (Resource \X LockType)
      BY <1>1 DEF Shape
    <3>. QED BY <2>1, <3>1 DEF Access
  <2>. QED BY <1>1, <2>2 DEF Shape
<1>8. Shape' /\ SignalTypes'
  BY <1>1, <1>3, <1>4, <1>5, <1>6, <1>7 DEF Shape, SignalTypes
<1>9. pc'[t] = "ready" /\ pc' = [pc EXCEPT ![t] = pc'[t]]
  BY <1>1, <1>3, NotDetector DEF Shape
<1>10. DetectorOK'
  BY <1>3, <1>9, ClientDetector
<1>11. ASSUME NEW u \in Txn PROVE PlaceOK(u)'
  <2>1. PlaceOK(u)
    BY DEF ThreadTypes
  <2>2. CASE u = t
    BY <1>3, <1>9, <2>1, <2>2 DEF PlaceOK, Locking, Asking
  <2>3. CASE u # t
    <3>1. pc'[u] = pc[u] /\ op'[u] = op[u]
      BY <1>1, <1>3, <2>3, NotDetector DEF Shape
    <3>. QED BY <1>3, <2>1, <3>1 DEF PlaceOK
  <2>. QED BY <2>2, <2>3
<1>. QED BY <1>3, <1>8, <1>10, <1>11 DEF ThreadTypes

\* The end of a commit.
LEMMA CommitTypes ==
  ASSUME ThreadTypes, NEW t \in Txn, WriteItem(t) \/ Finish(t) \/ Inherit(t) \/ Absorb(t)
  PROVE  ThreadTypes' /\ [LockNext]_lockVars
<1>1. Shape /\ SignalTypes /\ DetectorOK /\ PlaceOK(t)
  BY DEF ThreadTypes
<1>2. /\ UNCHANGED <<parent, readSet, buffer, op, event, iter, victim, toWake>>
      /\ \E there \in {"apply", "release", "inherit", "absorb", "ready"} :
           /\ Goto(t, there)
           /\ there = "inherit" => parent[t] # 0
           /\ there = "absorb" => pc[t] = "inherit"
      /\ pc[t] # "ready"
  BY DEF WriteItem, Finish, Inherit, Absorb, tmVars
<1>3. /\ pc' = [pc EXCEPT ![t] = pc'[t]]
      /\ pc'[t] \in {"apply", "release", "inherit", "absorb", "ready"}
      /\ pc'[t] \in {"inherit", "absorb"} => parent[t] # 0
  BY <1>1, <1>2, NotDetector DEF Goto, Shape, PlaceOK
<1>4. pc'[t] \in PC /\ pc'[t] \notin Locking \cup {"write"}
  BY <1>3 DEF PC, Locking, Asking
<1>5. pc' \in [Thread -> PC]
  BY <1>1, <1>3, <1>4 DEF Shape
<1>6. disk' \in [Resource -> Txn \cup {0}]
  BY <1>1 DEF Shape, WriteItem, Finish, Inherit, Absorb, tmVars
<1>7. /\ status' \in [Txn -> {"none", "active", "committed", "aborted"}]
      /\ \A u \in Txn : status'[u] = "none" => status[u] = "none"
  BY <1>1 DEF Shape, WriteItem, Finish, Inherit, Absorb, tmVars
<1>8. locksHeld' \in [Txn -> SUBSET (Resource \X LockType)]
  <2>1. CASE Absorb(t)
    <3>1. parent[t] \in Txn
      BY <1>1, <2>1 DEF Absorb, PlaceOK, Shape
    <3>2. locksHeld[t] \cup locksHeld[parent[t]] \in SUBSET (Resource \X LockType)
      BY <1>1, <3>1 DEF Shape
    <3>. QED BY <1>1, <2>1, <3>1, <3>2 DEF Absorb, Shape
  <2>2. CASE ~ Absorb(t)
    BY <1>1, <2>2 DEF Shape, WriteItem, Finish, Inherit, tmVars
  <2>. QED BY <2>1, <2>2
<1>9. Shape' /\ SignalTypes'
  BY <1>1, <1>2, <1>5, <1>6, <1>7, <1>8 DEF Shape, SignalTypes
<1>10. DetectorOK'
  BY <1>2, <1>3, ClientDetector
<1>11. ThreadTypes'
  BY <1>2, <1>3, <1>4, <1>7, <1>9, <1>10, NotDetector, OthersTypes
<1>12. [LockNext]_lockVars
  <2>1. CASE Inherit(t)
    <3>1. parent[t] \in Txn /\ parent[t] # t
      BY <1>1, <2>1 DEF Inherit, PlaceOK, Shape
    <3>. QED BY <2>1, <3>1 DEF Inherit, LockNext
  <2>2. CASE ~ Inherit(t)
    BY <2>2 DEF WriteItem, Finish, Absorb
  <2>. QED BY <2>1, <2>2
<1>. QED BY <1>11, <1>12

\* An abort, of a client's own transaction or of the detector's victim.
LEMMA AbortTypes ==
  ASSUME ThreadTypes, NEW th \in Thread,
         ClearBuffer(th) \/ MarkAborted(th) \/ ReleaseLocks(th)
  PROVE  ThreadTypes' /\ [LockNext]_lockVars
<1>1. Shape /\ SignalTypes /\ DetectorOK
  BY DEF ThreadTypes
<1>2. pc[th] \in {"clear", "mark", "release"}
  BY DEF ClearBuffer, MarkAborted, ReleaseLocks
<1>3. Subject(th) \in Txn
  BY <1>1, <1>2 DEF Subject, Thread, Detector, DetectorOK
<1>4. /\ UNCHANGED <<parent, readSet, locksHeld, disk, op, event, iter, victim>>
      /\ \E there \in {"mark", "release", "ready"} : Goto(th, there)
  BY DEF ClearBuffer, MarkAborted, ReleaseLocks, tmVars
<1>5. pc' = [pc EXCEPT ![th] = pc'[th]] /\ pc'[th] \in {"mark", "release", "ready"}
  BY <1>1, <1>4 DEF Goto, Shape
<1>6. pc' \in [Thread -> PC] /\ pc'[th] \notin Locking \cup {"write"}
  <2>1. pc'[th] \in PC /\ pc'[th] \notin Locking \cup {"write"}
    BY <1>5 DEF PC, Locking, Asking
  <2>. QED BY <1>1, <1>5, <2>1 DEF Shape
<1>7. /\ status' \in [Txn -> {"none", "active", "committed", "aborted"}]
      /\ \A u \in Txn : status'[u] = "none" => status[u] = "none"
  BY <1>1, <1>3 DEF Shape, ClearBuffer, MarkAborted, ReleaseLocks, tmVars
<1>8. buffer' \in [Txn -> SUBSET Resource]
  BY <1>1, <1>3 DEF Shape, ClearBuffer, MarkAborted, ReleaseLocks, tmVars
<1>9. toWake' \in [Thread -> SUBSET (Txn \X Resource)]
  BY <1>1 DEF SignalTypes, ClearBuffer, MarkAborted, ReleaseLocks, GrantedByReleaseAll
<1>10. Shape' /\ SignalTypes'
  BY <1>1, <1>4, <1>6, <1>7, <1>8, <1>9 DEF Shape, SignalTypes
<1>11. DetectorOK'
  BY <1>1, <1>2, <1>4, <1>5, NotDetector DEF DetectorOK, Shape, Thread, Detector
<1>12. ThreadTypes'
  BY <1>2, <1>4, <1>5, <1>6, <1>7, <1>10, <1>11, OthersTypes
<1>13. [LockNext]_lockVars
  BY <1>3 DEF ClearBuffer, MarkAborted, ReleaseLocks, LockNext
<1>. QED BY <1>12, <1>13

LEMMA SignalTypesStep ==
  ASSUME ThreadTypes, NEW th \in Thread, Signal(th)
  PROVE  ThreadTypes' /\ UNCHANGED lockVars
<1>1. Shape /\ SignalTypes /\ DetectorOK
  BY DEF ThreadTypes
<1>2. PICK g \in toWake[th] :
        /\ toWake' = [toWake EXCEPT ![th] = @ \ {g}]
        /\ event' = event \/ event' = [event EXCEPT ![g[1]] = "set"]
        /\ UNCHANGED <<lockVars, tmVars, pc, op, iter, victim>>
  BY DEF Signal
<1>3. toWake' \in [Thread -> SUBSET (Txn \X Resource)]
  BY <1>1, <1>2 DEF SignalTypes
<1>4. event' \in [Txn -> {"none", "clear", "set"}]
  BY <1>1, <1>2 DEF SignalTypes
<1>5. Shape' /\ SignalTypes' /\ DetectorOK'
  BY <1>1, <1>2, <1>3, <1>4 DEF Shape, SignalTypes, DetectorOK, tmVars
<1>6. \A u \in Txn : PlaceOK(u)'
  BY <1>2 DEF ThreadTypes, PlaceOK, tmVars
<1>. QED BY <1>2, <1>5, <1>6 DEF ThreadTypes

LEMMA DetectTypes ==
  ASSUME ThreadTypes, Detect \/ CheckVictim
  PROVE  ThreadTypes' /\ UNCHANGED lockVars
<1>1. Shape /\ SignalTypes /\ DetectorOK /\ Detector \in Thread
  BY DEF ThreadTypes, Thread
<1>2. /\ UNCHANGED <<lockVars, tmVars, op, event, iter, toWake>>
      /\ victim' \in Txn
      /\ \E there \in {"check", "clear", "ready"} : Goto(Detector, there)
  <2>1. CASE Detect
    BY <2>1 DEF Detect, Victims
  <2>2. CASE CheckVictim
    BY <1>1, <2>2 DEF CheckVictim, DetectorOK
  <2>. QED BY <2>1, <2>2
<1>3. pc' = [pc EXCEPT ![Detector] = pc'[Detector]] /\ pc'[Detector] \in {"check", "clear", "ready"}
  BY <1>1, <1>2 DEF Goto, Shape
<1>4. pc' \in [Thread -> PC]
  BY <1>1, <1>3 DEF Shape, PC
<1>5. Shape' /\ SignalTypes' /\ DetectorOK'
  BY <1>1, <1>2, <1>3, <1>4 DEF Shape, SignalTypes, DetectorOK, tmVars
<1>6. ASSUME NEW u \in Txn PROVE PlaceOK(u)'
  <2>1. PlaceOK(u) /\ pc'[u] = pc[u]
    BY <1>1, <1>3, NotDetector DEF ThreadTypes, Shape
  <2>. QED BY <1>2, <2>1 DEF PlaceOK, tmVars
<1>. QED BY <1>2, <1>5, <1>6 DEF ThreadTypes

LEMMA ThreadStep ==
  ASSUME ThreadTypes, [Next]_vars
  PROVE  ThreadTypes' /\ [LockNext]_lockVars
<1>1. CASE UNCHANGED vars
  <2>1. UNCHANGED lockVars
    BY <1>1 DEF vars, lockVars
  <2>2. ThreadTypes'
    BY <1>1 DEF vars, tmVars, threadVars, ThreadTypes, Shape, SignalTypes, DetectorOK, PlaceOK
  <2>. QED BY <2>1, <2>2
<1>2. ASSUME NEW t \in Txn, Call(t) PROVE ThreadTypes' /\ [LockNext]_lockVars
  BY <1>2, BeginTypes, CallsTypes DEF Call
<1>3. ASSUME NEW t \in Txn, Proceed(t) \/ TimeOut(t) PROVE ThreadTypes' /\ [LockNext]_lockVars
  BY <1>3, LockingTypes, AccessTypes, ApplyTypes, CommitTypes DEF Proceed
<1>4. ASSUME NEW th \in Thread, AbortStep(th) PROVE ThreadTypes' /\ [LockNext]_lockVars
  BY <1>4, AbortTypes, SignalTypesStep DEF AbortStep
<1>5. CASE Detect \/ CheckVictim
  BY <1>5, DetectTypes
<1>. QED BY <1>1, <1>2, <1>3, <1>4, <1>5 DEF Next

LEMMA InitShape == ASSUME Init PROVE Shape
<1>1. /\ parent \in [Txn -> Txn \cup {0}]
      /\ status \in [Txn -> {"none", "active", "committed", "aborted"}]
  BY DEF Init
<1>2. readSet \in [Txn -> [Resource -> Txn \cup {0, Unread}]] /\ disk \in [Resource -> Txn \cup {0}]
  BY DEF Init
<1>3. pc \in [Thread -> PC] /\ op \in [Txn -> Operation \cup {NoOp}]
  BY DEF Init, PC
<1>4. iter \in [Txn -> [size : Nat, todo : SUBSET Resource]]
  BY DEF Init
<1>5. buffer \in [Txn -> SUBSET Resource] /\ locksHeld \in [Txn -> SUBSET (Resource \X LockType)]
  BY DEF Init
<1>. QED BY <1>1, <1>2, <1>3, <1>4, <1>5 DEF Shape

LEMMA ThreadInit == Init => ThreadTypes /\ LockInit
<1>. SUFFICES ASSUME Init PROVE ThreadTypes /\ LockInit
  OBVIOUS
<1>1. Shape
  BY InitShape
<1>2. SignalTypes
  BY DEF Init, SignalTypes
<1>3. \A th \in Thread : pc[th] = "ready"
  BY DEF Init
<1>4. DetectorOK
  BY <1>3 DEF DetectorOK, Thread
<1>5. ASSUME NEW t \in Txn PROVE PlaceOK(t)
  <2>1. parent[t] = 0 /\ t # 0 /\ pc[t] = "ready"
    BY <1>3, TxnAssumption, NotDetector DEF Init
  <2>. QED BY <2>1 DEF PlaceOK, Locking, Asking
<1>. QED BY <1>1, <1>2, <1>4, <1>5 DEF ThreadTypes, Init

LEMMA ThreadTypesAlways == Spec => []ThreadTypes
<1>1. ThreadTypes /\ [Next]_vars => ThreadTypes'
  BY ThreadStep
<1>. QED BY <1>1, ThreadInit, PTL DEF Spec

\* Whatever the threads, the deadlock detector and timeouts do, the lock
\* table only ever takes steps of its own: what holds of the table under any
\* sequence of calls holds in the program.
THEOREM ThreadsUseTheTable == Spec => LockSpec
<1>1. ThreadTypes /\ [Next]_vars => [LockNext]_lockVars
  BY ThreadStep
<1>2. Init => LockInit
  BY ThreadInit
<1>. QED BY <1>1, <1>2, ThreadTypesAlways, PTL DEF Spec, LockSpec

\* Types of the whole: a thread always has arguments for the call it is in,
\* and the detector a victim.
THEOREM TransactionTypesHold == Spec => []TypeOK
<1>1. ThreadTypes /\ LockTypeOK => TypeOK
  <2>1. ThreadTypes => op \in [Txn -> [mode : LockType, res : Resource] \cup {NoOp}]
    BY DEF ThreadTypes, Shape, Operation
  <2>. QED BY <2>1 DEF ThreadTypes, Shape, SignalTypes, TypeOK
<1>. QED BY <1>1, ThreadTypesAlways, ThreadsUseTheTable, LockTypeInvariant, PTL

-----------------------------------------------------------------------------
(* Requests.  A request of an active transaction is in one place: in the   *)
(* queue of one resource, among the grants that a thread has to signal, or *)
(* behind the event that was set.                                          *)

OneRequest(e, u) ==
  \A i, j \in DOMAIN e.queue : e.queue[i].txn = u /\ e.queue[j].txn = u => i = j

AsksFor(e, u, m) == \A i \in DOMAIN e.queue : e.queue[i].txn = u => e.queue[i].mode = m

\* The entry e2 has no request of u that e did not have.
NoNew(e, e2, u) ==
  /\ Waits(e2, u) => Waits(e, u)
  /\ OneRequest(e, u) => OneRequest(e2, u)
  /\ \A m \in LockType : AsksFor(e, u, m) => AsksFor(e2, u, m)

NoneNew(u) == \A r \in Resource : NoNew(locks[r], locks'[r], u)

\* Nobody but x gives up a lock, and nobody leaves a queue at which somebody
\* else than x holds.
StaysPut(x) ==
  \A r \in Resource, w \in Txn :
    w \in locks[r].holders /\ w # x =>
      w \in locks'[r].holders /\ \A u \in Txn : Waits(locks[r], u) => Waits(locks'[r], u)

LEMMA WaitingIs ==
  ASSUME NEW r, NEW t
  PROVE  t \in Waiting(r) <=> Waits(locks[r], t)
BY DEF Waiting, Waits

LEMMA SameQueueNoNew ==
  ASSUME NEW e, NEW e2, e2.queue = e.queue, NEW u
  PROVE  NoNew(e, e2, u)
BY DEF NoNew, Waits, OneRequest, AsksFor

LEMMA ThinnedNoNew ==
  ASSUME NEW e, NEW e2, NEW out, Thinned(e2.queue, e.queue, out), NEW u
  PROVE  NoNew(e, e2, u)
<1>1. PICK f \in [DOMAIN e2.queue -> DOMAIN e.queue \ out] :
        /\ \A m, n \in DOMAIN e2.queue : f[m] = f[n] => m = n
        /\ \A n \in DOMAIN e2.queue : e2.queue[n] = e.queue[f[n]]
  BY DEF Thinned
<1>2. \A n \in DOMAIN e2.queue : f[n] \in DOMAIN e.queue
  OBVIOUS
<1>. QED BY <1>1, <1>2 DEF NoNew, Waits, OneRequest, AsksFor

\* Who is let in had asked for what it gets, and its request is gone.
LEMMA GrantGives ==
  ASSUME NEW e, e.queue \in Seq(WaitEntry), NEW u \in GrantWaiting(e.queue).holders,
         OneRequest(e, u), NEW m \in LockType, AsksFor(e, u, m)
  PROVE  /\ Waits(e, u)
         /\ Covers(GrantWaiting(e.queue), u, m)
         /\ ~ Waits(GrantWaiting(e.queue), u)
<1>. DEFINE q == e.queue
            g == GrantWaiting(q)
<1>1. q # <<>>
  BY DEF GrantWaiting, FreeEntry
<1>2. /\ g.type = Head(q).mode
      /\ g.holders = {q[i].txn : i \in GrantedPrefix(q)}
  BY <1>1 DEF GrantWaiting
<1>3. PICK i \in GrantedPrefix(q) : q[i].txn = u
  BY <1>2
<1>4. Len(q) \in Nat /\ DOMAIN q = 1 .. Len(q) /\ Len(q) >= 1 /\ Head(q) = q[1]
  BY <1>1
<1>5. i \in DOMAIN q /\ (i = 1 \/ (q[i].mode = "S" /\ q[1].mode = "S"))
  <2>1. i = 1 \/ (i \in 1 .. Len(q) /\ \A j \in 1 .. i : q[j].mode = "S")
    BY DEF GrantedPrefix
  <2>2. CASE i = 1
    BY <1>4, <2>2
  <2>3. CASE i \in 1 .. Len(q) /\ \A j \in 1 .. i : q[j].mode = "S"
    <3>1. i \in 1 .. i /\ 1 \in 1 .. i
      BY <1>4, <2>3
    <3>. QED BY <1>4, <2>3, <3>1
  <2>. QED BY <2>1, <2>2, <2>3
<1>6. q[i].mode = m
  BY <1>3, <1>5 DEF AsksFor
<1>7. Waits(e, u)
  BY <1>3, <1>5 DEF Waits
<1>8. Covers(g, u, m)
  <2>1. g.type = m
    BY <1>2, <1>4, <1>5, <1>6
  <2>2. m = "X" \/ m = "S"
    BY DEF LockType
  <2>. QED BY <2>1, <2>2 DEF Covers
<1>9. ~ Waits(g, u)
  <2>1. PICK f \in [DOMAIN g.queue -> DOMAIN q \ GrantedPrefix(q)] :
          \A n \in DOMAIN g.queue : g.queue[n] = q[f[n]]
    BY <1>1, GrantWaitingIs DEF Thinned
  <2>2. ASSUME NEW n \in DOMAIN g.queue, g.queue[n].txn = u PROVE FALSE
    <3>1. f[n] \in DOMAIN q /\ f[n] \notin GrantedPrefix(q) /\ q[f[n]].txn = u
      BY <2>1, <2>2
    <3>2. f[n] = i
      BY <1>3, <1>5, <3>1 DEF OneRequest
    <3>. QED BY <3>1, <3>2
  <2>. QED BY <2>2 DEF Waits
<1>. QED BY <1>7, <1>8, <1>9

LEMMA GrantNoNew ==
  ASSUME NEW e, e.queue \in Seq(WaitEntry), NEW u
  PROVE  NoNew(e, GrantWaiting(e.queue), u)
<1>1. CASE e.queue = <<>>
  <2>1. GrantWaiting(e.queue).queue = e.queue
    BY <1>1 DEF GrantWaiting, FreeEntry
  <2>. QED BY <2>1, SameQueueNoNew
<1>2. CASE e.queue # <<>>
  BY <1>2, GrantWaitingIs, ThinnedNoNew
<1>. QED BY <1>1, <1>2

\* What release_all does to the others.
LEMMA ReleaseAllRequests ==
  ASSUME LockTypeOK, LockInv, NEW t \in Txn, ReleaseAll(t)
  PROVE  /\ \A u \in Txn : NoneNew(u)
         /\ StaysPut(t)
         /\ \A r \in Resource, u \in Txn : u \in LetIn(locks[r], t) => Waits(locks[r], u)
<1>1. \A r \in Resource : EntryOK(locks[r]) /\ locks[r].queue \in Seq(WaitEntry)
  BY TypedEntries DEF EntryOK
<1>2. \A r \in Resource :
        locks'[r] = IF r \in txnLocks[t] THEN Vacate(locks[r], t) ELSE locks[r]
  BY DEF ReleaseAll
<1>3. ASSUME NEW r \in Resource
      PROVE  /\ locks'[r] = GrantWaiting(locks[r].queue) /\ locks[r].holders \subseteq {t}
             \/ /\ locks'[r].queue = locks[r].queue
                /\ locks[r].holders \ {t} \subseteq locks'[r].holders
  <2>1. CASE r \in txnLocks[t] /\ ~ (locks[r].holders \subseteq {t})
    <3>1. locks'[r] = [locks[r] EXCEPT !.holders = @ \ {t}]
      BY <1>2, <2>1 DEF Vacate
    <3>. QED BY <1>1, <3>1 DEF EntryOK
  <2>2. CASE ~ (r \in txnLocks[t] /\ ~ (locks[r].holders \subseteq {t}))
    BY <1>2, <2>2 DEF Vacate
  <2>. QED BY <2>1, <2>2
<1>4. ASSUME NEW u \in Txn PROVE NoneNew(u)
  BY <1>1, <1>3, GrantNoNew, SameQueueNoNew DEF NoneNew
<1>5. StaysPut(t)
  BY <1>3 DEF StaysPut, Waits
<1>6. ASSUME NEW r \in Resource, NEW u \in Txn, u \in LetIn(locks[r], t)
      PROVE  Waits(locks[r], u)
  <2>1. u \in GrantWaiting(locks[r].queue).holders
    BY <1>6 DEF LetIn, Vacate
  <2>2. locks[r].queue # <<>>
    BY <2>1 DEF GrantWaiting, FreeEntry
  <2>3. PICK i \in GrantedPrefix(locks[r].queue) : locks[r].queue[i].txn = u
    BY <2>1, <2>2 DEF GrantWaiting
  <2>4. i \in DOMAIN locks[r].queue
    BY <1>1, <2>2, PrefixIs
  <2>. QED BY <2>3, <2>4 DEF Waits
<1>. QED BY <1>4, <1>5, <1>6

LEMMA LetInGets ==
  ASSUME LockTypeOK, NEW t \in Txn, ReleaseAll(t), NEW r \in txnLocks[t],
         NEW u \in LetIn(locks[r], t), OneRequest(locks[r], u),
         NEW m \in LockType, AsksFor(locks[r], u, m)
  PROVE  Covers(locks'[r], u, m) /\ ~ Waits(locks'[r], u)
<1>1. r \in Resource /\ locks[r].queue \in Seq(WaitEntry)
  BY TypedEntries DEF EntryOK
<1>2. u \in GrantWaiting(locks[r].queue).holders /\ locks'[r] = GrantWaiting(locks[r].queue)
  BY <1>1 DEF LetIn, Vacate, ReleaseAll
<1>. QED BY <1>1, <1>2, GrantGives

\* The other operations.
LEMMA SameQueues ==
  ASSUME NEW x,
         \A s \in Resource : /\ locks'[s].queue = locks[s].queue
                             /\ locks[s].holders \ {x} \subseteq locks'[s].holders
  PROVE  (\A u \in Txn : NoneNew(u)) /\ StaysPut(x)
BY SameQueueNoNew DEF NoneNew, StaysPut, Waits

LEMMA GrantedStays ==
  ASSUME LockTypeOK, NEW t \in Txn, NEW r \in Resource, NEW m \in LockType,
         AcquireGranted(t, r, m) \/ UpgradeGranted(t, r), NEW x
  PROVE  (\A u \in Txn : NoneNew(u)) /\ StaysPut(x)
<1>1. /\ locks = [s \in Resource |-> locks[s]]
      /\ \A s \in Resource : EntryOK(locks[s])
  BY TypedEntries
<1>2. \/ locks' = locks
      \/ locks' = [locks EXCEPT ![r] = Joined(locks[r], t, m)]
      \/ locks' = [locks EXCEPT ![r] = [locks[r] EXCEPT !.type = "X"]]
  <2>1. CASE AcquireGranted(t, r, m)
    BY <2>1 DEF AcquireGranted, AcquireAgain, AcquireNow, lockVars
  <2>2. CASE UpgradeGranted(t, r)
    BY <1>1, <2>2 DEF UpgradeGranted
  <2>. QED BY <2>1, <2>2
<1>3. /\ Joined(locks[r], t, m).queue = locks[r].queue
      /\ Joined(locks[r], t, m).holders = locks[r].holders \cup {t}
      /\ [locks[r] EXCEPT !.type = "X"].queue = locks[r].queue
      /\ [locks[r] EXCEPT !.type = "X"].holders = locks[r].holders
  BY <1>1 DEF Joined, EntryOK
<1>4. \A s \in Resource : /\ locks'[s].queue = locks[s].queue
                          /\ locks[s].holders \ {x} \subseteq locks'[s].holders
  BY <1>1, <1>2, <1>3
<1>. QED BY <1>4, SameQueues

LEMMA TransferStays ==
  ASSUME LockTypeOK, NEW from \in Txn, NEW to \in Txn, TransferLocks(from, to)
  PROVE  (\A u \in Txn : NoneNew(u)) /\ StaysPut(from)
<1>1. \A s \in Resource : EntryOK(locks[s])
  BY TypedEntries
<1>2. ASSUME NEW s \in Resource
      PROVE  /\ locks'[s].queue = locks[s].queue
             /\ locks[s].holders \ {from} \subseteq locks'[s].holders
  <2>1. \/ locks'[s] = locks[s]
        \/ locks'[s] = [locks[s] EXCEPT !.holders = (@ \ {from}) \cup {to}]
    BY DEF TransferLocks
  <2>. QED BY <1>1, <2>1 DEF EntryOK
<1>. QED BY <1>2, SameQueues

LEMMA QueuedRequests ==
  ASSUME LockTypeOK, NEW t \in Txn, NEW r \in Resource, NEW m \in LockType,
         AcquireQueued(t, r, m)
  PROVE  /\ \A u \in Txn : u # t => NoneNew(u)
         /\ StaysPut(Detector)
         /\ \A s \in Resource : s # r => NoNew(locks[s], locks'[s], t)
         /\ ~ Waits(locks[r], t) => OneRequest(locks'[r], t) /\ AsksFor(locks'[r], t, m)
<1>. DEFINE w == [txn |-> t, mode |-> m]
            q == locks[r].queue
            q2 == locks'[r].queue
<1>1. /\ locks = [s \in Resource |-> locks[s]] /\ EntryOK(locks[r])
      /\ q \in Seq(WaitEntry)
  BY TypedEntries DEF EntryOK
<1>2. /\ \A s \in Resource : s # r => locks'[s] = locks[s]
      /\ locks'[r].holders = locks[r].holders
      /\ q2 = q \/ q2 = Append(q, w)
  BY <1>1 DEF AcquireQueued, EntryOK
<1>3. /\ DOMAIN q \subseteq DOMAIN q2 /\ \A i \in DOMAIN q : q2[i] = q[i]
      /\ \A i \in DOMAIN q2 : i \in DOMAIN q \/ (i = Len(q) + 1 /\ q2[i] = w)
  <2>1. CASE q2 = q
    BY <2>1
  <2>2. CASE q2 = Append(q, w)
    BY <1>1, <2>2
  <2>. QED BY <1>2, <2>1, <2>2
<1>4. ASSUME NEW u \in Txn, u # t PROVE NoneNew(u)
  <2>1. \A i \in DOMAIN q2 : q2[i].txn = u => i \in DOMAIN q /\ q2[i] = q[i]
    BY <1>3, <1>4
  <2>2. NoNew(locks[r], locks'[r], u)
    BY <2>1 DEF NoNew, Waits, OneRequest, AsksFor
  <2>. QED BY <1>2, <2>2, SameQueueNoNew DEF NoneNew
<1>5. StaysPut(Detector)
  BY <1>2, <1>3 DEF StaysPut, Waits
<1>6. \A s \in Resource : s # r => NoNew(locks[s], locks'[s], t)
  BY <1>2, SameQueueNoNew
<1>7. ASSUME ~ Waits(locks[r], t)
      PROVE  OneRequest(locks'[r], t) /\ AsksFor(locks'[r], t, m)
  <2>1. \A i \in DOMAIN q2 : q2[i].txn = t => i = Len(q) + 1 /\ q2[i] = w
    BY <1>3, <1>7 DEF Waits
  <2>. HIDE DEF q, q2
  <2>2. OneRequest([queue |-> q2], t) /\ AsksFor([queue |-> q2], t, m)
    BY <2>1 DEF OneRequest, AsksFor
  <2>. QED BY <2>2 DEF OneRequest, AsksFor, q2
<1>. QED BY <1>4, <1>5, <1>6, <1>7


-----------------------------------------------------------------------------
(* Where a transaction and the detector are, when no wait times out.       *)

StatusOK(t) ==
  /\ status[t] = "none" => pc[t] = "ready"
  /\ pc[t] \in {"upgrade", "lock", "commit", "apply", "write", "finish", "clear", "mark", "failed"}
       => status[t] = "active"
  /\ pc[t] \in {"inherit", "absorb"} => status[t] = "committed"
  /\ pc[t] = "release" => status[t] \in {"committed", "aborted"}
  /\ event[t] # "none" => pc[t] = "wait"

HasLock(t) == Covers(locks[op[t].res], t, op[t].mode)

NotTold(t) == \A th \in Thread, s \in Resource : <<t, s>> \notin toWake[th]

\* A request in a queue is the one its transaction is blocked on.
QueueInv(t) ==
  \A r \in Resource : Waits(locks[r], t) =>
    /\ pc[t] \in {"register", "wait"} /\ event[t] # "set" /\ NotTold(t)
    /\ r = op[t].res
    /\ OneRequest(locks[r], t) /\ AsksFor(locks[r], t, op[t].mode)

\* A grant that is still to be signalled is for that request, and is real.
ToldInv(t) ==
  \A th \in Thread, s \in Resource : <<t, s>> \in toWake[th] =>
    /\ pc[t] \in {"register", "wait"} /\ event[t] # "set"
    /\ s = op[t].res /\ HasLock(t)
    /\ \A th2 \in Thread : <<t, s>> \in toWake[th2] => th2 = th

\* Active, or aborted by the detector and not yet released by it.
Asked(t) == status[t] = "active" \/ (pc[Detector] = "release" /\ victim = t)

RequestInv(t) ==
  /\ status[t] = "none" => NotTold(t) /\ \A r \in Resource : ~ Waits(locks[r], t)
  /\ Asked(t) =>
       /\ QueueInv(t) /\ ToldInv(t)
       /\ event[t] = "set" \/ pc[t] = "retry" => HasLock(t)
  /\ \A r \in Resource : Waits(locks[r], t) => pc[t] \in Asking \cup {"ready"}

\* Everybody in S waits for somebody in S.
Circle(S) ==
  \A u \in S : \E r \in Resource : Waits(locks[r], u) /\ \E w \in S : w \in locks[r].holders

VictimInv ==
  /\ pc[Detector] \in {"clear", "mark"} => status[victim] = "active"
  /\ pc[Detector] = "release" => status[victim] = "aborted"
  /\ pc[Detector] \in {"check", "clear", "mark", "release"} =>
       \E S \in SUBSET Txn : victim \in S /\ Circle(S)

Base == ThreadTypes /\ LockTypeOK /\ LockInv

BlockedInv == VictimInv /\ \A t \in Txn : StatusOK(t) /\ RequestInv(t)

-----------------------------------------------------------------------------

LEMMA AtRequest ==
  ASSUME ThreadTypes, NEW t \in Txn, pc[t] \in Locking
  PROVE  op[t] \in Operation /\ op[t].res \in Resource /\ op[t].mode \in LockType
<1>1. op[t] \in Operation
  BY DEF ThreadTypes, PlaceOK
<1>. QED BY <1>1 DEF Operation

\* u is not the one that moves, and nothing is taken from it.
Untold(u) == \A th \in Thread, s \in Resource : <<u, s>> \in toWake'[th] => <<u, s>> \in toWake[th]

Rests(u) ==
  /\ pc'[u] = pc[u] /\ op'[u] = op[u] /\ event'[u] = event[u] /\ status'[u] = status[u]
  /\ Untold(u) /\ NoneNew(u)
  /\ Asked(u)' => Asked(u)
  /\ Asked(u) => Keeps(u)

LEMMA RequestFrame ==
  ASSUME ThreadTypes, NEW u \in Txn, StatusOK(u), RequestInv(u), Rests(u)
  PROVE  StatusOK(u)' /\ RequestInv(u)'
<1>. USE DEF Rests
<1>1. StatusOK(u)'
  BY DEF StatusOK
<1>2. NotTold(u) => NotTold(u)'
  BY DEF NotTold, Untold
<1>3. \A r \in Resource : Waits(locks'[r], u) => Waits(locks[r], u)
  BY DEF NoneNew, NoNew
<1>4. ASSUME Asked(u), pc[u] \in {"register", "wait", "retry"}, HasLock(u)
      PROVE  HasLock(u)'
  <2>1. op[u].res \in Resource /\ op[u].mode \in LockType
    BY <1>4, AtRequest DEF Locking, Asking
  <2>2. Covers(locks'[op[u].res], u, op[u].mode)
    BY <1>4, <2>1 DEF HasLock, Keeps
  <2>. QED BY <2>2 DEF HasLock, Covers
<1>5. ASSUME Asked(u) PROVE QueueInv(u)'
  <2>1. SUFFICES ASSUME NEW r \in Resource, Waits(locks'[r], u)
                 PROVE  /\ pc'[u] \in {"register", "wait"} /\ event'[u] # "set" /\ NotTold(u)'
                        /\ r = op'[u].res
                        /\ OneRequest(locks'[r], u) /\ AsksFor(locks'[r], u, op'[u].mode)
    BY DEF QueueInv, Waits, OneRequest, AsksFor
  <2>2. /\ pc[u] \in {"register", "wait"} /\ event[u] # "set" /\ NotTold(u)
        /\ r = op[u].res
        /\ OneRequest(locks[r], u) /\ AsksFor(locks[r], u, op[u].mode)
    BY <1>3, <1>5, <2>1 DEF RequestInv, QueueInv
  <2>3. op[u].mode \in LockType
    BY <2>2, AtRequest DEF Locking, Asking
  <2>. QED BY <1>2, <2>2, <2>3 DEF NoneNew, NoNew
<1>6. ASSUME Asked(u) PROVE ToldInv(u)'
  <2>1. SUFFICES ASSUME NEW th \in Thread, NEW s \in Resource, <<u, s>> \in toWake'[th]
                 PROVE  /\ pc'[u] \in {"register", "wait"} /\ event'[u] # "set"
                        /\ s = op'[u].res /\ HasLock(u)'
                        /\ \A th2 \in Thread : <<u, s>> \in toWake'[th2] => th2 = th
    BY DEF ToldInv
  <2>2. /\ <<u, s>> \in toWake[th]
        /\ \A th2 \in Thread : <<u, s>> \in toWake'[th2] => <<u, s>> \in toWake[th2]
    BY <2>1 DEF Untold
  <2>. QED BY <1>4, <1>6, <2>2 DEF RequestInv, ToldInv
<1>7. ASSUME Asked(u), event[u] = "set" \/ pc[u] = "retry" PROVE HasLock(u)'
  BY <1>4, <1>7 DEF RequestInv, StatusOK
<1>8. /\ status'[u] = "none" => NotTold(u)' /\ \A r \in Resource : ~ Waits(locks'[r], u)
      /\ \A r \in Resource : Waits(locks'[r], u) => pc'[u] \in Asking \cup {"ready"}
  BY <1>2, <1>3 DEF RequestInv
<1>9. /\ status'[u] = "none" => NotTold(u)' /\ \A r \in Resource : ~ Waits(locks[r], u)'
      /\ \A r \in Resource : Waits(locks[r], u)' => pc'[u] \in Asking \cup {"ready"}
  BY <1>8 DEF Waits
<1>10. RequestInv(u)'
  BY <1>5, <1>6, <1>7, <1>9 DEF RequestInv
<1>. QED BY <1>1, <1>10

\* A step of t outside of a wait leaves it without a request, if it is active.
LEMMA FreeMoves ==
  ASSUME NEW t \in Txn, StatusOK(t), RequestInv(t),
         pc[t] \notin {"register", "wait", "retry"}, pc'[t] # "retry",
         pc[t] = "access" => pc'[t] = "ready",
         pc[t] = "ready" => status[t] \in {"none", "active"},
         event'[t] = event[t], Untold(t), NoneNew(t),
         status'[t] # "none", Asked(t)' => status[t] = "none" \/ Asked(t)
  PROVE  RequestInv(t)'
<1>1. \A r \in Resource : Waits(locks'[r], t) => Waits(locks[r], t)
  BY DEF NoneNew, NoNew
<1>2. ASSUME status[t] = "none" \/ Asked(t)
      PROVE  NotTold(t) /\ \A r \in Resource : ~ Waits(locks[r], t)
  BY <1>2 DEF RequestInv, QueueInv, ToldInv, NotTold
<1>3. event'[t] # "set"
  BY DEF StatusOK
<1>4. ASSUME Asked(t)' PROVE QueueInv(t)' /\ ToldInv(t)'
  <2>1. NotTold(t) /\ \A r \in Resource : ~ Waits(locks'[r], t)
    BY <1>1, <1>2, <1>4
  <2>2. \A th \in Thread, s \in Resource : <<t, s>> \notin toWake'[th]
    BY <2>1 DEF NotTold, Untold
  <2>. QED BY <2>1, <2>2 DEF QueueInv, ToldInv, Waits
<1>5. \A r \in Resource : Waits(locks'[r], t) => pc'[t] \in Asking \cup {"ready"}
  <2>1. ASSUME NEW r \in Resource, Waits(locks'[r], t) PROVE pc[t] = "access"
    BY <1>1, <1>2, <2>1 DEF RequestInv, Asking, Asked
  <2>. QED BY <2>1
<1>6. \A r \in Resource : Waits(locks[r], t)' => pc'[t] \in Asking \cup {"ready"}
  BY <1>5 DEF Waits
<1>. QED BY <1>3, <1>4, <1>6 DEF RequestInv

LEMMA CircleStays ==
  ASSUME NEW S \in SUBSET Txn, Circle(S), NEW x, StaysPut(x),
         x \in Txn => \A r \in Resource : ~ Waits(locks[r], x)
  PROVE  Circle(S)'
<1>1. ASSUME NEW u \in S
      PROVE  \E r \in Resource : Waits(locks'[r], u) /\ \E w \in S : w \in locks'[r].holders
  <2>1. PICK r \in Resource : Waits(locks[r], u) /\ \E w \in S : w \in locks[r].holders
    BY DEF Circle
  <2>2. PICK w \in S : w \in locks[r].holders
    BY <2>1
  <2>3. w # x
    <3>1. \E s \in Resource : Waits(locks[s], w)
      BY DEF Circle
    <3>. QED BY <3>1
  <2>4. w \in locks'[r].holders /\ Waits(locks'[r], u)
    BY <2>1, <2>2, <2>3 DEF StaysPut
  <2>. QED BY <2>4
<1>. QED BY <1>1 DEF Circle, Waits

\* Who is on a circle and asked for a lock is blocked.
LEMMA OnCircle ==
  ASSUME NEW S \in SUBSET Txn, Circle(S), NEW v \in S, Asked(v), RequestInv(v)
  PROVE  pc[v] \in {"register", "wait"}
BY DEF Circle, RequestInv, QueueInv

\* A step of client t, with what it does to everybody else.
LEMMA ClientMoves ==
  ASSUME Base, BlockedInv, NEW t \in Txn, StatusOK(t)', RequestInv(t)',
         \A u \in Txn : u # t => Rests(u),
         pc'[Detector] = pc[Detector], victim' = victim,
         NEW x, StaysPut(x), x \in Txn => \A r \in Resource : ~ Waits(locks[r], x),
         status'[t] = status[t] \/ status[t] = "none" \/ pc[t] \in {"finish", "mark"}
  PROVE  BlockedInv'
<1>1. ASSUME NEW u \in Txn PROVE StatusOK(u)' /\ RequestInv(u)'
  <2>1. CASE u = t
    BY <2>1
  <2>2. CASE u # t
    BY <2>2, RequestFrame DEF Base, BlockedInv
  <2>. QED BY <2>1, <2>2
<1>2. pc[Detector] # "ready" => victim \in Txn
  BY DEF Base, ThreadTypes, DetectorOK
<1>3. pc[Detector] \in {"check", "clear", "mark", "release"} =>
        \E S \in SUBSET Txn : victim \in S /\ Circle(S)'
  BY CircleStays DEF BlockedInv, VictimInv
<1>4. ASSUME pc[Detector] \in {"clear", "mark"} PROVE status'[victim] = "active"
  <2>1. status[victim] = "active" /\ victim \in Txn
    BY <1>2, <1>4 DEF BlockedInv, VictimInv
  <2>2. pc[victim] \in {"register", "wait"}
    BY <1>4, <2>1, OnCircle DEF BlockedInv, VictimInv, Asked
  <2>. QED BY <2>1, <2>2 DEF Rests
<1>5. ASSUME pc[Detector] = "release" PROVE status'[victim] = "aborted"
  <2>1. status[victim] = "aborted" /\ victim \in Txn
    BY <1>2, <1>5 DEF BlockedInv, VictimInv
  <2>2. pc[victim] \notin {"finish", "mark"}
    BY <2>1 DEF BlockedInv, StatusOK
  <2>. QED BY <2>1, <2>2 DEF Rests
<1>. QED BY <1>1, <1>3, <1>4, <1>5 DEF BlockedInv, VictimInv

-----------------------------------------------------------------------------
(* The steps, one by one.                                                  *)

LEMMA NothingMoves ==
  ASSUME UNCHANGED lockVars, NEW x
  PROVE  (\A u \in Txn : NoneNew(u) /\ Keeps(u)) /\ StaysPut(x)
<1>1. locks' = locks
  BY DEF lockVars
<1>2. (\A u \in Txn : NoneNew(u)) /\ StaysPut(x)
  BY <1>1, SameQueues
<1>. QED BY <1>2, KeepsUnchanged

\* A client that is not in a wait, and not letting go of locks.
LEMMA FreeClient ==
  ASSUME Base, BlockedInv, NEW t \in Txn,
         \A u \in Txn : NoneNew(u) /\ (u # t => Keeps(u)),
         NEW x, StaysPut(x), x \in Txn => \A r \in Resource : ~ Waits(locks[r], x),
         NEW there, Goto(t, there), there # "retry",
         op' = [op EXCEPT ![t] = op'[t]],
         UNCHANGED <<event, victim, toWake>>,
         \A u \in Txn : u # t => status'[u] = status[u],
         status'[t] = status[t] \/ status[t] = "none" \/ pc[t] \in {"finish", "mark"},
         status'[t] # "none",
         pc[t] \notin {"register", "wait", "retry"},
         pc[t] = "access" => there = "ready",
         pc[t] = "ready" => status[t] \in {"none", "active"},
         StatusOK(t)'
  PROVE  BlockedInv'
<1>1. pc' = [pc EXCEPT ![t] = there] /\ Shape
  BY DEF Goto, Base, ThreadTypes
<1>2. /\ pc'[t] = there /\ pc'[Detector] = pc[Detector]
      /\ \A u \in Txn : u # t => pc'[u] = pc[u] /\ op'[u] = op[u]
  BY <1>1, NotDetector DEF Shape
<1>3. \A u \in Txn : Untold(u)
  BY DEF Untold
<1>4. \A u \in Txn : u # t => Rests(u)
  BY <1>2, <1>3 DEF Rests, Asked
<1>5. RequestInv(t)'
  <2>1. Asked(t)' => status[t] = "none" \/ Asked(t)
    BY <1>2 DEF BlockedInv, StatusOK, Asked
  <2>. QED BY <1>2, <1>3, <2>1, FreeMoves DEF BlockedInv
<1>. QED BY <1>2, <1>4, <1>5, ClientMoves

LEMMA CallBlocked ==
  ASSUME Base, BlockedInv, NEW t \in Txn, Call(t)
  PROVE  BlockedInv'
<1>1. Shape /\ StatusOK(t) /\ t \in Thread
  BY NotDetector DEF Base, ThreadTypes, BlockedInv
<1>2. CASE \E p \in Txn \cup {0} : Begin(t, p)
  <2>1. /\ UNCHANGED <<lockVars, pc, op, event, victim, toWake>>
        /\ status[t] = "none" /\ status' = [status EXCEPT ![t] = "active"]
    BY <1>2 DEF Begin, threadVars
  <2>2. pc[t] = "ready" /\ Goto(t, "ready")
    BY <1>1, <2>1 DEF StatusOK, Shape, Goto
  <2>3. StatusOK(t)'
    BY <1>1, <2>1, <2>2 DEF StatusOK, Shape
  <2>4. op' = [op EXCEPT ![t] = op'[t]]
    BY <1>1, <2>1 DEF Shape
  <2>5. Detector \in Txn => \A r \in Resource : ~ Waits(locks[r], Detector)
    BY NotDetector
  <2>6. \A u \in Txn : u # t => status'[u] = status[u]
    BY <1>1, <2>1 DEF Shape
  <2>7. status'[t] = "active"
    BY <1>1, <2>1 DEF Shape
  <2>. QED BY <2>1, <2>2, <2>3, <2>4, <2>5, <2>6, <2>7, NothingMoves, FreeClient
<1>3. CASE \/ \E r \in Resource : CallRead(t, r) \/ CallWrite(t, r)
           \/ CallCommit(t) \/ CallAbort(t)
  <2>1. PICK there \in {"upgrade", "lock", "access", "commit", "clear"} :
          /\ Calls(t, there)
          /\ UNCHANGED op \/ \E o : op' = [op EXCEPT ![t] = o]
    BY <1>3 DEF CallRead, CallWrite, CallCommit, CallAbort
  <2>2. /\ UNCHANGED <<lockVars, event, victim, toWake, status>> /\ Goto(t, there)
        /\ pc[t] = "ready" /\ status[t] = "active"
    BY <2>1 DEF Calls, tmVars
  <2>3. op' = [op EXCEPT ![t] = op'[t]]
    BY <1>1, <2>1 DEF Shape
  <2>4. pc'[t] = there
    BY <1>1, <2>2 DEF Goto, Shape
  <2>5. StatusOK(t)'
    BY <1>1, <2>2, <2>4 DEF StatusOK
  <2>6. Detector \in Txn => \A r \in Resource : ~ Waits(locks[r], Detector)
    BY NotDetector
  <2>7. there # "retry" /\ status'[t] # "none"
    BY <2>2
  <2>. QED BY <2>2, <2>3, <2>5, <2>6, <2>7, NothingMoves, FreeClient
<1>. QED BY <1>2, <1>3 DEF Call

\* The part of a commit or of an access that leaves the lock table alone.
LEMMA WorkBlocked ==
  ASSUME Base, BlockedInv, NEW t \in Txn,
         \/ Access(t) \/ StartApply(t) \/ NextItem(t) \/ IterationFails(t)
         \/ WriteItem(t) \/ Finish(t) \/ Absorb(t)
  PROVE  BlockedInv'
<1>1. Shape /\ StatusOK(t) /\ t \in Thread /\ PlaceOK(t)
  BY NotDetector DEF Base, ThreadTypes, BlockedInv
<1>2. /\ UNCHANGED <<lockVars, event, victim, toWake>>
      /\ UNCHANGED op \/ \E o : op' = [op EXCEPT ![t] = o]
  BY DEF Access, StartApply, NextItem, IterationFails, WriteItem, Finish, Absorb, Leave
<1>3. op' = [op EXCEPT ![t] = op'[t]]
  BY <1>1, <1>2 DEF Shape
<1>4. \E there \in {"ready", "apply", "finish", "write", "failed", "release", "inherit"} :
        /\ Goto(t, there)
        /\ \/ UNCHANGED status /\ there = "ready" /\ pc[t] \in {"access", "absorb"}
           \/ /\ UNCHANGED status /\ there \in {"apply", "finish", "write", "failed"}
              /\ pc[t] \in {"commit", "apply", "write"}
           \/ /\ status' = [status EXCEPT ![t] = "committed"]
              /\ there \in {"release", "inherit"} /\ pc[t] = "finish"
  BY DEF Access, StartApply, NextItem, IterationFails, WriteItem, Finish, Absorb, Leave, tmVars
<1>5. PICK there \in {"ready", "apply", "finish", "write", "failed", "release", "inherit"} :
        /\ Goto(t, there)
        /\ \/ UNCHANGED status /\ there = "ready" /\ pc[t] \in {"access", "absorb"}
           \/ /\ UNCHANGED status /\ there \in {"apply", "finish", "write", "failed"}
              /\ pc[t] \in {"commit", "apply", "write"}
           \/ /\ status' = [status EXCEPT ![t] = "committed"]
              /\ there \in {"release", "inherit"} /\ pc[t] = "finish"
  BY <1>4
<1>6. pc'[t] = there /\ event'[t] = "none"
  BY <1>1, <1>2, <1>5 DEF Goto, Shape, StatusOK
<1>7. /\ \A u \in Txn : u # t => status'[u] = status[u]
      /\ status'[t] = status[t] \/ (pc[t] = "finish" /\ status'[t] = "committed")
  BY <1>1, <1>5 DEF Shape
<1>8. status'[t] # "none"
  BY <1>1, <1>5, <1>7 DEF PlaceOK
<1>9. StatusOK(t)'
  BY <1>1, <1>5, <1>6, <1>7, <1>8 DEF StatusOK, Shape
<1>10. Detector \in Txn => \A r \in Resource : ~ Waits(locks[r], Detector)
  BY NotDetector
<1>. QED BY <1>2, <1>3, <1>5, <1>7, <1>8, <1>9, <1>10, NothingMoves, FreeClient

\* Asking for a lock, up to the queue.
LEMMA AskBlocked ==
  ASSUME Base, BlockedInv, NEW t \in Txn, TryUpgrade(t) \/ TryLock(t)
  PROVE  BlockedInv'
<1>1. Shape /\ StatusOK(t) /\ RequestInv(t) /\ t \in Thread /\ LockTypeOK /\ LockInv
  BY NotDetector DEF Base, ThreadTypes, BlockedInv
<1>2. /\ pc[t] \in {"upgrade", "lock"} /\ status[t] = "active" /\ event[t] = "none"
      /\ UNCHANGED <<status, op, event, victim, toWake>>
  BY <1>1 DEF TryUpgrade, TryLock, tmVars, StatusOK
<1>3. op[t] \in Operation /\ op[t].res \in Resource /\ op[t].mode \in LockType
  BY <1>2, AtRequest DEF Base, Locking
<1>4. NotTold(t) /\ \A r \in Resource : ~ Waits(locks[r], t)
  BY <1>1, <1>2 DEF RequestInv, QueueInv, ToldInv, NotTold, Asked
<1>5. op' = [op EXCEPT ![t] = op'[t]] /\ op'[t] = op[t]
  BY <1>1, <1>2 DEF Shape
<1>6. Detector \in Txn => \A r \in Resource : ~ Waits(locks[r], Detector)
  BY NotDetector
<1>7. CASE \E there \in {"access", "lock"} :
             /\ Goto(t, there)
             /\ \/ UpgradeGranted(t, op[t].res)
                \/ AcquireGranted(t, op[t].res, op[t].mode)
                \/ UNCHANGED lockVars
  <2>1. PICK there \in {"access", "lock"} :
          /\ Goto(t, there)
          /\ \/ UpgradeGranted(t, op[t].res)
             \/ AcquireGranted(t, op[t].res, op[t].mode)
             \/ UNCHANGED lockVars
    BY <1>7
  <2>2. (\A u \in Txn : NoneNew(u)) /\ StaysPut(Detector)
    BY <1>1, <1>3, <2>1, GrantedStays, NothingMoves
  <2>3. \A u \in Txn : Keeps(u)
    BY <1>1, <1>3, <2>1, UpgradeKeeps, AcquireKeeps, KeepsUnchanged DEF Acquire
  <2>4. pc'[t] = there
    BY <1>1, <2>1 DEF Goto, Shape
  <2>5. StatusOK(t)'
    BY <1>1, <1>2, <2>4 DEF StatusOK
  <2>6. /\ \A u \in Txn : u # t => status'[u] = status[u]
        /\ status'[t] = status[t] /\ status'[t] # "none"
    BY <1>2
  <2>. QED BY <1>2, <1>5, <1>6, <2>1, <2>2, <2>3, <2>5, <2>6, FreeClient
<1>8. CASE Goto(t, "register") /\ AcquireQueued(t, op[t].res, op[t].mode)
  <2>1. /\ \A u \in Txn : u # t => NoneNew(u)
        /\ StaysPut(Detector)
        /\ \A s \in Resource : s # op[t].res => NoNew(locks[s], locks'[s], t)
        /\ OneRequest(locks'[op[t].res], t) /\ AsksFor(locks'[op[t].res], t, op[t].mode)
    BY <1>1, <1>3, <1>4, <1>8, QueuedRequests
  <2>2. \A u \in Txn : Keeps(u)
    BY <1>1, <1>3, <1>8, AcquireKeeps DEF Acquire
  <2>3. /\ pc'[t] = "register" /\ pc'[Detector] = pc[Detector]
        /\ \A u \in Txn : u # t => pc'[u] = pc[u]
    BY <1>1, <1>8, NotDetector DEF Goto, Shape
  <2>4. \A u \in Txn : u # t => Rests(u)
    BY <1>2, <2>1, <2>2, <2>3 DEF Rests, Untold, Asked
  <2>5. StatusOK(t)'
    BY <1>1, <1>2, <2>3 DEF StatusOK
  <2>6. NotTold(t)'
    BY <1>2, <1>4 DEF NotTold
  <2>7. ASSUME NEW r \in Resource, Waits(locks'[r], t)
        PROVE  r = op[t].res
    BY <1>4, <2>1, <2>7 DEF NoNew
  <2>8. QueueInv(t)'
    <3>1. SUFFICES ASSUME NEW r \in Resource, Waits(locks'[r], t)
                   PROVE  /\ pc'[t] \in {"register", "wait"} /\ event'[t] # "set" /\ NotTold(t)'
                          /\ r = op'[t].res
                          /\ OneRequest(locks'[r], t) /\ AsksFor(locks'[r], t, op'[t].mode)
      BY DEF QueueInv, Waits, OneRequest, AsksFor
    <3>. QED BY <1>2, <2>1, <2>3, <2>6, <2>7, <3>1
  <2>9. ToldInv(t)'
    BY <2>6 DEF NotTold, ToldInv
  <2>10. RequestInv(t)'
    BY <1>2, <2>3, <2>8, <2>9 DEF RequestInv, Asking
  <2>. QED BY <1>2, <1>6, <2>1, <2>3, <2>4, <2>5, <2>10, ClientMoves
<1>. QED BY <1>7, <1>8 DEF TryUpgrade, TryLock

\* Waiting, until the signal comes.
LEMMA WaitBlocked ==
  ASSUME Base, BlockedInv, NEW t \in Txn, Register(t) \/ WakeUp(t)
  PROVE  BlockedInv'
<1>1. Shape /\ SignalTypes /\ StatusOK(t) /\ RequestInv(t) /\ t \in Thread
  BY NotDetector DEF Base, ThreadTypes, BlockedInv
<1>2. UNCHANGED <<lockVars, status, op, victim, toWake>> /\ locks' = locks
  BY DEF Register, WakeUp, tmVars, lockVars
<1>3. \/ pc[t] = "register" /\ event[t] = "none" /\ pc'[t] = "wait" /\ event'[t] = "clear"
      \/ pc[t] = "wait" /\ event[t] = "set" /\ pc'[t] = "retry" /\ event'[t] = "none"
  BY <1>1 DEF Register, WakeUp, Goto, Shape, SignalTypes, StatusOK
<1>4. /\ pc'[Detector] = pc[Detector]
      /\ \A u \in Txn : u # t => pc'[u] = pc[u] /\ event'[u] = event[u]
  BY <1>1, NotDetector DEF Register, WakeUp, Goto, Shape, SignalTypes
<1>5. (\A u \in Txn : NoneNew(u) /\ Keeps(u)) /\ StaysPut(Detector)
  BY <1>2, NothingMoves
<1>6. \A u \in Txn : u # t => Rests(u)
  BY <1>2, <1>4, <1>5 DEF Rests, Untold, Asked
<1>7. StatusOK(t)'
  BY <1>1, <1>2, <1>3 DEF StatusOK
<1>8. /\ HasLock(t)' <=> HasLock(t)
      /\ NotTold(t)' <=> NotTold(t)
  BY <1>2 DEF HasLock, Covers, NotTold
<1>9. RequestInv(t)'
  <2>1. QueueInv(t) => QueueInv(t)'
    BY <1>2, <1>3, <1>8 DEF QueueInv, Waits, OneRequest, AsksFor
  <2>2. ToldInv(t) => ToldInv(t)'
    BY <1>2, <1>3, <1>8 DEF ToldInv
  <2>3. Asked(t) => (event'[t] = "set" \/ pc'[t] = "retry" => HasLock(t)')
    BY <1>1, <1>3, <1>8 DEF RequestInv
  <2>4. /\ status'[t] = "none" => NotTold(t)' /\ \A r \in Resource : ~ Waits(locks[r], t)'
        /\ \A r \in Resource : Waits(locks[r], t)' => pc'[t] \in Asking \cup {"ready"}
    BY <1>1, <1>2, <1>3, <1>8 DEF RequestInv, Waits, Asking
  <2>5. Asked(t)' <=> Asked(t)
    BY <1>2, <1>4 DEF Asked
  <2>. QED BY <1>1, <2>1, <2>2, <2>3, <2>4, <2>5 DEF RequestInv
<1>10. Detector \in Txn => \A r \in Resource : ~ Waits(locks[r], Detector)
  BY NotDetector
<1>. QED BY <1>2, <1>4, <1>5, <1>6, <1>7, <1>9, <1>10, ClientMoves

\* The second acquire: of an active transaction it finds the lock granted.
LEMMA RetryBlocked ==
  ASSUME Base, BlockedInv, NEW t \in Txn, Retry(t)
  PROVE  BlockedInv'
<1>1. Shape /\ StatusOK(t) /\ RequestInv(t) /\ t \in Thread /\ LockTypeOK /\ LockInv /\ PlaceOK(t)
  BY NotDetector DEF Base, ThreadTypes, BlockedInv
<1>2. /\ pc[t] = "retry" /\ event[t] = "none" /\ status[t] # "none"
      /\ UNCHANGED <<status, event, victim, toWake>>
  BY <1>1 DEF Retry, tmVars, StatusOK
<1>3. op[t] \in Operation /\ op[t].res \in Resource /\ op[t].mode \in LockType
  BY <1>2, AtRequest DEF Base, Locking, Asking
<1>4. Asked(t) =>
        /\ Covers(locks[op[t].res], t, op[t].mode) /\ NotTold(t)
        /\ \A r \in Resource : ~ Waits(locks[r], t)
  BY <1>1, <1>2 DEF RequestInv, QueueInv, ToldInv, NotTold, HasLock
<1>5. Acquire(t, op[t].res, op[t].mode)
  BY DEF Retry, Acquire
<1>6. /\ \A u \in Txn : u # t => NoneNew(u)
      /\ StaysPut(Detector)
      /\ Asked(t) => NoneNew(t)
  <2>1. CASE AcquireGranted(t, op[t].res, op[t].mode)
    BY <1>1, <1>3, <2>1, GrantedStays
  <2>2. CASE AcquireQueued(t, op[t].res, op[t].mode)
    <3>1. ~ Asked(t)
      BY <1>4, <2>2 DEF AcquireQueued
    <3>. QED BY <1>1, <1>3, <2>2, <3>1, QueuedRequests
  <2>. QED BY <1>5, <2>1, <2>2 DEF Acquire
<1>7. \A u \in Txn : Keeps(u)
  BY <1>1, <1>3, <1>5, AcquireKeeps
<1>8. /\ pc'[t] \in {"access", "ready"} /\ pc'[Detector] = pc[Detector]
      /\ \A u \in Txn : u # t => pc'[u] = pc[u] /\ op'[u] = op[u]
  BY <1>1, NotDetector DEF Retry, Leave, Goto, Shape
<1>9. \A u \in Txn : u # t => Rests(u)
  BY <1>2, <1>6, <1>7, <1>8 DEF Rests, Untold, Asked
<1>10. StatusOK(t)'
  BY <1>1, <1>2, <1>8 DEF StatusOK
<1>11. RequestInv(t)'
  <2>1. ASSUME Asked(t) PROVE QueueInv(t)' /\ ToldInv(t)'
    <3>1. \A r \in Resource : ~ Waits(locks'[r], t)
      BY <1>4, <1>6, <2>1 DEF NoneNew, NoNew
    <3>2. \A th \in Thread, s \in Resource : <<t, s>> \notin toWake'[th]
      BY <1>2, <1>4, <2>1 DEF NotTold
    <3>. QED BY <3>1, <3>2 DEF QueueInv, ToldInv, Waits
  <2>2. Asked(t)' <=> Asked(t)
    BY <1>2, <1>8 DEF Asked
  <2>. QED BY <1>2, <1>8, <2>1, <2>2 DEF RequestInv, Asking
<1>12. Detector \in Txn => \A r \in Resource : ~ Waits(locks[r], Detector)
  BY NotDetector
<1>. QED BY <1>2, <1>6, <1>8, <1>9, <1>10, <1>11, <1>12, ClientMoves

LEMMA InheritBlocked ==
  ASSUME Base, BlockedInv, NEW t \in Txn, Inherit(t)
  PROVE  BlockedInv'
<1>1. /\ Shape /\ StatusOK(t) /\ RequestInv(t) /\ t \in Thread /\ LockTypeOK /\ LockInv
      /\ PlaceOK(t)
  BY NotDetector DEF Base, ThreadTypes, BlockedInv
<1>2. /\ pc[t] = "inherit" /\ Goto(t, "absorb") /\ TransferLocks(t, parent[t])
      /\ UNCHANGED <<status, op, event, victim, toWake>>
  BY DEF Inherit, tmVars
<1>3. parent[t] \in Txn /\ parent[t] # t /\ status[t] = "committed"
  BY <1>1, <1>2 DEF PlaceOK, Shape, StatusOK
<1>4. (\A u \in Txn : NoneNew(u) /\ (u # t => Keeps(u))) /\ StaysPut(t)
  BY <1>1, <1>2, <1>3, TransferStays, TransferKeeps
<1>5. \A r \in Resource : ~ Waits(locks[r], t)
  BY <1>1, <1>2 DEF RequestInv, Asking
<1>6. pc'[t] = "absorb" /\ op' = [op EXCEPT ![t] = op'[t]]
  BY <1>1, <1>2 DEF Goto, Shape
<1>7. StatusOK(t)'
  BY <1>1, <1>2, <1>3, <1>6 DEF StatusOK
<1>8. /\ \A u \in Txn : u # t => status'[u] = status[u]
      /\ status'[t] = status[t] /\ status'[t] # "none"
  BY <1>2, <1>3
<1>. QED BY <1>2, <1>4, <1>5, <1>6, <1>7, <1>8, FreeClient

\* A client that aborts its own transaction, up to the release.
LEMMA AbortBlocked ==
  ASSUME Base, BlockedInv, NEW t \in Txn, ClearBuffer(t) \/ MarkAborted(t)
  PROVE  BlockedInv'
<1>1. Shape /\ StatusOK(t) /\ t \in Thread /\ t # Detector
  BY NotDetector DEF Base, ThreadTypes, BlockedInv
<1>2. /\ UNCHANGED <<lockVars, op, event, victim, toWake>>
      /\ \/ pc[t] = "clear" /\ Goto(t, "mark") /\ status' = status
         \/ /\ pc[t] = "mark" /\ Goto(t, "release")
            /\ status' = [status EXCEPT ![t] = "aborted"]
  BY <1>1 DEF ClearBuffer, MarkAborted, Subject
<1>3. PICK there \in {"mark", "release"} :
        /\ Goto(t, there)
        /\ \/ pc[t] = "clear" /\ there = "mark" /\ status' = status
           \/ /\ pc[t] = "mark" /\ there = "release"
              /\ status' = [status EXCEPT ![t] = "aborted"]
  BY <1>2
<1>4. pc'[t] = there /\ op' = [op EXCEPT ![t] = op'[t]]
  BY <1>1, <1>2, <1>3 DEF Goto, Shape
<1>5. /\ \A u \in Txn : u # t => status'[u] = status[u]
      /\ status'[t] = status[t] \/ pc[t] = "mark"
      /\ status'[t] = (IF there = "mark" THEN "active" ELSE "aborted")
  BY <1>1, <1>3 DEF Shape, StatusOK
<1>6. StatusOK(t)' /\ status'[t] # "none"
  BY <1>1, <1>2, <1>3, <1>4, <1>5 DEF StatusOK
<1>7. Detector \in Txn => \A r \in Resource : ~ Waits(locks[r], Detector)
  BY NotDetector
<1>. QED BY <1>2, <1>3, <1>4, <1>5, <1>6, <1>7, NothingMoves, FreeClient

\* What a release of locks means for a transaction that is let in.
LEMMA LetInBlocked ==
  ASSUME Base, NEW th \in Thread, NEW x \in Txn, ReleaseAll(x),
         toWake' = [toWake EXCEPT ![th] = GrantedByReleaseAll(x)],
         UNCHANGED <<status, op, event>>,
         NEW u \in Txn, Asked(u), status[u] # "none", RequestInv(u), pc'[u] = pc[u],
         NEW r \in txnLocks[x], u \in LetIn(locks[r], x)
  PROVE  RequestInv(u)'
<1>1. LockTypeOK /\ LockInv /\ SignalTypes
  BY DEF Base, ThreadTypes
<1>2. r \in Resource /\ Waits(locks[r], u)
  <2>1. r \in Resource
    BY <1>1, TypedEntries
  <2>. QED BY <1>1, <2>1, ReleaseAllRequests
<1>3. /\ pc[u] \in {"register", "wait"} /\ event[u] # "set" /\ NotTold(u)
      /\ r = op[u].res
      /\ OneRequest(locks[r], u) /\ AsksFor(locks[r], u, op[u].mode)
      /\ \A s \in Resource : Waits(locks[s], u) => s = r
  BY <1>2 DEF RequestInv, QueueInv
<1>4. op[u].mode \in LockType
  BY <1>3, AtRequest DEF Base, Locking, Asking
<1>5. Covers(locks'[r], u, op[u].mode) /\ ~ Waits(locks'[r], u)
  BY <1>1, <1>3, <1>4, LetInGets
<1>6. HasLock(u)'
  BY <1>3, <1>5 DEF HasLock, Covers
<1>7. \A s \in Resource : ~ Waits(locks'[s], u)
  <2>1. \A s \in Resource : Waits(locks'[s], u) => Waits(locks[s], u)
    BY <1>1, ReleaseAllRequests DEF NoneNew, NoNew
  <2>. QED BY <1>3, <1>5, <2>1
<1>8. ASSUME NEW th2 \in Thread, NEW s \in Resource, <<u, s>> \in toWake'[th2]
      PROVE  th2 = th /\ s = r
  <2>1. th2 = th
    BY <1>1, <1>3, <1>8 DEF SignalTypes, NotTold
  <2>2. u \in LetIn(locks[s], x)
    BY <1>1, <1>8, <2>1 DEF SignalTypes, GrantedByReleaseAll
  <2>. QED BY <1>1, <1>3, <2>1, <2>2, ReleaseAllRequests
<1>9. QueueInv(u)'
  BY <1>7 DEF QueueInv, Waits
<1>10. ToldInv(u)'
  BY <1>3, <1>6, <1>8 DEF ToldInv
<1>11. \A s \in Resource : ~ Waits(locks[s], u)'
  BY <1>7 DEF Waits
<1>. QED BY <1>6, <1>9, <1>10, <1>11 DEF RequestInv

LEMMA ReleaseBlocked ==
  ASSUME Base, BlockedInv, NEW th \in Thread, ReleaseLocks(th)
  PROVE  BlockedInv'
<1>. DEFINE x == Subject(th)
<1>1. /\ Shape /\ LockTypeOK /\ LockInv /\ DetectorOK /\ SignalTypes
  BY DEF Base, ThreadTypes
<1>2. /\ pc[th] = "release" /\ ReleaseAll(x) /\ Goto(th, "ready")
      /\ toWake' = [toWake EXCEPT ![th] = GrantedByReleaseAll(x)]
      /\ UNCHANGED <<status, op, event, victim>>
  BY DEF ReleaseLocks, tmVars
<1>3. x \in Txn
  BY <1>1, <1>2 DEF Subject, Thread, Detector, DetectorOK
<1>4. status[x] \in {"committed", "aborted"}
  BY <1>2, <1>3 DEF Subject, BlockedInv, VictimInv, StatusOK
<1>. HIDE DEF x
<1>5. /\ \A u \in Txn : NoneNew(u)
      /\ StaysPut(x)
      /\ \A r \in Resource, u \in Txn : u \in LetIn(locks[r], x) => Waits(locks[r], u)
  BY <1>1, <1>2, <1>3, ReleaseAllRequests
<1>6. \A u \in Txn : u # x => Keeps(u)
  BY <1>1, <1>2, <1>3, ReleaseAllKeeps
<1>7. /\ \A u \in Thread : u # th => pc'[u] = pc[u]
      /\ pc'[th] = "ready"
  BY <1>1, <1>2 DEF Goto, Shape
<1>8. ASSUME NEW u \in Txn, u # th PROVE StatusOK(u)' /\ RequestInv(u)'
  <2>1. StatusOK(u) /\ RequestInv(u) /\ pc'[u] = pc[u]
    BY <1>7, <1>8, NotDetector DEF BlockedInv
  <2>7. Asked(u)' => Asked(u)
    BY <1>2, <1>7 DEF Asked, Thread
  <2>2. CASE Untold(u) /\ u # x
    <3>1. Rests(u)
      BY <1>2, <1>5, <1>6, <2>1, <2>2, <2>7 DEF Rests
    <3>. QED BY <2>1, <3>1, RequestFrame DEF Base
  <2>3. StatusOK(u)'
    BY <1>2, <2>1 DEF StatusOK
  <2>4. ASSUME ~ Untold(u)
        PROVE  \E r \in txnLocks[x] : r \in Resource /\ u \in LetIn(locks[r], x)
    BY <1>1, <1>2, <2>4 DEF Untold, SignalTypes, GrantedByReleaseAll
  <2>5. CASE Asked(u)'
    <3>1. u # x
      <4>1. CASE th = Detector
        BY <1>2, <1>4, <1>7, <2>5, <4>1 DEF Asked
      <4>2. CASE th # Detector
        BY <1>8, <4>2 DEF x, Subject
      <4>. QED BY <4>1, <4>2
    <3>2. CASE ~ Untold(u)
      <4>1. status[u] # "none"
        BY <1>5, <2>1, <2>4, <3>2 DEF RequestInv
      <4>. QED BY <1>2, <1>3, <2>1, <2>3, <2>4, <2>5, <2>7, <3>2, <4>1, LetInBlocked
    <3>. QED BY <2>2, <3>1, <3>2
  <2>6. CASE ~ Asked(u)'
    <3>1. status'[u] = "none" => NotTold(u)' /\ \A r \in Resource : ~ Waits(locks'[r], u)
      <4>1. ASSUME status[u] = "none" PROVE \A r \in Resource : ~ Waits(locks[r], u)
        BY <2>1, <4>1 DEF RequestInv
      <4>2. ASSUME status[u] = "none" PROVE Untold(u)
        BY <1>5, <2>4, <4>1, <4>2
      <4>3. ASSUME status[u] = "none" PROVE NotTold(u)'
        BY <2>1, <4>2, <4>3 DEF RequestInv, NotTold, Untold
      <4>. QED BY <1>2, <1>5, <4>1, <4>3 DEF NoneNew, NoNew
    <3>2. \A r \in Resource : Waits(locks'[r], u) => pc'[u] \in Asking \cup {"ready"}
      BY <1>5, <2>1 DEF RequestInv, NoneNew, NoNew
    <3>3. /\ status'[u] = "none" => NotTold(u)' /\ \A r \in Resource : ~ Waits(locks[r], u)'
          /\ \A r \in Resource : Waits(locks[r], u)' => pc'[u] \in Asking \cup {"ready"}
      BY <3>1, <3>2 DEF Waits
    <3>. QED BY <1>2, <2>3, <2>6, <3>3 DEF RequestInv
  <2>. QED BY <2>5, <2>6
<1>9. CASE th = Detector
  <2>1. \A u \in Txn : u # th
    BY <1>9, NotDetector
  <2>2. VictimInv'
    BY <1>7, <1>9 DEF VictimInv
  <2>. QED BY <1>8, <2>1, <2>2 DEF BlockedInv
<1>10. CASE th # Detector
  <2>1. th \in Txn /\ x = th
    BY <1>10 DEF Thread, x, Subject
  <2>2. StatusOK(th) /\ RequestInv(th)
    BY <2>1 DEF BlockedInv
  <2>3. \A r \in Resource : ~ Waits(locks[r], th)
    BY <1>2, <2>2 DEF RequestInv, Asking
  <2>4. StatusOK(th)'
    BY <1>2, <1>4, <1>7, <2>1, <2>2 DEF StatusOK
  <2>5. RequestInv(th)'
    <3>1. \A r \in Resource : ~ Waits(locks'[r], th)
      BY <1>5, <2>1, <2>3 DEF NoneNew, NoNew
    <3>2. ~ Asked(th)
      BY <1>2, <1>4, <2>1, <2>3 DEF Asked, BlockedInv, VictimInv, Circle
    <3>3. ~ Asked(th)'
      BY <1>2, <1>7, <1>10, <3>2 DEF Asked, Thread
    <3>. QED BY <1>2, <1>4, <2>1, <3>1, <3>3 DEF RequestInv, Waits
  <2>6. ASSUME NEW u \in Txn PROVE StatusOK(u)' /\ RequestInv(u)'
    BY <1>8, <2>4, <2>5
  <2>7. VictimInv'
    <3>1. pc'[Detector] = pc[Detector]
      BY <1>7, <1>10 DEF Thread
    <3>2. \A S \in SUBSET Txn : Circle(S) => Circle(S)'
      BY <1>3, <1>5, <2>1, <2>3, CircleStays
    <3>. QED BY <1>2, <3>1, <3>2 DEF BlockedInv, VictimInv
  <2>. QED BY <2>6, <2>7 DEF BlockedInv
<1>. QED BY <1>9, <1>10

LEMMA SignalBlocked ==
  ASSUME Base, BlockedInv, NEW th \in Thread, Signal(th)
  PROVE  BlockedInv'
<1>1. Shape /\ SignalTypes
  BY DEF Base, ThreadTypes
<1>2. PICK g \in toWake[th] :
        LET listens == event[g[1]] # "none" /\ op[g[1]].res = g[2]
        IN /\ toWake' = [toWake EXCEPT ![th] = @ \ {g}]
           /\ event' = IF listens THEN [event EXCEPT ![g[1]] = "set"] ELSE event
           /\ UNCHANGED <<lockVars, tmVars, pc, op, iter, victim>>
  BY DEF Signal
<1>3. PICK u \in Txn, r \in Resource : g = <<u, r>>
  BY <1>1 DEF SignalTypes
<1>4. /\ UNCHANGED <<lockVars, status, pc, op, victim>> /\ locks' = locks
      /\ \A w \in Txn : w # u => event'[w] = event[w]
      /\ event'[u] = event[u] \/ (event[u] # "none" /\ event'[u] = "set")
      /\ \A th2 \in Thread : toWake'[th2] \subseteq toWake[th2]
      /\ <<u, r>> \in toWake[th] /\ <<u, r>> \notin toWake'[th]
  BY <1>1, <1>2, <1>3 DEF SignalTypes, tmVars, lockVars
<1>5. (\A w \in Txn : NoneNew(w) /\ Keeps(w)) /\ StaysPut(Detector)
  BY <1>4, NothingMoves
<1>6. \A w \in Txn : w # u => Rests(w)
  BY <1>4, <1>5 DEF Rests, Untold, Asked
<1>7. StatusOK(u) /\ RequestInv(u)
  BY DEF BlockedInv
<1>8. StatusOK(u)'
  BY <1>4, <1>7 DEF StatusOK
<1>9. RequestInv(u)'
  <2>1. status[u] # "none"
    BY <1>4, <1>7 DEF RequestInv, NotTold
  <2>2. \A s \in Resource : Waits(locks[s], u)' => pc'[u] \in Asking \cup {"ready"}
    BY <1>4, <1>7 DEF RequestInv, Waits
  <2>3. ASSUME Asked(u) PROVE QueueInv(u)' /\ ToldInv(u)' /\ HasLock(u)'
    <3>1. /\ r = op[u].res /\ HasLock(u)
          /\ \A th2 \in Thread : <<u, r>> \in toWake[th2] => th2 = th
          /\ \A th2 \in Thread, s \in Resource : <<u, s>> \in toWake[th2] => s = r
      BY <1>4, <1>7, <2>3 DEF RequestInv, ToldInv
    <3>2. \A s \in Resource : ~ Waits(locks[s], u)
      BY <1>4, <1>7, <2>3 DEF RequestInv, QueueInv, NotTold
    <3>3. \A th2 \in Thread, s \in Resource : <<u, s>> \notin toWake'[th2]
      BY <1>4, <3>1
    <3>4. HasLock(u)'
      BY <1>4, <3>1 DEF HasLock, Covers
    <3>. QED BY <1>4, <3>2, <3>3, <3>4 DEF QueueInv, ToldInv, Waits
  <2>4. Asked(u)' <=> Asked(u)
    BY <1>4 DEF Asked
  <2>. QED BY <1>4, <2>1, <2>2, <2>3, <2>4 DEF RequestInv
<1>10. Detector \in Txn => \A s \in Resource : ~ Waits(locks[s], Detector)
  BY NotDetector
<1>. QED BY <1>4, <1>5, <1>6, <1>8, <1>9, <1>10, ClientMoves

\* The search of the detector finds a circle.
LEMMA VictimOnCircle ==
  ASSUME NEW v \in Txn, NEW N \in SUBSET Txn, v \in N, OnCycle(v, N)
  PROVE  \E S \in SUBSET Txn : v \in S /\ Circle(S)
<1>. DEFINE Closed(S, x) == \A u \in S \cup {x} : WaitsFor(u) \cap N \subseteq S
            Leads(x) == \A S \in SUBSET N : Closed(S, x) => v \in S
            C == {x \in N : Leads(x)}
            D == {x \in N : ~ Leads(x)}
<1>1. v \in C
  BY DEF OnCycle
<1>2. ASSUME NEW z \in D PROVE WaitsFor(z) \cap N \subseteq D
  <2>1. PICK S \in SUBSET N : Closed(S, z) /\ v \notin S
    OBVIOUS
  <2>2. ASSUME NEW y \in WaitsFor(z) \cap N PROVE y \in D
    <3>1. y \in S
      BY <2>1
    <3>2. Closed(S, y)
      BY <2>1, <3>1
    <3>. QED BY <2>1, <3>2
  <2>. QED BY <2>2
<1>3. ASSUME NEW x \in C PROVE \E y \in C : y \in WaitsFor(x)
  <2>1. SUFFICES ASSUME \A y \in C : y \notin WaitsFor(x) PROVE FALSE
    OBVIOUS
  <2>2. WaitsFor(x) \cap N \subseteq D
    BY <2>1
  <2>3. Closed(D, x) /\ D \in SUBSET N
    BY <1>2, <2>2
  <2>4. v \in D
    BY <2>3
  <2>. QED BY <1>1, <2>4
<1>. HIDE DEF C
<1>4. Circle(C)
  <2>1. ASSUME NEW x \in C
        PROVE  \E r \in Resource : Waits(locks[r], x) /\ \E w \in C : w \in locks[r].holders
    <3>1. PICK y \in C : y \in WaitsFor(x)
      BY <1>3
    <3>2. PICK r \in Resource : x \in Waiting(r) /\ y \in locks[r].holders
      BY <3>1 DEF WaitsFor
    <3>. QED BY <3>1, <3>2, WaitingIs
  <2>. QED BY <2>1 DEF Circle
<1>5. C \in SUBSET Txn
  BY DEF C
<1>. QED BY <1>1, <1>4, <1>5

LEMMA DetectorBlocked ==
  ASSUME Base, BlockedInv,
         Detect \/ CheckVictim \/ ClearBuffer(Detector) \/ MarkAborted(Detector)
  PROVE  BlockedInv'
<1>1. Shape /\ DetectorOK /\ Detector \in Thread
  BY DEF Base, ThreadTypes, Thread
<1>2. UNCHANGED <<lockVars, op, event, toWake>> /\ locks' = locks
  BY DEF Detect, CheckVictim, ClearBuffer, MarkAborted, lockVars
<1>3. /\ \E there : Goto(Detector, there)
      /\ \A u \in Txn : pc'[u] = pc[u]
  <2>1. \E there : Goto(Detector, there)
    BY DEF Detect, CheckVictim, ClearBuffer, MarkAborted
  <2>. QED BY <1>1, <2>1, NotDetector DEF Goto, Shape
<1>4. \A u \in Txn : NoneNew(u) /\ Keeps(u)
  BY <1>2, NothingMoves
<1>5. \A u \in Txn : status'[u] = status[u] /\ (Asked(u)' => Asked(u)) => Rests(u)
  BY <1>2, <1>3, <1>4 DEF Rests, Untold
<1>6. \A u \in Txn :
        status'[u] = status[u] /\ (Asked(u)' => Asked(u)) => StatusOK(u)' /\ RequestInv(u)'
  BY <1>5, RequestFrame DEF Base, BlockedInv
<1>7. \A S : Circle(S) => Circle(S)'
  BY <1>2 DEF Circle, Waits
<1>8. CASE Detect
  <2>1. /\ pc'[Detector] = "check" /\ status' = status
        /\ victim' \in Txn /\ OnCycle(victim', {n \in Txn : n <= victim'})
    BY <1>1, <1>8 DEF Detect, Goto, Shape, tmVars, Victims
  <2>2. victim' \in {n \in Txn : n <= victim'} /\ {n \in Txn : n <= victim'} \in SUBSET Txn
    BY <2>1, TxnAssumption
  <2>. DEFINE v == victim'
              N == {n \in Txn : n <= v}
  <2>3. v \in Txn /\ N \in SUBSET Txn /\ v \in N /\ OnCycle(v, N)
    BY <2>1, <2>2
  <2>. HIDE DEF v, N
  <2>4. \E S \in SUBSET Txn : v \in S /\ Circle(S)
    BY <2>3, VictimOnCircle
  <2>5. \E S \in SUBSET Txn : victim' \in S /\ Circle(S)'
    BY <1>7, <2>4 DEF v
  <2>6. \A u \in Txn : Asked(u)' => Asked(u)
    BY <2>1 DEF Asked
  <2>. QED BY <1>6, <2>1, <2>5, <2>6 DEF BlockedInv, VictimInv
<1>9. CASE CheckVictim \/ ClearBuffer(Detector)
  <2>1. /\ pc[Detector] \in {"check", "clear"} /\ victim' = victim /\ status' = status
        /\ pc'[Detector] \in {"ready", "clear", "mark"}
        /\ pc'[Detector] # "ready" => status[victim] = "active"
    BY <1>1, <1>9 DEF CheckVictim, ClearBuffer, Goto, Shape, tmVars, BlockedInv, VictimInv
  <2>2. \E S \in SUBSET Txn : victim' \in S /\ Circle(S)'
    BY <1>7, <2>1 DEF BlockedInv, VictimInv
  <2>3. \A u \in Txn : Asked(u)' => Asked(u)
    BY <2>1 DEF Asked
  <2>. QED BY <1>6, <2>1, <2>2, <2>3 DEF BlockedInv, VictimInv
<1>10. CASE MarkAborted(Detector)
  <2>1. /\ pc[Detector] = "mark" /\ pc'[Detector] = "release" /\ victim' = victim
        /\ status' = [status EXCEPT ![victim] = "aborted"]
    BY <1>1, <1>10 DEF MarkAborted, Goto, Shape, Subject
  <2>2. PICK v \in Txn : v = victim /\ status[v] = "active"
    BY <1>1, <2>1 DEF DetectorOK, BlockedInv, VictimInv
  <2>3. /\ \A u \in Txn : u # v => status'[u] = status[u] /\ (Asked(u)' => Asked(u))
        /\ status'[v] = "aborted"
    BY <1>1, <2>1, <2>2 DEF Shape, Asked
  <2>4. pc[v] \in {"register", "wait"}
    BY <2>1, <2>2, OnCircle DEF BlockedInv, VictimInv, Asked
  <2>5. StatusOK(v)'
    <3>1. StatusOK(v)
      BY DEF BlockedInv
    <3>. QED BY <1>2, <1>3, <2>3, <2>4, <3>1 DEF StatusOK
  <2>6. RequestInv(v)'
    <3>1. RequestInv(v) /\ Asked(v) /\ pc'[v] = pc[v]
      BY <1>3, <2>2 DEF BlockedInv, Asked
    <3>2. QueueInv(v)'
      BY <1>2, <3>1 DEF RequestInv, QueueInv, Waits, OneRequest, AsksFor, NotTold
    <3>3. ToldInv(v)'
      BY <1>2, <3>1 DEF RequestInv, ToldInv, HasLock, Covers
    <3>4. event'[v] = "set" \/ pc'[v] = "retry" => HasLock(v)'
      BY <1>2, <3>1 DEF RequestInv, HasLock, Covers
    <3>. QED BY <2>3, <2>4, <3>1, <3>2, <3>3, <3>4 DEF RequestInv, Asking
  <2>7. VictimInv'
    <3>1. \E S \in SUBSET Txn : victim' \in S /\ Circle(S)'
      BY <1>7, <2>1 DEF BlockedInv, VictimInv
    <3>. QED BY <2>1, <2>2, <2>3, <3>1 DEF VictimInv
  <2>8. \A u \in Txn : StatusOK(u)' /\ RequestInv(u)'
    BY <1>6, <2>3, <2>5, <2>6
  <2>. QED BY <2>7, <2>8 DEF BlockedInv
<1>. QED BY <1>8, <1>9, <1>10

LEMMA BlockedStep ==
  ASSUME ~ Timeouts, Base, BlockedInv, [Next]_vars
  PROVE  BlockedInv'
<1>1. CASE UNCHANGED vars
  <2>1. /\ UNCHANGED <<lockVars, status, pc, op, event, victim, toWake>>
        /\ locks' = locks
    BY <1>1 DEF vars, tmVars, threadVars, lockVars
  <2>2. \A u \in Txn : NoneNew(u) /\ Keeps(u)
    BY <2>1, NothingMoves
  <2>3. \A u \in Txn : StatusOK(u)' /\ RequestInv(u)'
    BY <2>1, <2>2, RequestFrame DEF Rests, Untold, Asked, Base, BlockedInv
  <2>4. VictimInv'
    BY <2>1 DEF BlockedInv, VictimInv, Circle, Waits
  <2>. QED BY <2>3, <2>4 DEF BlockedInv
<1>2. ASSUME NEW t \in Txn, Call(t) \/ Proceed(t) PROVE BlockedInv'
  BY <1>2, CallBlocked, AskBlocked, WaitBlocked, RetryBlocked, WorkBlocked, InheritBlocked
     DEF Proceed
<1>3. ASSUME NEW t \in Txn, TimeOut(t) PROVE BlockedInv'
  BY <1>3 DEF TimeOut
<1>4. ASSUME NEW th \in Thread, AbortStep(th) PROVE BlockedInv'
  <2>1. CASE ClearBuffer(th) \/ MarkAborted(th)
    BY <2>1, AbortBlocked, DetectorBlocked DEF Thread
  <2>2. CASE ReleaseLocks(th) \/ Signal(th)
    BY <2>2, ReleaseBlocked, SignalBlocked
  <2>. QED BY <1>4, <2>1, <2>2 DEF AbortStep
<1>5. CASE Detect \/ CheckVictim
  BY <1>5, DetectorBlocked
<1>. QED BY <1>1, <1>2, <1>3, <1>4, <1>5 DEF Next

LEMMA BlockedInit == Init => BlockedInv
<1>. SUFFICES ASSUME Init PROVE BlockedInv
  OBVIOUS
<1>1. /\ \A th \in Thread : pc[th] = "ready" /\ toWake[th] = {}
      /\ \A t \in Txn : status[t] = "none" /\ event[t] = "none"
      /\ \A r \in Resource : locks[r].queue = << >>
  BY DEF Init, LockInit, FreeEntry
<1>2. pc[Detector] = "ready"
  BY <1>1 DEF Thread
<1>3. ASSUME NEW t \in Txn PROVE StatusOK(t) /\ RequestInv(t)
  <2>1. pc[t] = "ready" /\ status[t] = "none" /\ event[t] = "none"
    BY <1>1, NotDetector
  <2>2. NotTold(t) /\ \A r \in Resource : ~ Waits(locks[r], t)
    BY <1>1 DEF NotTold, Waits
  <2>. QED BY <1>2, <2>1, <2>2 DEF StatusOK, RequestInv, Asked
<1>. QED BY <1>2, <1>3 DEF BlockedInv, VictimInv

LEMMA BaseAlways == Spec => []Base
<1>1. ThreadTypes /\ LockTypeOK /\ LockInv => Base
  BY DEF Base
<1>. QED BY <1>1, ThreadTypesAlways, ThreadsUseTheTable, LockTypeInvariant, LockInvAlways, PTL

LEMMA BlockedAlways == ASSUME ~ Timeouts PROVE Spec => []BlockedInv
<1>1. Base /\ BlockedInv /\ [Next]_vars => BlockedInv'
  BY BlockedStep
<1>. QED BY <1>1, BlockedInit, BaseAlways, PTL DEF Spec

\* However long the detector takes between its look at the wait-for graph, its
\* look at the status and the abort, and whatever the clients do meanwhile: as
\* long as no lock wait times out, the client of its victim is blocked.
THEOREM VictimIsBlockedAlways == ASSUME ~ Timeouts PROVE Spec => []VictimIsBlocked
<1>1. Base /\ BlockedInv => VictimIsBlocked
  <2>1. SUFFICES ASSUME Base, BlockedInv, pc[Detector] \in {"clear", "mark"}
                 PROVE  pc[victim] \in {"register", "wait"}
    BY DEF VictimIsBlocked
  <2>2. victim \in Txn /\ status[victim] = "active"
    BY <2>1 DEF Base, ThreadTypes, DetectorOK, BlockedInv, VictimInv
  <2>. QED BY <2>1, <2>2, OnCircle DEF BlockedInv, VictimInv, Asked
<1>. QED BY <1>1, BaseAlways, BlockedAlways, PTL


-----------------------------------------------------------------------------
(* Isolation and atomicity, as long as the detector, if it runs, aborts    *)
(* only who is blocked.                                                    *)

\* A transaction whose locks must still protect it.
Live(t) ==
  \/ status[t] \in {"none", "active"}
  \/ status[t] = "committed" /\ pc[t] \in {"inherit", "release"}

\* Every lock t holds is in its index, so that commit finds it.
InCall == Locking \cup {"write"}
ActiveAt == {"upgrade", "lock", "write", "commit", "apply", "finish", "clear", "mark", "failed"}

\* Where a client is, and what it may rely on there.
PlaceInv(t) ==
  /\ pc[t] \in InCall => op[t] \in Operation
  /\ pc[t] \in ActiveAt => status[t] = "active"
  /\ pc[t] \in Asking => status[t] \in {"active", "aborted"}
  /\ pc[t] \in {"inherit", "absorb"} => status[t] = "committed" /\ parent[t] # 0
  /\ pc[t] = "release" => status[t] \in {"committed", "aborted"}
  /\ pc[t] = "access" => Covers(locks[op[t].res], t, op[t].mode)
  /\ pc[t] \in {"apply", "write"} => iter[t].todo \subseteq buffer[t]
  /\ pc[t] = "write" => op[t].res \in buffer[t]

\* The locks behind what a live transaction has read and buffered.
LockedInv(t) ==
  Live(t) =>
    /\ Indexed(t)
    /\ CoversHeld(t, t)
    /\ \A r \in buffer[t] : <<r, "X">> \in locksHeld[t]
    /\ \A r \in Resource : readSet[t][r] # Unread =>
         \E m \in LockType : <<r, m>> \in locksHeld[t]

\* A committed child's locks are its live parent's once transferred.
AbsorbInv(t) ==
  pc[t] = "absorb" /\ Live(parent[t]) => CoversHeld(t, parent[t])

NestInv(t) ==
  /\ status[t] = "none" => parent[t] = 0
  /\ parent[t] # 0 => status[parent[t]] # "none" /\ parent[parent[t]] = 0

\* Items of the buffer that commit has not put on disk yet.
Pending(t) ==
  CASE pc[t] = "apply" -> iter[t].todo
    [] pc[t] = "write" -> iter[t].todo \cup {op[t].res}
    [] OTHER -> {}

DiskInv(t) ==
  /\ \A r \in Resource : disk[r] = t =>
       \/ status[t] = "committed"
       \/ /\ status[t] = "active"
          /\ pc[t] \in {"apply", "write", "finish", "failed"}
          /\ <<r, "X">> \in locksHeld[t]
  /\ \/ pc[t] \in {"apply", "write", "finish"}
     \/ status[t] = "committed" /\ pc[t] \in {"inherit", "release"}
     => \A r \in buffer[t] : disk[r] = t \/ r \in Pending(t)
  /\ Live(t) =>
       \A r \in Resource : readSet[t][r] # Unread => disk[r] \in {readSet[t][r], t}

ReadInv(t) ==
  \A r \in Resource :
    readSet[t][r] \in {0, Unread} \/ status[readSet[t][r]] = "committed"

TxnInv(t) ==
  PlaceInv(t) /\ LockedInv(t) /\ AbsorbInv(t) /\ NestInv(t) /\ DiskInv(t) /\ ReadInv(t)

IInv ==
  /\ LockInv
  /\ Shape
  /\ \A t \in Txn : TxnInv(t)

-----------------------------------------------------------------------------
(* The transactions a step is not about.                                   *)

Still(u) ==
  /\ parent'[u] = parent[u]
  /\ status'[u] = status[u]
  /\ readSet'[u] = readSet[u]
  /\ buffer'[u] = buffer[u]
  /\ locksHeld'[u] = locksHeld[u]
  /\ pc'[u] = pc[u]
  /\ op'[u] = op[u]
  /\ iter'[u] = iter[u]

\* What every step does to everybody: a transaction that has begun keeps its
\* parent, one that is committed stays so, and one whose locks still matter
\* afterwards keeps them.
Onward(v) ==
  /\ status[v] # "none" => parent'[v] = parent[v] /\ status'[v] # "none"
  /\ status[v] = "committed" => status'[v] = "committed"
  /\ Live(v)' => Live(v) /\ Keeps(v)

LEMMA Frame ==
  ASSUME IInv, NEW u \in Txn, Still(u), Keeps(u), \A v \in Txn : Onward(v)
  PROVE  /\ PlaceInv(u)' /\ LockedInv(u)' /\ AbsorbInv(u)' /\ NestInv(u)' /\ ReadInv(u)'
         /\ disk' = disk => DiskInv(u)'
<1>. USE DEF Still
<1>1. Shape /\ TxnInv(u)
  BY DEF IInv
<1>2. PlaceInv(u)'
  <2>1. pc[u] = "access" => Covers(locks'[op[u].res], u, op[u].mode)
    BY <1>1 DEF TxnInv, PlaceInv, InCall, Locking, Asking, Operation, Keeps
  <2>. QED BY <1>1, <2>1 DEF TxnInv, PlaceInv
<1>3. LockedInv(u)'
  <2>1. Live(u)' = Live(u)
    BY DEF Live
  <2>2. Live(u) => Indexed(u)' /\ CoversHeld(u, u)'
    BY <1>1, KeepsHeld DEF TxnInv, LockedInv, Keeps
  <2>. QED BY <1>1, <2>1, <2>2 DEF TxnInv, LockedInv
<1>4. AbsorbInv(u)'
  <2>1. SUFFICES ASSUME pc[u] = "absorb", Live(parent[u])'
                 PROVE  CoversHeld(u, parent[u])'
    BY DEF AbsorbInv, Live
  <2>2. parent[u] \in Txn
    BY <1>1, <2>1 DEF TxnInv, PlaceInv, Shape
  <2>3. Live(parent[u]) /\ Keeps(parent[u])
    BY <2>1, <2>2 DEF Onward
  <2>. QED BY <1>1, <2>1, <2>2, <2>3, KeepsHeld DEF TxnInv, AbsorbInv
<1>5. NestInv(u)'
  BY <1>1, TxnAssumption DEF TxnInv, NestInv, Shape, Onward
<1>6. ReadInv(u)'
  BY <1>1 DEF TxnInv, ReadInv, Shape, Onward
<1>7. ASSUME disk' = disk PROVE DiskInv(u)'
  <2>1. Live(u)' = Live(u) /\ Pending(u)' = Pending(u)
    BY DEF Live, Pending
  <2>. QED BY <1>1, <1>7, <2>1 DEF TxnInv, DiskInv
<1>. QED BY <1>2, <1>3, <1>4, <1>5, <1>6, <1>7

\* A step of t that leaves the disk alone.
LEMMA OneMoves ==
  ASSUME IInv, NEW t \in Txn, LockInv', Shape', disk' = disk,
         \A u \in Txn : u # t => Still(u) /\ Keeps(u),
         \A v \in Txn : Onward(v),
         TxnInv(t)'
  PROVE  IInv'
<1>1. ASSUME NEW u \in Txn PROVE TxnInv(u)'
  <2>1. CASE u = t
    BY <2>1
  <2>2. CASE u # t
    BY <2>2, Frame DEF TxnInv
  <2>. QED BY <2>1, <2>2
<1>. QED BY <1>1 DEF IInv

\* A step of t that only takes it further in its call: the
\* transaction itself stays as it is, and nobody loses a lock.
Moves(t) ==
  /\ UNCHANGED tmVars
  /\ pc' = [pc EXCEPT ![t] = pc'[t]]
  /\ op' = [op EXCEPT ![t] = op'[t]]
  /\ iter' = [iter EXCEPT ![t] = iter'[t]]
  /\ pc'[t] \in PC \ {"absorb", "inherit", "release", "check"}
  /\ op'[t] \in Operation \cup {NoOp}
  /\ iter'[t] \in [size : Nat, todo : SUBSET Resource]
  /\ status[t] \in {"active", "aborted"}
  /\ \A u \in Txn : Keeps(u)

LEMMA ActiveMoves ==
  ASSUME IInv, NEW t \in Txn, Moves(t), LockInv', PlaceInv(t)', DiskInv(t)'
  PROVE  IInv'
<1>. USE DEF Moves, tmVars
<1>1. Shape /\ TxnInv(t) /\ t # Detector
  BY TxnAssumption DEF IInv, Detector
<1>2. Shape'
  <2>1. pc' \in [Thread -> PC]
    BY <1>1 DEF Shape
  <2>2. op' \in [Txn -> Operation \cup {NoOp}]
    BY <1>1 DEF Shape
  <2>3. iter' \in [Txn -> [size : Nat, todo : SUBSET Resource]]
    BY <1>1 DEF Shape
  <2>. QED BY <1>1, <2>1, <2>2, <2>3 DEF Shape
<1>4. \A u \in Txn : u # t => Still(u)
  BY <1>1 DEF Still, Shape, Thread
<1>5. \A v \in Txn : Live(v)' = Live(v)
  BY <1>1, <1>4 DEF Live, Still
<1>6. \A v \in Txn : Onward(v)
  BY <1>5 DEF Onward
<1>7. LockedInv(t)'
  <2>1. Live(t) => Indexed(t)' /\ CoversHeld(t, t)'
    BY <1>1, KeepsHeld DEF TxnInv, LockedInv, Keeps
  <2>. QED BY <1>1, <1>5, <2>1 DEF TxnInv, LockedInv
<1>8. AbsorbInv(t)' /\ NestInv(t)' /\ ReadInv(t)'
  BY <1>1 DEF TxnInv, AbsorbInv, NestInv, ReadInv
<1>9. TxnInv(t)'
  BY <1>7, <1>8 DEF TxnInv
<1>. QED BY <1>2, <1>4, <1>6, <1>9, OneMoves

\* Outside of commit nothing of t is on disk.
LEMMA OutsideCommit ==
  ASSUME IInv, NEW t \in Txn, Moves(t), 
         pc[t] \notin {"apply", "write", "finish", "failed"},
         pc'[t] \notin {"apply", "write", "finish"}
  PROVE  DiskInv(t)'
<1>1. DiskInv(t) /\ UNCHANGED <<status, disk, readSet>> /\ status[t] \in {"active", "aborted"}
  BY DEF IInv, TxnInv, Moves, tmVars
<1>2. Live(t)' = Live(t)
  BY <1>1 DEF Live
<1>. QED BY <1>1, <1>2 DEF DiskInv, Moves

LEMMA CallStep ==
  ASSUME IInv, NEW t \in Txn, NEW there \in {"upgrade", "lock", "access", "commit", "clear"},
         Calls(t, there),
         \/ UNCHANGED op /\ there \in {"commit", "clear"}
         \/ \E o \in Operation :
              /\ op' = [op EXCEPT ![t] = o]
              /\ there = "access" => Covers(locks[o.res], t, o.mode)
  PROVE  IInv'
<1>1. Shape /\ TxnInv(t) /\ LockInv
  BY DEF IInv
<1>2. LockInv'
  BY <1>1, LockStep DEF Calls
<1>3. /\ pc[t] = "ready" /\ status[t] = "active"
      /\ pc' = [pc EXCEPT ![t] = there]
      /\ UNCHANGED <<tmVars, iter, lockVars>>
  BY DEF Calls, Goto
<1>4. op'[t] \in Operation \cup {NoOp} /\ op' = [op EXCEPT ![t] = op'[t]]
  BY <1>1 DEF Shape
<1>5. Moves(t)
  <2>1. pc'[t] = there /\ there \in PC
    BY <1>1, <1>3 DEF Shape, Thread, PC
  <2>2. iter' = [iter EXCEPT ![t] = iter'[t]] /\ iter'[t] \in [size : Nat, todo : SUBSET Resource]
    BY <1>1, <1>3 DEF Shape
  <2>. QED BY <1>3, <1>4, <2>1, <2>2, KeepsUnchanged DEF Moves
<1>6. PlaceInv(t)'
  BY <1>1, <1>3
  DEF PlaceInv, Shape, Thread, InCall, Locking, Asking, ActiveAt, tmVars, lockVars, Covers
<1>7. DiskInv(t)'
  BY <1>1, <1>3, <1>5, OutsideCommit DEF Shape, Thread
<1>. QED BY <1>2, <1>5, <1>6, <1>7, ActiveMoves

\* A step inside a read or a write up to the lock, given what it leads to.
LEMMA LockingStep ==
  ASSUME IInv, NEW t \in Txn,
         pc[t] \in {"upgrade", "lock", "register", "wait", "retry"},
         NEW there \in {"ready", "lock", "register", "wait", "retry", "access"},
         Goto(t, there), UNCHANGED <<tmVars, iter>>, LockInv',
         \A u \in Txn : Keeps(u),
         op' = [op EXCEPT ![t] = op'[t]],
         \/ op'[t] = op[t]
         \/ there = "ready" /\ op'[t] = NoOp,
         there = "access" => Covers(locks'[op[t].res], t, op[t].mode),
         there = "lock" => pc[t] = "upgrade"
  PROVE  IInv'
<1>1. Shape /\ TxnInv(t)
  BY DEF IInv
<1>2. /\ status[t] = "active" \/ (status[t] = "aborted" /\ pc[t] \in Asking)
      /\ op[t] \in Operation
      /\ pc' = [pc EXCEPT ![t] = there] /\ pc'[t] = there
  BY <1>1 DEF TxnInv, PlaceInv, InCall, ActiveAt, Locking, Asking, Goto, Shape, Thread
<1>3. Moves(t)
  <2>1. iter' = [iter EXCEPT ![t] = iter'[t]] /\ iter'[t] \in [size : Nat, todo : SUBSET Resource]
    BY <1>1 DEF Shape
  <2>2. there \in PC
    BY DEF PC
  <2>. QED BY <1>2, <2>1, <2>2 DEF Moves
<1>4. PlaceInv(t)'
  <2>1. /\ there \in InCall => op'[t] \in Operation
        /\ there = "access" => Covers(locks'[op'[t].res], t, op'[t].mode)
    BY <1>2 DEF InCall, Locking, Asking
  <2>2. /\ there \in Asking \cup {"lock"} => status'[t] \in {"active", "aborted"}
        /\ there = "lock" => status'[t] = "active"
    BY <1>2 DEF tmVars, Asking
  <2>. QED BY <1>2, <2>1, <2>2 DEF PlaceInv, Covers, ActiveAt, Asking
<1>5. DiskInv(t)'
  BY <1>2, <1>3, OutsideCommit
<1>. QED BY <1>3, <1>4, <1>5, ActiveMoves

LEMMA TryUpgradeStep ==
  ASSUME IInv, NEW t \in Txn, TryUpgrade(t) PROVE IInv'
<1>1. /\ Shape /\ LockInv /\ op[t] \in Operation /\ op' = [op EXCEPT ![t] = op'[t]]
      /\ op'[t] = op[t]
  BY DEF TryUpgrade, IInv, TxnInv, PlaceInv, InCall, Locking, Asking, Shape
<1>2. op[t].res \in Resource /\ op[t].mode \in LockType
  BY <1>1 DEF Operation
<1>3. CASE UpgradeGranted(t, op[t].res) /\ Goto(t, "access")
  <2>1. LockInv' /\ \A u \in Txn : Keeps(u)
    BY <1>1, <1>2, <1>3, UpgradeInv, UpgradeKeeps
  <2>2. Covers(locks'[op[t].res], t, op[t].mode)
    BY <1>1, <1>2, <1>3, UpgradeKeeps DEF Covers
  <2>. QED BY <1>1, <1>3, <2>1, <2>2, LockingStep DEF TryUpgrade
<1>4. CASE Goto(t, "lock") /\ UNCHANGED lockVars
  <2>1. LockInv' /\ \A u \in Txn : Keeps(u)
    BY <1>1, <1>4, LockStep, KeepsUnchanged
  <2>. QED BY <1>1, <1>4, <2>1, LockingStep DEF TryUpgrade
<1>. QED BY <1>3, <1>4 DEF TryUpgrade

LEMMA AcquiringStep ==
  ASSUME IInv, NEW t \in Txn, TryLock(t) \/ Retry(t) PROVE IInv'
<1>1. /\ Shape /\ LockInv /\ op[t] \in Operation /\ pc[t] \in {"lock", "retry"}
      /\ op' = [op EXCEPT ![t] = op'[t]]
      /\ UNCHANGED op => op'[t] = op[t]
      /\ UNCHANGED <<tmVars, iter>>
  BY DEF TryLock, Retry, Leave, IInv, TxnInv, PlaceInv, InCall, Locking, Asking, Shape
<1>2. op[t].res \in Resource /\ op[t].mode \in LockType
  BY <1>1 DEF Operation
<1>3. CASE AcquireGranted(t, op[t].res, op[t].mode) /\ Goto(t, "access") /\ UNCHANGED op
  <2>1. LockInv' /\ \A u \in Txn : Keeps(u)
    BY <1>1, <1>2, <1>3, AcquireInv, AcquireKeeps DEF Acquire
  <2>2. Covers(locks'[op[t].res], t, op[t].mode)
    BY <1>1, <1>2, <1>3, AcquireGives
  <2>. QED BY <1>1, <1>3, <2>1, <2>2, LockingStep
<1>4. CASE /\ AcquireQueued(t, op[t].res, op[t].mode)
           /\ \/ Goto(t, "register") /\ UNCHANGED op
              \/ Leave(t, "ready")
  <2>1. LockInv' /\ \A u \in Txn : Keeps(u)
    BY <1>1, <1>2, <1>4, AcquireInv, AcquireKeeps DEF Acquire
  <2>2. CASE Goto(t, "register") /\ UNCHANGED op
    BY <1>1, <2>1, <2>2, LockingStep
  <2>3. CASE Leave(t, "ready")
    <3>1. op'[t] = NoOp
      BY <1>1, <2>3 DEF Leave, Shape
    <3>. QED BY <1>1, <2>1, <2>3, <3>1, LockingStep DEF Leave
  <2>. QED BY <1>4, <2>2, <2>3
<1>. QED BY <1>3, <1>4 DEF TryLock, Retry

LEMMA WaitingStep ==
  ASSUME IInv, NEW t \in Txn, Register(t) \/ WakeUp(t) \/ TimeOut(t) PROVE IInv'
<1>1. /\ Shape /\ LockInv /\ pc[t] \in {"register", "wait"}
      /\ op' = [op EXCEPT ![t] = op'[t]]
      /\ UNCHANGED <<lockVars, tmVars, iter>>
  BY DEF Register, WakeUp, TimeOut, Leave, IInv, Shape
<1>2. LockInv' /\ \A u \in Txn : Keeps(u)
  BY <1>1, LockStep, KeepsUnchanged
<1>3. CASE Register(t) \/ WakeUp(t)
  <2>1. op'[t] = op[t] /\ (Goto(t, "wait") \/ Goto(t, "retry"))
    BY <1>3 DEF Register, WakeUp
  <2>. QED BY <1>1, <1>2, <2>1, LockingStep
<1>4. CASE TimeOut(t)
  <2>1. op'[t] = NoOp /\ Goto(t, "ready")
    BY <1>1, <1>4 DEF TimeOut, Leave, Shape
  <2>. QED BY <1>1, <1>2, <2>1, LockingStep
<1>. QED BY <1>3, <1>4

LEMMA ApplyStep ==
  ASSUME IInv, NEW t \in Txn, StartApply(t) \/ NextItem(t) \/ IterationFails(t)
  PROVE  IInv'
<1>1. /\ Shape /\ TxnInv(t) /\ LockInv /\ pc[t] \in {"commit", "apply"} /\ status[t] = "active"
      /\ UNCHANGED <<lockVars, tmVars>>
  BY DEF StartApply, NextItem, IterationFails, IInv, TxnInv, PlaceInv, ActiveAt
<1>2. LockInv' /\ \A u \in Txn : Keeps(u)
  BY <1>1, LockStep, KeepsUnchanged
<1>3. /\ DiskInv(t) /\ iter[t] \in [size : Nat, todo : SUBSET Resource]
      /\ op[t] \in Operation \cup {NoOp}
      /\ buffer[t] \subseteq Resource /\ t \in Thread
  BY <1>1 DEF TxnInv, Shape, Thread
<1>4. CASE StartApply(t)
  <2>1. Cardinality(buffer[t]) \in Nat
    BY <1>3, TxnAssumption, FS_Subset, FS_CardinalityType
  <2>2. /\ pc' = [pc EXCEPT ![t] = "apply"] /\ pc'[t] = "apply" /\ pc[t] = "commit"
        /\ iter' = [iter EXCEPT ![t] = iter'[t]]
        /\ iter'[t] = [size |-> Cardinality(buffer[t]), todo |-> buffer[t]]
        /\ op' = [op EXCEPT ![t] = op'[t]] /\ op'[t] = op[t]
    BY <1>1, <1>3, <1>4 DEF StartApply, Goto, Shape
  <2>3. iter'[t].todo = buffer[t] /\ iter'[t] \in [size : Nat, todo : SUBSET Resource]
    BY <1>3, <2>1, <2>2
  <2>4. Moves(t)
    BY <1>1, <1>2, <1>3, <2>2, <2>3 DEF Moves, PC
  <2>5. PlaceInv(t)'
    BY <1>1, <2>2, <2>3 DEF PlaceInv, InCall, Locking, Asking, tmVars
  <2>6. DiskInv(t)'
    BY <1>1, <1>3, <2>2, <2>3 DEF DiskInv, Pending, tmVars, Live
  <2>. QED BY <1>2, <2>4, <2>5, <2>6, ActiveMoves
<1>5. CASE NextItem(t) /\ iter[t].todo = {} /\ Leave(t, "finish") /\ UNCHANGED iter
  <2>1. /\ pc' = [pc EXCEPT ![t] = "finish"] /\ pc'[t] = "finish" /\ pc[t] = "apply"
        /\ op' = [op EXCEPT ![t] = op'[t]] /\ op'[t] = NoOp
        /\ iter' = [iter EXCEPT ![t] = iter'[t]] /\ iter'[t] = iter[t]
    BY <1>1, <1>3, <1>5 DEF NextItem, Leave, Goto, Shape
  <2>2. Moves(t)
    BY <1>1, <1>2, <1>3, <2>1 DEF Moves, PC
  <2>3. PlaceInv(t)'
    BY <1>1, <2>1 DEF PlaceInv, InCall, Locking, Asking, tmVars
  <2>4. DiskInv(t)'
    BY <1>1, <1>3, <1>5, <2>1 DEF DiskInv, Pending, tmVars, Live
  <2>. QED BY <1>2, <2>2, <2>3, <2>4, ActiveMoves
<1>6. ASSUME NextItem(t), NEW r \in iter[t].todo,
             op' = [op EXCEPT ![t] = [mode |-> "X", res |-> r]],
             iter' = [iter EXCEPT ![t].todo = @ \ {r}],
             Goto(t, "write")
      PROVE  IInv'
  <2>1. /\ pc' = [pc EXCEPT ![t] = "write"] /\ pc'[t] = "write" /\ pc[t] = "apply"
        /\ op' = [op EXCEPT ![t] = op'[t]] /\ op'[t] = [mode |-> "X", res |-> r]
        /\ iter' = [iter EXCEPT ![t] = iter'[t]]
    BY <1>1, <1>3, <1>6 DEF NextItem, Goto, Shape
  <2>2. /\ iter'[t].todo = iter[t].todo \ {r}
        /\ iter'[t] \in [size : Nat, todo : SUBSET Resource]
    BY <1>1, <1>3, <1>6 DEF Shape
  <2>3. r \in buffer[t] /\ iter[t].todo \subseteq buffer[t]
    BY <1>1, <2>1 DEF TxnInv, PlaceInv
  <2>4. op'[t] \in Operation /\ op'[t].res = r
    BY <1>3, <2>1, <2>3 DEF Operation, LockType
  <2>5. Moves(t)
    BY <1>1, <1>2, <2>1, <2>2, <2>4 DEF Moves, PC
  <2>6. PlaceInv(t)'
    BY <1>1, <2>1, <2>2, <2>3, <2>4 DEF PlaceInv, tmVars
  <2>7. DiskInv(t)'
    BY <1>1, <1>3, <2>1, <2>2, <2>4 DEF DiskInv, Pending, tmVars, Live
  <2>. QED BY <1>2, <2>5, <2>6, <2>7, ActiveMoves
<1>7. CASE IterationFails(t)
  <2>1. /\ pc' = [pc EXCEPT ![t] = "failed"] /\ pc'[t] = "failed" /\ pc[t] = "apply"
        /\ op' = [op EXCEPT ![t] = op'[t]] /\ op'[t] = NoOp
        /\ iter' = [iter EXCEPT ![t] = iter'[t]] /\ iter'[t] = iter[t]
    BY <1>1, <1>3, <1>7 DEF IterationFails, Leave, Goto, Shape
  <2>2. Moves(t)
    BY <1>1, <1>2, <1>3, <2>1 DEF Moves, PC
  <2>3. PlaceInv(t)'
    BY <1>1, <2>1 DEF PlaceInv, InCall, Locking, Asking, tmVars
  <2>4. DiskInv(t)'
    BY <1>1, <1>3, <2>1 DEF DiskInv, Pending, tmVars, Live
  <2>. QED BY <1>2, <2>2, <2>3, <2>4, ActiveMoves
<1>. QED BY <1>4, <1>5, <1>6, <1>7 DEF NextItem

\* Isolation in one line: who has an exclusive lock is alone with it.
LEMMA WriterAlone ==
  ASSUME IInv, NEW t \in Txn, NEW u \in Txn, NEW r \in Resource, NEW m \in LockType,
         Live(t), <<r, "X">> \in locksHeld[t], Live(u), <<r, m>> \in locksHeld[u]
  PROVE  u = t
<1>1. CoversHeld(t, t) /\ CoversHeld(u, u) /\ LockCompatible
  BY DEF IInv, TxnInv, LockedInv, LockInv
<1>2. Covers(locks[r], t, "X") /\ Covers(locks[r], u, m)
  BY <1>1 DEF CoversHeld
<1>. QED BY <1>1, <1>2 DEF Covers, LockCompatible

\* What is on disk is committed, or the reader's own, or locked against it.
LEMMA ReadIsCommitted ==
  ASSUME IInv, NEW t \in Txn, NEW r \in Resource,
         pc[t] = "access", Covers(locks[r], t, "S")
  PROVE  disk[r] \in Txn => status[disk[r]] = "committed"
<1>1. SUFFICES ASSUME NEW w \in Txn, disk[r] = w, status[w] # "committed" PROVE FALSE
  OBVIOUS
<1>2. /\ status[w] = "active"
      /\ pc[w] \in {"apply", "write", "finish", "failed"}
      /\ <<r, "X">> \in locksHeld[w]
  BY <1>1 DEF IInv, TxnInv, DiskInv
<1>3. Covers(locks[r], w, "X")
  BY <1>2 DEF IInv, TxnInv, LockedInv, Live, CoversHeld
<1>4. w = t
  BY <1>3 DEF Covers, IInv, LockInv, LockCompatible
<1>. QED BY <1>2, <1>4

LEMMA AccessStep ==
  ASSUME IInv, NEW t \in Txn, Access(t) PROVE IInv'
<1>. DEFINE r == op[t].res
            m == op[t].mode
<1>1. /\ Shape /\ TxnInv(t) /\ LockInv /\ pc[t] = "access" /\ status[t] \in {"active", "aborted"}
      /\ op[t] \in Operation /\ t # Detector
      /\ UNCHANGED <<lockVars, parent, status, disk, iter>>
  BY TxnAssumption DEF Access, IInv, TxnInv, PlaceInv, ActiveAt, InCall, Locking, Asking, Detector
<1>2. r \in Resource /\ m \in LockType /\ Covers(locks[r], t, m)
  BY <1>1 DEF Operation, TxnInv, PlaceInv
<1>3. /\ pc' = [pc EXCEPT ![t] = "ready"] /\ pc'[t] = "ready" /\ "ready" \in PC
      /\ op' = [op EXCEPT ![t] = NoOp]
  BY <1>1 DEF Access, Leave, Goto, Shape, Thread, PC
<1>4. LockInv' /\ \A u \in Txn : Keeps(u)
  BY <1>1, LockStep, KeepsUnchanged
<1>. HIDE DEF r, m
<1>5. /\ locksHeld' = [locksHeld EXCEPT ![t] = locksHeld'[t]]
      /\ locksHeld'[t] \subseteq locksHeld[t] \cup {<<r, m>>}
      /\ buffer' = [buffer EXCEPT ![t] = buffer'[t]]
      /\ buffer'[t] \in SUBSET Resource
      /\ Live(t) => \A s \in buffer'[t] : <<s, "X">> \in locksHeld'[t]
      /\ readSet' = [readSet EXCEPT ![t] = readSet'[t]]
      /\ readSet'[t] \in [Resource -> Txn \cup {0, Unread}]
      /\ \A s \in Resource :
           /\ readSet'[t][s] = readSet[t][s] \/ (m = "S" /\ s = r /\ readSet'[t][s] = disk[s])
           /\ Live(t) /\ readSet'[t][s] # Unread => \E n \in LockType : <<s, n>> \in locksHeld'[t]
  <2>1. CASE m = "S"
    <3>1. /\ locksHeld' = [locksHeld EXCEPT ![t] = @ \cup {<<r, "S">>}]
          /\ readSet' = [readSet EXCEPT ![t][r] = disk[r]]
          /\ buffer' = buffer
      BY <2>1 DEF Access, r, m
    <3>2. locksHeld'[t] = locksHeld[t] \cup {<<r, "S">>}
      BY <1>1, <3>1 DEF Shape
    <3>3. /\ readSet'[t] \in [Resource -> Txn \cup {0, Unread}]
          /\ \A s \in Resource : readSet'[t][s] = IF s = r THEN disk[s] ELSE readSet[t][s]
      BY <1>1, <1>2, <3>1 DEF Shape
    <3>4. \A s \in Resource : Live(t) /\ readSet'[t][s] # Unread =>
             \E n \in LockType : <<s, n>> \in locksHeld'[t]
      BY <1>1, <1>2, <3>2, <3>3, <2>1 DEF TxnInv, LockedInv
    <3>5. Live(t) => \A s \in buffer'[t] : <<s, "X">> \in locksHeld'[t]
      BY <1>1, <1>2, <3>1, <3>2 DEF TxnInv, LockedInv
    <3>. QED BY <1>1, <1>2, <2>1, <3>1, <3>2, <3>3, <3>4, <3>5 DEF Shape
  <2>2. CASE m = "X"
    <3>1. /\ locksHeld' = [locksHeld EXCEPT ![t] = (@ \ {<<r, "S">>}) \cup {<<r, "X">>}]
          /\ buffer' = [buffer EXCEPT ![t] = @ \cup {r}]
          /\ readSet' = readSet
      BY <2>2 DEF Access, r, m
    <3>2. /\ locksHeld'[t] = (locksHeld[t] \ {<<r, "S">>}) \cup {<<r, "X">>}
          /\ buffer'[t] = buffer[t] \cup {r}
      BY <1>1, <3>1 DEF Shape
    <3>3. \A s \in Resource : Live(t) /\ readSet'[t][s] # Unread =>
             \E n \in LockType : <<s, n>> \in locksHeld'[t]
      BY <1>1, <1>2, <3>1, <3>2, <2>2 DEF TxnInv, LockedInv, LockType
    <3>4. Live(t) => \A s \in buffer'[t] : <<s, "X">> \in locksHeld'[t]
      BY <1>1, <1>2, <3>1, <3>2 DEF TxnInv, LockedInv
    <3>. QED BY <1>1, <1>2, <2>2, <3>1, <3>2, <3>3, <3>4 DEF Shape
  <2>. QED BY <1>2, <2>1, <2>2 DEF LockType
<1>6. Shape'
  <2>1. locksHeld' \in [Txn -> SUBSET (Resource \X LockType)]
    <3>1. locksHeld[t] \subseteq Resource \X LockType /\ <<r, m>> \in Resource \X LockType
      BY <1>1, <1>2 DEF Shape
    <3>2. locksHeld'[t] \in SUBSET (Resource \X LockType)
      BY <1>5, <3>1
    <3>. QED BY <1>1, <1>5, <3>2 DEF Shape
  <2>2. op' \in [Txn -> Operation \cup {NoOp}] /\ pc' \in [Thread -> PC]
    BY <1>1, <1>3 DEF Shape
  <2>3. buffer' \in [Txn -> SUBSET Resource]
    BY <1>1, <1>5 DEF Shape
  <2>4. readSet' \in [Txn -> [Resource -> Txn \cup {0, Unread}]]
    BY <1>1, <1>5 DEF Shape
  <2>. QED BY <1>1, <2>1, <2>2, <2>3, <2>4 DEF Shape
<1>8. \A u \in Txn : u # t => Still(u)
  BY <1>1, <1>3, <1>5 DEF Still, Shape, Thread
<1>9. \A v \in Txn : Live(v)' = Live(v)
  BY <1>1, <1>3, <1>8 DEF Live, Still
<1>10. \A v \in Txn : Onward(v)
  BY <1>1, <1>4, <1>9 DEF Onward
<1>11. PlaceInv(t)'
  BY <1>1, <1>3 DEF PlaceInv, InCall, Locking, Asking, ActiveAt
<1>12. LockedInv(t)'
  <2>. SUFFICES ASSUME Live(t) PROVE LockedInv(t)'
    BY <1>9 DEF LockedInv
  <2>1. Indexed(t)'
    BY <1>1, <1>2, <1>4 DEF TxnInv, LockedInv, Keeps
  <2>2. CoversHeld(t, t)'
    <3>1. \A h \in locksHeld'[t] : Covers(locks[h[1]], t, h[2])
      BY <1>1, <1>2, <1>5 DEF TxnInv, LockedInv, CoversHeld
    <3>. QED BY <1>1, <3>1 DEF CoversHeld, Covers, lockVars
  <2>. QED BY <2>1, <2>2, <1>5 DEF LockedInv
<1>13. AbsorbInv(t)' /\ NestInv(t)'
  BY <1>1, <1>3 DEF TxnInv, AbsorbInv, NestInv
<1>14. DiskInv(t)'
  <2>1. DiskInv(t) /\ Live(t)' = Live(t)
    BY <1>1, <1>9 DEF TxnInv
  <2>. QED BY <1>1, <1>3, <1>5, <2>1 DEF DiskInv
<1>15. ReadInv(t)'
  <2>1. m = "S" => (disk[r] \in Txn => status[disk[r]] = "committed")
    BY <1>1, <1>2, ReadIsCommitted
  <2>2. disk[r] \in Txn \cup {0}
    BY <1>1, <1>2 DEF Shape
  <2>. QED BY <1>1, <1>5, <2>1, <2>2 DEF TxnInv, ReadInv
<1>. QED BY <1>1, <1>4, <1>6, <1>8, <1>10, <1>11, <1>12, <1>13, <1>14, <1>15,
            OneMoves DEF TxnInv

LEMMA WriteItemStep ==
  ASSUME IInv, NEW t \in Txn, WriteItem(t) PROVE IInv'
<1>. DEFINE r == op[t].res
<1>1. /\ Shape /\ TxnInv(t) /\ LockInv /\ pc[t] = "write" /\ status[t] = "active"
      /\ op[t] \in Operation /\ t # Detector /\ Live(t)
      /\ pc' = [pc EXCEPT ![t] = "apply"] /\ pc'[t] = "apply"
      /\ UNCHANGED <<lockVars, parent, status, readSet, buffer, locksHeld, op, iter>>
  BY TxnAssumption
  DEF WriteItem, IInv, TxnInv, PlaceInv, ActiveAt, InCall, Locking, Asking, Detector, Goto,
      Shape, Thread, Live
<1>2. /\ r \in Resource /\ r \in buffer[t] /\ <<r, "X">> \in locksHeld[t]
      /\ disk' = [disk EXCEPT ![r] = t]
      /\ \A s \in Resource : disk'[s] = IF s = r THEN t ELSE disk[s]
  BY <1>1 DEF Operation, TxnInv, PlaceInv, LockedInv, WriteItem, Shape
<1>3. LockInv' /\ \A u \in Txn : Keeps(u)
  BY <1>1, LockStep, KeepsUnchanged
<1>4. Shape'
  <2>1. pc' \in [Thread -> PC] /\ disk' \in [Resource -> Txn \cup {0}]
    BY <1>1, <1>2 DEF Shape, PC
  <2>. QED BY <1>1, <2>1 DEF Shape
<1>6. \A u \in Txn : u # t => Still(u)
  BY <1>1 DEF Still, Shape, Thread
<1>7. \A v \in Txn : Onward(v)
  <2>1. \A v \in Txn : Live(v)' = Live(v)
    BY <1>1, <1>6 DEF Live, Still
  <2>. QED BY <1>1, <1>3, <2>1 DEF Onward
<1>8. ASSUME NEW u \in Txn, u # t PROVE TxnInv(u)'
  <2>1. DiskInv(u) /\ PlaceInv(u) /\ LockedInv(u)
    BY DEF IInv, TxnInv
  <2>2. Live(u) => r \notin buffer[u] /\ readSet[u][r] = Unread
    <3>1. Live(u) => \A m \in LockType : <<r, m>> \notin locksHeld[u]
      BY <1>1, <1>2, <1>8, WriterAlone
    <3>. QED BY <1>2, <2>1, <3>1 DEF LockedInv, LockType
  <2>3. DiskInv(u)'
    <3>1. Live(u)' = Live(u) /\ Pending(u)' = Pending(u) /\ Still(u)
      BY <1>6, <1>8 DEF Live, Pending, Still
    <3>2. /\ pc[u] \in {"apply", "write", "finish"} => Live(u)
          /\ status[u] = "committed" /\ pc[u] \in {"inherit", "release"} => Live(u)
      BY <2>1 DEF PlaceInv, ActiveAt, InCall, Locking, Asking, Live
    <3>3. buffer[u] \subseteq Resource
      BY <1>1 DEF Shape
    <3>. QED BY <1>2, <1>8, <2>1, <2>2, <3>1, <3>2, <3>3 DEF DiskInv, Still
  <2>. QED BY <1>3, <1>6, <1>7, <1>8, <2>3, Frame DEF TxnInv
<1>9. TxnInv(t)'
  <2>1. PlaceInv(t)'
    BY <1>1 DEF TxnInv, PlaceInv, InCall, Locking, Asking, ActiveAt
  <2>2. LockedInv(t)'
    <3>1. Indexed(t)' /\ CoversHeld(t, t)'
      BY <1>1, <1>3, KeepsHeld DEF TxnInv, LockedInv, Keeps
    <3>. QED BY <1>1, <3>1 DEF TxnInv, LockedInv
  <2>3. AbsorbInv(t)' /\ NestInv(t)' /\ ReadInv(t)'
    BY <1>1 DEF TxnInv, AbsorbInv, NestInv, ReadInv
  <2>4. DiskInv(t)'
    <3>1. DiskInv(t) /\ buffer[t] \subseteq Resource
      BY <1>1 DEF TxnInv, Shape
    <3>2. Pending(t) = iter[t].todo \cup {r} /\ Pending(t)' = iter[t].todo
      BY <1>1 DEF Pending
    <3>. QED BY <1>1, <1>2, <3>1, <3>2 DEF DiskInv
  <2>. QED BY <2>1, <2>2, <2>3, <2>4 DEF TxnInv
<1>. QED BY <1>3, <1>4, <1>8, <1>9 DEF IInv

LEMMA FinishStep ==
  ASSUME IInv, NEW t \in Txn, Finish(t) PROVE IInv'
<1>1. /\ Shape /\ TxnInv(t) /\ LockInv /\ pc[t] = "finish" /\ status[t] = "active"
      /\ t # Detector /\ Live(t)
      /\ pc' = [pc EXCEPT ![t] = pc'[t]]
      /\ pc'[t] = IF parent[t] = 0 THEN "release" ELSE "inherit"
      /\ status' = [status EXCEPT ![t] = "committed"] /\ status'[t] = "committed"
      /\ UNCHANGED <<lockVars, parent, disk, readSet, buffer, locksHeld, op, iter>>
  BY TxnAssumption
  DEF Finish, IInv, TxnInv, PlaceInv, ActiveAt, Detector, Goto, Shape, Thread, Live
<1>2. LockInv' /\ \A u \in Txn : Keeps(u)
  BY <1>1, LockStep, KeepsUnchanged
<1>3. Shape'
  <2>1. pc' \in [Thread -> PC] /\ status' \in [Txn -> {"none", "active", "committed", "aborted"}]
    BY <1>1 DEF Shape, PC
  <2>. QED BY <1>1, <2>1 DEF Shape
<1>5. \A u \in Txn : u # t => Still(u)
  BY <1>1 DEF Still, Shape, Thread
<1>6. \A v \in Txn : Onward(v)
  <2>1. \A v \in Txn : Live(v)' = Live(v)
    BY <1>1, <1>5 DEF Live, Still
  <2>. QED BY <1>1, <1>2, <1>5, <2>1 DEF Onward, Still
<1>7. PlaceInv(t)'
  BY <1>1 DEF PlaceInv, InCall, Locking, Asking, ActiveAt
<1>8. LockedInv(t)'
  <2>1. Indexed(t)' /\ CoversHeld(t, t)'
    BY <1>1, <1>2, KeepsHeld DEF TxnInv, LockedInv, Keeps
  <2>. QED BY <1>1, <2>1 DEF TxnInv, LockedInv
<1>9. AbsorbInv(t)' /\ NestInv(t)'
  BY <1>1, <1>5 DEF TxnInv, AbsorbInv, NestInv, Still, Shape
<1>10. ReadInv(t)'
  BY <1>1, <1>5, <1>6 DEF TxnInv, ReadInv, Onward, Shape
<1>11. DiskInv(t)'
  <2>1. DiskInv(t) /\ Pending(t) = {} /\ Pending(t)' = {}
    BY <1>1 DEF TxnInv, Pending
  <2>. QED BY <1>1, <2>1 DEF DiskInv
<1>. QED BY <1>1, <1>2, <1>3, <1>5, <1>6, <1>7, <1>8, <1>9, <1>10, <1>11,
            OneMoves DEF TxnInv

LEMMA InheritStep ==
  ASSUME IInv, NEW t \in Txn, Inherit(t) PROVE IInv'
<1>0. PICK p \in Txn : p = parent[t] /\ p # 0
  BY TxnAssumption DEF Inherit, IInv, TxnInv, PlaceInv, Shape
<1>1. /\ Shape /\ TxnInv(t) /\ LockInv /\ pc[t] = "inherit" /\ status[t] = "committed"
      /\ t # Detector /\ Live(t)
      /\ parent[t] = p /\ p # t /\ parent[p] = 0
      /\ pc' = [pc EXCEPT ![t] = "absorb"] /\ pc'[t] = "absorb"
      /\ TransferLocks(t, p)
      /\ UNCHANGED <<tmVars, op, iter>>
  BY <1>0, TxnAssumption
  DEF Inherit, IInv, TxnInv, PlaceInv, NestInv, Detector, Goto, Shape, Thread, Live
<1>2. LockInv'
  BY <1>1, TransferInv
<1>3. /\ \A u \in Txn : u # t => Keeps(u)
      /\ \A r \in Resource, m \in LockType : Covers(locks[r], t, m) => Covers(locks'[r], p, m)
  <2>1. Indexed(t)
    BY <1>1 DEF TxnInv, LockedInv
  <2>. QED BY <1>1, <2>1, TransferKeeps
<1>4. Shape'
  <2>1. pc' \in [Thread -> PC]
    BY <1>1 DEF Shape, PC
  <2>. QED BY <1>1, <2>1 DEF Shape, tmVars
<1>6. \A u \in Txn : u # t => Still(u)
  BY <1>1 DEF Still, Shape, Thread, tmVars
<1>7. ~ Live(t)'
  BY <1>1 DEF Live, tmVars
<1>8. \A v \in Txn : Onward(v)
  <2>1. \A v \in Txn : v # t => Live(v)' = Live(v)
    BY <1>1, <1>6 DEF Live, Still
  <2>. QED BY <1>1, <1>3, <1>7, <2>1 DEF Onward, tmVars
<1>9. PlaceInv(t)'
  BY <1>0, <1>1 DEF PlaceInv, InCall, Locking, Asking, ActiveAt, tmVars
<1>10. LockedInv(t)' /\ NestInv(t)' /\ ReadInv(t)'
  BY <1>1, <1>7 DEF TxnInv, LockedInv, NestInv, ReadInv, tmVars
<1>11. AbsorbInv(t)'
  <2>1. CoversHeld(t, t) /\ locksHeld[t] \subseteq Resource \X LockType
    BY <1>1 DEF TxnInv, LockedInv, Shape
  <2>2. \A h \in locksHeld[t] : h[1] \in Resource /\ h[2] \in LockType
    BY <2>1
  <2>3. \A h \in locksHeld[t] : Covers(locks'[h[1]], p, h[2])
    BY <1>3, <2>1, <2>2 DEF CoversHeld
  <2>. QED BY <1>1, <2>3 DEF AbsorbInv, CoversHeld, Covers, tmVars
<1>12. DiskInv(t)'
  BY <1>1, <1>7 DEF TxnInv, DiskInv, tmVars
<1>. QED BY <1>1, <1>2, <1>3, <1>4, <1>6, <1>8, <1>9, <1>10, <1>11, <1>12,
            OneMoves DEF TxnInv, tmVars

LEMMA AbsorbStep ==
  ASSUME IInv, NEW t \in Txn, Absorb(t) PROVE IInv'
<1>0. PICK p \in Txn : p = parent[t] /\ p # 0
  BY TxnAssumption DEF Absorb, IInv, TxnInv, PlaceInv, Shape
<1>1. /\ Shape /\ TxnInv(t) /\ LockInv /\ pc[t] = "absorb" /\ status[t] = "committed"
      /\ t # Detector /\ ~ Live(t)
      /\ parent[t] = p /\ p # t /\ parent[p] = 0
      /\ pc' = [pc EXCEPT ![t] = "ready"] /\ pc'[t] = "ready"
      /\ locksHeld' = [locksHeld EXCEPT ![p] = @ \cup locksHeld[t]]
      /\ locksHeld'[p] = locksHeld[p] \cup locksHeld[t]
      /\ UNCHANGED <<lockVars, parent, status, readSet, buffer, disk, op, iter>>
  BY <1>0, TxnAssumption
  DEF Absorb, IInv, TxnInv, PlaceInv, NestInv, Detector, Goto, Shape, Thread, Live
<1>2. LockInv' /\ \A u \in Txn : Keeps(u)
  BY <1>1, LockStep, KeepsUnchanged
<1>3. Shape'
  <2>1. pc' \in [Thread -> PC]
    BY <1>1 DEF Shape, PC
  <2>2. locksHeld' \in [Txn -> SUBSET (Resource \X LockType)]
    BY <1>1 DEF Shape
  <2>. QED BY <1>1, <2>1, <2>2 DEF Shape
<1>5. \A u \in Txn : u # t /\ u # p => Still(u)
  BY <1>1 DEF Still, Shape, Thread
<1>6. ~ Live(t)' /\ locksHeld'[t] = locksHeld[t]
  BY <1>1 DEF Live, Shape
<1>7. Live(p)' = Live(p) /\ pc'[p] = pc[p]
  BY <1>1 DEF Live, Shape, Thread
<1>8. \A v \in Txn : Onward(v)
  <2>1. \A v \in Txn : Live(v)' => Live(v)
    BY <1>1, <1>5, <1>6, <1>7 DEF Live, Still
  <2>. QED BY <1>1, <1>2, <2>1 DEF Onward
<1>9. TxnInv(t)'
  <2>1. PlaceInv(t)' /\ AbsorbInv(t)' /\ NestInv(t)' /\ ReadInv(t)' /\ LockedInv(t)'
    BY <1>1, <1>6
    DEF TxnInv, PlaceInv, InCall, Locking, Asking, ActiveAt, AbsorbInv, NestInv, ReadInv, LockedInv
  <2>2. DiskInv(t)'
    BY <1>1, <1>6 DEF TxnInv, DiskInv
  <2>. QED BY <2>1, <2>2 DEF TxnInv
<1>10. TxnInv(p)'
  <2>1. TxnInv(p) /\ pc[p] \notin {"inherit", "absorb"}
    BY <1>1 DEF IInv, TxnInv, PlaceInv
  <2>2. PlaceInv(p)' /\ AbsorbInv(p)' /\ NestInv(p)' /\ ReadInv(p)'
    BY <1>1, <1>7, <2>1 DEF TxnInv, PlaceInv, Covers, lockVars, AbsorbInv, NestInv, ReadInv
  <2>3. LockedInv(p)'
    <3>1. SUFFICES ASSUME Live(p) PROVE LockedInv(p)'
      BY <1>7 DEF LockedInv
    <3>2. Indexed(p)'
      BY <1>2, <2>1, <3>1 DEF TxnInv, LockedInv, Keeps
    <3>3. CoversHeld(p, p) /\ CoversHeld(t, p)
      BY <1>1, <2>1, <3>1 DEF TxnInv, LockedInv, AbsorbInv
    <3>4. \A h \in locksHeld'[p] : Covers(locks[h[1]], p, h[2])
      BY <1>1, <3>3 DEF CoversHeld
    <3>5. CoversHeld(p, p)'
      BY <1>1, <3>4 DEF CoversHeld, Covers, lockVars
    <3>. QED BY <1>1, <2>1, <3>1, <3>2, <3>5 DEF TxnInv, LockedInv
  <2>4. DiskInv(p)'
    <3>1. DiskInv(p) /\ Pending(p)' = Pending(p)
      BY <1>1, <1>7, <2>1 DEF TxnInv, Pending
    <3>. QED BY <1>1, <1>7, <3>1 DEF DiskInv
  <2>. QED BY <2>2, <2>3, <2>4 DEF TxnInv
<1>11. ASSUME NEW u \in Txn, u # t, u # p PROVE TxnInv(u)'
  BY <1>1, <1>2, <1>5, <1>8, <1>11, Frame DEF TxnInv
<1>. QED BY <1>2, <1>3, <1>9, <1>10, <1>11 DEF IInv

LEMMA AbortingStep ==
  ASSUME IInv, NEW t \in Txn, ClearBuffer(t) \/ MarkAborted(t) PROVE IInv'
<1>1. /\ Shape /\ TxnInv(t) /\ LockInv /\ pc[t] \in {"clear", "mark"} /\ status[t] = "active"
      /\ t # Detector /\ Subject(t) = t /\ Live(t)
      /\ UNCHANGED <<lockVars, parent, readSet, locksHeld, disk, op, iter>>
  BY TxnAssumption
  DEF ClearBuffer, MarkAborted, IInv, TxnInv, PlaceInv, ActiveAt, Detector, Subject, Live
<1>2. /\ pc' = [pc EXCEPT ![t] = pc'[t]]
      /\ buffer' = [buffer EXCEPT ![t] = buffer'[t]]
      /\ status' = [status EXCEPT ![t] = status'[t]]
      /\ \/ pc'[t] = "mark" /\ status'[t] = "active" /\ buffer'[t] = {}
         \/ pc'[t] = "release" /\ status'[t] = "aborted" /\ buffer'[t] = buffer[t]
  BY <1>1 DEF ClearBuffer, MarkAborted, Goto, Shape, Thread
<1>3. LockInv' /\ \A u \in Txn : Keeps(u)
  BY <1>1, LockStep, KeepsUnchanged
<1>4. Shape'
  <2>1. /\ pc' \in [Thread -> PC]
        /\ status' \in [Txn -> {"none", "active", "committed", "aborted"}]
    <3>1. pc'[t] \in PC /\ status'[t] \in {"none", "active", "committed", "aborted"}
      BY <1>2 DEF PC
    <3>. QED BY <1>1, <1>2, <3>1 DEF Shape
  <2>2. buffer'[t] \in SUBSET Resource
    BY <1>1, <1>2 DEF Shape
  <2>3. buffer' \in [Txn -> SUBSET Resource]
    BY <1>1, <1>2, <2>2 DEF Shape
  <2>. QED BY <1>1, <2>1, <2>3 DEF Shape
<1>6. \A u \in Txn : u # t => Still(u)
  BY <1>1, <1>2 DEF Still, Shape, Thread
<1>7. \A v \in Txn : Onward(v)
  <2>1. \A v \in Txn : Live(v)' => Live(v)
    BY <1>1, <1>6 DEF Live, Still
  <2>. QED BY <1>1, <1>2, <1>3, <1>6, <2>1 DEF Onward, Still
<1>8. PlaceInv(t)' /\ NestInv(t)' /\ AbsorbInv(t)'
  BY <1>1, <1>2, <1>6
  DEF TxnInv, PlaceInv, NestInv, AbsorbInv, InCall, Locking, Asking, ActiveAt, Still, Shape
<1>9. LockedInv(t)'
  <2>1. Indexed(t)' /\ CoversHeld(t, t)'
    BY <1>1, <1>3, KeepsHeld DEF TxnInv, LockedInv, Keeps
  <2>. QED BY <1>1, <1>2, <2>1 DEF TxnInv, LockedInv
<1>10. ReadInv(t)'
  BY <1>1, <1>7 DEF TxnInv, ReadInv, Onward, Shape
<1>11. DiskInv(t)'
  BY <1>1, <1>2 DEF TxnInv, DiskInv, Live
<1>. QED BY <1>1, <1>3, <1>4, <1>6, <1>7, <1>8, <1>9, <1>10, <1>11,
            OneMoves DEF TxnInv

LEMMA ReleaseLocksStep ==
  ASSUME IInv, NEW t \in Txn, ReleaseLocks(t) PROVE IInv'
<1>1. /\ Shape /\ TxnInv(t) /\ LockInv /\ pc[t] = "release"
      /\ status[t] \in {"committed", "aborted"}
      /\ t # Detector /\ ReleaseAll(t)
      /\ pc' = [pc EXCEPT ![t] = "ready"] /\ pc'[t] = "ready"
      /\ UNCHANGED <<tmVars, op, iter>>
  BY TxnAssumption
  DEF ReleaseLocks, IInv, TxnInv, PlaceInv, Detector, Subject, Goto, Shape, Thread
<1>2. LockInv' /\ \A u \in Txn : u # t => Keeps(u)
  BY <1>1, ReleaseAllInv, ReleaseAllKeeps
<1>3. Shape'
  <2>1. pc' \in [Thread -> PC]
    BY <1>1 DEF Shape, PC
  <2>. QED BY <1>1, <2>1 DEF Shape, tmVars
<1>5. \A u \in Txn : u # t => Still(u)
  BY <1>1 DEF Still, Shape, Thread, tmVars
<1>6. ~ Live(t)'
  BY <1>1 DEF Live, tmVars
<1>7. \A v \in Txn : Onward(v)
  <2>1. \A v \in Txn : v # t => Live(v)' = Live(v)
    BY <1>1, <1>5 DEF Live, Still
  <2>. QED BY <1>1, <1>2, <1>6, <2>1 DEF Onward, tmVars
<1>8. TxnInv(t)'
  <2>1. PlaceInv(t)'
    BY <1>1 DEF PlaceInv, InCall, Locking, Asking, ActiveAt, tmVars
  <2>2. LockedInv(t)' /\ NestInv(t)' /\ AbsorbInv(t)' /\ ReadInv(t)'
    BY <1>1, <1>6 DEF TxnInv, LockedInv, NestInv, AbsorbInv, ReadInv, tmVars
  <2>3. DiskInv(t)'
    BY <1>1, <1>6 DEF TxnInv, DiskInv, tmVars
  <2>. QED BY <2>1, <2>2, <2>3 DEF TxnInv
<1>. QED BY <1>1, <1>2, <1>3, <1>5, <1>7, <1>8, OneMoves DEF tmVars

LEMMA BeginStep ==
  ASSUME IInv, NEW t \in Txn, NEW p \in Txn \cup {0}, Begin(t, p) PROVE IInv'
<1>1. /\ Shape /\ TxnInv(t) /\ LockInv /\ status[t] = "none"
      /\ pc[t] \notin ActiveAt \cup Asking \cup {"inherit", "absorb", "release"}
      /\ status' = [status EXCEPT ![t] = "active"] /\ status'[t] = "active"
      /\ parent' = [parent EXCEPT ![t] = p] /\ parent'[t] = p
      /\ UNCHANGED <<lockVars, readSet, buffer, locksHeld, disk, pc, op, iter>>
  BY DEF Begin, IInv, TxnInv, PlaceInv, threadVars, Shape
<1>2. LockInv' /\ \A u \in Txn : Keeps(u)
  BY <1>1, LockStep, KeepsUnchanged
<1>3. Shape'
  <2>1. /\ parent' \in [Txn -> Txn \cup {0}]
        /\ status' \in [Txn -> {"none", "active", "committed", "aborted"}]
    BY <1>1 DEF Shape
  <2>. QED BY <1>1, <2>1 DEF Shape
<1>5. \A u \in Txn : u # t => Still(u)
  BY <1>1 DEF Still, Shape
<1>6. Live(t) /\ Live(t)'
  BY <1>1 DEF Live
<1>7. \A v \in Txn : Onward(v)
  <2>1. \A v \in Txn : Live(v)' = Live(v)
    BY <1>1, <1>5, <1>6 DEF Live, Still
  <2>. QED BY <1>1, <1>2, <1>5, <2>1 DEF Onward, Still
<1>8. PlaceInv(t)' /\ AbsorbInv(t)'
  BY <1>1 DEF PlaceInv, AbsorbInv, InCall, Locking, Asking, ActiveAt
<1>9. LockedInv(t)'
  <2>1. Indexed(t)' /\ CoversHeld(t, t)'
    BY <1>1, <1>2, <1>6, KeepsHeld DEF TxnInv, LockedInv, Keeps
  <2>. QED BY <1>1, <1>6, <2>1 DEF TxnInv, LockedInv
<1>10. NestInv(t)'
  <2>1. p # 0 => p \in Txn /\ p # t /\ status[p] # "none" /\ parent[p] = 0
    BY <1>1 DEF Begin
  <2>. QED BY <1>1, <2>1 DEF NestInv, Shape
<1>11. ReadInv(t)'
  BY <1>1, <1>7 DEF TxnInv, ReadInv, Onward, Shape
<1>12. DiskInv(t)'
  BY <1>1, <1>6 DEF TxnInv, DiskInv, ActiveAt, InCall, Locking, Asking
<1>. QED BY <1>1, <1>2, <1>3, <1>5, <1>7, <1>8, <1>9, <1>10, <1>11, <1>12,
            OneMoves DEF TxnInv

\* What isolation needs of the detector: whom it aborts is blocked, and stays
\* so until its locks are gone.
Calm ==
  /\ pc[Detector] \in {"clear", "mark", "release"} =>
       victim \in Txn /\ pc[victim] \in {"register", "wait"}
  /\ pc[Detector] \in {"clear", "mark"} => status[victim] = "active"
  /\ pc[Detector] = "release" => status[victim] = "aborted"

LEMMA VictimStep ==
  ASSUME IInv, Calm,
         ClearBuffer(Detector) \/ MarkAborted(Detector) \/ ReleaseLocks(Detector)
  PROVE  IInv'
<1>1. PICK v \in Txn : v = victim /\ pc[v] \in {"register", "wait"}
  BY DEF Calm, ClearBuffer, MarkAborted, ReleaseLocks
<1>2. /\ Shape /\ TxnInv(v) /\ LockInv /\ Subject(Detector) = v
      /\ UNCHANGED <<parent, readSet, locksHeld, disk, op, iter>>
  BY <1>1 DEF IInv, Subject, ClearBuffer, MarkAborted, ReleaseLocks, tmVars
<1>3. /\ buffer' = [buffer EXCEPT ![v] = buffer'[v]] /\ buffer'[v] \in {buffer[v], {}}
      /\ status' = [status EXCEPT ![v] = status'[v]]
      /\ \E there \in {"ready", "mark", "release"} : Goto(Detector, there)
      /\ \/ status[v] = "active" /\ status'[v] = "active" /\ UNCHANGED lockVars
         \/ status[v] = "active" /\ status'[v] = "aborted" /\ UNCHANGED lockVars
         \/ status[v] = "aborted" /\ status'[v] = "aborted" /\ ReleaseAll(v)
  BY <1>1, <1>2 DEF Calm, ClearBuffer, MarkAborted, ReleaseLocks, Shape, tmVars
<1>4. LockInv' /\ \A u \in Txn : u # v => Keeps(u)
  BY <1>2, <1>3, LockStep, KeepsUnchanged, ReleaseAllInv, ReleaseAllKeeps
<1>5. pc' \in [Thread -> PC] /\ \A u \in Txn : pc'[u] = pc[u]
  BY <1>2, <1>3, NotDetector DEF Goto, Shape, PC
<1>6. Shape'
  <2>1. /\ buffer' \in [Txn -> SUBSET Resource]
        /\ status' \in [Txn -> {"none", "active", "committed", "aborted"}]
    BY <1>2, <1>3 DEF Shape
  <2>. QED BY <1>2, <1>5, <2>1 DEF Shape
<1>7. \A u \in Txn : u # v => Still(u)
  BY <1>2, <1>3, <1>5 DEF Still, Shape
<1>8. Live(v)' => Live(v) /\ UNCHANGED lockVars
  BY <1>1, <1>3, <1>5 DEF Live
<1>9. \A u \in Txn : Onward(u)
  <2>1. \A u \in Txn : u # v => Live(u)' = Live(u)
    BY <1>7 DEF Live, Still
  <2>. QED BY <1>2, <1>3, <1>4, <1>7, <1>8, <2>1, KeepsUnchanged DEF Onward, Still
<1>10. PlaceInv(v)' /\ AbsorbInv(v)'
  BY <1>1, <1>2, <1>3, <1>5
  DEF TxnInv, PlaceInv, AbsorbInv, InCall, ActiveAt, Locking, Asking
<1>11. NestInv(v)'
  BY <1>2, <1>3, <1>9 DEF TxnInv, NestInv, Onward, Shape
<1>12. LockedInv(v)'
  <2>1. SUFFICES ASSUME Live(v)' PROVE LockedInv(v)'
    BY DEF LockedInv
  <2>2. Live(v) /\ Keeps(v)
    BY <1>8, <2>1, KeepsUnchanged
  <2>3. Indexed(v)' /\ CoversHeld(v, v)'
    BY <1>2, <2>2, KeepsHeld DEF TxnInv, LockedInv, Keeps
  <2>. QED BY <1>2, <1>3, <2>2, <2>3 DEF TxnInv, LockedInv
<1>13. DiskInv(v)'
  BY <1>1, <1>2, <1>3, <1>5, <1>8 DEF TxnInv, DiskInv
<1>14. ReadInv(v)'
  BY <1>2, <1>9 DEF TxnInv, ReadInv, Onward, Shape
<1>. QED BY <1>2, <1>4, <1>6, <1>7, <1>9, <1>10, <1>11, <1>12, <1>13, <1>14,
            OneMoves DEF TxnInv

LEMMA Step ==
  ASSUME IInv, Calm, [Next]_vars PROVE IInv'
<1>1. CASE UNCHANGED <<lockVars, tmVars, op, iter>> /\ pc' \in [Thread -> PC]
           /\ \A u \in Txn : pc'[u] = pc[u]
  <2>1. LockInv' /\ Shape'
    BY <1>1, LockStep DEF IInv, Shape, tmVars
  <2>2. \A u \in Txn : Still(u) /\ Keeps(u) /\ Onward(u)
    BY <1>1, KeepsUnchanged DEF tmVars, Still, Onward, Live
  <2>3. \A u \in Txn : TxnInv(u)'
    BY <1>1, <2>2, Frame DEF tmVars, TxnInv
  <2>. QED BY <2>1, <2>3 DEF IInv
<1>2. ASSUME NEW t \in Txn, Call(t) PROVE IInv'
  <2>1. CASE \E p \in Txn \cup {0} : Begin(t, p)
    BY <2>1, BeginStep
  <2>2. ASSUME NEW r \in Resource, CallRead(t, r) PROVE IInv'
    <3>1. [mode |-> "S", res |-> r] \in Operation
      BY DEF Operation, LockType
    <3>. QED BY <2>2, <3>1, CallStep DEF CallRead
  <2>3. ASSUME NEW r \in Resource, CallWrite(t, r) PROVE IInv'
    <3>. DEFINE o == [mode |-> "X", res |-> r]
    <3>1. o \in Operation /\ o.res = r /\ o.mode = "X"
      BY DEF Operation, LockType
    <3>2. op' = [op EXCEPT ![t] = o]
      BY <2>3 DEF CallWrite
    <3>3. CASE <<r, "X">> \in locksHeld[t] /\ Calls(t, "access")
      <4>1. Covers(locks[r], t, "X")
        BY <3>3 DEF Calls, IInv, TxnInv, LockedInv, Live, CoversHeld
      <4>2. Covers(locks[o.res], t, o.mode)
        BY <3>1, <4>1
      <4>. HIDE DEF o
      <4>. QED BY <3>1, <3>2, <3>3, <4>2, CallStep
    <3>4. CASE Calls(t, "upgrade") \/ Calls(t, "lock")
      <4>. HIDE DEF o
      <4>. QED BY <3>1, <3>2, <3>4, CallStep
    <3>. QED BY <2>3, <3>3, <3>4 DEF CallWrite
  <2>4. CASE CallCommit(t) \/ CallAbort(t)
    BY <2>4, CallStep DEF CallCommit, CallAbort
  <2>. QED BY <1>2, <2>1, <2>2, <2>3, <2>4 DEF Call
<1>3. ASSUME NEW t \in Txn, Proceed(t) \/ TimeOut(t) PROVE IInv'
  BY <1>3, TryUpgradeStep, AcquiringStep, WaitingStep, AccessStep, ApplyStep, WriteItemStep,
     FinishStep, InheritStep, AbsorbStep DEF Proceed
<1>4. ASSUME NEW th \in Thread, AbortStep(th) PROVE IInv'
  <2>1. CASE Signal(th)
    BY <2>1, <1>1 DEF Signal, IInv, Shape
  <2>2. CASE th = Detector /\ ~ Signal(th)
    BY <1>4, <2>2, VictimStep DEF AbortStep
  <2>3. CASE th \in Txn /\ ~ Signal(th)
    BY <1>4, <2>3, AbortingStep, ReleaseLocksStep DEF AbortStep
  <2>. QED BY <2>1, <2>2, <2>3 DEF Thread
<1>5. CASE Detect \/ CheckVictim
  <2>1. \E there \in PC : Goto(Detector, there)
    BY <1>5 DEF Detect, CheckVictim, PC
  <2>2. pc' \in [Thread -> PC] /\ \A u \in Txn : pc'[u] = pc[u]
    BY <2>1, NotDetector DEF Goto, IInv, Shape
  <2>. QED BY <1>1, <1>5, <2>2 DEF Detect, CheckVictim
<1>6. CASE UNCHANGED vars
  BY <1>1, <1>6 DEF vars, threadVars, lockVars, tmVars, IInv, Shape
<1>. QED BY <1>2, <1>3, <1>4, <1>5, <1>6 DEF Next

LEMMA InitInv == Init => IInv
<1>. SUFFICES ASSUME Init PROVE IInv
  OBVIOUS
<1>1. LockInv
  BY LockInitInv DEF Init
<1>2. Shape
  BY InitShape
<1>4. ASSUME NEW t \in Txn PROVE TxnInv(t)
  <2>1. /\ parent[t] = 0 /\ status[t] = "none" /\ pc[t] = "ready" /\ buffer[t] = {}
        /\ locksHeld[t] = {} /\ \A r \in Resource : readSet[t][r] = Unread /\ disk[r] = 0
        /\ \A r \in Resource : locks[r].holders = {}
        /\ t # 0
    BY TxnAssumption DEF Init, LockInit, FreeEntry, Thread
  <2>2. PlaceInv(t) /\ AbsorbInv(t) /\ NestInv(t) /\ ReadInv(t)
    BY <2>1 DEF PlaceInv, InCall, Locking, Asking, ActiveAt, AbsorbInv, NestInv, ReadInv
  <2>3. LockedInv(t) /\ DiskInv(t)
    BY <2>1 DEF LockedInv, Indexed, CoversHeld, DiskInv
  <2>. QED BY <2>2, <2>3 DEF TxnInv
<1>. QED BY <1>1, <1>2, <1>4 DEF IInv

LEMMA CalmAlways ==
  ASSUME ~ Detection \/ ~ Timeouts PROVE Spec => []Calm
<1>1. CASE ~ Detection
  <2>. DEFINE Idle == pc[Detector] = "ready"
  <2>1. Init => Idle
    BY DEF Init, Thread
  <2>2. ASSUME ThreadTypes, Idle, [Next]_vars PROVE Idle'
    <3>1. ASSUME NEW t \in Txn, Call(t) \/ Proceed(t) \/ TimeOut(t)
          PROVE  pc' = pc \/ \E there : Goto(t, there)
      BY <3>1
      DEF Call, Begin, threadVars, CallRead, CallWrite, CallCommit, CallAbort, Calls,
          Proceed, TryUpgrade, TryLock, Register, WakeUp, Retry, Access, StartApply, NextItem,
          IterationFails, WriteItem, Finish, Inherit, Absorb, TimeOut, Leave
    <3>2. ASSUME NEW th \in Thread, AbortStep(th)
          PROVE  pc' = pc \/ (th # Detector /\ \E there : Goto(th, there))
      BY <2>2, <3>2 DEF AbortStep, ClearBuffer, MarkAborted, ReleaseLocks, Signal
    <3>3. pc' = pc \/ \E th \in Thread : th # Detector /\ \E there : Goto(th, there)
      BY <1>1, <2>2, <3>1, <3>2, NotDetector DEF Next, Detect, CheckVictim, vars, threadVars
    <3>4. ASSUME NEW th \in Thread, th # Detector, NEW there, Goto(th, there) PROVE Idle'
      BY <2>2, <3>4 DEF ThreadTypes, Shape, Goto, Thread
    <3>. QED BY <2>2, <3>3, <3>4
  <2>3. Idle => Calm
    BY DEF Calm
  <2>. QED BY <2>1, <2>2, <2>3, ThreadTypesAlways, PTL DEF Spec
<1>2. CASE ~ Timeouts
  <2>1. Base /\ BlockedInv => Calm
    <3>1. SUFFICES ASSUME Base, BlockedInv, pc[Detector] \in {"clear", "mark", "release"}
                   PROVE  Calm
      BY DEF Calm
    <3>2. PICK v \in Txn : v = victim
      BY <3>1 DEF Base, ThreadTypes, DetectorOK
    <3>3. Asked(v) /\ RequestInv(v) /\ \E S \in SUBSET Txn : v \in S /\ Circle(S)
      BY <3>1, <3>2 DEF BlockedInv, VictimInv, Asked
    <3>4. pc[v] \in {"register", "wait"}
      BY <3>3, OnCircle
    <3>. QED BY <3>1, <3>2, <3>4 DEF Calm, BlockedInv, VictimInv
  <2>. QED BY <1>2, <2>1, BaseAlways, BlockedAlways, PTL
<1>. QED BY <1>1, <1>2

LEMMA IInvAlways ==
  ASSUME ~ Detection \/ ~ Timeouts PROVE Spec => []IInv
<1>1. IInv /\ Calm /\ [Next]_vars => IInv'
  BY Step
<1>. QED BY <1>1, InitInv, CalmAlways, PTL DEF Spec

-----------------------------------------------------------------------------
(* The theorems: with timeouts or with the detector, but not with both,    *)
(* strict two-phase locking delivers what it is for, however calls         *)
(* interleave.                                                             *)

\* What an active transaction has read stays what is stored.
THEOREM ReadsStayCurrentAlways ==
  ASSUME ~ Detection \/ ~ Timeouts PROVE Spec => []ReadsStayCurrent
<1>1. IInv => ReadsStayCurrent
  BY DEF IInv, TxnInv, DiskInv, Live, ReadsStayCurrent
<1>. QED BY <1>1, IInvAlways, PTL

\* Nobody reads what is not committed, although commit writes item by item.
THEOREM ReadsCommittedAlways ==
  ASSUME ~ Detection \/ ~ Timeouts PROVE Spec => []ReadsCommitted
<1>1. IInv => ReadsCommitted
  BY DEF IInv, TxnInv, ReadInv, ReadsCommitted
<1>. QED BY <1>1, IInvAlways, PTL

\* An aborted transaction has written nothing, a committed one everything.
THEOREM AllOrNothingAlways ==
  ASSUME ~ Detection \/ ~ Timeouts PROVE Spec => []AllOrNothing
<1>1. ASSUME IInv, NEW t \in Txn
      PROVE  /\ status[t] = "aborted" => \A r \in Resource : disk[r] # t
             /\ status[t] = "committed" /\ pc[t] \in {"release", "inherit"} =>
                  \A r \in buffer[t] : disk[r] = t
  <2>1. DiskInv(t)
    BY <1>1 DEF IInv, TxnInv
  <2>. QED BY <2>1 DEF DiskInv, Pending
<1>2. IInv => AllOrNothing
  BY <1>1 DEF AllOrNothing
<1>. QED BY <1>2, IInvAlways, PTL

-----------------------------------------------------------------------------
(* What locks_held says, without nesting but with timeouts and the detector *)
(* together: a victim may then be anywhere, and isolation does not hold.    *)

Own(t) ==
  /\ parent[t] = 0
  /\ status[t] \in {"none", "active"} => CoversHeld(t, t) /\ (pc[t] = "access" => HasLock(t))
  /\ pc[t] = "release" => status[t] \in {"committed", "aborted"}

OwnInv ==
  /\ \A t \in Txn : Own(t)
  /\ pc[Detector] = "release" => status[victim] \in {"committed", "aborted"}

\* A transaction that is over stays over, and one that is not keeps its locks.
Ends(u) ==
  /\ status'[u] # status[u] => status[u] = "none" \/ status'[u] \in {"committed", "aborted"}
  /\ status'[u] \in {"none", "active"} => Keeps(u)

\* u does not move, but may be aborted.
Stands(u) ==
  /\ parent'[u] = parent[u] /\ locksHeld'[u] = locksHeld[u]
  /\ pc'[u] = pc[u] /\ op'[u] = op[u]
  /\ status'[u] # status[u] => status'[u] \in {"committed", "aborted"}

LEMMA OwnFrame ==
  ASSUME Base, NEW u \in Txn, Own(u), Ends(u), Stands(u)
  PROVE  Own(u)'
<1>. USE DEF Ends, Stands
<1>1. ASSUME status'[u] \in {"none", "active"}
      PROVE  CoversHeld(u, u)' /\ (pc'[u] = "access" => HasLock(u)')
  <2>1. /\ status[u] \in {"none", "active"} /\ Keeps(u) /\ Shape
        /\ CoversHeld(u, u) /\ (pc[u] = "access" => HasLock(u))
    BY <1>1 DEF Own, Base, ThreadTypes
  <2>2. CoversHeld(u, u)'
    BY <2>1, KeepsHeld
  <2>3. ASSUME pc[u] = "access" PROVE HasLock(u)'
    <3>1. op[u].res \in Resource /\ op[u].mode \in LockType
      BY <2>3, AtRequest DEF Base, Locking, Asking
    <3>2. Covers(locks'[op[u].res], u, op[u].mode)
      BY <2>1, <2>3, <3>1 DEF HasLock, Keeps
    <3>. QED BY <3>2 DEF HasLock, Covers
  <2>. QED BY <2>2, <2>3
<1>. QED BY <1>1 DEF Own

LEMMA OwnMoves ==
  ASSUME Base, OwnInv, NEW t \in Txn, Own(t)',
         \A u \in Txn : Ends(u) /\ (u # t => Stands(u)),
         pc'[Detector] = pc[Detector], victim' = victim
  PROVE  OwnInv'
<1>1. \A u \in Txn : Own(u)'
  BY OwnFrame DEF OwnInv
<1>2. ASSUME pc[Detector] = "release" PROVE status'[victim] \in {"committed", "aborted"}
  <2>1. victim \in Txn /\ status[victim] \in {"committed", "aborted"}
    BY <1>2 DEF OwnInv, Base, ThreadTypes, DetectorOK
  <2>. QED BY <2>1 DEF Ends
<1>. QED BY <1>1, <1>2 DEF OwnInv

\* A step of t that only takes it further, and to an access with its lock.
LEMMA OwnGoes ==
  ASSUME Base, OwnInv, NEW t \in Txn, NEW there, Goto(t, there), there # "release",
         UNCHANGED <<parent, status, locksHeld, victim>>,
         \A u \in Txn : u # t => op'[u] = op[u],
         \A u \in Txn : Keeps(u),
         there = "access" => HasLock(t)'
  PROVE  OwnInv'
<1>1. Shape /\ Own(t) /\ PlaceOK(t) /\ t \in Thread
  BY NotDetector DEF Base, ThreadTypes, OwnInv
<1>2. /\ pc'[t] = there /\ pc'[Detector] = pc[Detector]
      /\ \A u \in Txn : u # t => pc'[u] = pc[u]
  BY <1>1, NotDetector DEF Goto, Shape
<1>3. \A u \in Txn : Ends(u) /\ (u # t => Stands(u))
  BY <1>2 DEF Ends, Stands
<1>4. status[t] \in {"none", "active"} => CoversHeld(t, t)'
  BY <1>1, KeepsHeld DEF Own
<1>. QED BY <1>1, <1>2, <1>3, <1>4, OwnMoves DEF Own

\* Calls, waits and commits up to the status.
LEMMA OwnWork ==
  ASSUME Base, OwnInv, NEW t \in Txn,
         \/ \E r \in Resource : CallRead(t, r)
         \/ CallCommit(t) \/ CallAbort(t)
         \/ Register(t) \/ WakeUp(t) \/ TimeOut(t)
         \/ StartApply(t) \/ NextItem(t) \/ IterationFails(t) \/ WriteItem(t)
  PROVE  OwnInv'
<1>1. Shape
  BY DEF Base, ThreadTypes
<1>2. /\ UNCHANGED <<lockVars, parent, status, locksHeld, victim>>
      /\ UNCHANGED op \/ \E o : op' = [op EXCEPT ![t] = o]
  BY DEF CallRead, CallCommit, CallAbort, Calls, Register, WakeUp, TimeOut, StartApply, NextItem,
         IterationFails, WriteItem, Leave, tmVars
<1>3. \E there \in PC \ {"access", "release"} : Goto(t, there)
  BY DEF CallRead, CallCommit, CallAbort, Calls, Register, WakeUp, TimeOut, StartApply, NextItem,
         IterationFails, WriteItem, Leave, PC
<1>4. \A u \in Txn : u # t => op'[u] = op[u]
  BY <1>1, <1>2 DEF Shape
<1>. QED BY <1>2, <1>3, <1>4, KeepsUnchanged, OwnGoes

\* Nobody gets to the data but with the lock.
LEMMA OwnAsks ==
  ASSUME Base, OwnInv, NEW t \in Txn,
         (\E r \in Resource : CallWrite(t, r)) \/ TryUpgrade(t) \/ TryLock(t) \/ Retry(t)
  PROVE  OwnInv'
<1>1. Shape /\ LockInv /\ Own(t)
  BY DEF Base, ThreadTypes, OwnInv
<1>2. ASSUME NEW r \in Resource, CallWrite(t, r) PROVE OwnInv'
  <2>1. /\ UNCHANGED <<lockVars, parent, status, locksHeld, victim>>
        /\ op' = [op EXCEPT ![t] = [mode |-> "X", res |-> r]]
    BY <1>2 DEF CallWrite, Calls, tmVars
  <2>2. op'[t].res = r /\ op'[t].mode = "X" /\ \A u \in Txn : u # t => op'[u] = op[u]
    BY <1>1, <2>1 DEF Shape
  <2>3. CASE <<r, "X">> \in locksHeld[t] /\ Calls(t, "access")
    <3>1. Covers(locks[r], t, "X")
      BY <1>1, <2>3 DEF Calls, Own, CoversHeld
    <3>2. HasLock(t)'
      BY <2>1, <2>2, <3>1 DEF HasLock, Covers, lockVars
    <3>. QED BY <2>1, <2>2, <2>3, <3>2, KeepsUnchanged, OwnGoes DEF Calls
  <2>4. CASE Calls(t, "upgrade") \/ Calls(t, "lock")
    BY <2>1, <2>2, <2>4, KeepsUnchanged, OwnGoes DEF Calls
  <2>. QED BY <1>2, <2>3, <2>4 DEF CallWrite
<1>3. ASSUME TryUpgrade(t) \/ TryLock(t) \/ Retry(t) PROVE OwnInv'
  <2>1. pc[t] \in Locking /\ UNCHANGED <<parent, status, locksHeld, victim>>
    BY <1>3 DEF TryUpgrade, TryLock, Retry, tmVars, Locking, Asking
  <2>2. op[t].res \in Resource /\ op[t].mode \in LockType /\ op[t] \in Operation
    BY <2>1, AtRequest DEF Base
  <2>3. \A u \in Txn : u # t => op'[u] = op[u]
    BY <1>1, <1>3 DEF TryUpgrade, TryLock, Retry, Leave, Shape
  <2>4. CASE /\ Goto(t, "access") /\ UNCHANGED op
             /\ UpgradeGranted(t, op[t].res) \/ AcquireGranted(t, op[t].res, op[t].mode)
    <3>1. \A u \in Txn : Keeps(u)
      BY <1>1, <2>2, <2>4, UpgradeKeeps, AcquireKeeps DEF Acquire
    <3>2. Covers(locks'[op[t].res], t, op[t].mode)
      BY <1>1, <2>2, <2>4, UpgradeKeeps, AcquireGives DEF Covers
    <3>3. HasLock(t)'
      BY <2>4, <3>2 DEF HasLock, Covers
    <3>. QED BY <2>1, <2>3, <2>4, <3>1, <3>3, OwnGoes
  <2>5. CASE /\ \E there \in {"lock", "register", "ready"} : Goto(t, there)
             /\ UNCHANGED lockVars \/ AcquireQueued(t, op[t].res, op[t].mode)
    <3>1. \A u \in Txn : Keeps(u)
      BY <1>1, <2>2, <2>5, KeepsUnchanged, AcquireKeeps DEF Acquire
    <3>. QED BY <2>1, <2>3, <2>5, <3>1, OwnGoes
  <2>. QED BY <1>3, <2>4, <2>5 DEF TryUpgrade, TryLock, Retry, Leave
<1>. QED BY <1>2, <1>3

LEMMA OwnAccess ==
  ASSUME Base, OwnInv, NEW t \in Txn, Access(t) PROVE OwnInv'
<1>. DEFINE r == op[t].res
            m == op[t].mode
<1>1. /\ Shape /\ Own(t) /\ pc[t] = "access"
      /\ UNCHANGED <<lockVars, parent, status, victim>> /\ Goto(t, "ready")
  BY DEF Access, Leave, Base, ThreadTypes, OwnInv
<1>2. r \in Resource /\ m \in LockType
  BY <1>1, AtRequest DEF Base, Locking, Asking
<1>3. /\ \A u \in Txn : u # t => op'[u] = op[u] /\ locksHeld'[u] = locksHeld[u]
      /\ locksHeld'[t] \subseteq locksHeld[t] \cup {<<r, m>>}
  <2>1. \A u \in Txn : u # t => op'[u] = op[u]
    BY <1>1 DEF Access, Leave, Shape
  <2>2. \/ m = "S" /\ locksHeld' = [locksHeld EXCEPT ![t] = @ \cup {<<r, "S">>}]
        \/ m = "X" /\ locksHeld' = [locksHeld EXCEPT ![t] = (@ \ {<<r, "S">>}) \cup {<<r, "X">>}]
    BY DEF Access
  <2>. QED BY <1>1, <2>1, <2>2 DEF Shape
<1>4. /\ pc'[t] = "ready" /\ pc'[Detector] = pc[Detector]
      /\ \A u \in Txn : u # t => pc'[u] = pc[u]
  BY <1>1, NotDetector DEF Goto, Shape, Thread
<1>5. \A u \in Txn : Ends(u) /\ (u # t => Stands(u))
  BY <1>1, <1>3, <1>4, KeepsUnchanged DEF Ends, Stands
<1>6. ASSUME status[t] \in {"none", "active"} PROVE CoversHeld(t, t)'
  <2>1. CoversHeld(t, t) /\ Covers(locks[r], t, m)
    BY <1>1, <1>6 DEF Own, HasLock
  <2>2. \A h \in locksHeld'[t] : Covers(locks[h[1]], t, h[2])
    BY <1>3, <2>1 DEF CoversHeld
  <2>. QED BY <1>1, <2>2 DEF CoversHeld, Covers, lockVars
<1>7. Own(t)'
  BY <1>1, <1>4, <1>6 DEF Own
<1>. QED BY <1>1, <1>4, <1>5, <1>7, OwnMoves

\* The steps at which a transaction begins or ends.
LEMMA OwnBegin ==
  ASSUME ~ Nesting, Base, OwnInv, NEW t \in Txn, NEW p \in Txn \cup {0}, Begin(t, p)
  PROVE  OwnInv'
<1>1. /\ Shape /\ Own(t) /\ PlaceOK(t) /\ status[t] = "none" /\ p = 0
      /\ status' = [status EXCEPT ![t] = "active"] /\ parent' = [parent EXCEPT ![t] = p]
      /\ UNCHANGED <<lockVars, locksHeld, pc, op, victim>>
  BY DEF Begin, threadVars, Base, ThreadTypes, OwnInv
<1>2. /\ status'[t] = "active" /\ parent'[t] = 0 /\ pc'[t] = "ready"
      /\ \A u \in Txn : u # t => status'[u] = status[u] /\ parent'[u] = parent[u]
  BY <1>1 DEF Shape, PlaceOK
<1>3. \A u \in Txn : Ends(u) /\ (u # t => Stands(u))
  BY <1>1, <1>2, KeepsUnchanged DEF Ends, Stands
<1>4. CoversHeld(t, t)'
  BY <1>1, KeepsUnchanged, KeepsHeld DEF Own
<1>. QED BY <1>1, <1>2, <1>3, <1>4, OwnMoves DEF Own

LEMMA OwnFinish ==
  ASSUME Base, OwnInv, NEW t \in Txn, Finish(t) PROVE OwnInv'
<1>1. /\ Shape /\ Own(t) /\ t \in Thread
      /\ status' = [status EXCEPT ![t] = "committed"]
      /\ \E there \in {"release", "inherit"} : Goto(t, there)
      /\ UNCHANGED <<lockVars, parent, locksHeld, op, victim>>
  BY NotDetector DEF Finish, Base, ThreadTypes, OwnInv
<1>2. /\ status'[t] = "committed" /\ \A u \in Txn : u # t => status'[u] = status[u]
      /\ pc'[Detector] = pc[Detector] /\ \A u \in Txn : u # t => pc'[u] = pc[u]
  BY <1>1, NotDetector DEF Goto, Shape
<1>3. \A u \in Txn : Ends(u) /\ (u # t => Stands(u))
  BY <1>1, <1>2, KeepsUnchanged DEF Ends, Stands
<1>4. Own(t)'
  BY <1>1, <1>2 DEF Own
<1>. QED BY <1>1, <1>2, <1>3, <1>4, OwnMoves

\* An abort, and the release at the end of either; the detector may do it
\* to any transaction.
LEMMA OwnAbort ==
  ASSUME Base, OwnInv, NEW th \in Thread,
         ClearBuffer(th) \/ MarkAborted(th) \/ ReleaseLocks(th)
  PROVE  OwnInv'
<1>1. Shape /\ DetectorOK /\ LockInv
  BY DEF Base, ThreadTypes
<1>2. PICK x \in Txn : x = Subject(th)
  BY <1>1 DEF ClearBuffer, MarkAborted, ReleaseLocks, Subject, Thread, DetectorOK
<1>3. UNCHANGED <<parent, locksHeld, op, victim>>
  BY DEF ClearBuffer, MarkAborted, ReleaseLocks, tmVars
<1>4. \/ UNCHANGED <<lockVars, status>> /\ Goto(th, "mark")
      \/ /\ UNCHANGED lockVars /\ Goto(th, "release")
         /\ status' = [status EXCEPT ![x] = "aborted"]
      \/ /\ UNCHANGED status /\ Goto(th, "ready") /\ ReleaseAll(x)
         /\ status[x] \in {"committed", "aborted"}
  BY <1>2
  DEF ClearBuffer, MarkAborted, ReleaseLocks, tmVars, Subject, OwnInv, Own, Thread, Detector
<1>5. \A u \in Txn : status'[u] = status[u] \/ (u = x /\ status'[u] = "aborted")
  BY <1>1, <1>4 DEF Shape
<1>6. \A u \in Txn : Ends(u)
  <2>1. ASSUME NEW u \in Txn, status'[u] \in {"none", "active"} PROVE Keeps(u)
    BY <1>1, <1>2, <1>4, <1>5, <2>1, KeepsUnchanged, ReleaseAllKeeps
  <2>. QED BY <1>5, <2>1 DEF Ends
<1>7. /\ pc'[th] \in {"mark", "release", "ready"}
      /\ \A w \in Thread : w # th => pc'[w] = pc[w]
      /\ pc'[th] = "release" => status'[x] = "aborted"
  BY <1>1, <1>2, <1>4 DEF Goto, Shape
<1>8. ASSUME NEW u \in Txn, u # th PROVE Own(u)'
  <2>1. Stands(u)
    BY <1>3, <1>5, <1>7, <1>8, NotDetector DEF Stands
  <2>. QED BY <1>6, <2>1, OwnFrame DEF OwnInv
<1>9. CASE th = Detector
  <2>1. x = victim
    BY <1>2, <1>9 DEF Subject
  <2>. QED BY <1>3, <1>7, <1>8, <1>9, <2>1, NotDetector DEF OwnInv
<1>10. CASE th # Detector
  <2>1. th \in Txn /\ x = th
    BY <1>2, <1>10 DEF Thread, Subject
  <2>2. Own(th)'
    <3>1. status'[th] \in {"none", "active"} => CoversHeld(th, th)'
      <4>1. ASSUME status'[th] \in {"none", "active"} PROVE CoversHeld(th, th) /\ Keeps(th)
        BY <1>5, <1>6, <2>1, <4>1 DEF OwnInv, Own, Ends
      <4>. QED BY <1>1, <1>3, <2>1, <4>1, KeepsHeld
    <3>. QED BY <1>3, <1>7, <2>1, <3>1 DEF OwnInv, Own
  <2>3. \A u \in Txn : u # th => Stands(u)
    BY <1>3, <1>5, <1>7, <2>1, NotDetector DEF Stands
  <2>4. pc'[Detector] = pc[Detector]
    BY <1>7, <1>10 DEF Thread
  <2>. QED BY <1>3, <1>6, <2>1, <2>2, <2>3, <2>4, OwnMoves
<1>. QED BY <1>9, <1>10

LEMMA OwnStep ==
  ASSUME ~ Nesting, Base, OwnInv, [Next]_vars PROVE OwnInv'
<1>1. ASSUME UNCHANGED <<lockVars, tmVars, op>>, \A u \in Txn : pc'[u] = pc[u],
             pc'[Detector] # "release" \/ (pc'[Detector] = pc[Detector] /\ victim' = victim)
      PROVE  OwnInv'
  <2>1. \A u \in Txn : Ends(u) /\ Stands(u)
    BY <1>1, KeepsUnchanged DEF Ends, Stands, tmVars
  <2>2. \A u \in Txn : Own(u)'
    BY <2>1, OwnFrame DEF OwnInv
  <2>. QED BY <1>1, <2>2 DEF OwnInv, tmVars
<1>2. ASSUME NEW t \in Txn, Call(t) PROVE OwnInv'
  BY <1>2, OwnBegin, OwnWork, OwnAsks DEF Call
<1>3. ASSUME NEW t \in Txn, Proceed(t) \/ TimeOut(t) PROVE OwnInv'
  <2>1. ~ Inherit(t) /\ ~ Absorb(t)
    BY DEF Inherit, Absorb, OwnInv, Own, Base, ThreadTypes, PlaceOK
  <2>. QED BY <1>3, <2>1, OwnWork, OwnAsks, OwnAccess, OwnFinish DEF Proceed
<1>4. ASSUME NEW th \in Thread, AbortStep(th) PROVE OwnInv'
  <2>1. CASE Signal(th)
    BY <1>1, <2>1 DEF Signal
  <2>. QED BY <1>4, <2>1, OwnAbort DEF AbortStep
<1>5. CASE Detect \/ CheckVictim
  <2>1. \E there \in {"check", "clear", "ready"} : Goto(Detector, there)
    BY <1>5 DEF Detect, CheckVictim
  <2>2. pc'[Detector] # "release" /\ \A u \in Txn : pc'[u] = pc[u]
    BY <2>1, NotDetector DEF Goto, Base, ThreadTypes, Shape, Thread
  <2>. QED BY <1>1, <1>5, <2>2 DEF Detect, CheckVictim
<1>6. CASE UNCHANGED vars
  <2>1. UNCHANGED <<lockVars, tmVars, op, pc, victim>>
    BY <1>6 DEF vars, threadVars, lockVars, tmVars
  <2>. QED BY <1>1, <2>1
<1>. QED BY <1>2, <1>3, <1>4, <1>5, <1>6 DEF Next

LEMMA OwnAlways ==
  ASSUME ~ Nesting PROVE Spec => []OwnInv
<1>1. Init => OwnInv
  <2>1. SUFFICES ASSUME Init PROVE OwnInv
    OBVIOUS
  <2>2. \A th \in Thread : pc[th] = "ready"
    BY <2>1 DEF Init
  <2>3. \A t \in Txn : parent[t] = 0 /\ status[t] = "none" /\ locksHeld[t] = {}
    BY <2>1 DEF Init
  <2>. QED BY <2>2, <2>3 DEF OwnInv, Own, CoversHeld, Thread
<1>2. Base /\ OwnInv /\ [Next]_vars => OwnInv'
  BY OwnStep
<1>. QED BY <1>1, <1>2, BaseAlways, PTL DEF Spec

\* The locks a transaction believes it holds are its own in the lock table:
\* no timed-out request, no release, no transfer and no abort by the detector
\* takes one away from an active transaction.  With timeouts, detector and
\* nesting together this is not so: a child that the detector aborts in the
\* middle of its commit leaves its parent locks it no longer has.
THEOREM HeldLocksAreRealAlways ==
  ASSUME ~ Detection \/ ~ Timeouts \/ ~ Nesting PROVE Spec => []HeldLocksAreReal
<1>1. CASE ~ Detection \/ ~ Timeouts
  <2>1. IInv => HeldLocksAreReal
    BY DEF IInv, TxnInv, LockedInv, Live, CoversHeld, HeldLocksAreReal
  <2>. QED BY <1>1, <2>1, IInvAlways, PTL
<1>2. CASE ~ Nesting
  <2>1. OwnInv => HeldLocksAreReal
    BY DEF OwnInv, Own, CoversHeld, HeldLocksAreReal
  <2>. QED BY <1>2, <2>1, OwnAlways, PTL
<1>. QED BY <1>1, <1>2

=============================================================================
