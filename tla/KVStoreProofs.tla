---------------------------- MODULE KVStoreProofs ----------------------------
(***************************************************************************)
(* Proofs about KVStore: the LRU list always mirrors the cache, and no     *)
(* value is lost either when one thread makes all the calls or when the    *)
(* cache never fills.                                                      *)
(***************************************************************************)
EXTENDS KVStore, VectorLemmas

-----------------------------------------------------------------------------
(***************************************************************************)
(* Lemmas about the list operations.                                       *)
(***************************************************************************)

\* An initial interval of the naturals determines its length.
LEMMA SameInterval ==
  ASSUME NEW m \in Nat, NEW n \in Nat, 1..m = 1..n
  PROVE  m = n
<1>1. m > 0 => m \in 1..m
  OBVIOUS
<1>2. n > 0 => n \in 1..n
  OBVIOUS
<1>3. QED
  BY <1>1, <1>2

\* Taking one element out of a list without repetitions.
LEMMA WithoutProperties ==
  ASSUME NEW S, NEW q \in Seq(S), IsInjective(q), NEW i \in 1..Len(q)
  PROVE  /\ Without(q, i) \in Seq(S)
         /\ Range(Without(q, i)) = Range(q) \ {q[i]}
         /\ IsInjective(Without(q, i))
         /\ Len(Without(q, i)) = Len(q) - 1
<1> DEFINE w == Without(q, i)
           n == Len(q) - 1
<1>1. /\ Len(q) \in Nat /\ n \in Nat
      /\ DOMAIN q = 1..Len(q)
      /\ \A j \in 1..Len(q) : q[j] \in S
  BY LenProperties, ElementOfSeq
<1>2. w = [j \in 1..n |-> IF j < i THEN q[j] ELSE q[j + 1]]
  BY DEF Without
<1>3. /\ w \in [1..n -> S]
      /\ DOMAIN w = 1..n
  BY <1>1, <1>2
<1> HIDE DEF w
<1>4. w \in Seq(S) /\ Len(w) = n
  <2>1. w \in Seq(S)
    BY <1>1, <1>3, SeqDef
  <2>2. Len(w) \in Nat /\ DOMAIN w = 1..Len(w)
    BY <2>1, LenProperties
  <2>3. 1..Len(w) = 1..n
    BY <1>3, <2>2
  <2>4. Len(w) = n
    BY <1>1, <2>2, <2>3, SameInterval
  <2>5. QED
    BY <2>1, <2>4
<1>5. \A a, b \in 1..Len(q) : q[a] = q[b] => a = b
  BY <1>1 DEF IsInjective
<1>6. IsInjective(w)
  BY <1>1, <1>2, <1>3, <1>5 DEF IsInjective
<1>7. Range(w) \subseteq Range(q) \ {q[i]}
  BY <1>1, <1>2, <1>3, <1>5 DEF Range
<1>8. Range(q) \ {q[i]} \subseteq Range(w)
  <2>1. SUFFICES ASSUME NEW a \in 1..Len(q), a # i
                 PROVE  q[a] \in Range(w)
    BY <1>1 DEF Range
  <2>2. CASE a < i
    <3>1. a \in 1..n /\ w[a] = q[a]
      BY <1>1, <1>2, <2>1, <2>2
    <3>2. QED
      BY <1>3, <3>1 DEF Range
  <2>3. CASE a > i
    <3>1. a - 1 \in 1..n /\ w[a - 1] = q[a]
      BY <1>1, <1>2, <2>1, <2>3
    <3>2. QED
      BY <1>3, <3>1 DEF Range
  <2>4. QED
    BY <1>1, <2>1, <2>2, <2>3
<1>9. QED
  BY <1>4, <1>6, <1>7, <1>8 DEF w

\* push_front of a key that is not in the list.
LEMMA PushFrontProperties ==
  ASSUME NEW S, NEW q \in Seq(S), IsInjective(q), NEW e \in S, e \notin Range(q)
  PROVE  /\ <<e>> \o q \in Seq(S)
         /\ Range(<<e>> \o q) = {e} \cup Range(q)
         /\ IsInjective(<<e>> \o q)
         /\ Len(<<e>> \o q) = Len(q) + 1
<1>1. /\ <<e>> \in Seq(S) /\ Len(<<e>>) = 1
      /\ Range(<<e>>) = {e}
      /\ IsInjective(<<e>>)
  BY DEF Range, IsInjective
<1>2. Len(<<e>> \o q) = Len(<<e>>) + Len(q)
  BY <1>1, ConcatProperties
<1>3. Range(<<e>>) \cap Range(q) = {}
  BY <1>1
<1> DEFINE p == <<e>>
<1>4. /\ p \o q \in Seq(S)
      /\ Range(p \o q) = Range(p) \cup Range(q)
      /\ IsInjective(p \o q)
  <2>1. p \in Seq(S) /\ IsInjective(p) /\ Range(p) \cap Range(q) = {}
    BY <1>1, <1>3
  <2> HIDE DEF p
  <2>2. QED
    BY <2>1, ConcatRange
<1>5. Len(q) \in Nat
  BY LenProperties
<1>6. QED
  BY <1>1, <1>2, <1>4, <1>5

\* The iterator of a cached key points at that key.
LEMMA PositionProperties ==
  ASSUME TypeOK, LruMatchesStore, NEW k \in Cached
  PROVE  /\ Position(k) \in 1..Len(lruQueue)
         /\ lruQueue[Position(k)] = k
<1>1. lruQueue \in Seq(Keys) /\ DOMAIN lruQueue = 1..Len(lruQueue)
  BY LenProperties DEF TypeOK
<1>2. \E i \in DOMAIN lruQueue : lruQueue[i] = k
  BY DEF LruMatchesStore, Range
<1>3. QED
  BY <1>1, <1>2 DEF Position

\* A splice reorders the list.
LEMMA SpliceProperties ==
  ASSUME TypeOK, LruMatchesStore, NEW k \in Cached,
         NEW q, q \in {SpliceFront(k), SpliceEnd(k)}
  PROVE  /\ q \in Seq(Keys)
         /\ Range(q) = Cached
         /\ IsInjective(q)
         /\ Len(q) = Len(lruQueue)
<1> DEFINE w == Without(lruQueue, Position(k))
<1>1. /\ lruQueue \in Seq(Keys) /\ Len(lruQueue) \in Nat
      /\ k \in Keys
      /\ IsInjective(lruQueue) /\ Range(lruQueue) = Cached
  BY LenProperties DEF TypeOK, Cached, LruMatchesStore
<1>2. /\ w \in Seq(Keys) /\ Range(w) = Cached \ {k}
      /\ IsInjective(w) /\ Len(w) = Len(lruQueue) - 1
  <2>1. PICK i \in 1..Len(lruQueue) : i = Position(k) /\ lruQueue[i] = k
    BY PositionProperties
  <2>2. /\ Without(lruQueue, i) \in Seq(Keys)
        /\ Range(Without(lruQueue, i)) = Range(lruQueue) \ {lruQueue[i]}
        /\ IsInjective(Without(lruQueue, i))
        /\ Len(Without(lruQueue, i)) = Len(lruQueue) - 1
    BY <1>1, WithoutProperties
  <2>3. QED
    BY <1>1, <2>1, <2>2
<1> HIDE DEF w
<1>3. CASE q = SpliceFront(k)
  <2>1. q = <<k>> \o w
    BY <1>3 DEF SpliceFront, w
  <2>2. k \notin Range(w)
    BY <1>2
  <2>3. /\ <<k>> \o w \in Seq(Keys) /\ Range(<<k>> \o w) = {k} \cup Range(w)
        /\ IsInjective(<<k>> \o w) /\ Len(<<k>> \o w) = Len(w) + 1
    BY <1>1, <1>2, <2>2, PushFrontProperties
  <2>4. Range(q) = Cached
    BY <1>2, <2>1, <2>3, Zenon
  <2>5. Len(q) = Len(lruQueue)
    BY <1>1, <1>2, <2>1, <2>3
  <2>6. q \in Seq(Keys) /\ IsInjective(q)
    BY <2>1, <2>3, Zenon
  <2>7. QED
    BY <2>4, <2>5, <2>6
<1>4. CASE q = SpliceEnd(k)
  <2>1. q = Append(w, k)
    BY <1>4 DEF SpliceEnd, w
  <2>2. Len(q) = Len(w) + 1
    BY <1>1, <1>2, <2>1, AppendProperties
  <2>3. k \notin Range(w)
    BY <1>2
  <2>4. /\ Append(w, k) \in Seq(Keys) /\ Range(Append(w, k)) = Range(w) \cup {k}
        /\ IsInjective(Append(w, k))
    BY <1>1, <1>2, <2>3, AppendRange
  <2>5. QED
    BY <1>1, <1>2, <2>1, <2>2, <2>4
<1>5. QED
  BY <1>3, <1>4

\* The length of the list is the size of the cache.
LEMMA CacheSize ==
  ASSUME TypeOK, LruMatchesStore
  PROVE  /\ Len(lruQueue) \in Nat
         /\ IsFiniteSet(Cached)
         /\ Cardinality(Cached) = Len(lruQueue)
BY LenProperties, InjectiveCardinality DEF TypeOK, LruMatchesStore

-----------------------------------------------------------------------------
(***************************************************************************)
(* The list mirrors the cache.                                             *)
(***************************************************************************)
LruInv == TypeOK /\ LruMatchesStore

\* What prepareSave writes is a row.
LEMMA RowType ==
  ASSUME NEW v \in Contents, v # Absent
  PROVE  RowAfterSave(v) \in Rows
BY DEF RowAfterSave, Contents, Rows

\* The key setLocked evicts is cached and is not the key it inserts.
LEMMA LastIsCached ==
  ASSUME LruInv, Full
  PROVE  /\ Len(lruQueue) = MaxSize
         /\ Len(lruQueue) \in 1..Len(lruQueue)
         /\ lruQueue[Len(lruQueue)] \in Cached
<1>1. /\ Len(lruQueue) \in Nat /\ Cardinality(Cached) = Len(lruQueue)
      /\ DOMAIN lruQueue = 1..Len(lruQueue)
  BY CacheSize, LenProperties DEF LruInv, TypeOK
<1>2. Len(lruQueue) = MaxSize /\ Len(lruQueue) \in 1..Len(lruQueue)
  BY <1>1, KVAssumption DEF Full, LruInv, LruMatchesStore
<1>3. QED
  BY <1>1, <1>2 DEF LruInv, LruMatchesStore, Range

\* setLocked keeps the list and the cache in step in each of its three cases.
LEMMA SetLockedLru ==
  ASSUME LruInv, NEW k \in Keys, NEW v \in Values \cup {Deleted},
         SetLocked(k, v)
  PROVE  /\ store' \in [Keys -> Contents]
         /\ lruQueue' \in Seq(Keys)
         /\ db' \in [Keys -> Rows]
         /\ LruMatchesStore'
<1>1. /\ TypeOK /\ LruMatchesStore
      /\ store \in [Keys -> Contents] /\ db \in [Keys -> Rows]
      /\ lruQueue \in Seq(Keys) /\ Len(lruQueue) \in Nat
      /\ v \in Contents /\ v # Absent /\ MaxSize \in Nat
  BY KVAssumption, LenProperties DEF LruInv, TypeOK, Contents
<1>2. CASE /\ k \in Cached
           /\ store' = [store EXCEPT ![k] = v]
           /\ lruQueue' = SpliceFront(k)
           /\ UNCHANGED db
  <2>1. Cached' = Cached
    BY <1>1, <1>2 DEF Cached
  <2>2. /\ lruQueue' \in Seq(Keys) /\ Range(lruQueue') = Cached
        /\ IsInjective(lruQueue') /\ Len(lruQueue') = Len(lruQueue)
    BY <1>1, <1>2, SpliceProperties
  <2>3. QED
    BY <1>1, <1>2, <2>1, <2>2 DEF LruMatchesStore
<1>3. CASE /\ k \notin Cached /\ ~Full
           /\ store' = [store EXCEPT ![k] = v]
           /\ lruQueue' = <<k>> \o lruQueue
           /\ UNCHANGED db
  <2>1. Cached' = Cached \cup {k}
    BY <1>1, <1>3 DEF Cached
  <2>2. /\ lruQueue' \in Seq(Keys) /\ Range(lruQueue') = {k} \cup Cached
        /\ IsInjective(lruQueue') /\ Len(lruQueue') = Len(lruQueue) + 1
    BY <1>1, <1>3, PushFrontProperties DEF LruMatchesStore
  <2>3. Len(lruQueue) < MaxSize
    BY <1>1, <1>3, CacheSize DEF Full
  <2>4. QED
    BY <1>1, <1>3, <2>1, <2>2, <2>3 DEF LruMatchesStore
<1>4. CASE /\ k \notin Cached /\ Full
           /\ LET last == lruQueue[Len(lruQueue)] IN
              /\ Save(last, store[last])
              /\ store' = [store EXCEPT ![last] = Absent, ![k] = v]
              /\ lruQueue' = <<k>> \o Without(lruQueue, Len(lruQueue))
  <2> DEFINE last == lruQueue[Len(lruQueue)]
             w == Without(lruQueue, Len(lruQueue))
  <2>1. /\ Len(lruQueue) = MaxSize /\ Len(lruQueue) \in 1..Len(lruQueue)
        /\ last \in Cached
    BY <1>4, LastIsCached
  <2>2. last \in Keys /\ store[last] \in Contents /\ store[last] # Absent
    BY <1>1, <2>1 DEF Cached
  <2>3. last # k
    BY <1>4, <2>1
  <2>4. /\ w \in Seq(Keys) /\ Range(w) = Cached \ {last}
        /\ IsInjective(w) /\ Len(w) = Len(lruQueue) - 1
    BY <1>1, <2>1, WithoutProperties DEF LruMatchesStore
  <2>5. store' = [store EXCEPT ![last] = Absent, ![k] = v] /\ lruQueue' = <<k>> \o w
        /\ Save(last, store[last])
    BY <1>4
  <2> HIDE DEF last, w
  <2>6. /\ lruQueue' \in Seq(Keys) /\ Range(lruQueue') = {k} \cup (Cached \ {last})
        /\ IsInjective(lruQueue') /\ Len(lruQueue') = Len(lruQueue)
    <3>1. k \notin Range(w)
      BY <1>4, <2>4
    <3>2. /\ <<k>> \o w \in Seq(Keys) /\ Range(<<k>> \o w) = {k} \cup Range(w)
          /\ IsInjective(<<k>> \o w) /\ Len(<<k>> \o w) = Len(w) + 1
      BY <2>4, <3>1, PushFrontProperties
    <3>3. QED
      BY <1>1, <2>4, <2>5, <3>2
  <2>7. store' \in [Keys -> Contents] /\ Cached' = {k} \cup (Cached \ {last})
    BY <1>1, <2>2, <2>3, <2>5 DEF Cached, Contents
  <2>8. db' \in [Keys -> Rows]
    <3>1. RowAfterSave(store[last]) \in Rows
      BY <1>1, <2>2, RowType
    <3>2. QED
      BY <1>1, <2>2, <2>5, <3>1 DEF Save
  <2>9. QED
    BY <2>1, <2>6, <2>7, <2>8, <1>1 DEF LruMatchesStore
<1>5. QED
  BY <1>2, <1>3, <1>4 DEF SetLocked

\* The empty cache satisfies the invariant.
LEMMA LruInit == Init => LruInv
<1>1. SUFFICES ASSUME Init PROVE LruInv
  OBVIOUS
<1>2. TypeOK
  BY <1>1 DEF Init, TypeOK, Contents, Rows
<1>3. LruMatchesStore
  <2>1. Cached = {} /\ lruQueue = <<>>
    BY <1>1 DEF Init, Cached
  <2>2. Len(<<>>) = 0
    OBVIOUS
  <2>3. QED
    BY <2>1, <2>2, EmptyRange, KVAssumption DEF LruMatchesStore
<1>4. QED
  BY <1>2, <1>3 DEF LruInv

\* set and remove keep the list and the map in step.
LEMMA LruSet ==
  ASSUME LruInv, NEW t \in Threads, NEW k \in Keys,
         NEW v \in Values \cup {Deleted}, Set(t, k, v)
  PROVE  LruInv'
<1>1. SetLocked(k, v) /\ UNCHANGED <<saving, snapshot>>
      /\ latest' = [latest EXCEPT ![k] = IF v = Deleted THEN Absent ELSE v]
  BY DEF Set
<1>2. latest' \in [Keys -> Rows]
  BY <1>1 DEF LruInv, TypeOK, Rows
<1>3. QED
  BY <1>1, <1>2, SetLockedLru DEF LruInv, TypeOK

\* So does every kind of get.
LEMMA LruGet ==
  ASSUME LruInv, NEW t \in Threads, NEW k \in Keys,
         GetCached(t, k) \/ GetLoad(t, k) \/ GetForced(t, k)
  PROVE  LruInv'
<1>1. CASE GetCached(t, k)
  <2>1. /\ k \in Cached /\ lruQueue' \in {SpliceFront(k), SpliceEnd(k)}
        /\ UNCHANGED <<store, db, saving, snapshot, latest>>
    BY <1>1 DEF GetCached
  <2>2. /\ lruQueue' \in Seq(Keys) /\ Range(lruQueue') = Cached
        /\ IsInjective(lruQueue') /\ Len(lruQueue') = Len(lruQueue)
    BY <2>1, SpliceProperties DEF LruInv
  <2>3. QED
    BY <2>1, <2>2 DEF LruInv, TypeOK, LruMatchesStore, Cached
<1>2. CASE GetLoad(t, k) \/ GetForced(t, k)
  <2>1. db[k] \in Values \cup {Deleted} /\ db[k] \in Rows
    BY <1>2 DEF GetLoad, GetForced, LruInv, TypeOK, Rows
  <2>2. SetLocked(k, db[k]) /\ UNCHANGED <<saving, snapshot>>
        /\ (latest' = latest \/ latest' = [latest EXCEPT ![k] = db[k]])
    BY <1>2 DEF GetLoad, GetForced
  <2>3. latest' \in [Keys -> Rows]
    BY <2>1, <2>2 DEF LruInv, TypeOK
  <2>4. QED
    BY <2>1, <2>2, <2>3, SetLockedLru DEF LruInv, TypeOK
<1>3. QED
  BY <1>1, <1>2

\* What saveAll writes is made of rows.
LEMMA WrittenType ==
  ASSUME TypeOK, NEW t \in Threads, NEW K,
         K \subseteq {k \in Keys : snapshot[t][k] # Absent}
  PROVE  Written(t, K) \in [Keys -> Rows]
<1>1. ASSUME NEW k \in Keys
      PROVE  (IF k \in K THEN RowAfterSave(snapshot[t][k]) ELSE db[k]) \in Rows
  <2>1. db[k] \in Rows /\ snapshot[t][k] \in Contents
    BY DEF TypeOK
  <2>2. QED
    BY <2>1, RowType
<1>2. QED
  BY <1>1 DEF Written

\* saveAll does not touch the list or the map.
LEMMA LruSave ==
  ASSUME LruInv, NEW t \in Threads, GetStore(t) \/ SaveAll(t)
  PROVE  LruInv'
<1>1. UNCHANGED <<store, lruQueue, latest>>
  BY DEF GetStore, SaveAll
<1>2. LruMatchesStore'
  BY <1>1 DEF LruInv, LruMatchesStore, Cached
<1>3. CASE GetStore(t)
  BY <1>1, <1>2, <1>3 DEF GetStore, LruInv, TypeOK
<1>4. CASE SaveAll(t)
  <2>1. PICK K \in SUBSET {k \in Keys : snapshot[t][k] # Absent} :
          db' = Written(t, K)
    BY <1>4 DEF SaveAll
  <2>2. db' \in [Keys -> Rows]
    BY <2>1, WrittenType DEF LruInv
  <2>3. saving' \subseteq Threads /\ snapshot' \in [Threads -> [Keys -> Contents]]
    BY <1>4 DEF SaveAll, LruInv, TypeOK, Contents
  <2>4. QED
    BY <1>1, <1>2, <2>2, <2>3 DEF LruInv, TypeOK
<1>5. QED
  BY <1>3, <1>4

\* Every step keeps the invariant.
LEMMA LruNext == LruInv /\ [Next]_vars => LruInv'
<1>1. SUFFICES ASSUME LruInv, [Next]_vars PROVE LruInv'
  OBVIOUS
<1>2. CASE UNCHANGED vars
  BY <1>1, <1>2 DEF vars, LruInv, TypeOK, LruMatchesStore, Cached
<1>3. ASSUME NEW t \in Threads, NEW k \in Keys, NEW v \in Values, Set(t, k, v)
      PROVE  LruInv'
  BY <1>1, <1>3, LruSet
<1>4. ASSUME NEW t \in Threads, NEW k \in Keys, Remove(t, k)
      PROVE  LruInv'
  BY <1>1, <1>4, LruSet DEF Remove
<1>5. ASSUME NEW t \in Threads, NEW k \in Keys,
             GetCached(t, k) \/ GetLoad(t, k) \/ GetForced(t, k)
      PROVE  LruInv'
  BY <1>1, <1>5, LruGet
<1>6. ASSUME NEW t \in Threads, GetStore(t) \/ SaveAll(t)
      PROVE  LruInv'
  BY <1>1, <1>6, LruSave
<1>7. QED
  BY <1>1, <1>2, <1>3, <1>4, <1>5, <1>6 DEF Next

\* The LRU list of KVStore holds exactly the cached keys, each once, and never
\* more than MAX_SIZE of them, for any number of keys, threads and failures.
THEOREM LruConsistent == Spec => [](TypeOK /\ LruMatchesStore)
<1>1. LruInv => TypeOK /\ LruMatchesStore
  BY DEF LruInv
<1>2. QED
  BY <1>1, LruInit, LruNext, PTL DEF Spec

-----------------------------------------------------------------------------
(***************************************************************************)
(* No value is lost.                                                       *)
(***************************************************************************)

\* setLocked gives its key the new value and changes what get() answers for no
\* other key; a key it evicts was written back.  This needs that the write
\* cannot fail, or that nothing is evicted.
LEMMA SetLockedView ==
  ASSUME LruInv, NEW k \in Keys, NEW v \in Values \cup {Deleted},
         SetLocked(k, v), ~DbFails \/ k \in Cached \/ ~Full
  PROVE  /\ View(k)' = IF v = Deleted THEN Absent ELSE v
         /\ \A x \in Keys \ {k} : View(x)' = View(x)
         /\ \A x \in Keys : db'[x] # db[x] => db'[x] = View(x)
<1>1. /\ store \in [Keys -> Contents] /\ db \in [Keys -> Rows]
      /\ v # Absent
  BY KVAssumption DEF LruInv, TypeOK
<1>2. CASE /\ k \in Cached \/ ~Full
           /\ store' = [store EXCEPT ![k] = v]
           /\ UNCHANGED db
  BY <1>1, <1>2 DEF View
<1>3. CASE /\ k \notin Cached /\ Full
           /\ LET last == lruQueue[Len(lruQueue)] IN
              /\ Save(last, store[last])
              /\ store' = [store EXCEPT ![last] = Absent, ![k] = v]
  <2>1. PICK last \in Cached : last = lruQueue[Len(lruQueue)]
    BY <1>3, LastIsCached
  <2>2. last \in Keys /\ store[last] # Absent /\ last # k
    BY <1>3, <2>1 DEF Cached
  <2>3. /\ store' = [store EXCEPT ![last] = Absent, ![k] = v]
        /\ db' = [db EXCEPT ![last] = RowAfterSave(store[last])]
    BY <1>1, <1>3, <2>1, <2>2 DEF Save
  <2>4. View(last) = RowAfterSave(store[last])
    BY <2>2 DEF View, RowAfterSave
  <2>5. store'[last] = Absent /\ db'[last] = View(last)
    BY <1>1, <2>2, <2>3, <2>4
  <2>6. View(last)' = View(last)
    BY <2>5 DEF View
  <2>7. \A x \in Keys \ {k, last} : store'[x] = store[x] /\ db'[x] = db[x]
    BY <1>1, <2>2, <2>3
  <2>8. \A x \in Keys \ {k, last} : View(x)' = View(x)
    BY <2>7 DEF View
  <2>9. store'[k] = v /\ db'[k] = db[k]
    BY <1>1, <2>2, <2>3
  <2>10. View(k)' = IF v = Deleted THEN Absent ELSE v
    BY <1>1, <2>9 DEF View
  <2>11. QED
    BY <2>2, <2>5, <2>6, <2>7, <2>8, <2>9, <2>10
<1>4. QED
  BY <1>2, <1>3 DEF SetLocked

\* A call keeps get() and the history in agreement.
LEMMA CallView ==
  ASSUME LruInv, ViewIsLatest, NEW t \in Threads, NEW k \in Keys,
         ~DbFails \/ k \in Cached \/ ~Full,
         \/ \E v \in Values : Set(t, k, v)
         \/ Remove(t, k)
         \/ GetCached(t, k)
         \/ GetLoad(t, k)
         \/ GetForced(t, k)
  PROVE  /\ ViewIsLatest'
         /\ \A x \in Keys : db'[x] # db[x] => db'[x] = latest[x]
<1>1. /\ latest \in [Keys -> Rows] /\ db[k] \in Rows
      /\ \A x \in Keys : View(x) = latest[x]
  BY DEF LruInv, TypeOK, ViewIsLatest
<1>2. ASSUME NEW v \in Values \cup {Deleted}, SetLocked(k, v),
             \/ latest' = [latest EXCEPT ![k] = IF v = Deleted THEN Absent ELSE v]
             \/ latest' = latest /\ latest[k] = IF v = Deleted THEN Absent ELSE v
      PROVE  /\ ViewIsLatest'
             /\ \A x \in Keys : db'[x] # db[x] => db'[x] = latest[x]
  <2>1. /\ View(k)' = IF v = Deleted THEN Absent ELSE v
        /\ \A x \in Keys \ {k} : View(x)' = View(x)
        /\ \A x \in Keys : db'[x] # db[x] => db'[x] = View(x)
    BY <1>2, SetLockedView
  <2>2. /\ latest'[k] = IF v = Deleted THEN Absent ELSE v
        /\ \A x \in Keys \ {k} : latest'[x] = latest[x]
    BY <1>1, <1>2
  <2>3. \A x \in Keys : View(x)' = latest'[x]
    BY <1>1, <2>1, <2>2
  <2>4. QED
    BY <1>1, <2>1, <2>3 DEF ViewIsLatest
<1>3. CASE \E v \in Values : Set(t, k, v)
  BY <1>2, <1>3 DEF Set
<1>4. CASE Remove(t, k)
  BY <1>2, <1>4 DEF Remove, Set
<1>5. CASE GetCached(t, k)
  BY <1>5 DEF GetCached, ViewIsLatest, View
<1>6. CASE GetLoad(t, k)
  <2>1. /\ SetLocked(k, db[k]) /\ latest' = latest
        /\ db[k] \in Values /\ db[k] # Deleted /\ store[k] = Absent
    BY <1>1, <1>6, KVAssumption DEF GetLoad, Cached, Rows
  <2>2. latest[k] = db[k]
    BY <1>1, <2>1 DEF View
  <2>3. QED
    BY <1>2, <2>1, <2>2
<1>7. CASE GetForced(t, k)
  <2>1. /\ SetLocked(k, db[k]) /\ latest' = [latest EXCEPT ![k] = db[k]]
        /\ db[k] \in Values /\ db[k] # Deleted
    BY <1>1, <1>7, KVAssumption DEF GetForced, Rows
  <2>2. QED
    BY <1>2, <2>1
<1>8. QED
  BY <1>3, <1>4, <1>5, <1>6, <1>7

\* With an empty cache get() answers the row.
LEMMA ViewInit == Init => ViewIsLatest
BY DEF Init, ViewIsLatest, View

-----------------------------------------------------------------------------
(***************************************************************************)
(* A cache that never fills.                                               *)
(***************************************************************************)

\* Every key of a copy being written is still cached.
SnapshotsCached ==
  \A t \in Threads, k \in Keys : snapshot[t][k] # Absent => store[k] # Absent

UnfilledInv == LruInv /\ SnapshotsCached /\ ViewIsLatest

\* If the keys fit the cache, there is room for one that is not cached.
LEMMA NeverFull ==
  ASSUME Cardinality(Keys) <= MaxSize, NEW k \in Keys, k \notin Cached
  PROVE  ~Full
<1>1. /\ IsFiniteSet(Keys \ {k})
      /\ Cardinality(Keys \ {k}) = Cardinality(Keys) - 1
      /\ Cardinality(Keys) \in Nat
  BY KVAssumption, FS_RemoveElement, FS_CardinalityType
<1>2. Cached \subseteq Keys \ {k}
  BY DEF Cached
<1>3. Cardinality(Cached) <= Cardinality(Keys \ {k}) /\ Cardinality(Cached) \in Nat
  BY <1>1, <1>2, FS_Subset, FS_CardinalityType
<1>4. QED
  BY <1>1, <1>3, KVAssumption DEF Full

\* A call caches more keys and drops none.
LEMMA UnfilledCall ==
  ASSUME Cardinality(Keys) <= MaxSize, UnfilledInv,
         NEW t \in Threads, NEW k \in Keys,
         \/ \E v \in Values : Set(t, k, v)
         \/ Remove(t, k)
         \/ GetCached(t, k)
         \/ GetLoad(t, k)
         \/ GetForced(t, k)
  PROVE  SnapshotsCached' /\ ViewIsLatest'
<1>1. k \in Cached \/ ~Full
  BY NeverFull
<1>2. ViewIsLatest'
  BY <1>1, CallView DEF UnfilledInv
<1>3. snapshot' = snapshot
  BY DEF Set, Remove, GetCached, GetLoad, GetForced
<1>4. store \in [Keys -> Contents] /\ db[k] \in Rows
  BY DEF UnfilledInv, LruInv, TypeOK
<1>5. \/ store' = store
      \/ \E v \in Values \cup {Deleted} : store' = [store EXCEPT ![k] = v]
  BY <1>1, <1>4 DEF Set, Remove, GetCached, GetLoad, GetForced, SetLocked, Rows
<1>6. \A x \in Keys : store[x] # Absent => store'[x] # Absent
  BY <1>4, <1>5, KVAssumption
<1>7. QED
  BY <1>2, <1>3, <1>6 DEF UnfilledInv, SnapshotsCached

\* Writing a copy, complete or not, touches the rows of cached keys only.
LEMMA UnfilledSave ==
  ASSUME UnfilledInv, NEW t \in Threads, GetStore(t) \/ SaveAll(t)
  PROVE  SnapshotsCached' /\ ViewIsLatest'
<1>1. snapshot \in [Threads -> [Keys -> Contents]] /\ db \in [Keys -> Rows]
  BY DEF UnfilledInv, LruInv, TypeOK
<1>2. CASE GetStore(t)
  BY <1>1, <1>2 DEF GetStore, UnfilledInv, SnapshotsCached, ViewIsLatest, View
<1>3. CASE SaveAll(t)
  <2>1. UNCHANGED <<store, latest>>
        /\ snapshot' = [snapshot EXCEPT ![t] = [k \in Keys |-> Absent]]
    BY <1>3 DEF SaveAll
  <2>2. PICK K \in SUBSET {k \in Keys : snapshot[t][k] # Absent} :
          db' = Written(t, K)
    BY <1>3 DEF SaveAll
  <2>3. \A k \in Keys : store[k] = Absent => db'[k] = db[k]
    BY <2>2 DEF Written, UnfilledInv, SnapshotsCached
  <2>4. ViewIsLatest'
    BY <2>1, <2>3 DEF UnfilledInv, ViewIsLatest, View
  <2>5. SnapshotsCached'
    BY <1>1, <2>1 DEF UnfilledInv, SnapshotsCached
  <2>6. QED
    BY <2>4, <2>5
<1>4. QED
  BY <1>2, <1>3

\* While the cache is large enough for every key, no interleaving of calls,
\* concurrent saveAlls and failing queries loses a value: get() answers what
\* the last set, remove or forced reload gave the key.
THEOREM UnfilledKeepsValues ==
  ASSUME Cardinality(Keys) <= MaxSize
  PROVE  Spec => []ViewIsLatest
<1>1. Init => UnfilledInv
  BY LruInit, ViewInit DEF Init, UnfilledInv, SnapshotsCached
<1>2. UnfilledInv /\ [Next]_vars => UnfilledInv'
  <2>1. SUFFICES ASSUME UnfilledInv, [Next]_vars
                 PROVE  SnapshotsCached' /\ ViewIsLatest'
    BY LruNext DEF UnfilledInv
  <2>2. CASE UNCHANGED vars
    BY <2>1, <2>2 DEF vars, UnfilledInv, SnapshotsCached, ViewIsLatest, View
  <2>3. CASE Next
    <3>1. PICK t \in Threads :
            \/ \E k \in Keys :
                 \/ \E v \in Values : Set(t, k, v)
                 \/ Remove(t, k)
                 \/ GetCached(t, k)
                 \/ GetLoad(t, k)
                 \/ GetForced(t, k)
            \/ GetStore(t)
            \/ SaveAll(t)
      BY <2>3 DEF Next
    <3>2. QED
      BY <2>1, <3>1, UnfilledCall, UnfilledSave
  <2>4. QED
    BY <2>1, <2>2, <2>3
<1>3. UnfilledInv => ViewIsLatest
  BY DEF UnfilledInv
<1>4. QED
  BY <1>1, <1>2, <1>3, PTL DEF Spec

-----------------------------------------------------------------------------
(***************************************************************************)
(* One thread.                                                             *)
(***************************************************************************)

\* The thread that saves makes no other call, so its copy is the cache.
CopyIsCache == \A t \in saving : snapshot[t] = store

OneThreadInv == LruInv /\ CopyIsCache /\ ViewIsLatest

\* A step of the only thread, which is not saving.
LEMMA OneThreadCall ==
  ASSUME NEW th, Threads = {th}, ~DbFails, OneThreadInv, NEW k \in Keys,
         \/ \E v \in Values : Set(th, k, v)
         \/ Remove(th, k)
         \/ GetCached(th, k)
         \/ GetLoad(th, k)
         \/ GetForced(th, k)
  PROVE  /\ CopyIsCache' /\ ViewIsLatest'
         /\ \A x \in Keys : db'[x] # db[x] => db'[x] = latest[x]
<1>1. th \notin saving /\ saving' = saving
  BY DEF Set, Remove, GetCached, GetLoad, GetForced, Idle
<1>2. saving = {}
  BY <1>1 DEF OneThreadInv, LruInv, TypeOK
<1>3. CopyIsCache'
  BY <1>1, <1>2 DEF CopyIsCache
<1>4. QED
  BY <1>3, CallView DEF OneThreadInv

\* Writing a copy that equals the cache changes no answer and completes the table.
LEMMA OneThreadSave ==
  ASSUME NEW th, Threads = {th}, ~DbFails, OneThreadInv, SaveAll(th)
  PROVE  /\ CopyIsCache' /\ ViewIsLatest'
         /\ \A x \in Keys : db'[x] = latest[x]
         /\ db' = latest
<1>1. /\ snapshot[th] = store /\ saving' = {}
      /\ UNCHANGED <<store, latest>>
      /\ db \in [Keys -> Rows] /\ latest \in [Keys -> Rows]
      /\ \A x \in Keys : View(x) = latest[x]
  BY DEF SaveAll, OneThreadInv, CopyIsCache, LruInv, TypeOK, ViewIsLatest
<1>2. db' = Written(th, {k \in Keys : store[k] # Absent})
  BY <1>1 DEF SaveAll
<1>3. \A x \in Keys : db'[x] = View(x)
  BY <1>1, <1>2 DEF Written, View, RowAfterSave
<1>4. db' = [x \in Keys |-> db'[x]]
  BY <1>2 DEF Written
<1>5. db' = latest
  BY <1>1, <1>3, <1>4
<1>6. \A x \in Keys : View(x)' = latest'[x]
  BY <1>1, <1>3 DEF View
<1>7. QED
  BY <1>1, <1>5, <1>6 DEF CopyIsCache, ViewIsLatest

\* The copy equals the cache when it is made.
LEMMA OneThreadGetStore ==
  ASSUME NEW th, Threads = {th}, OneThreadInv, GetStore(th)
  PROVE  CopyIsCache' /\ ViewIsLatest' /\ db' = db
<1>1. /\ saving \subseteq {th} /\ th \notin saving
      /\ snapshot \in [Threads -> [Keys -> Contents]]
  BY DEF OneThreadInv, LruInv, TypeOK, GetStore, Idle
<1>2. QED
  BY <1>1 DEF GetStore, OneThreadInv, CopyIsCache, ViewIsLatest, View

\* Every step of the only thread keeps the invariant.
LEMMA OneThreadNext ==
  ASSUME NEW th, Threads = {th}, ~DbFails, OneThreadInv, [Next]_vars
  PROVE  /\ OneThreadInv'
         /\ \A x \in Keys : db'[x] # db[x] => db'[x] = latest[x]
<1>1. LruInv'
  BY LruNext DEF OneThreadInv
<1>2. CASE UNCHANGED vars
  BY <1>1, <1>2 DEF vars, OneThreadInv, CopyIsCache, ViewIsLatest, View
<1>3. CASE Next
  <2>1. \/ \E k \in Keys :
             \/ \E v \in Values : Set(th, k, v)
             \/ Remove(th, k)
             \/ GetCached(th, k)
             \/ GetLoad(th, k)
             \/ GetForced(th, k)
        \/ GetStore(th)
        \/ SaveAll(th)
    BY <1>3 DEF Next
  <2>2. QED
    BY <1>1, <2>1, OneThreadCall, OneThreadSave, OneThreadGetStore DEF OneThreadInv
<1>4. QED
  BY <1>2, <1>3

\* The invariant holds when the server starts.
LEMMA OneThreadInit == Init => OneThreadInv
BY LruInit, ViewInit DEF Init, OneThreadInv, CopyIsCache

\* When one thread makes all the calls and queries do not fail for good, the
\* write-back cache behaves as a map, however small MAX_SIZE is.
THEOREM OneThreadKeepsValues ==
  ASSUME NEW th, Threads = {th}, ~DbFails
  PROVE  Spec => []ViewIsLatest
<1>1. OneThreadInv /\ [Next]_vars => OneThreadInv'
  BY OneThreadNext
<1>2. OneThreadInv => ViewIsLatest
  BY DEF OneThreadInv
<1>3. QED
  BY <1>1, <1>2, OneThreadInit, PTL DEF Spec

\* Under the same assumptions the table never goes back to an older value.
THEOREM OneThreadWritesCurrent ==
  ASSUME NEW th, Threads = {th}, ~DbFails
  PROVE  Spec => WritesCurrent
<1>1. OneThreadInv /\ [Next]_vars => OneThreadInv'
  BY OneThreadNext
<1>2. OneThreadInv /\ [Next]_vars
        => [\A k \in Keys : db'[k] # db[k] => db'[k] = latest[k]]_vars
  BY OneThreadNext
<1>3. QED
  BY <1>1, <1>2, OneThreadInit, PTL DEF Spec, WritesCurrent

\* Under the same assumptions a finished saveAll leaves the whole map in the
\* table.
THEOREM OneThreadSaveIsComplete ==
  ASSUME NEW th, Threads = {th}, ~DbFails
  PROVE  Spec => SaveAllIsComplete
<1>1. OneThreadInv /\ [Next]_vars => OneThreadInv'
  BY OneThreadNext
<1>2. OneThreadInv /\ [Next]_vars
        => [\A t \in Threads : SaveAll(t) => db' = latest]_vars
  BY OneThreadSave
<1>3. QED
  BY <1>1, <1>2, OneThreadInit, PTL DEF Spec, SaveAllIsComplete
=============================================================================
