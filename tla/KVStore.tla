------------------------------- MODULE KVStore -------------------------------
(***************************************************************************)
(* The key-value store: src/kv/kv.hpp, kv.cpp and its SQL backend          *)
(* kv_sql.cpp.  KVStore is a write-back LRU cache in front of the table    *)
(* kv_store.  Every operation runs under mutex_, with the query it makes,  *)
(* so it is one step; saveAll is the exception: it copies the cache under  *)
(* mutex_ and writes the copy in a transaction after releasing it.         *)
(*                                                                         *)
(* A scoped store (ScopedKV) forwards every call to the root store with a  *)
(* longer key, so the keys here are the full keys.                         *)
(***************************************************************************)
EXTENDS Integers, Sequences, FiniteSets, Functions

CONSTANTS
  Keys,
  Values,
  Threads,   \* threads that use the store
  MaxSize,   \* MAX_SIZE
  DbFails,   \* TRUE: a query may fail for good (a non-recoverable error)
  Deleted,   \* ValueWrapper::deleted()
  Absent     \* no entry in store_, no row in kv_store

Contents == Values \cup {Deleted, Absent}
Rows == Values \cup {Absent}

ASSUME KVAssumption ==
  /\ IsFiniteSet(Keys)
  /\ MaxSize \in Nat \ {0}
  /\ DbFails \in BOOLEAN
  /\ Deleted \notin Values /\ Absent \notin Values /\ Deleted # Absent

VARIABLES
  store,     \* store_: the cached value of each key
  lruQueue,  \* lruQueue_, most recently used key first
  db,        \* the rows of kv_store
  saving,    \* threads inside saveAll, after getStore
  snapshot,  \* the copy of store_ each of them is writing
  latest     \* history: what the last set, remove or reload of a key gave it

vars == <<store, lruQueue, db, saving, snapshot, latest>>

Cached == {k \in Keys : store[k] # Absent}

\* The server starts with an empty cache on the rows an earlier run left.
Init ==
  /\ store = [k \in Keys |-> Absent]
  /\ lruQueue = <<>>
  /\ db \in [Keys -> Rows]
  /\ saving = {}
  /\ snapshot = [t \in Threads |-> [k \in Keys |-> Absent]]
  /\ latest = db

-----------------------------------------------------------------------------
\* The iterator stored with a cached key points at its place in lruQueue_.
Position(k) == CHOOSE i \in DOMAIN lruQueue : lruQueue[i] = k

\* The queue without its i-th element.
Without(q, i) == [j \in 1..(Len(q) - 1) |-> IF j < i THEN q[j] ELSE q[j + 1]]

SpliceFront(k) == <<k>> \o Without(lruQueue, Position(k))
SpliceEnd(k) == Append(Without(lruQueue, Position(k)), k)

RowOfTombstone(v) == v   \* mutant

\* What prepareSave makes of the row: a deleted value deletes it, any other
\* value is upserted.
RowAfterSave(v) == IF v = Deleted THEN Absent ELSE v

SaveNot(k, v) == UNCHANGED db   \* mutant

\* KVSQL::save.  setLocked ignores its result.
Save(k, v) ==
  \/ db' = [db EXCEPT ![k] = RowAfterSave(v)]
  \/ DbFails /\ UNCHANGED db

FullLate == Cardinality(Cached) > MaxSize   \* mutant

Full == Cardinality(Cached) >= MaxSize

\* The caller holds mutex_.
SetLocked(k, v) ==
  \/ /\ k \in Cached
     /\ store' = [store EXCEPT ![k] = v]
     /\ lruQueue' = SpliceFront(k)
     /\ UNCHANGED db
  \/ /\ k \notin Cached /\ ~Full
     /\ store' = [store EXCEPT ![k] = v]
     /\ lruQueue' = <<k>> \o lruQueue
     /\ UNCHANGED db
  \/ /\ k \notin Cached /\ Full
     /\ LET last == lruQueue[Len(lruQueue)] IN
        /\ Save(last, store[last])
        /\ store' = [store EXCEPT ![last] = Absent, ![k] = v]
        /\ lruQueue' = <<k>> \o Without(lruQueue, Len(lruQueue))

Idle(t) == t \notin saving

Set(t, k, v) ==
  /\ Idle(t)
  /\ SetLocked(k, v)
  /\ latest' = [latest EXCEPT ![k] = IF v = Deleted THEN Absent ELSE v]
  /\ UNCHANGED <<saving, snapshot>>

Remove(t, k) == Set(t, k, Deleted)

\* get() of a cached key: a deleted one becomes the next to be evicted.
GetCached(t, k) ==
  /\ Idle(t)
  /\ k \in Cached
  /\ lruQueue' = IF store[k] = Deleted THEN SpliceEnd(k) ELSE SpliceFront(k)
  /\ UNCHANGED <<store, db, saving, snapshot, latest>>

\* get() of a key that is not cached and has a row.
GetLoad(t, k) ==
  /\ Idle(t)
  /\ k \notin Cached
  /\ db[k] # Absent
  /\ SetLocked(k, db[k])
  /\ UNCHANGED <<saving, snapshot, latest>>

\* get(key, forceLoad = true): the row replaces the cached value, even one
\* that was never saved.
GetForced(t, k) ==
  /\ Idle(t)
  /\ db[k] # Absent
  /\ SetLocked(k, db[k])
  /\ latest' = [latest EXCEPT ![k] = db[k]]
  /\ UNCHANGED <<saving, snapshot>>

-----------------------------------------------------------------------------
\* saveAll, first part: getStore copies the cache under mutex_.
GetStore(t) ==
  /\ Idle(t)
  /\ saving' = saving \cup {t}
  /\ snapshot' = [snapshot EXCEPT ![t] = store]
  /\ UNCHANGED <<store, lruQueue, db, latest>>

WrittenUpserts(t, K) ==   \* mutant
  [k \in Keys |-> IF k \in K /\ snapshot[t][k] # Deleted THEN snapshot[t][k]
                                                        ELSE db[k]]

\* The table after the rows of the keys K have been deleted or upserted.
Written(t, K) ==
  [k \in Keys |-> IF k \in K THEN RowAfterSave(snapshot[t][k]) ELSE db[k]]

SaveAllFlushing(t) ==   \* mutant
  /\ t \in saving
  /\ db' = Written(t, {k \in Keys : snapshot[t][k] # Absent})
  /\ store' = [k \in Keys |-> Absent]
  /\ saving' = saving \ {t}
  /\ UNCHANGED <<lruQueue, snapshot, latest>>

\* saveAll, second part: the transaction that writes the copy.  It holds
\* databaseLock until the commit, so no other query falls inside it.  After a
\* failed query the callback returns false and executeWithinTransaction
\* commits what had been written.
SaveAll(t) ==
  /\ t \in saving
  /\ LET K == {k \in Keys : snapshot[t][k] # Absent} IN
     \/ db' = Written(t, K)
     \/ DbFails /\ \E P \in SUBSET K : db' = Written(t, P)
  /\ saving' = saving \ {t}
  /\ snapshot' = [snapshot EXCEPT ![t] = [k \in Keys |-> Absent]]
  /\ UNCHANGED <<store, lruQueue, latest>>

Next ==
  \E t \in Threads :
    \/ \E k \in Keys :
         \/ \E v \in Values : Set(t, k, v)
         \/ Remove(t, k)
         \/ GetCached(t, k)
         \/ GetLoad(t, k)
         \/ GetForced(t, k)
    \/ GetStore(t)
    \/ SaveAll(t)

Spec == Init /\ [][Next]_vars

-----------------------------------------------------------------------------
(***************************************************************************)
(* Properties.                                                             *)
(***************************************************************************)

\* The variables of KVStore, KVSQL::saveAll's copy and the table keep their
\* types.
TypeOK ==
  /\ store \in [Keys -> Contents]
  /\ lruQueue \in Seq(Keys)
  /\ db \in [Keys -> Rows]
  /\ saving \subseteq Threads
  /\ snapshot \in [Threads -> [Keys -> Contents]]
  /\ latest \in [Keys -> Rows]

\* lruQueue_ holds exactly the cached keys, each once, and the cache never
\* outgrows MAX_SIZE: the iterators kept in store_ stay valid through every
\* splice, eviction and reload, so setLocked and get never splice or pop an
\* element that is not there.
LruMatchesStore ==
  /\ Range(lruQueue) = Cached
  /\ IsInjective(lruQueue)
  /\ Len(lruQueue) <= MaxSize

\* What get(k) answers.
View(k) ==
  IF store[k] = Absent THEN db[k]
  ELSE IF store[k] = Deleted THEN Absent ELSE store[k]

\* No value is lost between the cache and the table: get() answers what the
\* last set, remove or forced reload of the key gave it, whatever was evicted,
\* loaded or saved in between.
ViewIsLatest == \A k \in Keys : View(k) = latest[k]

\* save and saveAll only ever write the current value of a key, so the table
\* never goes back to an older one: what a restart finds is at least as new as
\* what the last completed save left.
WritesCurrent ==
  [][\A k \in Keys : db'[k] # db[k] => db'[k] = latest[k]]_vars

\* A saveAll on the thread that makes all the calls leaves the whole map in the
\* table: its copy has the cached keys, and the evicted ones were written when
\* they left the cache.
SaveAllIsComplete ==
  [][\A t \in Threads : SaveAll(t) => db' = latest]_vars
=============================================================================
