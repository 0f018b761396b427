--------------------------- MODULE DatabaseProofs ---------------------------
(***************************************************************************)
(* Proofs about Database, for any number of threads and statements.  The   *)
(* types hold always; as long as no statement has failed or lost the       *)
(* connection, a transaction's uncommitted writes belong to the holder of  *)
(* databaseLock, a transaction reported as successful is durable, one that *)
(* overlaps with no other is atomic, and an acknowledged query is kept.    *)
(***************************************************************************)
EXTENDS Database, TLAPS

\* Exactly the thread inside a transaction holds databaseLock.
HolderInside == \A t \in Transactors : Inside(t) <=> owner = t

\* Nothing a callback has written is lost while it is inside.
Accounted ==
  \A t \in Transactors :
    Inside(t) => \A i \in 1..n[t] : <<t, i>> \in table \cup pending

\* A callback that has not started has executed nothing.
NotStarted ==
  \A t \in Transactors : pc[t] \in {"start", "begun"} => n[t] = 0

\* What holds as long as nothing has failed.
DbInv ==
  /\ faults = {}
  /\ TypeOK
  /\ HolderInside
  /\ Isolation
  /\ NotStarted
  /\ Accounted
  /\ CommittedIsDurable

\* What a write does to the session, in a transaction or not.
LEMMA SessionWriteEffect ==
  ASSUME NEW w, SessionWrite(w)
  PROVE  /\ pending \subseteq pending' /\ pending' \subseteq pending \cup {w}
         /\ table \subseteq table' /\ table' \subseteq table \cup {w}
         /\ w \in table' \cup pending'
<1>1. CASE inTransaction
  BY <1>1 DEF SessionWrite
<1>2. CASE ~inTransaction
  BY <1>2 DEF SessionWrite
<1>3. QED
  BY <1>1, <1>2

\* The writes of a thread are among all writes.
LEMMA WriteType ==
  ASSUME NEW t \in Threads, NEW i \in 1..NWrites
  PROVE  <<t, i>> \in AllWrites /\ <<t, i>> \in Writes(t)
BY DEF AllWrites, Writes

\* A write belongs to one thread only.
LEMMA WritesDisjoint ==
  ASSUME NEW t, NEW u, t # u, NEW i
  PROVE  <<t, i>> \notin Writes(u)
BY DEF Writes

\* The invariant holds when the server starts.
LEMMA DbInit == Init => DbInv
<1>1. SUFFICES ASSUME Init PROVE DbInv
  OBVIOUS
<1>2. TypeOK
  <2>1. inTransaction \in BOOLEAN
    BY <1>1, Zenon DEF Init
  <2>2. QED
    BY <1>1, <2>1, DatabaseAssumption DEF Init, TypeOK, PCs, Results
<1>3. HolderInside /\ Isolation /\ NotStarted /\ Accounted /\ CommittedIsDurable
  BY <1>1, DatabaseAssumption
     DEF Init, HolderInside, Isolation, NotStarted, Accounted, CommittedIsDurable, Inside, Threads
<1>4. QED
  BY <1>1, <1>2, <1>3 DEF DbInv, Init

\* No step of a writer or of a transactor outside its transaction falls between
\* the writes of a transaction.
LEMMA PlainQueryInv ==
  ASSUME DbInv, faults' = {}, NEW t \in Writers, PlainQuery(t)
  PROVE  DbInv'
<1>1. /\ t \in Threads /\ t \notin Transactors /\ pc[t] = "start"
      /\ SessionWrite(<<t, 1>>) /\ acked' = acked \cup {<<t, 1>>}
      /\ pc' = [pc EXCEPT ![t] = "done"]
      /\ UNCHANGED <<n, result, owner, overlapped>>
  BY DatabaseAssumption DEF PlainQuery, ExecuteQuery, ExecuteQueryFailed, Fault, Threads
<1>2. <<t, 1>> \in AllWrites
  BY <1>1, WriteType, DatabaseAssumption
<1>3. /\ pending \subseteq pending' /\ pending' \subseteq pending \cup {<<t, 1>>}
      /\ table \subseteq table' /\ table' \subseteq table \cup {<<t, 1>>}
  BY <1>1, SessionWriteEffect
<1>4. inTransaction' = inTransaction
  BY <1>1 DEF SessionWrite
<1>5. TypeOK'
  BY <1>1, <1>2, <1>3, <1>4 DEF DbInv, TypeOK, PCs
<1>6. \A u \in Transactors : pc'[u] = pc[u] /\ n'[u] = n[u] /\ <<t, 1>> \notin Writes(u)
  BY <1>1, WritesDisjoint DEF DbInv, TypeOK, Threads
<1>7. \A u \in Transactors : Inside(u)' <=> Inside(u)
  BY <1>6 DEF Inside
<1>8. HolderInside' /\ NotStarted' /\ Accounted' /\ CommittedIsDurable'
  BY <1>1, <1>3, <1>6, <1>7
     DEF DbInv, HolderInside, NotStarted, Accounted, CommittedIsDurable
<1>9. Isolation'
  BY <1>1, <1>3, <1>6, <1>7 DEF DbInv, Isolation
<1>10. QED
  BY <1>5, <1>8, <1>9 DEF DbInv

\* BEGIN runs while databaseLock is free, so nobody is inside a transaction.
LEMMA BeginInv ==
  ASSUME DbInv, faults' = {}, NEW t \in Transactors, BeginTransaction(t)
  PROVE  DbInv'
<1>1. /\ t \in Threads /\ pc[t] = "start" /\ owner \in {NoThread, t}
      /\ SessionBegin /\ pc' = [pc EXCEPT ![t] = "begun"]
      /\ UNCHANGED <<n, result, owner, acked>>
      /\ overlapped' \subseteq overlapped \cup Transactors
  BY DEF BeginTransaction, CanLock, Threads, Fault
<1>2. owner = NoThread
  BY <1>1 DEF DbInv, HolderInside, Inside
<1>3. \A u \in Transactors : ~Inside(u) /\ ~Inside(u)'
  BY <1>1, <1>2, DatabaseAssumption
     DEF DbInv, HolderInside, Inside, Threads, TypeOK
<1>4. table' = table \cup pending /\ pending' = {}
  BY <1>1 DEF SessionBegin
<1>5. inTransaction' \in BOOLEAN
  BY <1>1, Zenon DEF SessionBegin
<1>6. TypeOK'
  BY <1>1, <1>4, <1>5 DEF DbInv, TypeOK, PCs
<1>7. HolderInside' /\ Isolation' /\ Accounted'
  BY <1>1, <1>2, <1>3, <1>4, DatabaseAssumption
     DEF HolderInside, Isolation, Accounted, Threads
<1>8. NotStarted' /\ CommittedIsDurable'
  BY <1>1, <1>4 DEF DbInv, TypeOK, NotStarted, CommittedIsDurable
<1>9. QED
  BY <1>6, <1>7, <1>8 DEF DbInv

\* Taking databaseLock keeps the invariant: nobody was inside.
LEMMA LockInv ==
  ASSUME DbInv, faults' = {}, NEW t \in Transactors, LockTransaction(t)
  PROVE  DbInv'
<1>1. /\ t \in Threads /\ pc[t] = "begun" /\ owner = NoThread /\ owner' = t
      /\ pc' = [pc EXCEPT ![t] = "body"]
      /\ UNCHANGED <<n, result, session, acked, overlapped>>
  BY DEF LockTransaction, Threads
<1>2. UNCHANGED <<inTransaction, pending, table>>
  BY <1>1 DEF session
<1>3. \A u \in Transactors : ~Inside(u)
  BY <1>1, DatabaseAssumption DEF DbInv, HolderInside, Threads
<1>4. \A u \in Transactors : Inside(u)' <=> u = t
  BY <1>1, <1>3 DEF DbInv, TypeOK, Inside, Threads
<1>5. pending \cap Writes(t) = {}
  BY <1>3 DEF DbInv, Isolation
<1>6. TypeOK'
  BY <1>1, <1>2 DEF DbInv, TypeOK, PCs
<1>7. HolderInside' /\ Isolation'
  BY <1>1, <1>2, <1>3, <1>4 DEF DbInv, HolderInside, Isolation
<1>8. n[t] = 0
  BY <1>1 DEF DbInv, NotStarted
<1>9. NotStarted' /\ Accounted' /\ CommittedIsDurable'
  BY <1>1, <1>2, <1>4, <1>8
     DEF DbInv, TypeOK, NotStarted, Accounted, CommittedIsDurable, Threads
<1>10. QED
  BY <1>6, <1>7, <1>9 DEF DbInv

\* The holder of databaseLock adds a write to its transaction.
LEMMA CallbackInv ==
  ASSUME DbInv, faults' = {}, NEW t \in Transactors, CallbackQuery(t)
  PROVE  DbInv'
<1> DEFINE w == <<t, n[t] + 1>>
<1>1. /\ t \in Threads /\ pc[t] = "body" /\ n[t] \in 0..NWrites /\ n[t] < NWrites
      /\ SessionWrite(w) /\ acked' = acked \cup {w}
      /\ n' = [n EXCEPT ![t] = @ + 1]
      /\ UNCHANGED <<pc, result, owner, overlapped>>
  BY DEF CallbackQuery, ExecuteQuery, ExecuteQueryFailed, Fault, Threads, DbInv, TypeOK
<1>2. n[t] + 1 \in 1..NWrites
  BY <1>1, DatabaseAssumption
<1>3. w \in AllWrites /\ w \in Writes(t)
  BY <1>1, <1>2, WriteType
<1>4. /\ pending \subseteq pending' /\ pending' \subseteq pending \cup {w}
      /\ table \subseteq table' /\ table' \subseteq table \cup {w}
      /\ w \in table' \cup pending'
  BY <1>1, SessionWriteEffect
<1>5. inTransaction' = inTransaction
  BY <1>1 DEF SessionWrite
<1>6. TypeOK'
  BY <1>1, <1>2, <1>3, <1>4, <1>5, DatabaseAssumption DEF DbInv, TypeOK
<1>7. \A u \in Transactors : /\ Inside(u)' <=> Inside(u)
                             /\ u # t => w \notin Writes(u) /\ n'[u] = n[u]
  BY <1>1, WritesDisjoint DEF Inside, DbInv, TypeOK, Threads
<1>8. n'[t] = n[t] + 1
  BY <1>1 DEF DbInv, TypeOK
<1>9. owner = t /\ Inside(t)
  BY <1>1 DEF DbInv, HolderInside, Inside
<1>10. Accounted'
  <2>1. SUFFICES ASSUME NEW u \in Transactors, Inside(u)', NEW i \in 1..n'[u]
                 PROVE  <<u, i>> \in table' \cup pending'
    BY DEF Accounted
  <2>2. CASE u # t
    BY <1>4, <1>7, <2>1, <2>2 DEF DbInv, Accounted
  <2>3. CASE u = t /\ i # n[t] + 1
    <3>1. i \in 1..n[t]
      BY <1>1, <1>8, <2>1, <2>3
    <3>2. QED
      BY <1>4, <1>7, <2>1, <2>3, <3>1 DEF DbInv, Accounted
  <2>4. CASE u = t /\ i = n[t] + 1
    BY <1>4, <2>4
  <2>5. QED
    BY <2>2, <2>3, <2>4
<1> HIDE DEF w
<1>11. Isolation'
  BY <1>1, <1>4, <1>7, <1>9 DEF DbInv, Isolation
<1>12. HolderInside'
  BY <1>1, <1>7 DEF DbInv, HolderInside
<1>13. NotStarted' /\ CommittedIsDurable'
  BY <1>1, <1>4, <1>7 DEF DbInv, NotStarted, CommittedIsDurable
<1>14. QED
  BY <1>6, <1>10, <1>11, <1>12, <1>13 DEF DbInv

\* An exception of the callback keeps the invariant.
LEMMA ThrowInv ==
  ASSUME DbInv, faults' = {}, NEW t \in Transactors, CallbackThrow(t)
  PROVE  DbInv'
<1>1. /\ t \in Threads /\ pc[t] = "body" /\ pc' = [pc EXCEPT ![t] = "thrown"]
      /\ UNCHANGED <<n, result, owner, inTransaction, pending, table, acked,
                     overlapped>>
  BY DEF CallbackThrow, session, Threads
<1>2. \A u \in Transactors : Inside(u)' <=> Inside(u)
  BY <1>1 DEF Inside, DbInv, TypeOK, Threads
<1>3. TypeOK'
  BY <1>1 DEF DbInv, TypeOK, PCs
<1>4. HolderInside' /\ Isolation' /\ Accounted'
  BY <1>1, <1>2 DEF DbInv, HolderInside, Isolation, Accounted
<1>5. NotStarted' /\ CommittedIsDurable'
  BY <1>1 DEF DbInv, TypeOK, NotStarted, CommittedIsDurable, Threads
<1>6. QED
  BY <1>3, <1>4, <1>5 DEF DbInv

\* A transaction ends: its thread leaves and databaseLock is free again.
LEMMA EndInv ==
  ASSUME DbInv, faults' = {}, NEW t \in Transactors,
         Commit(t) \/ Rollback(t)
  PROVE  DbInv'
<1>1. /\ t \in Threads /\ Inside(t)
      /\ pc' = [pc EXCEPT ![t] = "done"] /\ owner' = Release(t)
      /\ UNCHANGED <<n, acked, overlapped>>
      /\ pending' = {} /\ table \subseteq table' /\ table' \subseteq table \cup pending
  BY DEF Commit, Rollback, Inside, Threads, SessionCommit, SessionRollback
<1>2. inTransaction' \in BOOLEAN
  BY Zenon DEF Commit, Rollback, SessionCommit, SessionRollback
<1>3. \/ result' = [result EXCEPT ![t] = "true"]
      \/ result' = [result EXCEPT ![t] = "false"]
  BY DEF Commit, Rollback
<1>4. owner = t /\ owner' = NoThread
  BY <1>1 DEF DbInv, HolderInside, Release
<1>5. \A u \in Transactors : ~Inside(u)'
  BY <1>1, <1>4 DEF DbInv, HolderInside, Inside, TypeOK, Threads
<1>6. TypeOK'
  BY <1>1, <1>2, <1>3, <1>4 DEF DbInv, TypeOK, PCs, Results
<1>7. HolderInside' /\ Isolation' /\ Accounted'
  BY <1>1, <1>4, <1>5, DatabaseAssumption
     DEF HolderInside, Isolation, Accounted, Threads
<1>8. NotStarted'
  BY <1>1 DEF DbInv, TypeOK, NotStarted, Threads
<1>9. ASSUME NEW u \in Transactors, pc'[u] = "done", result'[u] = "true"
      PROVE  Writes(u) \subseteq table'
  <2>1. CASE u # t
    BY <1>1, <1>3, <1>9, <2>1 DEF DbInv, TypeOK, CommittedIsDurable, Threads
  <2>2. CASE u = t
    <3>1. Commit(t) /\ pc[t] = "body" /\ n[t] = NWrites
      BY <1>1, <1>9, <2>2 DEF Commit, Rollback, DbInv, TypeOK
    <3>2. table' = table \cup pending
      BY <3>1 DEF Commit, SessionCommit, Fault
    <3>3. \A i \in 1..NWrites : <<t, i>> \in table \cup pending
      BY <1>1, <3>1 DEF DbInv, Accounted
    <3>4. QED
      BY <2>2, <3>2, <3>3 DEF Writes
  <2>3. QED
    BY <2>1, <2>2
<1>10. CommittedIsDurable'
  BY <1>9 DEF CommittedIsDurable
<1>11. QED
  BY <1>6, <1>7, <1>8, <1>10 DEF DbInv

\* Every step without errors keeps the invariant.
LEMMA DbNext ==
  ASSUME faults' = {}, DbInv, [Next]_vars
  PROVE  DbInv'
<1>1. CASE UNCHANGED vars
  BY <1>1 DEF vars, session, DbInv, TypeOK, HolderInside, Isolation, NotStarted,
              Accounted, CommittedIsDurable, Inside
<1>2. ASSUME NEW t \in Transactors,
             \/ BeginTransaction(t) \/ LockTransaction(t) \/ CallbackQuery(t)
             \/ CallbackThrow(t) \/ Commit(t) \/ Rollback(t)
      PROVE  DbInv'
  BY <1>2, BeginInv, LockInv, CallbackInv, ThrowInv, EndInv
<1>3. ASSUME NEW t \in Writers, PlainQuery(t)
      PROVE  DbInv'
  BY <1>3, PlainQueryInv
<1>4. QED
  BY <1>1, <1>2, <1>3 DEF Next, Step

\* A fault is remembered.
LEMMA FaultsGrow ==
  ASSUME [Next]_vars
  PROVE  faults \subseteq faults'
BY DEF Next, Step, BeginTransaction, LockTransaction, CallbackQuery, CallbackThrow,
   Commit, Rollback, PlainQuery, ExecuteQuery, ExecuteQueryFailed, Fault, vars

\* The invariant, until something fails.
LEMMA UntilFault == Spec => [](faults = {} => DbInv)
<1>1. Init => (faults = {} => DbInv)
  BY DbInit
<1>2. (faults = {} => DbInv) /\ [Next]_vars => (faults = {} => DbInv)'
  BY DbNext, FaultsGrow
<1>3. QED
  BY <1>1, <1>2, PTL DEF Spec

\* For any number of transactions and plain queries on the shared connection,
\* the uncommitted writes of a transaction are in the session only while its
\* thread holds databaseLock.
THEOREM TransactionsIsolated == Spec => []Isolation
<1>1. (faults = {} => DbInv) => Isolation
  BY DEF DbInv, Isolation
<1>2. QED
  BY <1>1, UntilFault, PTL

\* A transaction for which executeWithinTransaction returns true has all its
\* writes in the database, even when other transactions started in between.
THEOREM SuccessIsDurable == Spec => []CommittedIsDurable
<1>1. (faults = {} => DbInv) => CommittedIsDurable
  BY DEF DbInv, CommittedIsDurable
<1>2. QED
  BY <1>1, UntilFault, PTL

-----------------------------------------------------------------------------
(***************************************************************************)
(* Transactions that do not overlap.                                       *)
(***************************************************************************)

\* While a transaction that overlaps with no other is in progress, it is the
\* only one, and the session's transaction is open and holds all its writes.
Alone(a) ==
  /\ InProgress(a) => /\ inTransaction
                      /\ \A u \in Transactors \ {a} : ~InProgress(u)
  /\ pc[a] # "done" => Writes(a) \cap table = {}
  /\ pc[a] = "done" => AllOrNothing(a)

NoFalse == \A t \in Transactors : pc[t] # "failed"

SeparateInv ==
  /\ DbInv
  /\ NoFalse
  /\ \A a \in Transactors \ overlapped : Alone(a)

\* Without query errors no callback returns false.
LEMMA NoFalseNext ==
  ASSUME faults' = {}, TypeOK, NoFalse, [Next]_vars
  PROVE  NoFalse'
<1>1. pc \in [Threads -> PCs]
  BY DEF TypeOK
<1>2. CASE UNCHANGED vars
  BY <1>2 DEF vars, NoFalse
<1>3. ASSUME NEW t \in Threads, Step(t)
      PROVE  \A u \in Transactors : pc'[u] # "failed"
  <2>1. \/ pc' = pc
        \/ \E p \in {"begun", "body", "thrown", "done"} : pc' = [pc EXCEPT ![t] = p]
    BY <1>3 DEF Step, BeginTransaction, LockTransaction, CallbackQuery,
       CallbackThrow, Commit, Rollback, PlainQuery, ExecuteQueryFailed, Fault
  <2>2. QED
    BY <1>1, <2>1 DEF NoFalse, Threads
<1>4. QED
  BY <1>2, <1>3 DEF Next, NoFalse

\* The step of another thread: what happens to a transaction that is not in
\* progress.
LEMMA OtherStep ==
  ASSUME faults' = {}, SeparateInv, NEW a \in Transactors,
         NEW t \in Threads, t # a, Step(t),
         InProgress(a) => t \in Writers
  PROVE  /\ pc'[a] = pc[a] /\ result'[a] = result[a]
         /\ Writes(a) \cap table' = Writes(a) \cap table
<1>1. /\ pc \in [Threads -> PCs] /\ result \in [Threads -> Results]
      /\ n \in [Threads -> 0..NWrites] /\ a \in Threads
      /\ Isolation
      /\ t \in Writers => t \notin Transactors
  BY DatabaseAssumption DEF SeparateInv, DbInv, TypeOK, Threads
<1>2. ~InProgress(a) => pending \cap Writes(a) = {}
  BY <1>1 DEF Isolation, InProgress, SeparateInv, DbInv
<1>3. CASE t \in Writers /\ PlainQuery(t)
  <2>1. /\ SessionWrite(<<t, 1>>) /\ pc' = [pc EXCEPT ![t] = "done"]
        /\ result' = result
    BY <1>3 DEF PlainQuery, ExecuteQuery, ExecuteQueryFailed, Fault
  <2>2. table \subseteq table' /\ table' \subseteq table \cup {<<t, 1>>}
    BY <2>1 DEF SessionWrite
  <2>3. QED
    BY <1>1, <2>1, <2>2, WritesDisjoint
<1>4. CASE ~InProgress(a) /\ BeginTransaction(t)
  <2>1. /\ SessionBegin /\ pc' = [pc EXCEPT ![t] = "begun"] /\ result' = result
    BY <1>4 DEF BeginTransaction, Fault
  <2>2. QED
    BY <1>1, <1>2, <1>4, <2>1 DEF SessionBegin
<1>5. CASE LockTransaction(t) \/ CallbackThrow(t)
  BY <1>1, <1>5 DEF LockTransaction, CallbackThrow, session
<1>6. CASE CallbackQuery(t)
  <2>1. SessionWrite(<<t, n[t] + 1>>) /\ pc' = pc /\ result' = result
    BY <1>6 DEF CallbackQuery, ExecuteQuery, ExecuteQueryFailed, Fault
  <2>2. table \subseteq table' /\ table' \subseteq table \cup {<<t, n[t] + 1>>}
    BY <2>1 DEF SessionWrite
  <2>3. QED
    BY <1>1, <2>1, <2>2, WritesDisjoint
<1>7. CASE ~InProgress(a) /\ Commit(t)
  <2>1. /\ SessionCommit /\ pc' = [pc EXCEPT ![t] = "done"]
        /\ result'[a] = result[a]
    BY <1>1, <1>7 DEF Commit, Fault
  <2>2. QED
    BY <1>1, <1>2, <1>7, <2>1 DEF SessionCommit
<1>8. CASE Rollback(t)
  BY <1>1, <1>8 DEF Rollback, SessionRollback
<1>9. QED
  BY <1>1, <1>3, <1>4, <1>5, <1>6, <1>7, <1>8 DEF Step

\* A step of the thread of a transaction that overlaps with no other.
LEMMA OwnStep ==
  ASSUME faults' = {}, SeparateInv, NEW a \in Transactors, Alone(a),
         Step(a), a \notin overlapped', DbInv'
  PROVE  Alone(a)'
<1>1. /\ pc \in [Threads -> PCs] /\ result \in [Threads -> Results]
      /\ a \in Threads /\ a \notin Writers
      /\ Isolation /\ CommittedIsDurable' /\ pc[a] # "failed"
  BY DatabaseAssumption DEF SeparateInv, NoFalse, DbInv, TypeOK, Threads
<1>2. CASE BeginTransaction(a)
  <2>1. /\ pc' = [pc EXCEPT ![a] = "begun"] /\ SessionBegin /\ pc[a] = "start"
        /\ \A u \in Transactors \ {a} : ~InProgress(u)
    BY <1>2 DEF BeginTransaction, Fault
  <2>2. inTransaction'
    BY <2>1, Zenon DEF SessionBegin
  <2>3. pending \cap Writes(a) = {}
    BY <1>1, <2>1 DEF Isolation, Inside, SeparateInv, DbInv
  <2>4. \A u \in Transactors \ {a} : ~InProgress(u)'
    BY <1>1, <2>1 DEF InProgress, Inside, Threads
  <2>5. pc'[a] = "begun" /\ Writes(a) \cap table' = {}
    BY <1>1, <2>1, <2>3 DEF SessionBegin, Alone
  <2>6. QED
    BY <2>2, <2>4, <2>5 DEF Alone
<1>3. CASE LockTransaction(a) \/ CallbackThrow(a)
  <2>1. /\ InProgress(a) /\ pc[a] # "done" /\ UNCHANGED <<inTransaction, table>>
        /\ \/ pc' = [pc EXCEPT ![a] = "body"]
           \/ pc' = [pc EXCEPT ![a] = "thrown"]
    BY <1>3 DEF LockTransaction, CallbackThrow, session, InProgress, Inside
  <2>2. pc'[a] # "done" /\ \A u \in Transactors \ {a} : pc'[u] = pc[u]
    BY <1>1, <2>1 DEF Threads
  <2>3. QED
    BY <2>1, <2>2 DEF Alone, InProgress, Inside
<1>4. CASE CallbackQuery(a)
  <2>1. /\ pc[a] = "body" /\ pc' = pc /\ SessionWrite(<<a, n[a] + 1>>)
    BY <1>4 DEF CallbackQuery, ExecuteQuery, ExecuteQueryFailed, Fault
  <2>2. inTransaction
    BY <2>1 DEF Alone, InProgress, Inside
  <2>3. table' = table /\ inTransaction' = inTransaction
    BY <2>1, <2>2 DEF SessionWrite
  <2>4. QED
    BY <2>1, <2>3 DEF Alone, InProgress, Inside
<1>5. CASE Commit(a)
  <2>1. pc' = [pc EXCEPT ![a] = "done"] /\ result' = [result EXCEPT ![a] = "true"]
    BY <1>1, <1>5 DEF Commit
  <2>2. pc'[a] = "done" /\ result'[a] = "true"
    BY <1>1, <2>1
  <2>3. QED
    BY <1>1, <2>2 DEF Alone, AllOrNothing, InProgress, Inside, CommittedIsDurable
<1>6. CASE Rollback(a)
  <2>1. /\ pc[a] = "thrown" /\ table' = table
        /\ pc'[a] = "done" /\ result'[a] = "false"
    BY <1>1, <1>6 DEF Rollback, SessionRollback
  <2>2. QED
    BY <2>1 DEF Alone, AllOrNothing, InProgress, Inside
<1>7. QED
  BY <1>1, <1>2, <1>3, <1>4, <1>5, <1>6 DEF Step

\* A step of any other thread.
LEMMA AloneOther ==
  ASSUME faults' = {}, SeparateInv, NEW a \in Transactors, Alone(a),
         NEW t \in Threads, t # a, Step(t), a \notin overlapped'
  PROVE  Alone(a)'
<1>1. pc \in [Threads -> PCs] /\ a \in Threads
  BY DEF SeparateInv, DbInv, TypeOK, Threads
<1>2. CASE t \in Writers
  <2>1. /\ SessionWrite(<<t, 1>>) /\ pc' = [pc EXCEPT ![t] = "done"]
        /\ t \notin Transactors
    BY <1>2, DatabaseAssumption DEF Step, PlainQuery, ExecuteQuery, ExecuteQueryFailed, Fault
  <2>2. inTransaction' = inTransaction
    BY <2>1 DEF SessionWrite
  <2>3. \A u \in Transactors : pc'[u] = pc[u]
    BY <1>1, <2>1 DEF Threads
  <2>4. /\ result'[a] = result[a]
        /\ Writes(a) \cap table' = Writes(a) \cap table
    BY <1>2, OtherStep
  <2>5. QED
    BY <2>2, <2>3, <2>4 DEF Alone, AllOrNothing, InProgress, Inside
<1>3. CASE t \in Transactors /\ t \notin Writers
  <2>1. ~InProgress(a)
    <3>1. CASE BeginTransaction(t)
      BY <1>3, <3>1 DEF BeginTransaction
    <3>2. CASE ~BeginTransaction(t)
      <4>1. InProgress(t)
        BY <1>3, <3>2 DEF Step, LockTransaction, CallbackQuery, CallbackThrow,
           Commit, Rollback, InProgress, Inside
      <4>2. QED
        BY <1>3, <4>1 DEF Alone
    <3>3. QED
      BY <3>1, <3>2
  <2>2. /\ pc'[a] = pc[a] /\ result'[a] = result[a]
        /\ Writes(a) \cap table' = Writes(a) \cap table
    BY <2>1, OtherStep
  <2>3. ~InProgress(a)'
    BY <2>1, <2>2 DEF InProgress, Inside
  <2>4. QED
    BY <2>2, <2>3 DEF Alone, AllOrNothing
<1>4. QED
  BY <1>2, <1>3 DEF Threads

\* Every step without errors keeps separate transactions atomic.
LEMMA SeparateNext ==
  ASSUME faults' = {}, SeparateInv, [Next]_vars
  PROVE  SeparateInv'
<1>1. DbInv' /\ NoFalse'
  BY DbNext, NoFalseNext DEF SeparateInv, DbInv
<1>2. CASE UNCHANGED vars
  BY <1>1, <1>2 DEF vars, session, SeparateInv, Alone, AllOrNothing, InProgress, Inside
<1>3. ASSUME NEW t \in Threads, Step(t), NEW a \in Transactors \ overlapped'
      PROVE  Alone(a)'
  <2>1. overlapped \subseteq overlapped'
    BY <1>3 DEF Step, BeginTransaction, LockTransaction, CallbackQuery,
       CallbackThrow, Commit, Rollback, PlainQuery
  <2>2. Alone(a)
    BY <1>3, <2>1 DEF SeparateInv
  <2>3. QED
    BY <1>1, <1>3, <2>2, OwnStep, AloneOther
<1>4. QED
  BY <1>1, <1>2, <1>3 DEF SeparateInv, Next

\* As long as nothing fails, transactions that are never in progress at the same
\* time are all-or-nothing, for any number of transactions and plain queries.
THEOREM SeparateTransactionsAtomic == Spec => []SeparateAreAtomic
<1>1. Init => (faults = {} => SeparateInv)
  BY DbInit DEF Init, SeparateInv, NoFalse, Alone, InProgress, Inside, Threads
<1>2. (faults = {} => SeparateInv) /\ [Next]_vars => (faults = {} => SeparateInv)'
  BY SeparateNext, FaultsGrow
<1>3. (faults = {} => SeparateInv) => SeparateAreAtomic
  BY DEF SeparateInv, Alone, SeparateAreAtomic
<1>4. QED
  BY <1>1, <1>2, <1>3, PTL DEF Spec

-----------------------------------------------------------------------------
(***************************************************************************)
(* With faults.                                                            *)
(***************************************************************************)

\* Every operation on the session keeps its type.
LEMMA SessionType ==
  ASSUME inTransaction \in BOOLEAN, pending \subseteq AllWrites,
         table \subseteq AllWrites, NEW w \in AllWrites,
         \/ SessionWrite(w) \/ SessionWriteAfterLoss(w) \/ SessionBegin
         \/ SessionBeginAfterLoss \/ SessionCommit \/ SessionRollback
         \/ UNCHANGED session
  PROVE  /\ inTransaction' \in BOOLEAN /\ pending' \subseteq AllWrites
         /\ table' \subseteq AllWrites
<1>1. inTransaction' \in BOOLEAN
  BY Zenon DEF SessionWrite, SessionWriteAfterLoss, SessionBegin,
     SessionBeginAfterLoss, SessionCommit, SessionRollback, session
<1>2. pending' \subseteq AllWrites /\ table' \subseteq AllWrites
  BY DEF SessionWrite, SessionWriteAfterLoss, SessionBegin, SessionBeginAfterLoss,
     SessionCommit, SessionRollback, session
<1>3. QED
  BY <1>1, <1>2

\* A step of a thread keeps the types.
LEMMA StepType ==
  ASSUME TypeOK, NEW t \in Threads, Step(t)
  PROVE  TypeOK'
<1>1. /\ pc \in [Threads -> PCs] /\ n \in [Threads -> 0..NWrites]
      /\ result \in [Threads -> Results] /\ owner \in Transactors \cup {NoThread}
      /\ acked \subseteq AllWrites /\ overlapped \subseteq Transactors
      /\ faults \subseteq Threads
  BY DEF TypeOK
<1>2. <<t, 1>> \in AllWrites /\ (n[t] < NWrites => <<t, n[t] + 1>> \in AllWrites)
  BY <1>1, WriteType, DatabaseAssumption
<1>3. inTransaction' \in BOOLEAN /\ pending' \subseteq AllWrites /\ table' \subseteq AllWrites
  <2>1. \E w \in AllWrites :
          \/ SessionWrite(w) \/ SessionWriteAfterLoss(w) \/ SessionBegin
          \/ SessionBeginAfterLoss \/ SessionCommit \/ SessionRollback
          \/ UNCHANGED session
    BY <1>2, Zenon DEF Step, BeginTransaction, LockTransaction, CallbackQuery,
       CallbackThrow, Commit, Rollback, PlainQuery, ExecuteQuery, ExecuteQueryFailed
  <2>2. QED
    BY <2>1, SessionType DEF TypeOK
<1>4. pc' \in [Threads -> PCs]
  BY <1>1 DEF PCs, Step, BeginTransaction, LockTransaction, CallbackQuery,
     CallbackThrow, Commit, Rollback, PlainQuery
<1>5. n' \in [Threads -> 0..NWrites] /\ result' \in [Threads -> Results]
  BY <1>1, DatabaseAssumption DEF Results, Step, BeginTransaction, LockTransaction,
     CallbackQuery, CallbackThrow, Commit, Rollback, PlainQuery
<1>6. owner' \in Transactors \cup {NoThread} /\ overlapped' \subseteq Transactors
  BY <1>1 DEF Step, BeginTransaction, LockTransaction, CallbackQuery, CallbackThrow,
     Commit, Rollback, PlainQuery, Release
<1>7. acked' \subseteq AllWrites /\ faults' \subseteq Threads
  BY <1>1, <1>2 DEF Step, BeginTransaction, LockTransaction, CallbackQuery,
     CallbackThrow, Commit, Rollback, PlainQuery, ExecuteQuery, ExecuteQueryFailed, Fault
<1>8. QED
  BY <1>3, <1>4, <1>5, <1>6, <1>7 DEF TypeOK

\* Whatever fails, the threads, databaseLock and the session keep their types.
THEOREM DatabaseTypeCorrect == Spec => []TypeOK
<1>1. Init => TypeOK
  BY DbInit DEF DbInv
<1>2. TypeOK /\ [Next]_vars => TypeOK'
  BY StepType DEF Next, vars, session, TypeOK
<1>3. QED
  BY <1>1, <1>2, PTL DEF Spec

\* Unless the step is a rollback, nothing leaves the table and the open
\* transaction, and what executeQuery acknowledges enters them.
LEMMA KeptStep ==
  ASSUME faults' = {}, NEW t \in Threads, Step(t), ~(t \in Transactors /\ Rollback(t))
  PROVE  /\ table \cup pending \subseteq table' \cup pending'
         /\ acked' \ acked \subseteq table' \cup pending'
<1>1. CASE BeginTransaction(t) \/ LockTransaction(t) \/ CallbackThrow(t) \/ Commit(t)
  BY <1>1 DEF BeginTransaction, LockTransaction, CallbackThrow, Commit, Fault,
     SessionBegin, SessionCommit, session
<1>2. ASSUME NEW w, SessionWrite(w), acked' = acked \cup {w}
      PROVE  /\ table \cup pending \subseteq table' \cup pending'
             /\ acked' \ acked \subseteq table' \cup pending'
  BY <1>2, SessionWriteEffect
<1>3. CASE CallbackQuery(t) \/ PlainQuery(t)
  BY <1>2, <1>3 DEF CallbackQuery, PlainQuery, ExecuteQuery, ExecuteQueryFailed, Fault
<1>4. QED
  BY <1>1, <1>3 DEF Step

\* A result of executeWithinTransaction is not taken back: it is set when the
\* call returns.
ResultOnReturn == \A t \in Transactors : result[t] # "none" => pc[t] = "done"

AckedInv == TypeOK /\ ResultOnReturn /\ AcknowledgedIsKept

\* Every step keeps acknowledged queries.
LEMMA AckedNext ==
  ASSUME AckedInv, [Next]_vars
  PROVE  AckedInv'
<1>1. TypeOK'
  BY StepType DEF Next, vars, session, TypeOK, AckedInv
<1>2. CASE UNCHANGED vars
  BY <1>1, <1>2 DEF AckedInv, ResultOnReturn, AcknowledgedIsKept, vars, session
<1>3. ASSUME NEW t \in Threads, Step(t)
      PROVE  ResultOnReturn' /\ AcknowledgedIsKept'
  <2>1. /\ pc \in [Threads -> PCs] /\ result \in [Threads -> Results]
        /\ \A u \in Transactors : u \in Threads
    BY DEF AckedInv, TypeOK, Threads
  <2>2. ResultOnReturn'
    <3>1. \/ result' = result /\ pc[t] # "done"
          \/ /\ pc' = [pc EXCEPT ![t] = "done"]
             /\ \E r \in Results : result' = [result EXCEPT ![t] = r]
      BY <1>3 DEF Step, BeginTransaction, LockTransaction, CallbackQuery,
         CallbackThrow, Commit, Rollback, PlainQuery, Results
    <3>2. \A u \in Threads \ {t} : pc'[u] = pc[u]
      BY <1>3, <2>1 DEF Step, BeginTransaction, LockTransaction, CallbackQuery,
         CallbackThrow, Commit, Rollback, PlainQuery
    <3>3. QED
      BY <2>1, <3>1, <3>2 DEF ResultOnReturn, AckedInv
  <2>3. \A u \in Transactors : result[u] = "false" => result'[u] = "false"
    <3>1. \A u \in Threads : u # t => result'[u] = result[u]
      BY <1>3, <2>1 DEF Step, BeginTransaction, LockTransaction, CallbackQuery,
         CallbackThrow, Commit, Rollback, PlainQuery
    <3>2. t \in Transactors => pc[t] # "done"
      BY <1>3, DatabaseAssumption DEF Step, BeginTransaction, LockTransaction,
         CallbackQuery, CallbackThrow, Commit, Rollback, PlainQuery
    <3>3. QED
      BY <2>1, <3>1, <3>2 DEF AckedInv, ResultOnReturn
  <2>4. CASE t \in Transactors /\ Rollback(t)
    <3>1. result'[t] = "false"
      BY <2>1, <2>4 DEF Rollback
    <3>2. QED
      BY <2>2, <2>4, <3>1 DEF AcknowledgedIsKept
  <2>5. CASE ~(t \in Transactors /\ Rollback(t))
    <3>1. faults \subseteq faults'
      BY <1>3, FaultsGrow DEF Next
    <3>2. SUFFICES ASSUME faults' = {}, \A u \in Transactors : result'[u] # "false",
                          NEW u \in Writers
                   PROVE  Writes(u) \cap acked' \subseteq table' \cup pending'
      BY <2>2 DEF AcknowledgedIsKept
    <3>3. Writes(u) \cap acked \subseteq table \cup pending
      BY <2>3, <3>1, <3>2 DEF AckedInv, AcknowledgedIsKept
    <3>4. /\ table \cup pending \subseteq table' \cup pending'
          /\ acked' \ acked \subseteq table' \cup pending'
      BY <1>3, <2>5, <3>2, KeptStep
    <3>5. QED
      BY <3>3, <3>4
  <2>6. QED
    BY <2>4, <2>5
<1>4. QED
  BY <1>1, <1>2, <1>3 DEF Next, AckedInv

\* As long as nothing fails, an acknowledged plain query is lost by the rollback
\* of a transaction it fell into and by nothing else.
THEOREM AcknowledgedKept == Spec => []AcknowledgedIsKept
<1>1. Init => AckedInv
  <2>1. Init => TypeOK
    BY DbInit DEF DbInv
  <2>2. Init => ResultOnReturn /\ AcknowledgedIsKept
    BY DEF Init, ResultOnReturn, AcknowledgedIsKept, Threads
  <2>3. QED
    BY <2>1, <2>2 DEF AckedInv
<1>2. AckedInv /\ [Next]_vars => AckedInv'
  BY AckedNext
<1>3. AckedInv => AcknowledgedIsKept
  BY DEF AckedInv
<1>4. QED
  BY <1>1, <1>2, <1>3, PTL DEF Spec
=============================================================================
