------------------------------ MODULE Database ------------------------------
(***************************************************************************)
(* Transactions on the one MySQL connection the server shares between its  *)
(* threads: src/database/database.cpp and DBTransaction in database.hpp.   *)
(*                                                                         *)
(* executeQuery runs one statement under databaseLock.  A transaction runs *)
(* the statement BEGIN that way, and only then takes databaseLock for the  *)
(* rest of its life: between the two, other threads use the same session.  *)
(*                                                                         *)
(* A transactor calls executeWithinTransaction once, with a callback of    *)
(* NWrites statements (savePlayer, saveHouseItems, saveHouseInfo,          *)
(* KVSQL::saveAll); a writer calls executeQuery once.                      *)
(***************************************************************************)
EXTENDS Integers, FiniteSets

CONSTANTS
  Transactors,
  Throwing,    \* the transactors whose callback throws when it fails, as
               \* savePlayerGuard does; the callback of the others returns false
  Writers,
  NWrites,     \* statements in a callback
  QueryFails,  \* TRUE: a statement may fail for good
  Reconnects,  \* TRUE: the connection may be lost and reopened in a retry
  NoThread     \* databaseLock is free

Threads == Transactors \cup Writers

ASSUME DatabaseAssumption ==
  /\ Transactors \cap Writers = {}
  /\ Throwing \subseteq Transactors
  /\ NWrites \in Nat \ {0}
  /\ QueryFails \in BOOLEAN
  /\ Reconnects \in BOOLEAN
  /\ NoThread \notin Threads

\* The i-th write of thread t.
Writes(t) == {t} \X (1..NWrites)
AllWrites == Threads \X (1..NWrites)

VARIABLES
  pc,             \* where a thread is
  n,              \* statements its callback has executed
  result,         \* what executeWithinTransaction is going to return
  owner,          \* the thread that holds databaseLock between statements
  inTransaction,  \* the session has an open transaction
  pending,        \* writes of the open transaction
  table,          \* durable writes
  acked,          \* history: writes for which executeQuery returned true
  faults,         \* history: threads a statement of which failed or lost the
                  \* connection
  overlapped      \* history: transactions that were in progress when another
                  \* one began, or began while another one was

session == <<inTransaction, pending, table>>
vars == <<pc, n, result, owner, session, acked, faults, overlapped>>

PCs == {"start", "begun", "body", "failed", "thrown", "done"}
Results == {"none", "true", "false"}

\* Inside the callback, or between it and the end of the transaction.
Inside(t) == pc[t] \in {"body", "failed", "thrown"}

InProgress(t) == pc[t] = "begun" \/ Inside(t)

Init ==
  /\ pc = [t \in Threads |-> "start"]
  /\ n = [t \in Threads |-> 0]
  /\ result = [t \in Threads |-> "none"]
  /\ owner = NoThread
  /\ inTransaction = FALSE
  /\ pending = {}
  /\ table = {}
  /\ acked = {}
  /\ faults = {}
  /\ overlapped = {}

-----------------------------------------------------------------------------
(***************************************************************************)
(* The session, as the MySQL server keeps it.                              *)
(***************************************************************************)

\* A statement outside a transaction is its own transaction.
SessionWrite(w) ==
  /\ pending' = IF inTransaction THEN pending \cup {w} ELSE pending
  /\ table' = IF inTransaction THEN table ELSE table \cup {w}
  /\ UNCHANGED inTransaction

\* The server rolls the open transaction back when the connection is lost;
\* the retry runs in a new session.
SessionWriteAfterLoss(w) ==
  /\ pending' = {}
  /\ table' = table \cup {w}
  /\ inTransaction' = FALSE

\* BEGIN commits the transaction that is open, if any.
SessionBegin ==
  /\ table' = table \cup pending
  /\ pending' = {}
  /\ inTransaction' = TRUE

SessionBeginAfterLoss ==
  /\ pending' = {}
  /\ inTransaction' = TRUE
  /\ UNCHANGED table

SessionCommit ==
  /\ table' = table \cup pending
  /\ pending' = {}
  /\ inTransaction' = FALSE

SessionRollback ==
  /\ pending' = {}
  /\ inTransaction' = FALSE
  /\ UNCHANGED table

-----------------------------------------------------------------------------
(***************************************************************************)
(* Database and DBTransaction.                                             *)
(***************************************************************************)

\* A thread gets the recursive mutex databaseLock for one statement.
CanLock(t) == owner \in {NoThread, t}

Fault(t) == faults' = faults \cup {t}

\* executeQuery of a write, with the retries of retryQuery.
ExecuteQuery(t, w) ==
  /\ CanLock(t)
  /\ \/ SessionWrite(w) /\ UNCHANGED faults
     \/ Reconnects /\ SessionWriteAfterLoss(w) /\ Fault(t)
  /\ acked' = acked \cup {w}

ExecuteQueryFailed(t) ==
  /\ CanLock(t)
  /\ QueryFails /\ Fault(t)
  /\ UNCHANGED <<session, acked>>

\* beginTransaction, first part: executeQuery("BEGIN").
\* executeWithinTransaction ignores the result of begin().
BeginTransaction(t) ==
  /\ pc[t] = "start"
  /\ CanLock(t)
  /\ \/ /\ \/ SessionBegin /\ UNCHANGED faults
           \/ Reconnects /\ SessionBeginAfterLoss /\ Fault(t)
        /\ pc' = [pc EXCEPT ![t] = "begun"]
     \/ /\ QueryFails /\ Fault(t)
        /\ pc' = [pc EXCEPT ![t] = "body"]
        /\ UNCHANGED session
  /\ LET others == {u \in Transactors \ {t} : InProgress(u)} IN
     overlapped' = IF others = {} THEN overlapped
                                  ELSE overlapped \cup others \cup {t}
  /\ UNCHANGED <<n, result, owner, acked>>

LockTransactionNot(t) ==   \* mutant
  /\ pc[t] = "begun"
  /\ pc' = [pc EXCEPT ![t] = "body"]
  /\ UNCHANGED <<n, result, owner, session, acked, faults, overlapped>>

\* beginTransaction, second part: databaseLock.lock().
LockTransaction(t) ==
  /\ pc[t] = "begun"
  /\ owner = NoThread
  /\ owner' = t
  /\ pc' = [pc EXCEPT ![t] = "body"]
  /\ UNCHANGED <<n, result, session, acked, faults, overlapped>>

\* A statement of the callback.
CallbackQuery(t) ==
  /\ pc[t] = "body"
  /\ n[t] < NWrites
  /\ \/ /\ ExecuteQuery(t, <<t, n[t] + 1>>)
        /\ n' = [n EXCEPT ![t] = @ + 1]
        /\ UNCHANGED pc
     \/ /\ ExecuteQueryFailed(t)
        /\ pc' = [pc EXCEPT ![t] = IF t \in Throwing THEN "thrown" ELSE "failed"]
        /\ UNCHANGED n
  /\ UNCHANGED <<result, owner, overlapped>>

\* The callback throws for a reason of its own.
CallbackThrow(t) ==
  /\ t \in Throwing
  /\ pc[t] = "body"
  /\ pc' = [pc EXCEPT ![t] = "thrown"]
  /\ UNCHANGED <<n, result, owner, session, acked, faults, overlapped>>

ReleaseNot(t) == owner   \* mutant

\* databaseLock.unlock().  A thread whose BEGIN failed unlocks a mutex it does
\* not own; the C library refuses that with an error nobody reads.
Release(t) == IF owner = t THEN NoThread ELSE owner

CommitRollingBack(t) ==   \* mutant
  /\ pc[t] \in {"failed", "body"}
  /\ pc[t] = "body" => n[t] = NWrites
  /\ SessionRollback
  /\ result' = [result EXCEPT ![t] = IF pc[t] = "body" THEN "true" ELSE "false"]
  /\ owner' = Release(t)
  /\ pc' = [pc EXCEPT ![t] = "done"]
  /\ UNCHANGED <<n, acked, faults, overlapped>>

\* The callback has returned, true or false: commit().  Its own failure is not
\* reported.
Commit(t) ==
  /\ \/ /\ pc[t] = "body" /\ n[t] = NWrites
        /\ result' = [result EXCEPT ![t] = "true"]
     \/ /\ pc[t] = "failed"
        /\ result' = [result EXCEPT ![t] = "false"]
  /\ \/ SessionCommit /\ UNCHANGED faults
     \/ (QueryFails \/ Reconnects) /\ SessionRollback /\ Fault(t)
  /\ owner' = Release(t)
  /\ pc' = [pc EXCEPT ![t] = "done"]
  /\ UNCHANGED <<n, acked, overlapped>>

RollbackCommitting(t) ==   \* mutant
  /\ pc[t] = "thrown"
  /\ SessionCommit
  /\ owner' = Release(t)
  /\ pc' = [pc EXCEPT ![t] = "done"]
  /\ result' = [result EXCEPT ![t] = "false"]
  /\ UNCHANGED <<n, acked, faults, overlapped>>

\* The callback has thrown: rollback().
Rollback(t) ==
  /\ pc[t] = "thrown"
  /\ SessionRollback
  /\ owner' = Release(t)
  /\ pc' = [pc EXCEPT ![t] = "done"]
  /\ result' = [result EXCEPT ![t] = "false"]
  /\ UNCHANGED <<n, acked, faults, overlapped>>

\* executeQuery outside a transaction.
PlainQuery(t) ==
  /\ pc[t] = "start"
  /\ ExecuteQuery(t, <<t, 1>>) \/ ExecuteQueryFailed(t)
  /\ pc' = [pc EXCEPT ![t] = "done"]
  /\ UNCHANGED <<n, result, owner, overlapped>>

Step(t) ==
  \/ /\ t \in Transactors
     /\ \/ BeginTransaction(t)
        \/ LockTransaction(t)
        \/ CallbackQuery(t)
        \/ CallbackThrow(t)
        \/ Commit(t)
        \/ Rollback(t)
  \/ t \in Writers /\ PlainQuery(t)

Next == \E t \in Threads : Step(t)

Spec == Init /\ [][Next]_vars

\* A thread keeps running, and gets databaseLock when the others, whose calls
\* are finite, leave it free.
FairSpec == Spec /\ \A t \in Threads : WF_vars(Step(t))

-----------------------------------------------------------------------------
(***************************************************************************)
(* Properties.                                                             *)
(***************************************************************************)

\* The threads, databaseLock and the session keep their types.
TypeOK ==
  /\ pc \in [Threads -> PCs]
  /\ n \in [Threads -> 0..NWrites]
  /\ result \in [Threads -> Results]
  /\ owner \in Transactors \cup {NoThread}
  /\ inTransaction \in BOOLEAN
  /\ pending \subseteq AllWrites
  /\ table \subseteq AllWrites
  /\ acked \subseteq AllWrites
  /\ faults \subseteq Threads
  /\ overlapped \subseteq Transactors

\* As long as no statement fails, the uncommitted writes of a transaction are
\* only ever in the session while its thread holds databaseLock: no other
\* thread's BEGIN, commit or rollback decides what becomes of them.
Isolation ==
  faults = {} =>
    \A t \in Transactors :
      pending \cap Writes(t) # {} => owner = t /\ Inside(t)

\* As long as no statement fails: when executeWithinTransaction returns true,
\* every write of its callback is in the database.
CommittedIsDurable ==
  faults = {} =>
    \A t \in Transactors :
      pc[t] = "done" /\ result[t] = "true" => Writes(t) \subseteq table

\* All or nothing: after a true result of executeWithinTransaction every write
\* of the callback is in the database, after a false one none is.
AllOrNothing(t) ==
  IF result[t] = "true" THEN Writes(t) \subseteq table
                        ELSE Writes(t) \cap table = {}

\* Every transaction is atomic: the rollback of DBTransaction undoes what the
\* callback did.  This fails when two transactions begin together and when a
\* callback returns false.
AtomicTransaction ==
  \A t \in Transactors : pc[t] = "done" => AllOrNothing(t)

\* As long as no statement fails, transactions that were never in progress at
\* the same time are atomic, whatever plain queries other threads put between
\* their BEGIN and their lock.
SeparateAreAtomic ==
  faults = {} =>
    \A t \in Transactors \ overlapped : pc[t] = "done" => AllOrNothing(t)

\* As long as no statement fails, a plain query for which executeQuery returned
\* true is in the database or in the open transaction: only the rollback of a
\* transaction it fell into, never a BEGIN or a commit of another thread, takes
\* it back.
AcknowledgedIsKept ==
  faults = {} /\ (\A t \in Transactors : result[t] # "false") =>
    \A t \in Writers : Writes(t) \cap acked \subseteq table \cup pending

\* Every call returns: whatever fails, databaseLock is given back and no thread
\* waits for it forever.
EveryCallReturns == \A t \in Threads : <>(pc[t] = "done")
=============================================================================
