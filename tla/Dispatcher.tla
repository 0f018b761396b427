----------------------------- MODULE Dispatcher -----------------------------
(***************************************************************************)
(* The event dispatcher of the server: src/game/scheduling/dispatcher.cpp, *)
(* dispatcher.hpp and task.hpp, and the thread pool it runs on,            *)
(* src/lib/thread/thread_pool.cpp.                                         *)
(*                                                                         *)
(* Every thread owns a ThreadTask slot (threads[getThreadId()]) guarded by *)
(* a mutex; addEvent, asyncEvent and scheduleEvent put a Task in the slot  *)
(* of the calling thread and call notify().  One pool thread runs the      *)
(* dispatcher loop: it executes the merged tasks, merges the slots and     *)
(* sleeps on signalSchedule when hasPendingTasks is false.                 *)
(*                                                                         *)
(* A critical section that only touches the caller's slot is one step up   *)
(* to its read of hasPendingTasks; the store to hasPendingTasks and the    *)
(* notify_one are steps of their own, because they are not ordered with    *)
(* the dispatcher by dummyMutex.                                           *)
(*                                                                         *)
(* Times are relative to OTSYS_TIME(), the clock value cached at the top   *)
(* of the loop: left[x] is utime - OTSYS_TIME() of a scheduled task and    *)
(* expiration - OTSYS_TIME() of an event with an expiration.               *)
(***************************************************************************)
EXTENDS Integers, Sequences, FiniteSets, Functions

CONSTANTS
  NThreads,       \* the thread ids are 0..NThreads
  Disp,           \* the thread id of the dispatcher thread
  SerialTasks,    \* tasks given to addEvent
  ParallelTasks,  \* tasks given to asyncEvent
  DelayedTasks,   \* tasks given to scheduleEvent
  CycleTasks,     \* tasks given to cycleEvent
  Delay,          \* delay of a scheduled task; expiresAfterMs of a serial one
  MaxElapsed,     \* bound: longest time told apart between two clock updates
  FrameReuse,     \* TRUE: consecutive calls of executeParallelEvents have
                  \* their locals at the same address in this build
  None            \* no task

Threads == 0..NThreads
TimedTasks == DelayedTasks \cup CycleTasks
Tasks == SerialTasks \cup ParallelTasks \cup TimedTasks
ExpiringTasks == {x \in SerialTasks : Delay[x] > 0}

ASSUME ConstantsAssumption ==
  /\ NThreads \in Nat
  /\ Disp \in Threads
  /\ SerialTasks \cap ParallelTasks = {}
  /\ SerialTasks \cap TimedTasks = {}
  /\ ParallelTasks \cap TimedTasks = {}
  /\ DelayedTasks \cap CycleTasks = {}
  /\ \A x \in TimedTasks : Delay[x] > 0
  /\ None \notin Tasks
  /\ Delay \in [Tasks -> Nat]
  /\ MaxElapsed \in Nat \ {0}
  /\ FrameReuse \in BOOLEAN

VARIABLES
  pc,             \* where a calling thread is inside notify()
  slotSerial,     \* threads[t]->tasks[Serial]
  slotAsync,      \* threads[t]->tasks[GenericParallel]
  slotSched,      \* threads[t]->scheduledTasks
  mSerial,        \* m_tasks[Serial]
  mParallel,      \* m_tasks[GenericParallel]
  scheduledTasks, \* the multiset ordered by utime
  scheduledTasksRef,
  canceled,       \* tasks whose func is nullptr
  left,           \* time left until utime, or until expiration
  hasPendingTasks,
  dpc,            \* where the dispatcher loop is
  cursor,         \* slot the merge loops are at
  phase,          \* the caller of the merge and of the parallel events
  cur,            \* the task whose func the dispatcher thread is running
  stage,          \* where the load of a parallel task is
  totalTaskSize,
  isTasksCompleted,
  sleepLeft,      \* time left of signalSchedule.wait_for
  elapsed,        \* real time since UPDATE_OTSYS_TIME
  ioStopped,      \* threadPool.getIoContext().stopped()
  pending,        \* history: tasks submitted and not yet run or dropped
  order           \* history: serial tasks of each thread, oldest first

slotVars  == <<slotSerial, slotAsync, slotSched>>
mainVars  == <<mSerial, mParallel, scheduledTasks>>
eventVars == <<scheduledTasksRef, canceled>>
frameVars == <<stage, totalTaskSize, isTasksCompleted>>
clockVars == <<left, elapsed, sleepLeft>>
loopVars  == <<dpc, cursor, phase>>
histVars  == <<pending, order>>
vars == <<pc, slotVars, mainVars, eventVars, frameVars, clockVars, loopVars,
          hasPendingTasks, cur, ioStopped, histVars>>

Forever == -1    \* wait_for(milliseconds::max())

DispStates == {"top", "events", "serial", "mergeAsync", "parallel", "pwait",
               "scheduled", "body", "merge", "check", "recheck", "decide",
               "presleep", "sleep", "exit"}
LoadStages == {"none", "posted", "executing", "executed", "subbed", "storing"}

Init ==
  /\ pc = [t \in Threads |-> "idle"]
  /\ slotSerial = [t \in Threads |-> <<>>]
  /\ slotAsync  = [t \in Threads |-> <<>>]
  /\ slotSched  = [t \in Threads |-> <<>>]
  /\ mSerial = <<>>
  /\ mParallel = <<>>
  /\ scheduledTasks = {}
  /\ scheduledTasksRef = {}
  /\ canceled = {}
  /\ left = [x \in Tasks |-> 0]
  /\ hasPendingTasks = FALSE
  /\ dpc = "top"
  /\ cursor = 0
  /\ phase = "events"
  /\ cur = None
  /\ stage = [x \in ParallelTasks |-> "none"]
  /\ totalTaskSize = 0
  /\ isTasksCompleted = FALSE
  /\ sleepLeft = 0
  /\ elapsed = 0
  /\ ioStopped = FALSE
  /\ pending = {}
  /\ order = [t \in Threads |-> <<>>]

-----------------------------------------------------------------------------
(***************************************************************************)
(* Calls made by any thread.                                               *)
(***************************************************************************)

\* The dispatcher thread calls in from the func of the task it runs; every
\* other thread calls in at any time, one call after the other.
CanCall(t) == IF t = Disp THEN dpc = "body" ELSE pc[t] = "idle"

\* The test of notify().  The dispatcher thread is not waiting on
\* signalSchedule when it calls, so its notify_one wakes nobody.
NotifyTest(t) ==
  IF t = Disp
  THEN /\ hasPendingTasks' = TRUE
       /\ UNCHANGED pc
  ELSE /\ pc' = [pc EXCEPT ![t] = IF hasPendingTasks THEN "idle" ELSE "set"]
       /\ UNCHANGED hasPendingTasks

EmplaceFront(tasks, x) == <<x>> \o tasks   \* mutant

\* A task is constructed at the end of a vector of the calling thread's slot.
EmplaceBack(tasks, x) == Append(tasks, x)

AddEvent(t, x) ==
  /\ CanCall(t)
  /\ x \in SerialTasks \ pending
  /\ slotSerial' = [slotSerial EXCEPT ![t] = EmplaceBack(@, x)]
  /\ left' = [left EXCEPT ![x] = Delay[x]]
  /\ pending' = pending \cup {x}
  /\ order' = [order EXCEPT ![t] = Append(@, x)]
  /\ NotifyTest(t)
  /\ UNCHANGED <<slotAsync, slotSched, mainVars, eventVars, frameVars,
                 elapsed, sleepLeft, loopVars, cur, ioStopped>>

AsyncEvent(t, x) ==
  /\ CanCall(t)
  /\ x \in ParallelTasks \ pending
  /\ stage[x] = "none"
  /\ slotAsync' = [slotAsync EXCEPT ![t] = EmplaceBack(@, x)]
  /\ pending' = pending \cup {x}
  /\ NotifyTest(t)
  /\ UNCHANGED <<slotSerial, slotSched, mainVars, eventVars, frameVars,
                 clockVars, loopVars, cur, ioStopped, order>>

ScheduleEvent(t, x) ==
  /\ CanCall(t)
  /\ x \in TimedTasks \ pending
  /\ slotSched' = [slotSched EXCEPT ![t] = EmplaceBack(@, x)]
  /\ scheduledTasksRef' = scheduledTasksRef \cup {x}
  /\ left' = [left EXCEPT ![x] = Delay[x]]
  /\ pending' = pending \cup {x}
  /\ NotifyTest(t)
  /\ UNCHANGED <<slotSerial, slotAsync, mainVars, canceled, frameVars,
                 elapsed, sleepLeft, loopVars, cur, ioStopped, order>>

\* hasPendingTasks = true; the read of NotifyTest may be stale by now.
NotifySet(t) ==
  /\ pc[t] = "set"
  /\ hasPendingTasks' = TRUE
  /\ pc' = [pc EXCEPT ![t] = "notify"]
  /\ UNCHANGED <<slotVars, mainVars, eventVars, frameVars, clockVars,
                 loopVars, cur, ioStopped, histVars>>

\* signalSchedule.notify_one(), then the slot's mutex is released.
NotifyOne(t) ==
  /\ pc[t] = "notify"
  /\ pc' = [pc EXCEPT ![t] = "idle"]
  /\ dpc' = IF dpc = "sleep" THEN "top" ELSE dpc
  /\ sleepLeft' = IF dpc = "sleep" THEN 0 ELSE sleepLeft
  /\ UNCHANGED <<slotVars, mainVars, eventVars, frameVars, left, elapsed,
                 cursor, phase, hasPendingTasks, cur, ioStopped, histVars>>

\* mutant: the entry of scheduledTasksRef is not erased.
StopEventKeepingRef(x) ==
  /\ dpc = "body"
  /\ x \in scheduledTasksRef
  /\ canceled' = canceled \cup {x}
  /\ UNCHANGED <<pc, slotVars, mainVars, scheduledTasksRef, frameVars,
                 clockVars, loopVars, hasPendingTasks, cur, ioStopped,
                 histVars>>

\* stopEvent of an id that scheduledTasksRef holds; any other id is ignored.
\* All its callers run on the dispatcher thread.
StopEvent(x) ==
  /\ dpc = "body"
  /\ x \in scheduledTasksRef
  /\ canceled' = canceled \cup {x}
  /\ scheduledTasksRef' = scheduledTasksRef \ {x}
  /\ UNCHANGED <<pc, slotVars, mainVars, frameVars, clockVars, loopVars,
                 hasPendingTasks, cur, ioStopped, histVars>>

-----------------------------------------------------------------------------
(***************************************************************************)
(* The dispatcher loop.                                                    *)
(***************************************************************************)

\* while (!stopped) { UPDATE_OTSYS_TIME(); ...
LoopTop ==
  /\ dpc = "top"
  /\ dpc' = IF ioStopped THEN "exit" ELSE "events"
  /\ elapsed' = IF ioStopped THEN elapsed ELSE 0
  /\ left' = [x \in Tasks |->
                IF ~ioStopped /\ x \in pending /\ Delay[x] > 0
                THEN left[x] - elapsed ELSE left[x]]
  /\ phase' = "events"
  /\ UNCHANGED <<pc, slotVars, mainVars, eventVars, frameVars, sleepLeft,
                 cursor, hasPendingTasks, cur, ioStopped, histVars>>

\* executeEvents(Serial): an empty serial group returns at once.
ExecuteEvents ==
  /\ dpc = "events"
  /\ dpc' = IF mSerial = <<>> THEN "scheduled" ELSE "serial"
  /\ UNCHANGED <<pc, slotVars, mainVars, eventVars, frameVars, clockVars,
                 cursor, phase, hasPendingTasks, cur, ioStopped, histVars>>

\* One turn of the loop of executeSerialEvents: Task::execute drops an
\* expired task, and runs the func of any other.
ExecuteSerialEvent ==
  /\ dpc = "serial"
  /\ mSerial # <<>>
  /\ LET x == Head(mSerial)
         expired == x \in ExpiringTasks /\ left[x] < 0
     IN /\ mSerial' = Tail(mSerial)
        /\ dpc' = IF expired THEN "serial" ELSE "body"
        /\ cur' = IF expired THEN None ELSE x
        /\ pending' = IF expired THEN pending \ {x} ELSE pending
        /\ left' = [left EXCEPT ![x] = 0]
        /\ order' = [t \in Threads |-> IF x \in Range(order[t])
                                        THEN Tail(order[t]) ELSE order[t]]
  /\ UNCHANGED <<pc, slotVars, mParallel, scheduledTasks, eventVars,
                 frameVars, elapsed, sleepLeft, cursor, phase,
                 hasPendingTasks, ioStopped>>

\* The serial loop is over: mergeAsyncEvents starts at the first slot.
SerialEventsDone ==
  /\ dpc = "serial"
  /\ mSerial = <<>>
  /\ dpc' = "mergeAsync"
  /\ cursor' = 0
  /\ UNCHANGED <<pc, slotVars, mainVars, eventVars, frameVars, clockVars,
                 phase, hasPendingTasks, cur, ioStopped, histVars>>

NextSlotPastEnd == IF cursor > NThreads THEN 0 ELSE cursor + 1   \* mutant

\* for (const auto &thread : threads)
NextSlot == IF cursor = NThreads THEN 0 ELSE cursor + 1

ClearedNot(slots) == slots   \* mutant: the moved-from vector is not cleared

\* The slot's vector after it was moved into m_tasks and cleared.
Cleared(slots) == [slots EXCEPT ![cursor] = <<>>]

\* One slot of mergeAsyncEvents, under the slot's mutex.
MergeAsyncEvents ==
  /\ dpc = "mergeAsync"
  /\ pc[cursor] = "idle"
  /\ mParallel' = mParallel \o slotAsync[cursor]
  /\ slotAsync' = Cleared(slotAsync)
  /\ cursor' = NextSlot
  /\ dpc' = IF cursor = NThreads THEN "parallel" ELSE "mergeAsync"
  /\ UNCHANGED <<pc, slotSerial, slotSched, mSerial, scheduledTasks,
                 eventVars, frameVars, clockVars, phase, hasPendingTasks,
                 cur, ioStopped, histVars>>

\* What follows the parallel group: executeScheduledEvents after
\* executeEvents(), mergeEvents after executeScheduledEvents().
AfterParallel == IF phase = "events" THEN "scheduled" ELSE "merge"

\* executeParallelEvents posts one load per task.
ExecuteParallelEvents ==
  /\ dpc = "parallel"
  /\ \/ /\ mParallel = <<>>
        /\ dpc' = AfterParallel
        /\ UNCHANGED frameVars
     \/ /\ mParallel # <<>>
        /\ dpc' = "pwait"
        /\ totalTaskSize' = Len(mParallel)
        /\ isTasksCompleted' = FALSE
        /\ stage' = [x \in ParallelTasks |->
                       IF x \in Range(mParallel) THEN "posted" ELSE stage[x]]
  /\ UNCHANGED <<pc, slotVars, mainVars, eventVars, clockVars, cursor, phase,
                 hasPendingTasks, cur, ioStopped, histVars>>

\* isTasksCompleted.wait(false) returns; tasks.clear() and the frame is gone.
ParallelEventsDone ==
  /\ dpc = "pwait"
  /\ isTasksCompleted
  /\ mParallel' = <<>>
  /\ pending' = pending \ Range(mParallel)
  /\ totalTaskSize' = 0
  /\ isTasksCompleted' = FALSE
  /\ dpc' = AfterParallel
  /\ UNCHANGED <<pc, slotVars, mSerial, scheduledTasks, eventVars, stage,
                 clockVars, cursor, phase, hasPendingTasks, cur, ioStopped,
                 order>>

\* scheduledTasks.begin(): a task with the least utime (the order of equal
\* times is left open).
Earliest == {x \in scheduledTasks : \A y \in scheduledTasks : left[x] <= left[y]}

IsCanceledNever(x) == FALSE   \* mutant

IsCanceled(x) == x \in canceled

\* One turn of the loop of executeScheduledEvents; a canceled task is dropped.
ExecuteScheduledEvent(x) ==
  /\ dpc = "scheduled"
  /\ x \in Earliest
  /\ left[x] <= 0
  /\ scheduledTasks' = scheduledTasks \ {x}
  /\ \/ /\ IsCanceled(x)
        /\ scheduledTasksRef' = scheduledTasksRef \ {x}
        /\ canceled' = canceled \ {x}
        /\ pending' = pending \ {x}
        /\ left' = [left EXCEPT ![x] = 0]
        /\ UNCHANGED <<dpc, cur>>
     \/ /\ ~IsCanceled(x)
        /\ dpc' = "body"
        /\ cur' = x
        /\ UNCHANGED <<scheduledTasksRef, canceled, pending, left>>
  /\ UNCHANGED <<pc, slotVars, mSerial, mParallel, frameVars, elapsed,
                 sleepLeft, cursor, phase, hasPendingTasks, ioStopped, order>>

\* The func of a serial task returns.
FinishSerialBody ==
  /\ dpc = "body"
  /\ cur \in SerialTasks
  /\ dpc' = "serial"
  /\ cur' = None
  /\ pending' = pending \ {cur}
  /\ UNCHANGED <<pc, slotVars, mainVars, eventVars, frameVars, clockVars,
                 cursor, phase, hasPendingTasks, ioStopped, order>>

\* The func of a scheduled task returns: a cycle task is queued again in the
\* slot of the dispatcher thread, even when its func has stopped it; any
\* other loses its entry in scheduledTasksRef.
FinishTimedBody ==
  /\ dpc = "body"
  /\ cur \in TimedTasks
  /\ dpc' = "scheduled"
  /\ cur' = None
  /\ \/ /\ cur \in CycleTasks
        /\ left' = [left EXCEPT ![cur] = Delay[cur]]
        /\ slotSched' = [slotSched EXCEPT ![Disp] = EmplaceBack(@, cur)]
        /\ UNCHANGED <<scheduledTasksRef, canceled, pending>>
     \/ /\ cur \in DelayedTasks
        /\ scheduledTasksRef' = scheduledTasksRef \ {cur}
        /\ canceled' = canceled \ {cur}
        /\ pending' = pending \ {cur}
        /\ left' = [left EXCEPT ![cur] = 0]
        /\ UNCHANGED slotSched
  /\ UNCHANGED <<pc, slotSerial, slotAsync, mainVars, frameVars, elapsed,
                 sleepLeft, cursor, phase, hasPendingTasks, ioStopped, order>>

\* No scheduled task is due: merge and run the async events they asked for.
ScheduledEventsDone ==
  /\ dpc = "scheduled"
  /\ \A y \in scheduledTasks : left[y] > 0
  /\ dpc' = "mergeAsync"
  /\ cursor' = 0
  /\ phase' = "scheduled"
  /\ UNCHANGED <<pc, slotVars, mainVars, eventVars, frameVars, clockVars,
                 hasPendingTasks, cur, ioStopped, histVars>>

\* One slot of mergeEvents, under the slot's mutex.
MergeEvents ==
  /\ dpc = "merge"
  /\ pc[cursor] = "idle"
  /\ mSerial' = mSerial \o slotSerial[cursor]
  /\ slotSerial' = Cleared(slotSerial)
  /\ scheduledTasks' = scheduledTasks \cup Range(slotSched[cursor])
  /\ slotSched' = Cleared(slotSched)
  /\ cursor' = NextSlot
  /\ dpc' = IF cursor = NThreads THEN "check" ELSE "merge"
  /\ UNCHANGED <<pc, slotAsync, mParallel, eventVars, frameVars, clockVars,
                 phase, hasPendingTasks, cur, ioStopped, histVars>>

\* checkPendingTasks: the flag is cleared, then set again if a group of
\* m_tasks is not empty.
ClearPending ==
  /\ dpc = "check"
  /\ hasPendingTasks' = FALSE
  /\ dpc' = "recheck"
  /\ UNCHANGED <<pc, slotVars, mainVars, eventVars, frameVars, clockVars,
                 cursor, phase, cur, ioStopped, histVars>>

HasMergedParallel == mParallel # <<>>   \* mutant: the serial group is skipped

HasMergedTasks == mSerial # <<>> \/ mParallel # <<>>

RecheckPending ==
  /\ dpc = "recheck"
  /\ hasPendingTasks' = (hasPendingTasks \/ HasMergedTasks)
  /\ dpc' = "decide"
  /\ UNCHANGED <<pc, slotVars, mainVars, eventVars, frameVars, clockVars,
                 cursor, phase, cur, ioStopped, histVars>>

\* if (!hasPendingTasks) wait: the flag is read before the wait begins.
Decide ==
  /\ dpc = "decide"
  /\ dpc' = IF hasPendingTasks THEN "top" ELSE "presleep"
  /\ UNCHANGED <<pc, slotVars, mainVars, eventVars, frameVars, clockVars,
                 cursor, phase, hasPendingTasks, cur, ioStopped, histVars>>

TimeIgnoringSchedule == {Forever}   \* mutant

\* timeUntilNextScheduledTask(), a set of one element: the time is taken
\* relative to the cached clock, and no scheduled task means
\* milliseconds::max().
TimeUntilNextScheduledTask ==
  IF scheduledTasks = {} THEN {Forever}
  ELSE {IF left[x] > 0 THEN left[x] ELSE 0 : x \in Earliest}

Sleep ==
  /\ dpc = "presleep"
  /\ dpc' = "sleep"
  /\ sleepLeft' \in TimeUntilNextScheduledTask
  /\ UNCHANGED <<pc, slotVars, mainVars, eventVars, frameVars, left, elapsed,
                 cursor, phase, hasPendingTasks, cur, ioStopped, histVars>>

\* The wait times out.
Timeout ==
  /\ dpc = "sleep"
  /\ sleepLeft = 0
  /\ dpc' = "top"
  /\ UNCHANGED <<pc, slotVars, mainVars, eventVars, frameVars, clockVars,
                 cursor, phase, hasPendingTasks, cur, ioStopped, histVars>>

\* A spurious wake-up; also what builds do in which adding
\* milliseconds::max() to the current time overflows.
SpuriousWakeup ==
  /\ dpc = "sleep"
  /\ dpc' = "top"
  /\ sleepLeft' = 0
  /\ UNCHANGED <<pc, slotVars, mainVars, eventVars, frameVars, left, elapsed,
                 cursor, phase, hasPendingTasks, cur, ioStopped, histVars>>

-----------------------------------------------------------------------------
(***************************************************************************)
(* The loads of executeParallelEvents, each on some thread of the pool.    *)
(***************************************************************************)

\* addLoad's handler: nothing is run once the io_context is stopped.
StartLoad(x) ==
  /\ stage[x] = "posted"
  /\ ~ioStopped
  /\ stage' = [stage EXCEPT ![x] = "executing"]
  /\ UNCHANGED <<pc, slotVars, mainVars, eventVars, totalTaskSize,
                 isTasksCompleted, clockVars, loopVars, hasPendingTasks, cur,
                 ioStopped, histVars>>

\* task.execute() returns.
ExecuteLoad(x) ==
  /\ stage[x] = "executing"
  /\ stage' = [stage EXCEPT ![x] = "executed"]
  /\ UNCHANGED <<pc, slotVars, mainVars, eventVars, totalTaskSize,
                 isTasksCompleted, clockVars, loopVars, hasPendingTasks, cur,
                 ioStopped, histVars>>

\* totalTaskSize.fetch_sub(1)
SubtractLoad(x) ==
  /\ stage[x] = "executed"
  /\ totalTaskSize' = totalTaskSize - 1
  /\ stage' = [stage EXCEPT ![x] = "subbed"]
  /\ UNCHANGED <<pc, slotVars, mainVars, eventVars, isTasksCompleted,
                 clockVars, loopVars, hasPendingTasks, cur, ioStopped,
                 histVars>>

\* Does a load of an earlier batch that dereferences its captured locals now
\* reach the locals of the batch in progress?
FrameReached(x) == \/ x \in Range(mParallel) /\ dpc = "pwait"
                   \/ FrameReuse /\ dpc = "pwait"

BatchDoneOneEarly == totalTaskSize <= 1   \* mutant

BatchDone == totalTaskSize = 0

\* totalTaskSize.load() == 0, a read of its own after the subtraction; in a
\* frame that is gone the read yields anything.
LoadTotal(x) ==
  /\ stage[x] = "subbed"
  /\ \/ /\ FrameReached(x) => BatchDone
        /\ stage' = [stage EXCEPT ![x] = "storing"]
     \/ /\ FrameReached(x) => ~BatchDone
        /\ stage' = [stage EXCEPT ![x] = "none"]
  /\ UNCHANGED <<pc, slotVars, mainVars, eventVars, totalTaskSize,
                 isTasksCompleted, clockVars, loopVars, hasPendingTasks, cur,
                 ioStopped, histVars>>

\* isTasksCompleted.store(true) and notify_one().
StoreCompleted(x) ==
  /\ stage[x] = "storing"
  /\ stage' = [stage EXCEPT ![x] = "none"]
  /\ isTasksCompleted' = (isTasksCompleted \/ FrameReached(x))
  /\ UNCHANGED <<pc, slotVars, mainVars, eventVars, totalTaskSize, clockVars,
                 loopVars, hasPendingTasks, cur, ioStopped, histVars>>

-----------------------------------------------------------------------------
\* Real time passes; more than MaxElapsed is not told apart.
Tick ==
  /\ elapsed < MaxElapsed \/ (dpc = "sleep" /\ sleepLeft > 0)
  /\ elapsed' = IF elapsed < MaxElapsed THEN elapsed + 1 ELSE elapsed
  /\ sleepLeft' = IF sleepLeft > 0 THEN sleepLeft - 1 ELSE sleepLeft
  /\ UNCHANGED <<pc, slotVars, mainVars, eventVars, frameVars, left, loopVars,
                 hasPendingTasks, cur, ioStopped, histVars>>

\* ThreadPool::shutdown stops the io_context and then joins the threads;
\* Dispatcher::shutdown's notify_all comes after the join.
Shutdown ==
  /\ ~ioStopped
  /\ ioStopped' = TRUE
  /\ UNCHANGED <<pc, slotVars, mainVars, eventVars, frameVars, clockVars,
                 loopVars, hasPendingTasks, cur, histVars>>

LoopStep ==
  \/ LoopTop \/ ExecuteEvents \/ ExecuteSerialEvent \/ SerialEventsDone
  \/ MergeAsyncEvents \/ ExecuteParallelEvents \/ ParallelEventsDone
  \/ \E x \in TimedTasks : ExecuteScheduledEvent(x)
  \/ FinishSerialBody \/ FinishTimedBody \/ ScheduledEventsDone
  \/ MergeEvents \/ ClearPending \/ RecheckPending \/ Decide \/ Sleep
  \/ Timeout

LoadStep(x) ==
  StartLoad(x) \/ ExecuteLoad(x) \/ SubtractLoad(x) \/ LoadTotal(x)
    \/ StoreCompleted(x)

Call(t) ==
  \/ \E x \in SerialTasks : AddEvent(t, x)
  \/ \E x \in ParallelTasks : AsyncEvent(t, x)
  \/ \E x \in TimedTasks : ScheduleEvent(t, x)

Next ==
  \/ \E t \in Threads : Call(t) \/ NotifySet(t) \/ NotifyOne(t)
  \/ \E x \in TimedTasks : StopEvent(x)
  \/ LoopStep
  \/ SpuriousWakeup
  \/ \E x \in ParallelTasks : LoadStep(x)
  \/ Tick
  \/ Shutdown

Spec == Init /\ [][Next]_vars

(***************************************************************************)
(* Fairness: the dispatcher thread and the threads inside notify() keep    *)
(* running, a thread of the pool picks up every posted load, a func        *)
(* returns, and time passes.  Nothing makes a thread call in.              *)
(***************************************************************************)
Fairness ==
  /\ WF_vars(LoopStep)
  /\ \A t \in Threads : WF_vars(NotifySet(t) \/ NotifyOne(t))
  /\ \A x \in ParallelTasks : WF_vars(LoadStep(x))
  /\ WF_vars(Tick)

FairSpec == Spec /\ Fairness

-----------------------------------------------------------------------------
(***************************************************************************)
(* Properties.                                                             *)
(***************************************************************************)

\* The slots, the dispatcher's own lists, its clock and the locals of
\* executeParallelEvents keep their types; the merge loops stay inside the
\* slots that exist.
TypeOK ==
  /\ pc \in [Threads -> {"idle", "set", "notify"}]
  /\ slotSerial \in [Threads -> Seq(SerialTasks)]
  /\ slotAsync \in [Threads -> Seq(ParallelTasks)]
  /\ slotSched \in [Threads -> Seq(TimedTasks)]
  /\ mSerial \in Seq(SerialTasks)
  /\ mParallel \in Seq(ParallelTasks)
  /\ scheduledTasks \subseteq TimedTasks
  /\ scheduledTasksRef \subseteq TimedTasks
  /\ canceled \subseteq TimedTasks
  /\ left \in [Tasks -> Int]
  /\ hasPendingTasks \in BOOLEAN
  /\ dpc \in DispStates
  /\ cursor \in Threads
  /\ phase \in {"events", "scheduled"}
  /\ cur \in SerialTasks \cup TimedTasks \cup {None}
  /\ stage \in [ParallelTasks -> LoadStages]
  /\ totalTaskSize \in Int
  /\ isTasksCompleted \in BOOLEAN
  /\ sleepLeft \in Int
  /\ elapsed \in Nat
  /\ ioStopped \in BOOLEAN
  /\ pending \subseteq Tasks
  /\ order \in [Threads -> Seq(SerialTasks)]

InSlot(x, t) ==
  x \in Range(slotSerial[t]) \cup Range(slotAsync[t]) \cup Range(slotSched[t])

InMain(x) == x \in Range(mSerial) \cup Range(mParallel) \cup scheduledTasks

\* A submitted task that has neither run nor been dropped is held somewhere:
\* in a slot, in the dispatcher's own lists, or by the running body; nothing
\* else is held anywhere.  (The moves of mergeEvents and mergeAsyncEvents, and
\* the requeueing of cycle events, lose and leak nothing.)
NotLost ==
  \A x \in Tasks :
    x \in pending <=> cur = x \/ InMain(x) \/ \E t \in Threads : InSlot(x, t)

\* No task is held twice, so none can be executed twice for one submission.
HeldOnce ==
  /\ \A t \in Threads : /\ IsInjective(slotSerial[t])
                         /\ IsInjective(slotAsync[t])
                         /\ IsInjective(slotSched[t])
  /\ IsInjective(mSerial)
  /\ IsInjective(mParallel)
  /\ \A x \in Tasks : InMain(x) => cur # x
  /\ \A x \in Tasks, t \in Threads :
       InSlot(x, t) => /\ ~InMain(x)
                       /\ cur # x
                       /\ \A u \in Threads \ {t} : ~InSlot(x, u)

\* Every submitted task is in exactly one place (dispatcher.cpp, the whole
\* path from addEvent, asyncEvent and scheduleEvent to execute).
ExactlyOnePlace == NotLost /\ HeldOnce

\* scheduledTasksRef, by which stopEvent finds a task, holds exactly the
\* scheduled tasks that are outstanding and not canceled: a live event can
\* always be stopped, and a finished one leaves no entry behind.
RefTracksLiveEvents ==
  /\ canceled \subseteq pending
  /\ scheduledTasksRef = (pending \cap TimedTasks) \ canceled

\* Task x is before y in a vector of tasks.
AheadIn(tasks, x, y) ==
  \E m, n \in 1..Len(tasks) : m < n /\ tasks[m] = x /\ tasks[n] = y

\* Task x is executed before y when the merged tasks come first and then those
\* of the slot.
ExecutedBefore(merged, slot, x, y) ==
  \/ AheadIn(merged, x, y)
  \/ x \in Range(merged) /\ y \in Range(slot)
  \/ AheadIn(slot, x, y)

\* The tasks that a thread has added, oldest first, are executed in this order;
\* none of them is left out, and the slot has no others.
ExecutedInOrder(added, merged, slot) ==
  /\ Range(slot) \subseteq Range(added)
  /\ Range(added) \subseteq Range(merged) \cup Range(slot)
  /\ \A i, j \in 1..Len(added) : i < j => ExecutedBefore(merged, slot, added[i], added[j])

\* The serial events of one thread are executed in the order in which that
\* thread added them, whatever the other threads add (packets of one
\* connection rely on it); and no event is executed that nobody added.
SerialFifoPerThread ==
  /\ \A t \in Threads : ExecutedInOrder(order[t], mSerial, slotSerial[t])
  /\ \A x \in Range(mSerial) : \E t \in Threads : x \in Range(order[t])

\* executeParallelEvents is a barrier: while a task of a batch has not been
\* executed the dispatcher thread does nothing else, so no serial or
\* scheduled event runs beside a parallel one.
ParallelBarrier ==
  \A x \in ParallelTasks :
    stage[x] \in {"posted", "executing", "executed"} => dpc = "pwait"

\* The dispatcher does not go to sleep on tasks it has already merged, in
\* spite of the races on hasPendingTasks.
NoSleepOnMergedTasks ==
  dpc \in {"presleep", "sleep"} => mSerial = <<>> /\ mParallel = <<>>

\* A stopped event is never executed again: from stopEvent on, its func does
\* not start, also if it stopped itself and was queued for its next cycle.
StoppedNeverRuns ==
  [][\A x \in canceled : cur' = x => cur = x]_vars

\* Once the dispatcher has merged a cycle event that is never stopped, as the
\* ones Game::start schedules from the dispatcher thread, every task is
\* eventually executed or dropped, however the wake-ups race.
ServedUnderCycle ==
  (/\ \E c \in CycleTasks : <>(c \in scheduledTasks /\ [](c \notin canceled))
   /\ []~ioStopped)
    => \A x \in Tasks \ CycleTasks : x \in pending ~> x \notin pending

\* A stopped cycle event is eventually discarded.
StoppedIsDiscarded ==
  []~ioStopped =>
    \A c \in CycleTasks : c \in canceled ~> c \notin pending

(***************************************************************************)
(* The refinement of EventQueue.                                           *)
(***************************************************************************)

\* The load of a parallel task of the batch in progress has left the queue.
Loaded(x) ==
  /\ x \in ParallelTasks
  /\ dpc = "pwait"
  /\ x \in Range(mParallel) /\ stage[x] # "posted"

queuedTasks == {x \in pending : cur # x /\ ~Loaded(x)}

runningTasks ==
  ({cur} \ {None}) \cup {x \in ParallelTasks : stage[x] = "executing"}

Queue == INSTANCE EventQueue WITH
  Exclusive <- SerialTasks \cup TimedTasks,
  Parallel <- ParallelTasks,
  Stoppable <- TimedTasks,
  Cycling <- CycleTasks,
  Expiring <- ExpiringTasks,
  queued <- queuedTasks,
  running <- runningTasks,
  stopped <- canceled

\* The slots, the merging, the wake-ups, the batches of loads and the requeueing
\* of cycle events together are one queue that runs every submitted event at
\* most once, runs serial and scheduled events alone, and drops an event only
\* when it has expired or was stopped.
ImplementsEventQueue == Queue!EventQueueSpec

\* dispatcher.hpp: a dispatched task is executed in the dispatching thread.
\* This fails: a wake-up can be lost.
DispatchedIsExecuted ==
  []~ioStopped => \A x \in SerialTasks : x \in pending ~> x \notin pending

\* signals.cpp: SIGINT and SIGTERM shut the server down.  This fails: a batch
\* posted when the io_context stops is waited for forever.
ShutdownCompletes == ioStopped ~> dpc = "exit"
=============================================================================
