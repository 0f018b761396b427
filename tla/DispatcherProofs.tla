-------------------------- MODULE DispatcherProofs --------------------------
(***************************************************************************)
(* Proofs about Dispatcher for any number of threads and tasks.            *)
(***************************************************************************)
EXTENDS Dispatcher, VectorLemmas

-----------------------------------------------------------------------------
(***************************************************************************)
(* Type correctness.                                                       *)
(***************************************************************************)

\* The kinds of tasks are subsets of Tasks, and delays are numbers.
LEMMA TaskFacts ==
  /\ SerialTasks \subseteq Tasks /\ ParallelTasks \subseteq Tasks
  /\ TimedTasks \subseteq Tasks
  /\ CycleTasks \subseteq TimedTasks /\ DelayedTasks \subseteq TimedTasks
  /\ Delay \in [Tasks -> Int]
BY ConstantsAssumption DEF ConstantsAssumption, Tasks, TimedTasks

\* The state after Dispatcher::init is well typed.
LEMMA TypeInit == Init => TypeOK
<1>1. SUFFICES ASSUME Init PROVE TypeOK
  OBVIOUS
<1>2. /\ cursor \in Threads
      /\ left \in [Tasks -> Int]
  BY <1>1, ConstantsAssumption DEF Init, Threads, ConstantsAssumption
<1>3. QED
  BY <1>1, <1>2 DEF Init, TypeOK, DispStates, LoadStages

\* Every step of a thread, the loop or a load keeps the state well typed.
LEMMA TypeStep == TypeOK /\ [Next]_vars => TypeOK'
<1>1. SUFFICES ASSUME TypeOK, [Next]_vars
               PROVE  TypeOK'
  OBVIOUS
<1>2. ASSUME NEW t \in Threads, NEW x \in SerialTasks, AddEvent(t, x)
      PROVE  TypeOK'
  <2>1. /\ slotSerial' \in [Threads -> Seq(SerialTasks)]
        /\ order' \in [Threads -> Seq(SerialTasks)]
    BY <1>1, <1>2 DEF EmplaceBack, AddEvent, TypeOK
  <2>2. left' \in [Tasks -> Int] /\ pending' \subseteq Tasks
    BY <1>1, <1>2, TaskFacts DEF EmplaceBack, AddEvent, TypeOK
  <2>3. pc' \in [Threads -> {"idle", "set", "notify"}]
        /\ hasPendingTasks' \in BOOLEAN
    BY <1>1, <1>2 DEF EmplaceBack, AddEvent, NotifyTest, TypeOK
  <2>4. QED
    BY <1>1, <1>2, <2>1, <2>2, <2>3
    DEF EmplaceBack, AddEvent, TypeOK, slotVars, mainVars, eventVars, frameVars, clockVars,
        loopVars, histVars
<1>3. ASSUME NEW t \in Threads, NEW x \in ParallelTasks, AsyncEvent(t, x)
      PROVE  TypeOK'
  BY <1>1, <1>3, AppendProperties DEF EmplaceBack, AsyncEvent, NotifyTest, Tasks,
      TypeOK, slotVars, mainVars, eventVars, frameVars, clockVars,
      loopVars, histVars
<1>4. ASSUME NEW t \in Threads, NEW x \in TimedTasks, ScheduleEvent(t, x)
      PROVE  TypeOK'
  <2>1. slotSched' \in [Threads -> Seq(TimedTasks)]
    BY <1>1, <1>4 DEF EmplaceBack, ScheduleEvent, TypeOK
  <2>2. left' \in [Tasks -> Int] /\ pending' \subseteq Tasks
    BY <1>1, <1>4, TaskFacts DEF EmplaceBack, ScheduleEvent, TypeOK
  <2>3. pc' \in [Threads -> {"idle", "set", "notify"}]
        /\ hasPendingTasks' \in BOOLEAN
    BY <1>1, <1>4 DEF EmplaceBack, ScheduleEvent, NotifyTest, TypeOK
  <2>4. QED
    BY <1>1, <1>4, <2>1, <2>2, <2>3
    DEF EmplaceBack, ScheduleEvent, TypeOK, slotVars, mainVars, eventVars, frameVars, clockVars,
        loopVars, histVars
<1>5. ASSUME NEW t \in Threads, NotifySet(t)
      PROVE  TypeOK'
  BY <1>1, <1>5 DEF NotifySet,
      TypeOK, slotVars, mainVars, eventVars, frameVars, clockVars,
      loopVars, histVars
<1>6. ASSUME NEW t \in Threads, NotifyOne(t)
      PROVE  TypeOK'
  BY <1>1, <1>6 DEF NotifyOne, DispStates,
      TypeOK, slotVars, mainVars, eventVars, frameVars, clockVars,
      loopVars, histVars
<1>7. ASSUME NEW x \in TimedTasks, StopEvent(x)
      PROVE  TypeOK'
  BY <1>1, <1>7 DEF StopEvent,
      TypeOK, slotVars, mainVars, eventVars, frameVars, clockVars,
      loopVars, histVars
<1>8. CASE LoopTop
  BY <1>1, <1>8 DEF LoopTop, DispStates,
      TypeOK, slotVars, mainVars, eventVars, frameVars, clockVars,
      loopVars, histVars
<1>9. CASE ExecuteEvents
  BY <1>1, <1>9 DEF ExecuteEvents, DispStates,
      TypeOK, slotVars, mainVars, eventVars, frameVars, clockVars,
      loopVars, histVars
<1>10. CASE ExecuteSerialEvent
  <2>1. /\ Head(mSerial) \in SerialTasks
        /\ mSerial' \in Seq(SerialTasks)
    BY <1>1, <1>10, TailRange DEF ExecuteSerialEvent, TypeOK
  <2>2. /\ left' \in [Tasks -> Int]
        /\ pending' \subseteq Tasks
        /\ cur' \in SerialTasks \cup TimedTasks \cup {None}
        /\ dpc' \in DispStates
    BY <1>1, <1>10, <2>1, TaskFacts DEF ExecuteSerialEvent, TypeOK, DispStates
  <2>3. order' \in [Threads -> Seq(SerialTasks)]
    <3>1. \A t \in Threads : Head(mSerial) \in Range(order[t])
             => Tail(order[t]) \in Seq(SerialTasks)
      BY <1>1, EmptyRange, TailRange DEF TypeOK
    <3>2. QED
      BY <1>1, <1>10, <3>1 DEF ExecuteSerialEvent, TypeOK
  <2>4. QED
    BY <1>1, <1>10, <2>1, <2>2, <2>3
    DEF ExecuteSerialEvent, TypeOK, slotVars, mainVars, eventVars, frameVars, clockVars,
        loopVars, histVars
<1>11. CASE SerialEventsDone
  BY <1>1, <1>11, ConstantsAssumption DEF SerialEventsDone, DispStates, Threads, ConstantsAssumption,
      TypeOK, slotVars, mainVars, eventVars, frameVars, clockVars,
      loopVars, histVars
<1>12. CASE MergeAsyncEvents
  BY <1>1, <1>12, ConstantsAssumption, ConcatProperties, EmptySeq DEF MergeAsyncEvents, Cleared, NextSlot, DispStates, Threads, ConstantsAssumption,
      TypeOK, slotVars, mainVars, eventVars, frameVars, clockVars,
      loopVars, histVars
<1>13. CASE ExecuteParallelEvents
  <2>1. /\ stage' \in [ParallelTasks -> LoadStages]
        /\ totalTaskSize' \in Int
        /\ isTasksCompleted' \in BOOLEAN
    <3>1. CASE mParallel = <<>>
      BY <1>1, <1>13, <3>1 DEF ExecuteParallelEvents, TypeOK, frameVars
    <3>2. CASE mParallel # <<>>
      <4>1. stage' \in [ParallelTasks -> LoadStages]
        BY <1>1, <1>13, <3>2 DEF ExecuteParallelEvents, TypeOK, LoadStages
      <4>2. Len(mParallel) \in Int
        BY <1>1, LenProperties DEF TypeOK
      <4>3. QED
        BY <1>13, <3>2, <4>1, <4>2 DEF ExecuteParallelEvents
    <3>3. QED
      BY <3>1, <3>2
  <2>2. dpc' \in DispStates
    BY <1>13 DEF ExecuteParallelEvents, AfterParallel, DispStates
  <2>3. QED
    BY <1>1, <1>13, <2>1, <2>2
    DEF ExecuteParallelEvents, TypeOK, slotVars, mainVars, eventVars, frameVars, clockVars,
        loopVars, histVars
<1>14. CASE ParallelEventsDone
  <2>1. mParallel' \in Seq(ParallelTasks) /\ pending' \subseteq Tasks
    BY <1>1, <1>14 DEF ParallelEventsDone, TypeOK
  <2>2. dpc' \in DispStates
    BY <1>14 DEF ParallelEventsDone, AfterParallel, DispStates
  <2>3. totalTaskSize' \in Int /\ isTasksCompleted' \in BOOLEAN
    <3>1. totalTaskSize' = 0
      BY <1>14 DEF ParallelEventsDone
    <3>2. isTasksCompleted' \in BOOLEAN
      BY <1>14, Zenon DEF ParallelEventsDone
    <3>3. QED
      BY <3>1, <3>2
  <2>4. QED
    BY <1>1, <1>14, <2>1, <2>2, <2>3
    DEF ParallelEventsDone, TypeOK, slotVars, mainVars, eventVars, frameVars, clockVars,
        loopVars, histVars
<1>15. ASSUME NEW x \in TimedTasks, ExecuteScheduledEvent(x)
      PROVE  TypeOK'
  BY <1>1, <1>15 DEF ExecuteScheduledEvent, IsCanceled, DispStates, Tasks,
      TypeOK, slotVars, mainVars, eventVars, frameVars, clockVars,
      loopVars, histVars
<1>16. CASE FinishSerialBody
  BY <1>1, <1>16 DEF FinishSerialBody, DispStates,
      TypeOK, slotVars, mainVars, eventVars, frameVars, clockVars,
      loopVars, histVars
<1>17. CASE FinishTimedBody
  <2>1. left' \in [Tasks -> Int] /\ pending' \subseteq Tasks
    BY <1>1, <1>17, TaskFacts DEF EmplaceBack, FinishTimedBody, TypeOK
  <2>2. slotSched' \in [Threads -> Seq(TimedTasks)]
    <3>1. CASE cur \in CycleTasks
      <4>1. Append(slotSched[Disp], cur) \in Seq(TimedTasks)
        BY <1>1, <1>17, ConstantsAssumption, AppendProperties
        DEF EmplaceBack, FinishTimedBody, TypeOK, ConstantsAssumption
      <4>2. slotSched' = [slotSched EXCEPT ![Disp] =
                            Append(slotSched[Disp], cur)]
        BY <1>17, <3>1, ConstantsAssumption
        DEF EmplaceBack, FinishTimedBody, ConstantsAssumption
      <4>3. QED
        BY <1>1, <4>1, <4>2 DEF TypeOK
    <3>2. CASE cur \in DelayedTasks
      BY <1>1, <1>17, <3>2, ConstantsAssumption
      DEF EmplaceBack, FinishTimedBody, TypeOK, ConstantsAssumption
    <3>3. QED
      BY <1>17, <3>1, <3>2 DEF EmplaceBack, FinishTimedBody, TimedTasks
  <2>3. scheduledTasksRef' \subseteq TimedTasks /\ canceled' \subseteq TimedTasks
    BY <1>1, <1>17 DEF EmplaceBack, FinishTimedBody, TypeOK
  <2>4. QED
    BY <1>1, <1>17, <2>1, <2>2, <2>3
    DEF EmplaceBack, FinishTimedBody, DispStates, TypeOK, slotVars, mainVars, eventVars, frameVars, clockVars,
        loopVars, histVars
<1>18. CASE ScheduledEventsDone
  BY <1>1, <1>18, ConstantsAssumption DEF ScheduledEventsDone, DispStates, Threads, ConstantsAssumption,
      TypeOK, slotVars, mainVars, eventVars, frameVars, clockVars,
      loopVars, histVars
<1>19. CASE MergeEvents
  <2>1. mSerial' \in Seq(SerialTasks)
    BY <1>1, <1>19, ConcatProperties DEF MergeEvents, Cleared, NextSlot, TypeOK
  <2>2. slotSerial' \in [Threads -> Seq(SerialTasks)]
        /\ slotSched' \in [Threads -> Seq(TimedTasks)]
    BY <1>1, <1>19 DEF MergeEvents, Cleared, NextSlot, TypeOK
  <2>3. scheduledTasks' \subseteq TimedTasks
    BY <1>1, <1>19, RangeOfSeq DEF MergeEvents, Cleared, NextSlot, TypeOK
  <2>4. cursor' \in Threads /\ dpc' \in DispStates
    BY <1>1, <1>19, ConstantsAssumption
    DEF MergeEvents, Cleared, NextSlot, TypeOK, Threads, DispStates, ConstantsAssumption
  <2>5. QED
    BY <1>1, <1>19, <2>1, <2>2, <2>3, <2>4
    DEF MergeEvents, Cleared, NextSlot, TypeOK, slotVars, mainVars, eventVars, frameVars, clockVars,
        loopVars, histVars
<1>20. CASE ClearPending
  BY <1>1, <1>20 DEF ClearPending, DispStates,
      TypeOK, slotVars, mainVars, eventVars, frameVars, clockVars,
      loopVars, histVars
<1>21. CASE RecheckPending
  BY <1>1, <1>21 DEF RecheckPending, HasMergedTasks, DispStates,
      TypeOK, slotVars, mainVars, eventVars, frameVars, clockVars,
      loopVars, histVars
<1>22. CASE Decide
  BY <1>1, <1>22 DEF Decide, DispStates,
      TypeOK, slotVars, mainVars, eventVars, frameVars, clockVars,
      loopVars, histVars
<1>23. CASE Sleep
  BY <1>1, <1>23 DEF Sleep, TimeUntilNextScheduledTask, Earliest, Forever, Tasks, DispStates,
      TypeOK, slotVars, mainVars, eventVars, frameVars, clockVars,
      loopVars, histVars
<1>24. CASE Timeout
  BY <1>1, <1>24 DEF Timeout, DispStates,
      TypeOK, slotVars, mainVars, eventVars, frameVars, clockVars,
      loopVars, histVars
<1>25. CASE SpuriousWakeup
  BY <1>1, <1>25 DEF SpuriousWakeup, DispStates,
      TypeOK, slotVars, mainVars, eventVars, frameVars, clockVars,
      loopVars, histVars
<1>26. ASSUME NEW x \in ParallelTasks, LoadStep(x)
      PROVE  TypeOK'
  <2>1. stage' \in [ParallelTasks -> LoadStages]
    BY <1>1, <1>26 DEF LoadStep, StartLoad, ExecuteLoad, SubtractLoad,
        LoadTotal, StoreCompleted, LoadStages, TypeOK
  <2>2. totalTaskSize' \in Int
    BY <1>1, <1>26 DEF LoadStep, StartLoad, ExecuteLoad, SubtractLoad,
        LoadTotal, StoreCompleted, TypeOK
  <2>3. isTasksCompleted' \in BOOLEAN
    <3>1. CASE StoreCompleted(x)
      BY <3>1, Zenon DEF StoreCompleted
    <3>2. CASE isTasksCompleted' = isTasksCompleted
      BY <1>1, <3>2 DEF TypeOK
    <3>3. QED
      BY <1>26, <3>1, <3>2 DEF LoadStep, StartLoad, ExecuteLoad, SubtractLoad,
          LoadTotal
  <2>4. QED
    BY <1>1, <1>26, <2>1, <2>2, <2>3 DEF LoadStep, StartLoad, ExecuteLoad,
        SubtractLoad, LoadTotal, StoreCompleted, TypeOK, slotVars, mainVars, eventVars, frameVars, clockVars,
        loopVars, histVars
<1>27. CASE Tick
  BY <1>1, <1>27 DEF Tick,
      TypeOK, slotVars, mainVars, eventVars, frameVars, clockVars,
      loopVars, histVars
<1>28. CASE Shutdown
  BY <1>1, <1>28 DEF Shutdown,
      TypeOK, slotVars, mainVars, eventVars, frameVars, clockVars,
      loopVars, histVars
<1>29. CASE UNCHANGED vars
  BY <1>1, <1>29 DEF vars,
      TypeOK, slotVars, mainVars, eventVars, frameVars, clockVars,
      loopVars, histVars
<1>30. QED
  BY <1>1, <1>2, <1>3, <1>4, <1>5, <1>6, <1>7, <1>8, <1>9, <1>10, <1>11, <1>12, <1>13, <1>14, <1>15, <1>16, <1>17, <1>18, <1>19, <1>20, <1>21, <1>22, <1>23, <1>24, <1>25, <1>26, <1>27, <1>28, <1>29
  DEF Next, Call, LoopStep

\* Every state the dispatcher can reach is well typed.
THEOREM TypeCorrect == Spec => []TypeOK
BY TypeInit, TypeStep, PTL DEF Spec

-----------------------------------------------------------------------------
(***************************************************************************)
(* Every submitted task is in exactly one place.  The invariant also says  *)
(* when the dispatcher runs a task: without it a second task could take    *)
(* the place of cur.                                                       *)
(***************************************************************************)
CurInBody == cur # None <=> dpc = "body"

PlaceInv == TypeOK /\ NotLost /\ HeldOnce /\ CurInBody

\* Nothing is held anywhere when the dispatcher starts.
LEMMA PlaceInit == Init => NotLost /\ HeldOnce /\ CurInBody
<1>1. SUFFICES ASSUME Init PROVE NotLost /\ HeldOnce /\ CurInBody
  OBVIOUS
<1>2. /\ \A x \in Tasks, t \in Threads : ~InSlot(x, t)
      /\ \A x \in Tasks : ~InMain(x)
  BY <1>1, EmptyRange DEF Init, InSlot, InMain
<1>3. NotLost
  BY <1>1, <1>2, ConstantsAssumption DEF Init, NotLost, ConstantsAssumption
<1>4. HeldOnce
  BY <1>1, <1>2, EmptyRange DEF Init, HeldOnce
<1>5. QED
  BY <1>1, <1>3, <1>4 DEF Init, CurInBody

\* A step that leaves all the places alone moves no task.
LEMMA PlacesUnchanged ==
  ASSUME NotLost, HeldOnce, UNCHANGED <<slotVars, mainVars, cur, pending>>
  PROVE  NotLost' /\ HeldOnce'
BY DEF NotLost, HeldOnce, InSlot, InMain, slotVars, mainVars

\* addEvent puts a task that is nowhere into one slot.
LEMMA AddEventPlace ==
  ASSUME PlaceInv, NEW t \in Threads, NEW x \in SerialTasks, AddEvent(t, x)
  PROVE  NotLost' /\ HeldOnce'
<1>1. \A u \in Threads : ~InSlot(x, u)
  BY TaskFacts DEF PlaceInv, NotLost, AddEvent
<1>2. ~InMain(x) /\ cur # x
  BY TaskFacts DEF PlaceInv, NotLost, AddEvent
<1>3. /\ slotSerial'[t] = Append(slotSerial[t], x)
      /\ \A u \in Threads \ {t} : slotSerial'[u] = slotSerial[u]
  BY DEF PlaceInv, TypeOK, AddEvent, EmplaceBack
<1>4. /\ Range(slotSerial'[t]) = Range(slotSerial[t]) \cup {x}
      /\ IsInjective(slotSerial'[t])
  <2>1. slotSerial[t] \in Seq(SerialTasks)
    BY DEF PlaceInv, TypeOK
  <2>2. x \notin Range(slotSerial[t]) /\ IsInjective(slotSerial[t])
    BY <1>1 DEF InSlot, PlaceInv, HeldOnce
  <2>3. QED
    BY <1>3, <2>1, <2>2, AppendRange
<1>5. \A y \in Tasks, u \in Threads :
         InSlot(y, u)' <=> InSlot(y, u) \/ (y = x /\ u = t)
  BY <1>3, <1>4 DEF InSlot, AddEvent
<1>6. /\ \A y \in Tasks : InMain(y)' <=> InMain(y)
      /\ cur' = cur
      /\ pending' = pending \cup {x}
  BY DEF InMain, AddEvent, mainVars
<1>7. NotLost'
  BY <1>5, <1>6, TaskFacts DEF PlaceInv, NotLost
<1>8. HeldOnce'
  BY <1>1, <1>2, <1>3, <1>4, <1>5, <1>6
  DEF PlaceInv, HeldOnce, AddEvent, mainVars
<1>9. QED
  BY <1>7, <1>8

\* asyncEvent likewise.
LEMMA AsyncEventPlace ==
  ASSUME PlaceInv, NEW t \in Threads, NEW x \in ParallelTasks, AsyncEvent(t, x)
  PROVE  NotLost' /\ HeldOnce'
<1>1. \A u \in Threads : ~InSlot(x, u)
  BY TaskFacts DEF PlaceInv, NotLost, AsyncEvent
<1>2. ~InMain(x) /\ cur # x
  BY TaskFacts DEF PlaceInv, NotLost, AsyncEvent
<1>3. /\ slotAsync'[t] = Append(slotAsync[t], x)
      /\ \A u \in Threads \ {t} : slotAsync'[u] = slotAsync[u]
  BY DEF PlaceInv, TypeOK, AsyncEvent, EmplaceBack
<1>4. /\ Range(slotAsync'[t]) = Range(slotAsync[t]) \cup {x}
      /\ IsInjective(slotAsync'[t])
  <2>1. slotAsync[t] \in Seq(ParallelTasks)
    BY DEF PlaceInv, TypeOK
  <2>2. x \notin Range(slotAsync[t]) /\ IsInjective(slotAsync[t])
    BY <1>1 DEF InSlot, PlaceInv, HeldOnce
  <2>3. QED
    BY <1>3, <2>1, <2>2, AppendRange
<1>5. \A y \in Tasks, u \in Threads :
         InSlot(y, u)' <=> InSlot(y, u) \/ (y = x /\ u = t)
  BY <1>3, <1>4 DEF InSlot, AsyncEvent
<1>6. /\ \A y \in Tasks : InMain(y)' <=> InMain(y)
      /\ cur' = cur
      /\ pending' = pending \cup {x}
  BY DEF InMain, AsyncEvent, mainVars
<1>7. NotLost'
  BY <1>5, <1>6, TaskFacts DEF PlaceInv, NotLost
<1>8. HeldOnce'
  BY <1>1, <1>2, <1>3, <1>4, <1>5, <1>6
  DEF PlaceInv, HeldOnce, AsyncEvent, mainVars
<1>9. QED
  BY <1>7, <1>8

\* scheduleEvent likewise.
LEMMA ScheduleEventPlace ==
  ASSUME PlaceInv, NEW t \in Threads, NEW x \in TimedTasks, ScheduleEvent(t, x)
  PROVE  NotLost' /\ HeldOnce'
<1>1. \A u \in Threads : ~InSlot(x, u)
  BY TaskFacts DEF PlaceInv, NotLost, ScheduleEvent
<1>2. ~InMain(x) /\ cur # x
  BY TaskFacts DEF PlaceInv, NotLost, ScheduleEvent
<1>3. /\ slotSched'[t] = Append(slotSched[t], x)
      /\ \A u \in Threads \ {t} : slotSched'[u] = slotSched[u]
  BY DEF PlaceInv, TypeOK, ScheduleEvent, EmplaceBack
<1>4. /\ Range(slotSched'[t]) = Range(slotSched[t]) \cup {x}
      /\ IsInjective(slotSched'[t])
  <2>1. slotSched[t] \in Seq(TimedTasks)
    BY DEF PlaceInv, TypeOK
  <2>2. x \notin Range(slotSched[t]) /\ IsInjective(slotSched[t])
    BY <1>1 DEF InSlot, PlaceInv, HeldOnce
  <2>3. QED
    BY <1>3, <2>1, <2>2, AppendRange
<1>5. \A y \in Tasks, u \in Threads :
         InSlot(y, u)' <=> InSlot(y, u) \/ (y = x /\ u = t)
  BY <1>3, <1>4 DEF InSlot, ScheduleEvent
<1>6. /\ \A y \in Tasks : InMain(y)' <=> InMain(y)
      /\ cur' = cur
      /\ pending' = pending \cup {x}
  BY DEF InMain, ScheduleEvent, mainVars
<1>7. NotLost'
  BY <1>5, <1>6, TaskFacts DEF PlaceInv, NotLost
<1>8. HeldOnce'
  BY <1>1, <1>2, <1>3, <1>4, <1>5, <1>6
  DEF PlaceInv, HeldOnce, ScheduleEvent, mainVars
<1>9. QED
  BY <1>7, <1>8

\* The serial loop takes the first merged task: it runs, or it has expired.
LEMMA ExecuteSerialEventPlace ==
  ASSUME PlaceInv, ExecuteSerialEvent
  PROVE  NotLost' /\ HeldOnce'
<1> DEFINE x == Head(mSerial)
<1>1. /\ x \in SerialTasks
      /\ mSerial' = Tail(mSerial)
      /\ Range(mSerial) = {x} \cup Range(mSerial')
      /\ x \notin Range(mSerial')
      /\ IsInjective(mSerial')
  BY TailRange DEF ExecuteSerialEvent, PlaceInv, TypeOK, HeldOnce
<1>2. /\ cur = None
      /\ \/ cur' = x /\ pending' = pending
         \/ cur' = None /\ pending' = pending \ {x}
  BY DEF PlaceInv, CurInBody, ExecuteSerialEvent
<1>3. InMain(x) /\ x \in Tasks
  BY <1>1, TaskFacts DEF InMain
<1>4. \A y \in Tasks : InMain(y)' <=> InMain(y) /\ y # x
  <2>1. x \notin Range(mParallel) /\ x \notin scheduledTasks
    BY <1>1, RangeOfSeq, ConstantsAssumption
    DEF PlaceInv, TypeOK, ConstantsAssumption
  <2>2. QED
    BY <1>1, <2>1 DEF InMain, ExecuteSerialEvent
<1>5. \A y \in Tasks, u \in Threads : InSlot(y, u)' <=> InSlot(y, u)
  BY DEF InSlot, ExecuteSerialEvent, slotVars
<1>6. \A u \in Threads : ~InSlot(x, u)
  BY <1>3 DEF PlaceInv, HeldOnce
<1>7. None \notin Tasks
  BY ConstantsAssumption DEF ConstantsAssumption
<1> HIDE DEF x
<1>8. NotLost'
  BY <1>2, <1>3, <1>4, <1>5, <1>6, <1>7 DEF PlaceInv, NotLost
<1>9. HeldOnce'
  BY <1>1, <1>2, <1>3, <1>4, <1>5, <1>6, <1>7
  DEF PlaceInv, HeldOnce, ExecuteSerialEvent, slotVars
<1>10. QED
  BY <1>8, <1>9

\* mergeAsyncEvents moves the async tasks of one slot to m_tasks.
LEMMA MergeAsyncEventsPlace ==
  ASSUME PlaceInv, MergeAsyncEvents
  PROVE  NotLost' /\ HeldOnce'
<1>1. PICK c \in Threads : c = cursor
  BY DEF PlaceInv, TypeOK
<1>2. /\ slotAsync'[c] = <<>>
      /\ \A u \in Threads \ {c} : slotAsync'[u] = slotAsync[u]
  BY <1>1 DEF MergeAsyncEvents, Cleared, NextSlot, PlaceInv, TypeOK
<1>3. Range(mParallel) \cap Range(slotAsync[c]) = {}
  <2>1. \A y \in Range(slotAsync[c]) : y \in Tasks /\ InSlot(y, c)
    BY <1>1, RangeOfSeq, TaskFacts DEF InSlot, PlaceInv, TypeOK
  <2>2. QED
    BY <1>1, <2>1 DEF PlaceInv, HeldOnce, InMain
<1>4. /\ Range(mParallel') = Range(mParallel) \cup Range(slotAsync[c])
      /\ IsInjective(mParallel')
  BY <1>1, <1>3, ConcatRange DEF MergeAsyncEvents, Cleared, NextSlot, PlaceInv, TypeOK, HeldOnce
<1>5. \A y \in Tasks : InMain(y)' <=> InMain(y) \/ y \in Range(slotAsync[c])
  BY <1>4 DEF InMain, MergeAsyncEvents
<1>6. \A y \in Tasks, u \in Threads :
        /\ InSlot(y, u)' => InSlot(y, u)
        /\ InSlot(y, u) /\ ~InSlot(y, u)'
             => u = c /\ y \in Range(slotAsync[c])
  BY <1>2, EmptyRange DEF InSlot, MergeAsyncEvents
<1>7. \A y \in Tasks : y \in Range(slotAsync[c])
         => InSlot(y, c) /\ ~InSlot(y, c)'
  <2>1. \A y \in Range(slotAsync[c]) :
           y \in ParallelTasks /\ y \notin SerialTasks /\ y \notin TimedTasks
    BY <1>1, RangeOfSeq, ConstantsAssumption
    DEF PlaceInv, TypeOK, ConstantsAssumption
  <2>2. \A y \in Range(slotAsync[c]) :
           y \notin Range(slotSerial[c]) /\ y \notin Range(slotSched[c])
    BY <1>1, <2>1, RangeOfSeq DEF PlaceInv, TypeOK
  <2>3. QED
    BY <1>2, <2>2, EmptyRange DEF InSlot, MergeAsyncEvents
<1>8. cur' = cur /\ pending' = pending
  BY DEF MergeAsyncEvents, Cleared, NextSlot, histVars
<1>9. NotLost'
  BY <1>1, <1>5, <1>6, <1>7, <1>8 DEF PlaceInv, NotLost
<1>10. HeldOnce'
  <2>1. /\ \A u \in Threads : /\ IsInjective(slotSerial'[u])
                              /\ IsInjective(slotAsync'[u])
                              /\ IsInjective(slotSched'[u])
        /\ IsInjective(mSerial')
        /\ IsInjective(mParallel')
    BY <1>2, <1>4, EmptyRange DEF PlaceInv, HeldOnce, MergeAsyncEvents
  <2>2. \A y \in Tasks : InMain(y)' => cur' # y
    BY <1>1, <1>5, <1>7, <1>8 DEF PlaceInv, HeldOnce
  <2>3. \A y \in Tasks, u \in Threads :
          InSlot(y, u)' => /\ ~InMain(y)'
                           /\ cur' # y
                           /\ \A v \in Threads \ {u} : ~InSlot(y, v)'
    <3>1. SUFFICES ASSUME NEW y \in Tasks, NEW u \in Threads, InSlot(y, u)'
                   PROVE  /\ ~InMain(y)'
                          /\ cur' # y
                          /\ \A v \in Threads \ {u} : ~InSlot(y, v)'
      OBVIOUS
    <3>2. InSlot(y, u)
      BY <1>6, <3>1
    <3>3. ~InMain(y) /\ cur # y /\ \A v \in Threads \ {u} : ~InSlot(y, v)
      BY <3>2 DEF PlaceInv, HeldOnce
    <3>4. y \notin Range(slotAsync[c])
      BY <1>7, <3>1, <3>3
    <3>5. QED
      BY <1>5, <1>6, <1>8, <3>3, <3>4
  <2>4. QED
    BY <2>1, <2>2, <2>3 DEF HeldOnce
<1>11. QED
  BY <1>9, <1>10

\* When the batch is complete its tasks leave m_tasks and are done.
LEMMA ParallelEventsDonePlace ==
  ASSUME PlaceInv, ParallelEventsDone
  PROVE  NotLost' /\ HeldOnce'
<1>1. /\ \A y \in Tasks, u \in Threads : InSlot(y, u)' <=> InSlot(y, u)
      /\ cur' = cur
      /\ pending' = pending \ Range(mParallel)
  BY DEF InSlot, ParallelEventsDone, slotVars
<1>2. \A y \in Tasks : InMain(y)' <=> InMain(y) /\ y \notin Range(mParallel)
  <2>1. \A y \in Range(mParallel) : y \notin Range(mSerial) /\ y \notin scheduledTasks
    BY RangeOfSeq, ConstantsAssumption DEF PlaceInv, TypeOK, ConstantsAssumption
  <2>2. QED
    BY <2>1, EmptyRange DEF InMain, ParallelEventsDone
<1>3. \A y \in Tasks : y \in Range(mParallel) => InMain(y)
  BY DEF InMain
<1>4. NotLost'
  BY <1>1, <1>2, <1>3 DEF PlaceInv, NotLost, HeldOnce
<1>5. HeldOnce'
  BY <1>1, <1>2, EmptyRange DEF PlaceInv, HeldOnce, ParallelEventsDone, slotVars
<1>6. QED
  BY <1>4, <1>5

\* The scheduled loop takes a due task: it runs, or it was canceled.
LEMMA ExecuteScheduledEventPlace ==
  ASSUME PlaceInv, NEW x \in TimedTasks, ExecuteScheduledEvent(x)
  PROVE  NotLost' /\ HeldOnce'
<1>1. /\ cur = None
      /\ \/ cur' = x /\ pending' = pending
         \/ cur' = None /\ pending' = pending \ {x}
  BY DEF PlaceInv, CurInBody, ExecuteScheduledEvent
<1>2. InMain(x) /\ x \in Tasks
  BY TaskFacts DEF InMain, ExecuteScheduledEvent, Earliest
<1>3. \A y \in Tasks : InMain(y)' <=> InMain(y) /\ y # x
  <2>1. x \notin Range(mParallel) /\ x \notin Range(mSerial)
    BY RangeOfSeq, ConstantsAssumption DEF PlaceInv, TypeOK, ConstantsAssumption
  <2>2. QED
    BY <2>1 DEF InMain, ExecuteScheduledEvent
<1>4. \A y \in Tasks, u \in Threads : InSlot(y, u)' <=> InSlot(y, u)
  BY DEF InSlot, ExecuteScheduledEvent, slotVars
<1>5. \A u \in Threads : ~InSlot(x, u)
  BY <1>2 DEF PlaceInv, HeldOnce
<1>6. None \notin Tasks
  BY ConstantsAssumption DEF ConstantsAssumption
<1>7. NotLost'
  BY <1>1, <1>2, <1>3, <1>4, <1>5, <1>6 DEF PlaceInv, NotLost
<1>8. HeldOnce'
  BY <1>1, <1>2, <1>3, <1>4, <1>5, <1>6
  DEF PlaceInv, HeldOnce, ExecuteScheduledEvent, slotVars
<1>9. QED
  BY <1>7, <1>8

\* A serial task is done when its func returns.
LEMMA FinishSerialBodyPlace ==
  ASSUME PlaceInv, FinishSerialBody
  PROVE  NotLost' /\ HeldOnce'
<1>1. /\ \A y \in Tasks, u \in Threads : InSlot(y, u)' <=> InSlot(y, u)
      /\ \A y \in Tasks : InMain(y)' <=> InMain(y)
      /\ cur' = None
      /\ pending' = pending \ {cur}
  BY DEF InSlot, InMain, FinishSerialBody, slotVars, mainVars
<1>2. None \notin Tasks
  BY ConstantsAssumption DEF ConstantsAssumption
<1>3. NotLost'
  BY <1>1, <1>2 DEF PlaceInv, NotLost, HeldOnce
<1>4. HeldOnce'
  BY <1>1, <1>2 DEF PlaceInv, HeldOnce, FinishSerialBody, slotVars, mainVars
<1>5. QED
  BY <1>3, <1>4

\* A scheduled task is done when its func returns; a cycle task moves to the
\* slot of the dispatcher thread.
LEMMA FinishTimedBodyPlace ==
  ASSUME PlaceInv, FinishTimedBody
  PROVE  NotLost' /\ HeldOnce'
<1>1. PICK x \in TimedTasks : x = cur
  BY DEF EmplaceBack, FinishTimedBody
<1>2. x \in Tasks /\ None \notin Tasks /\ Disp \in Threads
  BY TaskFacts, ConstantsAssumption DEF ConstantsAssumption
<1>3. ~InMain(x) /\ \A u \in Threads : ~InSlot(x, u)
  BY <1>1, <1>2 DEF PlaceInv, HeldOnce
<1>4. \A y \in Tasks : InMain(y)' <=> InMain(y)
  BY DEF InMain, FinishTimedBody, mainVars
<1>5. CASE x \in CycleTasks
  <2>1. /\ slotSched'[Disp] = Append(slotSched[Disp], x)
        /\ \A u \in Threads \ {Disp} : slotSched'[u] = slotSched[u]
        /\ cur' = None
        /\ pending' = pending
    BY <1>1, <1>2, <1>5, ConstantsAssumption
    DEF PlaceInv, TypeOK, FinishTimedBody, EmplaceBack, ConstantsAssumption
  <2>2. /\ Range(slotSched'[Disp]) = Range(slotSched[Disp]) \cup {x}
        /\ IsInjective(slotSched'[Disp])
    <3>1. slotSched[Disp] \in Seq(TimedTasks)
      BY <1>2 DEF PlaceInv, TypeOK
    <3>2. x \notin Range(slotSched[Disp]) /\ IsInjective(slotSched[Disp])
      BY <1>2, <1>3 DEF InSlot, PlaceInv, HeldOnce
    <3>3. QED
      BY <2>1, <3>1, <3>2, AppendRange
  <2>3. \A y \in Tasks, u \in Threads :
           InSlot(y, u)' <=> InSlot(y, u) \/ (y = x /\ u = Disp)
    BY <2>1, <2>2 DEF InSlot, FinishTimedBody
  <2>4. NotLost'
    BY <1>1, <1>2, <1>4, <2>1, <2>3 DEF PlaceInv, NotLost
  <2>5. HeldOnce'
    BY <1>1, <1>2, <1>3, <1>4, <2>1, <2>2, <2>3
    DEF PlaceInv, HeldOnce, FinishTimedBody, mainVars
  <2>6. QED
    BY <2>4, <2>5
<1>6. CASE x \in DelayedTasks
  <2>1. /\ slotSched' = slotSched
        /\ cur' = None
        /\ pending' = pending \ {x}
    BY <1>1, <1>6, ConstantsAssumption DEF EmplaceBack, FinishTimedBody, ConstantsAssumption
  <2>2. \A y \in Tasks, u \in Threads : InSlot(y, u)' <=> InSlot(y, u)
    BY <2>1 DEF InSlot, FinishTimedBody
  <2>3. NotLost'
    BY <1>1, <1>2, <1>3, <1>4, <2>1, <2>2 DEF PlaceInv, NotLost
  <2>4. HeldOnce'
    BY <1>1, <1>2, <1>4, <2>1, <2>2
    DEF PlaceInv, HeldOnce, FinishTimedBody, mainVars
  <2>5. QED
    BY <2>3, <2>4
<1>7. QED
  BY <1>5, <1>6 DEF TimedTasks

\* mergeEvents moves the serial and the scheduled tasks of one slot.
LEMMA MergeEventsPlace ==
  ASSUME PlaceInv, MergeEvents
  PROVE  NotLost' /\ HeldOnce'
<1>1. PICK c \in Threads : c = cursor
  BY DEF PlaceInv, TypeOK
<1> DEFINE Moved == Range(slotSerial[c]) \cup Range(slotSched[c])
<1>2. /\ slotSerial'[c] = <<>> /\ slotSched'[c] = <<>>
      /\ \A u \in Threads \ {c} : /\ slotSerial'[u] = slotSerial[u]
                                  /\ slotSched'[u] = slotSched[u]
  BY <1>1 DEF MergeEvents, Cleared, NextSlot, PlaceInv, TypeOK
<1>3. \A y \in Moved : /\ y \in Tasks /\ y \notin ParallelTasks
                       /\ InSlot(y, c) /\ ~InMain(y)
  <2>1. \A y \in Moved : y \in SerialTasks \/ y \in TimedTasks
    BY <1>1, RangeOfSeq DEF PlaceInv, TypeOK
  <2>2. \A y \in Moved : y \in Tasks /\ y \notin ParallelTasks
    BY <2>1, TaskFacts, ConstantsAssumption DEF ConstantsAssumption
  <2>3. \A y \in Moved : InSlot(y, c)
    BY DEF InSlot
  <2>4. QED
    BY <2>2, <2>3 DEF PlaceInv, HeldOnce
<1>4. /\ Range(mSerial') = Range(mSerial) \cup Range(slotSerial[c])
      /\ IsInjective(mSerial')
  <2>1. Range(mSerial) \cap Range(slotSerial[c]) = {}
    BY <1>3 DEF InMain
  <2>2. QED
    BY <1>1, <2>1, ConcatRange DEF MergeEvents, Cleared, NextSlot, PlaceInv, TypeOK, HeldOnce
<1>5. \A y \in Tasks : InMain(y)' <=> InMain(y) \/ y \in Moved
  BY <1>1, <1>4 DEF InMain, MergeEvents
<1>6. \A y \in Tasks, u \in Threads :
        /\ InSlot(y, u)' => InSlot(y, u)
        /\ InSlot(y, u) /\ ~InSlot(y, u)' => u = c /\ y \in Moved
  BY <1>2, EmptyRange DEF InSlot, MergeEvents
<1>7. \A y \in Moved : ~InSlot(y, c)'
  <2>1. \A y \in Moved : y \notin Range(slotAsync[c])
    BY <1>1, <1>3, RangeOfSeq DEF PlaceInv, TypeOK
  <2>2. QED
    BY <1>2, <2>1, EmptyRange DEF InSlot, MergeEvents
<1>8. cur' = cur /\ pending' = pending
  BY DEF MergeEvents, Cleared, NextSlot, histVars
<1> HIDE DEF Moved
<1>9. NotLost'
  BY <1>1, <1>3, <1>5, <1>6, <1>7, <1>8 DEF PlaceInv, NotLost
<1>10. HeldOnce'
  <2>1. /\ \A u \in Threads : /\ IsInjective(slotSerial'[u])
                              /\ IsInjective(slotAsync'[u])
                              /\ IsInjective(slotSched'[u])
        /\ IsInjective(mSerial')
        /\ IsInjective(mParallel')
    BY <1>2, <1>4, EmptyRange DEF PlaceInv, HeldOnce, MergeEvents
  <2>2. \A y \in Tasks : InMain(y)' => cur' # y
    BY <1>1, <1>3, <1>5, <1>8 DEF PlaceInv, HeldOnce
  <2>3. \A y \in Tasks, u \in Threads :
          InSlot(y, u)' => /\ ~InMain(y)'
                           /\ cur' # y
                           /\ \A v \in Threads \ {u} : ~InSlot(y, v)'
    <3>1. SUFFICES ASSUME NEW y \in Tasks, NEW u \in Threads, InSlot(y, u)'
                   PROVE  /\ ~InMain(y)'
                          /\ cur' # y
                          /\ \A v \in Threads \ {u} : ~InSlot(y, v)'
      OBVIOUS
    <3>2. InSlot(y, u)
      BY <1>6, <3>1
    <3>3. ~InMain(y) /\ cur # y /\ \A v \in Threads \ {u} : ~InSlot(y, v)
      BY <3>2 DEF PlaceInv, HeldOnce
    <3>4. y \notin Moved
      BY <1>3, <1>7, <3>1, <3>3
    <3>5. QED
      BY <1>5, <1>6, <1>8, <3>3, <3>4
  <2>4. QED
    BY <2>1, <2>2, <2>3 DEF HeldOnce
<1>11. QED
  BY <1>9, <1>10

\* The step runs a task only when none is running, and ends it before the next.
LEMMA CurInBodyStep ==
  ASSUME PlaceInv, [Next]_vars
  PROVE  CurInBody'
<1> USE DEF PlaceInv, CurInBody
<1>1. ASSUME NEW t \in Threads, Call(t) \/ NotifySet(t) \/ NotifyOne(t)
      PROVE  CurInBody'
  BY <1>1 DEF Call, AddEvent, AsyncEvent, ScheduleEvent, NotifySet, NotifyOne,
      loopVars
<1>2. CASE ExecuteSerialEvent
  <2>1. Head(mSerial) \in SerialTasks
    BY <1>2, TailRange DEF ExecuteSerialEvent, TypeOK
  <2>2. Head(mSerial) # None
    BY <2>1, TaskFacts, ConstantsAssumption DEF ConstantsAssumption
  <2>3. QED
    BY <1>2, <2>2 DEF ExecuteSerialEvent
<1>3. ASSUME NEW x \in TimedTasks, ExecuteScheduledEvent(x)
      PROVE  CurInBody'
  <2>1. x # None
    BY TaskFacts, ConstantsAssumption DEF ConstantsAssumption
  <2>2. QED
    BY <1>3, <2>1 DEF ExecuteScheduledEvent, IsCanceled
<1>4. CASE LoopStep /\ ~ExecuteSerialEvent
                     /\ \A x \in TimedTasks : ~ExecuteScheduledEvent(x)
  <2>1. CASE LoopTop \/ ExecuteEvents \/ SerialEventsDone \/ MergeAsyncEvents
    BY <2>1 DEF LoopTop, ExecuteEvents, SerialEventsDone, MergeAsyncEvents
  <2>2. CASE ExecuteParallelEvents \/ ParallelEventsDone
    BY <2>2 DEF ExecuteParallelEvents, ParallelEventsDone, AfterParallel
  <2>3. CASE FinishSerialBody \/ FinishTimedBody \/ ScheduledEventsDone
    BY <2>3 DEF FinishSerialBody, FinishTimedBody, ScheduledEventsDone
  <2>4. CASE MergeEvents \/ ClearPending \/ RecheckPending \/ Decide
    BY <2>4 DEF MergeEvents, Cleared, NextSlot, ClearPending, RecheckPending, Decide
  <2>5. CASE Sleep \/ Timeout
    BY <2>5 DEF Sleep, Timeout
  <2>6. QED
    BY <1>4, <2>1, <2>2, <2>3, <2>4, <2>5 DEF LoopStep
<1>5. ASSUME NEW x \in ParallelTasks, LoadStep(x)
      PROVE  CurInBody'
  BY <1>5 DEF LoadStep, StartLoad, ExecuteLoad, SubtractLoad, LoadTotal,
      StoreCompleted, loopVars
<1>6. CASE SpuriousWakeup \/ Tick \/ Shutdown \/ UNCHANGED vars
  BY <1>6 DEF SpuriousWakeup, Tick, Shutdown, vars, loopVars
<1>7. ASSUME NEW x \in TimedTasks, StopEvent(x)
      PROVE  CurInBody'
  BY <1>7 DEF StopEvent, loopVars
<1>8. QED
  BY <1>1, <1>2, <1>3, <1>4, <1>5, <1>6, <1>7 DEF Next, LoopStep

\* Every step keeps every task in exactly one place.
LEMMA PlaceStep == PlaceInv /\ [Next]_vars => PlaceInv'
<1>1. SUFFICES ASSUME PlaceInv, [Next]_vars
               PROVE  NotLost' /\ HeldOnce'
  BY TypeStep, CurInBodyStep DEF PlaceInv
<1>2. NotLost /\ HeldOnce
  BY <1>1 DEF PlaceInv
<1>3. ASSUME NEW t \in Threads, Call(t)
      PROVE  NotLost' /\ HeldOnce'
  BY <1>1, <1>3, AddEventPlace, AsyncEventPlace, ScheduleEventPlace DEF Call
<1>4. ASSUME NEW t \in Threads, NotifySet(t) \/ NotifyOne(t)
      PROVE  NotLost' /\ HeldOnce'
  BY <1>2, <1>4, PlacesUnchanged DEF NotifySet, NotifyOne, histVars
<1>5. ASSUME NEW x \in TimedTasks, StopEvent(x)
      PROVE  NotLost' /\ HeldOnce'
  BY <1>2, <1>5, PlacesUnchanged DEF StopEvent, histVars
<1>6. CASE LoopStep
  <2>1. CASE ExecuteSerialEvent \/ MergeAsyncEvents \/ ParallelEventsDone
               \/ FinishSerialBody \/ FinishTimedBody \/ MergeEvents
    BY <1>1, <2>1, ExecuteSerialEventPlace, MergeAsyncEventsPlace,
       ParallelEventsDonePlace, FinishSerialBodyPlace, FinishTimedBodyPlace,
       MergeEventsPlace
  <2>2. ASSUME NEW x \in TimedTasks, ExecuteScheduledEvent(x)
        PROVE  NotLost' /\ HeldOnce'
    BY <1>1, <2>2, ExecuteScheduledEventPlace
  <2>3. CASE LoopTop \/ ExecuteEvents \/ SerialEventsDone
               \/ ExecuteParallelEvents \/ ScheduledEventsDone
    BY <1>2, <2>3, PlacesUnchanged DEF LoopTop, ExecuteEvents,
       SerialEventsDone, ExecuteParallelEvents, ScheduledEventsDone, histVars
  <2>4. CASE ClearPending \/ RecheckPending \/ Decide \/ Sleep \/ Timeout
    BY <1>2, <2>4, PlacesUnchanged DEF ClearPending, RecheckPending, Decide,
       Sleep, Timeout, histVars
  <2>5. QED
    BY <1>6, <2>1, <2>2, <2>3, <2>4 DEF LoopStep
<1>7. ASSUME NEW x \in ParallelTasks, LoadStep(x)
      PROVE  NotLost' /\ HeldOnce'
  BY <1>2, <1>7, PlacesUnchanged DEF LoadStep, StartLoad, ExecuteLoad,
     SubtractLoad, LoadTotal, StoreCompleted, histVars
<1>8. CASE SpuriousWakeup \/ Tick \/ Shutdown \/ UNCHANGED vars
  BY <1>2, <1>8, PlacesUnchanged DEF SpuriousWakeup, Tick, Shutdown, vars,
     histVars
<1>9. QED
  BY <1>1, <1>3, <1>4, <1>5, <1>6, <1>7, <1>8 DEF Next

\* The inductive invariant holds in every state.
LEMMA PlaceInvariant == Spec => []PlaceInv
<1>1. Init => PlaceInv
  BY TypeInit, PlaceInit DEF PlaceInv
<1>2. QED
  BY <1>1, PlaceStep, PTL DEF Spec

\* No task is lost, leaked or held twice, for any number of threads and tasks
\* and any interleaving of the slots' critical sections with the merge loops.
THEOREM TasksInOnePlace == Spec => []ExactlyOnePlace
<1>1. PlaceInv => ExactlyOnePlace
  BY DEF PlaceInv, ExactlyOnePlace
<1>2. QED
  BY <1>1, PlaceInvariant, PTL

-----------------------------------------------------------------------------
(***************************************************************************)
(* Scheduled events: scheduledTasksRef and stopEvent.                      *)
(***************************************************************************)

\* Every step keeps scheduledTasksRef in line with the outstanding events.
LEMMA RefStep ==
  ASSUME PlaceInv, RefTracksLiveEvents, [Next]_vars
  PROVE  RefTracksLiveEvents'
<1> USE DEF RefTracksLiveEvents
<1>1. /\ SerialTasks \cap TimedTasks = {} /\ ParallelTasks \cap TimedTasks = {}
      /\ DelayedTasks \cap CycleTasks = {}
  BY ConstantsAssumption DEF ConstantsAssumption
<1>2. canceled \subseteq TimedTasks
  BY DEF PlaceInv, TypeOK
<1>3. CASE UNCHANGED <<pending, eventVars>>
  BY <1>3 DEF eventVars
<1>4. ASSUME NEW t \in Threads, Call(t)
      PROVE  RefTracksLiveEvents'
  <2>1. ASSUME NEW x \in SerialTasks, AddEvent(t, x)
        PROVE  RefTracksLiveEvents'
    BY <1>1, <1>2, <2>1 DEF EmplaceBack, AddEvent, eventVars
  <2>2. ASSUME NEW x \in ParallelTasks, AsyncEvent(t, x)
        PROVE  RefTracksLiveEvents'
    BY <1>1, <1>2, <2>2 DEF EmplaceBack, AsyncEvent, eventVars
  <2>3. ASSUME NEW x \in TimedTasks, ScheduleEvent(t, x)
        PROVE  RefTracksLiveEvents'
    BY <1>1, <1>2, <2>3 DEF EmplaceBack, ScheduleEvent
  <2>4. QED
    BY <1>4, <2>1, <2>2, <2>3 DEF Call
<1>5. ASSUME NEW x \in TimedTasks, StopEvent(x)
      PROVE  RefTracksLiveEvents'
  BY <1>5 DEF StopEvent, histVars
<1>6. CASE ExecuteSerialEvent
  <2>1. Head(mSerial) \in SerialTasks
    BY <1>6, TailRange DEF ExecuteSerialEvent, PlaceInv, TypeOK
  <2>2. QED
    BY <1>1, <1>2, <1>6, <2>1 DEF ExecuteSerialEvent, eventVars
<1>7. CASE ParallelEventsDone
  <2>1. Range(mParallel) \subseteq ParallelTasks
    BY RangeOfSeq DEF PlaceInv, TypeOK
  <2>2. QED
    BY <1>1, <1>2, <1>7, <2>1 DEF ParallelEventsDone, eventVars
<1>8. ASSUME NEW x \in TimedTasks, ExecuteScheduledEvent(x)
      PROVE  RefTracksLiveEvents'
  BY <1>8 DEF ExecuteScheduledEvent, IsCanceled
<1>9. CASE FinishSerialBody
  BY <1>1, <1>2, <1>9 DEF FinishSerialBody, eventVars
<1>10. CASE FinishTimedBody
  BY <1>1, <1>10 DEF EmplaceBack, FinishTimedBody
<1>11. CASE LoopTop \/ ExecuteEvents \/ SerialEventsDone \/ MergeAsyncEvents
              \/ ExecuteParallelEvents \/ ScheduledEventsDone \/ MergeEvents
  BY <1>3, <1>11 DEF LoopTop, ExecuteEvents, SerialEventsDone,
     MergeAsyncEvents, ExecuteParallelEvents, ScheduledEventsDone,
     MergeEvents, histVars
<1>12. CASE ClearPending \/ RecheckPending \/ Decide \/ Sleep \/ Timeout
  BY <1>3, <1>12 DEF ClearPending, RecheckPending, Decide, Sleep, Timeout,
     histVars
<1>13. ASSUME NEW x \in ParallelTasks, LoadStep(x)
       PROVE  RefTracksLiveEvents'
  BY <1>3, <1>13 DEF LoadStep, StartLoad, ExecuteLoad, SubtractLoad,
     LoadTotal, StoreCompleted, histVars
<1>14. ASSUME NEW t \in Threads, NotifySet(t) \/ NotifyOne(t)
       PROVE  RefTracksLiveEvents'
  BY <1>3, <1>14 DEF NotifySet, NotifyOne, histVars
<1>15. CASE SpuriousWakeup \/ Tick \/ Shutdown \/ UNCHANGED vars
  BY <1>3, <1>15 DEF SpuriousWakeup, Tick, Shutdown, vars, histVars
<1>16. QED
  BY <1>4, <1>5, <1>6, <1>7, <1>8, <1>9, <1>10, <1>11, <1>12, <1>13, <1>14,
     <1>15 DEF Next, LoopStep

\* scheduledTasksRef holds the live scheduled events and nothing else.
THEOREM RefIsExact == Spec => []RefTracksLiveEvents
<1>1. Init => RefTracksLiveEvents
  BY DEF Init, RefTracksLiveEvents
<1>2. PlaceInv /\ RefTracksLiveEvents /\ [Next]_vars => RefTracksLiveEvents'
  BY RefStep
<1>3. QED
  BY <1>1, <1>2, PlaceInvariant, PTL DEF Spec

\* The dispatcher starts the func of no event that stopEvent has canceled.
LEMMA StoppedStep ==
  ASSUME PlaceInv, [Next]_vars
  PROVE  \A x \in canceled : cur' = x => cur = x
<1>1. /\ canceled \subseteq TimedTasks
      /\ SerialTasks \cap TimedTasks = {}
      /\ None \notin TimedTasks
  BY TaskFacts, ConstantsAssumption DEF PlaceInv, TypeOK, ConstantsAssumption
<1>2. CASE cur' = cur \/ cur' = None
  BY <1>1, <1>2
<1>3. CASE ExecuteSerialEvent
  <2>1. Head(mSerial) \in SerialTasks
    BY <1>3, TailRange DEF ExecuteSerialEvent, PlaceInv, TypeOK
  <2>2. QED
    BY <1>1, <1>3, <2>1 DEF ExecuteSerialEvent
<1>4. ASSUME NEW x \in TimedTasks, ExecuteScheduledEvent(x)
      PROVE  \A y \in canceled : cur' = y => cur = y
  BY <1>4 DEF ExecuteScheduledEvent, IsCanceled
<1>5. CASE LoopTop \/ ExecuteEvents \/ SerialEventsDone \/ MergeAsyncEvents
              \/ ExecuteParallelEvents \/ ParallelEventsDone \/ FinishSerialBody
              \/ FinishTimedBody \/ ScheduledEventsDone \/ MergeEvents
  BY <1>2, <1>5 DEF LoopTop, ExecuteEvents, SerialEventsDone,
     MergeAsyncEvents, ExecuteParallelEvents, ParallelEventsDone,
     FinishSerialBody, FinishTimedBody, ScheduledEventsDone, MergeEvents
<1>6. CASE ClearPending \/ RecheckPending \/ Decide \/ Sleep \/ Timeout
  BY <1>2, <1>6 DEF ClearPending, RecheckPending, Decide, Sleep, Timeout
<1>7. ASSUME NEW x \in ParallelTasks, LoadStep(x)
      PROVE  cur' = cur
  BY <1>7 DEF LoadStep, StartLoad, ExecuteLoad, SubtractLoad, LoadTotal,
     StoreCompleted
<1>8. ASSUME NEW t \in Threads, Call(t) \/ NotifySet(t) \/ NotifyOne(t)
      PROVE  cur' = cur
  BY <1>8 DEF Call, AddEvent, AsyncEvent, ScheduleEvent, NotifySet, NotifyOne
<1>9. ASSUME NEW x \in TimedTasks, StopEvent(x)
      PROVE  cur' = cur
  BY <1>9 DEF StopEvent
<1>10. CASE SpuriousWakeup \/ Tick \/ Shutdown \/ UNCHANGED vars
  BY <1>2, <1>10 DEF SpuriousWakeup, Tick, Shutdown, vars
<1>11. QED
  BY <1>2, <1>3, <1>4, <1>5, <1>6, <1>7, <1>8, <1>9, <1>10 DEF Next, LoopStep

\* From stopEvent on, the func of the event does not start again.
THEOREM StoppedStaysStopped == Spec => StoppedNeverRuns
<1>1. PlaceInv /\ [Next]_vars => [\A x \in canceled : cur' = x => cur = x]_vars
  BY StoppedStep
<1>2. QED
  BY <1>1, PlaceInvariant, PTL DEF Spec, StoppedNeverRuns

-----------------------------------------------------------------------------
(***************************************************************************)
(* Sleeping.  Between checkPendingTasks and the read of hasPendingTasks    *)
(* the flag is only ever raised, so a read of FALSE means the merged lists *)
(* are empty.                                                              *)
(***************************************************************************)
MergedEmpty == mSerial = <<>> /\ mParallel = <<>>

SleepInv ==
  /\ NoSleepOnMergedTasks
  /\ dpc = "decide" /\ hasPendingTasks = FALSE => MergedEmpty

\* Every step keeps the dispatcher from sleeping on tasks it has merged.
LEMMA SleepStep ==
  ASSUME TypeOK, SleepInv, [Next]_vars
  PROVE  SleepInv'
<1> USE DEF SleepInv, NoSleepOnMergedTasks, MergedEmpty
<1>1. CASE UNCHANGED <<dpc, mSerial, mParallel, hasPendingTasks>>
  BY <1>1
<1>2. ASSUME NEW t \in Threads, Call(t)
      PROVE  SleepInv'
  BY <1>2 DEF Call, AddEvent, AsyncEvent, ScheduleEvent, NotifyTest, CanCall,
     mainVars, loopVars
<1>3. ASSUME NEW t \in Threads, NotifySet(t) \/ NotifyOne(t)
      PROVE  SleepInv'
  BY <1>3 DEF NotifySet, NotifyOne, mainVars, loopVars
<1>4. ASSUME NEW x \in TimedTasks, StopEvent(x) \/ ExecuteScheduledEvent(x)
      PROVE  SleepInv'
  BY <1>4 DEF StopEvent, ExecuteScheduledEvent, mainVars, loopVars
<1>5. CASE LoopTop \/ ExecuteEvents \/ ExecuteSerialEvent \/ SerialEventsDone
             \/ MergeAsyncEvents
  BY <1>5 DEF LoopTop, ExecuteEvents, ExecuteSerialEvent, SerialEventsDone,
     MergeAsyncEvents
<1>6. CASE ExecuteParallelEvents \/ ParallelEventsDone \/ FinishSerialBody
             \/ FinishTimedBody \/ ScheduledEventsDone \/ MergeEvents
  BY <1>6 DEF ExecuteParallelEvents, ParallelEventsDone, AfterParallel,
     FinishSerialBody, FinishTimedBody, ScheduledEventsDone, MergeEvents
<1>7. CASE ClearPending
  BY <1>7 DEF ClearPending
<1>8. CASE RecheckPending
  <2>1. dpc' = "decide" /\ UNCHANGED <<mSerial, mParallel>>
    BY <1>8 DEF RecheckPending, HasMergedTasks, mainVars
  <2>2. hasPendingTasks' = FALSE => MergedEmpty
    BY <1>8, Zenon DEF RecheckPending, HasMergedTasks
  <2>3. QED
    BY <2>1, <2>2
<1>9. CASE Decide
  <2>1. UNCHANGED <<mSerial, mParallel, hasPendingTasks>> /\ dpc = "decide"
    BY <1>9 DEF Decide, mainVars
  <2>2. \/ dpc' = "top"
        \/ dpc' = "presleep" /\ hasPendingTasks = FALSE
    BY <1>9, Zenon DEF Decide, TypeOK
  <2>3. QED
    BY <2>1, <2>2
<1>10. CASE Sleep \/ Timeout \/ SpuriousWakeup
  BY <1>10 DEF Sleep, Timeout, SpuriousWakeup, mainVars
<1>11. ASSUME NEW x \in ParallelTasks, LoadStep(x)
       PROVE  SleepInv'
  BY <1>1, <1>11 DEF LoadStep, StartLoad, ExecuteLoad, SubtractLoad,
     LoadTotal, StoreCompleted, mainVars, loopVars
<1>12. CASE Tick \/ Shutdown \/ UNCHANGED vars
  BY <1>1, <1>12 DEF Tick, Shutdown, vars, mainVars, loopVars
<1>13. QED
  BY <1>2, <1>3, <1>4, <1>5, <1>6, <1>7, <1>8, <1>9, <1>10, <1>11, <1>12
  DEF Next, LoopStep

\* The dispatcher never sleeps while m_tasks holds a task, however the calls
\* of other threads race with checkPendingTasks.
THEOREM NeverSleepsOnMerged == Spec => []NoSleepOnMergedTasks
<1>1. Init => SleepInv
  BY DEF Init, SleepInv, NoSleepOnMergedTasks
<1>2. TypeOK /\ SleepInv /\ [Next]_vars => SleepInv'
  BY SleepStep
<1>3. SleepInv => NoSleepOnMergedTasks
  BY DEF SleepInv
<1>4. QED
  BY <1>1, <1>2, <1>3, TypeCorrect, PTL DEF Spec

-----------------------------------------------------------------------------
(***************************************************************************)
(* The barrier of executeParallelEvents, in a build in which a late load   *)
(* of an earlier batch cannot reach the locals of the batch in progress.   *)
(* totalTaskSize counts the tasks of the batch that are not yet done, and  *)
(* the last of them is the only one that can let the dispatcher go on.     *)
(***************************************************************************)
Unfinished ==
  {x \in ParallelTasks : stage[x] \in {"posted", "executing", "executed"}}

BarrierInv ==
  /\ IsFiniteSet(Unfinished)
  /\ dpc # "pwait" => Unfinished = {}
  /\ dpc = "pwait" => totalTaskSize = Cardinality(Unfinished)
  /\ dpc = "pwait" /\ isTasksCompleted = TRUE => Unfinished = {}
  /\ \A x \in Range(mParallel) :
       dpc = "pwait" /\ stage[x] = "storing" => Unfinished = {}

\* The steps that change neither the batch nor its frame.
LEMMA BarrierUnchanged ==
  ASSUME BarrierInv, UNCHANGED frameVars,
         \/ UNCHANGED <<dpc, mParallel>>
         \/ dpc # "pwait" /\ dpc' # "pwait"
  PROVE  BarrierInv'
BY DEF BarrierInv, Unfinished, frameVars

\* executeParallelEvents starts with as many unfinished tasks as it counts.
LEMMA BarrierStart ==
  ASSUME PlaceInv, BarrierInv, ExecuteParallelEvents
  PROVE  BarrierInv'
<1>1. CASE mParallel = <<>>
  <2>1. dpc # "pwait" /\ dpc' # "pwait" /\ UNCHANGED frameVars
    BY <1>1 DEF ExecuteParallelEvents, AfterParallel
  <2>2. QED
    BY <2>1, BarrierUnchanged
<1>2. CASE mParallel # <<>>
  <2>1. /\ dpc # "pwait" /\ dpc' = "pwait" /\ mParallel' = mParallel
        /\ totalTaskSize' = Len(mParallel)
        /\ stage' = [x \in ParallelTasks |->
                       IF x \in Range(mParallel) THEN "posted" ELSE stage[x]]
    BY <1>2 DEF ExecuteParallelEvents, mainVars
  <2>2. isTasksCompleted' = FALSE
    BY <1>2, Zenon DEF ExecuteParallelEvents
  <2>3. Range(mParallel) \subseteq ParallelTasks
    BY RangeOfSeq DEF PlaceInv, TypeOK
  <2>4. Unfinished' = Range(mParallel)
    <3>1. \A x \in ParallelTasks \ Range(mParallel) :
             stage[x] \notin {"posted", "executing", "executed"}
      BY <2>1 DEF BarrierInv, Unfinished
    <3>2. QED
      BY <2>1, <2>3, <3>1 DEF Unfinished
  <2>5. IsFiniteSet(Range(mParallel)) /\ Cardinality(Range(mParallel)) = Len(mParallel)
    BY InjectiveCardinality DEF PlaceInv, TypeOK, HeldOnce
  <2>6. \A x \in Range(mParallel) : stage'[x] # "storing"
    BY <2>1, <2>3
  <2>7. QED
    BY <2>1, <2>2, <2>4, <2>5, <2>6 DEF BarrierInv
<1>3. QED
  BY <1>1, <1>2

\* A step of a load: only fetch_sub finishes a task, and a store of TRUE
\* follows a read of zero.
LEMMA BarrierLoad ==
  ASSUME FrameReuse = FALSE, PlaceInv, BarrierInv,
         NEW x \in ParallelTasks, LoadStep(x)
  PROVE  BarrierInv'
<1>1. /\ stage \in [ParallelTasks -> LoadStages]
      /\ UNCHANGED <<dpc, mParallel>>
      /\ Range(mParallel) \subseteq ParallelTasks
  BY RangeOfSeq DEF PlaceInv, TypeOK, LoadStep, StartLoad, ExecuteLoad,
     SubtractLoad, LoadTotal, StoreCompleted, mainVars, loopVars
<1>2. CASE StartLoad(x) \/ ExecuteLoad(x)
  <2>1. /\ Unfinished' = Unfinished
        /\ \A y \in ParallelTasks : stage'[y] = "storing" => stage[y] = "storing"
    BY <1>1, <1>2 DEF StartLoad, ExecuteLoad, Unfinished
  <2>2. UNCHANGED <<totalTaskSize, isTasksCompleted>>
    BY <1>2 DEF StartLoad, ExecuteLoad
  <2>3. QED
    BY <1>1, <2>1, <2>2 DEF BarrierInv
<1>3. CASE SubtractLoad(x)
  <2>1. /\ x \in Unfinished
        /\ Unfinished' = Unfinished \ {x}
        /\ \A y \in ParallelTasks : stage'[y] = "storing" => stage[y] = "storing"
    BY <1>1, <1>3 DEF SubtractLoad, Unfinished
  <2>2. /\ totalTaskSize' = totalTaskSize - 1
        /\ isTasksCompleted' = isTasksCompleted
    BY <1>3 DEF SubtractLoad
  <2>3. /\ IsFiniteSet(Unfinished \ {x})
        /\ Cardinality(Unfinished \ {x}) = Cardinality(Unfinished) - 1
    BY <2>1, FS_RemoveElement DEF BarrierInv
  <2>4. QED
    BY <1>1, <2>1, <2>2, <2>3 DEF BarrierInv
<1>4. CASE LoadTotal(x)
  <2>1. /\ Unfinished' = Unfinished
        /\ \A y \in ParallelTasks \ {x} : stage'[y] = stage[y]
    BY <1>1, <1>4 DEF LoadTotal, Unfinished
  <2>2. UNCHANGED <<totalTaskSize, isTasksCompleted>>
    BY <1>4 DEF LoadTotal
  <2>3. x \in Range(mParallel) /\ dpc = "pwait" /\ stage'[x] = "storing"
           => Unfinished = {}
    <3>1. SUFFICES ASSUME x \in Range(mParallel), dpc = "pwait",
                          stage'[x] = "storing"
                   PROVE  Unfinished = {}
      OBVIOUS
    <3>2. totalTaskSize = 0
      BY <1>1, <1>4, <3>1 DEF LoadTotal, BatchDone, FrameReached
    <3>3. QED
      BY <3>1, <3>2, FS_EmptySet DEF BarrierInv
  <2>4. QED
    BY <1>1, <2>1, <2>2, <2>3 DEF BarrierInv
<1>5. CASE StoreCompleted(x)
  <2>1. /\ Unfinished' = Unfinished
        /\ \A y \in ParallelTasks : stage'[y] = "storing" => stage[y] = "storing"
    BY <1>1, <1>5 DEF StoreCompleted, Unfinished
  <2>2. totalTaskSize' = totalTaskSize /\ stage[x] = "storing"
    BY <1>5 DEF StoreCompleted
  <2>3. isTasksCompleted' = TRUE
          => isTasksCompleted = TRUE \/ (x \in Range(mParallel) /\ dpc = "pwait")
    <3>1. isTasksCompleted \in BOOLEAN
      BY DEF PlaceInv, TypeOK
    <3>2. QED
      BY <1>5, <3>1, Zenon DEF StoreCompleted, FrameReached
  <2>4. QED
    BY <1>1, <2>1, <2>2, <2>3 DEF BarrierInv
<1>6. QED
  BY <1>2, <1>3, <1>4, <1>5 DEF LoadStep

\* Every step keeps the count of the batch right.
LEMMA BarrierStep ==
  ASSUME FrameReuse = FALSE, PlaceInv, BarrierInv, [Next]_vars
  PROVE  BarrierInv'
<1>1. ASSUME NEW t \in Threads, Call(t)
      PROVE  BarrierInv'
  BY <1>1, BarrierUnchanged DEF Call, AddEvent, AsyncEvent, ScheduleEvent,
     mainVars, loopVars
<1>2. ASSUME NEW t \in Threads, NotifySet(t) \/ NotifyOne(t)
      PROVE  BarrierInv'
  BY <1>2, BarrierUnchanged DEF NotifySet, NotifyOne, mainVars, loopVars
<1>3. ASSUME NEW x \in TimedTasks, StopEvent(x) \/ ExecuteScheduledEvent(x)
      PROVE  BarrierInv'
  BY <1>3, BarrierUnchanged DEF StopEvent, ExecuteScheduledEvent, mainVars,
     loopVars
<1>4. CASE LoopTop \/ ExecuteEvents \/ ExecuteSerialEvent \/ SerialEventsDone
             \/ MergeAsyncEvents
  BY <1>4, BarrierUnchanged DEF LoopTop, ExecuteEvents, ExecuteSerialEvent,
     SerialEventsDone, MergeAsyncEvents
<1>5. CASE ExecuteParallelEvents
  BY <1>5, BarrierStart
<1>6. CASE ParallelEventsDone
  <2>1. dpc = "pwait" /\ dpc' # "pwait" /\ stage' = stage
    BY <1>6 DEF ParallelEventsDone, AfterParallel
  <2>2. isTasksCompleted = TRUE
    BY <1>6, Zenon DEF ParallelEventsDone, PlaceInv, TypeOK
  <2>3. QED
    BY <2>1, <2>2 DEF BarrierInv, Unfinished
<1>7. CASE FinishSerialBody \/ FinishTimedBody \/ ScheduledEventsDone
             \/ MergeEvents
  BY <1>7, BarrierUnchanged DEF FinishSerialBody, FinishTimedBody,
     ScheduledEventsDone, MergeEvents
<1>8. CASE ClearPending \/ RecheckPending \/ Decide \/ Sleep \/ Timeout
             \/ SpuriousWakeup
  BY <1>8, BarrierUnchanged DEF ClearPending, RecheckPending, Decide, Sleep,
     Timeout, SpuriousWakeup
<1>9. ASSUME NEW x \in ParallelTasks, LoadStep(x)
      PROVE  BarrierInv'
  BY <1>9, BarrierLoad
<1>10. CASE Tick \/ Shutdown \/ UNCHANGED vars
  BY <1>10, BarrierUnchanged DEF Tick, Shutdown, vars, mainVars, loopVars
<1>11. QED
  BY <1>1, <1>2, <1>3, <1>4, <1>5, <1>6, <1>7, <1>8, <1>9, <1>10
  DEF Next, LoopStep

\* While a task of a batch has not been executed the dispatcher waits: no
\* serial or scheduled event runs beside a parallel one.
THEOREM BarrierHolds ==
  ASSUME FrameReuse = FALSE
  PROVE  Spec => []ParallelBarrier
<1>1. Init => BarrierInv
  <2>1. ASSUME Init PROVE Unfinished = {} /\ dpc # "pwait"
    BY <2>1 DEF Init, Unfinished
  <2>2. QED
    BY <2>1, FS_EmptySet DEF BarrierInv
<1>2. PlaceInv /\ BarrierInv /\ [Next]_vars => BarrierInv'
  BY BarrierStep
<1>3. BarrierInv => ParallelBarrier
  BY DEF BarrierInv, Unfinished, ParallelBarrier
<1>4. QED
  BY <1>1, <1>2, <1>3, PlaceInvariant, PTL DEF Spec

-----------------------------------------------------------------------------
(***************************************************************************)
(* The order of the serial events.                                         *)
(***************************************************************************)

\* A task before another stays so when tasks are put behind them.
LEMMA AheadInLonger ==
  ASSUME NEW S, NEW s \in Seq(S), NEW u \in Seq(S), NEW x, NEW y,
         AheadIn(s, x, y)
  PROVE  AheadIn(s \o u, x, y)
<1>1. Len(s) \in Nat /\ Len(u) \in Nat
  BY LenProperties
<1>2. /\ Len(s \o u) = Len(s) + Len(u)
      /\ \A i \in 1..Len(s) + Len(u) : (s \o u)[i] = IF i <= Len(s) THEN s[i] ELSE u[i - Len(s)]
  BY ConcatProperties
<1>3. PICK m, n \in 1..Len(s) : m < n /\ s[m] = x /\ s[n] = y
  BY DEF AheadIn
<1>4. m \in 1..Len(s) + Len(u) /\ n \in 1..Len(s) + Len(u) /\ m <= Len(s) /\ n <= Len(s)
  BY <1>1, <1>3
<1>5. (s \o u)[m] = x /\ (s \o u)[n] = y
  BY <1>2, <1>3, <1>4
<1>6. QED
  BY <1>2, <1>3, <1>4, <1>5 DEF AheadIn

\* The tasks of a vector come before those that are moved to its end, and these
\* keep their order.
LEMMA AheadInMoved ==
  ASSUME NEW S, NEW s \in Seq(S), NEW u \in Seq(S), NEW x, NEW y,
         (x \in Range(s) /\ y \in Range(u)) \/ AheadIn(u, x, y)
  PROVE  AheadIn(s \o u, x, y)
<1>1. Len(s) \in Nat /\ Len(u) \in Nat /\ DOMAIN s = 1..Len(s) /\ DOMAIN u = 1..Len(u)
  BY LenProperties
<1>2. /\ Len(s \o u) = Len(s) + Len(u)
      /\ \A i \in 1..Len(s) + Len(u) : (s \o u)[i] = IF i <= Len(s) THEN s[i] ELSE u[i - Len(s)]
  BY ConcatProperties
<1>3. \A n \in 1..Len(u) : /\ Len(s) + n \in 1..Len(s) + Len(u) /\ Len(s) + n > Len(s)
                           /\ (s \o u)[Len(s) + n] = u[n]
  <2>1. SUFFICES ASSUME NEW n \in 1..Len(u)
                 PROVE  /\ Len(s) + n \in 1..Len(s) + Len(u) /\ Len(s) + n > Len(s)
                        /\ (s \o u)[Len(s) + n] = u[n]
    OBVIOUS
  <2>2. Len(s) + n \in 1..Len(s) + Len(u) /\ Len(s) + n > Len(s) /\ (Len(s) + n) - Len(s) = n
    BY <1>1
  <2>3. (s \o u)[Len(s) + n] =
          IF Len(s) + n <= Len(s) THEN s[Len(s) + n] ELSE u[(Len(s) + n) - Len(s)]
    BY <1>2, <2>2
  <2>4. QED
    BY <1>1, <2>2, <2>3
<1>4. CASE x \in Range(s) /\ y \in Range(u)
  <2>1. PICK m \in 1..Len(s), n \in 1..Len(u) : s[m] = x /\ u[n] = y
    BY <1>1, <1>4 DEF Range
  <2>2. m \in 1..Len(s) + Len(u) /\ m <= Len(s) /\ m < Len(s) + n
    BY <1>1, <2>1
  <2>3. (s \o u)[m] = x /\ (s \o u)[Len(s) + n] = y
    BY <1>2, <1>3, <2>1, <2>2
  <2>4. QED
    BY <1>2, <1>3, <2>2, <2>3 DEF AheadIn
<1>5. CASE AheadIn(u, x, y)
  <2>1. PICK m, n \in 1..Len(u) : m < n /\ u[m] = x /\ u[n] = y
    BY <1>5 DEF AheadIn
  <2>2. Len(s) + m < Len(s) + n
    BY <1>1, <2>1
  <2>3. QED
    BY <1>2, <1>3, <2>1, <2>2 DEF AheadIn
<1>6. QED
  BY <1>4, <1>5

\* addEvent puts a task behind all that its thread has added.
LEMMA OrderAdded ==
  ASSUME NEW S, NEW added \in Seq(S), NEW merged \in Seq(S), NEW slot \in Seq(S), NEW x \in S,
         ExecutedInOrder(added, merged, slot)
  PROVE  ExecutedInOrder(Append(added, x), merged, Append(slot, x))
<1>1. /\ <<x>> \in Seq(S) /\ Range(<<x>>) = {x}
      /\ Append(slot, x) = slot \o <<x>>
  BY AppendIsConcat DEF Range
<1>2. /\ Range(Append(added, x)) = Range(added) \cup {x}
      /\ Range(Append(slot, x)) = Range(slot) \cup {x}
  BY AppendRange
<1>3. /\ Len(Append(added, x)) = Len(added) + 1 /\ Len(added) \in Nat
      /\ \A i \in 1..Len(added) : Append(added, x)[i] = added[i]
      /\ Append(added, x)[Len(added) + 1] = x
  BY AppendProperties, LenProperties
<1>4. ASSUME NEW y, NEW z, ExecutedBefore(merged, slot, y, z)
      PROVE  ExecutedBefore(merged, Append(slot, x), y, z)
  <2>1. AheadIn(slot, y, z) => AheadIn(Append(slot, x), y, z)
    BY <1>1, AheadInLonger
  <2>2. QED
    BY <1>2, <1>4, <2>1 DEF ExecutedBefore
<1>5. ASSUME NEW y \in Range(added)
      PROVE  ExecutedBefore(merged, Append(slot, x), y, x)
  <2>1. CASE y \in Range(merged)
    BY <1>2, <2>1 DEF ExecutedBefore
  <2>2. CASE y \in Range(slot)
    BY <1>1, <2>2, AheadInMoved DEF ExecutedBefore
  <2>3. QED
    BY <2>1, <2>2 DEF ExecutedInOrder
<1>6. ASSUME NEW i \in 1..Len(Append(added, x)), NEW j \in 1..Len(Append(added, x)), i < j
      PROVE  ExecutedBefore(merged, Append(slot, x), Append(added, x)[i], Append(added, x)[j])
  <2>1. i \in 1..Len(added) /\ (j \in 1..Len(added) \/ j = Len(added) + 1)
    BY <1>3, <1>6
  <2>2. added[i] \in Range(added)
    BY <2>1, LenProperties DEF Range
  <2>3. CASE j \in 1..Len(added)
    <3>1. ExecutedBefore(merged, slot, added[i], added[j])
      BY <1>6, <2>1, <2>3 DEF ExecutedInOrder
    <3>2. QED
      BY <1>3, <1>4, <2>1, <2>3, <3>1
  <2>4. CASE j = Len(added) + 1
    BY <1>3, <1>5, <2>1, <2>2, <2>4
  <2>5. QED
    BY <2>1, <2>3, <2>4
<1>7. QED
  BY <1>2, <1>6 DEF ExecutedInOrder

\* What is left of the tasks that a thread has added when the first merged one is
\* executed.
LeftOf(rest, added, merged) ==
  rest = IF Head(merged) \in Range(added) THEN Tail(added) ELSE added

\* The oldest task of a thread is executed before its others, and leaves both.
LEMMA OrderTaken ==
  ASSUME NEW S, NEW added \in Seq(S), NEW merged \in Seq(S), NEW slot \in Seq(S),
         ExecutedInOrder(added, merged, slot),
         merged # <<>>, IsInjective(merged), \A x \in Range(merged) : x \notin Range(slot),
         NEW rest, LeftOf(rest, added, merged)
  PROVE  /\ ExecutedInOrder(rest, Tail(merged), slot)
         /\ Range(rest) = Range(added) \ {Head(merged)}
<1> DEFINE h == Head(merged)
<1>1. /\ Len(merged) \in Nat \ {0} /\ h = merged[1] /\ DOMAIN merged = 1..Len(merged)
      /\ Tail(merged) \in Seq(S) /\ Len(Tail(merged)) = Len(merged) - 1
      /\ \A i \in 1..Len(Tail(merged)) : Tail(merged)[i] = merged[i + 1]
      /\ Range(merged) = {h} \cup Range(Tail(merged)) /\ h \notin Range(Tail(merged))
  BY HeadTailProperties, EmptySeq, LenProperties, TailRange
<1>2. h \in Range(merged) /\ h \notin Range(slot)
  BY <1>1
<1>3. DOMAIN slot = 1..Len(slot) /\ DOMAIN added = 1..Len(added) /\ Len(added) \in Nat
  BY LenProperties
<1> HIDE DEF h
<1>4. ASSUME NEW y PROVE ~ExecutedBefore(merged, slot, y, h)
  <2>1. ~AheadIn(merged, y, h)
    <3>1. SUFFICES ASSUME NEW m \in 1..Len(merged), NEW n \in 1..Len(merged), m < n, merged[n] = h
                   PROVE  FALSE
      BY DEF AheadIn
    <3>2. n = 1
      BY <1>1, <3>1 DEF IsInjective
    <3>3. QED
      BY <1>1, <3>1, <3>2
  <2>2. ~AheadIn(slot, y, h)
    BY <1>2, <1>3 DEF AheadIn, Range
  <2>3. QED
    BY <1>2, <2>1, <2>2 DEF ExecutedBefore
<1>5. ASSUME NEW y, NEW z, ExecutedBefore(merged, slot, y, z), y # h
      PROVE  ExecutedBefore(Tail(merged), slot, y, z)
  <2>1. CASE AheadIn(merged, y, z)
    <3>1. PICK m, n \in 1..Len(merged) : m < n /\ merged[m] = y /\ merged[n] = z
      BY <2>1 DEF AheadIn
    <3>2. m # 1
      BY <1>1, <1>5, <3>1
    <3>3. /\ m - 1 \in 1..Len(Tail(merged)) /\ n - 1 \in 1..Len(Tail(merged)) /\ m - 1 < n - 1
          /\ (m - 1) + 1 = m /\ (n - 1) + 1 = n
      BY <1>1, <3>1, <3>2
    <3>4. Tail(merged)[m - 1] = y /\ Tail(merged)[n - 1] = z
      BY <1>1, <3>1, <3>3
    <3>5. QED
      BY <3>3, <3>4 DEF ExecutedBefore, AheadIn
  <2>2. CASE y \in Range(merged) /\ z \in Range(slot)
    BY <1>1, <1>5, <2>2 DEF ExecutedBefore
  <2>3. CASE AheadIn(slot, y, z)
    BY <2>3 DEF ExecutedBefore
  <2>4. QED
    BY <1>5, <2>1, <2>2, <2>3 DEF ExecutedBefore
<1>6. CASE h \notin Range(added)
  <2>1. rest = added
    BY <1>6 DEF LeftOf, h
  <2>2. Range(added) \subseteq Range(Tail(merged)) \cup Range(slot)
    BY <1>1, <1>6 DEF ExecutedInOrder
  <2>3. ASSUME NEW i \in 1..Len(added), NEW j \in 1..Len(added), i < j
        PROVE  ExecutedBefore(Tail(merged), slot, added[i], added[j])
    <3>1. added[i] # h
      BY <1>3, <1>6 DEF Range
    <3>2. QED
      BY <1>5, <2>3, <3>1 DEF ExecutedInOrder
  <2>4. ExecutedInOrder(added, Tail(merged), slot)
    BY <2>2, <2>3 DEF ExecutedInOrder
  <2>5. Range(added) = Range(added) \ {h}
    BY <1>6
  <2>6. QED
    BY <2>1, <2>4, <2>5 DEF h
<1>7. CASE h \in Range(added)
  <2>1. rest = Tail(added) /\ added # <<>>
    BY <1>7, EmptyRange DEF LeftOf, h
  <2>2. /\ Len(added) \in Nat \ {0} /\ Tail(added) \in Seq(S) /\ Len(Tail(added)) = Len(added) - 1
        /\ \A i \in 1..Len(Tail(added)) : Tail(added)[i] = added[i + 1]
        /\ Range(added) = {Head(added)} \cup Range(Tail(added)) /\ Head(added) = added[1]
    BY <2>1, HeadTailProperties, EmptySeq, LenProperties, TailRange
  <2>3. added[1] = h
    <3>1. PICK k \in 1..Len(added) : added[k] = h
      BY <1>3, <1>7 DEF Range
    <3>2. ~(1 < k)
      BY <1>4, <2>2, <3>1 DEF ExecutedInOrder
    <3>3. QED
      BY <2>2, <3>1, <3>2
  <2>4. ASSUME NEW i \in 1..Len(added), i > 1 PROVE added[i] # h
    BY <1>4, <2>2, <2>4 DEF ExecutedInOrder
  <2>5. Range(Tail(added)) = Range(added) \ {h}
    <3>1. h \notin Range(Tail(added))
      <4>1. SUFFICES ASSUME NEW i \in 1..Len(Tail(added)), Tail(added)[i] = h PROVE FALSE
        BY <2>2, LenProperties DEF Range
      <4>2. i + 1 \in 1..Len(added) /\ i + 1 > 1
        BY <2>2
      <4>3. QED
        BY <2>2, <2>4, <4>1, <4>2
    <3>2. QED
      BY <2>2, <2>3, <3>1
  <2>6. Range(slot) \subseteq Range(Tail(added))
    BY <1>2, <2>5 DEF ExecutedInOrder
  <2>7. Range(Tail(added)) \subseteq Range(Tail(merged)) \cup Range(slot)
    BY <1>1, <2>5 DEF ExecutedInOrder
  <2>8. ASSUME NEW i \in 1..Len(Tail(added)), NEW j \in 1..Len(Tail(added)), i < j
        PROVE  ExecutedBefore(Tail(merged), slot, Tail(added)[i], Tail(added)[j])
    <3>1. i + 1 \in 1..Len(added) /\ j + 1 \in 1..Len(added) /\ i + 1 < j + 1 /\ i + 1 > 1
      BY <2>2, <2>8
    <3>2. ExecutedBefore(merged, slot, added[i + 1], added[j + 1]) /\ added[i + 1] # h
      BY <2>4, <3>1 DEF ExecutedInOrder
    <3>3. QED
      BY <1>5, <2>2, <3>2
  <2>9. ExecutedInOrder(Tail(added), Tail(merged), slot)
    BY <2>6, <2>7, <2>8 DEF ExecutedInOrder
  <2>10. QED
    BY <2>1, <2>5, <2>9 DEF h
<1>8. QED
  BY <1>6, <1>7

\* mergeEvents moves a thread's own tasks behind the merged ones.
LEMMA OrderMovedOwn ==
  ASSUME NEW S, NEW added \in Seq(S), NEW merged \in Seq(S), NEW slot \in Seq(S),
         ExecutedInOrder(added, merged, slot)
  PROVE  ExecutedInOrder(added, merged \o slot, <<>>)
<1>1. Range(merged \o slot) = Range(merged) \cup Range(slot) /\ Range(<<>>) = {}
  BY ConcatRange, EmptyRange
<1>2. ASSUME NEW y, NEW z, ExecutedBefore(merged, slot, y, z)
      PROVE  ExecutedBefore(merged \o slot, <<>>, y, z)
  BY <1>2, AheadInLonger, AheadInMoved DEF ExecutedBefore
<1>3. QED
  BY <1>1, <1>2 DEF ExecutedInOrder

\* mergeEvents moves the tasks of another thread between.
LEMMA OrderMovedOther ==
  ASSUME NEW S, NEW added \in Seq(S), NEW merged \in Seq(S), NEW slot \in Seq(S),
         NEW other \in Seq(S), ExecutedInOrder(added, merged, slot)
  PROVE  ExecutedInOrder(added, merged \o other, slot)
<1>1. Range(merged \o other) = Range(merged) \cup Range(other)
  BY ConcatRange
<1>2. ASSUME NEW y, NEW z, ExecutedBefore(merged, slot, y, z)
      PROVE  ExecutedBefore(merged \o other, slot, y, z)
  BY <1>1, <1>2, AheadInLonger DEF ExecutedBefore
<1>3. QED
  BY <1>1, <1>2 DEF ExecutedInOrder

\* Every step keeps the order of the serial events.
LEMMA FifoStep ==
  ASSUME PlaceInv, SerialFifoPerThread, [Next]_vars
  PROVE  SerialFifoPerThread'
<1>1. /\ slotSerial \in [Threads -> Seq(SerialTasks)] /\ mSerial \in Seq(SerialTasks)
      /\ order \in [Threads -> Seq(SerialTasks)]
  BY DEF PlaceInv, TypeOK
<1>2. ASSUME UNCHANGED <<slotSerial, mSerial, order>>
      PROVE  SerialFifoPerThread'
  BY <1>2 DEF SerialFifoPerThread
<1>3. ASSUME NEW t \in Threads, NEW x \in SerialTasks, AddEvent(t, x)
      PROVE  SerialFifoPerThread'
  <2>1. /\ slotSerial' = [slotSerial EXCEPT ![t] = Append(@, x)]
        /\ order' = [order EXCEPT ![t] = Append(@, x)]
        /\ mSerial' = mSerial
    BY <1>3 DEF AddEvent, EmplaceBack, mainVars
  <2>2. /\ slotSerial'[t] = Append(slotSerial[t], x) /\ order'[t] = Append(order[t], x)
        /\ \A u \in Threads : u # t => slotSerial'[u] = slotSerial[u] /\ order'[u] = order[u]
    BY <1>1, <2>1
  <2>3. ExecutedInOrder(Append(order[t], x), mSerial, Append(slotSerial[t], x))
    BY <1>1, OrderAdded DEF SerialFifoPerThread
  <2>4. \A u \in Threads : ExecutedInOrder(order'[u], mSerial', slotSerial'[u])
    BY <2>1, <2>2, <2>3 DEF SerialFifoPerThread
  <2>5. \A u \in Threads : Range(order[u]) \subseteq Range(order'[u])
    <3>1. Range(Append(order[t], x)) = Range(order[t]) \cup {x}
      BY <1>1, AppendRange
    <3>2. QED
      BY <2>2, <3>1
  <2>6. QED
    BY <2>1, <2>4, <2>5 DEF SerialFifoPerThread
<1>4. CASE ExecuteSerialEvent
  <2>1. /\ mSerial # <<>> /\ mSerial' = Tail(mSerial) /\ slotSerial' = slotSerial
        /\ order' = [t \in Threads |-> IF Head(mSerial) \in Range(order[t])
                                        THEN Tail(order[t]) ELSE order[t]]
    BY <1>4 DEF ExecuteSerialEvent, slotVars
  <2>2. IsInjective(mSerial) /\ \A t \in Threads : Range(mSerial) \cap Range(slotSerial[t]) = {}
    <3>1. \A t \in Threads : Range(slotSerial[t]) \subseteq Tasks
      BY <1>1, RangeOfSeq, TaskFacts
    <3>2. QED
      BY <3>1 DEF PlaceInv, HeldOnce, InSlot, InMain
  <2>3. ASSUME NEW t \in Threads
        PROVE  /\ ExecutedInOrder(order'[t], mSerial', slotSerial'[t])
               /\ Range(order'[t]) = Range(order[t]) \ {Head(mSerial)}
    <3>1. PICK rest : LeftOf(rest, order[t], mSerial)
      BY DEF LeftOf
    <3>2. /\ order[t] \in Seq(SerialTasks) /\ slotSerial[t] \in Seq(SerialTasks)
          /\ ExecutedInOrder(order[t], mSerial, slotSerial[t])
          /\ \A x \in Range(mSerial) : x \notin Range(slotSerial[t])
      BY <1>1, <2>2 DEF SerialFifoPerThread
    <3>3. /\ ExecutedInOrder(rest, Tail(mSerial), slotSerial[t])
          /\ Range(rest) = Range(order[t]) \ {Head(mSerial)}
      <4>1. mSerial \in Seq(SerialTasks) /\ mSerial # <<>> /\ IsInjective(mSerial)
        BY <1>1, <2>1, <2>2
      <4>2. QED
        BY <3>1, <3>2, <4>1, OrderTaken
    <3>4. order'[t] = rest
      BY <2>1, <3>1 DEF LeftOf
    <3>5. QED
      BY <2>1, <3>3, <3>4
  <2>4. \A x \in Range(mSerial') : x \in Range(mSerial) /\ x # Head(mSerial)
    BY <1>1, <2>1, <2>2, TailRange
  <2>5. QED
    BY <2>3, <2>4 DEF SerialFifoPerThread
<1>5. CASE MergeEvents
  <2>1. PICK c \in Threads : c = cursor
    BY DEF PlaceInv, TypeOK
  <2>2. /\ mSerial' = mSerial \o slotSerial[c] /\ slotSerial'[c] = <<>> /\ order' = order
        /\ \A u \in Threads : u # c => slotSerial'[u] = slotSerial[u]
    BY <1>1, <1>5, <2>1 DEF MergeEvents, Cleared, histVars
  <2>3. ExecutedInOrder(order[c], mSerial \o slotSerial[c], <<>>)
    BY <1>1, OrderMovedOwn DEF SerialFifoPerThread
  <2>4. ASSUME NEW u \in Threads
        PROVE  ExecutedInOrder(order[u], mSerial \o slotSerial[c], slotSerial[u])
    BY <1>1, OrderMovedOther DEF SerialFifoPerThread
  <2>5. \A u \in Threads : ExecutedInOrder(order'[u], mSerial', slotSerial'[u])
    BY <2>2, <2>3, <2>4
  <2>6. Range(mSerial') = Range(mSerial) \cup Range(slotSerial[c])
    BY <1>1, <2>2, ConcatRange
  <2>7. Range(slotSerial[c]) \subseteq Range(order[c])
    BY DEF SerialFifoPerThread, ExecutedInOrder
  <2>8. QED
    BY <2>2, <2>5, <2>6, <2>7 DEF SerialFifoPerThread
<1>6. ASSUME NEW t \in Threads, Call(t)
      PROVE  SerialFifoPerThread'
  <2>1. ASSUME NEW x \in ParallelTasks, AsyncEvent(t, x)
        PROVE  SerialFifoPerThread'
    BY <1>2, <2>1 DEF AsyncEvent, mainVars
  <2>2. ASSUME NEW x \in TimedTasks, ScheduleEvent(t, x)
        PROVE  SerialFifoPerThread'
    BY <1>2, <2>2 DEF ScheduleEvent, mainVars
  <2>3. QED
    BY <1>3, <1>6, <2>1, <2>2 DEF Call
<1>7. ASSUME NEW t \in Threads, NotifySet(t) \/ NotifyOne(t)
      PROVE  SerialFifoPerThread'
  BY <1>2, <1>7 DEF NotifySet, NotifyOne, histVars, slotVars, mainVars
<1>8. ASSUME NEW x \in TimedTasks, StopEvent(x) \/ ExecuteScheduledEvent(x)
      PROVE  SerialFifoPerThread'
  BY <1>2, <1>8 DEF StopEvent, ExecuteScheduledEvent, histVars, slotVars, mainVars
<1>9. CASE LoopTop \/ ExecuteEvents \/ SerialEventsDone \/ MergeAsyncEvents
             \/ ExecuteParallelEvents \/ ParallelEventsDone
  BY <1>2, <1>9 DEF LoopTop, ExecuteEvents, SerialEventsDone, MergeAsyncEvents,
     ExecuteParallelEvents, ParallelEventsDone, histVars, slotVars, mainVars
<1>10. CASE FinishSerialBody \/ FinishTimedBody \/ ScheduledEventsDone
  BY <1>2, <1>10 DEF FinishSerialBody, FinishTimedBody, ScheduledEventsDone, histVars,
     slotVars, mainVars
<1>11. CASE ClearPending \/ RecheckPending \/ Decide \/ Sleep \/ Timeout
  BY <1>2, <1>11 DEF ClearPending, RecheckPending, Decide, Sleep, Timeout, histVars,
     slotVars, mainVars
<1>12. CASE LoopStep
  BY <1>4, <1>5, <1>8, <1>9, <1>10, <1>11, <1>12 DEF LoopStep
<1>13. ASSUME NEW x \in ParallelTasks, LoadStep(x)
       PROVE  SerialFifoPerThread'
  BY <1>2, <1>13 DEF LoadStep, StartLoad, ExecuteLoad, SubtractLoad, LoadTotal, StoreCompleted,
     histVars, slotVars, mainVars
<1>14. CASE SpuriousWakeup \/ Tick \/ Shutdown \/ UNCHANGED vars
  BY <1>2, <1>14 DEF SpuriousWakeup, Tick, Shutdown, vars, histVars, slotVars, mainVars
<1>15. QED
  BY <1>6, <1>7, <1>8, <1>12, <1>13, <1>14 DEF Next

\* For any number of threads and tasks, the serial events of a thread are executed in
\* the order in which it added them: merging slot by slot between the calls of the
\* threads never overtakes.
THEOREM SerialEventsInOrder == Spec => []SerialFifoPerThread
<1>1. Init => SerialFifoPerThread
  <2>1. SUFFICES ASSUME Init PROVE SerialFifoPerThread
    OBVIOUS
  <2>2. /\ mSerial = <<>> /\ \A t \in Threads : order[t] = <<>> /\ slotSerial[t] = <<>>
    BY <2>1 DEF Init
  <2>3. Len(<<>>) = 0
    OBVIOUS
  <2>4. QED
    BY <2>2, <2>3, EmptyRange DEF SerialFifoPerThread, ExecutedInOrder
<1>2. QED
  BY <1>1, FifoStep, PlaceInvariant, PTL DEF Spec

-----------------------------------------------------------------------------
(***************************************************************************)
(* The dispatcher implements EventQueue, for any number of threads and     *)
(* tasks, in a build in which a late load of an earlier batch cannot reach *)
(* the locals of the batch in progress.                                    *)
(***************************************************************************)

\* The loads that are not done are those of the batch in progress.
BatchInv == Unfinished \subseteq Range(mParallel)

QueueInv == PlaceInv /\ RefTracksLiveEvents /\ BarrierInv /\ BatchInv

\* What the steps below need to know of a state.
LEMMA QueueFacts ==
  ASSUME QueueInv
  PROVE  /\ pending \subseteq Tasks /\ canceled \subseteq TimedTasks
         /\ cur \in SerialTasks \cup TimedTasks \cup {None}
         /\ cur # None => cur \in pending
         /\ dpc # "body" => cur = None
         /\ Range(mParallel) \subseteq pending
         /\ Range(mParallel) \subseteq ParallelTasks
         /\ Range(mSerial) \subseteq pending
         /\ scheduledTasks \subseteq pending
         /\ dpc # "pwait" => \A x \in ParallelTasks : stage[x] # "executing"
         /\ runningTasks \subseteq pending
         /\ stage \in [ParallelTasks -> LoadStages]
<1>1. /\ pending \subseteq Tasks /\ canceled \subseteq TimedTasks
      /\ cur \in SerialTasks \cup TimedTasks \cup {None}
      /\ mParallel \in Seq(ParallelTasks) /\ mSerial \in Seq(SerialTasks)
      /\ scheduledTasks \subseteq TimedTasks
      /\ stage \in [ParallelTasks -> LoadStages]
  BY DEF QueueInv, PlaceInv, TypeOK
<1>2. dpc # "body" => cur = None
  BY DEF QueueInv, PlaceInv, CurInBody
<1>3. Range(mParallel) \subseteq ParallelTasks /\ Range(mSerial) \subseteq SerialTasks
  BY <1>1 DEF Range
<1>4. cur # None => cur \in pending
  BY <1>1, TaskFacts DEF QueueInv, PlaceInv, NotLost
<1>5. \A x \in Range(mParallel) \cup Range(mSerial) \cup scheduledTasks : x \in pending
  BY <1>1, <1>3, TaskFacts DEF QueueInv, PlaceInv, NotLost, InMain
<1>6. \A x \in ParallelTasks : stage[x] = "executing" =>
        x \in Range(mParallel) /\ dpc = "pwait"
  BY DEF QueueInv, BarrierInv, BatchInv, Unfinished
<1>7. QED
  BY <1>1, <1>2, <1>3, <1>4, <1>5, <1>6 DEF runningTasks

\* The kinds of tasks are disjoint.
LEMMA Kinds ==
  /\ SerialTasks \cap ParallelTasks = {} /\ SerialTasks \cap TimedTasks = {}
  /\ ParallelTasks \cap TimedTasks = {} /\ DelayedTasks \cap CycleTasks = {}
  /\ CycleTasks \subseteq TimedTasks
  /\ TimedTasks = DelayedTasks \cup CycleTasks
  /\ None \notin Tasks /\ Tasks = SerialTasks \cup ParallelTasks \cup TimedTasks
BY ConstantsAssumption DEF ConstantsAssumption, Tasks, TimedTasks

\* The loads keep to the batch in progress.
LEMMA BatchStep ==
  ASSUME QueueInv, [Next]_vars
  PROVE  BatchInv'
<1>1. CASE UNCHANGED <<stage, mParallel>>
  BY <1>1 DEF QueueInv, BatchInv, Unfinished
<1>2. CASE MergeAsyncEvents \/ ParallelEventsDone
  <2>1. ParallelEventsDone => isTasksCompleted = TRUE
    BY Zenon DEF ParallelEventsDone, QueueInv, PlaceInv, TypeOK
  <2>2. stage' = stage /\ Unfinished = {}
    BY <1>2, <2>1 DEF MergeAsyncEvents, ParallelEventsDone, QueueInv, BarrierInv,
       frameVars
  <2>3. QED
    BY <2>2 DEF BatchInv, Unfinished
<1>3. CASE ExecuteParallelEvents
  <2>1. dpc = "parallel" /\ mParallel' = mParallel
    BY <1>3 DEF ExecuteParallelEvents, mainVars
  <2>2. Unfinished = {}
    BY <2>1 DEF QueueInv, BarrierInv
  <2>3. CASE UNCHANGED frameVars
    BY <2>1, <2>2, <2>3 DEF BatchInv, Unfinished, frameVars
  <2>4. CASE stage' = [x \in ParallelTasks |->
                         IF x \in Range(mParallel) THEN "posted" ELSE stage[x]]
    BY <2>1, <2>2, <2>4 DEF BatchInv, Unfinished
  <2>5. QED
    BY <1>3, <2>3, <2>4 DEF ExecuteParallelEvents
<1>4. ASSUME NEW x \in ParallelTasks, LoadStep(x)
      PROVE  BatchInv'
  <2>1. stage \in [ParallelTasks -> LoadStages] /\ mParallel' = mParallel
    BY <1>4, QueueFacts DEF LoadStep, StartLoad, ExecuteLoad, SubtractLoad,
       LoadTotal, StoreCompleted, mainVars
  <2>2. \/ stage[x] \in {"posted", "executing"}
        \/ stage' \in {[stage EXCEPT ![x] = s] : s \in {"subbed", "storing", "none"}}
    BY <1>4 DEF LoadStep, StartLoad, ExecuteLoad, SubtractLoad, LoadTotal,
       StoreCompleted
  <2>3. \E s : stage' = [stage EXCEPT ![x] = s]
    BY <1>4 DEF LoadStep, StartLoad, ExecuteLoad, SubtractLoad, LoadTotal,
       StoreCompleted
  <2>4. Unfinished' \subseteq Unfinished
    BY <2>1, <2>2, <2>3 DEF Unfinished
  <2>5. QED
    BY <2>1, <2>4 DEF QueueInv, BatchInv
<1>5. ASSUME NEW t \in Threads, Call(t) \/ NotifySet(t) \/ NotifyOne(t)
      PROVE  UNCHANGED <<stage, mParallel>>
  BY <1>5 DEF Call, AddEvent, AsyncEvent, ScheduleEvent, NotifySet, NotifyOne,
     mainVars, frameVars
<1>6. ASSUME NEW x \in TimedTasks, StopEvent(x) \/ ExecuteScheduledEvent(x)
      PROVE  UNCHANGED <<stage, mParallel>>
  BY <1>6 DEF StopEvent, ExecuteScheduledEvent, mainVars, frameVars
<1>7. CASE \/ LoopTop \/ ExecuteEvents \/ ExecuteSerialEvent \/ SerialEventsDone
           \/ FinishSerialBody \/ FinishTimedBody \/ ScheduledEventsDone
           \/ MergeEvents
  BY <1>1, <1>7 DEF LoopTop, ExecuteEvents, ExecuteSerialEvent, SerialEventsDone,
     FinishSerialBody, FinishTimedBody, ScheduledEventsDone, MergeEvents, mainVars,
     frameVars
<1>8. CASE \/ ClearPending \/ RecheckPending \/ Decide \/ Sleep \/ Timeout
           \/ SpuriousWakeup \/ Tick \/ Shutdown \/ UNCHANGED vars
  BY <1>1, <1>8 DEF ClearPending, RecheckPending, Decide, Sleep, Timeout,
     SpuriousWakeup, Tick, Shutdown, vars, mainVars, frameVars
<1>9. QED
  BY <1>1, <1>2, <1>3, <1>4, <1>5, <1>6, <1>7, <1>8 DEF Next, LoopStep

\* A step the queue does not see.
LEMMA QueueStutter ==
  ASSUME UNCHANGED <<pending, cur, canceled, stage>>,
         \/ UNCHANGED <<dpc, mParallel>>
         \/ dpc # "pwait" /\ dpc' # "pwait"
  PROVE  UNCHANGED Queue!eqVars
<1>1. \A x : Loaded(x)' <=> Loaded(x)
  BY DEF Loaded
<1>2. QED
  BY <1>1 DEF Queue!eqVars, queuedTasks, runningTasks

\* addEvent, asyncEvent and scheduleEvent submit.
LEMMA SubmitRefines ==
  ASSUME QueueInv, NEW x \in Tasks, x \notin pending,
         pending' = pending \cup {x},
         UNCHANGED <<cur, canceled, stage, dpc, mParallel>>
  PROVE  Queue!Submit(x)
<1>1. x \notin queuedTasks \cup runningTasks /\ cur # x /\ ~Loaded(x)
  BY QueueFacts, Kinds DEF queuedTasks, Loaded
<1>2. \A y : Loaded(y)' <=> Loaded(y)
  BY DEF Loaded
<1>3. queuedTasks' = queuedTasks \cup {x} /\ UNCHANGED runningTasks
  BY <1>1, <1>2 DEF queuedTasks, runningTasks
<1>4. QED
  BY <1>1, <1>3 DEF Queue!Submit

\* A task taken from the dispatcher's lists, to be run or dropped.
LEMMA TakeRefines ==
  ASSUME QueueInv, dpc \notin {"pwait", "body"}, dpc' # "pwait",
         NEW x \in SerialTasks \cup TimedTasks, x \in pending, UNCHANGED stage,
         \/ /\ cur' = x /\ x \notin canceled
            /\ UNCHANGED <<pending, canceled>>
         \/ /\ UNCHANGED cur /\ x \in ExpiringTasks \cup canceled
            /\ pending' = pending \ {x} /\ canceled' = canceled \ {x}
  PROVE  Queue!Start(x) \/ Queue!Drop(x)
<1>1. /\ cur = None /\ x # None
      /\ \A y \in ParallelTasks : stage[y] # "executing"
  BY QueueFacts, Kinds
<1>2. \A y : ~Loaded(y) /\ ~Loaded(y)'
  BY DEF Loaded
<1>3. runningTasks = {} /\ queuedTasks = pending
  BY <1>1, <1>2, QueueFacts, Kinds DEF runningTasks, queuedTasks
<1>4. CASE cur' = x /\ x \notin canceled /\ UNCHANGED <<pending, canceled>>
  <2>1. runningTasks' = {x} /\ queuedTasks' = pending \ {x}
    BY <1>1, <1>2, <1>4 DEF runningTasks, queuedTasks
  <2>2. QED
    BY <1>3, <1>4, <2>1 DEF Queue!Start
<1>5. CASE /\ UNCHANGED cur /\ x \in ExpiringTasks \cup canceled
           /\ pending' = pending \ {x} /\ canceled' = canceled \ {x}
  <2>1. runningTasks' = {} /\ queuedTasks' = pending \ {x}
    BY <1>1, <1>2, <1>5, QueueFacts, Kinds DEF runningTasks, queuedTasks
  <2>2. QED
    BY <1>3, <1>5, <2>1 DEF Queue!Drop
<1>6. QED
  BY <1>4, <1>5

\* The func of a serial or scheduled task returns.
LEMMA FinishRefines ==
  ASSUME QueueInv, dpc = "body", dpc' # "pwait", cur # None, cur' = None,
         UNCHANGED stage,
         \/ cur \in CycleTasks /\ UNCHANGED <<pending, canceled>>
         \/ /\ cur \notin CycleTasks
            /\ pending' = pending \ {cur} /\ canceled' = canceled \ {cur}
  PROVE  Queue!Finish(cur)
<1>1. /\ cur \in pending /\ None \notin pending
      /\ \A y \in ParallelTasks : stage[y] # "executing"
  BY QueueFacts, Kinds
<1>2. \A y : ~Loaded(y) /\ ~Loaded(y)'
  BY DEF Loaded
<1>3. runningTasks = {cur} /\ runningTasks' = {}
  BY <1>1 DEF runningTasks
<1>4. queuedTasks = pending \ {cur} /\ queuedTasks' = pending'
  BY <1>1, <1>2 DEF queuedTasks
<1>5. QED
  BY <1>1, <1>3, <1>4 DEF Queue!Finish

\* The batch of executeParallelEvents begins and ends unseen.
LEMMA BatchRefines ==
  ASSUME QueueInv, ExecuteParallelEvents \/ ParallelEventsDone
  PROVE  UNCHANGED Queue!eqVars
<1>1. CASE ExecuteParallelEvents
  <2>1. /\ dpc = "parallel" /\ UNCHANGED <<mParallel, cur, pending, canceled>>
        /\ \/ dpc' # "pwait" /\ UNCHANGED stage
           \/ /\ dpc' = "pwait"
              /\ stage' = [x \in ParallelTasks |->
                            IF x \in Range(mParallel) THEN "posted" ELSE stage[x]]
    BY <1>1 DEF ExecuteParallelEvents, AfterParallel, mainVars, frameVars,
       eventVars, histVars
  <2>2. \A x : ~Loaded(x) /\ ~Loaded(x)'
    BY <2>1 DEF Loaded
  <2>3. \A x \in ParallelTasks : stage[x] # "executing" /\ stage'[x] # "executing"
    BY <2>1, QueueFacts
  <2>4. QED
    BY <2>1, <2>2, <2>3 DEF queuedTasks, runningTasks, Queue!eqVars
<1>2. CASE ParallelEventsDone
  <2>1. /\ dpc = "pwait" /\ dpc' # "pwait" /\ UNCHANGED <<stage, cur, canceled>>
        /\ pending' = pending \ Range(mParallel)
    BY <1>2 DEF ParallelEventsDone, AfterParallel, eventVars
  <2>2. isTasksCompleted = TRUE
    BY <1>2, Zenon DEF ParallelEventsDone, QueueInv, PlaceInv, TypeOK
  <2>3. Unfinished = {}
    BY <2>1, <2>2 DEF QueueInv, BarrierInv
  <2>4. \A x \in ParallelTasks : stage[x] \notin {"posted", "executing"}
    BY <2>3 DEF Unfinished
  <2>5. \A x : ~Loaded(x)' /\ (Loaded(x) <=> x \in Range(mParallel))
    BY <2>1, <2>4, QueueFacts DEF Loaded
  <2>6. QED
    BY <2>1, <2>4, <2>5 DEF queuedTasks, runningTasks, Queue!eqVars
<1>3. QED
  BY <1>1, <1>2

\* A load starts its task, finishes it, and then does what nobody sees.
LEMMA LoadRefines ==
  ASSUME QueueInv, NEW x \in ParallelTasks, LoadStep(x)
  PROVE  Queue!Start(x) \/ Queue!Finish(x) \/ UNCHANGED Queue!eqVars
<1>1. /\ UNCHANGED <<pending, cur, canceled, dpc, mParallel>>
      /\ stage \in [ParallelTasks -> LoadStages]
  BY QueueFacts DEF LoadStep, StartLoad, ExecuteLoad, SubtractLoad, LoadTotal,
     StoreCompleted, mainVars, loopVars, eventVars, histVars
<1>2. \A s : stage' = [stage EXCEPT ![x] = s] =>
        stage'[x] = s /\ \A y \in ParallelTasks \ {x} : stage'[y] = stage[y]
  BY <1>1
<1>3. /\ x \notin canceled /\ x \notin CycleTasks /\ x # cur
      /\ x \notin SerialTasks \cup TimedTasks
  BY QueueFacts, Kinds
<1>4. stage[x] \in {"posted", "executing"} =>
        /\ dpc = "pwait" /\ cur = None
        /\ x \in Range(mParallel) /\ x \in pending
  BY QueueFacts DEF QueueInv, BarrierInv, BatchInv, Unfinished
<1>5. \A y : y # x /\ (\A z \in ParallelTasks \ {x} : stage'[z] = stage[z]) =>
        (Loaded(y)' <=> Loaded(y))
  BY <1>1 DEF Loaded
<1>6. CASE StartLoad(x)
  <2>1. stage[x] = "posted" /\ stage' = [stage EXCEPT ![x] = "executing"]
    BY <1>6 DEF StartLoad
  <2>2. ~Loaded(x) /\ Loaded(x)'
    BY <1>1, <1>2, <1>4, <2>1 DEF Loaded
  <2>3. x \in queuedTasks /\ queuedTasks' = queuedTasks \ {x}
    BY <1>1, <1>2, <1>3, <1>4, <1>5, <2>1, <2>2 DEF queuedTasks
  <2>4. runningTasks \subseteq ParallelTasks /\ runningTasks' = runningTasks \cup {x}
    BY <1>1, <1>2, <1>4, <2>1 DEF runningTasks
  <2>5. QED
    BY <1>1, <1>3, <2>3, <2>4 DEF Queue!Start
<1>7. CASE ExecuteLoad(x)
  <2>1. stage[x] = "executing" /\ stage' = [stage EXCEPT ![x] = "executed"]
    BY <1>7 DEF ExecuteLoad
  <2>2. Loaded(x) /\ Loaded(x)'
    BY <1>1, <1>2, <1>4, <2>1 DEF Loaded
  <2>3. queuedTasks' = queuedTasks
    BY <1>1, <1>2, <1>5, <2>1, <2>2 DEF queuedTasks
  <2>4. x \in runningTasks /\ runningTasks' = runningTasks \ {x}
    BY <1>1, <1>2, <1>3, <2>1 DEF runningTasks
  <2>5. QED
    BY <1>1, <1>3, <2>3, <2>4 DEF Queue!Finish
<1>8. CASE SubtractLoad(x) \/ LoadTotal(x) \/ StoreCompleted(x)
  <2>1. /\ stage[x] \notin {"posted", "executing"}
        /\ \E s \in {"subbed", "storing", "none"} : stage' = [stage EXCEPT ![x] = s]
    BY <1>8 DEF SubtractLoad, LoadTotal, StoreCompleted
  <2>2. /\ stage'[x] \notin {"posted", "executing"}
        /\ \A y \in ParallelTasks \ {x} : stage'[y] = stage[y]
    BY <1>2, <2>1
  <2>3. Loaded(x)' <=> Loaded(x)
    BY <1>1, <2>1, <2>2 DEF Loaded
  <2>4. QED
    BY <1>1, <1>5, <2>1, <2>2, <2>3 DEF queuedTasks, runningTasks, Queue!eqVars
<1>9. QED
  BY <1>6, <1>7, <1>8 DEF LoadStep

\* Every step of the dispatcher is a step of the queue or none.
LEMMA QueueRefines ==
  ASSUME QueueInv, [Next]_vars
  PROVE  [Queue!Next]_(Queue!eqVars)
<1> USE Kinds
<1>1. ASSUME NEW t \in Threads, Call(t)
      PROVE  Queue!Next
  <2>1. \E x \in Tasks :
          /\ x \notin pending /\ pending' = pending \cup {x}
          /\ UNCHANGED <<cur, canceled, stage, dpc, mParallel>>
    BY <1>1 DEF Call, AddEvent, AsyncEvent, ScheduleEvent, mainVars, eventVars,
       frameVars, loopVars
  <2>2. QED
    BY <2>1, SubmitRefines DEF Queue!Next
<1>2. ASSUME NEW t \in Threads, NotifySet(t) \/ NotifyOne(t)
      PROVE  UNCHANGED Queue!eqVars
  BY <1>2, QueueStutter DEF NotifySet, NotifyOne, mainVars, eventVars, frameVars,
     loopVars, histVars
<1>3. ASSUME NEW x \in TimedTasks, StopEvent(x)
      PROVE  Queue!Next
  <2>1. /\ x \in pending /\ canceled' = canceled \cup {x}
        /\ UNCHANGED <<pending, cur, stage, dpc, mParallel>>
    BY <1>3 DEF StopEvent, QueueInv, RefTracksLiveEvents, mainVars, frameVars,
       loopVars, histVars
  <2>2. \A y : Loaded(y)' <=> Loaded(y)
    BY <2>1 DEF Loaded
  <2>3. UNCHANGED <<queuedTasks, runningTasks>>
    BY <2>1, <2>2 DEF queuedTasks, runningTasks
  <2>4. x \in queuedTasks \cup runningTasks
    BY <2>1 DEF queuedTasks, runningTasks, Loaded
  <2>5. Queue!Stop(x)
    BY <2>1, <2>3, <2>4 DEF Queue!Stop
  <2>6. QED
    BY <2>5 DEF Queue!Next
<1>4. CASE ExecuteSerialEvent
  <2> DEFINE x == Head(mSerial)
  <2>1. x \in SerialTasks /\ x \in Range(mSerial)
    BY <1>4, TailRange DEF ExecuteSerialEvent, QueueInv, PlaceInv, TypeOK
  <2>2. x \in pending /\ x \notin canceled
    BY <2>1, QueueFacts
  <2>3. /\ dpc = "serial" /\ dpc' # "pwait" /\ UNCHANGED <<stage, canceled>>
        /\ \/ cur' = x /\ UNCHANGED pending
           \/ /\ cur' = None /\ x \in ExpiringTasks
              /\ pending' = pending \ {x}
    BY <1>4 DEF ExecuteSerialEvent, frameVars, eventVars
  <2>4. cur = None /\ canceled' = canceled \ {x}
    BY <2>2, <2>3, QueueFacts
  <2> HIDE DEF x
  <2>5. Queue!Start(x) \/ Queue!Drop(x)
    BY <2>1, <2>2, <2>3, <2>4, TakeRefines
  <2>6. QED
    BY <2>1, <2>5 DEF Queue!Next
<1>5. ASSUME NEW x \in TimedTasks, ExecuteScheduledEvent(x)
      PROVE  Queue!Next
  <2>1. /\ dpc = "scheduled" /\ dpc' # "pwait" /\ UNCHANGED stage
        /\ x \in scheduledTasks
        /\ \/ cur' = x /\ x \notin canceled /\ UNCHANGED <<pending, canceled>>
           \/ /\ UNCHANGED cur /\ x \in canceled
              /\ pending' = pending \ {x} /\ canceled' = canceled \ {x}
    BY <1>5 DEF ExecuteScheduledEvent, IsCanceled, Earliest, frameVars
  <2>2. x \in pending
    BY <2>1, QueueFacts
  <2>3. Queue!Start(x) \/ Queue!Drop(x)
    BY <2>1, <2>2, TakeRefines
  <2>4. QED
    BY <2>3 DEF Queue!Next
<1>6. CASE FinishSerialBody \/ FinishTimedBody
  <2>1. /\ dpc = "body" /\ dpc' # "pwait" /\ cur' = None /\ UNCHANGED stage
        /\ cur \in SerialTasks \cup TimedTasks
    BY <1>6 DEF FinishSerialBody, FinishTimedBody, frameVars
  <2>2. \/ cur \in CycleTasks /\ UNCHANGED <<pending, canceled>>
        \/ /\ cur \notin CycleTasks
           /\ pending' = pending \ {cur} /\ canceled' = canceled \ {cur}
    <3>1. CASE FinishSerialBody
      BY <3>1, QueueFacts DEF FinishSerialBody, eventVars
    <3>2. CASE FinishTimedBody
      BY <3>2 DEF FinishTimedBody
    <3>3. QED
      BY <1>6, <3>1, <3>2
  <2>3. Queue!Finish(cur)
    BY <2>1, <2>2, FinishRefines
  <2>4. QED
    BY <2>1, <2>3 DEF Queue!Next
<1>7. CASE ExecuteParallelEvents \/ ParallelEventsDone
  BY <1>7, BatchRefines
<1>8. ASSUME NEW x \in ParallelTasks, LoadStep(x)
      PROVE  [Queue!Next]_(Queue!eqVars)
  BY <1>8, LoadRefines DEF Queue!Next
<1>9. CASE LoopTop \/ ExecuteEvents \/ SerialEventsDone \/ MergeAsyncEvents
             \/ ScheduledEventsDone \/ MergeEvents
  BY <1>9, QueueStutter DEF LoopTop, ExecuteEvents, SerialEventsDone,
     MergeAsyncEvents, ScheduledEventsDone, MergeEvents, mainVars, eventVars,
     frameVars, histVars
<1>10. CASE \/ ClearPending \/ RecheckPending \/ Decide \/ Sleep \/ Timeout
            \/ SpuriousWakeup \/ Tick \/ Shutdown \/ UNCHANGED vars
  BY <1>10, QueueStutter DEF ClearPending, RecheckPending, Decide, Sleep, Timeout,
     SpuriousWakeup, Tick, Shutdown, vars, mainVars, eventVars, frameVars, loopVars,
     histVars
<1>11. QED
  BY <1>1, <1>2, <1>3, <1>4, <1>5, <1>6, <1>7, <1>8, <1>9, <1>10
  DEF Next, LoopStep

\* The initial state of the dispatcher is that of the queue.
LEMMA QueueInit == Init => BarrierInv /\ BatchInv /\ Queue!Init
<1>1. ASSUME Init
      PROVE  /\ Unfinished = {} /\ dpc # "pwait"
             /\ pending = {} /\ cur = None /\ canceled = {}
             /\ \A x \in ParallelTasks : stage[x] = "none"
  BY <1>1 DEF Init, Unfinished
<1>2. QED
  BY <1>1, FS_EmptySet
  DEF BarrierInv, BatchInv, Queue!Init, queuedTasks, runningTasks

\* The dispatcher implements the queue: it runs every submitted event at most
\* once, runs serial and scheduled events alone, and drops an event only when it
\* has expired or was stopped, for any number of threads and events.
THEOREM DispatcherRefinesQueue ==
  ASSUME FrameReuse = FALSE
  PROVE  Spec => ImplementsEventQueue
<1>1. Init => RefTracksLiveEvents
  BY DEF Init, RefTracksLiveEvents
<1>2. PlaceInv /\ RefTracksLiveEvents /\ BarrierInv /\ BatchInv /\ [Next]_vars
        => RefTracksLiveEvents' /\ BarrierInv' /\ BatchInv'
  BY RefStep, BarrierStep, BatchStep DEF QueueInv
<1>3. PlaceInv /\ RefTracksLiveEvents /\ BarrierInv /\ BatchInv /\ [Next]_vars
        => [Queue!Next]_(Queue!eqVars)
  BY QueueRefines DEF QueueInv
<1>4. QED
  BY <1>1, <1>2, <1>3, QueueInit, PlaceInvariant, PTL
  DEF Spec, ImplementsEventQueue, Queue!EventQueueSpec
=============================================================================
