--------------------------- MODULE SchedulerProofs ---------------------------
(***************************************************************************)
(* Proofs about the scheduler, for any set of tasks, any delays and any    *)
(* number of event ids.                                                    *)
(***************************************************************************)
EXTENDS Scheduler, FiniteSetTheorems, TLAPS

USE SchedulerAssumption

\* The clock, the ids and the queue keep their types.
THEOREM TypeCorrect == Spec => []TypeOK
<1>1. Init => TypeOK
  <2> SUFFICES ASSUME Init PROVE TypeOK
    OBVIOUS
  <2>1. lastEvent \in 0 .. MaxEventId /\ eventId \in [Task -> 0 .. MaxEventId]
    BY DEF Init
  <2> QED BY <2>1 DEF Init, TypeOK, Statuses, PCs
<1>2. TypeOK /\ [Next]_vars => TypeOK'
  <2> SUFFICES ASSUME TypeOK, [Next]_vars PROVE TypeOK'
    OBVIOUS
  <2> USE DEF TypeOK, Statuses, PCs
  <2>1. ASSUME NEW t \in Task, NEW d \in Delays, AddEvent(t, d)
        PROVE  TypeOK'
    <3>1. NextId \in 1 .. MaxEventId
      BY DEF NextId
    <3>2. DueTime(d) \in Nat
      BY DEF DueTime
    <3> QED BY <2>1, <3>1, <3>2 DEF AddEvent
  <2>2. ASSUME NEW t \in Task, RefuseEvent(t) PROVE TypeOK'
    BY <2>2 DEF RefuseEvent
  <2>3. ASSUME NEW t \in Task, NotifyOne(t) PROVE TypeOK'
    BY <2>3 DEF NotifyOne
  <2>4. ASSUME NEW t \in Task, StopEvent(t) PROVE TypeOK'
    BY <2>4 DEF StopEvent
  <2>5. CASE Stop
    BY <2>5 DEF Stop
  <2>6. CASE Shutdown
    BY <2>6 DEF Shutdown
  <2>7. CASE LoopTest
    BY <2>7 DEF LoopTest
  <2>8. CASE Sleep
    BY <2>8 DEF Sleep, Tops, Queued
  <2>9. CASE TakeTop
    BY <2>9 DEF TakeTop, Pop
  <2>10. CASE TakeFromEmpty
    BY <2>10 DEF TakeFromEmpty
  <2>11. CASE AwakeTerminated
    BY <2>11 DEF AwakeTerminated
  <2>12. CASE HandOver
    BY <2>12 DEF HandOver
  <2>13. CASE Tick
    BY <2>13 DEF Tick
  <2>14. CASE SpuriousWakeup
    BY <2>14 DEF SpuriousWakeup
  <2>15. CASE UNCHANGED vars
    BY <2>15 DEF vars
  <2> QED
    BY <2>1, <2>2, <2>3, <2>4, <2>5, <2>6, <2>7, <2>8, <2>9, <2>10, <2>11,
       <2>12, <2>13, <2>14, <2>15 DEF Next, Thread
<1> QED BY <1>1, <1>2, PTL DEF Spec

-----------------------------------------------------------------------------
\* What makes StoppedNeverRuns inductive.  Until the ids start over, an id
\* names one task, ids are given out in increasing order, and an id is active
\* exactly as long as its task is queued and not stopped.
Numbered(t) == status[t] \notin {"new", "refused"}

IdsGiven ==
  /\ \A t \in Task : Numbered(t) <=> eventId[t] # 0
  /\ stopped \subseteq {t \in Task : Numbered(t)}
IdsIncrease == ~wrapped => \A t \in Task : eventId[t] <= lastEvent
IdsUnique ==
  ~wrapped => \A t, u \in Task :
                Numbered(t) /\ eventId[t] = eventId[u] => t = u
ActiveMeansQueued ==
  ~wrapped => \A t \in Task : eventId[t] \in eventIds => status[t] = "queued"
StoppedMeansInactive ==
  ~wrapped => \A t \in stopped : eventId[t] \notin eventIds

IdInv ==
  /\ IdsGiven
  /\ IdsIncrease
  /\ IdsUnique
  /\ ActiveMeansQueued
  /\ StoppedMeansInactive
  /\ UnstoppedStaysActive
  /\ StoppedNeverRuns

\* The part of IdInv that reads no more than these variables survives a step
\* that leaves them alone.
LEMMA IdInvFrame ==
  ASSUME IdInv, UNCHANGED <<lastEvent, eventIds, eventId, status, stopped,
                            wrapped>>
  PROVE  IdInv'
BY DEF IdInv, IdsGiven, IdsIncrease, IdsUnique, ActiveMeansQueued,
       StoppedMeansInactive, UnstoppedStaysActive, StoppedNeverRuns,
       Numbered, Queued

LEMMA IdInvStep == TypeOK /\ IdInv /\ [Next]_vars => IdInv'
<1> SUFFICES ASSUME TypeOK, IdInv, [Next]_vars PROVE IdInv'
  OBVIOUS
<1> USE DEF IdInv, IdsGiven, IdsIncrease, IdsUnique, ActiveMeansQueued,
            StoppedMeansInactive, UnstoppedStaysActive, StoppedNeverRuns,
            Numbered, Queued, TypeOK, Statuses
<1>1. ASSUME NEW t \in Task, NEW d \in Delays, AddEvent(t, d) PROVE IdInv'
  <2>1. NextId \in 1 .. MaxEventId
    BY DEF NextId
  <2>2. ~wrapped' => ~wrapped /\ NextId = lastEvent + 1 /\ lastEvent' = NextId
    BY <1>1 DEF AddEvent, NextId
  <2>3. ~wrapped' => \A u \in Task : eventId[u] # NextId
    BY <2>2
  <2>4. /\ status' = [status EXCEPT ![t] = "queued"]
        /\ eventId' = [eventId EXCEPT ![t] = NextId]
        /\ eventIds' = eventIds \union {NextId}
        /\ stopped' = stopped
        /\ t \notin stopped
    BY <1>1 DEF AddEvent
  <2>5. IdsGiven'
    BY <2>1, <2>4, <1>1 DEF AddEvent
  <2>6. IdsIncrease'
    BY <2>2, <2>4
  <2>7. IdsUnique'
    BY <2>2, <2>3, <2>4, <1>1 DEF AddEvent
  <2>8. ActiveMeansQueued'
    BY <2>2, <2>3, <2>4
  <2>9. StoppedMeansInactive'
    BY <2>2, <2>3, <2>4
  <2>10. UnstoppedStaysActive' /\ StoppedNeverRuns'
    BY <2>2, <2>3, <2>4
  <2> QED BY <2>5, <2>6, <2>7, <2>8, <2>9, <2>10
<1>2. ASSUME NEW t \in Task, RefuseEvent(t) PROVE IdInv'
  BY <1>2 DEF RefuseEvent
<1>3. ASSUME NEW t \in Task, NotifyOne(t) PROVE IdInv'
  BY <1>3, IdInvFrame DEF NotifyOne
<1>4. ASSUME NEW t \in Task, StopEvent(t) PROVE IdInv'
  <2>1. ~wrapped => \A u \in Task : eventId[u] = eventId[t] => u = t
    BY <1>4 DEF StopEvent
  <2> QED BY <1>4, <2>1 DEF StopEvent
<1>5. CASE Stop
  BY <1>5, IdInvFrame DEF Stop
<1>6. CASE Shutdown
  BY <1>6 DEF Shutdown
<1>7. CASE LoopTest
  BY <1>7, IdInvFrame DEF LoopTest
<1>8. CASE Sleep
  BY <1>8, IdInvFrame DEF Sleep
<1>9. CASE TakeTop
  <2>1. PICK t \in Task : status[t] = "queued" /\ Pop(t)
    BY <1>9 DEF TakeTop, Tops
  <2>2. ~wrapped => \A u \in Task : eventId[u] = eventId[t] => u = t
    BY <2>1
  <2>3. UNCHANGED <<eventId, lastEvent, stopped, wrapped>>
    BY <1>9 DEF TakeTop
  <2> QED BY <2>1, <2>2, <2>3 DEF Pop
<1>10. CASE TakeFromEmpty
  BY <1>10, IdInvFrame DEF TakeFromEmpty
<1>11. CASE AwakeTerminated
  BY <1>11, IdInvFrame DEF AwakeTerminated
<1>12. CASE HandOver
  BY <1>12 DEF HandOver
<1>13. CASE Tick
  BY <1>13, IdInvFrame DEF Tick
<1>14. CASE SpuriousWakeup
  BY <1>14, IdInvFrame DEF SpuriousWakeup
<1>15. CASE UNCHANGED vars
  BY <1>15, IdInvFrame DEF vars
<1> QED
  BY <1>1, <1>2, <1>3, <1>4, <1>5, <1>6, <1>7, <1>8, <1>9, <1>10, <1>11,
     <1>12, <1>13, <1>14, <1>15 DEF Next, Thread

LEMMA IdInvHolds == Spec => []IdInv
<1>1. Init => IdInv
  BY DEF Init, IdInv, IdsGiven, IdsIncrease, IdsUnique, ActiveMeansQueued,
         StoppedMeansInactive, UnstoppedStaysActive, StoppedNeverRuns,
         Numbered, Queued
<1> QED BY <1>1, IdInvStep, TypeCorrect, PTL DEF Spec

\* For any number of events, delays and ids: an event that stopEvent took away is
\* never run, and one that nobody stopped keeps its id and is run, not deleted.
THEOREM StopsDecide == Spec => []StopsAreHonoured
<1>1. IdInv => StopsAreHonoured
  BY DEF IdInv, StopsAreHonoured
<1> QED BY <1>1, IdInvHolds, PTL

-----------------------------------------------------------------------------
\* The thread never sleeps past an event: either a notify is on its way or
\* nothing in the queue is earlier than what it waits for.
THEOREM NoWakeupIsLost == Spec => []NoLostWakeup
<1>1. Init => NoLostWakeup
  BY DEF Init, NoLostWakeup
<1>2. TypeOK /\ NoLostWakeup /\ [Next]_vars => NoLostWakeup'
  <2> SUFFICES ASSUME TypeOK, NoLostWakeup, [Next]_vars PROVE NoLostWakeup'
    OBVIOUS
  <2> USE DEF TypeOK, NoLostWakeup, Queued
  <2>1. ASSUME NEW t \in Task, NEW d \in Delays, AddEvent(t, d)
        PROVE  NoLostWakeup'
    <3>1. Queued' = Queued \union {t} /\ pc' = pc /\ deadline' = deadline
      BY <2>1 DEF AddEvent
    <3>2. DueTime(d) \in Nat
      BY DEF DueTime
    <3>3. \A u \in Task : expiration'[u] = IF u = t THEN DueTime(d)
                                                    ELSE expiration[u]
      BY <2>1 DEF AddEvent
    <3>4. CASE BecomesTop(DueTime(d))
      BY <2>1, <3>4 DEF AddEvent
    <3>5. CASE ~BecomesTop(DueTime(d))
      <4>1. PICK u \in Task : status[u] = "queued" /\ expiration[u] <= DueTime(d)
        BY <3>2, <3>5 DEF BecomesTop
      <4>2. notifying' = notifying
        BY <2>1, <3>5 DEF AddEvent
      <4> QED BY <3>1, <3>2, <3>3, <4>1, <4>2
    <3> QED BY <3>4, <3>5
  <2>2. ASSUME NEW t \in Task, RefuseEvent(t) PROVE NoLostWakeup'
    BY <2>2 DEF RefuseEvent
  <2>3. ASSUME NEW t \in Task, NotifyOne(t) PROVE NoLostWakeup'
    BY <2>3 DEF NotifyOne
  <2>4. ASSUME NEW t \in Task, StopEvent(t) PROVE NoLostWakeup'
    BY <2>4 DEF StopEvent
  <2>5. CASE Stop
    BY <2>5 DEF Stop
  <2>6. CASE Shutdown
    BY <2>6 DEF Shutdown
  <2>7. CASE Sleep
    BY <2>7 DEF Sleep, Tops
  <2>8. CASE LoopTest \/ TakeTop \/ TakeFromEmpty \/ AwakeTerminated \/ HandOver
    BY <2>8 DEF LoopTest, TakeTop, TakeFromEmpty, AwakeTerminated, HandOver
  <2>9. CASE Tick
    BY <2>9 DEF Tick
  <2>10. CASE SpuriousWakeup
    BY <2>10 DEF SpuriousWakeup
  <2>11. CASE UNCHANGED vars
    BY <2>11 DEF vars
  <2> QED
    BY <2>1, <2>2, <2>3, <2>4, <2>5, <2>6, <2>7, <2>8, <2>9, <2>10, <2>11
    DEF Next, Thread
<1> QED BY <1>1, <1>2, TypeCorrect, PTL DEF Spec

\* When a timed wait runs out, the queue holds an event whose time has come:
\* only the thread itself and shutdown take tasks off the queue.
THEOREM TimeoutIsForAnEvent == Spec => []TimeoutFindsDueEvent
<1>1. Init => TimeoutFindsDueEvent
  BY DEF Init, TimeoutFindsDueEvent
<1>2. TypeOK /\ TimeoutFindsDueEvent /\ [Next]_vars => TimeoutFindsDueEvent'
  <2> SUFFICES ASSUME TypeOK, TimeoutFindsDueEvent, [Next]_vars
               PROVE  TimeoutFindsDueEvent'
    OBVIOUS
  <2> USE DEF TypeOK, TimeoutFindsDueEvent, Queued
  <2>1. ASSUME NEW t \in Task, NEW d \in Delays, AddEvent(t, d)
        PROVE  TimeoutFindsDueEvent'
    BY <2>1 DEF AddEvent
  <2>2. ASSUME NEW t \in Task, RefuseEvent(t) PROVE TimeoutFindsDueEvent'
    BY <2>2 DEF RefuseEvent
  <2>3. ASSUME NEW t \in Task, NotifyOne(t) PROVE TimeoutFindsDueEvent'
    BY <2>3 DEF NotifyOne
  <2>4. ASSUME NEW t \in Task, StopEvent(t) PROVE TimeoutFindsDueEvent'
    BY <2>4 DEF StopEvent
  <2>5. CASE Stop \/ Shutdown
    BY <2>5 DEF Stop, Shutdown
  <2>6. CASE Sleep
    BY <2>6 DEF Sleep, Tops
  <2>7. CASE LoopTest \/ TakeTop \/ TakeFromEmpty \/ AwakeTerminated \/ HandOver
    BY <2>7 DEF LoopTest, TakeTop, TakeFromEmpty, AwakeTerminated, HandOver
  <2>8. CASE Tick \/ SpuriousWakeup
    BY <2>8 DEF Tick, SpuriousWakeup
  <2>9. CASE UNCHANGED vars
    BY <2>9 DEF vars
  <2> QED
    BY <2>1, <2>2, <2>3, <2>4, <2>5, <2>6, <2>7, <2>8, <2>9 DEF Next, Thread
<1> QED BY <1>1, <1>2, TypeCorrect, PTL DEF Spec

\* The thread sleeps past no event and never wakes from a timed wait in vain,
\* whoever adds, stops and shuts down meanwhile.
THEOREM ThreadWakesInTime == Spec => []WakesInTime
BY NoWakeupIsLost, TimeoutIsForAnEvent, PTL DEF WakesInTime

-----------------------------------------------------------------------------
\* The scheduler as a timer service.  The ids do not start over in a run with
\* no more tasks than ids.
EnoughIds == IsFiniteSet(Task) /\ Cardinality(Task) <= MaxEventId

\* Every task that was numbered took one id, and one only.
IdsCounted ==
  /\ ~wrapped
  /\ lastEvent = Cardinality({t \in Task : Numbered(t)})

LEMMA IdsCountedStep ==
  EnoughIds => (TypeOK /\ IdsCounted /\ [Next]_vars => IdsCounted')
<1> SUFFICES ASSUME EnoughIds, TypeOK, IdsCounted, [Next]_vars
             PROVE  IdsCounted'
  OBVIOUS
<1> DEFINE N == {t \in Task : Numbered(t)}
<1>0. N' = N /\ UNCHANGED <<lastEvent, wrapped>> => IdsCounted'
  BY DEF IdsCounted
<1> USE DEF TypeOK, Statuses, Numbered
<1>1. ASSUME NEW t \in Task, NEW d \in Delays, AddEvent(t, d)
      PROVE  IdsCounted'
  <2>1. N' = N \union {t} /\ t \notin N
    BY <1>1 DEF AddEvent
  <2>2. IsFiniteSet(N) /\ IsFiniteSet(N') /\ N' \subseteq Task
    BY <2>1, FS_Subset DEF EnoughIds
  <2>3. Cardinality(N') = Cardinality(N) + 1
    BY <2>1, <2>2, FS_AddElement
  <2>4. Cardinality(N') <= Cardinality(Task) /\ Cardinality(Task) \in Nat
    BY <2>2, FS_Subset, FS_CardinalityType DEF EnoughIds
  <2>5. Cardinality(N) < MaxEventId /\ Cardinality(N) \in Nat
    BY <2>2, <2>3, <2>4, FS_CardinalityType DEF EnoughIds
  <2>6. ~wrapped' /\ lastEvent' = Cardinality(N) + 1
    BY <1>1, <2>5 DEF AddEvent, NextId, IdsCounted
  <2> QED BY <2>3, <2>6 DEF IdsCounted
<1>2. ASSUME NEW t \in Task, RefuseEvent(t) PROVE IdsCounted'
  <2>1. N' = N
    BY <1>2 DEF RefuseEvent
  <2> QED BY <1>0, <1>2, <2>1 DEF RefuseEvent
<1>3. ASSUME NEW t \in Task, NotifyOne(t) \/ StopEvent(t) PROVE IdsCounted'
  BY <1>0, <1>3 DEF NotifyOne, StopEvent
<1>4. CASE Shutdown
  <2>1. N' = N
    BY <1>4 DEF Shutdown
  <2> QED BY <1>0, <1>4, <2>1 DEF Shutdown
<1>5. CASE Stop \/ LoopTest \/ Sleep \/ TakeFromEmpty \/ AwakeTerminated
  BY <1>0, <1>5 DEF Stop, LoopTest, Sleep, TakeFromEmpty, AwakeTerminated
<1>6. CASE TakeTop
  <2>1. N' = N
    BY <1>6 DEF TakeTop, Tops, Queued, Pop
  <2> QED BY <1>0, <1>6, <2>1 DEF TakeTop
<1>7. CASE HandOver
  <2>1. N' = N
    BY <1>7 DEF HandOver
  <2> QED BY <1>0, <1>7, <2>1 DEF HandOver
<1>8. CASE Tick \/ SpuriousWakeup \/ UNCHANGED vars
  BY <1>0, <1>8 DEF Tick, SpuriousWakeup, vars
<1> QED
  BY <1>1, <1>2, <1>3, <1>4, <1>5, <1>6, <1>7, <1>8 DEF Next, Thread

LEMMA IdsNeverWrap == EnoughIds => (Spec => []~wrapped)
<1> SUFFICES ASSUME EnoughIds PROVE Spec => []~wrapped
  OBVIOUS
<1>1. Init => IdsCounted
  <2> SUFFICES ASSUME Init PROVE IdsCounted
    OBVIOUS
  <2>1. {t \in Task : Numbered(t)} = {}
    BY DEF Init, Numbered
  <2> QED BY <2>1, FS_EmptySet DEF Init, IdsCounted
<1>2. TypeOK /\ IdsCounted /\ [Next]_vars => IdsCounted'
  BY IdsCountedStep
<1>3. IdsCounted => ~wrapped
  BY DEF IdsCounted
<1> QED BY <1>1, <1>2, <1>3, TypeCorrect, PTL DEF Spec

\* A task the shutdown cleared although its owner had stopped it is not lost:
\* ids and stops do not change once a task has left the queue.
LEMMA TimerStep ==
  TypeOK /\ IdInv /\ ~wrapped /\ ~wrapped' /\ [Next]_vars
    => [Timer!Next]_(Timer!vars)
<1> SUFFICES ASSUME TypeOK, IdInv, ~wrapped, ~wrapped', [Next]_vars
             PROVE  [Timer!Next]_(Timer!vars)
  OBVIOUS
<1> USE DEF TypeOK, Statuses, Queued
<1> DEFINE pending == {t \in Queued : eventId[t] \in eventIds}
           fired   == {t \in Task : status[t] \in {"fired", "dispatched"}}
           lost    == {t \in Task : status[t] = "cleared" /\ t \notin stopped}
<1>0. pending' = pending /\ fired' = fired /\ stopped' = stopped /\ lost' = lost
        => UNCHANGED Timer!vars
  BY DEF Timer!vars
<1>1. ASSUME NEW t \in Task, NEW d \in Delays, AddEvent(t, d)
      PROVE  Timer!Next
  <2>0. ~(lastEvent >= MaxEventId)
    BY <1>1 DEF AddEvent
  <2>1. NextId = lastEvent + 1 /\ \A u \in Task : eventId[u] # NextId
    BY <2>0 DEF NextId, IdInv, IdsIncrease
  <2>2. t \notin pending /\ t \notin fired /\ t \notin stopped /\ t \notin lost
    BY <1>1 DEF AddEvent, IdInv, IdsGiven, Numbered
  <2>3. pending' = pending \union {t} /\ UNCHANGED <<fired, stopped, lost>>
    BY <1>1, <2>1 DEF AddEvent
  <2> QED BY <2>2, <2>3 DEF Timer!Next, Timer!Schedule
<1>2. ASSUME NEW t \in Task, RefuseEvent(t) PROVE UNCHANGED Timer!vars
  BY <1>0, <1>2 DEF RefuseEvent
<1>3. ASSUME NEW t \in Task, NotifyOne(t) PROVE UNCHANGED Timer!vars
  BY <1>0, <1>3 DEF NotifyOne
<1>4. ASSUME NEW t \in Task, StopEvent(t) PROVE Timer!Next
  <2>1. status[t] = "queued" /\ t \notin fired
    BY <1>4 DEF StopEvent, IdInv, ActiveMeansQueued
  <2>2. \A u \in Task : eventId[u] = eventId[t] => u = t
    BY <2>1 DEF IdInv, IdsUnique, Numbered
  <2>3. /\ t \in pending
        /\ pending' = pending \ {t}
        /\ stopped' = stopped \union {t}
        /\ UNCHANGED <<fired, lost>>
    BY <1>4, <2>1, <2>2 DEF StopEvent
  <2> QED BY <2>3 DEF Timer!Next, Timer!Cancel
<1>5. CASE Shutdown
  <2>1. pending' = {} /\ UNCHANGED <<fired, stopped>>
    BY <1>5 DEF Shutdown
  <2>2. lost' = lost \union pending
    BY <1>5 DEF Shutdown, IdInv, UnstoppedStaysActive, StoppedMeansInactive
  <2> QED BY <2>1, <2>2 DEF Timer!Next, Timer!Forget
<1>6. CASE TakeTop
  <2>1. PICK t \in Queued : Pop(t)
    BY <1>6 DEF TakeTop, Tops
  <2>2. \A u \in Task : eventId[u] = eventId[t] => u = t
    BY <2>1 DEF IdInv, IdsUnique, Numbered
  <2>3. UNCHANGED <<eventId, stopped, lost>>
    BY <1>6, <2>1 DEF TakeTop, Pop
  <2>4. CASE eventId[t] \in eventIds
    <3>1. t \in pending /\ pending' = pending \ {t} /\ fired' = fired \union {t}
      BY <2>1, <2>2, <2>3, <2>4 DEF Pop
    <3> QED BY <2>3, <3>1 DEF Timer!Next, Timer!Fire
  <2>5. CASE eventId[t] \notin eventIds
    BY <1>0, <2>1, <2>3, <2>5 DEF Pop
  <2> QED BY <2>4, <2>5
<1>7. CASE HandOver
  BY <1>0, <1>7 DEF HandOver
<1>8. CASE Stop \/ LoopTest \/ Sleep \/ TakeFromEmpty \/ AwakeTerminated
  BY <1>0, <1>8 DEF Stop, LoopTest, Sleep, TakeFromEmpty, AwakeTerminated
<1>9. CASE Tick \/ SpuriousWakeup \/ UNCHANGED vars
  BY <1>0, <1>9 DEF Tick, SpuriousWakeup, vars
<1> QED
  BY <1>1, <1>2, <1>3, <1>4, <1>5, <1>6, <1>7, <1>8, <1>9 DEF Next, Thread

\* With enough ids every step of the scheduler is a step of the timer service
\* or invisible to it: an event fires at most once and never after its owner
\* cancelled it.
THEOREM SchedulerImplementsTimer == EnoughIds => (Spec => ImplementsTimer)
<1> SUFFICES ASSUME EnoughIds PROVE Spec => ImplementsTimer
  OBVIOUS
<1>1. Init => Timer!Init
  BY DEF Init, Timer!Init, Queued
<1>2. TypeOK /\ IdInv /\ ~wrapped /\ ~wrapped' /\ [Next]_vars
        => [Timer!Next]_(Timer!vars)
  BY TimerStep
<1>3. Spec => []~wrapped
  BY IdsNeverWrap
<1> QED
  BY <1>1, <1>2, <1>3, TypeCorrect, IdInvHolds, PTL
  DEF Spec, ImplementsTimer, Timer!Spec
=============================================================================
