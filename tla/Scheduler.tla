------------------------------ MODULE Scheduler ------------------------------
(***************************************************************************)
(* The event scheduler of the server (Src/scheduler.cpp, scheduler.h).     *)
(* Any thread adds timed events and stops them by id; one scheduler thread *)
(* sleeps on a condition variable until the earliest event is due and then *)
(* hands it to the dispatcher.                                             *)
(*                                                                         *)
(* Every critical section under m_eventLock is one action.  Waiting on     *)
(* m_eventSignal releases the lock, so it is a program point of its own;   *)
(* so is the gap between the unlock and the notify_one of addEvent.        *)
(***************************************************************************)
EXTENDS Integers, FiniteSets

CONSTANTS
  Task,          \* the SchedulerTask objects created during a run
  MaxEventId,    \* stands for 0xFFFFFFFF, the last id before the wrap
  MinTicks,      \* SCHEDULER_MINTICKS (one unit of time is 50 ms)
  Delays,        \* the delays the callers ask for
  MaxTime,       \* bound: the clock stops here
  Spurious       \* may a wait return although nobody notified?

ASSUME SchedulerAssumption ==
  /\ MaxEventId \in Nat \ {0}
  /\ MinTicks \in Nat
  /\ Delays \subseteq Nat
  /\ MaxTime \in Nat
  /\ Spurious \in BOOLEAN

VARIABLES
  now,           \* boost::get_system_time()
  threadState,   \* m_threadState
  lastEvent,     \* m_lastEvent
  eventIds,      \* m_eventIds: the ids of the events that were not stopped
  status,        \* where each task is; the "queued" ones are m_eventList
  eventId,       \* the id of each task, 0 until addEvent gives it one
  expiration,    \* the due time of each task
  pc,            \* where the scheduler thread is
  deadline,      \* the absolute time of the running timed_wait
  notifying,     \* tasks whose addEvent has unlocked but not yet notified
  stopped,       \* history: tasks whose stopEvent returned true
  wrapped        \* history: m_lastEvent has started over

vars == <<now, threadState, lastEvent, eventIds, status, eventId, expiration,
          pc, deadline, notifying, stopped, wrapped>>

\* "fired" and "stale" are the two ways the thread can hold a popped task.
Statuses == {"new", "queued", "fired", "stale",
             "dispatched", "deleted", "cleared", "refused"}

PCs == {"loop", "enter", "wait", "woken", "timed", "handover",
        "exited", "undefined"}

Queued == {t \in Task : status[t] = "queued"}

\* Every id handed out is one more than the last one, starting over after
\* the largest uint32.
NextId == (IF lastEvent >= MaxEventId THEN 0 ELSE lastEvent) + 1

\* createSchedulerTask never schedules closer than SCHEDULER_MINTICKS.
DueTimeInTheRestOfATick(d) == now + (d - MinTicks)

DueTime(d) == now + (IF d < MinTicks THEN MinTicks ELSE d)

\* std::push_heap moves a new task to the top only if it is strictly earlier
\* than what is there.
SignalOnlyIfEmpty(e) == Queued = {}

SignalOnlyIfNotEmpty(e) == Queued # {} /\ \A u \in Queued : e < expiration[u]

BecomesTop(e) == \A u \in Queued : e < expiration[u]

\* The top of the priority queue; ties come out in any order.
Tops == {t \in Queued : \A u \in Queued : expiration[t] <= expiration[u]}

Init ==
  /\ now = 0
  /\ threadState = "RUNNING"
  /\ lastEvent = 0
  /\ eventIds = {}
  /\ status = [t \in Task |-> "new"]
  /\ eventId = [t \in Task |-> 0]
  /\ expiration = [t \in Task |-> 0]
  /\ pc = "loop"
  /\ deadline = 0
  /\ notifying = {}
  /\ stopped = {}
  /\ wrapped = FALSE

-----------------------------------------------------------------------------
(* The callers, on any thread.                                             *)

\* addEvent on a running scheduler: number, register and queue the task; the
\* signal is sent after the unlock.
AddEvent(t, d) ==
  /\ status[t] = "new"
  /\ threadState = "RUNNING"
  /\ DueTime(d) <= MaxTime
  /\ lastEvent' = NextId
  /\ wrapped' = (wrapped \/ lastEvent >= MaxEventId)
  /\ eventId' = [eventId EXCEPT ![t] = NextId]
  /\ eventIds' = eventIds \union {NextId}
  /\ expiration' = [expiration EXCEPT ![t] = DueTime(d)]
  /\ status' = [status EXCEPT ![t] = "queued"]
  /\ notifying' = IF BecomesTop(DueTime(d)) THEN notifying \union {t}
                                            ELSE notifying
  /\ UNCHANGED <<now, threadState, pc, deadline, stopped>>

\* addEvent on a closing scheduler: the task is neither queued nor deleted.
RefuseEvent(t) ==
  /\ status[t] = "new"
  /\ threadState # "RUNNING"
  /\ status' = [status EXCEPT ![t] = "refused"]
  /\ UNCHANGED <<now, threadState, lastEvent, eventIds, eventId, expiration,
                 pc, deadline, notifying, stopped, wrapped>>

\* The notify_one at the end of addEvent.  It wakes the thread only if the
\* thread waits at that moment; timed_wait then returns true and the thread
\* starts over, wait returns nothing and ret keeps its initial false.
NotifyOne(t) ==
  /\ t \in notifying
  /\ notifying' = notifying \ {t}
  /\ pc' = CASE pc = "wait"  -> "woken"
             [] pc = "timed" -> "loop"
             [] OTHER        -> pc
  /\ UNCHANGED <<now, threadState, lastEvent, eventIds, status, eventId,
                 expiration, deadline, stopped, wrapped>>

\* stopEvent with the id its caller got for t.  Only the id is removed: the
\* task stays queued.  When the id is not active nothing changes.
StopEventAndDequeue(t) ==
  /\ eventId[t] \in eventIds
  /\ eventIds' = eventIds \ {eventId[t]}
  /\ status' = [status EXCEPT ![t] = "deleted"]
  /\ stopped' = stopped \union {t}
  /\ UNCHANGED <<now, threadState, lastEvent, eventId, expiration,
                 pc, deadline, notifying, wrapped>>

StopEvent(t) ==
  /\ eventId[t] \in eventIds
  /\ eventIds' = eventIds \ {eventId[t]}
  /\ stopped' = stopped \union {t}
  /\ UNCHANGED <<now, threadState, lastEvent, status, eventId, expiration,
                 pc, deadline, notifying, wrapped>>

\* Scheduler::stop.  Game::setGameState calls it once, before the shutdown.
Stop ==
  /\ threadState = "RUNNING"
  /\ threadState' = "CLOSING"
  /\ UNCHANGED <<now, lastEvent, eventIds, status, eventId, expiration,
                 pc, deadline, notifying, stopped, wrapped>>

\* Scheduler::shutdown.  Nobody is notified.
ShutdownKeepingTheList ==
  /\ threadState # "TERMINATED"
  /\ threadState' = "TERMINATED"
  /\ eventIds' = {}
  /\ UNCHANGED <<now, lastEvent, status, eventId, expiration, pc, deadline,
                 notifying, stopped, wrapped>>

Shutdown ==
  /\ threadState # "TERMINATED"
  /\ threadState' = "TERMINATED"
  /\ status' = [t \in Task |-> IF status[t] = "queued" THEN "cleared"
                                                       ELSE status[t]]
  /\ eventIds' = {}
  /\ UNCHANGED <<now, lastEvent, eventId, expiration, pc, deadline,
                 notifying, stopped, wrapped>>

-----------------------------------------------------------------------------
(* The scheduler thread.                                                   *)

\* The loop condition, read without the lock.
LoopTest ==
  /\ pc = "loop"
  /\ pc' = IF threadState = "TERMINATED" THEN "exited" ELSE "enter"
  /\ UNCHANGED <<now, threadState, lastEvent, eventIds, status, eventId,
                 expiration, deadline, notifying, stopped, wrapped>>

\* Take the lock and go to sleep: without a limit when the queue is empty,
\* until the top is due otherwise.
Sleep ==
  /\ pc = "enter"
  /\ \/ /\ Queued = {}
        /\ pc' = "wait"
        /\ UNCHANGED deadline
     \/ \E t \in Tops :
          /\ pc' = "timed"
          /\ deadline' = expiration[t]
  /\ UNCHANGED <<now, threadState, lastEvent, eventIds, status, eventId,
                 expiration, notifying, stopped, wrapped>>

\* Awake with ret = false: after an untimed wait, or when a timed one ran out.
Awake == \/ pc = "woken"
         \/ pc = "timed" /\ deadline <= now

\* The task is run only if its id is still active, and its id is used up.
PopUnchecked(t) ==
  /\ status' = [status EXCEPT ![t] = "fired"]
  /\ eventIds' = eventIds \ {eventId[t]}

PopKeepingTheId(t) ==
  /\ status' = [status EXCEPT ![t] = IF eventId[t] \in eventIds
                                     THEN "fired" ELSE "stale"]
  /\ UNCHANGED eventIds

Pop(t) ==
  /\ status' = [status EXCEPT ![t] = IF eventId[t] \in eventIds
                                     THEN "fired" ELSE "stale"]
  /\ eventIds' = eventIds \ {eventId[t]}

\* "there has to be an event we have to execute": take the top.
TakeTop ==
  /\ Awake
  /\ threadState # "TERMINATED"
  /\ \E t \in Tops : Pop(t)
  /\ pc' = "handover"
  /\ UNCHANGED <<now, threadState, lastEvent, eventId, expiration, deadline,
                 notifying, stopped, wrapped>>

\* top() and pop() of an empty std::priority_queue: undefined behaviour, the
\* size of the underlying vector goes below zero.
TakeFromEmpty ==
  /\ Awake
  /\ threadState # "TERMINATED"
  /\ Queued = {}
  /\ pc' = "undefined"
  /\ UNCHANGED <<now, threadState, lastEvent, eventIds, status, eventId,
                 expiration, deadline, notifying, stopped, wrapped>>

\* Awake after shutdown: no task is taken and the loop test ends the thread.
AwakeTerminated ==
  /\ Awake
  /\ threadState = "TERMINATED"
  /\ pc' = "loop"
  /\ UNCHANGED <<now, threadState, lastEvent, eventIds, status, eventId,
                 expiration, deadline, notifying, stopped, wrapped>>

\* Outside the lock: give the task to the dispatcher or delete it.
HandOver ==
  /\ pc = "handover"
  /\ \E t \in Task :
       /\ status[t] \in {"fired", "stale"}
       /\ status' = [status EXCEPT ![t] = IF status[t] = "fired"
                                          THEN "dispatched" ELSE "deleted"]
  /\ pc' = "loop"
  /\ UNCHANGED <<now, threadState, lastEvent, eventIds, eventId, expiration,
                 deadline, notifying, stopped, wrapped>>

-----------------------------------------------------------------------------
(* The environment.                                                        *)

Tick ==
  /\ now < MaxTime
  /\ now' = now + 1
  /\ UNCHANGED <<threadState, lastEvent, eventIds, status, eventId,
                 expiration, pc, deadline, notifying, stopped, wrapped>>

\* A condition variable may return from a wait on its own.
SpuriousWakeup ==
  /\ Spurious
  /\ pc \in {"wait", "timed"}
  /\ pc' = IF pc = "wait" THEN "woken" ELSE "loop"
  /\ UNCHANGED <<now, threadState, lastEvent, eventIds, status, eventId,
                 expiration, deadline, notifying, stopped, wrapped>>

Thread == LoopTest \/ Sleep \/ TakeTop \/ TakeFromEmpty \/ AwakeTerminated
          \/ HandOver

Next ==
  \/ \E t \in Task, d \in Delays : AddEvent(t, d)
  \/ \E t \in Task : RefuseEvent(t)
  \/ \E t \in Task : NotifyOne(t)
  \/ \E t \in Task : StopEvent(t)
  \/ Stop
  \/ Shutdown
  \/ Thread
  \/ Tick
  \/ SpuriousWakeup

Spec == Init /\ [][Next]_vars

\* The scheduler thread and the threads that call addEvent are never blocked
\* for good, time passes, and a timed_wait whose time is up is not cut short
\* spuriously every time.
Fairness ==
  /\ WF_vars(Thread)
  /\ SF_vars(TakeTop)
  /\ WF_vars(Tick)
  /\ \A t \in Task : WF_vars(NotifyOne(t))

FairSpec == Spec /\ Fairness

-----------------------------------------------------------------------------
(* Properties.                                                             *)

\* Every variable has its type.
TypeOK ==
  /\ now \in Nat
  /\ threadState \in {"RUNNING", "CLOSING", "TERMINATED"}
  /\ lastEvent \in 0 .. MaxEventId
  /\ eventIds \subseteq 1 .. MaxEventId
  /\ status \in [Task -> Statuses]
  /\ eventId \in [Task -> 0 .. MaxEventId]
  /\ expiration \in [Task -> Nat]
  /\ pc \in PCs
  /\ deadline \in Nat
  /\ notifying \subseteq Task
  /\ stopped \subseteq Task
  /\ wrapped \in BOOLEAN

\* Once stopEvent has said true, the event is never run, whatever was added,
\* fired or stopped meanwhile (until the ids start over).
StoppedNeverRuns ==
  ~wrapped => \A t \in stopped : status[t] \notin {"fired", "dispatched"}

\* A queued event that its owner has not stopped still has its id registered,
\* so it is run and not thrown away when its turn comes: no stopEvent and no
\* other event's firing takes its id (until the ids start over).
UnstoppedStaysActive ==
  ~wrapped => \A t \in Queued : t \in stopped \/ eventId[t] \in eventIds

\* stopEvent decides alone whether an event runs: those it took do not, and no
\* other caller's stop and no firing takes away the rest.
StopsAreHonoured == StoppedNeverRuns /\ UnstoppedStaysActive

\* The thread never sleeps past the earliest event: whenever something is
\* queued that is earlier than what it waits for, a notify is on its way.
NoLostWakeup ==
  /\ pc = "wait" /\ Queued # {} => notifying # {}
  /\ pc = "timed" => \A t \in Queued : expiration[t] < deadline => notifying # {}

\* When a timed wait runs out there is an event to execute and it is due:
\* nothing but the thread itself and shutdown takes a task off the queue.
TimeoutFindsDueEvent ==
  pc = "timed" /\ threadState # "TERMINATED" =>
    \E t \in Queued : expiration[t] <= deadline

\* The thread wakes exactly for due events: it sleeps past none, and a wait
\* that runs out was for one.
WakesInTime == NoLostWakeup /\ TimeoutFindsDueEvent

\* Every queued event leaves the queue (unless the queue has been corrupted):
\* the thread cannot sleep for ever on an event that is due.
EventLeavesQueue ==
  \A t \in Task :
    status[t] = "queued" ~> status[t] # "queued" \/ pc = "undefined"

\* The id counter never starting over, the scheduler is a timer service.
Timer == INSTANCE TimerService WITH
  pending   <- {t \in Queued : eventId[t] \in eventIds},
  fired     <- {t \in Task : status[t] \in {"fired", "dispatched"}},
  cancelled <- stopped,
  lost      <- {t \in Task : status[t] = "cleared" /\ t \notin stopped}

\* The scheduler implements the timer service step by step.
ImplementsTimer == Timer!Spec

(* What the comments of the code claim and the code does not do.           *)

\* "ok we had a timeout" (Src/scheduler.cpp:57): a task is only taken off the
\* queue for running when its time has come.
FiresOnlyWhenDue ==
  [][\A t \in Task : status[t] = "queued" /\ status'[t] = "fired"
                       => expiration[t] <= now]_vars

\* "so there has to be an event we have to execute" (Src/scheduler.cpp:57):
\* the thread never asks an empty queue for its top.
AlwaysAnEventToExecute == pc # "undefined"
=============================================================================
