----------------------------- MODULE Dispatcher -----------------------------
(***************************************************************************)
(* The dispatcher (Src/tasks.cpp, tasks.h): one thread that runs the game, *)
(* one task after the other, in the order in which any thread adds them.   *)
(* The shutdown of the server is itself a task: Game::setGameState queues  *)
(* it and closes the dispatcher, Game::shutdown flushes what is left while *)
(* it holds the lock of the task list, and ends the process.               *)
(*                                                                         *)
(* A task is "running" when the thread took it in its loop and "flushing"  *)
(* when flush took it.  m_taskLock is held from one program point to the   *)
(* next only in flush; every other critical section is one action.         *)
(***************************************************************************)
EXTENDS Integers, Sequences

CONSTANTS
  Task,      \* the tasks created during a run
  Front,     \* those added at the front: the release of sent messages
  Adders,    \* those whose body, or the sendAll after it, adds tasks
  Expiring,  \* those with a time limit: what the clients ask for
  Close,     \* setGameState(GAME_STATE_SHUTDOWN)
  Kill,      \* the Game::shutdown that Close queues
  Term       \* the Game::shutdown that the handler of SIGTERM queues

Final == {Kill, Term}
Back == Task \ Front

ASSUME DispatcherAssumption ==
  /\ {Close, Kill, Term} \subseteq Back
  /\ Close \notin Final

VARIABLES
  taskList,     \* m_taskList
  threadState,  \* m_threadState
  status,       \* where each task is
  expired,      \* the tasks whose time limit has passed
  pc,           \* where the dispatcher thread is
  notifying,    \* tasks whose addTask has unlocked but not yet notified
  accepted,     \* history: how many tasks addTask has taken
  stamp         \* history: the number under which it took each

vars == <<taskList, threadState, status, expired, pc, notifying, accepted,
          stamp>>

Statuses == {"new", "queued", "running", "flushing",
             "done", "dropped", "refused"}

PCs == {"loop", "wait", "woken", "run", "stop", "flush", "flushrun",
        "cleanup", "hung", "exited"}

\* flush holds m_taskLock, also when it waits for that lock itself.
LockHeld == pc \in {"flush", "flushrun", "hung"}

Init ==
  /\ taskList = <<>>
  /\ threadState = "RUNNING"
  /\ status = [t \in Task |-> "new"]
  /\ expired = {}
  /\ pc = "loop"
  /\ notifying = {}
  /\ accepted = 0
  /\ stamp = [t \in Task |-> 0]

-----------------------------------------------------------------------------
(* addTask.                                                                *)

\* What addTask does with the list of a running dispatcher.
EnqueueBackwards(t) ==
  /\ status[t] = "new"
  /\ threadState = "RUNNING"
  /\ taskList' = IF t \in Front THEN Append(taskList, t) ELSE <<t>> \o taskList
  /\ status' = [status EXCEPT ![t] = "queued"]
  /\ accepted' = accepted + 1
  /\ stamp' = [stamp EXCEPT ![t] = accepted + 1]

Enqueue(t) ==
  /\ status[t] = "new"
  /\ threadState = "RUNNING"
  /\ taskList' = IF t \in Front THEN <<t>> \o taskList ELSE Append(taskList, t)
  /\ status' = [status EXCEPT ![t] = "queued"]
  /\ accepted' = accepted + 1
  /\ stamp' = [stamp EXCEPT ![t] = accepted + 1]

\* addTask on another thread; it signals only if the list was empty.
AddTaskNeverSignal(t) ==
  /\ t # Kill
  /\ ~LockHeld /\ pc # "exited"
  /\ Enqueue(t)
  /\ UNCHANGED <<threadState, expired, pc, notifying>>

AddTaskSignalIfNotEmpty(t) ==
  /\ t # Kill
  /\ ~LockHeld /\ pc # "exited"
  /\ Enqueue(t)
  /\ notifying' = IF taskList # <<>> THEN notifying \union {t} ELSE notifying
  /\ UNCHANGED <<threadState, expired, pc>>

AddTask(t) ==
  /\ t # Kill
  /\ ~LockHeld /\ pc # "exited"
  /\ Enqueue(t)
  /\ notifying' = IF taskList = <<>> THEN notifying \union {t} ELSE notifying
  /\ UNCHANGED <<threadState, expired, pc>>

\* addTask on a dispatcher that does not run: the task is leaked.
RefuseTask(t) ==
  /\ t # Kill
  /\ ~LockHeld /\ pc # "exited"
  /\ status[t] = "new"
  /\ threadState # "RUNNING"
  /\ status' = [status EXCEPT ![t] = "refused"]
  /\ UNCHANGED <<taskList, threadState, expired, pc, notifying, accepted, stamp>>

\* The notify_one at the end of addTask.
NotifyOne(t) ==
  /\ pc # "exited"
  /\ t \in notifying
  /\ notifying' = notifying \ {t}
  /\ pc' = IF pc = "wait" THEN "woken" ELSE pc
  /\ UNCHANGED <<taskList, threadState, status, expired, accepted, stamp>>

\* The time limit of a waiting task passes.
ExpireAny(t) ==
  /\ pc # "exited"
  /\ t \notin expired
  /\ status[t] = "queued"
  /\ expired' = expired \union {t}
  /\ UNCHANGED <<taskList, threadState, status, pc, notifying, accepted, stamp>>

Expire(t) ==
  /\ pc # "exited"
  /\ t \in Expiring \ expired
  /\ status[t] = "queued"
  /\ expired' = expired \union {t}
  /\ UNCHANGED <<taskList, threadState, status, pc, notifying, accepted, stamp>>

-----------------------------------------------------------------------------
(* The dispatcher thread.                                                  *)

Running(t) == pc = "run" /\ status[t] = "running"

\* Take the first task, and delete it unrun when its time limit has passed.
PeekFirst ==
  /\ taskList # <<>>
  /\ UNCHANGED taskList
  /\ LET late == Head(taskList) \in expired
     IN /\ status' = [status EXCEPT ![Head(taskList)] =
                        IF late THEN "dropped" ELSE "running"]
        /\ pc' = IF late THEN "loop" ELSE "run"

TakeFirst ==
  /\ taskList # <<>>
  /\ taskList' = Tail(taskList)
  /\ LET late == Head(taskList) \in expired
     IN /\ status' = [status EXCEPT ![Head(taskList)] =
                        IF late THEN "dropped" ELSE "running"]
        /\ pc' = IF late THEN "loop" ELSE "run"

\* One round of the loop up to the task: with an empty list the thread waits,
\* and after one wait it goes on without a task if the list still is empty.
Take ==
  /\ pc = "loop"
  /\ threadState # "TERMINATED"
  /\ \/ TakeFirst
     \/ /\ taskList = <<>>
        /\ pc' = "wait"
        /\ UNCHANGED <<taskList, status>>
  /\ UNCHANGED <<threadState, expired, notifying, accepted, stamp>>

TakeAfterWait ==
  /\ pc = "woken"
  /\ \/ threadState # "TERMINATED" /\ TakeFirst
     \/ /\ taskList = <<>>
        /\ pc' = "loop"
        /\ UNCHANGED <<taskList, status>>
  /\ UNCHANGED <<threadState, expired, notifying, accepted, stamp>>

\* The body of a task, or the sendAll that follows it, adds a task.  Nobody
\* waits for the signal: the only thread that ever does is this one.
TaskAdds(t) ==
  /\ t # Kill
  /\ \E u \in Adders : Running(u)
  /\ Enqueue(t)
  /\ UNCHANGED <<threadState, expired, pc, notifying>>

Finish(t) ==
  /\ t \notin Final \union {Close}
  /\ Running(t)
  /\ status' = [status EXCEPT ![t] = "done"]
  /\ pc' = "loop"
  /\ UNCHANGED <<taskList, threadState, expired, notifying, accepted, stamp>>

\* setGameState(GAME_STATE_SHUTDOWN) adds the task that will end the process...
QueueShutdown ==
  /\ Running(Close)
  /\ Enqueue(Kill)
  /\ pc' = "stop"
  /\ UNCHANGED <<threadState, expired, notifying>>

\* ... and then closes the dispatcher; other threads may add in between.
Stop ==
  /\ pc = "stop"
  /\ threadState' = "CLOSING"
  /\ status' = [status EXCEPT ![Close] = "done"]
  /\ pc' = "loop"
  /\ UNCHANGED <<taskList, expired, notifying, accepted, stamp>>

\* Game::shutdown: Dispatcher::shutdown takes the lock and flushes.
ShutdownWithoutFlush(t) ==
  /\ t \in Final
  /\ Running(t)
  /\ threadState' = "TERMINATED"
  /\ pc' = "cleanup"
  /\ UNCHANGED <<taskList, status, expired, notifying, accepted, stamp>>

Shutdown(t) ==
  /\ t \in Final
  /\ Running(t)
  /\ threadState' = "TERMINATED"
  /\ pc' = "flush"
  /\ UNCHANGED <<taskList, status, expired, notifying, accepted, stamp>>

\* flush runs what is left, whatever its time limit.
FlushTake ==
  /\ pc = "flush"
  /\ taskList # <<>>
  /\ taskList' = Tail(taskList)
  /\ status' = [status EXCEPT ![Head(taskList)] = "flushing"]
  /\ pc' = "flushrun"
  /\ UNCHANGED <<threadState, expired, notifying, accepted, stamp>>

FlushFinish(t) ==
  /\ pc = "flushrun"
  /\ status[t] = "flushing"
  /\ t \notin Final \union {Close}
  /\ status' = [status EXCEPT ![t] = "done"]
  /\ pc' = "flush"
  /\ UNCHANGED <<taskList, threadState, expired, notifying, accepted, stamp>>

\* A task that calls addTask, stop or shutdown from within flush locks the
\* mutex its own thread holds: boost::mutex is not recursive.
FlushHang(t) ==
  /\ pc = "flushrun"
  /\ status[t] = "flushing"
  /\ t \in Adders \union Final \union {Close}
  /\ pc' = "hung"
  /\ UNCHANGED <<taskList, threadState, status, expired, notifying, accepted,
                 stamp>>

FlushEnd ==
  /\ pc = "flush"
  /\ taskList = <<>>
  /\ pc' = "cleanup"
  /\ UNCHANGED <<taskList, threadState, status, expired, notifying, accepted,
                 stamp>>

\* The rest of Game::shutdown, with exit at its end: the loop is not re-entered.
Exit ==
  /\ pc = "cleanup"
  /\ pc' = "exited"
  /\ status' = [t \in Task |-> IF status[t] = "running" THEN "done"
                                                        ELSE status[t]]
  /\ UNCHANGED <<taskList, threadState, expired, notifying, accepted, stamp>>

SpuriousWakeup ==
  /\ pc = "wait"
  /\ pc' = "woken"
  /\ UNCHANGED <<taskList, threadState, status, expired, notifying, accepted,
                 stamp>>

Thread ==
  \/ Take \/ TakeAfterWait
  \/ \E t \in Task : Finish(t) \/ Shutdown(t) \/ FlushFinish(t) \/ FlushHang(t)
  \/ QueueShutdown \/ Stop
  \/ FlushTake \/ FlushEnd \/ Exit

Next ==
  \/ \E t \in Task : \/ AddTask(t) \/ RefuseTask(t)
                     \/ NotifyOne(t) \/ Expire(t)
                     \/ TaskAdds(t)
  \/ Thread
  \/ SpuriousWakeup

Spec == Init /\ [][Next]_vars

\* A task's body ends, the dispatcher thread runs, and so do the threads that
\* are about to notify it.
Fairness ==
  /\ WF_vars(Thread)
  /\ \A t \in Task : WF_vars(NotifyOne(t))

FairSpec == Spec /\ Fairness

-----------------------------------------------------------------------------
(* Properties.                                                             *)

\* Every variable has its type.
TypeOK ==
  /\ taskList \in Seq(Task)
  /\ threadState \in {"RUNNING", "CLOSING", "TERMINATED"}
  /\ status \in [Task -> Statuses]
  /\ expired \subseteq Expiring
  /\ pc \in PCs
  /\ notifying \subseteq Task
  /\ accepted \in Nat
  /\ stamp \in [Task -> Nat]

\* The tasks added at the back leave the list in the order in which addTask
\* accepted them, however many were put in front of them meanwhile: no task
\* has been taken while one accepted before it still waits.
BackTasksInOrder ==
  \A t, u \in Back :
    status[t] = "queued" /\ stamp[u] > stamp[t] => status[u] = "queued"

\* The list holds the waiting tasks, each once: none is lost and none is run
\* twice.
ListIsTheWaiting ==
  /\ \A t \in Task :
       status[t] = "queued" <=> \E i \in DOMAIN taskList : taskList[i] = t
  /\ \A i, j \in DOMAIN taskList : taskList[i] = taskList[j] => i = j

\* Every accepted task is taken once, and those from the back in their order,
\* whatever is put in front and whoever adds.
QueueIsHonest == BackTasksInOrder /\ ListIsTheWaiting

\* The thread does not sleep while a task waits, unless a notify is on its
\* way: the signal only when the list was empty is enough.
NoLostWakeup == pc = "wait" /\ taskList # <<>> => notifying # {}

\* The process ends only after every task that addTask accepted was taken,
\* those included that slipped in behind the shutdown task.
ExitLeavesNothing ==
  pc = "exited" => \A t \in Task : stamp[t] # 0 => status[t] \in {"done", "dropped"}

\* Every accepted task is taken in the end, unless the shutdown hangs.
TaskIsTaken ==
  \A t \in Task : status[t] = "queued" ~> status[t] # "queued" \/ pc = "hung"

\* "shutdown" (Src/otserv.cpp:298): the signal SIGTERM ends the process.
SigtermEndsTheProcess == status[Term] = "queued" ~> pc = "exited"
=============================================================================
