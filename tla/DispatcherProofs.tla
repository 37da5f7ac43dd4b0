-------------------------- MODULE DispatcherProofs --------------------------
(***************************************************************************)
(* Proofs about the dispatcher, for any tasks and any split of them into   *)
(* front and back, adding and not, with a time limit and without.          *)
(***************************************************************************)
EXTENDS Dispatcher, TLAPS

USE DispatcherAssumption DEF Final, Back

\* What a list is made of after a task was put in front of it.
LEMMA PutInFront ==
  ASSUME NEW S, NEW s \in Seq(S), NEW x \in S
  PROVE  /\ <<x>> \o s \in Seq(S)
         /\ Len(<<x>> \o s) = Len(s) + 1
         /\ (<<x>> \o s)[1] = x
         /\ \A i \in 1 .. Len(s) : (<<x>> \o s)[i + 1] = s[i]
         /\ \A i \in 2 .. Len(s) + 1 : (<<x>> \o s)[i] = s[i - 1]
OBVIOUS

\* What a list is made of after a task was put behind it.
LEMMA PutBehind ==
  ASSUME NEW S, NEW s \in Seq(S), NEW x \in S
  PROVE  /\ Append(s, x) \in Seq(S)
         /\ Len(Append(s, x)) = Len(s) + 1
         /\ Append(s, x)[Len(s) + 1] = x
         /\ \A i \in 1 .. Len(s) : Append(s, x)[i] = s[i]
OBVIOUS

\* What a list is made of without its first task.
LEMMA TakeOff ==
  ASSUME NEW S, NEW s \in Seq(S), s # <<>>
  PROVE  /\ Tail(s) \in Seq(S)
         /\ Head(s) \in S
         /\ Head(s) = s[1]
         /\ Len(s) \in Nat \ {0}
         /\ Len(Tail(s)) = Len(s) - 1
         /\ \A i \in 1 .. Len(s) - 1 : Tail(s)[i] = s[i + 1]
OBVIOUS

\* The list, the states and the counters keep their types.
THEOREM TypeCorrect == Spec => []TypeOK
<1>1. Init => TypeOK
  BY DEF Init, TypeOK, Statuses, PCs
<1>2. TypeOK /\ [Next]_vars => TypeOK'
  <2> SUFFICES ASSUME TypeOK, [Next]_vars PROVE TypeOK'
    OBVIOUS
  <2> USE DEF TypeOK, Statuses, PCs
  <2>1. ASSUME NEW t \in Task, Enqueue(t)
        PROVE  /\ taskList' \in Seq(Task)
               /\ status' \in [Task -> Statuses]
               /\ accepted' \in Nat
               /\ stamp' \in [Task -> Nat]
    <3>1. taskList' \in Seq(Task)
      BY <2>1, PutInFront, PutBehind DEF Enqueue
    <3> QED BY <2>1, <3>1 DEF Enqueue
  <2>2. ASSUME TakeFirst
        PROVE  /\ taskList' \in Seq(Task)
               /\ status' \in [Task -> Statuses]
               /\ pc' \in PCs
    <3>1. taskList' \in Seq(Task) /\ Head(taskList) \in Task
      BY <2>2, TakeOff DEF TakeFirst
    <3> QED BY <2>2, <3>1 DEF TakeFirst
  <2>3. ASSUME NEW t \in Task, AddTask(t) \/ TaskAdds(t) PROVE TypeOK'
    BY <2>1, <2>3 DEF AddTask, TaskAdds
  <2>4. ASSUME NEW t \in Task, RefuseTask(t) \/ NotifyOne(t) \/ Expire(t)
        PROVE  TypeOK'
    BY <2>4 DEF RefuseTask, NotifyOne, Expire
  <2>5. CASE Take \/ TakeAfterWait
    BY <2>2, <2>5 DEF Take, TakeAfterWait
  <2>6. CASE QueueShutdown
    BY <2>1, <2>6 DEF QueueShutdown
  <2>7. CASE Stop
    BY <2>7 DEF Stop
  <2>8. ASSUME NEW t \in Task,
               Finish(t) \/ Shutdown(t) \/ FlushFinish(t) \/ FlushHang(t)
        PROVE  TypeOK'
    BY <2>8 DEF Finish, Shutdown, FlushFinish, FlushHang
  <2>9. CASE FlushTake
    <3>1. taskList' \in Seq(Task) /\ Head(taskList) \in Task
      BY <2>9, TakeOff DEF FlushTake
    <3> QED BY <2>9, <3>1 DEF FlushTake
  <2>10. CASE FlushEnd \/ Exit \/ SpuriousWakeup
    BY <2>10 DEF FlushEnd, Exit, SpuriousWakeup
  <2>11. CASE UNCHANGED vars
    BY <2>11 DEF vars
  <2> QED
    BY <2>3, <2>4, <2>5, <2>6, <2>7, <2>8, <2>9, <2>10, <2>11 DEF Next, Thread
<1> QED BY <1>1, <1>2, PTL DEF Spec

-----------------------------------------------------------------------------
\* What the program point of the thread says about the tasks it has taken: one
\* at a time runs, one more under flush, and none is left behind.
ThreadInv ==
  /\ \A t, u \in Task : status[t] = "running" /\ status[u] = "running" => t = u
  /\ \A t, u \in Task : status[t] = "flushing" /\ status[u] = "flushing" => t = u
  /\ pc \in {"loop", "wait", "woken", "exited"}
       => \A t \in Task : status[t] # "running"
  /\ pc \notin {"flushrun", "hung"} => \A t \in Task : status[t] # "flushing"
  /\ pc = "stop" => status[Close] = "running"
  /\ pc \in {"flush", "flushrun", "cleanup", "hung", "exited"}
       => threadState = "TERMINATED"
  /\ pc \in {"cleanup", "exited"} => taskList = <<>>

LEMMA ThreadInvHolds == Spec => []ThreadInv
<1>1. Init => ThreadInv
  BY DEF Init, ThreadInv
<1>2. TypeOK /\ ThreadInv /\ [Next]_vars => ThreadInv'
  <2> SUFFICES ASSUME TypeOK, ThreadInv, [Next]_vars PROVE ThreadInv'
    OBVIOUS
  <2> USE DEF ThreadInv, TypeOK, Statuses, PCs
  <2>1. ASSUME NEW t \in Task, AddTask(t) PROVE ThreadInv'
    BY <2>1 DEF AddTask, Enqueue, LockHeld
  <2>2. ASSUME NEW t \in Task, RefuseTask(t) PROVE ThreadInv'
    BY <2>2 DEF RefuseTask
  <2>3. ASSUME NEW t \in Task, NotifyOne(t) PROVE ThreadInv'
    BY <2>3 DEF NotifyOne
  <2>4. ASSUME NEW t \in Task, Expire(t) PROVE ThreadInv'
    BY <2>4 DEF Expire
  <2>5. ASSUME NEW t \in Task, TaskAdds(t) PROVE ThreadInv'
    BY <2>5 DEF TaskAdds, Enqueue, Running
  <2>6. ASSUME TakeFirst, pc \in {"loop", "woken"}, threadState # "TERMINATED",
               threadState' = threadState
        PROVE  ThreadInv'
    <3>1. Head(taskList) \in Task
      BY <2>6, TakeOff DEF TakeFirst
    <3> QED BY <2>6, <3>1 DEF TakeFirst
  <2>7. CASE Take \/ TakeAfterWait
    BY <2>6, <2>7 DEF Take, TakeAfterWait
  <2>8. ASSUME NEW t \in Task, Finish(t) PROVE ThreadInv'
    BY <2>8 DEF Finish, Running
  <2>9. CASE QueueShutdown
    BY <2>9 DEF QueueShutdown, Enqueue, Running
  <2>10. CASE Stop
    BY <2>10 DEF Stop
  <2>11. ASSUME NEW t \in Task, Shutdown(t) PROVE ThreadInv'
    BY <2>11 DEF Shutdown, Running
  <2>12. CASE FlushTake
    <3>1. Head(taskList) \in Task
      BY <2>12, TakeOff DEF FlushTake
    <3> QED BY <2>12, <3>1 DEF FlushTake
  <2>13. ASSUME NEW t \in Task, FlushFinish(t) PROVE ThreadInv'
    BY <2>13 DEF FlushFinish
  <2>14. ASSUME NEW t \in Task, FlushHang(t) PROVE ThreadInv'
    BY <2>14 DEF FlushHang
  <2>15. CASE FlushEnd
    BY <2>15 DEF FlushEnd
  <2>16. CASE Exit
    BY <2>16 DEF Exit
  <2>17. CASE SpuriousWakeup
    BY <2>17 DEF SpuriousWakeup
  <2>18. CASE UNCHANGED vars
    BY <2>18 DEF vars
  <2> QED
    BY <2>1, <2>2, <2>3, <2>4, <2>5, <2>7, <2>8, <2>9, <2>10, <2>11, <2>12,
       <2>13, <2>14, <2>15, <2>16, <2>17, <2>18 DEF Next, Thread
<1> QED BY <1>1, <1>2, TypeCorrect, PTL DEF Spec

-----------------------------------------------------------------------------
\* What makes BackTasksInOrder inductive: only the tasks in the list wait, the
\* list is sorted by stamp but for the front tasks, and no stamp is ahead of
\* the counter.
Sorted ==
  \A i, j \in DOMAIN taskList :
    i < j /\ taskList[i] \in Back /\ taskList[j] \in Back
      => stamp[taskList[i]] < stamp[taskList[j]]
StampsBehindCounter ==
  \A t \in Task : /\ stamp[t] <= accepted
                  /\ status[t] \in {"new", "refused"} => stamp[t] = 0

OrderInv ==
  /\ ListIsTheWaiting
  /\ Sorted
  /\ StampsBehindCounter
  /\ BackTasksInOrder

\* Every step but one that adds or takes a task leaves the list, the stamps and
\* the set of the waiting tasks alone.
LEMMA OrderInvFrame ==
  ASSUME TypeOK, OrderInv,
         UNCHANGED <<taskList, accepted, stamp>>,
         \A t \in Task : status'[t] = "queued" <=> status[t] = "queued",
         \A t \in Task : status'[t] \in {"new", "refused"}
                           => status[t] \in {"new", "refused"}
  PROVE  OrderInv'
BY DEF OrderInv, ListIsTheWaiting, Sorted, StampsBehindCounter,
       BackTasksInOrder, TypeOK

LEMMA OrderInvEnqueue ==
  ASSUME TypeOK, OrderInv, NEW t \in Task, Enqueue(t)
  PROVE  OrderInv'
<1> USE DEF TypeOK, Statuses
<1> DEFINE n == Len(taskList)
           \* the place the task is put at, and where the others move to
           at == IF t \in Front THEN 1 ELSE n + 1
           to(i) == IF t \in Front THEN i + 1 ELSE i
           from(i) == IF t \in Front THEN i - 1 ELSE i
<1>1. /\ stamp'[t] = accepted + 1 /\ accepted' = accepted + 1
      /\ \A u \in Task : u # t => stamp'[u] = stamp[u] /\ stamp[u] <= accepted
      /\ status'[t] = "queued"
      /\ \A u \in Task : u # t => status'[u] = status[u]
  BY DEF Enqueue, OrderInv, StampsBehindCounter
<1>2. /\ n \in Nat /\ DOMAIN taskList = 1 .. n
      /\ DOMAIN taskList' = 1 .. n + 1
      /\ taskList'[at] = t
      /\ \A i \in 1 .. n : taskList'[to(i)] = taskList[i]
  <2>1. CASE t \in Front
    <3>1. taskList' = <<t>> \o taskList /\ taskList \in Seq(Task)
      BY <2>1 DEF Enqueue
    <3>2. /\ taskList' \in Seq(Task) /\ Len(taskList') = n + 1
          /\ taskList'[1] = t
          /\ \A i \in 1 .. n : taskList'[i + 1] = taskList[i]
      BY <3>1, PutInFront
    <3> QED BY <2>1, <3>1, <3>2
  <2>2. CASE t \notin Front
    BY <2>2, PutBehind DEF Enqueue
  <2> QED BY <2>1, <2>2
<1>3. /\ at \in 1 .. n + 1
      /\ \A i \in 1 .. n : to(i) \in 1 .. n + 1 /\ to(i) # at
      /\ \A i \in 1 .. n + 1 : i # at =>
           /\ from(i) \in 1 .. n
           /\ to(from(i)) = i
           /\ taskList'[i] = taskList[from(i)]
      /\ \A i, j \in 1 .. n + 1 : i < j /\ i # at /\ j # at => from(i) < from(j)
  BY <1>2, SMTT(30)
<1>4. \A i \in 1 .. n : /\ taskList[i] \in Task
                        /\ taskList[i] # t
                        /\ status'[taskList[i]] = "queued"
  <2> SUFFICES ASSUME NEW i \in 1 .. n
               PROVE  /\ taskList[i] \in Task /\ taskList[i] # t
                      /\ status'[taskList[i]] = "queued"
    OBVIOUS
  <2>1. i \in DOMAIN taskList /\ taskList[i] \in Task
    BY <1>2
  <2>2. status[taskList[i]] = "queued"
    BY <2>1 DEF OrderInv, ListIsTheWaiting
  <2> QED BY <1>1, <2>1, <2>2 DEF Enqueue
<1> HIDE DEF n, at, to, from
<1>5. ListIsTheWaiting'
  <2>1. ASSUME NEW u \in Task, status'[u] = "queued"
        PROVE  \E i \in 1 .. n + 1 : taskList'[i] = u
    <3>1. CASE u = t
      BY <1>2, <1>3, <3>1
    <3>2. CASE u # t
      <4>1. PICK i \in 1 .. n : taskList[i] = u
        BY <1>1, <1>2, <2>1, <3>2 DEF OrderInv, ListIsTheWaiting
      <4> QED BY <1>2, <1>3, <4>1
    <3> QED BY <3>1, <3>2
  <2>2. ASSUME NEW i \in 1 .. n + 1
        PROVE  status'[taskList'[i]] = "queued"
    <3>1. CASE i = at
      BY <1>1, <1>2, <3>1
    <3>2. CASE i # at
      BY <1>3, <1>4, <3>2
    <3> QED BY <3>1, <3>2
  <2>3. ASSUME NEW i \in 1 .. n + 1, NEW j \in 1 .. n + 1,
               taskList'[i] = taskList'[j]
        PROVE  i = j
    <3>1. CASE i = at \/ j = at
      BY <1>2, <1>3, <1>4, <2>3, <3>1
    <3>2. CASE i # at /\ j # at
      <4>1. from(i) \in DOMAIN taskList /\ from(j) \in DOMAIN taskList
        BY <1>2, <1>3, <3>2
      <4>2. taskList[from(i)] = taskList[from(j)]
        BY <1>3, <2>3, <3>2
      <4>3. from(i) = from(j)
        BY <4>1, <4>2 DEF OrderInv, ListIsTheWaiting
      <4> QED BY <1>3, <3>2, <4>3
    <3> QED BY <3>1, <3>2
  <2>4. \A u \in Task : status'[u] = "queued"
          <=> \E i \in DOMAIN taskList' : taskList'[i] = u
    BY <1>2, <2>1, <2>2
  <2>5. \A i, j \in DOMAIN taskList' : taskList'[i] = taskList'[j] => i = j
    BY <1>2, <2>3
  <2> QED BY <2>4, <2>5 DEF ListIsTheWaiting
<1>6. Sorted'
  <2> SUFFICES ASSUME NEW i \in 1 .. n + 1, NEW j \in 1 .. n + 1, i < j,
                      taskList'[i] \in Back, taskList'[j] \in Back
               PROVE  stamp'[taskList'[i]] < stamp'[taskList'[j]]
    BY <1>2 DEF Sorted
  <2>1. CASE i = at
    <3>1. t \in Back
      BY <1>2, <2>1
    <3> QED BY <1>2, <2>1, <3>1 DEF at
  <2>2. CASE i # at /\ j = at
    <3>1. /\ taskList'[i] = taskList[from(i)] /\ taskList'[j] = t
          /\ taskList[from(i)] \in Task /\ taskList[from(i)] # t
      BY <1>2, <1>3, <1>4, <2>2
    <3>2. stamp'[taskList'[i]] <= accepted
      BY <1>1, <3>1
    <3> QED BY <1>1, <3>1, <3>2
  <2>3. CASE i # at /\ j # at
    <3>1. /\ from(i) \in 1 .. n /\ from(j) \in 1 .. n /\ from(i) < from(j)
          /\ taskList'[i] = taskList[from(i)] /\ taskList'[j] = taskList[from(j)]
      BY <1>3, <2>3
    <3>2. stamp[taskList[from(i)]] < stamp[taskList[from(j)]]
      BY <1>2, <3>1 DEF OrderInv, Sorted
    <3>3. /\ stamp'[taskList'[i]] = stamp[taskList[from(i)]]
          /\ stamp'[taskList'[j]] = stamp[taskList[from(j)]]
      BY <1>1, <1>4, <3>1
    <3> QED BY <3>2, <3>3
  <2> QED BY <2>1, <2>2, <2>3
<1>7. StampsBehindCounter'
  BY <1>1 DEF OrderInv, StampsBehindCounter
<1>8. BackTasksInOrder'
  BY <1>1 DEF OrderInv, StampsBehindCounter, BackTasksInOrder
<1> QED BY <1>5, <1>6, <1>7, <1>8 DEF OrderInv

\* Taking the first task.
LEMMA OrderInvTake ==
  ASSUME TypeOK, OrderInv, taskList # <<>>, taskList' = Tail(taskList),
         NEW st \in {"running", "dropped", "flushing"},
         status' = [status EXCEPT ![Head(taskList)] = st],
         UNCHANGED <<accepted, stamp>>
  PROVE  OrderInv'
<1> DEFINE h == Head(taskList)
<1> USE DEF TypeOK, Statuses
<1>1. /\ h \in Task /\ h = taskList[1]
      /\ DOMAIN taskList = 1 .. Len(taskList)
      /\ Len(taskList) \in Nat \ {0}
      /\ DOMAIN taskList' = 1 .. Len(taskList) - 1
      /\ \A i \in 1 .. Len(taskList) - 1 : taskList'[i] = taskList[i + 1]
      /\ \A i \in 1 .. Len(taskList) : taskList[i] \in Task
  BY TakeOff
<1>2. /\ status'[h] = st
      /\ \A u \in Task : u # h => status'[u] = status[u]
  BY <1>1
<1>3. ListIsTheWaiting'
  <2>1. \A u \in Task : status'[u] = "queued"
          => \E i \in DOMAIN taskList' : taskList'[i] = u
    <3> SUFFICES ASSUME NEW u \in Task, status'[u] = "queued"
                 PROVE  \E i \in DOMAIN taskList' : taskList'[i] = u
      OBVIOUS
    <3>1. u # h /\ status[u] = "queued"
      BY <1>2
    <3>2. PICK i \in 1 .. Len(taskList) : taskList[i] = u
      BY <1>1, <3>1 DEF OrderInv, ListIsTheWaiting
    <3>3. i - 1 \in 1 .. Len(taskList) - 1 /\ taskList'[i - 1] = u
      BY <1>1, <3>1, <3>2
    <3> QED BY <1>1, <3>3
  <2>2. \A i \in DOMAIN taskList' : status'[taskList'[i]] = "queued"
    <3> SUFFICES ASSUME NEW i \in 1 .. Len(taskList) - 1
                 PROVE  status'[taskList'[i]] = "queued"
      BY <1>1
    <3>1. /\ i + 1 \in DOMAIN taskList /\ 1 \in DOMAIN taskList
          /\ taskList'[i] = taskList[i + 1] /\ taskList[i + 1] \in Task
      BY <1>1
    <3>2. i + 1 # 1
      OBVIOUS
    <3>3. taskList[i + 1] # taskList[1]
      BY <3>1, <3>2 DEF OrderInv, ListIsTheWaiting
    <3>4. status[taskList[i + 1]] = "queued"
      BY <3>1 DEF OrderInv, ListIsTheWaiting
    <3> QED BY <1>1, <1>2, <3>1, <3>3, <3>4
  <2>3. \A i, j \in DOMAIN taskList' : taskList'[i] = taskList'[j] => i = j
    BY <1>1, SMTT(30) DEF OrderInv, ListIsTheWaiting
  <2> QED BY <2>1, <2>2, <2>3 DEF ListIsTheWaiting
<1>4. Sorted'
  <2> SUFFICES ASSUME NEW i \in DOMAIN taskList', NEW j \in DOMAIN taskList',
                      i < j, taskList'[i] \in Back, taskList'[j] \in Back
               PROVE  stamp[taskList'[i]] < stamp[taskList'[j]]
    BY <1>1 DEF Sorted
  <2>1. /\ i + 1 \in DOMAIN taskList /\ j + 1 \in DOMAIN taskList /\ i + 1 < j + 1
        /\ taskList'[i] = taskList[i + 1] /\ taskList'[j] = taskList[j + 1]
    BY <1>1, SMTT(30)
  <2> QED BY <2>1 DEF OrderInv, Sorted
<1>5. StampsBehindCounter'
  BY <1>1, <1>2 DEF OrderInv, StampsBehindCounter
<1>6. BackTasksInOrder'
  <2> SUFFICES ASSUME NEW t \in Back, NEW u \in Back,
                      status'[t] = "queued", stamp[u] > stamp[t]
               PROVE  status'[u] = "queued"
    BY DEF BackTasksInOrder
  <2>1. t # h /\ status[t] = "queued" /\ status[u] = "queued"
    BY <1>1, <1>2 DEF OrderInv, BackTasksInOrder
  <2>2. PICK i \in 2 .. Len(taskList) : taskList[i] = t
    BY <1>1, <2>1 DEF OrderInv, ListIsTheWaiting
  <2>3. u # h
    <3>1. 1 \in DOMAIN taskList /\ i \in DOMAIN taskList /\ 1 < i
      BY <1>1, <2>2
    <3>2. h \in Back => stamp[h] < stamp[t]
      BY <1>1, <2>2, <3>1 DEF OrderInv, Sorted
    <3> QED BY <1>1, <3>2
  <2> QED BY <1>2, <2>1, <2>3
<1> QED BY <1>3, <1>4, <1>5, <1>6 DEF OrderInv

LEMMA OrderInvHolds == Spec => []OrderInv
<1>1. Init => OrderInv
  BY DEF Init, OrderInv, ListIsTheWaiting, Sorted, StampsBehindCounter,
         BackTasksInOrder
<1>2. TypeOK /\ ThreadInv /\ OrderInv /\ [Next]_vars => OrderInv'
  <2> SUFFICES ASSUME TypeOK, ThreadInv, OrderInv, [Next]_vars PROVE OrderInv'
    OBVIOUS
  <2>1. ASSUME TakeFirst, UNCHANGED <<accepted, stamp>> PROVE OrderInv'
    BY <2>1, OrderInvTake DEF TakeFirst
  <2>2. ASSUME NEW t \in Task, AddTask(t) \/ TaskAdds(t) PROVE OrderInv'
    BY <2>2, OrderInvEnqueue DEF AddTask, TaskAdds
  <2>3. CASE QueueShutdown
    BY <2>3, OrderInvEnqueue DEF QueueShutdown
  <2>4. CASE Take \/ TakeAfterWait
    BY <2>1, <2>4, OrderInvFrame DEF Take, TakeAfterWait
  <2>5. CASE FlushTake
    BY <2>5, OrderInvTake DEF FlushTake
  <2>6. ASSUME NEW t \in Task,
               \/ RefuseTask(t) \/ NotifyOne(t) \/ Expire(t)
               \/ Finish(t) \/ Shutdown(t) \/ FlushFinish(t) \/ FlushHang(t)
        PROVE  OrderInv'
    BY <2>6, OrderInvFrame
    DEF RefuseTask, NotifyOne, Expire, Finish, Shutdown, FlushFinish,
        FlushHang, TypeOK, Statuses, Running
  <2>7. CASE Stop
    <3>1. status[Close] = "running" /\ Close \in Task
      BY <2>7 DEF Stop, ThreadInv
    <3> QED BY <2>7, <3>1, OrderInvFrame DEF Stop, TypeOK, Statuses
  <2>8. CASE FlushEnd \/ Exit \/ SpuriousWakeup \/ UNCHANGED vars
    BY <2>8, OrderInvFrame DEF FlushEnd, Exit, SpuriousWakeup, vars, TypeOK,
                               Statuses
  <2> QED
    BY <2>2, <2>3, <2>4, <2>5, <2>6, <2>7, <2>8 DEF Next, Thread
<1> QED BY <1>1, <1>2, TypeCorrect, ThreadInvHolds, PTL DEF Spec

\* No task is lost, repeated or overtaken by one that was added behind it, for
\* any set of tasks and any of them put in front.
THEOREM QueueStaysHonest == Spec => []QueueIsHonest
<1>1. OrderInv => QueueIsHonest
  BY DEF OrderInv, QueueIsHonest
<1> QED BY <1>1, OrderInvHolds, PTL

\* At the exit of the process every accepted task has been taken.
THEOREM NothingIsLeftAtExit == Spec => []ExitLeavesNothing
<1>1. TypeOK /\ ThreadInv /\ OrderInv => ExitLeavesNothing
  BY DEF TypeOK, Statuses, ThreadInv, OrderInv, ListIsTheWaiting,
         StampsBehindCounter, ExitLeavesNothing
<1> QED BY <1>1, TypeCorrect, ThreadInvHolds, OrderInvHolds, PTL

-----------------------------------------------------------------------------
\* The thread sleeps on a task only while a notify is on its way.
THEOREM NoWakeupIsLost == Spec => []NoLostWakeup
<1>1. Init => NoLostWakeup
  BY DEF Init, NoLostWakeup
<1>2. TypeOK /\ NoLostWakeup /\ [Next]_vars => NoLostWakeup'
  <2> SUFFICES ASSUME TypeOK, NoLostWakeup, [Next]_vars PROVE NoLostWakeup'
    OBVIOUS
  <2> USE DEF NoLostWakeup
  <2>1. ASSUME NEW t \in Task, AddTask(t) PROVE NoLostWakeup'
    BY <2>1 DEF AddTask, Enqueue
  <2>2. ASSUME NEW t \in Task, NotifyOne(t) PROVE NoLostWakeup'
    BY <2>2 DEF NotifyOne
  <2>3. ASSUME NEW t \in Task, TaskAdds(t) PROVE NoLostWakeup'
    BY <2>3 DEF TaskAdds, Running
  <2>4. ASSUME NEW t \in Task,
               \/ RefuseTask(t) \/ Expire(t) \/ Finish(t) \/ Shutdown(t)
               \/ FlushFinish(t) \/ FlushHang(t)
        PROVE  NoLostWakeup'
    BY <2>4 DEF RefuseTask, Expire, Finish, Shutdown, FlushFinish, FlushHang
  <2>5. CASE Take \/ TakeAfterWait
    BY <2>5 DEF Take, TakeAfterWait, TakeFirst
  <2>6. CASE QueueShutdown \/ Stop \/ FlushTake \/ FlushEnd \/ Exit
    BY <2>6 DEF QueueShutdown, Stop, FlushTake, FlushEnd, Exit
  <2>7. CASE SpuriousWakeup \/ UNCHANGED vars
    BY <2>7 DEF SpuriousWakeup, vars
  <2> QED BY <2>1, <2>2, <2>3, <2>4, <2>5, <2>6, <2>7 DEF Next, Thread
<1> QED BY <1>1, <1>2, TypeCorrect, PTL DEF Spec
=============================================================================
