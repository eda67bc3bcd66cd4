-------------------------- MODULE ThreadPoolProofs --------------------------
(***************************************************************************)
(* Proofs about the thread pool, for any set of workers and any number of   *)
(* tasks: tasks are taken in order, each runs once, and after shutdown the   *)
(* pool may be destroyed.                                                   *)
(***************************************************************************)
EXTENDS ThreadPool, TLAPS

\* The worker between taking m_conditional_mutex and giving it up owns it.
Locked == \A w \in Workers : wpc[w] \in {"test", "towait", "dequeue"} <=> mutex = w

\* A worker holds a task exactly while it runs it, and waits only inside wait().
Holding == \A w \in Workers : /\ func[w] # None <=> wpc[w] = "run"
                              /\ w \in waiting => wpc[w] = "asleep"

\* shutdown returns after every thread has left its loop.
Joined == opc = "done" => \A w \in Workers : wpc[w] = "exit"

IInv == TypeOK /\ Locked /\ Holding /\ Joined /\ TasksInOrder /\ TakenRunsOnce

\* With the tasks in order the ones taken are the first ones, and the head of the
\* queue is the next number.
LEMMA NextTask ==
  ASSUME TypeOK, TasksInOrder
  PROVE  /\ Len(dequeued) \in Nat
         /\ \A i \in 1..Len(dequeued) : dequeued[i] = i
         /\ \A t : Taken(t) <=> t \in 1..Len(dequeued)
         /\ m_queue # <<>> => Head(m_queue) = Len(dequeued) + 1 /\ Head(m_queue) \in Tasks
<1>1. dequeued \in Seq(Tasks) /\ m_queue \in Seq(Tasks) /\ submitted \in Nat
  BY PoolAssumption DEF TypeOK
<1>2. Len(dequeued \o m_queue) = Len(dequeued) + Len(m_queue) /\ Len(dequeued) \in Nat
  BY <1>1
<1>3. Len(dequeued \o m_queue) = submitted
  BY <1>1 DEF TasksInOrder
<1>4. ASSUME NEW i \in 1..Len(dequeued)
      PROVE  dequeued[i] = i
  <2>1. (dequeued \o m_queue)[i] = dequeued[i]
    BY <1>1
  <2>2. i \in 1..submitted
    BY <1>1, <1>2, <1>3
  <2> QED
    BY <2>1, <2>2 DEF TasksInOrder
<1>5. \A t : Taken(t) <=> t \in 1..Len(dequeued)
  BY <1>4 DEF Taken
<1>6. ASSUME m_queue # <<>>
      PROVE  Head(m_queue) = Len(dequeued) + 1 /\ Head(m_queue) \in Tasks
  <2>1. Len(m_queue) > 0 /\ Head(m_queue) = m_queue[1] /\ m_queue[1] \in Tasks
    BY <1>1, <1>6
  <2>2. (dequeued \o m_queue)[Len(dequeued) + 1] = m_queue[1]
    BY <1>1, <2>1
  <2>3. Len(dequeued) + 1 \in 1..submitted
    BY <1>1, <1>2, <1>3, <2>1
  <2> QED
    BY <2>1, <2>2, <2>3 DEF TasksInOrder
<1> QED
  BY <1>2, <1>4, <1>5, <1>6

LEMMA TypePreserved ==
  ASSUME TypeOK, Locked, Holding, [Next]_vars
  PROVE  TypeOK'
<1> USE DEF TypeOK, Goto, poolVars, workVars, histVars
<1>1. ASSUME NEW w \in Workers, TestShutdown(w) PROVE TypeOK'
  BY <1>1 DEF TestShutdown
<1>2. ASSUME NEW w \in Workers, Lock(w) PROVE TypeOK'
  BY <1>2 DEF Lock
<1>3. ASSUME NEW w \in Workers, TestEmpty(w) PROVE TypeOK'
  BY <1>3 DEF TestEmpty
<1>4. ASSUME NEW w \in Workers, Wait(w) PROVE TypeOK'
  BY <1>4 DEF Wait
<1>5. ASSUME NEW w \in Workers, SpuriousWakeup(w) PROVE TypeOK'
  BY <1>5 DEF SpuriousWakeup
<1>6. ASSUME NEW w \in Workers, Relock(w) PROVE TypeOK'
  BY <1>6 DEF Relock
<1>7. ASSUME NEW w \in Workers, Dequeue(w) PROVE TypeOK'
  <2>1. CASE m_queue = <<>>
    BY <1>7, <2>1 DEF Dequeue
  <2>2. CASE m_queue # <<>>
    <3>1. Head(m_queue) \in Tasks /\ Tail(m_queue) \in Seq(Tasks)
      BY <2>2
    <3>2. Append(dequeued, Head(m_queue)) \in Seq(Tasks)
      BY <3>1
    <3> QED
      BY <1>7, <2>2, <3>1, <3>2 DEF Dequeue
  <2> QED
    BY <2>1, <2>2
<1>8. ASSUME NEW w \in Workers, Run(w) PROVE TypeOK'
  BY <1>8, PoolAssumption DEF Run, Holding
<1>9. ASSUME NEW w \in Workers, InitThread(w) PROVE TypeOK'
  BY <1>9 DEF InitThread
<1>10. CASE InitDone \/ SubmitNotify
  BY <1>10 DEF InitDone, SubmitNotify
<1>11. CASE SubmitEnqueue
  <2>1. submitted + 1 \in Tasks
    BY <1>11, PoolAssumption DEF SubmitEnqueue, Tasks
  <2>2. Append(m_queue, submitted + 1) \in Seq(Tasks)
    BY <2>1
  <2>3. submitted' \in 0..MaxTasks
    BY <1>11, PoolAssumption DEF SubmitEnqueue
  <2> QED
    BY <1>11, <2>2, <2>3 DEF SubmitEnqueue
<1>12. CASE ShutdownFlag \/ ShutdownNotify \/ ShutdownJoin
  BY <1>12 DEF ShutdownFlag, ShutdownNotify, ShutdownJoin
<1>13. CASE UNCHANGED vars
  BY <1>13 DEF vars
<1> QED
  BY <1>1, <1>2, <1>3, <1>4, <1>5, <1>6, <1>7, <1>8, <1>9, <1>10, <1>11, <1>12, <1>13
  DEF Next, OwnerStep, WorkerStep

\* Control: who owns the mutex, who holds a task, who waits, who has left.
LEMMA ControlPreserved ==
  ASSUME TypeOK, Locked, Holding, Joined, [Next]_vars
  PROVE  Locked' /\ Holding' /\ Joined'
<1> USE DEF TypeOK, Locked, Holding, Joined, Goto, poolVars, workVars, histVars
<1> DEFINE Control == Locked /\ Holding /\ Joined
<1>1. ASSUME NEW w \in Workers, TestShutdown(w) PROVE Control'
  BY <1>1 DEF TestShutdown
<1>2. ASSUME NEW w \in Workers, Lock(w) PROVE Control'
  BY <1>2, PoolAssumption DEF Lock
<1>3. ASSUME NEW w \in Workers, TestEmpty(w) PROVE Control'
  BY <1>3 DEF TestEmpty
<1>4. ASSUME NEW w \in Workers, Wait(w) PROVE Control'
  BY <1>4, PoolAssumption DEF Wait
<1>5. ASSUME NEW w \in Workers, SpuriousWakeup(w) PROVE Control'
  BY <1>5 DEF SpuriousWakeup
<1>6. ASSUME NEW w \in Workers, Relock(w) PROVE Control'
  BY <1>6, PoolAssumption DEF Relock
<1>7. ASSUME NEW w \in Workers, Dequeue(w) PROVE Control'
  <2>1. mutex' = None /\ mutex = w
    BY <1>7 DEF Dequeue
  <2>2. CASE m_queue = <<>>
    BY <1>7, <2>1, <2>2, PoolAssumption DEF Dequeue
  <2>3. CASE m_queue # <<>>
    <3>1. Head(m_queue) \in Tasks
      BY <2>3
    <3>2. Head(m_queue) # None
      BY <3>1, PoolAssumption DEF Tasks
    <3>3. wpc' = [wpc EXCEPT ![w] = "run"] /\ func' = [func EXCEPT ![w] = Head(m_queue)]
      BY <1>7, <2>3 DEF Dequeue
    <3>4. Locked'
      BY <2>1, <3>3, PoolAssumption
    <3>5. Holding'
      BY <1>7, <3>2, <3>3 DEF Dequeue
    <3>6. Joined'
      BY <1>7 DEF Dequeue
    <3> QED
      BY <3>4, <3>5, <3>6
  <2> QED
    BY <2>2, <2>3
<1>8. ASSUME NEW w \in Workers, Run(w) PROVE Control'
  BY <1>8 DEF Run
<1>9. ASSUME NEW w \in Workers, InitThread(w) PROVE Control'
  BY <1>9 DEF InitThread
<1>10. CASE InitDone \/ SubmitEnqueue \/ SubmitNotify
  BY <1>10 DEF InitDone, SubmitEnqueue, SubmitNotify
<1>11. CASE ShutdownFlag \/ ShutdownNotify \/ ShutdownJoin
  BY <1>11 DEF ShutdownFlag, ShutdownNotify, ShutdownJoin
<1>12. CASE UNCHANGED vars
  BY <1>12 DEF vars
<1> HIDE DEF TypeOK, Locked, Holding, Joined
<1> QED
  BY <1>1, <1>2, <1>3, <1>4, <1>5, <1>6, <1>7, <1>8, <1>9, <1>10, <1>11, <1>12
  DEF Next, OwnerStep, WorkerStep

\* The steps that touch neither the queue nor the tasks taken, running and finished.
LEMMA OtherSteps ==
  ASSUME [Next]_vars, ~SubmitEnqueue,
         \A w \in Workers : ~Dequeue(w), \A w \in Workers : ~Run(w)
  PROVE  UNCHANGED <<m_queue, func, submitted, dequeued, finished>>
BY DEF Next, OwnerStep, WorkerStep, TestShutdown, Lock, TestEmpty, Wait, SpuriousWakeup, Relock,
   InitThread, InitDone, SubmitNotify, ShutdownFlag, ShutdownNotify, ShutdownJoin,
   vars, poolVars, workVars, histVars

\* submit appends the next number; dequeue moves the head from one sequence to the other.
LEMMA OrderPreserved ==
  ASSUME TypeOK, TasksInOrder, [Next]_vars
  PROVE  TasksInOrder'
<1>1. dequeued \in Seq(Tasks) /\ m_queue \in Seq(Tasks) /\ submitted \in Nat
  BY PoolAssumption DEF TypeOK
<1>2. CASE SubmitEnqueue
  <2>1. dequeued' \o m_queue' = Append(dequeued \o m_queue, submitted + 1)
    BY <1>1, <1>2 DEF SubmitEnqueue
  <2>2. Append([i \in 1..submitted |-> i], submitted + 1) = [i \in 1..(submitted + 1) |-> i]
    BY <1>1
  <2> QED
    BY <1>2, <2>1, <2>2 DEF TasksInOrder, SubmitEnqueue
<1>3. ASSUME NEW w \in Workers, Dequeue(w)
      PROVE  TasksInOrder'
  <2>1. CASE m_queue = <<>>
    BY <1>3, <2>1 DEF Dequeue, TasksInOrder
  <2>2. CASE m_queue # <<>>
    <3>1. Append(dequeued, Head(m_queue)) \o Tail(m_queue) = dequeued \o m_queue
      BY <1>1, <2>2
    <3> QED
      BY <1>3, <2>2, <3>1 DEF Dequeue, TasksInOrder
  <2> QED
    BY <2>1, <2>2
<1>4. ASSUME NEW w \in Workers, Run(w)
      PROVE  TasksInOrder'
  BY <1>4 DEF Run, TasksInOrder, poolVars
<1>5. CASE UNCHANGED <<m_queue, func, submitted, dequeued, finished>>
  BY <1>5 DEF TasksInOrder
<1> QED
  BY <1>2, <1>3, <1>4, <1>5, OtherSteps

\* The task a worker takes is new, and the one it finishes was its own.
LEMMA OncePreserved ==
  ASSUME TypeOK, Holding, TasksInOrder, TakenRunsOnce, [Next]_vars
  PROVE  TakenRunsOnce'
<1>1. CASE SubmitEnqueue
  BY <1>1 DEF SubmitEnqueue, TakenRunsOnce, Taken, Running, workVars
<1>2. ASSUME NEW w \in Workers, Dequeue(w)
      PROVE  TakenRunsOnce'
  <2>1. CASE m_queue = <<>>
    BY <1>2, <2>1 DEF Dequeue, TakenRunsOnce, Taken, Running
  <2>2. CASE m_queue # <<>>
    <3> DEFINE h == Head(m_queue)
    <3>1. h \in Tasks /\ h = Len(dequeued) + 1 /\ ~Taken(h)
      BY <2>2, NextTask
    <3>2. h \notin finished /\ Running(h) = {}
      BY <3>1 DEF TakenRunsOnce
    <3>3. func[w] = None /\ None \notin Tasks
      BY <1>2, PoolAssumption DEF Dequeue, Holding, Tasks
    <3>4. \A t \in Tasks : Running(t)' = IF t = h THEN {w} ELSE Running(t)
      <4>1. func' = [func EXCEPT ![w] = h] /\ func \in [Workers -> Tasks \cup {None}]
        BY <1>2, <2>2 DEF Dequeue, TypeOK
      <4> HIDE DEF h
      <4> QED
        BY <4>1, <3>2, <3>3 DEF Running
    <3>5. \A t \in Tasks : Taken(t)' <=> Taken(t) \/ t = h
      <4>1. dequeued' = Append(dequeued, h) /\ dequeued \in Seq(Tasks)
        BY <1>2, <2>2 DEF Dequeue, TypeOK
      <4> HIDE DEF h
      <4> QED
        BY <4>1, <3>1 DEF Taken
    <3>6. finished' = finished
      BY <1>2 DEF Dequeue
    <3> HIDE DEF h
    <3> QED
      BY <3>1, <3>2, <3>4, <3>5, <3>6 DEF TakenRunsOnce
  <2> QED
    BY <2>1, <2>2
<1>3. ASSUME NEW w \in Workers, Run(w)
      PROVE  TakenRunsOnce'
  <2>1. func[w] \in Tasks /\ func \in [Workers -> Tasks \cup {None}] /\ None \notin Tasks
    BY <1>3, PoolAssumption DEF Run, Holding, TypeOK, Tasks
  <2>2. w \in Running(func[w])
    BY DEF Running
  <2>3. \A t \in Tasks : Running(t)' = IF t = func[w] THEN {} ELSE Running(t)
    BY <1>3, <2>1, <2>2 DEF Run, Running, TakenRunsOnce
  <2>4. \A t \in Tasks : Taken(t)' <=> Taken(t)
    BY <1>3 DEF Run, Taken
  <2>5. finished' = finished \cup {func[w]}
    BY <1>3 DEF Run
  <2> QED
    BY <2>1, <2>2, <2>3, <2>4, <2>5 DEF TakenRunsOnce
<1>4. CASE UNCHANGED <<m_queue, func, submitted, dequeued, finished>>
  BY <1>4 DEF TakenRunsOnce, Taken, Running
<1> QED
  BY <1>1, <1>2, <1>3, <1>4, OtherSteps

LEMMA InitInvariant ==
  ASSUME Init PROVE IInv
<1> USE DEF Init
<1>1. TypeOK
  <2>1. m_queue \in Seq(Tasks) /\ dequeued \in Seq(Tasks)
    OBVIOUS
  <2>2. submitted \in 0..MaxTasks
    BY PoolAssumption
  <2>3. /\ wpc \in [Workers -> {"new", "loop", "lock", "test", "towait", "asleep",
                               "dequeue", "run", "exit"}]
        /\ func \in [Workers -> Tasks \cup {None}]
    OBVIOUS
  <2> QED
    BY <2>1, <2>2, <2>3 DEF TypeOK
<1>2. Locked /\ Holding /\ Joined
  BY PoolAssumption DEF Locked, Holding, Joined
<1>3. TasksInOrder
  BY DEF TasksInOrder
<1>4. TakenRunsOnce
  BY PoolAssumption DEF TakenRunsOnce, Taken, Running, Tasks
<1> QED
  BY <1>1, <1>2, <1>3, <1>4 DEF IInv

\* The inductive invariant of the pool holds in every reachable state.
THEOREM PoolInvariance == Spec => []IInv
<1>1. Init => IInv
  BY InitInvariant
<1>2. IInv /\ [Next]_vars => IInv'
  BY TypePreserved, ControlPreserved, OrderPreserved, OncePreserved DEF IInv
<1> QED
  BY <1>1, <1>2, PTL DEF Spec

\* Every variable of the pool keeps its type.
THEOREM PoolTypeCorrect == Spec => []TypeOK
BY PoolInvariance, PTL DEF IInv

\* Workers take the tasks in the order submit queued them, none twice.
THEOREM TasksAreTakenInOrder == Spec => []TasksInOrder
BY PoolInvariance, PTL DEF IInv

\* A task that was taken runs in one worker, once, and finishes unless it is running.
THEOREM TasksRunOnce == Spec => []TakenRunsOnce
BY PoolInvariance, PTL DEF IInv

\* After shutdown has returned no worker uses the pool and nothing taken is unfinished.
THEOREM ShutdownSafe == Spec => []ShutdownIsSafe
<1>1. ASSUME IInv, opc = "done", NEW w \in Workers
      PROVE  wpc[w] = "exit" /\ w # mutex /\ w \notin waiting /\ func[w] = None
  BY <1>1 DEF IInv, Locked, Holding, Joined
<1>2. ASSUME IInv, opc = "done", NEW i \in 1..Len(dequeued)
      PROVE  dequeued[i] \in finished
  <2>1. dequeued[i] \in Tasks /\ Taken(dequeued[i])
    BY <1>2 DEF IInv, TypeOK, Taken
  <2>2. None \notin Tasks
    BY PoolAssumption DEF Tasks
  <2>3. Running(dequeued[i]) = {}
    BY <1>1, <1>2, <2>1, <2>2 DEF Running
  <2> QED
    BY <1>2, <2>1, <2>3 DEF IInv, TakenRunsOnce
<1>3. IInv => ShutdownIsSafe
  BY <1>1, <1>2 DEF ShutdownIsSafe
<1> QED
  BY <1>3, PoolInvariance, PTL
=============================================================================
