----------------------------- MODULE ThreadPool -----------------------------
(***************************************************************************)
(* The thread pool of Common/ThreadPool.h with its SafeQueue, as            *)
(* CFileScanFun::EnableScanFileFunction uses it: one owner thread creates    *)
(* the pool, calls init, submits tasks, calls shutdown and then destroys     *)
(* the pool by leaving the scope.                                           *)
(*                                                                         *)
(* A worker tests m_shutdown without a lock, tests the queue under          *)
(* m_conditional_mutex and waits without a predicate.  The owner sets        *)
(* m_shutdown, enqueues and notifies without that mutex, so its steps fall   *)
(* between any two of a worker's.                                           *)
(***************************************************************************)
EXTENDS Naturals, Sequences, FiniteSets

CONSTANTS Workers,    \* m_threads
          MaxTasks,   \* bound: tasks the owner may submit
          None        \* nobody; no task

ASSUME PoolAssumption == None \notin Workers \cup Nat /\ MaxTasks \in Nat

Tasks == 1..MaxTasks

VARIABLES
  m_shutdown,
  m_queue,      \* SafeQueue: every operation is one step under its own lock
  mutex,        \* owner of m_conditional_mutex
  waiting,      \* threads blocked in m_conditional_lock.wait
  wpc,          \* where each worker is
  func,         \* the task a worker has dequeued and not finished
  opc,          \* where the owner is
  \* history
  submitted,    \* number of tasks submitted: tasks are numbered 1, 2, ...
  dequeued,     \* tasks in the order workers took them
  finished,     \* tasks whose function has returned
  missed        \* a worker has gone to sleep after shutdown's notify_all

poolVars == <<m_shutdown, m_queue, mutex, waiting>>
workVars == <<wpc, func>>
histVars == <<submitted, dequeued, finished, missed>>
vars == <<poolVars, workVars, opc, histVars>>

Init ==
  /\ m_shutdown = FALSE /\ m_queue = <<>> /\ mutex = None /\ waiting = {}
  /\ wpc = [w \in Workers |-> "new"] /\ func = [w \in Workers |-> None]
  /\ opc = "init"
  /\ submitted = 0 /\ dequeued = <<>> /\ finished = {} /\ missed = FALSE

-----------------------------------------------------------------------------
(* ThreadWorker::operator(), worker w.                                        *)

Goto(w, l) == wpc' = [wpc EXCEPT ![w] = l]

\* while (!m_pool->m_shutdown)
TestShutdown(w) ==
  /\ wpc[w] = "loop"
  /\ Goto(w, IF m_shutdown THEN "exit" ELSE "lock")
  /\ UNCHANGED <<poolVars, func, opc, histVars>>

Lock(w) ==
  /\ wpc[w] = "lock" /\ mutex = None
  /\ mutex' = w
  /\ Goto(w, "test")
  /\ UNCHANGED <<m_shutdown, m_queue, waiting, func, opc, histVars>>

\* if (m_pool->m_queue.empty())
TestEmpty(w) ==
  /\ wpc[w] = "test"
  /\ Goto(w, IF m_queue = <<>> THEN "towait" ELSE "dequeue")
  /\ UNCHANGED <<poolVars, func, opc, histVars>>

\* m_conditional_lock.wait(lock): releases the mutex and sleeps, in one step.
Wait(w) ==
  /\ wpc[w] = "towait"
  /\ mutex' = None
  /\ waiting' = waiting \cup {w}
  /\ Goto(w, "asleep")
  /\ missed' = (missed \/ opc = "join")
  /\ UNCHANGED <<m_shutdown, m_queue, func, opc, submitted, dequeued, finished>>

\* A condition variable may wake up for no reason.
SpuriousWakeup(w) ==
  /\ w \in waiting
  /\ waiting' = waiting \ {w}
  /\ UNCHANGED <<m_shutdown, m_queue, mutex, workVars, opc, histVars>>

\* Awake again, wait() takes the mutex back before it returns.
Relock(w) ==
  /\ wpc[w] = "asleep" /\ w \notin waiting /\ mutex = None
  /\ mutex' = w
  /\ Goto(w, "dequeue")
  /\ UNCHANGED <<m_shutdown, m_queue, waiting, func, opc, histVars>>

\* Seeded fault: front() without pop().
DequeueNoPop(w) ==
  /\ wpc[w] = "dequeue"
  /\ mutex' = None
  /\ IF m_queue = <<>>
     THEN Goto(w, "loop") /\ UNCHANGED <<func, dequeued>>
     ELSE /\ func' = [func EXCEPT ![w] = Head(m_queue)]
          /\ dequeued' = IF Len(dequeued) < MaxTasks + 1 THEN Append(dequeued, Head(m_queue)) ELSE dequeued
          /\ Goto(w, "run")
  /\ UNCHANGED <<m_queue, m_shutdown, waiting, opc, submitted, finished, missed>>

\* Seeded fault: `true' also when the queue was empty.
DequeueAlwaysTrue(w) ==
  /\ wpc[w] = "dequeue"
  /\ mutex' = None
  /\ Goto(w, "run")
  /\ IF m_queue = <<>>
     THEN UNCHANGED <<m_queue, func, dequeued>>
     ELSE /\ func' = [func EXCEPT ![w] = Head(m_queue)]
          /\ m_queue' = Tail(m_queue)
          /\ dequeued' = Append(dequeued, Head(m_queue))
  /\ UNCHANGED <<m_shutdown, waiting, opc, submitted, finished, missed>>

\* Seeded fault: pop() without `t = std::move(front())'.
DequeueNoMove(w) ==
  /\ wpc[w] = "dequeue"
  /\ mutex' = None
  /\ IF m_queue = <<>>
     THEN Goto(w, "loop") /\ UNCHANGED <<m_queue, dequeued>>
     ELSE /\ m_queue' = Tail(m_queue)
          /\ dequeued' = Append(dequeued, Head(m_queue))
          /\ Goto(w, "run")
  /\ UNCHANGED <<func, m_shutdown, waiting, opc, submitted, finished, missed>>

\* dequeued = m_queue.dequeue(func), and the end of the locked scope.
Dequeue(w) ==
  /\ wpc[w] = "dequeue"
  /\ mutex' = None
  /\ IF m_queue = <<>>
     THEN /\ Goto(w, "loop")
          /\ UNCHANGED <<m_queue, func, dequeued>>
     ELSE /\ func' = [func EXCEPT ![w] = Head(m_queue)]
          /\ m_queue' = Tail(m_queue)
          /\ dequeued' = Append(dequeued, Head(m_queue))
          /\ Goto(w, "run")
  /\ UNCHANGED <<m_shutdown, waiting, opc, submitted, finished, missed>>

\* func()
Run(w) ==
  /\ wpc[w] = "run"
  /\ finished' = finished \cup {func[w]}
  /\ func' = [func EXCEPT ![w] = None]
  /\ Goto(w, "loop")
  /\ UNCHANGED <<poolVars, opc, submitted, dequeued, missed>>

WorkerStep(w) ==
  \/ TestShutdown(w) \/ Lock(w) \/ TestEmpty(w) \/ Wait(w)
  \/ Relock(w) \/ Dequeue(w) \/ Run(w)

-----------------------------------------------------------------------------
(* The owner.                                                                *)

\* init starts the threads one after the other; they run at once.
InitThread(w) ==
  /\ opc = "init" /\ wpc[w] = "new"
  /\ Goto(w, "loop")
  /\ UNCHANGED <<poolVars, func, opc, histVars>>

InitDone ==
  /\ opc = "init" /\ \A w \in Workers : wpc[w] # "new"
  /\ opc' = "ready"
  /\ UNCHANGED <<poolVars, workVars, histVars>>

\* submit: enqueue ...
SubmitEnqueue ==
  /\ opc = "ready" /\ submitted < MaxTasks
  /\ submitted' = submitted + 1
  /\ m_queue' = Append(m_queue, submitted + 1)
  /\ opc' = "notify"
  /\ UNCHANGED <<m_shutdown, mutex, waiting, workVars, dequeued, finished, missed>>

\* ... then notify_one: wakes one sleeper, or nobody when nobody sleeps.
SubmitNotify ==
  /\ opc = "notify"
  /\ IF waiting = {} THEN UNCHANGED waiting
                     ELSE \E w \in waiting : waiting' = waiting \ {w}
  /\ opc' = "ready"
  /\ UNCHANGED <<m_shutdown, m_queue, mutex, workVars, histVars>>

\* shutdown: m_shutdown = true ...
ShutdownFlag ==
  /\ opc = "ready"
  /\ m_shutdown' = TRUE
  /\ opc' = "notify_all"
  /\ UNCHANGED <<m_queue, mutex, waiting, workVars, histVars>>

\* Seeded fault: notify_one.
ShutdownNotifyOne ==
  /\ opc = "notify_all"
  /\ IF waiting = {} THEN UNCHANGED waiting
                     ELSE \E w \in waiting : waiting' = waiting \ {w}
  /\ opc' = "join"
  /\ UNCHANGED <<m_shutdown, m_queue, mutex, workVars, histVars>>

\* ... notify_all ...
ShutdownNotify ==
  /\ opc = "notify_all"
  /\ waiting' = {}
  /\ opc' = "join"
  /\ UNCHANGED <<m_shutdown, m_queue, mutex, workVars, histVars>>

\* Seeded fault: only one thread is joined.
ShutdownJoinOne ==
  /\ opc = "join" /\ \E w \in Workers : wpc[w] = "exit"
  /\ opc' = "done"
  /\ UNCHANGED <<poolVars, workVars, histVars>>

\* ... and join of every thread; the pool is destroyed on return.
ShutdownJoin ==
  /\ opc = "join" /\ \A w \in Workers : wpc[w] = "exit"
  /\ opc' = "done"
  /\ UNCHANGED <<poolVars, workVars, histVars>>

OwnerStep ==
  \/ \E w \in Workers : InitThread(w)
  \/ InitDone \/ SubmitEnqueue \/ SubmitNotify
  \/ ShutdownFlag \/ ShutdownNotify \/ ShutdownJoin

Next ==
  \/ OwnerStep
  \/ \E w \in Workers : WorkerStep(w) \/ SpuriousWakeup(w)

Spec == Init /\ [][Next]_vars

\* Threads are scheduled, tasks return, the mutex is handed to a waiter in the end
\* (strong fairness of taking it), and the owner goes through to shutdown.
\* Nothing promises a spurious wakeup.
Fairness ==
  /\ WF_vars(OwnerStep)
  /\ \A w \in Workers : /\ WF_vars(WorkerStep(w))
                        /\ SF_vars(Lock(w) \/ Relock(w))

FairSpec == Spec /\ Fairness

-----------------------------------------------------------------------------
(* Properties.                                                               *)

\* Every variable has its type.
TypeOK ==
  /\ m_shutdown \in BOOLEAN /\ m_queue \in Seq(Tasks)
  /\ mutex \in Workers \cup {None} /\ waiting \subseteq Workers
  /\ wpc \in [Workers -> {"new", "loop", "lock", "test", "towait", "asleep",
                          "dequeue", "run", "exit"}]
  /\ func \in [Workers -> Tasks \cup {None}]
  /\ opc \in {"init", "ready", "notify", "notify_all", "join", "done"}
  /\ submitted \in 0..MaxTasks /\ dequeued \in Seq(Tasks)
  /\ finished \subseteq Tasks /\ missed \in BOOLEAN

\* The tasks workers have taken, followed by the queue, are the tasks submitted, in
\* order: no task is taken twice or out of turn, whoever is woken (ThreadPool.h 33-41).
TasksInOrder == dequeued \o m_queue = [i \in 1..submitted |-> i]

\* A worker has taken task t; the workers that are running it.
Taken(t) == \E i \in 1..Len(dequeued) : dequeued[i] = t
Running(t) == {w \in Workers : func[w] = t}

\* A task that was taken is running in exactly one worker or has finished, never both:
\* a task runs at most once, and shutdown does not drop one that a worker has taken.
TakenRunsOnce ==
  \A t \in Tasks :
    /\ Taken(t) <=> t \in finished \/ Running(t) # {}
    /\ t \in finished => Running(t) = {}
    /\ \A v, w \in Running(t) : v = w

\* When shutdown has returned no worker can touch the pool again, and every task a
\* worker had taken has finished: the owner may destroy the pool (ThreadPool.h 84-97).
ShutdownIsSafe ==
  opc = "done" => /\ \A w \in Workers : wpc[w] = "exit" /\ w # mutex /\ w \notin waiting
                  /\ \A i \in 1..Len(dequeued) : dequeued[i] \in finished

\* shutdown hangs in one way only: a worker that read m_shutdown before it was set
\* goes to sleep after notify_all.  Otherwise every worker leaves and shutdown returns.
ShutdownReturnsUnlessMissed == (opc = "join") ~> (opc = "done" \/ missed)

\* `Waits until threads finish their current task and shutdowns the pool'
\* (ThreadPool.h:84): shutdown returns.
ShutdownReturns == (opc = "join") ~> (opc = "done")
=============================================================================
