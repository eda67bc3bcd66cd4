-------------------------------- MODULE Timer --------------------------------
(***************************************************************************)
(* Timer of Common/TimerHelper.h: one worker thread runs tasks at their      *)
(* times; add, remove, stop and the destructor are called by other threads.  *)
(* No part of the system creates a Timer at present (Main.cpp 41-42 is       *)
(* commented out); the module is about the class, for any client.            *)
(*                                                                         *)
(* Time is relative: due is the time until the task is due, and Tick lowers  *)
(* it wherever the task is.  The mutex is held by the worker exactly at the  *)
(* labels of Locked; add and remove hold it for one step.  The worker puts a *)
(* repeated task back, and draws its id, without the mutex.                  *)
(***************************************************************************)
EXTENDS Integers, Sequences

CONSTANTS Tasks,     \* tasks a client may add, each once
          Clients,   \* the clients: which tasks one adds, with their period_ms
                     \* and repeated, and which it removes
          MaxLate,   \* bound: being later than this is not told apart
          MaxId      \* bound: ids from MaxId on are not told apart

ASSUME TimerAssumption ==
  /\ \A c \in Clients :
       /\ DOMAIN c.period = DOMAIN c.repeated /\ DOMAIN c.period \subseteq Tasks
       /\ \A t \in DOMAIN c.period : c.period[t] \in Nat /\ c.repeated[t] \in BOOLEAN
  /\ MaxLate \in Nat /\ MaxId \in Nat /\ "none" \notin Tasks

VARIABLES
  client,     \* who uses the timer
  m_tasks,    \* the multimap: tasks in the order of their keys
  m_stop, m_cur_id,
  id, due, removed,   \* fields of Task; due is its key
  apc,        \* where the add of each task is
  ret,        \* the id that add returned
  wpc,        \* where the worker is
  wtask,      \* the task in its hands
  wtime,      \* what is left of its timed wait
  opc,        \* where the owner is: stop() and the destructor
  told,       \* history: tasks for which remove has returned true
  done,       \* history: tasks that have run
  lateRuns,   \* history: runs of a task after remove returned true, at most 2
  missed,     \* history: the destructor's notify met a worker about to sleep
  raced,      \* history: the map was accessed during an unlocked emplace
  idRaced     \* history: m_cur_id was accessed during an add, or exceeds MaxId

fields == <<id, due, removed>>
worker == <<wpc, wtask, wtime>>
history == <<told, done, lateRuns, missed, raced, idRaced>>
vars == <<client, m_tasks, m_stop, m_cur_id, fields, apc, ret, worker, opc, history>>

NoTask == "none"

Init ==
  /\ client \in Clients
  /\ m_tasks = <<>> /\ m_stop = FALSE /\ m_cur_id = 0
  /\ id = [t \in Tasks |-> 0] /\ due = [t \in Tasks |-> 0]
  /\ removed = [t \in Tasks |-> FALSE]
  /\ apc = [t \in Tasks |-> "none"]
  /\ ret = [t \in Tasks |-> 0]
  /\ wpc = "lock" /\ wtask = NoTask /\ wtime = 0
  /\ opc = "live"
  /\ told = {} /\ done = {} /\ lateRuns = [t \in Tasks |-> 0]
  /\ missed = FALSE /\ raced = FALSE /\ idRaced = FALSE

Locked == wpc \in {"test", "sleep", "body", "tsleep"}

InMap == {m_tasks[i] : i \in 1..Len(m_tasks)}

\* emplace: behind every task that is not due later.
Emplace(t) ==
  \E k \in 0..Len(m_tasks) :
    /\ \A i \in 1..k : due[m_tasks[i]] <= due[t]
    /\ \A i \in (k + 1)..Len(m_tasks) : due[m_tasks[i]] > due[t]
    /\ m_tasks' = [i \in 1..(Len(m_tasks) + 1) |->
                    IF i <= k THEN m_tasks[i] ELSE IF i = k + 1 THEN t ELSE m_tasks[i - 1]]

\* Any access to the map while the worker is in its unlocked emplace is a data
\* race.
MapAccess == raced' = (raced \/ wpc = "insert")

\* An access to m_cur_id by p while another thread is between its accesses.
Adding == {t \in Tasks : apc[t] \in {"lock", "notify", "return", "store"}}
Drawing == wpc = "storeid"
IdAccess(p) == idRaced' = (idRaced \/ Adding \ {p} # {} \/ Drawing)

\* After such a race ids are not followed: every new one is MaxId, and remove
\* may find any task.
Follow(n) == IF idRaced' THEN MaxId ELSE n

\* m_cur_id is written.
StoreId(n) ==
  /\ idRaced' = (idRaced \/ n > MaxId)
  /\ m_cur_id' = Follow(n)

\* notify_all: a worker that has tested its predicate and does not wait yet is
\* not reached.
Notify ==
  \/ wpc \in {"wait", "timed"} /\ wpc' = "lock" /\ wtime' = 0
  \/ wpc \notin {"wait", "timed"} /\ UNCHANGED <<wpc, wtime>>

-----------------------------------------------------------------------------
(* add, for task t.                                                           *)

AddBuild(t) ==
  /\ t \in DOMAIN client.period /\ apc[t] = "none"
  /\ opc \in {"live", "snotify", "stopped"}
  /\ apc' = [apc EXCEPT ![t] = "lock"]
  /\ due' = [due EXCEPT ![t] = client.period[t]]
  /\ IdAccess(t)
  /\ id' = [id EXCEPT ![t] = Follow(m_cur_id)]
  /\ UNCHANGED <<m_tasks, m_stop, m_cur_id, removed, ret, worker, opc,
                 told, done, lateRuns, missed, raced>>

\* After a data race the node may be missing from the tree (or worse: Wreck).
AddEmplace(t) ==
  /\ apc[t] = "lock" /\ ~Locked
  /\ apc' = [apc EXCEPT ![t] = "notify"]
  /\ MapAccess
  /\ \/ Emplace(t)
     \/ wpc = "insert" /\ UNCHANGED m_tasks
  /\ UNCHANGED <<m_stop, m_cur_id, fields, ret, worker, opc,
                 told, done, lateRuns, missed, idRaced>>

AddNotify(t) ==
  /\ apc[t] = "notify"
  /\ apc' = [apc EXCEPT ![t] = "return"]
  /\ Notify
  /\ UNCHANGED <<m_tasks, m_stop, m_cur_id, fields, ret, wtask,
                 opc, history>>

\* Seeded fault: ++m_cur_id is returned.
ReturnNext(t) ==
  /\ apc[t] = "return"
  /\ apc' = [apc EXCEPT ![t] = "store"]
  /\ IdAccess(t)
  /\ ret' = [ret EXCEPT ![t] = Follow(m_cur_id + 1)]
  /\ UNCHANGED <<m_tasks, m_stop, m_cur_id, fields, worker, opc,
                 told, done, lateRuns, missed, raced>>

\* return m_cur_id++: the read ...
AddReturn(t) ==
  /\ apc[t] = "return"
  /\ apc' = [apc EXCEPT ![t] = "store"]
  /\ IdAccess(t)
  /\ ret' = [ret EXCEPT ![t] = Follow(m_cur_id)]
  /\ UNCHANGED <<m_tasks, m_stop, m_cur_id, fields, worker, opc,
                 told, done, lateRuns, missed, raced>>

\* ... and the write.
AddStoreId(t) ==
  /\ apc[t] = "store"
  /\ apc' = [apc EXCEPT ![t] = "added"]
  /\ StoreId(ret[t] + 1)
  /\ UNCHANGED <<m_tasks, m_stop, fields, ret, worker, opc,
                 told, done, lateRuns, missed, raced>>

-----------------------------------------------------------------------------
(* remove, with the id that add returned for t: it marks the first task with  *)
(* that id, and does not take it out.                                         *)

Remove(t) ==
  /\ t \in client.removes /\ apc[t] = "added" /\ ~Locked
  /\ opc \in {"live", "snotify", "stopped"}
  /\ MapAccess
  /\ LET matching == {i \in DOMAIN m_tasks : id[m_tasks[i]] = ret[t]}
         found == IF idRaced THEN InMap
                  ELSE {m_tasks[i] : i \in {i \in matching : \A j \in matching : i <= j}}
     IN  \/ \E u \in found :
              /\ removed' = [removed EXCEPT ![u] = TRUE]
              /\ told' = told \cup {u}
         \/ (found = {} \/ idRaced) /\ UNCHANGED <<removed, told>>
  /\ UNCHANGED <<m_tasks, m_stop, m_cur_id, id, due, apc, ret,
                 worker, opc, done, lateRuns, missed, idRaced>>

-----------------------------------------------------------------------------
(* run, on the worker.                                                        *)

RunLock ==
  /\ wpc = "lock"
  /\ wpc' = "test"
  /\ UNCHANGED <<m_tasks, m_stop, m_cur_id, fields, apc, ret,
                 wtask, wtime, opc, history>>

\* Seeded fault: the predicate is !m_tasks.empty().
TestNoStop ==
  /\ wpc = "test"
  /\ wpc' = IF m_tasks # <<>> THEN "body" ELSE "sleep"
  /\ UNCHANGED <<m_tasks, m_stop, m_cur_id, fields, apc, ret,
                 wtask, wtime, opc, history>>

\* The predicate of m_condition.wait, under the mutex.
RunTest ==
  /\ wpc = "test"
  /\ wpc' = IF m_tasks # <<>> \/ m_stop THEN "body" ELSE "sleep"
  /\ UNCHANGED <<m_tasks, m_stop, m_cur_id, fields, apc, ret,
                 wtask, wtime, opc, history>>

\* A wait begins: the mutex is released.
RunSleep ==
  /\ \/ wpc = "sleep" /\ wpc' = "wait"
     \/ wpc = "tsleep" /\ wpc' = "timed"
  /\ UNCHANGED <<m_tasks, m_stop, m_cur_id, fields, apc, ret,
                 wtask, wtime, opc, history>>

\* m_stop ends the worker; the first task is taken if it is due, otherwise the
\* wait is timed.
RunBody ==
  /\ wpc = "body"
  /\ \/ m_stop /\ wpc' = "end" /\ UNCHANGED <<m_tasks, due, wtask, wtime>>
     \/ /\ ~m_stop /\ due[Head(m_tasks)] <= 0
        /\ wpc' = "func"
        /\ wtask' = Head(m_tasks) /\ m_tasks' = Tail(m_tasks)
        /\ due' = [due EXCEPT ![wtask'] = client.period[wtask']]
        /\ UNCHANGED wtime
     \/ /\ ~m_stop /\ due[Head(m_tasks)] > 0
        /\ wpc' = "tsleep" /\ wtime' = due[Head(m_tasks)]
        /\ UNCHANGED <<m_tasks, due, wtask>>
  /\ UNCHANGED <<m_stop, m_cur_id, id, removed, apc, ret,
                 opc, history>>

\* A timed wait ends; both waits may end for no reason.
RunWake ==
  /\ wpc \in {"wait", "timed"}
  /\ wpc' = "lock" /\ wtime' = 0
  /\ UNCHANGED <<m_tasks, m_stop, m_cur_id, fields, apc, ret,
                 wtask, opc, history>>

\* ~Task.
Destroy(t) ==
  /\ id' = [id EXCEPT ![t] = 0] /\ due' = [due EXCEPT ![t] = 0]
  /\ removed' = [removed EXCEPT ![t] = FALSE]

\* What the call of the task's function leaves behind.
Call ==
  /\ done' = done \cup {wtask}
  /\ lateRuns' = [lateRuns EXCEPT ![wtask] =
                    IF wtask \in told /\ @ < 2 THEN @ + 1 ELSE @]

\* Seeded fault: a removed task is put back like any other.
RunFuncRemoved ==
  /\ wpc = "func"
  /\ Call
  /\ IF client.repeated[wtask]
     THEN wpc' = "drawid" /\ UNCHANGED <<wtask, fields>>
     ELSE wpc' = "lock" /\ wtask' = NoTask /\ Destroy(wtask)
  /\ UNCHANGED <<m_tasks, m_stop, m_cur_id, apc, ret,
                 wtime, opc, told, missed, raced, idRaced>>

\* task.func(), without the mutex, whether the task was removed or not; a
\* repeated task that was not removed goes on to be put back.
RunFunc ==
  /\ wpc = "func"
  /\ Call
  /\ IF client.repeated[wtask] /\ ~removed[wtask]
     THEN wpc' = "drawid" /\ UNCHANGED <<wtask, fields>>
     ELSE wpc' = "lock" /\ wtask' = NoTask /\ Destroy(wtask)
  /\ UNCHANGED <<m_tasks, m_stop, m_cur_id, apc, ret,
                 wtime, opc, told, missed, raced, idRaced>>

\* task.id = m_cur_id++: the read ...
RunDrawId ==
  /\ wpc = "drawid"
  /\ wpc' = "storeid"
  /\ IdAccess(NoTask)
  /\ id' = [id EXCEPT ![wtask] = Follow(m_cur_id)]
  /\ UNCHANGED <<m_tasks, m_stop, m_cur_id, due, removed,
                 apc, ret, wtask, wtime, opc, told, done, lateRuns, missed, raced>>

\* ... and the write.
RunStoreId ==
  /\ wpc = "storeid"
  /\ wpc' = "insert"
  /\ StoreId(id[wtask] + 1)
  /\ UNCHANGED <<m_tasks, m_stop, fields, apc, ret, wtask, wtime, opc,
                 told, done, lateRuns, missed, raced>>

\* Seeded fault: the key is the period, without now.
InsertWithoutNow ==
  /\ wpc = "insert"
  /\ wpc' = "lock" /\ wtask' = NoTask
  /\ due' = [due EXCEPT ![wtask] = -MaxLate]
  /\ m_tasks' = <<wtask>> \o m_tasks
  /\ UNCHANGED <<m_stop, m_cur_id, id, removed, apc, ret,
                 wtime, opc, history>>

\* The unlocked emplace, from the end of the step before to this one.  After a
\* data race the node may be missing (or worse: Wreck).
RunInsert ==
  /\ wpc = "insert"
  /\ wpc' = "lock" /\ wtask' = NoTask
  /\ \/ Emplace(wtask)
     \/ raced /\ UNCHANGED m_tasks
  /\ UNCHANGED <<m_stop, m_cur_id, fields, apc, ret, wtime, opc, history>>

\* After a data race on the multimap the links of its tree may be in any state:
\* at any time from then on the worker may be lost, in a search that does not
\* end, behind a mutex whose owner is in one, or by an access that kills it.
Wreck ==
  /\ raced /\ wpc \notin {"end", "wrecked"}
  /\ wpc' = "wrecked" /\ wtask' = NoTask /\ wtime' = 0
  /\ UNCHANGED <<m_tasks, m_stop, m_cur_id, fields, apc, ret, opc, history>>

-----------------------------------------------------------------------------
(* The owner: stop(), and the destructor once no call is in progress.         *)

Stop ==
  /\ \/ opc = "live" /\ opc' = "snotify" /\ m_stop' = TRUE /\ UNCHANGED <<wpc, wtime>>
     \/ opc = "snotify" /\ opc' = "stopped" /\ Notify /\ UNCHANGED m_stop
  /\ UNCHANGED <<m_tasks, m_cur_id, fields, apc, ret, wtask, history>>

DestructorStop ==
  /\ opc \in {"live", "stopped"} /\ Adding = {}
  /\ opc' = "dnotify" /\ m_stop' = TRUE
  /\ UNCHANGED <<m_tasks, m_cur_id, fields, apc, ret, worker, history>>

DestructorNotify ==
  /\ opc = "dnotify" /\ opc' = "join"
  /\ Notify
  /\ missed' = (missed \/ wpc = "sleep")
  /\ UNCHANGED <<m_tasks, m_stop, m_cur_id, fields, apc, ret, wtask,
                 told, done, lateRuns, raced, idRaced>>

DestructorJoin ==
  /\ opc = "join" /\ wpc = "end"
  /\ opc' = "done"
  /\ UNCHANGED <<m_tasks, m_stop, m_cur_id, fields, apc, ret, worker, history>>

-----------------------------------------------------------------------------
(* Time.                                                                      *)

Held == {t \in Tasks : apc[t] = "lock"} \cup ({wtask} \ {NoTask})

Tick ==
  /\ opc # "done"
  /\ due' = [t \in Tasks |-> IF t \in InMap \cup Held /\ due[t] > -MaxLate
                             THEN due[t] - 1 ELSE due[t]]
  /\ wtime' = IF wtime > 0 THEN wtime - 1 ELSE wtime
  /\ UNCHANGED <<m_tasks, m_stop, m_cur_id, id, removed,
                 apc, ret, wpc, wtask, opc, history>>

-----------------------------------------------------------------------------

Add(t) ==
  \/ AddEmplace(t) \/ AddNotify(t) \/ AddReturn(t) \/ AddStoreId(t)

Run ==
  \/ RunLock \/ RunTest \/ RunSleep \/ RunBody \/ RunFunc
  \/ RunDrawId \/ RunStoreId \/ RunInsert

Destructor == DestructorNotify \/ DestructorJoin

Next ==
  /\ \/ \E t \in Tasks : AddBuild(t) \/ Add(t) \/ Remove(t)
     \/ Run \/ RunWake \/ Wreck
     \/ Stop \/ DestructorStop \/ Destructor
     \/ Tick
  /\ UNCHANGED client

Spec == Init /\ [][Next]_vars

\* Threads run and time passes; a timed wait ends after its time, but a waiting
\* thread need not wake up without a reason.
FairSpec ==
  /\ Spec
  /\ \A t \in Tasks : WF_vars(Add(t) /\ UNCHANGED client)
  /\ WF_vars(Run /\ UNCHANGED client)
  /\ WF_vars(wpc = "timed" /\ wtime = 0 /\ RunWake /\ UNCHANGED client)
  /\ WF_vars(Destructor /\ UNCHANGED client)
  /\ WF_vars(Tick /\ UNCHANGED client)

-----------------------------------------------------------------------------
(* Properties.                                                                *)

(* A task for which remove returned true runs at most once more: the mark is  *)
(* not looked at when the task is due, but it keeps a repeated task from       *)
(* being put back (TimerHelper.h 53-61, 106).                                  *)
RemovedRunsAtMostOnceMore ==
  \A t \in Tasks : lateRuns[t] <= 1

(* If no other access to m_cur_id fell into an add, an id finds its task: the *)
(* id that add returned is, until the task first runs, the id of that task in *)
(* the map and of no other (TimerHelper.h 14, 90-96, 103).                     *)
IdFindsTask ==
  ~idRaced =>
    \A t \in Tasks : apc[t] \in {"store", "added"} /\ t \in InMap \ done =>
      \A u \in InMap : id[u] = ret[t] <=> u = t

(* A task in the map runs when its time has come, again and again if it is    *)
(* repeated, and even if another task is always due: unless the timer is       *)
(* stopped or the unlocked emplace met an add or a remove (TimerHelper.h       *)
(* 49-65).                                                                     *)
EveryTaskRuns ==
  \A t \in Tasks : (t \in InMap) ~> (wtask = t \/ m_stop \/ raced)

(* The destructor returns, whatever the worker is doing, unless its notify    *)
(* came between the worker's test of m_stop and its wait (TimerHelper.h 42,    *)
(* 78-83) or the unlocked emplace of line 60 has met an add or a remove, after *)
(* which the worker may be lost.                                               *)
DestructorReturns ==
  (opc = "join") ~> (opc = "done" \/ missed \/ raced)
=============================================================================
