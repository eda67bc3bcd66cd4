----------------------------- MODULE TimerProofs -----------------------------
(***************************************************************************)
(* Proofs about Timer, for every client, any number of tasks, any periods    *)
(* and any interleaving of add, remove, stop and the worker.                 *)
(***************************************************************************)
EXTENDS Timer, TLAPS

(* The inductive invariants, in parts.                                       *)

\* Types.
Types ==
  /\ client \in Clients
  /\ m_tasks \in Seq(Tasks) /\ m_stop \in BOOLEAN /\ m_cur_id \in Nat
  /\ id \in [Tasks -> Nat] /\ due \in [Tasks -> Int] /\ removed \in [Tasks -> BOOLEAN]
  /\ apc \in [Tasks -> {"none", "lock", "notify", "return", "store", "added"}]
  /\ ret \in [Tasks -> Nat]
  /\ wpc \in {"lock", "test", "sleep", "wait", "body", "tsleep", "timed", "func", "drawid", "storeid", "insert",
              "end", "wrecked"}
  /\ wtask \in Tasks \cup {NoTask}
  /\ told \subseteq Tasks /\ done \subseteq Tasks /\ lateRuns \in [Tasks -> 0..2]
  /\ idRaced \in BOOLEAN

\* The worker has a task in its hands.
Handling == wpc \in {"func", "drawid", "storeid", "insert"}

\* A task is in one place: in the map once, or in the worker's hands, or not yet added;
\* and the worker looks at the first task only when there is one.
OnePlace ==
  /\ \A i, j \in 1..Len(m_tasks) : m_tasks[i] = m_tasks[j] => i = j
  /\ wtask # NoTask <=> Handling
  /\ wtask \notin InMap
  /\ \A t \in Tasks : t \in InMap \/ t = wtask => apc[t] \notin {"none", "lock"} /\ t \in DOMAIN client.period
  /\ \A t \in Tasks : apc[t] = "lock" => t \in DOMAIN client.period
  /\ wpc = "body" => m_tasks # <<>> \/ m_stop

\* The keys of the map are in order.
Sorted ==
  \A i, j \in 1..Len(m_tasks) : i <= j => due[m_tasks[i]] <= due[m_tasks[j]]

\* A task that was removed has its mark until it runs, and is gone after that.
Marked(t) == removed[t] /\ lateRuns[t] = 0 /\ (t \in InMap \/ (t = wtask /\ wpc = "func"))
Gone(t) == t \notin InMap /\ t # wtask /\ apc[t] \notin {"none", "lock"} /\ lateRuns[t] <= 1

RemovedMarked ==
  /\ \A t \in told : Marked(t) \/ Gone(t)
  /\ \A t \in Tasks \ told : lateRuns[t] = 0

\* Tasks whose id matters.
Live(t) == t \in InMap \/ t = wtask \/ apc[t] = "lock"

\* t is between its reading of m_cur_id and its writing.
Between(t) == t \in Adding \/ (Drawing /\ t = wtask)

\* As long as nobody has read or written m_cur_id while another thread was between, ids
\* are drawn in order and no two tasks share one.
IdsFresh ==
  ~idRaced =>
    /\ \A t, u \in Tasks : Between(t) /\ Between(u) => t = u
    /\ Drawing => Adding = {}
    /\ \A t \in Tasks : t \in Adding /\ t \notin done => id[t] = m_cur_id
    /\ Drawing => id[wtask] = m_cur_id
    /\ \A t \in Tasks : apc[t] = "store" => ret[t] = m_cur_id
    /\ \A t \in Tasks : Live(t) => id[t] <= m_cur_id
    /\ \A t \in Tasks : Live(t) /\ ~Between(t) => id[t] < m_cur_id
    /\ \A t, u \in Tasks : Live(t) /\ Live(u) /\ id[t] = id[u] => t = u
    /\ \A t \in Tasks : apc[t] \in {"store", "added"} /\ t \notin done => ret[t] = id[t]

\* A task that is drawn a new id, or is put back, has run.
PutBackHasRun ==
  /\ wpc \in {"drawid", "storeid", "insert"} => wtask \in done
  /\ \A t \in done : apc[t] \notin {"none", "lock"}

IInv == Types /\ OnePlace /\ Sorted /\ RemovedMarked /\ PutBackHasRun /\ IdsFresh

-----------------------------------------------------------------------------
(* The map.                                                                  *)

\* The task that the worker or an add puts into the map is its only new element, each
\* task is in it once, and the keys stay in order.
LEMMA EmplaceKeeps ==
  ASSUME Types, OnePlace, Sorted, NEW t \in Tasks, t \notin InMap, Emplace(t), UNCHANGED due
  PROVE  /\ m_tasks' \in Seq(Tasks) /\ m_tasks' # <<>>
         /\ InMap' = InMap \cup {t}
         /\ \A i, j \in 1..Len(m_tasks') : m_tasks'[i] = m_tasks'[j] => i = j
         /\ Sorted'
<1> DEFINE n == Len(m_tasks)
<1>1. m_tasks \in Seq(Tasks) /\ n \in Nat /\ due \in [Tasks -> Int] /\ \A i \in 1..n : m_tasks[i] \in Tasks
  BY DEF Types
<1>2. PICK k \in 0..n :
        /\ \A i \in 1..k : due[m_tasks[i]] <= due[t]
        /\ \A i \in (k + 1)..n : due[m_tasks[i]] > due[t]
        /\ m_tasks' = [i \in 1..(n + 1) |->
                         IF i <= k THEN m_tasks[i] ELSE IF i = k + 1 THEN t ELSE m_tasks[i - 1]]
  BY DEF Emplace
<1>3. /\ m_tasks' \in [1..(n + 1) -> Tasks]
  BY <1>1, <1>2
<1>4. m_tasks' \in Seq(Tasks) /\ Len(m_tasks') = n + 1
  BY <1>1, <1>3
<1>5. m_tasks' # <<>>
  BY <1>1, <1>4
<1>6. /\ \A i \in 1..k : m_tasks'[i] = m_tasks[i]
      /\ m_tasks'[k + 1] = t
      /\ \A i \in (k + 2)..(n + 1) : m_tasks'[i] = m_tasks[i - 1]
  BY <1>1, <1>2
<1>7. InMap' = InMap \cup {t}
  <2>1. ASSUME NEW u \in InMap' PROVE u \in InMap \cup {t}
    <3>1. PICK i \in 1..(n + 1) : u = m_tasks'[i]
      BY <1>4 DEF InMap
    <3> QED
      BY <1>1, <1>2, <3>1 DEF InMap
  <2>2. ASSUME NEW u \in InMap PROVE u \in InMap'
    <3>1. PICK i \in 1..n : u = m_tasks[i]
      BY DEF InMap
    <3>2. CASE i <= k
      <4>1. u = m_tasks'[i] /\ i \in 1..(n + 1)
        BY <1>1, <1>6, <3>1, <3>2
      <4> QED
        BY <1>4, <4>1 DEF InMap
    <3>3. CASE i > k
      <4>1. u = m_tasks'[i + 1] /\ i + 1 \in 1..(n + 1)
        BY <1>1, <1>6, <3>1, <3>3
      <4> QED
        BY <1>4, <4>1 DEF InMap
    <3> QED
      BY <1>1, <3>2, <3>3
  <2>3. t \in InMap'
    BY <1>1, <1>4, <1>6 DEF InMap
  <2> QED
    BY <2>1, <2>2, <2>3
<1>8. \A i \in 1..n : m_tasks[i] # t
  BY DEF InMap
<1>9. \A i, j \in 1..Len(m_tasks') : m_tasks'[i] = m_tasks'[j] => i = j
  <2> SUFFICES ASSUME NEW i \in 1..(n + 1), NEW j \in 1..(n + 1), m_tasks'[i] = m_tasks'[j], i < j
               PROVE  FALSE
    BY <1>1, <1>4
  <2>1. \A p, q \in 1..n : m_tasks[p] = m_tasks[q] => p = q
    BY DEF OnePlace
  <2>2. CASE j <= k
    <3>1. i \in 1..n /\ j \in 1..n /\ i # j /\ m_tasks'[i] = m_tasks[i] /\ m_tasks'[j] = m_tasks[j]
      BY <1>1, <1>6, <2>2
    <3> QED
      BY <2>1, <3>1
  <2>3. CASE i <= k /\ j > k + 1
    <3>1. i \in 1..n /\ j - 1 \in 1..n /\ m_tasks'[i] = m_tasks[i] /\ m_tasks'[j] = m_tasks[j - 1] /\ i # j - 1
      BY <1>1, <1>6, <2>3
    <3> QED
      BY <2>1, <3>1
  <2>4. CASE i > k + 1
    <3>1. /\ i - 1 \in 1..n /\ j - 1 \in 1..n /\ i - 1 # j - 1
          /\ m_tasks'[i] = m_tasks[i - 1] /\ m_tasks'[j] = m_tasks[j - 1]
      BY <1>1, <1>6, <2>4
    <3> QED
      BY <2>1, <3>1
  <2>5. CASE i = k + 1
    <3>1. j - 1 \in 1..n /\ m_tasks'[i] = t /\ m_tasks'[j] = m_tasks[j - 1]
      BY <1>1, <1>6, <2>5
    <3> QED
      BY <1>8, <3>1
  <2>6. CASE i <= k /\ j = k + 1
    <3>1. i \in 1..n /\ m_tasks'[i] = m_tasks[i] /\ m_tasks'[j] = t
      BY <1>1, <1>6, <2>6
    <3> QED
      BY <1>8, <3>1
  <2> QED
    BY <1>1, <2>2, <2>3, <2>4, <2>5, <2>6
<1>10. \A i, j \in 1..Len(m_tasks') : i <= j => due[m_tasks'[i]] <= due[m_tasks'[j]]
  <2> SUFFICES ASSUME NEW i \in 1..(n + 1), NEW j \in 1..(n + 1), i <= j
               PROVE  due[m_tasks'[i]] <= due[m_tasks'[j]]
    BY <1>4
  <2>1. \A p, q \in 1..n : p <= q => due[m_tasks[p]] <= due[m_tasks[q]]
    BY DEF Sorted
  <2>2. \A p \in 1..n : due[m_tasks[p]] \in Int
    BY <1>1
  <2>3. due[t] \in Int
    BY <1>1
  <2>4. CASE j <= k
    <3>1. m_tasks'[i] = m_tasks[i] /\ m_tasks'[j] = m_tasks[j] /\ i \in 1..n /\ j \in 1..n
      BY <1>1, <1>6, <2>4
    <3> QED
      BY <2>1, <3>1
  <2>5. CASE i <= k /\ j = k + 1
    BY <1>1, <1>2, <1>6, <2>5
  <2>6. CASE i <= k /\ j > k + 1
    <3>1. m_tasks'[i] = m_tasks[i] /\ m_tasks'[j] = m_tasks[j - 1] /\ i \in 1..n /\ j - 1 \in 1..n /\ i <= j - 1
      BY <1>1, <1>6, <2>6
    <3> QED
      BY <2>1, <3>1
  <2>7. CASE i = k + 1 /\ j = k + 1
    BY <1>6, <2>3, <2>7
  <2>8. CASE i = k + 1 /\ j > k + 1
    <3>1. m_tasks'[i] = t /\ m_tasks'[j] = m_tasks[j - 1] /\ j - 1 \in (k + 1)..n /\ j - 1 \in 1..n
      BY <1>1, <1>6, <2>8
    <3> QED
      BY <1>2, <2>2, <2>3, <3>1
  <2>9. CASE i > k + 1
    <3>1. m_tasks'[i] = m_tasks[i - 1] /\ m_tasks'[j] = m_tasks[j - 1] /\ i - 1 \in 1..n /\ j - 1 \in 1..n
      BY <1>1, <1>6, <2>9
    <3> QED
      BY <2>1, <3>1
  <2>10. i \in Int /\ j \in Int /\ k \in Int
    BY <1>1
  <2>11. CASE i <= k
    BY <2>4, <2>5, <2>6, <2>10, <2>11
  <2>12. CASE i = k + 1
    BY <2>7, <2>8, <2>10, <2>12
  <2> QED
    BY <2>9, <2>10, <2>11, <2>12
<1> QED
  BY <1>4, <1>5, <1>7, <1>9, <1>10 DEF Sorted

\* The task the worker takes out is not in the map any more.
LEMMA TakeKeeps ==
  ASSUME Types, OnePlace, Sorted, m_tasks # <<>>, m_tasks' = Tail(m_tasks),
         \A u \in Tasks \ {Head(m_tasks)} : due'[u] = due[u]
  PROVE  /\ Head(m_tasks) \in Tasks /\ Head(m_tasks) \in InMap
         /\ m_tasks' \in Seq(Tasks)
         /\ InMap' = InMap \ {Head(m_tasks)}
         /\ \A i, j \in 1..Len(m_tasks') : m_tasks'[i] = m_tasks'[j] => i = j
         /\ Sorted'
<1> DEFINE n == Len(m_tasks)
<1>1. /\ m_tasks \in Seq(Tasks) /\ n \in Nat /\ n > 0
      /\ Head(m_tasks) = m_tasks[1] /\ \A i \in 1..n : m_tasks[i] \in Tasks
  BY DEF Types
<1>2. m_tasks' \in Seq(Tasks) /\ Len(m_tasks') = n - 1 /\ \A i \in 1..(n - 1) : m_tasks'[i] = m_tasks[i + 1]
  BY <1>1
<1>3. \A i, j \in 1..n : m_tasks[i] = m_tasks[j] => i = j
  BY DEF OnePlace
<1>4. InMap' = InMap \ {Head(m_tasks)}
  <2>1. ASSUME NEW u \in InMap' PROVE u \in InMap \ {Head(m_tasks)}
    <3>1. PICK i \in 1..(n - 1) : u = m_tasks'[i]
      BY <1>2 DEF InMap
    <3>2. i + 1 \in 1..n /\ u = m_tasks[i + 1] /\ u # m_tasks[1]
      BY <1>1, <1>2, <1>3, <3>1
    <3> QED
      BY <1>1, <3>2 DEF InMap
  <2>2. ASSUME NEW u \in InMap, u # Head(m_tasks) PROVE u \in InMap'
    <3>1. PICK i \in 1..n : u = m_tasks[i]
      BY DEF InMap
    <3>2. i - 1 \in 1..(n - 1) /\ u = m_tasks'[i - 1]
      BY <1>1, <1>2, <2>2, <3>1
    <3> QED
      BY <1>2, <3>2 DEF InMap
  <2> QED
    BY <2>1, <2>2
<1>5. \A i, j \in 1..Len(m_tasks') : m_tasks'[i] = m_tasks'[j] => i = j
  BY <1>1, <1>2, <1>3
<1>6. \A i \in 1..(n - 1) : m_tasks'[i] \in Tasks \ {Head(m_tasks)} /\ due'[m_tasks'[i]] = due[m_tasks[i + 1]]
  BY <1>1, <1>2, <1>3
<1>7. Sorted'
  BY <1>1, <1>2, <1>6 DEF Sorted
<1>8. 1 \in 1..n /\ Head(m_tasks) \in Tasks
  BY <1>1
<1>9. Head(m_tasks) \in InMap
  BY <1>1, <1>8 DEF InMap
<1> QED
  BY <1>2, <1>4, <1>5, <1>7, <1>8, <1>9

\* A step that leaves the map alone.
LEMMA MapFrame ==
  ASSUME UNCHANGED m_tasks
  PROVE  InMap' = InMap
BY DEF InMap

-----------------------------------------------------------------------------
(* The parts are preserved by every step.                                    *)

\* remove marks one task of the map, or none.
LEMMA RemoveMarks ==
  ASSUME Types, NEW t \in Tasks, Remove(t)
  PROVE  \/ \E u \in InMap : removed' = [removed EXCEPT ![u] = TRUE] /\ told' = told \cup {u}
         \/ UNCHANGED <<removed, told>>
<1>1. DOMAIN m_tasks = 1..Len(m_tasks)
  BY DEF Types
<1> QED
  BY <1>1 DEF Remove, InMap

\* Types.
LEMMA TypesPreserved ==
  ASSUME Types, OnePlace, Sorted, [Next]_vars
  PROVE  Types'
<1>1. ASSUME NEW t \in Tasks, AddBuild(t), UNCHANGED client
      PROVE  Types'
  <2>1. client.period[t] \in Nat
    BY <1>1, TimerAssumption DEF AddBuild, Types
  <2>2. idRaced' \in BOOLEAN
    BY <1>1 DEF AddBuild, IdAccess, Types
  <2>3. Follow(m_cur_id) \in Nat
    BY <2>2, TimerAssumption DEF Follow, Types
  <2>4. apc' \in [Tasks -> {"none", "lock", "notify", "return", "store", "added"}]
    BY <1>1 DEF AddBuild, Types
  <2>5. id' \in [Tasks -> Nat] /\ due' \in [Tasks -> Int]
    BY <1>1, <2>1, <2>3 DEF AddBuild, Types
  <2> QED
    BY <1>1, <2>2, <2>4, <2>5 DEF AddBuild, Types, worker
<1>2. ASSUME NEW t \in Tasks, AddEmplace(t), UNCHANGED client
      PROVE  Types'
  <2>1. t \notin InMap
    BY <1>2 DEF AddEmplace, OnePlace, Types
  <2>2. m_tasks' \in Seq(Tasks)
    <3>1. CASE Emplace(t)
      BY <1>2, <2>1, <3>1, EmplaceKeeps DEF AddEmplace, fields
    <3> QED
      BY <1>2, <3>1 DEF AddEmplace, Types
  <2> QED
    BY <1>2, <2>2 DEF AddEmplace, Types, fields, worker, history
<1>3. ASSUME NEW t \in Tasks, AddNotify(t), UNCHANGED client
      PROVE  Types'
  BY <1>3, TimerAssumption
  DEF AddNotify, Notify, Types, Handling, OnePlace, fields, worker, history
<1>4. ASSUME NEW t \in Tasks, AddReturn(t), UNCHANGED client
      PROVE  Types'
  BY <1>4, TimerAssumption
  DEF AddReturn, IdAccess, Follow, Types, Handling, OnePlace, fields, worker, history
<1>5. ASSUME NEW t \in Tasks, AddStoreId(t), UNCHANGED client
      PROVE  Types'
  <2>1. ret[t] + 1 \in Nat
    BY DEF Types
  <2>2. idRaced' \in BOOLEAN
    BY <1>5 DEF AddStoreId, StoreId, Types
  <2>3. m_cur_id' \in Nat
    BY <1>5, <2>1, TimerAssumption DEF AddStoreId, StoreId, Follow
  <2>4. apc' \in [Tasks -> {"none", "lock", "notify", "return", "store", "added"}]
    BY <1>5 DEF AddStoreId, Types
  <2> QED
    BY <1>5, <2>2, <2>3, <2>4 DEF AddStoreId, Types, fields, worker
<1>6. ASSUME NEW t \in Tasks, Remove(t), UNCHANGED client
      PROVE  Types'
  <2>1. \A u \in InMap : u \in Tasks
    BY DEF InMap, Types
  <2>2. \/ \E u \in InMap : removed' = [removed EXCEPT ![u] = TRUE] /\ told' = told \cup {u}
        \/ UNCHANGED <<removed, told>>
    BY <1>6, <2>1, RemoveMarks DEF Types
  <2>3. removed' \in [Tasks -> BOOLEAN] /\ told' \subseteq Tasks
    BY <2>1, <2>2 DEF Types
  <2> QED
    BY <1>6, <2>3 DEF Remove, Types, fields, worker, history
<1>7. CASE RunLock /\ UNCHANGED client
  BY <1>7, TimerAssumption
  DEF RunLock, Types, Handling, OnePlace, fields, worker, history
<1>8. CASE RunTest /\ UNCHANGED client
  BY <1>8, TimerAssumption
  DEF RunTest, Types, Handling, OnePlace, fields, worker, history
<1>9. CASE RunSleep /\ UNCHANGED client
  BY <1>9, TimerAssumption
  DEF RunSleep, Types, Handling, OnePlace, fields, worker, history
<1>10. CASE RunBody /\ UNCHANGED client
  <2>1. CASE m_stop
    BY <1>10, <2>1 DEF RunBody, Types, fields, worker, history
  <2>2. CASE ~m_stop
    <3>1. m_tasks # <<>> /\ Head(m_tasks) \in Tasks /\ Tail(m_tasks) \in Seq(Tasks)
      BY <1>10, <2>2 DEF RunBody, OnePlace, Types
    <3>2. Head(m_tasks) \in DOMAIN client.period
      BY <3>1 DEF Types, OnePlace, InMap
    <3>3. client.period[Head(m_tasks)] \in Int
      BY <3>2, TimerAssumption DEF Types
    <3>4. due' \in [Tasks -> Int]
      BY <1>10, <2>2, <3>1, <3>3 DEF RunBody, Types
    <3> QED
      BY <1>10, <2>2, <3>1, <3>4 DEF RunBody, Types, fields, worker, history
  <2> QED
    BY <2>1, <2>2
<1>11. CASE RunFunc /\ UNCHANGED client
  <2>1. wtask \in Tasks
    BY <1>11 DEF RunFunc, OnePlace, Types, Handling
  <2>2. done' \subseteq Tasks
    BY <1>11, <2>1 DEF RunFunc, Call, Types
  <2>3. lateRuns' \in [Tasks -> 0..2]
    BY <1>11, <2>1 DEF RunFunc, Call, Types
  <2>4. id' \in [Tasks -> Nat] /\ due' \in [Tasks -> Int] /\ removed' \in [Tasks -> BOOLEAN]
    <3>1. CASE Destroy(wtask)
      BY <2>1, <3>1 DEF Destroy, Types
    <3>2. CASE UNCHANGED fields
      BY <3>2 DEF Types, fields
    <3> QED
      BY <1>11, <3>1, <3>2 DEF RunFunc
  <2>5. wpc' \in {"drawid", "lock"} /\ wtask' \in Tasks \cup {NoTask}
    BY <1>11, <2>1 DEF RunFunc
  <2> QED
    BY <1>11, <2>2, <2>3, <2>4, <2>5 DEF RunFunc, Types
<1>12. CASE RunDrawId /\ UNCHANGED client
  BY <1>12, TimerAssumption
  DEF RunDrawId, IdAccess, Follow, Types, Handling, OnePlace, fields, worker, history
<1>13. CASE RunStoreId /\ UNCHANGED client
  BY <1>13, TimerAssumption
  DEF RunStoreId, StoreId, Follow, Types, Handling, OnePlace, fields, worker, history
<1>14. CASE RunInsert /\ UNCHANGED client
  <2>1. wtask \in Tasks /\ wtask \notin InMap
    BY <1>14 DEF RunInsert, OnePlace, Types, Handling
  <2>2. m_tasks' \in Seq(Tasks)
    <3>1. CASE Emplace(wtask)
      BY <1>14, <2>1, <3>1, EmplaceKeeps DEF RunInsert, fields
    <3> QED
      BY <1>14, <3>1 DEF RunInsert, Types
  <2> QED
    BY <1>14, <2>2 DEF RunInsert, Types, fields, worker, history
<1>15. CASE RunWake /\ UNCHANGED client
  BY <1>15, TimerAssumption
  DEF RunWake, Types, Handling, OnePlace, fields, worker, history
<1>16. CASE Stop /\ UNCHANGED client
  BY <1>16, TimerAssumption
  DEF Stop, Notify, Types, Handling, OnePlace, fields, worker, history
<1>17. CASE DestructorStop /\ UNCHANGED client
  BY <1>17, TimerAssumption
  DEF DestructorStop, Types, Handling, OnePlace, fields, worker, history
<1>18. CASE DestructorNotify /\ UNCHANGED client
  BY <1>18, TimerAssumption
  DEF DestructorNotify, Notify, Types, Handling, OnePlace, fields, worker, history
<1>19. CASE DestructorJoin /\ UNCHANGED client
  BY <1>19, TimerAssumption
  DEF DestructorJoin, Types, Handling, OnePlace, fields, worker, history
<1>20. CASE Tick /\ UNCHANGED client
  BY <1>20, TimerAssumption
  DEF Tick, Types, Handling, OnePlace, fields, worker, history
<1>21. CASE UNCHANGED vars
  BY <1>21, TimerAssumption
  DEF vars, Types, Handling, OnePlace, fields, worker, history
<1>22. CASE Wreck /\ UNCHANGED client
  BY <1>22, TimerAssumption
  DEF Wreck, NoTask, Types, Handling, OnePlace, fields, worker, history
<1> QED
  BY <1>1, <1>2, <1>3, <1>4, <1>5, <1>6, <1>7, <1>8, <1>9, <1>10, <1>11, <1>12, <1>13, <1>14, <1>15, <1>16, <1>17, <1>18, <1>19, <1>20, <1>21, <1>22
  DEF Next, Add, Run, Destructor

\* Every task is in one place.
LEMMA OnePlacePreserved ==
  ASSUME Types, OnePlace, Sorted, [Next]_vars
  PROVE  OnePlace'
<1>1. ASSUME NEW t \in Tasks, AddBuild(t), UNCHANGED client
      PROVE  OnePlace'
  BY <1>1, MapFrame, TimerAssumption
  DEF AddBuild, IdAccess, Follow, Types, OnePlace, Handling, fields, worker, history
<1>2. ASSUME NEW t \in Tasks, AddEmplace(t), UNCHANGED client
      PROVE  OnePlace'
  <2>1. t \in Tasks /\ t \notin InMap /\ UNCHANGED due /\ m_tasks \in Seq(Tasks)
    BY <1>2 DEF AddEmplace, OnePlace, Types, Handling, fields
  <2>2. InMap' \subseteq InMap \cup {t} /\ (m_tasks # <<>> => m_tasks' # <<>>)
        /\ \A i, j \in 1..Len(m_tasks') : m_tasks'[i] = m_tasks'[j] => i = j
    <3>1. CASE Emplace(t)
      BY <2>1, <3>1, EmplaceKeeps
    <3>2. CASE UNCHANGED m_tasks
      BY <3>2, MapFrame DEF OnePlace
    <3> QED
      BY <1>2, <3>1, <3>2 DEF AddEmplace
  <2>3. UNCHANGED <<client, wpc, wtask, m_stop>> /\ apc[t] = "lock" /\ apc' = [apc EXCEPT ![t] = "notify"]
    BY <1>2 DEF AddEmplace, worker
  <2>4. wtask # t
    BY <2>3 DEF OnePlace, Types
  <2> QED
    BY <2>1, <2>2, <2>3, <2>4 DEF OnePlace, Types, Handling
<1>3. ASSUME NEW t \in Tasks, AddNotify(t), UNCHANGED client
      PROVE  OnePlace'
  BY <1>3, MapFrame, TimerAssumption
  DEF AddNotify, Notify, Types, OnePlace, Handling, fields, worker, history
<1>4. ASSUME NEW t \in Tasks, AddReturn(t), UNCHANGED client
      PROVE  OnePlace'
  BY <1>4, MapFrame, TimerAssumption
  DEF AddReturn, IdAccess, Follow, Types, OnePlace, Handling, fields, worker, history
<1>5. ASSUME NEW t \in Tasks, AddStoreId(t), UNCHANGED client
      PROVE  OnePlace'
  BY <1>5, MapFrame, TimerAssumption
  DEF AddStoreId, StoreId, Follow, Types, OnePlace, Handling, fields, worker, history
<1>6. ASSUME NEW t \in Tasks, Remove(t), UNCHANGED client
      PROVE  OnePlace'
  BY <1>6, MapFrame, TimerAssumption
  DEF Remove, MapAccess, Types, OnePlace, Handling, fields, worker, history
<1>7. CASE RunLock /\ UNCHANGED client
  BY <1>7, MapFrame, TimerAssumption
  DEF RunLock, Types, OnePlace, Handling, fields, worker, history
<1>8. CASE RunTest /\ UNCHANGED client
  BY <1>8, MapFrame, TimerAssumption
  DEF RunTest, Types, OnePlace, Handling, fields, worker, history
<1>9. CASE RunSleep /\ UNCHANGED client
  BY <1>9, MapFrame, TimerAssumption
  DEF RunSleep, Types, OnePlace, Handling, fields, worker, history
<1>10. CASE RunBody /\ UNCHANGED client
  <2>1. CASE m_stop
    <3>1. UNCHANGED <<m_tasks, wtask, apc, client>> /\ wpc' = "end" /\ wpc = "body"
      BY <1>10, <2>1 DEF RunBody
    <3> QED
      BY <3>1, MapFrame DEF OnePlace, Handling
  <2>2. CASE ~m_stop /\ wpc' = "func"
    <3>1. m_tasks # <<>> /\ m_tasks' = Tail(m_tasks) /\ wtask' = Head(m_tasks) /\ UNCHANGED <<apc, client>>
      BY <1>10, <2>2 DEF RunBody, OnePlace
    <3>2. \A u \in Tasks \ {Head(m_tasks)} : due'[u] = due[u]
      BY <1>10, <2>2, <3>1 DEF RunBody, Types
    <3>3. /\ Head(m_tasks) \in Tasks /\ Head(m_tasks) \in InMap
          /\ InMap' = InMap \ {Head(m_tasks)}
          /\ \A i, j \in 1..Len(m_tasks') : m_tasks'[i] = m_tasks'[j] => i = j
      BY <3>1, <3>2, TakeKeeps
    <3> QED
      BY <2>2, <3>1, <3>3, TimerAssumption DEF OnePlace, Handling, NoTask
  <2>3. CASE ~m_stop /\ wpc' # "func"
    <3>1. UNCHANGED <<m_tasks, wtask, apc, client>> /\ wpc' = "tsleep" /\ wpc = "body"
      BY <1>10, <2>3 DEF RunBody
    <3> QED
      BY <3>1, MapFrame DEF OnePlace, Handling
  <2> QED
    BY <2>1, <2>2, <2>3
<1>11. CASE RunFunc /\ UNCHANGED client
  <2>1. UNCHANGED <<m_tasks, apc, client>> /\ wpc = "func"
    BY <1>11 DEF RunFunc
  <2>2. \/ wpc' = "drawid" /\ wtask' = wtask
        \/ wpc' = "lock" /\ wtask' = NoTask
    BY <1>11 DEF RunFunc
  <2>3. NoTask \notin InMap /\ NoTask \notin Tasks
    BY TimerAssumption DEF InMap, Types, NoTask
  <2> QED
    BY <2>1, <2>2, <2>3, MapFrame DEF OnePlace, Handling
<1>12. CASE RunDrawId /\ UNCHANGED client
  BY <1>12, MapFrame, TimerAssumption
  DEF RunDrawId, IdAccess, Follow, Types, OnePlace, Handling, fields, worker, history
<1>13. CASE RunStoreId /\ UNCHANGED client
  BY <1>13, MapFrame, TimerAssumption
  DEF RunStoreId, StoreId, Follow, Types, OnePlace, Handling, fields, worker, history
<1>14. CASE RunInsert /\ UNCHANGED client
  <2>1. wtask \in Tasks /\ wtask \notin InMap /\ UNCHANGED due /\ m_tasks \in Seq(Tasks)
    BY <1>14 DEF RunInsert, OnePlace, Types, Handling, fields
  <2>2. InMap' \subseteq InMap \cup {wtask} /\ (m_tasks # <<>> => m_tasks' # <<>>)
        /\ \A i, j \in 1..Len(m_tasks') : m_tasks'[i] = m_tasks'[j] => i = j
    <3>1. CASE Emplace(wtask)
      BY <2>1, <3>1, EmplaceKeeps
    <3>2. CASE UNCHANGED m_tasks
      BY <3>2, MapFrame DEF OnePlace
    <3> QED
      BY <1>14, <3>1, <3>2 DEF RunInsert
  <2>3. UNCHANGED <<client, apc>> /\ wpc' = "lock" /\ wtask' = NoTask
    BY <1>14 DEF RunInsert
  <2>4. NoTask \notin Tasks /\ NoTask \notin InMap'
    <3>1. \A u \in InMap : u \in Tasks
      BY DEF InMap, Types
    <3> QED
      BY <2>1, <2>2, <3>1, TimerAssumption DEF NoTask
  <2> QED
    BY <2>1, <2>2, <2>3, <2>4 DEF OnePlace, Types, Handling
<1>15. CASE RunWake /\ UNCHANGED client
  BY <1>15, MapFrame, TimerAssumption
  DEF RunWake, Types, OnePlace, Handling, fields, worker, history
<1>16. CASE Stop /\ UNCHANGED client
  BY <1>16, MapFrame, TimerAssumption
  DEF Stop, Notify, Types, OnePlace, Handling, fields, worker, history
<1>17. CASE DestructorStop /\ UNCHANGED client
  BY <1>17, MapFrame, TimerAssumption
  DEF DestructorStop, Types, OnePlace, Handling, fields, worker, history
<1>18. CASE DestructorNotify /\ UNCHANGED client
  BY <1>18, MapFrame, TimerAssumption
  DEF DestructorNotify, Notify, Types, OnePlace, Handling, fields, worker, history
<1>19. CASE DestructorJoin /\ UNCHANGED client
  BY <1>19, MapFrame, TimerAssumption
  DEF DestructorJoin, Types, OnePlace, Handling, fields, worker, history
<1>20. CASE Tick /\ UNCHANGED client
  BY <1>20, MapFrame, TimerAssumption
  DEF Tick, Types, OnePlace, Handling, fields, worker, history
<1>21. CASE UNCHANGED vars
  BY <1>21, MapFrame, TimerAssumption
  DEF vars, Types, OnePlace, Handling, fields, worker, history
<1>22. CASE Wreck /\ UNCHANGED client
  <2>1. UNCHANGED <<m_tasks, apc, client, m_stop>> /\ wpc' = "wrecked" /\ wtask' = NoTask
    BY <1>22 DEF Wreck
  <2>2. NoTask \notin InMap /\ NoTask \notin Tasks
    BY TimerAssumption DEF InMap, Types, NoTask
  <2> QED
    BY <2>1, <2>2, MapFrame DEF OnePlace, Handling
<1> QED
  BY <1>1, <1>2, <1>3, <1>4, <1>5, <1>6, <1>7, <1>8, <1>9, <1>10, <1>11, <1>12, <1>13, <1>14, <1>15, <1>16, <1>17, <1>18, <1>19, <1>20, <1>21, <1>22
  DEF Next, Add, Run, Destructor

\* The map stays in the order of its keys.
LEMMA SortedPreserved ==
  ASSUME Types, OnePlace, Sorted, [Next]_vars
  PROVE  Sorted'
<1>1. ASSUME NEW t \in Tasks, AddBuild(t), UNCHANGED client
      PROVE  Sorted'
  <2>1. m_tasks' = m_tasks /\ t \notin InMap /\ \A u \in Tasks : u # t => due'[u] = due[u]
    BY <1>1 DEF AddBuild, OnePlace, Types
  <2>2. \A i \in 1..Len(m_tasks) : m_tasks[i] \in Tasks /\ m_tasks[i] # t
    <3>1. \A i \in 1..Len(m_tasks) : m_tasks[i] \in Tasks
      BY DEF Types
    <3>2. \A i \in 1..Len(m_tasks) : m_tasks[i] \in InMap
      BY DEF InMap
    <3> QED
      BY <2>1, <3>1, <3>2
  <2> QED
    BY <2>1, <2>2 DEF Sorted
<1>2. ASSUME NEW t \in Tasks, AddEmplace(t), UNCHANGED client
      PROVE  Sorted'
  <2>1. t \notin InMap /\ UNCHANGED due
    BY <1>2 DEF AddEmplace, OnePlace, Types, fields
  <2>2. CASE Emplace(t)
    BY <2>1, <2>2, EmplaceKeeps
  <2>3. CASE UNCHANGED m_tasks
    BY <2>1, <2>3 DEF Sorted
  <2> QED
    BY <1>2, <2>2, <2>3 DEF AddEmplace
<1>3. ASSUME NEW t \in Tasks, AddNotify(t), UNCHANGED client
      PROVE  Sorted'
  BY <1>3
  DEF AddNotify, Notify, Sorted, Types, fields, worker, history
<1>4. ASSUME NEW t \in Tasks, AddReturn(t), UNCHANGED client
      PROVE  Sorted'
  BY <1>4
  DEF AddReturn, IdAccess, Follow, Sorted, Types, fields, worker, history
<1>5. ASSUME NEW t \in Tasks, AddStoreId(t), UNCHANGED client
      PROVE  Sorted'
  BY <1>5
  DEF AddStoreId, StoreId, Follow, Sorted, Types, fields, worker, history
<1>6. ASSUME NEW t \in Tasks, Remove(t), UNCHANGED client
      PROVE  Sorted'
  BY <1>6
  DEF Remove, MapAccess, Sorted, Types, fields, worker, history
<1>7. CASE RunLock /\ UNCHANGED client
  BY <1>7
  DEF RunLock, Sorted, Types, fields, worker, history
<1>8. CASE RunTest /\ UNCHANGED client
  BY <1>8
  DEF RunTest, Sorted, Types, fields, worker, history
<1>9. CASE RunSleep /\ UNCHANGED client
  BY <1>9
  DEF RunSleep, Sorted, Types, fields, worker, history
<1>10. CASE RunBody /\ UNCHANGED client
  <2>1. CASE UNCHANGED <<m_tasks, due>>
    BY <2>1 DEF Sorted
  <2>2. CASE ~m_stop /\ wpc' = "func"
    <3>1. m_tasks # <<>> /\ m_tasks' = Tail(m_tasks) /\ wtask' = Head(m_tasks)
      BY <1>10, <2>2 DEF RunBody, OnePlace
    <3>2. \A u \in Tasks \ {Head(m_tasks)} : due'[u] = due[u]
      BY <1>10, <2>2, <3>1 DEF RunBody, Types
    <3> QED
      BY <3>1, <3>2, TakeKeeps
  <2> QED
    BY <1>10, <2>1, <2>2 DEF RunBody
<1>11. CASE RunFunc /\ UNCHANGED client
  <2>1. m_tasks' = m_tasks /\ \A u \in Tasks : u # wtask => due'[u] = due[u]
    BY <1>11 DEF RunFunc, Destroy, Types, fields
  <2>2. \A i \in 1..Len(m_tasks) : m_tasks[i] \in Tasks /\ m_tasks[i] # wtask
    BY DEF InMap, Types, OnePlace
  <2> QED
    BY <2>1, <2>2 DEF Sorted
<1>12. CASE RunDrawId /\ UNCHANGED client
  BY <1>12
  DEF RunDrawId, IdAccess, Follow, Sorted, Types, fields, worker, history
<1>13. CASE RunStoreId /\ UNCHANGED client
  BY <1>13
  DEF RunStoreId, StoreId, Follow, Sorted, Types, fields, worker, history
<1>14. CASE RunInsert /\ UNCHANGED client
  <2>1. wtask \in Tasks /\ wtask \notin InMap /\ UNCHANGED due
    BY <1>14 DEF RunInsert, OnePlace, Types, Handling, fields
  <2>2. CASE Emplace(wtask)
    BY <2>1, <2>2, EmplaceKeeps
  <2>3. CASE UNCHANGED m_tasks
    BY <2>1, <2>3 DEF Sorted
  <2> QED
    BY <1>14, <2>2, <2>3 DEF RunInsert
<1>15. CASE RunWake /\ UNCHANGED client
  BY <1>15
  DEF RunWake, Sorted, Types, fields, worker, history
<1>16. CASE Stop /\ UNCHANGED client
  BY <1>16
  DEF Stop, Notify, Sorted, Types, fields, worker, history
<1>17. CASE DestructorStop /\ UNCHANGED client
  BY <1>17
  DEF DestructorStop, Sorted, Types, fields, worker, history
<1>18. CASE DestructorNotify /\ UNCHANGED client
  BY <1>18
  DEF DestructorNotify, Notify, Sorted, Types, fields, worker, history
<1>19. CASE DestructorJoin /\ UNCHANGED client
  BY <1>19
  DEF DestructorJoin, Sorted, Types, fields, worker, history
<1>20. CASE Tick /\ UNCHANGED client
  <2>1. m_tasks' = m_tasks /\ \A i \in 1..Len(m_tasks) : m_tasks[i] \in Tasks /\ m_tasks[i] \in InMap
    BY <1>20 DEF Tick, Types, InMap
  <2>2. \A u \in Tasks : u \in InMap => due'[u] = IF due[u] > -MaxLate THEN due[u] - 1 ELSE due[u]
    BY <1>20 DEF Tick
  <2>3. \A x, y \in Int : x <= y => (IF x > -MaxLate THEN x - 1 ELSE x) <= (IF y > -MaxLate THEN y - 1 ELSE y)
    BY TimerAssumption
  <2>4. \A u \in Tasks : due[u] \in Int
    BY DEF Types
  <2> QED
    BY <2>1, <2>2, <2>3, <2>4 DEF Sorted
<1>21. CASE UNCHANGED vars
  BY <1>21
  DEF vars, Sorted, Types, fields, worker, history
<1>22. CASE Wreck /\ UNCHANGED client
  BY <1>22, TimerAssumption
  DEF Wreck, NoTask, Sorted, Types, fields, worker, history
<1> QED
  BY <1>1, <1>2, <1>3, <1>4, <1>5, <1>6, <1>7, <1>8, <1>9, <1>10, <1>11, <1>12, <1>13, <1>14, <1>15, <1>16, <1>17, <1>18, <1>19, <1>20, <1>21, <1>22
  DEF Next, Add, Run, Destructor

\* What the steps that change the map do to it.
LEMMA AddEmplaceStep ==
  ASSUME Types, OnePlace, Sorted, NEW t \in Tasks, AddEmplace(t)
  PROVE  t \notin InMap /\ t # wtask /\ InMap' \in {InMap, InMap \cup {t}}
<1>1. t \notin InMap /\ t # wtask /\ UNCHANGED due
  BY DEF AddEmplace, OnePlace, Types, fields
<1>2. CASE Emplace(t)
  BY <1>1, <1>2, EmplaceKeeps
<1>3. CASE UNCHANGED m_tasks
  BY <1>1, <1>3, MapFrame
<1> QED
  BY <1>1, <1>2, <1>3 DEF AddEmplace

\* The worker puts its task back, or loses it in a data race.
LEMMA RunInsertStep ==
  ASSUME Types, OnePlace, Sorted, RunInsert
  PROVE  wtask \in Tasks /\ wtask \notin InMap /\ InMap' \in {InMap, InMap \cup {wtask}}
<1>1. wtask \in Tasks /\ wtask \notin InMap /\ UNCHANGED due
  BY DEF RunInsert, OnePlace, Types, Handling, fields
<1>2. CASE Emplace(wtask)
  BY <1>1, <1>2, EmplaceKeeps
<1>3. CASE UNCHANGED m_tasks
  BY <1>1, <1>3, MapFrame
<1> QED
  BY <1>1, <1>2, <1>3 DEF RunInsert

\* The worker takes the first task of the map, or none.
LEMMA RunBodyStep ==
  ASSUME Types, OnePlace, Sorted, RunBody
  PROVE  \/ UNCHANGED <<wtask, due>> /\ InMap' = InMap /\ wpc' \in {"end", "tsleep"} /\ wtask = NoTask
         \/ /\ wpc' = "func" /\ wtask = NoTask /\ wtask' \in Tasks /\ wtask' \in InMap
            /\ InMap' = InMap \ {wtask'}
<1>1. wtask = NoTask
  BY DEF RunBody, OnePlace, Handling
<1>2. CASE UNCHANGED <<m_tasks, due, wtask>> /\ wpc' \in {"end", "tsleep"}
  BY <1>1, <1>2, MapFrame
<1>3. CASE ~m_stop /\ wpc' = "func"
  <2>1. m_tasks # <<>> /\ m_tasks' = Tail(m_tasks) /\ wtask' = Head(m_tasks)
    BY <1>3 DEF RunBody, OnePlace
  <2>2. \A u \in Tasks \ {Head(m_tasks)} : due'[u] = due[u]
    BY <1>3, <2>1 DEF RunBody, Types
  <2>3. Head(m_tasks) \in Tasks /\ Head(m_tasks) \in InMap /\ InMap' = InMap \ {Head(m_tasks)}
    BY <2>1, <2>2, TakeKeeps
  <2> QED
    BY <1>1, <1>3, <2>1, <2>3
<1> QED
  BY <1>2, <1>3 DEF RunBody


\* A mark lasts until the task runs.
LEMMA RemovedPreserved ==
  ASSUME Types, OnePlace, Sorted, RemovedMarked, [Next]_vars
  PROVE  RemovedMarked'
<1>1. ASSUME NEW t \in Tasks, AddBuild(t), UNCHANGED client
      PROVE  RemovedMarked'
  BY <1>1, MapFrame
  DEF AddBuild, IdAccess, Follow, RemovedMarked, Marked, Gone, Types, OnePlace, Handling, fields, worker, history
<1>2. ASSUME NEW t \in Tasks, AddEmplace(t), UNCHANGED client
      PROVE  RemovedMarked'
  <2>1. t \notin InMap /\ t # wtask /\ InMap' \in {InMap, InMap \cup {t}}
    BY <1>2, AddEmplaceStep
  <2>2. /\ UNCHANGED <<removed, lateRuns, told, wpc, wtask>>
        /\ apc[t] = "lock" /\ apc' = [apc EXCEPT ![t] = "notify"]
    BY <1>2 DEF AddEmplace, fields, worker
  <2>3. t \notin told
    BY <2>1, <2>2 DEF RemovedMarked, Marked, Gone
  <2>4. \A u \in told : u # t /\ (u \in InMap' <=> u \in InMap) /\ apc'[u] = apc[u]
    BY <2>1, <2>2, <2>3 DEF Types
  <2> QED
    BY <2>2, <2>4 DEF RemovedMarked, Marked, Gone
<1>3. ASSUME NEW t \in Tasks, AddNotify(t), UNCHANGED client
      PROVE  RemovedMarked'
  BY <1>3, MapFrame
  DEF AddNotify, Notify, RemovedMarked, Marked, Gone, Types, OnePlace, Handling, fields, worker, history
<1>4. ASSUME NEW t \in Tasks, AddReturn(t), UNCHANGED client
      PROVE  RemovedMarked'
  BY <1>4, MapFrame
  DEF AddReturn, IdAccess, Follow, RemovedMarked, Marked, Gone, Types, OnePlace, Handling, fields, worker, history
<1>5. ASSUME NEW t \in Tasks, AddStoreId(t), UNCHANGED client
      PROVE  RemovedMarked'
  BY <1>5, MapFrame
  DEF AddStoreId, StoreId, Follow, RemovedMarked, Marked, Gone, Types, OnePlace, Handling, fields, worker, history
<1>6. ASSUME NEW t \in Tasks, Remove(t), UNCHANGED client
      PROVE  RemovedMarked'
  <2>1. UNCHANGED <<lateRuns, apc, wpc, wtask, m_tasks>>
    BY <1>6 DEF Remove, worker
  <2>2. CASE UNCHANGED <<removed, told>>
    BY <2>1, <2>2, MapFrame DEF RemovedMarked, Marked, Gone
  <2>3. ASSUME NEW u \in InMap, removed' = [removed EXCEPT ![u] = TRUE], told' = told \cup {u}
        PROVE  RemovedMarked'
    <3>1. u \in Tasks /\ InMap' = InMap
      BY <2>1, MapFrame DEF InMap, Types
    <3>2. Marked(u)'
      <4>1. lateRuns[u] = 0
        BY <3>1 DEF RemovedMarked, Marked, Gone
      <4> QED
        BY <2>1, <2>3, <3>1, <4>1 DEF Marked, Types
    <3>3. \A v \in told : Marked(v)' \/ Gone(v)'
      BY <2>1, <2>3, <3>1, <3>2 DEF RemovedMarked, Marked, Gone, Types
    <3> QED
      BY <2>1, <2>3, <3>2, <3>3 DEF RemovedMarked
  <2> QED
    BY <1>6, <2>2, <2>3, RemoveMarks
<1>7. CASE RunLock /\ UNCHANGED client
  BY <1>7, MapFrame
  DEF RunLock, RemovedMarked, Marked, Gone, Types, OnePlace, Handling, fields, worker, history
<1>8. CASE RunTest /\ UNCHANGED client
  BY <1>8, MapFrame
  DEF RunTest, RemovedMarked, Marked, Gone, Types, OnePlace, Handling, fields, worker, history
<1>9. CASE RunSleep /\ UNCHANGED client
  BY <1>9, MapFrame
  DEF RunSleep, RemovedMarked, Marked, Gone, Types, OnePlace, Handling, fields, worker, history
<1>10. CASE RunBody /\ UNCHANGED client
  <2>1. UNCHANGED <<removed, lateRuns, told, apc>> /\ wpc = "body"
    BY <1>10 DEF RunBody, history
  <2>2. CASE UNCHANGED <<wtask, due>> /\ InMap' = InMap
    BY <2>1, <2>2 DEF RemovedMarked, Marked, Gone
  <2>3. CASE /\ wpc' = "func" /\ wtask = NoTask /\ wtask' \in InMap
             /\ InMap' = InMap \ {wtask'}
    BY <2>1, <2>3 DEF RemovedMarked, Marked, Gone
  <2> QED
    BY <1>10, <2>2, <2>3, RunBodyStep
<1>11. CASE RunFunc /\ UNCHANGED client
  <2>1. /\ UNCHANGED <<told, apc, m_tasks>> /\ wpc = "func" /\ InMap' = InMap
        /\ wtask \in Tasks /\ wtask \notin InMap
    BY <1>11, MapFrame DEF RunFunc, OnePlace, Handling, Types
  <2>2. \A u \in Tasks \ {wtask} : lateRuns'[u] = lateRuns[u] /\ removed'[u] = removed[u]
    BY <1>11, <2>1 DEF RunFunc, Call, Destroy, Types, fields
  <2>3. ASSUME NEW u \in told, u # wtask PROVE Marked(u)' \/ Gone(u)'
    <3>1. u \in Tasks /\ u # wtask'
      BY <1>11, <2>3, TimerAssumption DEF RunFunc, Types, NoTask
    <3> QED
      BY <2>1, <2>2, <2>3, <3>1 DEF RemovedMarked, Marked, Gone
  <2>4. CASE wtask \in told
    <3>1. removed[wtask] /\ lateRuns[wtask] = 0
      BY <2>1, <2>4 DEF RemovedMarked, Marked, Gone
    <3>2. wtask' = NoTask /\ lateRuns'[wtask] = 1
      BY <1>11, <2>1, <2>4, <3>1 DEF RunFunc, Call, Types
    <3>3. \A w \in Tasks : w = wtask => Gone(w)'
      BY <2>1, <3>2, TimerAssumption DEF Gone, OnePlace, NoTask
    <3> QED
      BY <2>1, <2>2, <2>3, <2>4, <3>3 DEF RemovedMarked
  <2>5. CASE wtask \notin told
    <3>1. lateRuns'[wtask] = 0
      BY <1>11, <2>1, <2>5 DEF RunFunc, Call, Types, RemovedMarked
    <3> QED
      BY <2>1, <2>2, <2>3, <2>5, <3>1 DEF RemovedMarked
  <2> QED
    BY <2>4, <2>5
<1>12. CASE RunDrawId /\ UNCHANGED client
  BY <1>12, MapFrame
  DEF RunDrawId, IdAccess, Follow, RemovedMarked, Marked, Gone, Types, OnePlace, Handling, fields, worker, history
<1>13. CASE RunStoreId /\ UNCHANGED client
  BY <1>13, MapFrame
  DEF RunStoreId, StoreId, Follow, RemovedMarked, Marked, Gone, Types, OnePlace, Handling, fields, worker, history
<1>14. CASE RunInsert /\ UNCHANGED client
  <2>1. wtask \in Tasks /\ wtask \notin InMap /\ InMap' \in {InMap, InMap \cup {wtask}}
    BY <1>14, RunInsertStep
  <2>2. UNCHANGED <<removed, lateRuns, told, apc>> /\ wpc = "insert" /\ wtask' = NoTask
    BY <1>14 DEF RunInsert, fields, history
  <2>3. wtask \notin told
    BY <2>1, <2>2 DEF RemovedMarked, Marked, Gone
  <2>4. \A u \in told : u # wtask /\ u # wtask' /\ (u \in InMap' <=> u \in InMap)
    BY <2>1, <2>2, <2>3, TimerAssumption DEF Types, NoTask
  <2> QED
    BY <2>2, <2>4 DEF RemovedMarked, Marked, Gone
<1>15. CASE RunWake /\ UNCHANGED client
  BY <1>15, MapFrame
  DEF RunWake, RemovedMarked, Marked, Gone, Types, OnePlace, Handling, fields, worker, history
<1>16. CASE Stop /\ UNCHANGED client
  BY <1>16, MapFrame
  DEF Stop, Notify, RemovedMarked, Marked, Gone, Types, OnePlace, Handling, fields, worker, history
<1>17. CASE DestructorStop /\ UNCHANGED client
  BY <1>17, MapFrame
  DEF DestructorStop, RemovedMarked, Marked, Gone, Types, OnePlace, Handling, fields, worker, history
<1>18. CASE DestructorNotify /\ UNCHANGED client
  BY <1>18, MapFrame
  DEF DestructorNotify, Notify, RemovedMarked, Marked, Gone, Types, OnePlace, Handling, fields, worker, history
<1>19. CASE DestructorJoin /\ UNCHANGED client
  BY <1>19, MapFrame
  DEF DestructorJoin, RemovedMarked, Marked, Gone, Types, OnePlace, Handling, fields, worker, history
<1>20. CASE Tick /\ UNCHANGED client
  BY <1>20, MapFrame
  DEF Tick, RemovedMarked, Marked, Gone, Types, OnePlace, Handling, fields, worker, history
<1>21. CASE UNCHANGED vars
  BY <1>21, MapFrame
  DEF vars, RemovedMarked, Marked, Gone, Types, OnePlace, Handling, fields, worker, history
<1>22. CASE Wreck /\ UNCHANGED client
  BY <1>22, TimerAssumption, MapFrame
  DEF Wreck, NoTask, RemovedMarked, Marked, Gone, Types, OnePlace, Handling, fields, worker, history
<1> QED
  BY <1>1, <1>2, <1>3, <1>4, <1>5, <1>6, <1>7, <1>8, <1>9, <1>10, <1>11, <1>12, <1>13, <1>14, <1>15, <1>16, <1>17, <1>18, <1>19, <1>20, <1>21, <1>22
  DEF Next, Add, Run, Destructor

\* Only tasks that have run are put back.
LEMMA PutBackPreserved ==
  ASSUME Types, OnePlace, PutBackHasRun, [Next]_vars
  PROVE  PutBackHasRun'
<1>1. ASSUME NEW t \in Tasks, AddBuild(t), UNCHANGED client
      PROVE  PutBackHasRun'
  BY <1>1, TimerAssumption
  DEF AddBuild, IdAccess, Follow, PutBackHasRun, Types, OnePlace, Handling, fields, worker, history
<1>2. ASSUME NEW t \in Tasks, AddEmplace(t), UNCHANGED client
      PROVE  PutBackHasRun'
  BY <1>2, TimerAssumption
  DEF AddEmplace, MapAccess, PutBackHasRun, Types, OnePlace, Handling, fields, worker, history
<1>3. ASSUME NEW t \in Tasks, AddNotify(t), UNCHANGED client
      PROVE  PutBackHasRun'
  BY <1>3, TimerAssumption
  DEF AddNotify, Notify, PutBackHasRun, Types, OnePlace, Handling, fields, worker, history
<1>4. ASSUME NEW t \in Tasks, AddReturn(t), UNCHANGED client
      PROVE  PutBackHasRun'
  BY <1>4, TimerAssumption
  DEF AddReturn, IdAccess, Follow, PutBackHasRun, Types, OnePlace, Handling, fields, worker, history
<1>5. ASSUME NEW t \in Tasks, AddStoreId(t), UNCHANGED client
      PROVE  PutBackHasRun'
  BY <1>5, TimerAssumption
  DEF AddStoreId, StoreId, Follow, PutBackHasRun, Types, OnePlace, Handling, fields, worker, history
<1>6. ASSUME NEW t \in Tasks, Remove(t), UNCHANGED client
      PROVE  PutBackHasRun'
  BY <1>6, TimerAssumption
  DEF Remove, MapAccess, PutBackHasRun, Types, OnePlace, Handling, fields, worker, history
<1>7. CASE RunLock /\ UNCHANGED client
  BY <1>7, TimerAssumption
  DEF RunLock, PutBackHasRun, Types, OnePlace, Handling, fields, worker, history
<1>8. CASE RunTest /\ UNCHANGED client
  BY <1>8, TimerAssumption
  DEF RunTest, PutBackHasRun, Types, OnePlace, Handling, fields, worker, history
<1>9. CASE RunSleep /\ UNCHANGED client
  BY <1>9, TimerAssumption
  DEF RunSleep, PutBackHasRun, Types, OnePlace, Handling, fields, worker, history
<1>10. CASE RunBody /\ UNCHANGED client
  BY <1>10, TimerAssumption
  DEF RunBody, PutBackHasRun, Types, OnePlace, Handling, fields, worker, history
<1>11. CASE RunFunc /\ UNCHANGED client
  BY <1>11, TimerAssumption
  DEF RunFunc, Call, Destroy, PutBackHasRun, Types, OnePlace, Handling, fields, worker, history
<1>12. CASE RunDrawId /\ UNCHANGED client
  BY <1>12, TimerAssumption
  DEF RunDrawId, IdAccess, Follow, PutBackHasRun, Types, OnePlace, Handling, fields, worker, history
<1>13. CASE RunStoreId /\ UNCHANGED client
  BY <1>13, TimerAssumption
  DEF RunStoreId, StoreId, Follow, PutBackHasRun, Types, OnePlace, Handling, fields, worker, history
<1>14. CASE RunInsert /\ UNCHANGED client
  BY <1>14, TimerAssumption
  DEF RunInsert, PutBackHasRun, Types, OnePlace, Handling, fields, worker, history
<1>15. CASE RunWake /\ UNCHANGED client
  BY <1>15, TimerAssumption
  DEF RunWake, PutBackHasRun, Types, OnePlace, Handling, fields, worker, history
<1>16. CASE Stop /\ UNCHANGED client
  BY <1>16, TimerAssumption
  DEF Stop, Notify, PutBackHasRun, Types, OnePlace, Handling, fields, worker, history
<1>17. CASE DestructorStop /\ UNCHANGED client
  BY <1>17, TimerAssumption
  DEF DestructorStop, PutBackHasRun, Types, OnePlace, Handling, fields, worker, history
<1>18. CASE DestructorNotify /\ UNCHANGED client
  BY <1>18, TimerAssumption
  DEF DestructorNotify, Notify, PutBackHasRun, Types, OnePlace, Handling, fields, worker, history
<1>19. CASE DestructorJoin /\ UNCHANGED client
  BY <1>19, TimerAssumption
  DEF DestructorJoin, PutBackHasRun, Types, OnePlace, Handling, fields, worker, history
<1>20. CASE Tick /\ UNCHANGED client
  BY <1>20, TimerAssumption
  DEF Tick, PutBackHasRun, Types, OnePlace, Handling, fields, worker, history
<1>21. CASE UNCHANGED vars
  BY <1>21, TimerAssumption
  DEF vars, PutBackHasRun, Types, OnePlace, Handling, fields, worker, history
<1>22. CASE Wreck /\ UNCHANGED client
  BY <1>22, TimerAssumption
  DEF Wreck, NoTask, PutBackHasRun, Types, OnePlace, Handling, fields, worker, history
<1> QED
  BY <1>1, <1>2, <1>3, <1>4, <1>5, <1>6, <1>7, <1>8, <1>9, <1>10, <1>11, <1>12, <1>13, <1>14, <1>15, <1>16, <1>17, <1>18, <1>19, <1>20, <1>21, <1>22
  DEF Next, Add, Run, Destructor

\* Ids are drawn in order.
LEMMA IdsPreserved ==
  ASSUME Types, OnePlace, Sorted, PutBackHasRun, IdsFresh, [Next]_vars
  PROVE  IdsFresh'
<1>1. ASSUME NEW t \in Tasks, AddBuild(t), UNCHANGED client
      PROVE  IdsFresh'
  <2> SUFFICES ASSUME ~idRaced' PROVE IdsFresh'
    BY DEF IdsFresh
  <2>1. /\ ~idRaced /\ Adding \ {t} = {} /\ ~Drawing /\ apc[t] = "none" /\ UNCHANGED <<m_cur_id, ret, done, wtask, wpc>>
        /\ apc' = [apc EXCEPT ![t] = "lock"] /\ id' = [id EXCEPT ![t] = m_cur_id] /\ InMap' = InMap
    BY <1>1, MapFrame DEF AddBuild, IdAccess, Follow, worker
  <2>2. t \notin InMap /\ t # wtask /\ t \notin done
    BY <2>1 DEF OnePlace, PutBackHasRun
  <2>3. \A u \in Tasks : ~Between(u) /\ (Live(u) => id[u] < m_cur_id /\ u # t)
    BY <2>1, <2>2 DEF IdsFresh, Between, Adding, Live
  <2>4. \A u \in Tasks : (Between(u)' <=> u = t) /\ (Live(u)' <=> Live(u) \/ u = t)
    BY <2>1, <2>2 DEF Between, Adding, Drawing, Live, Types
  <2>5. \A u \in Tasks : u \in Adding' <=> u = t
    BY <2>1 DEF Adding, Types
  <2>6. m_cur_id \in Nat /\ id'[t] = m_cur_id /\ \A u \in Tasks : id[u] \in Nat /\ (u # t => id'[u] = id[u] /\ apc'[u] = apc[u])
    BY <2>1 DEF Types
  <2>7. apc'[t] = "lock" /\ ~Drawing'
    BY <2>1 DEF Types, Drawing
  <2>8. \A u \in Tasks : apc'[u] # "store"
    BY <2>1, <2>6, <2>7 DEF Adding
  <2> QED
    BY <2>1, <2>2, <2>3, <2>4, <2>5, <2>6, <2>7, <2>8 DEF IdsFresh
<1>2. ASSUME NEW t \in Tasks, AddEmplace(t), UNCHANGED client
      PROVE  IdsFresh'
  <2> SUFFICES ASSUME ~idRaced' PROVE IdsFresh'
    BY DEF IdsFresh
  <2>1. /\ ~idRaced /\ apc[t] = "lock" /\ UNCHANGED <<m_cur_id, id, ret, done, wtask, wpc>>
        /\ apc' = [apc EXCEPT ![t] = "notify"]
    BY <1>2 DEF AddEmplace, fields, worker
  <2>2. InMap' \in {InMap, InMap \cup {t}}
    BY <1>2, AddEmplaceStep
  <2>3. Adding' = Adding /\ Drawing' = Drawing
    BY <2>1 DEF Adding, Drawing, Types
  <2>4. \A u \in Tasks : (Between(u)' <=> Between(u)) /\ (Live(u)' => Live(u))
    BY <2>1, <2>2, <2>3 DEF Between, Live, Types
  <2>5. \A u \in Tasks : apc'[u] \in {"store", "added"} => apc'[u] = apc[u]
    BY <2>1 DEF Types
  <2> QED
    BY <2>1, <2>3, <2>4, <2>5 DEF IdsFresh
<1>3. ASSUME NEW t \in Tasks, AddNotify(t), UNCHANGED client
      PROVE  IdsFresh'
  <2>1. /\ apc[t] = "notify" /\ UNCHANGED <<m_cur_id, id, ret, done, wtask, idRaced>>
        /\ apc' = [apc EXCEPT ![t] = "return"] /\ InMap' = InMap
    BY <1>3, MapFrame DEF AddNotify, fields, history
  <2>2. Drawing' = Drawing
    BY <1>3 DEF AddNotify, Notify, Drawing
  <2>3. Adding' = Adding
    BY <2>1 DEF Adding, Types
  <2>4. \A u \in Tasks : (Between(u)' <=> Between(u)) /\ (Live(u)' => Live(u))
    BY <2>1, <2>2, <2>3 DEF Between, Live, Types
  <2>5. \A u \in Tasks : apc'[u] \in {"store", "added"} => apc'[u] = apc[u]
    BY <2>1 DEF Types
  <2> QED
    BY <2>1, <2>2, <2>3, <2>4, <2>5 DEF IdsFresh
<1>4. ASSUME NEW t \in Tasks, AddReturn(t), UNCHANGED client
      PROVE  IdsFresh'
  <2> SUFFICES ASSUME ~idRaced' PROVE IdsFresh'
    BY DEF IdsFresh
  <2>1. /\ ~idRaced /\ Adding \ {t} = {} /\ apc[t] = "return" /\ UNCHANGED <<m_cur_id, id, done, wtask, wpc>>
        /\ apc' = [apc EXCEPT ![t] = "store"] /\ ret' = [ret EXCEPT ![t] = m_cur_id] /\ InMap' = InMap
    BY <1>4, MapFrame DEF AddReturn, IdAccess, Follow, fields, worker
  <2>2. Drawing' = Drawing /\ Adding' = Adding /\ t \in Adding
    BY <2>1 DEF Adding, Drawing, Types
  <2>3. \A u \in Tasks : (Between(u)' <=> Between(u)) /\ (Live(u)' => Live(u))
    BY <2>1, <2>2 DEF Between, Live, Types
  <2>4. ret'[t] = m_cur_id /\ \A u \in Tasks \ {t} : ret'[u] = ret[u] /\ apc'[u] = apc[u]
    BY <2>1 DEF Types
  <2>5. \A u \in Tasks \ {t} : apc'[u] # "store"
    BY <2>1, <2>4 DEF Adding
  <2>6. \A u \in Tasks : apc'[u] \in {"store", "added"} /\ u \notin done => ret'[u] = id[u]
    BY <2>1, <2>2, <2>4 DEF IdsFresh
  <2>7. \A u \in Tasks : apc'[u] = "store" => ret'[u] = m_cur_id
    BY <2>4, <2>5
  <2> QED
    BY <2>1, <2>2, <2>3, <2>6, <2>7 DEF IdsFresh
<1>5. ASSUME NEW t \in Tasks, AddStoreId(t), UNCHANGED client
      PROVE  IdsFresh'
  <2> SUFFICES ASSUME ~idRaced' PROVE IdsFresh'
    BY DEF IdsFresh
  <2>1. /\ apc[t] = "store" /\ ~idRaced /\ m_cur_id' = ret[t] + 1 /\ UNCHANGED <<id, ret, done, wtask, wpc>>
        /\ apc' = [apc EXCEPT ![t] = "added"] /\ InMap' = InMap
    BY <1>5, MapFrame DEF AddStoreId, StoreId, Follow, fields, worker
  <2>2. ret[t] = m_cur_id /\ m_cur_id \in Nat /\ m_cur_id' = m_cur_id + 1
    BY <2>1 DEF IdsFresh, Types
  <2>3. Between(t) /\ \A u \in Tasks : Between(u) => u = t
    BY <2>1 DEF IdsFresh, Between, Adding
  <2>4. Drawing' = Drawing /\ \A u \in Tasks : u \in Adding' <=> u \in Adding /\ u # t
    BY <2>1 DEF Adding, Drawing, Types
  <2>5. Adding' = {} /\ \A u \in Tasks : ~Between(u)' \/ (Drawing /\ u = t /\ u = wtask)
    BY <2>1, <2>3, <2>4 DEF Between, Adding
  <2>6. ~Drawing
    BY <2>1 DEF IdsFresh, Adding
  <2>7. \A u \in Tasks : Live(u)' => Live(u)
    BY <2>1 DEF Live, Types
  <2>8. \A u \in Tasks : id[u] \in Nat /\ apc'[u] # "store"
    BY <2>1, <2>5 DEF Types, Adding
  <2>9. \A u \in Tasks : apc'[u] = "added" => apc[u] \in {"store", "added"}
    BY <2>1 DEF Types
  <2> QED
    BY <2>1, <2>2, <2>4, <2>5, <2>6, <2>7, <2>8, <2>9 DEF IdsFresh
<1>6. ASSUME NEW t \in Tasks, Remove(t), UNCHANGED client
      PROVE  IdsFresh'
  BY <1>6, MapFrame
  DEF Remove, MapAccess, IdsFresh, Live, Between, Adding, Drawing, Types, OnePlace, Handling, fields, worker, history
<1>7. CASE RunLock /\ UNCHANGED client
  BY <1>7, MapFrame
  DEF RunLock, IdsFresh, Live, Between, Adding, Drawing, Types, OnePlace, Handling, fields, worker, history
<1>8. CASE RunTest /\ UNCHANGED client
  BY <1>8, MapFrame
  DEF RunTest, IdsFresh, Live, Between, Adding, Drawing, Types, OnePlace, Handling, fields, worker, history
<1>9. CASE RunSleep /\ UNCHANGED client
  BY <1>9, MapFrame
  DEF RunSleep, IdsFresh, Live, Between, Adding, Drawing, Types, OnePlace, Handling, fields, worker, history
<1>10. CASE RunBody /\ UNCHANGED client
  <2> SUFFICES ASSUME ~idRaced' PROVE IdsFresh'
    BY DEF IdsFresh
  <2>1. UNCHANGED <<m_cur_id, id, ret, done, apc, idRaced>> /\ wpc = "body" /\ ~Drawing'
    BY <1>10, RunBodyStep DEF RunBody, history, Drawing
  <2>2. Adding' = Adding /\ ~Drawing
    BY <2>1 DEF Adding, Drawing
  <2>3. \A u \in Tasks : Live(u)' => Live(u)
    BY <1>10, <2>1, RunBodyStep DEF Live
  <2>4. \A u \in Tasks : Between(u)' <=> Between(u)
    BY <2>1, <2>2 DEF Between
  <2> QED
    BY <2>1, <2>2, <2>3, <2>4 DEF IdsFresh
<1>11. CASE RunFunc /\ UNCHANGED client
  <2> SUFFICES ASSUME ~idRaced' PROVE IdsFresh'
    BY DEF IdsFresh
  <2>1. UNCHANGED <<m_cur_id, ret, apc, idRaced>> /\ wpc = "func" /\ ~Drawing' /\ done' = done \cup {wtask}
        /\ InMap' = InMap /\ wtask' \in {wtask, NoTask} /\ wtask \in Tasks /\ wtask \notin InMap
    BY <1>11, MapFrame DEF RunFunc, Drawing, Call, OnePlace, Handling, Types
  <2>2. Adding' = Adding /\ ~Drawing
    BY <2>1 DEF Adding, Drawing
  <2>3. \A u \in Tasks : Between(u)' <=> Between(u)
    BY <2>1, <2>2 DEF Between
  <2>4. /\ \A u \in Tasks : u # wtask => id'[u] = id[u]
        /\ wtask' = wtask => id' = id
    BY <1>11, <2>1, TimerAssumption DEF RunFunc, Destroy, Types, fields, NoTask
  <2>5. \A u \in Tasks : Live(u)' => Live(u) /\ id'[u] = id[u]
    <3>1. apc[wtask] # "lock"
      BY <2>1 DEF OnePlace
    <3> QED
      BY <2>1, <2>4, <3>1, TimerAssumption DEF Live, NoTask
  <2>6. \A u \in Tasks : u \notin done' => u \notin done /\ id'[u] = id[u]
    BY <2>1, <2>4
  <2> QED
    BY <2>1, <2>2, <2>3, <2>5, <2>6 DEF IdsFresh
<1>12. CASE RunDrawId /\ UNCHANGED client
  <2> SUFFICES ASSUME ~idRaced' PROVE IdsFresh'
    BY DEF IdsFresh
  <2>1. /\ ~idRaced /\ Adding = {} /\ ~Drawing /\ wpc = "drawid" /\ wpc' = "storeid"
        /\ UNCHANGED <<m_cur_id, ret, apc, done, wtask>>
        /\ id' = [id EXCEPT ![wtask] = m_cur_id] /\ InMap' = InMap
    BY <1>12, MapFrame, TimerAssumption DEF RunDrawId, IdAccess, Follow, NoTask, Adding
  <2>2. wtask \in Tasks /\ wtask \in done /\ Drawing' /\ Adding' = {}
    BY <2>1 DEF OnePlace, Handling, Types, PutBackHasRun, Drawing, Adding
  <2>3. \A u \in Tasks : ~Between(u) /\ (Live(u) => id[u] < m_cur_id)
    BY <2>1 DEF IdsFresh, Between
  <2>4. \A u \in Tasks : (Between(u)' <=> u = wtask) /\ (Live(u)' <=> Live(u))
    BY <2>1, <2>2 DEF Between, Live
  <2>5. m_cur_id \in Nat /\ id'[wtask] = m_cur_id /\ \A u \in Tasks : id[u] \in Nat /\ (u # wtask => id'[u] = id[u])
    BY <2>1, <2>2 DEF Types
  <2> QED
    BY <2>1, <2>2, <2>3, <2>4, <2>5 DEF IdsFresh
<1>13. CASE RunStoreId /\ UNCHANGED client
  <2> SUFFICES ASSUME ~idRaced' PROVE IdsFresh'
    BY DEF IdsFresh
  <2>1. /\ ~idRaced /\ wpc = "storeid" /\ wpc' = "insert" /\ m_cur_id' = id[wtask] + 1
        /\ UNCHANGED <<id, ret, apc, done, wtask>> /\ InMap' = InMap
    BY <1>13, MapFrame DEF RunStoreId, StoreId, Follow, fields
  <2>2. wtask \in Tasks /\ Drawing /\ ~Drawing' /\ Adding' = Adding
    BY <2>1 DEF OnePlace, Handling, Types, Drawing, Adding
  <2>3. id[wtask] = m_cur_id /\ m_cur_id \in Nat /\ m_cur_id' = m_cur_id + 1
    BY <2>1, <2>2 DEF IdsFresh, Types
  <2>4. Between(wtask) /\ \A u \in Tasks : Between(u) => u = wtask
    BY <2>1, <2>2 DEF IdsFresh, Between
  <2>5. wtask \notin Adding
    BY <2>1, <2>2 DEF IdsFresh
  <2>6. Adding = {} /\ \A u \in Tasks : ~Between(u)'
    BY <2>1, <2>2, <2>4, <2>5 DEF Between, Adding
  <2>7. \A u \in Tasks : Live(u)' => Live(u) /\ id[u] \in Nat
    BY <2>1 DEF Live, Types
  <2>8. \A u \in Tasks : apc[u] # "store"
    BY <2>6 DEF Adding
  <2> QED
    BY <2>1, <2>2, <2>3, <2>6, <2>7, <2>8 DEF IdsFresh
<1>14. CASE RunInsert /\ UNCHANGED client
  <2> SUFFICES ASSUME ~idRaced' PROVE IdsFresh'
    BY DEF IdsFresh
  <2>1. UNCHANGED <<m_cur_id, id, ret, apc, done, idRaced>> /\ wpc = "insert" /\ wpc' = "lock" /\ wtask' = NoTask
    BY <1>14 DEF RunInsert, fields, history
  <2>2. wtask \in Tasks /\ InMap' \in {InMap, InMap \cup {wtask}}
    BY <1>14, RunInsertStep
  <2>3. Adding' = Adding /\ ~Drawing /\ ~Drawing'
    BY <2>1 DEF Adding, Drawing
  <2>4. \A u \in Tasks : (Between(u)' <=> Between(u)) /\ (Live(u)' => Live(u))
    BY <2>1, <2>2, <2>3, TimerAssumption DEF Between, Live, NoTask
  <2> QED
    BY <2>1, <2>3, <2>4 DEF IdsFresh
<1>15. CASE RunWake /\ UNCHANGED client
  BY <1>15, MapFrame
  DEF RunWake, IdsFresh, Live, Between, Adding, Drawing, Types, OnePlace, Handling, fields, worker, history
<1>16. CASE Stop /\ UNCHANGED client
  BY <1>16, MapFrame
  DEF Stop, Notify, IdsFresh, Live, Between, Adding, Drawing, Types, OnePlace, Handling, fields, worker, history
<1>17. CASE DestructorStop /\ UNCHANGED client
  BY <1>17, MapFrame
  DEF DestructorStop, IdsFresh, Live, Between, Adding, Drawing, Types, OnePlace, Handling, fields, worker, history
<1>18. CASE DestructorNotify /\ UNCHANGED client
  BY <1>18, MapFrame
  DEF DestructorNotify, Notify, IdsFresh, Live, Between, Adding, Drawing, Types, OnePlace, Handling, fields, worker, history
<1>19. CASE DestructorJoin /\ UNCHANGED client
  BY <1>19, MapFrame
  DEF DestructorJoin, IdsFresh, Live, Between, Adding, Drawing, Types, OnePlace, Handling, fields, worker, history
<1>20. CASE Tick /\ UNCHANGED client
  BY <1>20, MapFrame
  DEF Tick, IdsFresh, Live, Between, Adding, Drawing, Types, OnePlace, Handling, fields, worker, history
<1>21. CASE UNCHANGED vars
  BY <1>21, MapFrame
  DEF vars, IdsFresh, Live, Between, Adding, Drawing, Types, OnePlace, Handling, fields, worker, history
<1>22. CASE Wreck /\ UNCHANGED client
  BY <1>22, TimerAssumption, MapFrame
  DEF Wreck, NoTask, IdsFresh, Live, Between, Adding, Drawing, Types, OnePlace, Handling, fields, worker, history
<1> QED
  BY <1>1, <1>2, <1>3, <1>4, <1>5, <1>6, <1>7, <1>8, <1>9, <1>10, <1>11, <1>12, <1>13, <1>14, <1>15, <1>16, <1>17, <1>18, <1>19, <1>20, <1>21, <1>22
  DEF Next, Add, Run, Destructor

-----------------------------------------------------------------------------
(* The results.                                                              *)

\* The inductive invariant.
THEOREM Invariance == Spec => []IInv
<1>1. Init => IInv
  <2> SUFFICES ASSUME Init PROVE IInv
    OBVIOUS
  <2>1. InMap = {} /\ Adding = {} /\ ~Drawing
    BY DEF Init, InMap, Adding, Drawing
  <2>2. id \in [Tasks -> Nat] /\ due \in [Tasks -> Int] /\ removed \in [Tasks -> BOOLEAN] /\ ret \in [Tasks -> Nat]
    BY DEF Init
  <2>3. lateRuns \in [Tasks -> 0..2] /\ m_tasks \in Seq(Tasks)
    BY DEF Init
  <2>4. Types
    BY <2>2, <2>3 DEF Init, Types
  <2>5. OnePlace /\ Sorted /\ PutBackHasRun
    BY <2>1, TimerAssumption DEF Init, OnePlace, Sorted, PutBackHasRun, Handling, NoTask
  <2>6. RemovedMarked
    BY DEF Init, RemovedMarked
  <2>7. IdsFresh
    BY <2>1, TimerAssumption DEF Init, IdsFresh, Between, Live, NoTask
  <2> QED
    BY <2>4, <2>5, <2>6, <2>7 DEF IInv
<1>2. IInv /\ [Next]_vars => IInv'
  BY TypesPreserved, OnePlacePreserved, SortedPreserved, RemovedPreserved, PutBackPreserved, IdsPreserved
  DEF IInv
<1> QED
  BY <1>1, <1>2, PTL DEF Spec

\* A task for which remove returned true runs at most once more, however often it is
\* repeated and whatever the other callers do.
THEOREM RemovedRunsOnce == Spec => []RemovedRunsAtMostOnceMore
<1>1. IInv => RemovedRunsAtMostOnceMore
  <2> SUFFICES ASSUME IInv, NEW t \in Tasks PROVE lateRuns[t] <= 1
    BY DEF RemovedRunsAtMostOnceMore
  <2>1. CASE t \in told
    BY <2>1 DEF IInv, RemovedMarked, Marked, Gone
  <2>2. CASE t \notin told
    BY <2>2 DEF IInv, RemovedMarked
  <2> QED
    BY <2>1, <2>2
<1> QED
  BY <1>1, Invariance, PTL

\* The id that add returned finds its task and no other, as long as nobody else accessed
\* m_cur_id during an add.
THEOREM IdsFindTasks == Spec => []IdFindsTask
<1>1. IInv => IdFindsTask
  <2> SUFFICES ASSUME IInv, ~idRaced, NEW t \in Tasks, apc[t] \in {"store", "added"}, t \in InMap \ done,
                      NEW u \in InMap
               PROVE  id[u] = ret[t] <=> u = t
    BY DEF IdFindsTask
  <2>1. u \in Tasks /\ Live(t) /\ Live(u)
    BY DEF IInv, Types, InMap, Live
  <2>2. ret[t] = id[t]
    BY DEF IInv, IdsFresh
  <2> QED
    BY <2>1, <2>2 DEF IInv, IdsFresh
<1> QED
  BY <1>1, Invariance, PTL

\* Only RunBody brings the worker from `body' to `func', with the first task of the map.
LEMMA TakesFirst ==
  ASSUME Types, OnePlace, [Next]_vars, wpc = "body", wpc' = "func"
  PROVE  m_tasks # <<>> /\ wtask' = m_tasks[1] /\ wtask' \in InMap /\ due[wtask'] <= 0
<1>1. RunBody
  BY DEF Next, Add, Run, Destructor, AddBuild, AddEmplace, AddNotify, AddReturn, AddStoreId, Remove,
         RunLock, RunTest, RunSleep, RunFunc, RunDrawId, RunStoreId, RunInsert, RunWake, Wreck,
         Stop, DestructorStop, DestructorNotify, DestructorJoin, Notify, Tick, worker, vars
<1>2. m_tasks # <<>> /\ wtask' = Head(m_tasks) /\ due[Head(m_tasks)] <= 0
  BY <1>1 DEF RunBody, OnePlace
<1>3. m_tasks \in Seq(Tasks) /\ Len(m_tasks) > 0 /\ Head(m_tasks) = m_tasks[1] /\ 1 \in 1..Len(m_tasks)
  BY <1>2 DEF Types
<1> QED
  BY <1>2, <1>3 DEF InMap

\* The worker takes a task out only when it is due, and none that was due before it stays
\* behind in the map (TimerHelper.h 49-56).
EarliestFirst ==
  [][wpc = "body" /\ wpc' = "func" =>
       due[wtask'] <= 0 /\ \A u \in InMap : due[wtask'] <= due[u]]_vars

\* Tasks run in the order of their times, with any number of them in the map.
THEOREM TasksRunInOrder == Spec => EarliestFirst
<1>1. IInv /\ [Next]_vars =>
        [wpc = "body" /\ wpc' = "func" => due[wtask'] <= 0 /\ \A u \in InMap : due[wtask'] <= due[u]]_vars
  <2> SUFFICES ASSUME IInv, [Next]_vars, wpc = "body", wpc' = "func", NEW u \in InMap
               PROVE  due[wtask'] <= 0 /\ due[wtask'] <= due[u]
    <3>1. ASSUME IInv, [Next]_vars, wpc = "body", wpc' = "func" PROVE wtask' \in InMap
      BY <3>1, TakesFirst DEF IInv
    <3> QED
      BY <3>1
  <2>1. m_tasks # <<>> /\ wtask' = m_tasks[1] /\ due[wtask'] <= 0
    BY TakesFirst DEF IInv
  <2>2. PICK i \in 1..Len(m_tasks) : u = m_tasks[i]
    BY DEF InMap
  <2>3. 1 \in 1..Len(m_tasks) /\ 1 <= i
    BY <2>1, <2>2 DEF IInv, Types
  <2> QED
    BY <2>1, <2>2, <2>3 DEF IInv, Sorted
<1> QED
  BY <1>1, Invariance, PTL DEF Spec, EarliestFirst
=============================================================================
