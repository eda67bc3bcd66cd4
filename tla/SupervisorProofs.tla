-------------------------- MODULE SupervisorProofs --------------------------
(***************************************************************************)
(* Proofs about Supervisor, for any numbers of processes, callbacks, crashes *)
(* and launches.  A process past the singleton test holds a handle of its    *)
(* program's event (HoldersWon); CreateEvent reports a new event only when   *)
(* nobody holds one, so a second process never gets past the test.           *)
(***************************************************************************)
EXTENDS Supervisor, TLAPS

(* Whoever is past the test holds a handle of the event.                      *)
HoldersWon == Past \subseteq handles

IInv == TypeOK /\ HoldersWon /\ OnePastTheTest

(* Initially there is no process.                                             *)
LEMMA InitIInv == Init => IInv
  BY SupervisorAssumption
  DEF Init, IInv, TypeOK, HoldersWon, OnePastTheTest, Past, Procs, Stages, SameProgram

(* The end of a process, by a crash or by itself, leaves the invariant: it    *)
(* takes the handle, the timer and the callbacks with it.                     *)
LEMMA EndKeeps ==
  ASSUME IInv, NEW p \in Procs, End(p),
         faults' \in 0..MaxFaults, launches' \in 0..MaxLaunches
  PROVE  IInv'
<1> USE DEF End, Stages
<1>1. TypeOK'
  <2>1. pc' \in [Procs -> Stages] /\ handles' \subseteq Procs /\ timer' \subseteq Mains
    BY DEF IInv, TypeOK
  <2>2. callback' \in [Mains -> [PoolThreads -> {"idle", "test", "start"}]]
    BY DEF IInv, TypeOK
  <2>3. ASSUME NEW m \in Mains
        PROVE  /\ m \in timer' => pc'[m] = "run"
               /\ m \notin timer' => \A t \in PoolThreads : callback'[m][t] = "idle"
    BY <2>3 DEF IInv, TypeOK, Procs
  <2> QED BY <2>1, <2>2, <2>3 DEF TypeOK
<1>2. Past' \subseteq Past \ {p}
  BY DEF IInv, TypeOK, Past, Procs
<1>3. HoldersWon' /\ OnePastTheTest'
  BY <1>2 DEF IInv, HoldersWon, OnePastTheTest, SameProgram
<1> QED BY <1>1, <1>3 DEF IInv

(* A process moves from one stage to another without passing the test.        *)
LEMMA MoveKeeps ==
  ASSUME IInv, NEW p \in Procs, NEW l \in Stages,
         pc' = [pc EXCEPT ![p] = l],
         l \in {"won", "load", "run", "half"} => p \in Past,
         \A q \in Procs \ {p} : q \in handles => q \in handles',
         p \in handles => p \in handles' \/ l \notin {"won", "load", "run", "half"},
         handles' \subseteq Procs
  PROVE  HoldersWon' /\ OnePastTheTest' /\ pc' \in [Procs -> Stages]
<1>1. Past' \subseteq Past
  BY DEF IInv, TypeOK, Past
<1>2. \A q \in Past' : q \in handles'
  BY <1>1 DEF IInv, TypeOK, Past, HoldersWon
<1>3. pc' \in [Procs -> Stages]
  BY DEF IInv, TypeOK
<1> QED
  BY <1>1, <1>2, <1>3 DEF IInv, HoldersWon, OnePastTheTest, SameProgram

(* CreateEvent: the only step that lets a process past the test, and only     *)
(* when no process of the program holds a handle.                             *)
LEMMA CreateKeeps ==
  ASSUME IInv, NEW p \in Procs, NEW x \in {"exit", "lost"}, pc[p] = "create",
         CreateNamedEvent(p, "exit", x, "won"),
         UNCHANGED <<timer, callback, launches>>
  PROVE  IInv'
<1>1. TypeOK'
  BY SupervisorAssumption DEF IInv, TypeOK, CreateNamedEvent, Fault, Stages, Procs
<1>2. Past' \subseteq Past \cup {p} /\ handles \subseteq handles'
  BY DEF IInv, TypeOK, CreateNamedEvent, Past
<1>3. p \in Past' => p \in handles' /\ handles \cap SameProgram(p) = {}
  BY DEF IInv, TypeOK, CreateNamedEvent, Past
<1>4. HoldersWon'
  BY <1>2, <1>3 DEF IInv, HoldersWon
<1>5. OnePastTheTest'
  <2> SUFFICES ASSUME NEW q \in Past', NEW r \in Past', r \in SameProgram(q) PROVE q = r
    BY DEF OnePastTheTest, SameProgram
  <2>1. q \in SameProgram(r) /\ q \in SameProgram(q) /\ r \in SameProgram(r)
    BY SupervisorAssumption DEF Past, Procs, SameProgram
  <2>2. CASE q # p /\ r # p
    BY <2>2, <1>2 DEF IInv, OnePastTheTest
  <2>3. CASE q = p /\ r # p
    BY <2>3, <1>2, <1>3 DEF IInv, HoldersWon
  <2>4. CASE q # p /\ r = p
    BY <2>4, <2>1, <1>2, <1>3 DEF IInv, HoldersWon
  <2> QED BY <2>2, <2>3, <2>4
<1> QED BY <1>1, <1>4, <1>5 DEF IInv

(* Every step of Service.exe keeps the invariant.                             *)
LEMMA ServiceKeeps ==
  ASSUME IInv, NEW s \in Services, ServiceStep(s)
  PROVE  IInv'
<1>0. s \in Procs /\ s \notin Mains
  BY SupervisorAssumption DEF Procs
<1>1. CASE ServiceCreateEvent(s)
  BY <1>0, <1>1, CreateKeeps DEF ServiceCreateEvent
<1>2. CASE ServiceCloseHandle(s)
  <2> USE <1>2 DEF ServiceCloseHandle
  <2>1. HoldersWon' /\ OnePastTheTest' /\ pc' \in [Procs -> Stages]
    BY <1>0, MoveKeeps DEF Stages, IInv, TypeOK
  <2>2. TypeOK'
    BY <1>0, <2>1 DEF IInv, TypeOK, Procs
  <2> QED BY <2>1, <2>2 DEF IInv
<1>3. CASE ServiceLoad(s) \/ InitMessageHelper(s)
  <2> USE <1>3 DEF ServiceLoad, InitMessageHelper
  <2>1. HoldersWon' /\ OnePastTheTest' /\ pc' \in [Procs -> Stages]
    BY <1>0, MoveKeeps DEF Stages, IInv, TypeOK, Past
  <2>2. TypeOK'
    BY <1>0, <2>1, SupervisorAssumption DEF IInv, TypeOK, Procs, Fault
  <2> QED BY <2>1, <2>2 DEF IInv
<1>4. CASE Exit(s)
  BY <1>0, <1>4, EndKeeps DEF Exit, IInv, TypeOK
<1> QED BY <1>1, <1>2, <1>3, <1>4 DEF ServiceStep

(* Every step of Main.exe's main keeps the invariant.                         *)
LEMMA MainKeeps ==
  ASSUME IInv, NEW m \in Mains, MainStep(m)
  PROVE  IInv'
<1>0. m \in Procs
  BY DEF Procs
<1>1. CASE MainCreateEvent(m)
  BY <1>0, <1>1, CreateKeeps DEF MainCreateEvent
<1>2. CASE CreatTimerToQueue(m)
  <2> USE <1>2 DEF CreatTimerToQueue
  <2>1. HoldersWon' /\ OnePastTheTest' /\ pc' \in [Procs -> Stages]
    BY <1>0, MoveKeeps DEF Stages, IInv, TypeOK, Past
  <2>2. TypeOK'
    BY <1>0, <2>1, SupervisorAssumption DEF IInv, TypeOK, Procs, Fault
  <2> QED BY <2>1, <2>2 DEF IInv
<1>3. CASE Exit(m)
  BY <1>0, <1>3, EndKeeps DEF Exit, IInv, TypeOK
<1> QED BY <1>1, <1>2, <1>3 DEF MainStep

(* Every step of a timer callback keeps the invariant.                        *)
LEMMA TimerKeeps ==
  ASSUME IInv, NEW m \in Mains, NEW t \in PoolThreads, TimerRoutine(m, t)
  PROVE  IInv'
<1> USE DEF Callback
<1>1. CASE TimerFires(m, t)
  <2>1. TypeOK'
    BY <1>1 DEF IInv, TypeOK, TimerFires
  <2>2. HoldersWon' /\ OnePastTheTest'
    BY <1>1 DEF IInv, TimerFires, HoldersWon, OnePastTheTest, Past, SameProgram
  <2> QED BY <2>1, <2>2 DEF IInv
<1>2. CASE IsProcessExist(m, t)
  <2>1. TypeOK'
    BY <1>2, SupervisorAssumption DEF IInv, TypeOK, IsProcessExist, Fault
  <2>2. HoldersWon' /\ OnePastTheTest'
    BY <1>2 DEF IInv, IsProcessExist, HoldersWon, OnePastTheTest, Past, SameProgram
  <2> QED BY <2>1, <2>2 DEF IInv
<1>3. CASE StartProcess(m, t)
  <2>1. CASE UNCHANGED pc
    <3>1. TypeOK'
      BY <1>3, <2>1, SupervisorAssumption DEF IInv, TypeOK, StartProcess, Fault
    <3>2. HoldersWon' /\ OnePastTheTest'
      BY <1>3, <2>1 DEF IInv, StartProcess, HoldersWon, OnePastTheTest, Past, SameProgram
    <3> QED BY <3>1, <3>2 DEF IInv
  <2>2. ASSUME NEW s \in Services, pc[s] = "none", pc' = [pc EXCEPT ![s] = "create"],
               UNCHANGED faults
        PROVE  IInv'
    <3>0. s \in Procs /\ s \notin Mains
      BY SupervisorAssumption DEF Procs
    <3>1. HoldersWon' /\ OnePastTheTest' /\ pc' \in [Procs -> Stages]
      BY <1>3, <2>2, <3>0, MoveKeeps DEF StartProcess, Stages, IInv, TypeOK
    <3>2. TypeOK'
      BY <1>3, <2>2, <3>0, <3>1 DEF StartProcess, IInv, TypeOK, Procs
    <3> QED BY <3>1, <3>2 DEF IInv
  <2> QED BY <1>3, <2>1, <2>2 DEF StartProcess
<1> QED BY <1>1, <1>2, <1>3 DEF TimerRoutine

(* What users and crashes do keeps the invariant.                             *)
LEMMA SystemKeeps ==
  ASSUME IInv, NEW p \in Procs, Launch(p) \/ Crash(p)
  PROVE  IInv'
<1>1. CASE Launch(p)
  <2>1. HoldersWon' /\ OnePastTheTest' /\ pc' \in [Procs -> Stages]
    BY <1>1, MoveKeeps DEF Launch, Stages, IInv, TypeOK
  <2>2. TypeOK'
    BY <1>1, <2>1, SupervisorAssumption DEF Launch, IInv, TypeOK, Procs
  <2> QED BY <2>1, <2>2 DEF IInv
<1>2. CASE Crash(p)
  BY <1>2, EndKeeps, SupervisorAssumption DEF Crash, Fault, IInv, TypeOK
<1> QED BY <1>1, <1>2

(* The invariant is inductive.                                                *)
LEMMA NextIInv == IInv /\ [Next]_vars => IInv'
<1> SUFFICES ASSUME IInv, [Next]_vars PROVE IInv'
  OBVIOUS
<1>1. CASE UNCHANGED vars
  BY <1>1 DEF vars, IInv, TypeOK, HoldersWon, OnePastTheTest, Past, SameProgram
<1>2. CASE Next
  BY <1>2, ServiceKeeps, MainKeeps, TimerKeeps, SystemKeeps DEF Next
<1> QED BY <1>1, <1>2

(* Every variable of the supervisor keeps its type, and only a running        *)
(* Main.exe has a timer and callbacks.                                        *)
THEOREM SupervisorTypeCorrect == Spec => []TypeOK
<1>1. IInv => TypeOK
  BY DEF IInv
<1> QED BY InitIInv, NextIInv, <1>1, PTL DEF Spec

(* At most one Main.exe and one Service.exe is past its singleton test,       *)
(* whatever is started, overlaps, fails or crashes.                           *)
THEOREM SingleInstance == Spec => []OnePastTheTest
<1>1. IInv => OnePastTheTest
  BY DEF IInv
<1> QED BY InitIInv, NextIInv, <1>1, PTL DEF Spec
=============================================================================
