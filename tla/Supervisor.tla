----------------------------- MODULE Supervisor -----------------------------
(***************************************************************************)
(* The processes of the system: Main.exe, which supervises, and             *)
(* Service.exe, which does the work.  Both may be started several times,     *)
(* by users or by the timer of a running Main.exe, and each lets one         *)
(* instance of itself past a test on a named event.                         *)
(*                                                                         *)
(* A named event exists while some process holds a handle of it, and a       *)
(* process that has lost the test holds one too until it closes it or        *)
(* ends.  The timer decides by process name, not by event: a Service.exe     *)
(* that is about to end counts as running.                                  *)
(***************************************************************************)
EXTENDS Naturals, FiniteSets

CONSTANTS Mains,         \* places for processes of Main.exe
          Services,      \* places for processes of Service.exe
          PoolThreads,   \* bound: timer callbacks of one Main.exe that overlap
          MaxFaults,     \* bound: crashes and failures of system calls
          MaxLaunches    \* bound: processes started by users

ASSUME SupervisorAssumption ==
  /\ Mains \cap Services = {}
  /\ MaxFaults \in Nat /\ MaxLaunches \in Nat

Procs == Mains \cup Services

VARIABLES
  pc,        \* where each process is; "none" when the place is free
  handles,   \* processes that hold a handle of their program's event
  timer,     \* processes of Main.exe whose timer was created
  callback,  \* where each timer callback of each Main.exe is
  faults,    \* crashes and failures so far
  launches   \* processes users have started so far

vars == <<pc, handles, timer, callback, faults, launches>>

\* The instances of p's own program.
SameProgram(p) == IF p \in Mains THEN Mains ELSE Services

\* The instances that are past the singleton test.
Past == {p \in Procs : pc[p] \in {"won", "load", "run", "half"}}

Init ==
  /\ pc = [p \in Procs |-> "none"]
  /\ handles = {} /\ timer = {}
  /\ callback = [m \in Mains |-> [t \in PoolThreads |-> "idle"]]
  /\ faults = 0 /\ launches = 0

Fault == faults < MaxFaults /\ faults' = faults + 1

\* What the end of a process takes with it.
End(p) ==
  /\ pc' = [pc EXCEPT ![p] = "none"]
  /\ handles' = handles \ {p}
  /\ timer' = timer \ {p}
  /\ callback' = [m \in Mains |->
                    IF m = p THEN [t \in PoolThreads |-> "idle"] ELSE callback[m]]

-----------------------------------------------------------------------------
(* The operating system: processes start, end and crash.                      *)

Launch(p) ==
  /\ pc[p] = "none" /\ launches < MaxLaunches
  /\ pc' = [pc EXCEPT ![p] = "create"]
  /\ launches' = launches + 1
  /\ UNCHANGED <<handles, timer, callback, faults>>

Crash(p) ==
  /\ pc[p] # "none"
  /\ Fault
  /\ End(p)
  /\ UNCHANGED launches

Exit(p) ==
  /\ pc[p] = "exit"
  /\ End(p)
  /\ UNCHANGED <<faults, launches>>

\* CreateEvent with a name: NULL; a handle of the event that exists; or a
\* handle of a new one.
CreateNamedEvent(p, failed, exists, new) ==
  \/ /\ Fault
     /\ pc' = [pc EXCEPT ![p] = failed]
     /\ UNCHANGED handles
  \/ /\ handles \cap SameProgram(p) # {}
     /\ pc' = [pc EXCEPT ![p] = exists]
     /\ handles' = handles \cup {p}
     /\ UNCHANGED faults
  \/ /\ handles \cap SameProgram(p) = {}
     /\ pc' = [pc EXCEPT ![p] = new]
     /\ handles' = handles \cup {p}
     /\ UNCHANGED faults

-----------------------------------------------------------------------------
(* Service.exe: main.                                                         *)

\* Seeded fault: ERROR_ALREADY_EXISTS is not tested.
NoSingletonTest(s) ==
  /\ pc[s] = "create"
  /\ CreateNamedEvent(s, "exit", "won", "won")
  /\ UNCHANGED <<timer, callback, launches>>

ServiceCreateEvent(s) ==
  /\ pc[s] = "create"
  /\ CreateNamedEvent(s, "exit", "lost", "won")
  /\ UNCHANGED <<timer, callback, launches>>

\* The loser closes its handle before it returns.
ServiceCloseHandle(s) ==
  /\ pc[s] = "lost"
  /\ handles' = handles \ {s}
  /\ pc' = [pc EXCEPT ![s] = "exit"]
  /\ UNCHANGED <<timer, callback, faults, launches>>

\* Serial number and component DLLs (a DLL that is missing is only logged),
\* then InitMessageHelper.
ServiceLoad(s) ==
  /\ pc[s] = "won"
  /\ pc' = [pc EXCEPT ![s] = "load"]
  /\ UNCHANGED <<handles, timer, callback, faults, launches>>

\* The two threads are started and their handles closed; a _beginthreadex that
\* fails is not noticed, and Service.exe stays without that thread ("half").
InitMessageHelper(s) ==
  /\ pc[s] = "load"
  /\ \/ pc' = [pc EXCEPT ![s] = "run"] /\ UNCHANGED faults
     \/ Fault /\ pc' = [pc EXCEPT ![s] = "half"]
  /\ UNCHANGED <<handles, timer, callback, launches>>

-----------------------------------------------------------------------------
(* Main.exe: main.  The loser returns with its handle open: it is closed by   *)
(* the end of the process.                                                    *)

\* Seeded fault: the timer is created before the singleton test.
TimerBeforeTest(m) ==
  /\ pc[m] = "create"
  /\ CreateNamedEvent(m, "exit", "exit", "won")
  /\ timer' = timer \cup {m}
  /\ UNCHANGED <<callback, launches>>

MainCreateEvent(m) ==
  /\ pc[m] = "create"
  /\ CreateNamedEvent(m, "exit", "exit", "won")
  /\ UNCHANGED <<timer, callback, launches>>

\* The result of CreatTimerToQueue is not tested: Main.exe runs without a
\* timer when it failed.
CreatTimerToQueue(m) ==
  /\ m \in Mains /\ pc[m] = "won"
  /\ pc' = [pc EXCEPT ![m] = "run"]
  /\ \/ timer' = timer \cup {m} /\ UNCHANGED faults
     \/ Fault /\ UNCHANGED timer
  /\ UNCHANGED <<handles, callback, launches>>

-----------------------------------------------------------------------------
(* TimerRoutine, on thread t of the timer queue's pool.  Nothing keeps the    *)
(* next callback from starting before this one has returned.                  *)

Callback(m, t, l) == callback' = [callback EXCEPT ![m][t] = l]

TimerFires(m, t) ==
  /\ m \in timer /\ callback[m][t] = "idle"
  /\ Callback(m, t, "test")
  /\ UNCHANGED <<pc, handles, timer, faults, launches>>

ServiceProcesses == {s \in Services : pc[s] # "none"}

\* Seeded fault: the result of IsProcessExist is used the wrong way round.
StartsWhenPresent(m, t) ==
  /\ callback[m][t] = "test"
  /\ Callback(m, t, IF ServiceProcesses # {} THEN "start" ELSE "idle")
  /\ UNCHANGED <<pc, handles, timer, faults, launches>>

\* A failed snapshot makes IsProcessExist return FALSE.
IsProcessExist(m, t) ==
  /\ callback[m][t] = "test"
  /\ \/ /\ Callback(m, t, IF ServiceProcesses # {} THEN "idle" ELSE "start")
        /\ UNCHANGED faults
     \/ /\ Fault
        /\ Callback(m, t, "start")
  /\ UNCHANGED <<pc, handles, timer, launches>>

\* CreateProcess, a wait of at most a second, and the handles closed.  The
\* handles of the events are not inheritable.
StartProcess(m, t) ==
  /\ callback[m][t] = "start"
  /\ \/ \E s \in Services :
          /\ pc[s] = "none"
          /\ pc' = [pc EXCEPT ![s] = "create"]
          /\ UNCHANGED faults
     \/ Fault /\ UNCHANGED pc
  /\ Callback(m, t, "idle")
  /\ UNCHANGED <<handles, timer, launches>>

-----------------------------------------------------------------------------

ServiceStep(s) ==
  \/ ServiceCreateEvent(s)
  \/ ServiceCloseHandle(s)
  \/ ServiceLoad(s)
  \/ InitMessageHelper(s)
  \/ Exit(s)

MainStep(m) ==
  \/ MainCreateEvent(m)
  \/ CreatTimerToQueue(m)
  \/ Exit(m)

TimerRoutine(m, t) ==
  \/ TimerFires(m, t)
  \/ IsProcessExist(m, t)
  \/ StartProcess(m, t)

Next ==
  \/ \E s \in Services : ServiceStep(s)
  \/ \E m \in Mains : MainStep(m)
  \/ \E m \in Mains, t \in PoolThreads : TimerRoutine(m, t)
  \/ \E p \in Procs : Launch(p) \/ Crash(p)

Spec == Init /\ [][Next]_vars

\* Windows runs every process and fires every timer; what users do and what
\* fails is not fair.
FairSpec ==
  /\ Spec
  /\ \A s \in Services : WF_vars(ServiceStep(s))
  /\ \A m \in Mains : WF_vars(MainStep(m))
  /\ \A m \in Mains : \A t \in PoolThreads : WF_vars(TimerRoutine(m, t))

-----------------------------------------------------------------------------
(* Properties.                                                                *)

Stages == {"none", "create", "lost", "won", "load", "run", "half", "exit"}

(* Every variable has its type; a timer belongs to a running Main.exe, and    *)
(* only such a process has callbacks (what End clears in the code is done by  *)
(* the end of the process).                                                   *)
TypeOK ==
  /\ pc \in [Procs -> Stages]
  /\ handles \subseteq Procs /\ timer \subseteq Mains
  /\ callback \in [Mains -> [PoolThreads -> {"idle", "test", "start"}]]
  /\ faults \in 0..MaxFaults /\ launches \in 0..MaxLaunches
  /\ \A m \in Mains :
       /\ m \in timer => pc[m] = "run"
       /\ m \notin timer => \A t \in PoolThreads : callback[m][t] = "idle"

(* However many Service.exe and Main.exe are started, by users, by one timer  *)
(* whose callbacks overlap, or because a snapshot failed, and whichever of    *)
(* them crash, at most one of each program is past its test on the named      *)
(* event (Service.cpp 146-157, Main.cpp 26-36).                               *)
OnePastTheTest ==
  \A p, q \in Past : q \in SameProgram(p) => p = q

(* If a Main.exe whose timer was created lives on, then once crashes,         *)
(* failures and users have stopped, a Service.exe stays for good: the losers  *)
(* that keep the event alive after the winner died, and those whose name      *)
(* keeps the timer from starting another, only delay it.  The process that    *)
(* stays may lack a thread, if starting one failed in InitMessageHelper: the  *)
(* timer looks for the process alone and never replaces it.                   *)
ServiceComesBack ==
  (<>[](timer # {})) => <>[](\E s \in Services : pc[s] \in {"run", "half"})
=============================================================================
