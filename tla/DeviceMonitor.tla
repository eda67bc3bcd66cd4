---------------------------- MODULE DeviceMonitor ----------------------------
(***************************************************************************)
(* Device control: the monitor thread of CWLUDisk.  Enabling device control  *)
(* takes a snapshot of the devices and starts a thread that registers a      *)
(* window class, creates a window, registers it for the changes of several   *)
(* interfaces and pumps messages.  The dispatch thread that disables device  *)
(* control shares the globals g_SrvWnd, g_DeviceNotifyHandle and             *)
(* g_StopMonitorThread with it, without a lock.                              *)
(*                                                                         *)
(* A window is named by the thread that created it, a registration by that   *)
(* thread and the index of the interface.  The snapshot changes no state     *)
(* this module is about and is a step of the dispatch thread.                *)
(***************************************************************************)
EXTENDS Dispatcher, Naturals

CONSTANTS Monitors,    \* bound: monitor threads that exist at one time
          Interfaces,  \* length of GUID_DEVINTERFACE_LIST
          NoHandle     \* NULL

ASSUME MonitorAssumption ==
  /\ NoHandle \notin Monitors /\ Interfaces \in Nat \ {0}

VARIABLES
  g_StopMonitorThread,
  g_SrvWnd,
  g_DeviceNotifyHandle,
  classRegistered,   \* "VolumeChangeWnd" is registered in the process
  windows,           \* windows that exist
  notifications,     \* registrations that exist
  mpc,               \* where each monitor thread is
  mi                 \* its loop variable i

monitorGlobals == <<g_StopMonitorThread, g_SrvWnd, g_DeviceNotifyHandle>>
windowsState == <<classRegistered, windows, notifications>>
monitorVars == <<monitorGlobals, windowsState, mpc, mi>>

MonitorInit ==
  /\ g_StopMonitorThread = FALSE
  /\ g_SrvWnd = NoHandle /\ g_DeviceNotifyHandle = NoHandle
  /\ classRegistered = FALSE /\ windows = {} /\ notifications = {}
  /\ mpc = [t \in Monitors |-> "none"] /\ mi = [t \in Monitors |-> 0]

-----------------------------------------------------------------------------
(* The dispatch thread.                                                       *)

\* EnableFunction: DealDeviceChangeMsg ...
DealDeviceChangeMsg ==
  /\ Goto("snapshot", "create")
  /\ UNCHANGED monitorVars

\* ... and CreatMonitorThread: one more thread, or none when that fails.  Its
\* handle is kept only to be closed, and is lost when another Enable follows.
CreatMonitorThread ==
  /\ Goto("create", "idle")
  /\ \/ \E t \in Monitors :
          /\ mpc[t] = "none"
          /\ mpc' = [mpc EXCEPT ![t] = "class"]
     \/ UNCHANGED mpc
  /\ UNCHANGED <<monitorGlobals, windowsState, mi>>

\* StopMonitorThread, in three steps.  Only the last registration is undone.
StopNotification ==
  /\ Goto("unnotify", "unwindow")
  /\ notifications' = notifications \ {g_DeviceNotifyHandle}
  /\ g_DeviceNotifyHandle' = NoHandle
  /\ UNCHANGED <<g_StopMonitorThread, g_SrvWnd, classRegistered, windows, mpc, mi>>

\* DestroyWindow does nothing to a window that another thread created.
StopWindow ==
  /\ Goto("unwindow", "stop")
  /\ g_SrvWnd' = NoHandle
  /\ UNCHANGED <<g_StopMonitorThread, g_DeviceNotifyHandle, windowsState, mpc, mi>>

\* CloseHandle of the thread, and the flag, which is never cleared.
StopFlag ==
  /\ Goto("stop", "idle")
  /\ g_StopMonitorThread' = TRUE
  /\ UNCHANGED <<g_SrvWnd, g_DeviceNotifyHandle, windowsState, mpc, mi>>

\* CWLUDisk::DispatchMessages.
MonitorDispatch ==
  /\ \/ DispatchTo("snapshot")
     \/ DispatchTo("unnotify")
  /\ UNCHANGED monitorVars

-----------------------------------------------------------------------------
(* MonitorThread, thread t.                                                   *)

MonitorAt(t, l, k) == mpc[t] = l /\ mpc' = [mpc EXCEPT ![t] = k]

\* Seeded fault: the result of RegisterClass is not tested.
RegisterClassUntested(t) ==
  /\ MonitorAt(t, "class", "window")
  /\ classRegistered' = TRUE
  /\ UNCHANGED <<monitorGlobals, windows, notifications, mi>>

\* RegisterClass fails when the class exists; nothing ever unregisters it.
RegisterClass(t) ==
  /\ \/ ~classRegistered /\ MonitorAt(t, "class", "window") /\ classRegistered' = TRUE
     \/ MonitorAt(t, "class", "end") /\ UNCHANGED classRegistered
  /\ UNCHANGED <<monitorGlobals, windows, notifications, mi>>

\* g_SrvWnd = CreateWindowEx(...)
CreateWindow(t) ==
  /\ MonitorAt(t, "window", "wtest")
  /\ \/ g_SrvWnd' = t /\ windows' = windows \cup {t}
     \/ g_SrvWnd' = NoHandle /\ UNCHANGED windows
  /\ UNCHANGED <<g_StopMonitorThread, g_DeviceNotifyHandle, classRegistered, notifications, mi>>

\* if (g_SrvWnd == NULL), which the dispatch thread may have written since.
TestWindow(t) ==
  /\ MonitorAt(t, "wtest", IF g_SrvWnd = NoHandle THEN "end" ELSE "notify")
  /\ mi' = [mi EXCEPT ![t] = 0]
  /\ UNCHANGED <<monitorGlobals, windowsState>>

\* g_DeviceNotifyHandle = RegisterDeviceNotification(g_SrvWnd, ...): it fails when the
\* dispatch thread has set the window to NULL.
RegisterDeviceNotification(t) ==
  /\ mi[t] < Interfaces
  /\ MonitorAt(t, "notify", "ntest")
  /\ \/ /\ g_SrvWnd # NoHandle
        /\ g_DeviceNotifyHandle' = <<g_SrvWnd, mi[t]>>
        /\ notifications' = notifications \cup {<<g_SrvWnd, mi[t]>>}
     \/ g_DeviceNotifyHandle' = NoHandle /\ UNCHANGED notifications
  /\ UNCHANGED <<g_StopMonitorThread, g_SrvWnd, classRegistered, windows, mi>>

\* if (g_DeviceNotifyHandle == NULL), which the dispatch thread writes as well; i++.
TestNotification(t) ==
  /\ \/ /\ g_DeviceNotifyHandle # NoHandle /\ MonitorAt(t, "ntest", "notify")
        /\ mi' = [mi EXCEPT ![t] = @ + 1]
     \/ /\ g_DeviceNotifyHandle = NoHandle /\ MonitorAt(t, "ntest", "end")
        /\ UNCHANGED mi
  /\ UNCHANGED <<monitorGlobals, windowsState>>

\* while (!g_StopMonitorThread): a device change is only logged.
PumpMessages(t) ==
  /\ \/ /\ mpc[t] = "notify" /\ mi[t] = Interfaces
        /\ mpc' = [mpc EXCEPT ![t] = "pump"]
     \/ g_StopMonitorThread /\ MonitorAt(t, "pump", "end")
  /\ UNCHANGED <<monitorGlobals, windowsState, mi>>

\* The end of a thread destroys its windows; the registrations stay.
MonitorEnd(t) ==
  /\ MonitorAt(t, "end", "none")
  /\ windows' = windows \ {t}
  /\ mi' = [mi EXCEPT ![t] = 0]
  /\ UNCHANGED <<monitorGlobals, classRegistered, notifications>>

-----------------------------------------------------------------------------

MonitorHandler ==
  \/ DealDeviceChangeMsg \/ CreatMonitorThread
  \/ StopNotification \/ StopWindow \/ StopFlag

MonitorThread(t) ==
  \/ RegisterClass(t) \/ CreateWindow(t) \/ TestWindow(t)
  \/ RegisterDeviceNotification(t) \/ TestNotification(t)
  \/ PumpMessages(t) \/ MonitorEnd(t)

-----------------------------------------------------------------------------
(* Properties.                                                                *)

(* The globals that name the window and the registration have one writer      *)
(* besides the dispatch thread: however often device control is enabled and   *)
(* disabled, at most one thread is past RegisterClass and only its window      *)
(* exists, so g_SrvWnd, which it reads again for every interface, is its own   *)
(* window or NULL, and what it registers is registered for its own window      *)
(* (WLUDisk.cpp 1082-1118, 1147-1157).                                         *)
OneMonitorWindow ==
  LET Past == {t \in Monitors : mpc[t] \in {"window", "wtest", "notify", "ntest", "pump"}} IN
  /\ \A t, u \in Past : t = u
  /\ \A t \in Past : windows \subseteq {t}
  /\ \A t \in Past : mpc[t] # "window" => g_SrvWnd \in {t, NoHandle}
  /\ \A n \in notifications : \A t \in windows : n[1] = t
=============================================================================
