----------------------------- MODULE Components -----------------------------
(***************************************************************************)
(* The components behind the dispatch thread of Service.exe: system log      *)
(* control, device control, clipboard control and, as far as it keeps that    *)
(* thread, file scan control.  Messages that enable and disable them come in  *)
(* any order; the one dispatch thread handles a message to its end before it  *)
(* takes the next, while the threads the components have started go on.  A    *)
(* handler that throws ends Service.exe, and Main.exe starts another one.     *)
(*                                                                         *)
(* A component takes part when its DLL was loaded: LoadedSets are the sets   *)
(* of components Service.exe may find beside it (Service.cpp 163-176), now    *)
(* and after a restart.                                                      *)
(***************************************************************************)
EXTENDS SysLog, DeviceMonitor, Clipboard

CONSTANT LoadedSets

VARIABLE loadedDlls

vars == <<dpc, loadedDlls, sysLogVars, monitorVars, clipboardVars>>

Init ==
  /\ loadedDlls \in LoadedSets
  /\ DispatcherInit /\ SysLogInit /\ MonitorInit /\ ClipboardInit

-----------------------------------------------------------------------------
(* File scan control.                                                         *)

\* CFileScan::DispatchMessages; DisableFunction does nothing.
FileScanDispatch == DispatchTo("scan")

\* EnableFunction: the feature library is opened and loaded, the pool started and one
\* task submitted; Pool.shutdown() joins the workers of the pool on this thread.
EnableScanFileFunction == Goto("scan", "shutdown") \/ Goto("shutdown", "idle")

-----------------------------------------------------------------------------

DispatchMessageFun ==
  \/ /\ "SystemLogControl" \in loadedDlls /\ SysLogDispatch
     /\ UNCHANGED <<monitorVars, clipboardVars>>
  \/ /\ "DeviceControl" \in loadedDlls /\ MonitorDispatch
     /\ UNCHANGED <<sysLogVars, clipboardVars>>
  \/ /\ "ClipboardControl" \in loadedDlls /\ ClipboardDispatch
     /\ UNCHANGED <<sysLogVars, monitorVars>>
  \/ /\ "FileScanControl" \in loadedDlls /\ FileScanDispatch
     /\ UNCHANGED <<sysLogVars, monitorVars, clipboardVars>>

Handle ==
  \/ SysLogHandler /\ UNCHANGED <<monitorVars, clipboardVars>>
  \/ MonitorHandler /\ UNCHANGED <<sysLogVars, clipboardVars>>
  \/ ClipboardHandler /\ UNCHANGED <<sysLogVars, monitorVars>>
  \/ EnableScanFileFunction /\ UNCHANGED <<sysLogVars, monitorVars, clipboardVars>>

Reader(r) == DoSystemEventThread(r) /\ UNCHANGED <<dpc, monitorVars, clipboardVars>>
Monitor(t) == MonitorThread(t) /\ UNCHANGED <<dpc, sysLogVars, clipboardVars>>

Desktop ==
  /\ "ClipboardControl" \in loadedDlls
  /\ OtherPrograms
  /\ UNCHANGED <<sysLogVars, monitorVars>>

\* What every Service.exe starts with: the globals of the components, no threads.
FreshProcess ==
  /\ dpc' = "idle"
  /\ threadExit' = FALSE /\ modMap' = [s \in Sources |-> Absent] /\ loaded' = {}
  /\ rpc' = [r \in Readers |-> "none"] /\ logOpen' = {}
  /\ rsrc' = [r \in Readers |-> Null] /\ rmod' = [r \in Readers |-> Null]
  /\ paths' = [r \in Readers |-> 0] /\ overlap' = FALSE
  /\ g_StopMonitorThread' = FALSE /\ g_SrvWnd' = NoHandle /\ g_DeviceNotifyHandle' = NoHandle
  /\ classRegistered' = FALSE /\ windows' = {} /\ notifications' = {}
  /\ mpc' = [t \in Monitors |-> "none"] /\ mi' = [t \in Monitors |-> 0]
  /\ iType' = Empty /\ FreeBuffer

\* The allocations of GetClipboardImage and FromBitMap (the vectors bits and palette)
\* and of CFileScan throw, with the clipboard open in the first case.  Nothing on the
\* dispatch thread catches it: Service.exe ends with its threads, windows and
\* registrations, Windows closes its clipboard, and a new Service.exe is started.
HandlerThrows ==
  /\ dpc \in {"image", "scan"}
  /\ FreshProcess
  /\ clipOpen' = IF clipOpen = "service" THEN "nobody" ELSE clipOpen
  /\ UNCHANGED content

Next ==
  /\ \/ DispatchMessageFun
     \/ Handle
     \/ \E r \in Readers : Reader(r)
     \/ \E t \in Monitors : Monitor(t)
     \/ Desktop
     \/ HandlerThrows
  /\ UNCHANGED loadedDlls

Spec == Init /\ [][Next]_vars

\* The dispatch thread waits for somebody: for the end of psloglist.exe, or for the
\* workers of the pool.
Waiting == dpc \in {"pswait", "shutdown"}

\* Windows runs every thread.  Nothing makes psloglist.exe or the pool's workers end;
\* messages and the other programs are not fair either.
FairSpec ==
  /\ Spec
  /\ WF_vars(Handle /\ ~Waiting /\ UNCHANGED loadedDlls)
  /\ \A r \in Readers : WF_vars(Reader(r) /\ UNCHANGED loadedDlls)
  /\ \A t \in Monitors : WF_vars(Monitor(t) /\ UNCHANGED loadedDlls)

-----------------------------------------------------------------------------
(* Properties.                                                                *)

(* After system log control was disabled every reader thread ends, and after  *)
(* device control was disabled every monitor thread ends and its window with  *)
(* it, wherever they were and whatever message follows: a thread that an      *)
(* Enable starts later ends as well, since neither flag is ever cleared       *)
(* (SysLogFun.cpp 163-167, WLUDisk.cpp 1145-1167).                            *)
DisabledThreadsEnd ==
  /\ \A r \in Readers : (threadExit /\ rpc[r] # "none") ~> (rpc[r] = "none")
  /\ \A t \in Monitors :
       (g_StopMonitorThread /\ mpc[t] # "none") ~> (mpc[t] = "none" /\ t \notin windows)

(* The dispatch thread comes back from a message of system log, device,       *)
(* clipboard or file scan control, whatever the other programs and the        *)
(* threads it has started do, but for three ways to stay: psloglist.exe never *)
(* ends (SysLogFun.cpp 95), Pool.shutdown() never ends (FileScanFun.cpp 52:   *)
(* the run of ThreadPool shows that it may not), or the image has half the    *)
(* range of 32-bit sizes, where doubling the buffer does not end              *)
(* (ClipboardManage.cpp 182-184).  Until it comes back no component gets a    *)
(* message (Service.cpp 100).                                                 *)
DispatcherReturns ==
  (dpc # "idle") ~> (dpc = "idle" \/ Oversized \/ []Waiting)
=============================================================================
