----------------------------- MODULE Dispatcher -----------------------------
(***************************************************************************)
(* The thread of Service.exe that calls the components.  One thread hands    *)
(* every message to its component's DispatchMessages and waits for the call  *)
(* to return, so at any time at most one component is handling a message.   *)
(* The modules of the components say what happens at their own labels.       *)
(***************************************************************************)
VARIABLE dpc    \* "idle", or where the thread is in a component's handler

DispatcherInit == dpc = "idle"

\* DispatchMessageFun: the handler of the next message starts at label l.
DispatchTo(l) == dpc = "idle" /\ dpc' = l

\* The thread goes from label l to label k; k = "idle" returns.
Goto(l, k) == dpc = l /\ dpc' = k
=============================================================================
