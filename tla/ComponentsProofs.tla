-------------------------- MODULE ComponentsProofs --------------------------
(***************************************************************************)
(* Proofs about Components: the safety invariants of system log control,     *)
(* device control and clipboard control, for any threads, modules, sources,  *)
(* interfaces and sizes, and any set of loaded components.  A component's    *)
(* invariant is about its own variables; the steps of the others leave those *)
(* alone, and move the dispatch thread only between labels of their own.     *)
(***************************************************************************)
EXTENDS Components, TLAPS

-----------------------------------------------------------------------------
(* Clipboard control.                                                         *)

ClipLabels == {"data", "image", "grow", "realloc", "copy", "closeclip"}

(* The sizes have their types.                                                *)
SizesOK ==
  /\ io \in [pos : Nat, size : 0..(WordSize - 1), alloc : Nat]
  /\ new_size \in 0..(WordSize - 1) /\ chunk \in Nat /\ written \in Nat

(* The loop that doubles the size has ended.                                  *)
GrownEnough == dpc = "realloc" => io.pos + chunk < new_size

ClipInv == SizesOK /\ BufferHoldsImage /\ GrownEnough /\ ClipboardGivenBack

(* The facts of % that the sizes need.                                        *)
LEMMA ModRange ==
  ASSUME NEW x \in Nat, NEW n \in Nat \ {0}
  PROVE  x % n \in 0..(n - 1) /\ (x < n => x % n = x)
  OBVIOUS

(* Steps of the clipboard's handler and of the other programs.                *)
LEMMA ClipStep ==
  ASSUME ClipInv, ClipboardDispatch \/ ClipboardHandler \/ OtherPrograms
  PROVE  ClipInv'
<1>0. WordSize \in Nat \ {0} /\ FirstSize \in 1..(WordSize - 1) /\ Chunks \subseteq Nat \ {0}
  BY ClipboardAssumption
<1> USE DEF ClipInv
<1>1. CASE ClipboardDispatch
  BY <1>1 DEF ClipboardDispatch, DispatchTo, clipboardVars, image, SizesOK,
     BufferHoldsImage, GrownEnough, ClipboardGivenBack
<1>2. CASE OtherPrograms
  BY <1>2 DEF OtherPrograms, OtherOpens, OtherCloses, image, SizesOK,
     BufferHoldsImage, GrownEnough, ClipboardGivenBack
<1>3. CASE GetClipboardFormat \/ IsClipboardFormatAvailable \/ OpenClipboard \/ GetClipboardData
  BY <1>3 DEF GetClipboardFormat, IsClipboardFormatAvailable, OpenClipboard, GetClipboardData,
     Goto, clipboardVars, image, SizesOK, BufferHoldsImage, GrownEnough, ClipboardGivenBack
<1>4. CASE CloseClipboard \/ ImageFails
  BY <1>0, <1>4 DEF CloseClipboard, ImageFails, FreeBuffer, NoBuffer,
     Goto, SizesOK, BufferHoldsImage, GrownEnough, ClipboardGivenBack
<1>5. CASE ImageDone
  BY <1>5 DEF ImageDone, Goto, clipboardVars, image, SizesOK, BufferHoldsImage, GrownEnough,
     ClipboardGivenBack
<1>6. ASSUME NEW n \in Chunks, WriteToBufio(n) PROVE ClipInv'
  <2>1. n \in Nat /\ io.size \in Nat
    BY <1>0 DEF SizesOK
  <2>2. (io.size * 2) % WordSize \in 0..(WordSize - 1)
    <3>1. io.size * 2 \in Nat
      BY <2>1
    <3> QED BY <1>0, <3>1, ModRange
  <2>3. SizesOK'
    <3>1. new_size' \in 0..(WordSize - 1)
      <4>1. CASE io.pos + n > io.size
        BY <1>0, <1>6, <2>2, <4>1 DEF WriteToBufio
      <4>2. CASE ~(io.pos + n > io.size)
        BY <1>6, <4>2 DEF WriteToBufio, SizesOK
      <4> QED BY <4>1, <4>2
    <3>2. io' = io /\ chunk' = n /\ written' = written
      BY <1>6 DEF WriteToBufio
    <3> QED BY <2>1, <3>1, <3>2 DEF SizesOK
  <2> QED BY <1>6, <2>1, <2>3 DEF WriteToBufio, Goto, SizesOK, BufferHoldsImage,
     GrownEnough, ClipboardGivenBack
<1>7. CASE Grow
  <2>1. (new_size * 2) % WordSize \in 0..(WordSize - 1)
    BY <1>0, ModRange DEF SizesOK
  <2> QED BY <1>7, <2>1 DEF Grow, Goto, SizesOK, BufferHoldsImage, GrownEnough,
     ClipboardGivenBack
<1>8. CASE Realloc
  <2>1. CASE Goto("realloc", "copy") /\ io' = [pos |-> io.pos, size |-> new_size, alloc |-> new_size]
             /\ UNCHANGED <<new_size, chunk, written>>
    <3>1. io'.pos = io.pos /\ io'.size = new_size /\ io'.alloc = new_size
      BY <2>1 DEF SizesOK
    <3>2. SizesOK'
      BY <2>1 DEF SizesOK
    <3>3. BufferHoldsImage' /\ GrownEnough'
      <4>1. dpc = "realloc" /\ dpc' = "copy" /\ chunk' = chunk /\ written' = written
        BY <2>1 DEF Goto
      <4>2. io.pos = written /\ io.pos + chunk < new_size
        BY <4>1 DEF BufferHoldsImage, GrownEnough
      <4>3. io.pos \in Nat /\ chunk \in Nat /\ new_size \in Nat
        BY DEF SizesOK
      <4> QED BY <3>1, <4>1, <4>2, <4>3 DEF BufferHoldsImage, GrownEnough
    <3>4. ClipboardGivenBack'
      BY <1>8, <2>1 DEF Realloc, Goto, ClipboardGivenBack
    <3> QED BY <3>2, <3>3, <3>4
  <2>2. CASE Goto("realloc", "closeclip") /\ FreeBuffer
    BY <1>0, <1>8, <2>2 DEF Realloc, FreeBuffer, NoBuffer, Goto, SizesOK, BufferHoldsImage,
       GrownEnough, ClipboardGivenBack
  <2> QED BY <1>8, <2>1, <2>2 DEF Realloc
<1>9. CASE Copy
  <2>1. (io.pos + chunk) % WordSize = io.pos + chunk
    <3>1. io.pos + chunk \in Nat /\ io.pos + chunk < WordSize
      BY <1>0, <1>9 DEF Copy, Goto, SizesOK, BufferHoldsImage
    <3> QED BY <1>0, <3>1, ModRange
  <2> QED BY <1>0, <1>9, <2>1 DEF Copy, Goto, SizesOK, BufferHoldsImage, GrownEnough,
     ClipboardGivenBack
<1> QED BY <1>1, <1>2, <1>3, <1>4, <1>5, <1>6, <1>7, <1>8, <1>9 DEF ClipboardHandler

(* Steps of the others.                                                       *)
LEMMA ClipFrame ==
  ASSUME ClipInv, UNCHANGED clipboardVars,
         dpc' = dpc \/ (dpc \notin ClipLabels /\ dpc' \notin ClipLabels)
  PROVE  ClipInv'
  BY DEF ClipInv, clipboardVars, image, SizesOK, BufferHoldsImage, GrownEnough,
     ClipboardGivenBack, ClipLabels

-----------------------------------------------------------------------------
(* Device control.                                                            *)

PastClass == {t \in Monitors : mpc[t] \in {"window", "wtest", "notify", "ntest", "pump"}}

MonitorLabels == {"none", "class", "window", "wtest", "notify", "ntest", "pump", "end"}

MonitorTypes ==
  /\ mpc \in [Monitors -> MonitorLabels]
  /\ windows \subseteq Monitors /\ g_SrvWnd \in Monitors \cup {NoHandle}
  /\ classRegistered \in BOOLEAN

(* The class is registered once: before, nothing exists; while the thread     *)
(* that registered it creates its window, nothing but the class exists.       *)
FirstRegistered ==
  /\ ~classRegistered => PastClass = {} /\ windows = {} /\ notifications = {}
  /\ \A t \in Monitors : mpc[t] = "window" => windows = {} /\ notifications = {}

(* Only a thread past RegisterClass, or ending, has a window, and only one    *)
(* thread ever has.                                                           *)
OneOwner ==
  /\ \A t \in windows : mpc[t] \in {"wtest", "notify", "ntest", "pump", "end"}
  /\ \A t, u \in PastClass \cup windows : t = u
  /\ \A t \in PastClass : mpc[t] # "window" => g_SrvWnd \in {t, NoHandle}
  /\ \A n \in notifications : \A t \in PastClass \cup windows : n[1] = t

MonitorInv == MonitorTypes /\ FirstRegistered /\ OneOwner

(* The invariant says what OneMonitorWindow promises.                         *)
LEMMA MonitorInvGivesOne == MonitorInv => OneMonitorWindow
  BY DEF MonitorInv, OneOwner, OneMonitorWindow, PastClass

(* Steps of the dispatch thread in device control.                            *)
LEMMA MonitorHandlerStep ==
  ASSUME MonitorInv, MonitorDispatch \/ MonitorHandler
  PROVE  MonitorInv'
<1> USE DEF MonitorInv, MonitorTypes, MonitorLabels, FirstRegistered, OneOwner, PastClass, Goto,
            monitorVars, monitorGlobals, windowsState
<1>1. CASE MonitorDispatch \/ DealDeviceChangeMsg \/ StopFlag
  BY <1>1 DEF MonitorDispatch, DealDeviceChangeMsg, StopFlag
<1>2. CASE CreatMonitorThread
  BY <1>2 DEF CreatMonitorThread
<1>3. CASE StopNotification \/ StopWindow
  BY <1>3 DEF StopNotification, StopWindow
<1> QED BY <1>1, <1>2, <1>3 DEF MonitorHandler

(* Steps of a monitor thread.                                                 *)
LEMMA MonitorThreadStep ==
  ASSUME MonitorInv, NEW t \in Monitors, MonitorThread(t)
  PROVE  MonitorInv'
<1> USE DEF MonitorInv, MonitorTypes, MonitorLabels, FirstRegistered, OneOwner, PastClass, MonitorAt,
            monitorGlobals, windowsState
<1>1. CASE RegisterClass(t)
  <2>0. UNCHANGED <<g_SrvWnd, windows, notifications>>
    BY <1>1 DEF RegisterClass
  <2>1. CASE ~classRegistered /\ mpc[t] = "class" /\ mpc' = [mpc EXCEPT ![t] = "window"]
             /\ classRegistered' = TRUE
    <3>1. PastClass = {} /\ windows = {} /\ notifications = {}
      BY <2>1
    <3>2. PastClass' = {t} /\ windows' = {} /\ notifications' = {}
      BY <2>0, <2>1, <3>1
    <3> QED BY <2>0, <2>1, <3>1, <3>2
  <2>2. CASE mpc[t] = "class" /\ mpc' = [mpc EXCEPT ![t] = "end"] /\ UNCHANGED classRegistered
    <3>1. PastClass' = PastClass /\ \A u \in Monitors \ {t} : mpc'[u] = mpc[u]
      BY <2>2
    <3>2. t \notin windows /\ mpc' \in [Monitors -> MonitorLabels]
      BY <2>2
    <3>3. MonitorTypes'
      BY <2>0, <2>2, <3>2
    <3>4. FirstRegistered'
      BY <2>0, <2>2, <3>1
    <3>5. OneOwner'
      BY <2>0, <2>2, <3>1, <3>2
    <3> QED BY <3>3, <3>4, <3>5
  <2> QED BY <1>1, <2>1, <2>2 DEF RegisterClass
<1>2. CASE CreateWindow(t)
  BY <1>2 DEF CreateWindow
<1>3. CASE RegisterDeviceNotification(t)
  <2>0. /\ mpc[t] = "notify" /\ mpc' = [mpc EXCEPT ![t] = "ntest"]
        /\ UNCHANGED <<g_SrvWnd, classRegistered, windows>>
    BY <1>3 DEF RegisterDeviceNotification
  <2>1. PastClass' = PastClass /\ t \in PastClass /\ \A u \in Monitors : mpc[u] # "window"
    BY <2>0
  <2>2. CASE UNCHANGED notifications
    BY <2>0, <2>1, <2>2
  <2>3. CASE g_SrvWnd # NoHandle /\ notifications' = notifications \cup {<<g_SrvWnd, mi[t]>>}
    <3>1. g_SrvWnd = t
      BY <2>0, <2>1, <2>3
    <3>2. \A n \in notifications' : \A u \in PastClass \cup windows : n[1] = u
      BY <2>1, <2>3, <3>1
    <3>3. MonitorTypes' /\ FirstRegistered'
      BY <2>0, <2>1
    <3>4. OneOwner'
      BY <2>0, <2>1, <3>2
    <3> QED BY <3>3, <3>4
  <2> QED BY <1>3, <2>2, <2>3 DEF RegisterDeviceNotification
<1>6. CASE TestWindow(t)
  BY <1>6 DEF TestWindow
<1>7. CASE TestNotification(t)
  BY <1>7 DEF TestNotification
<1>4. CASE PumpMessages(t)
  BY <1>4 DEF PumpMessages
<1>5. CASE MonitorEnd(t)
  BY <1>5 DEF MonitorEnd
<1> QED BY <1>1, <1>2, <1>3, <1>4, <1>5, <1>6, <1>7 DEF MonitorThread

(* Steps of the others.                                                       *)
LEMMA MonitorFrame ==
  ASSUME MonitorInv, UNCHANGED monitorVars
  PROVE  MonitorInv'
  BY DEF MonitorInv, MonitorTypes, FirstRegistered, OneOwner, PastClass,
     monitorVars, monitorGlobals, windowsState

-----------------------------------------------------------------------------
(* System log control.                                                        *)

ReaderLabels ==
  {"none", "open", "loop", "read", "end",
   "find", "cached", "free", "erase", "path", "load", "try", "store"}

SysLogTypes ==
  /\ rpc \in [Readers -> ReaderLabels]
  /\ modMap \in [Sources -> Modules \cup {Absent, Null}]
  /\ loaded \subseteq Modules
  /\ rsrc \in [Readers -> Sources \cup {Null}]
  /\ rmod \in [Readers -> Modules \cup {Null}]
  /\ overlap \in BOOLEAN

(* A reader in FormatEventDescription has a source, and where it has a module *)
(* that is one.                                                               *)
ReaderHolds ==
  \A r \in Readers :
    /\ r \in Formatting => rsrc[r] \in Sources
    /\ rpc[r] \in {"cached", "free", "erase", "try", "store"} => rmod[r] \in Modules

Alone == \A r, u \in Formatting : r = u

(* What the one reader in FormatEventDescription knows of the map is true.    *)
ReaderKnows ==
  \A r \in Formatting :
    /\ rpc[r] \in {"cached", "free"} => modMap[rsrc[r]] = rmod[r] /\ rmod[r] \in loaded
    /\ rpc[r] = "erase" => modMap[rsrc[r]] = rmod[r] /\ rmod[r] \notin loaded
    /\ rpc[r] \in {"path", "load", "try", "store"} => modMap[rsrc[r]] = Absent
    /\ rpc[r] \in {"try", "store"} => rmod[r] \in loaded /\ \A s \in Sources : modMap[s] # rmod[r]

MapIsLoaded ==
  \A s \in Sources : modMap[s] \in Modules =>
    modMap[s] \in loaded \/ \E r \in Readers : rpc[r] = "erase" /\ rsrc[r] = s

MapIsInjective ==
  \A s, u \in Sources : modMap[s] \in Modules /\ modMap[s] = modMap[u] => s = u

NoneForgotten ==
  \A h \in loaded :
    \/ \E s \in Sources : modMap[s] = h
    \/ \E r \in Readers : rpc[r] \in {"try", "store"} /\ rmod[r] = h

Accounts == Alone /\ ReaderKnows /\ MapIsLoaded /\ MapIsInjective /\ NoneForgotten

ModuleInv == SysLogTypes /\ ReaderHolds /\ (~overlap => Accounts)

(* The invariant says what ModulesAccounted promises.                         *)
LEMMA ModuleInvGivesAccounted == ModuleInv => ModulesAccounted
<1> SUFFICES ASSUME ModuleInv, ~overlap PROVE ModulesAccounted
  BY DEF ModulesAccounted
<1>1. Accounts
  BY DEF ModuleInv
<1>2. CachedModuleIsLoaded
  BY <1>1 DEF Accounts, ReaderKnows, CachedModuleIsLoaded, Formatting
<1> QED
  BY <1>1, <1>2 DEF Accounts, MapIsLoaded, MapIsInjective, NoneForgotten, ModulesAccounted

(* Steps of the dispatch thread in system log control: they may start a       *)
(* reader, at its beginning.                                                  *)
LEMMA SysLogHandlerStep ==
  ASSUME ModuleInv, SysLogDispatch \/ SysLogHandler
  PROVE  ModuleInv'
<1>1. UNCHANGED <<modMap, loaded, rsrc, rmod, overlap>>
  BY DEF SysLogDispatch, SysLogHandler, Psloglist, GetSysLogByEvtSubscribe,
     GetSysLogByReadEventLog, RecycleSysLogResource, sysLogVars, readerVars
<1>2. UNCHANGED rpc \/ StartReader
  BY DEF SysLogDispatch, SysLogHandler, Psloglist, GetSysLogByEvtSubscribe,
     GetSysLogByReadEventLog, RecycleSysLogResource, sysLogVars, readerVars
<1>3. rpc' \in [Readers -> ReaderLabels]
      /\ \A r \in Readers : rpc'[r] = rpc[r] \/ (rpc[r] = "none" /\ rpc'[r] = "open")
  BY <1>2 DEF StartReader, ModuleInv, SysLogTypes, ReaderLabels
<1>4. Formatting' = Formatting
  BY <1>3 DEF Formatting
<1>5. SysLogTypes' /\ ReaderHolds'
  BY <1>1, <1>3, <1>4 DEF ModuleInv, SysLogTypes, ReaderHolds
<1>6. ASSUME ~overlap PROVE Accounts'
  <2>1. Accounts
    BY <1>6 DEF ModuleInv
  <2>2. Alone' /\ ReaderKnows' /\ MapIsInjective'
    BY <1>1, <1>3, <1>4, <2>1 DEF Accounts, Alone, ReaderKnows, MapIsInjective, Formatting
  <2>3. MapIsLoaded' /\ NoneForgotten'
    BY <1>1, <1>3, <2>1 DEF Accounts, MapIsLoaded, NoneForgotten
  <2> QED BY <2>2, <2>3 DEF Accounts
<1> QED BY <1>1, <1>5, <1>6 DEF ModuleInv

FormatLabels == {"find", "cached", "free", "erase", "path", "load", "try", "store"}

(* A reader that moves outside FormatEventDescription and touches nothing     *)
(* else.                                                                      *)
LEMMA ReaderOutside ==
  ASSUME ModuleInv, NEW r \in Readers, NEW k \in ReaderLabels \ FormatLabels,
         rpc[r] \notin FormatLabels, rpc' = [rpc EXCEPT ![r] = k],
         UNCHANGED <<modMap, loaded, rsrc, rmod, overlap>>
  PROVE  ModuleInv'
<1>1. rpc' \in [Readers -> ReaderLabels] /\ rpc'[r] = k
      /\ \A u \in Readers \ {r} : rpc'[u] = rpc[u]
  BY DEF ModuleInv, SysLogTypes
<1>2. k \notin FormatLabels /\ Formatting' = Formatting /\ r \notin Formatting
  BY <1>1 DEF Formatting, FormatLabels
<1>3. SysLogTypes' /\ ReaderHolds'
  BY <1>1, <1>2 DEF ModuleInv, SysLogTypes, ReaderHolds, FormatLabels
<1>4. ASSUME ~overlap PROVE Accounts'
  <2>1. Accounts
    BY <1>4 DEF ModuleInv
  <2>2. Alone' /\ MapIsInjective'
    BY <1>2, <2>1 DEF Accounts, Alone, MapIsInjective
  <2>3. ReaderKnows'
    BY <1>1, <1>2, <2>1 DEF Accounts, ReaderKnows, Formatting
  <2>4. MapIsLoaded' /\ NoneForgotten'
    BY <1>1, <1>2, <2>1 DEF Accounts, MapIsLoaded, NoneForgotten, FormatLabels
  <2> QED BY <2>2, <2>3, <2>4 DEF Accounts
<1> QED BY <1>3, <1>4 DEF ModuleInv

(* A reader in FormatEventDescription: as long as readers have not overlapped *)
(* the others are elsewhere, before and after its step.                       *)
LEMMA OthersOutside ==
  ASSUME ModuleInv, ~overlap, NEW r \in Formatting, NEW k \in ReaderLabels,
         rpc' = [rpc EXCEPT ![r] = k]
  PROVE  /\ rpc' \in [Readers -> ReaderLabels] /\ rpc'[r] = k
         /\ \A u \in Readers : u # r => rpc[u] \notin FormatLabels /\ rpc'[u] \notin FormatLabels
         /\ Alone' /\ Formatting' \subseteq {r}
<1>1. rpc' \in [Readers -> ReaderLabels] /\ rpc'[r] = k /\ r \in Readers
      /\ \A u \in Readers \ {r} : rpc'[u] = rpc[u]
  BY DEF ModuleInv, SysLogTypes, Formatting
<1>2. Alone
  BY DEF ModuleInv, Accounts
<1>3. \A u \in Readers : u # r => u \notin Formatting
  BY <1>2 DEF Alone
<1>4. \A u \in Readers : u # r => rpc[u] \notin FormatLabels /\ rpc'[u] \notin FormatLabels
  BY <1>1, <1>3 DEF Formatting, FormatLabels
<1>5. Formatting' \subseteq {r}
  BY <1>4 DEF Formatting, FormatLabels
<1> QED BY <1>1, <1>4, <1>5 DEF Alone

(* A reader that leaves FormatEventDescription forgets its source and module. *)
(* The map and the modules are sound when they are without this reader.       *)
LEMMA ReaderReturns ==
  ASSUME ModuleInv, NEW r \in Formatting, NEW l \in FormatLabels, Return(r, l),
         modMap' \in [Sources -> Modules \cup {Absent, Null}], loaded' \subseteq Modules,
         UNCHANGED overlap,
         ~overlap =>
           /\ \A s \in Sources : modMap'[s] \in Modules => modMap'[s] \in loaded'
           /\ MapIsInjective'
           /\ \A h \in loaded' : \E s \in Sources : modMap'[s] = h
  PROVE  ModuleInv'
<1>0. r \in Readers /\ rpc' = [rpc EXCEPT ![r] = "loop"]
      /\ rsrc' = [rsrc EXCEPT ![r] = Null] /\ rmod' = [rmod EXCEPT ![r] = Null]
  BY DEF Return, At, Formatting
<1>1. rpc' \in [Readers -> ReaderLabels] /\ rpc'[r] = "loop"
      /\ \A u \in Readers \ {r} : rpc'[u] = rpc[u] /\ rsrc'[u] = rsrc[u] /\ rmod'[u] = rmod[u]
  BY <1>0 DEF ModuleInv, SysLogTypes, ReaderLabels
<1>2. SysLogTypes'
  BY <1>0, <1>1 DEF ModuleInv, SysLogTypes
<1>3. ReaderHolds'
  BY <1>1 DEF ModuleInv, ReaderHolds, Formatting
<1>4. ASSUME ~overlap PROVE Accounts'
  <2>1. Alone' /\ Formatting' \subseteq {r}
    BY <1>0, <1>4, OthersOutside DEF ReaderLabels
  <2>2. Formatting' = {}
    BY <1>1, <2>1 DEF Formatting
  <2> QED BY <1>4, <2>1, <2>2 DEF Accounts, ReaderKnows, MapIsLoaded, NoneForgotten
<1> QED BY <1>2, <1>3, <1>4 DEF ModuleInv

(* What a step that takes reader r to label k with module h must establish of *)
(* the new map and the new set of modules.                                    *)
StaysSound(r, k, h) ==
  /\ k \in FormatLabels /\ h \in Modules \cup {Null}
  /\ modMap' \in [Sources -> Modules \cup {Absent, Null}] /\ loaded' \subseteq Modules
  /\ k \in {"cached", "free", "erase", "try", "store"} => h \in Modules
  /\ ~overlap =>
       /\ k \in {"cached", "free"} => modMap'[rsrc[r]] = h /\ h \in loaded'
       /\ k = "erase" => modMap'[rsrc[r]] = h /\ h \notin loaded'
       /\ k \in {"path", "load", "try", "store"} => modMap'[rsrc[r]] = Absent
       /\ k \in {"try", "store"} => h \in loaded' /\ \A s \in Sources : modMap'[s] # h
       /\ \A s \in Sources : modMap'[s] \in Modules =>
            modMap'[s] \in loaded' \/ (k = "erase" /\ rsrc[r] = s)
       /\ MapIsInjective'
       /\ \A m \in loaded' :
            (\E s \in Sources : modMap'[s] = m) \/ (k \in {"try", "store"} /\ h = m)

(* A reader that stays in FormatEventDescription.                             *)
LEMMA ReaderStays ==
  ASSUME ModuleInv, NEW r \in Formatting, NEW k, NEW h, StaysSound(r, k, h),
         rpc' = [rpc EXCEPT ![r] = k], UNCHANGED <<rsrc, overlap>>,
         rmod' = [rmod EXCEPT ![r] = h]
  PROVE  ModuleInv'
<1> USE DEF StaysSound
<1>0. r \in Readers /\ k \in ReaderLabels /\ rsrc' = rsrc
  BY DEF Formatting, FormatLabels, ReaderLabels
<1>1. rpc' \in [Readers -> ReaderLabels] /\ rpc'[r] = k /\ rmod'[r] = h
      /\ \A u \in Readers \ {r} : rpc'[u] = rpc[u] /\ rmod'[u] = rmod[u]
  BY <1>0 DEF ModuleInv, SysLogTypes
<1>2. SysLogTypes'
  BY <1>0, <1>1 DEF ModuleInv, SysLogTypes
<1>3. ReaderHolds'
  BY <1>0, <1>1 DEF ModuleInv, ReaderHolds, Formatting
<1>4. ASSUME ~overlap PROVE Accounts'
  <2>1. Alone' /\ Formatting' \subseteq {r}
    BY <1>0, <1>4, OthersOutside
  <2>2. ReaderKnows'
    BY <1>0, <1>1, <1>4, <2>1 DEF ReaderKnows
  <2>3. MapIsLoaded' /\ NoneForgotten'
    BY <1>0, <1>1, <1>4 DEF MapIsLoaded, NoneForgotten
  <2> QED BY <1>4, <2>1, <2>2, <2>3 DEF Accounts
<1> QED BY <1>2, <1>3, <1>4 DEF ModuleInv

(* What the invariant says of a reader in FormatEventDescription, spelt out.  *)
LEMMA FormattingFacts ==
  ASSUME ModuleInv, NEW r \in Formatting
  PROVE  /\ r \in Readers /\ rsrc[r] \in Sources /\ rmod[r] \in Modules \cup {Null}
         /\ rmod = [rmod EXCEPT ![r] = rmod[r]]
         /\ modMap \in [Sources -> Modules \cup {Absent, Null}] /\ loaded \subseteq Modules
         /\ rpc[r] \in {"cached", "free", "erase", "try", "store"} => rmod[r] \in Modules
         /\ ~overlap =>
              /\ rpc[r] \in {"cached", "free"} => modMap[rsrc[r]] = rmod[r] /\ rmod[r] \in loaded
              /\ rpc[r] = "erase" => modMap[rsrc[r]] = rmod[r] /\ rmod[r] \notin loaded
              /\ rpc[r] \in {"path", "load", "try", "store"} => modMap[rsrc[r]] = Absent
              /\ rpc[r] \in {"try", "store"} => rmod[r] \in loaded /\ \A s \in Sources : modMap[s] # rmod[r]
              /\ \A s \in Sources : modMap[s] \in Modules =>
                   modMap[s] \in loaded \/ (rpc[r] = "erase" /\ rsrc[r] = s)
              /\ MapIsInjective
              /\ \A h \in loaded :
                   (\E s \in Sources : modMap[s] = h) \/ (rpc[r] \in {"try", "store"} /\ rmod[r] = h)
<1>1. /\ r \in Readers /\ rsrc[r] \in Sources /\ rmod[r] \in Modules \cup {Null}
      /\ rmod = [rmod EXCEPT ![r] = rmod[r]]
      /\ modMap \in [Sources -> Modules \cup {Absent, Null}] /\ loaded \subseteq Modules
      /\ rpc[r] \in {"cached", "free", "erase", "try", "store"} => rmod[r] \in Modules
  <2>1. r \in Readers
    BY DEF Formatting
  <2> QED BY <2>1 DEF ModuleInv, SysLogTypes, ReaderHolds
<1>2. ASSUME ~overlap
      PROVE  /\ rpc[r] \in {"cached", "free"} => modMap[rsrc[r]] = rmod[r] /\ rmod[r] \in loaded
             /\ rpc[r] = "erase" => modMap[rsrc[r]] = rmod[r] /\ rmod[r] \notin loaded
             /\ rpc[r] \in {"path", "load", "try", "store"} => modMap[rsrc[r]] = Absent
             /\ rpc[r] \in {"try", "store"} => rmod[r] \in loaded /\ \A s \in Sources : modMap[s] # rmod[r]
             /\ \A s \in Sources : modMap[s] \in Modules =>
                  modMap[s] \in loaded \/ (rpc[r] = "erase" /\ rsrc[r] = s)
             /\ MapIsInjective
             /\ \A h \in loaded :
                  (\E s \in Sources : modMap[s] = h) \/ (rpc[r] \in {"try", "store"} /\ rmod[r] = h)
  <2>1. Accounts
    BY <1>2 DEF ModuleInv
  <2>2. \A u \in Readers : rpc[u] \in {"erase", "try", "store"} => u = r
    BY <2>1 DEF Accounts, Alone, Formatting
  <2>3. \A s \in Sources : modMap[s] \in Modules =>
          modMap[s] \in loaded \/ (rpc[r] = "erase" /\ rsrc[r] = s)
    BY <2>1, <2>2 DEF Accounts, MapIsLoaded
  <2>4. \A h \in loaded :
          (\E s \in Sources : modMap[s] = h) \/ (rpc[r] \in {"try", "store"} /\ rmod[r] = h)
    BY <2>1, <2>2 DEF Accounts, NoneForgotten
  <2> QED BY <2>1, <2>3, <2>4 DEF Accounts, ReaderKnows
<1> QED BY <1>1, <1>2

(* The steps of a reader, one by one.                                         *)
LEMMA SysLogReaderStep ==
  ASSUME ModuleInv, NEW r \in Readers, DoSystemEventThread(r)
  PROVE  ModuleInv'
<1>0. Absent \notin Modules /\ Null \notin Modules /\ Absent # Null
  BY SysLogAssumption
<1> DEFINE Outside(k) == /\ rpc[r] \notin FormatLabels /\ rpc' = [rpc EXCEPT ![r] = k]
                         /\ UNCHANGED <<modMap, loaded, rsrc, rmod, overlap>>
<1>1. ASSUME NEW k \in ReaderLabels \ FormatLabels, Outside(k) PROVE ModuleInv'
  BY <1>1, ReaderOutside
<1>2. {"loop", "read", "end", "none"} \subseteq ReaderLabels \ FormatLabels
  BY DEF ReaderLabels, FormatLabels
<1>3. CASE OpenLog(r) \/ TestExit(r) \/ ReadFails(r) \/ ReaderEnd(r)
  <2>1. Outside("loop") \/ Outside("read") \/ Outside("end") \/ Outside("none")
    BY <1>3 DEF OpenLog, TestExit, ReadFails, ReaderEnd, At, FormatLabels
  <2> QED BY <1>1, <1>2, <2>1
<1>4. CASE ReadRecord(r)
  <2>1. CASE At(r, "read", "loop") /\ UNCHANGED <<rsrc, overlap>>
    <3>1. Outside("loop")
      BY <1>4, <2>1 DEF ReadRecord, At, FormatLabels
    <3> QED BY <1>1, <1>2, <3>1
  <2>2. ASSUME NEW s \in Sources, At(r, "read", "find"), rsrc' = [rsrc EXCEPT ![r] = s],
               overlap' = (overlap \/ Formatting # {})
        PROVE  ModuleInv'
    <3>0. UNCHANGED <<modMap, loaded, rmod>>
      BY <1>4 DEF ReadRecord
    <3>1. rpc' \in [Readers -> ReaderLabels] /\ rpc'[r] = "find" /\ rpc[r] = "read" /\ rsrc'[r] = s
          /\ \A u \in Readers \ {r} : rpc'[u] = rpc[u] /\ rsrc'[u] = rsrc[u]
      BY <2>2 DEF At, ModuleInv, SysLogTypes, ReaderLabels
    <3>2. overlap' \in BOOLEAN
      BY <2>2, Zenon
    <3>3. SysLogTypes'
      BY <2>2, <3>0, <3>1, <3>2 DEF ModuleInv, SysLogTypes
    <3>4. ReaderHolds'
      BY <3>0, <3>1 DEF ModuleInv, ReaderHolds, Formatting
    <3>5. ASSUME ~overlap' PROVE Accounts'
      <4>1. ~overlap /\ Formatting = {} /\ Accounts
        BY <2>2, <3>5 DEF ModuleInv
      <4>2. Formatting' = {r}
        BY <3>1, <4>1 DEF Formatting
      <4>3. Alone' /\ ReaderKnows' /\ MapIsInjective'
        BY <3>0, <3>1, <4>1, <4>2 DEF Accounts, Alone, ReaderKnows, MapIsInjective
      <4>4. \A u \in Readers : rpc[u] \notin {"erase", "try", "store"}
        BY <4>1 DEF Formatting
      <4>5. MapIsLoaded' /\ NoneForgotten'
        BY <3>0, <4>1, <4>4 DEF Accounts, MapIsLoaded, NoneForgotten
      <4> QED BY <4>3, <4>5 DEF Accounts
    <3> QED BY <3>3, <3>4, <3>5 DEF ModuleInv
  <2> QED BY <1>4, <2>1, <2>2 DEF ReadRecord
<1>5. ASSUME r \in Formatting, FindModule(r) PROVE ModuleInv'
  <2>0. rpc[r] = "find" /\ UNCHANGED <<modMap, loaded, overlap>>
    BY <1>5 DEF FindModule
  <2>1. CASE Return(r, "find")
    BY <1>5, <2>0, <2>1, FormattingFacts, ReaderReturns DEF FormatLabels, MapIsInjective
  <2>2. CASE modMap[rsrc[r]] = Absent /\ At(r, "find", "path") /\ UNCHANGED <<rsrc, rmod>>
    <3>1. StaysSound(r, "path", rmod[r])
      BY <1>0, <1>5, <2>0, <2>2, FormattingFacts DEF StaysSound, FormatLabels, MapIsInjective
    <3>2. rpc' = [rpc EXCEPT ![r] = "path"] /\ rmod' = [rmod EXCEPT ![r] = rmod[r]]
      BY <1>5, <2>0, <2>2, FormattingFacts DEF At
    <3> QED BY <1>5, <2>0, <2>2, <3>1, <3>2, ReaderStays
  <2>3. CASE modMap[rsrc[r]] \in Modules /\ At(r, "find", "cached")
             /\ rmod' = [rmod EXCEPT ![r] = modMap[rsrc[r]]] /\ UNCHANGED rsrc
    <3>1. StaysSound(r, "cached", modMap[rsrc[r]])
      BY <1>0, <1>5, <2>0, <2>3, FormattingFacts DEF StaysSound, FormatLabels, MapIsInjective
    <3>2. rpc' = [rpc EXCEPT ![r] = "cached"] /\ rmod' = [rmod EXCEPT ![r] = modMap[rsrc[r]]]
      BY <1>5, <2>0, <2>3, FormattingFacts DEF At
    <3> QED BY <1>5, <2>0, <2>3, <3>1, <3>2, ReaderStays
  <2> QED BY <1>5, <2>1, <2>2, <2>3 DEF FindModule
<1>6. ASSUME r \in Formatting, FormatCached(r) PROVE ModuleInv'
  <2>0. rpc[r] = "cached" /\ UNCHANGED <<modMap, loaded, overlap>>
    BY <1>6 DEF FormatCached, Return, At
  <2>1. CASE Return(r, "cached")
    BY <1>6, <2>0, <2>1, FormattingFacts, ReaderReturns DEF FormatLabels, MapIsInjective
  <2>2. CASE At(r, "cached", "free") /\ UNCHANGED <<rsrc, rmod>>
    <3>1. StaysSound(r, "free", rmod[r])
      BY <1>0, <1>6, <2>0, <2>2, FormattingFacts DEF StaysSound, FormatLabels, MapIsInjective
    <3>2. rpc' = [rpc EXCEPT ![r] = "free"] /\ rmod' = [rmod EXCEPT ![r] = rmod[r]]
      BY <1>6, <2>0, <2>2, FormattingFacts DEF At
    <3> QED BY <1>6, <2>0, <2>2, <3>1, <3>2, ReaderStays
  <2> QED BY <1>6, <2>1, <2>2 DEF FormatCached
<1>7. ASSUME r \in Formatting, FreeCached(r) PROVE ModuleInv'
  <2>0. /\ rpc[r] = "free" /\ rpc' = [rpc EXCEPT ![r] = "erase"] /\ loaded' = loaded \ {rmod[r]}
        /\ UNCHANGED <<modMap, rsrc, rmod, overlap>>
    BY <1>7 DEF FreeCached, At
  <2>1. StaysSound(r, "erase", rmod[r])
    BY <1>7, <2>0, FormattingFacts DEF StaysSound, FormatLabels, MapIsInjective
  <2>2. rmod' = [rmod EXCEPT ![r] = rmod[r]]
    BY <1>7, <2>0, FormattingFacts
  <2> QED BY <1>7, <2>0, <2>1, <2>2, ReaderStays
<1>8. ASSUME r \in Formatting, EraseCached(r) PROVE ModuleInv'
  <2>0. /\ rpc[r] = "erase" /\ rpc' = [rpc EXCEPT ![r] = "path"]
        /\ modMap' = [modMap EXCEPT ![rsrc[r]] = Absent] /\ rmod' = [rmod EXCEPT ![r] = Null]
        /\ UNCHANGED <<loaded, rsrc, overlap>>
    BY <1>8 DEF EraseCached, At
  <2>1. modMap'[rsrc[r]] = Absent /\ \A s \in Sources : s # rsrc[r] => modMap'[s] = modMap[s]
    BY <1>8, <2>0, FormattingFacts
  <2>2. StaysSound(r, "path", Null)
    BY <1>0, <1>8, <2>0, <2>1, FormattingFacts DEF StaysSound, FormatLabels, MapIsInjective
  <2> QED BY <1>8, <2>0, <2>2, ReaderStays
<1>9. ASSUME r \in Formatting, DllPath(r) PROVE ModuleInv'
  <2>0. rpc[r] = "path" /\ UNCHANGED <<loaded, overlap>>
    BY <1>9 DEF DllPath, Return, At
  <2>1. CASE Return(r, "path") /\ modMap' = [modMap EXCEPT ![rsrc[r]] = Null]
    <3>1. modMap'[rsrc[r]] = Null /\ \A s \in Sources : s # rsrc[r] => modMap'[s] = modMap[s]
      BY <1>9, <2>1, FormattingFacts
    <3> QED BY <1>0, <1>9, <2>0, <2>1, <3>1, FormattingFacts, ReaderReturns DEF FormatLabels, MapIsInjective
  <2>2. CASE At(r, "path", "load") /\ UNCHANGED <<modMap, rsrc, rmod>>
    <3>1. StaysSound(r, "load", rmod[r])
      BY <1>0, <1>9, <2>0, <2>2, FormattingFacts DEF StaysSound, FormatLabels, MapIsInjective
    <3>2. rpc' = [rpc EXCEPT ![r] = "load"] /\ rmod' = [rmod EXCEPT ![r] = rmod[r]]
      BY <1>9, <2>0, <2>2, FormattingFacts DEF At
    <3> QED BY <1>9, <2>0, <2>2, <3>1, <3>2, ReaderStays
  <2> QED BY <1>9, <2>1, <2>2 DEF DllPath
<1>10. ASSUME r \in Formatting, LoadModule(r) PROVE ModuleInv'
  <2>0. rpc[r] = "load" /\ UNCHANGED <<modMap, overlap>>
    BY <1>10 DEF LoadModule, NextPath, Return, At
  <2>1. ASSUME NEW h \in Modules \ loaded, At(r, "load", "try"), loaded' = loaded \cup {h},
               rmod' = [rmod EXCEPT ![r] = h], UNCHANGED rsrc
        PROVE  ModuleInv'
    <3>1. StaysSound(r, "try", h)
      BY <1>0, <1>10, <2>0, <2>1, FormattingFacts DEF StaysSound, FormatLabels, MapIsInjective
    <3>2. rpc' = [rpc EXCEPT ![r] = "try"] /\ rmod' = [rmod EXCEPT ![r] = h]
      BY <1>10, <2>0, <2>1, FormattingFacts DEF At
    <3> QED BY <1>10, <2>0, <2>1, <3>1, <3>2, ReaderStays
  <2>2. CASE UNCHANGED <<loaded, rsrc>> /\ At(r, "load", "load") /\ rmod' = [rmod EXCEPT ![r] = Null]
    <3>1. StaysSound(r, "load", Null)
      BY <1>0, <1>10, <2>0, <2>2, FormattingFacts DEF StaysSound, FormatLabels, MapIsInjective
    <3>2. rpc' = [rpc EXCEPT ![r] = "load"] /\ rmod' = [rmod EXCEPT ![r] = Null]
      BY <1>10, <2>0, <2>2, FormattingFacts DEF At
    <3> QED BY <1>10, <2>0, <2>2, <3>1, <3>2, ReaderStays
  <2>3. CASE UNCHANGED loaded /\ Return(r, "load")
    BY <1>10, <2>0, <2>3, FormattingFacts, ReaderReturns DEF FormatLabels, MapIsInjective
  <2> QED BY <1>10, <2>1, <2>2, <2>3 DEF LoadModule, NextPath
<1>11. ASSUME r \in Formatting, FormatLoaded(r) PROVE ModuleInv'
  <2>0. rpc[r] = "try" /\ UNCHANGED <<modMap, overlap>>
    BY <1>11 DEF FormatLoaded, NextPath, Return, At
  <2>1. CASE At(r, "try", "store") /\ UNCHANGED <<loaded, rsrc, rmod>>
    <3>1. StaysSound(r, "store", rmod[r])
      BY <1>0, <1>11, <2>0, <2>1, FormattingFacts DEF StaysSound, FormatLabels, MapIsInjective
    <3>2. rpc' = [rpc EXCEPT ![r] = "store"] /\ rmod' = [rmod EXCEPT ![r] = rmod[r]]
      BY <1>11, <2>0, <2>1, FormattingFacts DEF At
    <3> QED BY <1>11, <2>0, <2>1, <3>1, <3>2, ReaderStays
  <2>2. CASE loaded' = loaded \ {rmod[r]} /\ At(r, "try", "load")
             /\ rmod' = [rmod EXCEPT ![r] = Null] /\ UNCHANGED rsrc
    <3>1. StaysSound(r, "load", Null)
      BY <1>0, <1>11, <2>0, <2>2, FormattingFacts DEF StaysSound, FormatLabels, MapIsInjective
    <3>2. rpc' = [rpc EXCEPT ![r] = "load"] /\ rmod' = [rmod EXCEPT ![r] = Null]
      BY <1>11, <2>0, <2>2, FormattingFacts DEF At
    <3> QED BY <1>11, <2>0, <2>2, <3>1, <3>2, ReaderStays
  <2>3. CASE loaded' = loaded \ {rmod[r]} /\ Return(r, "try")
    BY <1>11, <2>0, <2>3, FormattingFacts, ReaderReturns DEF FormatLabels, MapIsInjective
  <2> QED BY <1>11, <2>1, <2>2, <2>3 DEF FormatLoaded, NextPath
<1>12. ASSUME r \in Formatting, StoreModule(r) PROVE ModuleInv'
  <2>0. /\ rpc[r] = "store" /\ Return(r, "store") /\ UNCHANGED <<loaded, overlap>>
        /\ modMap' = [modMap EXCEPT ![rsrc[r]] = rmod[r]]
    BY <1>12 DEF StoreModule, Return, At
  <2>1. modMap'[rsrc[r]] = rmod[r] /\ \A s \in Sources : s # rsrc[r] => modMap'[s] = modMap[s]
    BY <1>12, <2>0, FormattingFacts
  <2> QED BY <1>0, <1>12, <2>0, <2>1, FormattingFacts, ReaderReturns DEF FormatLabels, MapIsInjective
<1>13. FindModule(r) \/ FormatCached(r) \/ FreeCached(r) \/ EraseCached(r) \/ DllPath(r)
       \/ LoadModule(r) \/ FormatLoaded(r) \/ StoreModule(r) => r \in Formatting
  BY DEF FindModule, FormatCached, FreeCached, EraseCached, DllPath, LoadModule, NextPath,
     FormatLoaded, StoreModule, Return, At, Formatting
<1> QED BY <1>3, <1>4, <1>5, <1>6, <1>7, <1>8, <1>9, <1>10, <1>11, <1>12, <1>13
        DEF DoSystemEventThread

(* Steps of the others.                                                       *)
LEMMA SysLogFrame ==
  ASSUME ModuleInv, UNCHANGED sysLogVars
  PROVE  ModuleInv'
<1>1. UNCHANGED <<modMap, loaded, rpc, rsrc, rmod, overlap>>
  BY DEF sysLogVars, readerVars
<1>2. Formatting' = Formatting
  BY <1>1 DEF Formatting
<1> QED BY <1>1, <1>2 DEF ModuleInv, SysLogTypes, ReaderHolds, Accounts, Alone, ReaderKnows,
     MapIsLoaded, MapIsInjective, NoneForgotten

-----------------------------------------------------------------------------
(* The components together.                                                   *)

IInv == ClipInv /\ MonitorInv /\ ModuleInv

(* The invariant holds at the start.                                          *)
LEMMA InitIInv == Init => IInv
<1> SUFFICES ASSUME Init PROVE IInv
  OBVIOUS
<1>1. ClipInv
  BY ClipboardAssumption DEF Init, DispatcherInit, ClipboardInit, NoBuffer, ClipInv, SizesOK,
     BufferHoldsImage, GrownEnough, ClipboardGivenBack
<1>2. MonitorInv
  BY DEF Init, MonitorInit, MonitorInv, MonitorTypes, MonitorLabels, FirstRegistered, OneOwner, PastClass
<1>3. ModuleInv
  <2>1. Formatting = {}
    BY DEF Init, SysLogInit, Formatting
  <2>2. SysLogTypes /\ ReaderHolds
    BY <2>1 DEF Init, SysLogInit, SysLogTypes, ReaderHolds, ReaderLabels
  <2>3. Accounts
    BY <2>1, SysLogAssumption DEF Init, SysLogInit, Accounts, Alone, ReaderKnows, MapIsLoaded,
       MapIsInjective, NoneForgotten
  <2> QED BY <2>2, <2>3 DEF ModuleInv
<1> QED BY <1>1, <1>2, <1>3 DEF IInv

(* After a handler has thrown, the next Service.exe starts from nothing and    *)
(* the clipboard is not the old one's.                                        *)
LEMMA ThrowIInv ==
  ASSUME ClipInv, HandlerThrows
  PROVE  IInv'
<1>1. ClipInv'
  <2>1. SizesOK' /\ BufferHoldsImage' /\ GrownEnough'
    BY ClipboardAssumption DEF HandlerThrows, FreshProcess, FreeBuffer, NoBuffer, SizesOK,
       BufferHoldsImage, GrownEnough
  <2>2. ClipboardGivenBack'
    BY DEF HandlerThrows, FreshProcess, ClipboardGivenBack
  <2> QED BY <2>1, <2>2 DEF ClipInv
<1>2. MonitorInv'
  BY DEF HandlerThrows, FreshProcess, MonitorInv, MonitorTypes, MonitorLabels, FirstRegistered,
     OneOwner, PastClass
<1>3. ModuleInv'
  <2>1. Formatting' = {}
    BY DEF HandlerThrows, FreshProcess, Formatting
  <2>2. SysLogTypes' /\ ReaderHolds'
    BY <2>1 DEF HandlerThrows, FreshProcess, SysLogTypes, ReaderHolds, ReaderLabels
  <2>3. Accounts'
    BY <2>1, SysLogAssumption DEF HandlerThrows, FreshProcess, Accounts, Alone, ReaderKnows,
       MapIsLoaded, MapIsInjective, NoneForgotten
  <2> QED BY <2>2, <2>3 DEF ModuleInv
<1> QED BY <1>1, <1>2, <1>3 DEF IInv

(* The dispatch thread in the other components stays off the clipboard's      *)
(* labels.                                                                    *)
LEMMA OtherLabels ==
  ASSUME \/ SysLogDispatch \/ SysLogHandler \/ MonitorDispatch \/ MonitorHandler
         \/ FileScanDispatch \/ EnableScanFileFunction
  PROVE  dpc \notin ClipLabels /\ dpc' \notin ClipLabels
<1>1. CASE SysLogDispatch \/ SysLogHandler
  BY <1>1 DEF SysLogDispatch, SysLogHandler, Psloglist, GetSysLogByEvtSubscribe,
     GetSysLogByReadEventLog, RecycleSysLogResource, DispatchTo, Goto, ClipLabels
<1>2. CASE MonitorDispatch \/ MonitorHandler
  BY <1>2 DEF MonitorDispatch, MonitorHandler, DealDeviceChangeMsg, CreatMonitorThread,
     StopNotification, StopWindow, StopFlag, DispatchTo, Goto, ClipLabels
<1>3. CASE FileScanDispatch \/ EnableScanFileFunction
  BY <1>3 DEF FileScanDispatch, EnableScanFileFunction, DispatchTo, Goto, ClipLabels
<1> QED BY <1>1, <1>2, <1>3

(* Every step belongs to one component and leaves the others alone.           *)
LEMMA NextIInv == IInv /\ [Next]_vars => IInv'
<1> SUFFICES ASSUME IInv, [Next]_vars PROVE IInv'
  OBVIOUS
<1>0. ClipInv /\ MonitorInv /\ ModuleInv
  BY DEF IInv
<1>1. CASE UNCHANGED vars
  BY <1>0, <1>1, ClipFrame, MonitorFrame, SysLogFrame DEF vars, IInv
<1>2. CASE (SysLogDispatch \/ SysLogHandler) /\ UNCHANGED <<monitorVars, clipboardVars>>
  BY <1>0, <1>2, OtherLabels, ClipFrame, MonitorFrame, SysLogHandlerStep DEF IInv
<1>3. CASE (MonitorDispatch \/ MonitorHandler) /\ UNCHANGED <<sysLogVars, clipboardVars>>
  BY <1>0, <1>3, OtherLabels, ClipFrame, MonitorHandlerStep, SysLogFrame DEF IInv
<1>4. CASE (ClipboardDispatch \/ ClipboardHandler \/ OtherPrograms)
           /\ UNCHANGED <<sysLogVars, monitorVars>>
  BY <1>0, <1>4, ClipStep, MonitorFrame, SysLogFrame DEF IInv
<1>5. ASSUME NEW r \in Readers, Reader(r) PROVE IInv'
  BY <1>0, <1>5, ClipFrame, MonitorFrame, SysLogReaderStep DEF Reader, IInv
<1>6. ASSUME NEW t \in Monitors, Monitor(t) PROVE IInv'
  BY <1>0, <1>6, ClipFrame, MonitorThreadStep, SysLogFrame DEF Monitor, IInv
<1>7. CASE (FileScanDispatch \/ EnableScanFileFunction)
           /\ UNCHANGED <<sysLogVars, monitorVars, clipboardVars>>
  BY <1>0, <1>7, OtherLabels, ClipFrame, MonitorFrame, SysLogFrame DEF IInv
<1>8. CASE HandlerThrows
  BY <1>0, <1>8, ThrowIInv
<1> QED BY <1>1, <1>2, <1>3, <1>4, <1>5, <1>6, <1>7, <1>8
        DEF Next, DispatchMessageFun, Handle, Desktop

(* It holds in every reachable state.                                         *)
LEMMA ComponentsInductive == Spec => []IInv
  BY InitIInv, NextIInv, PTL DEF Spec

(* No module is freed twice, used after it was freed or forgotten while       *)
(* FormatEventDescription is not run by two readers at once, for any number   *)
(* of readers, sources and modules (SysLogFun.cpp 602-735).                   *)
THEOREM ModulesStayAccounted == Spec => []ModulesAccounted
<1>1. IInv => ModulesAccounted
  BY ModuleInvGivesAccounted DEF IInv
<1> QED BY <1>1, ComponentsInductive, PTL

(* However often device control is enabled and disabled, one monitor thread   *)
(* at a time has a window and the globals name it (WLUDisk.cpp 1082-1157).    *)
THEOREM MonitorWindowIsUnique == Spec => []OneMonitorWindow
<1>1. IInv => OneMonitorWindow
  BY MonitorInvGivesOne DEF IInv
<1> QED BY <1>1, ComponentsInductive, PTL

(* write_to_bufio never copies outside its buffer and loses no byte, for any  *)
(* word size, first size, sequence of chunks and image (ClipboardManage.cpp   *)
(* 177-192).                                                                  *)
THEOREM BufferAlwaysHoldsImage == Spec => []BufferHoldsImage
<1>1. IInv => BufferHoldsImage
  BY DEF IInv, ClipInv
<1> QED BY <1>1, ComponentsInductive, PTL

(* The clipboard is closed whenever Init has returned, on every path, and     *)
(* when it is left by an exception (ClipboardManage.cpp 18-104, 147, 247).    *)
THEOREM ClipboardAlwaysGivenBack == Spec => []ClipboardGivenBack
<1>1. IInv => ClipboardGivenBack
  BY DEF IInv, ClipInv
<1> QED BY <1>1, ComponentsInductive, PTL
=============================================================================
