------------------------------- MODULE SysLog -------------------------------
(***************************************************************************)
(* System log control: CSystemLogControl and CSysLogFun.  Enabling it runs   *)
(* psloglist.exe to its end and then starts two threads with the same        *)
(* routine, DoSystemEventThread, on one object.  Both turn the records of    *)
(* the event log into text with message DLLs they keep in one map,           *)
(* g_MapDllHModule, without a lock.  Disabling it sets a flag.               *)
(*                                                                         *)
(* A record is its source; the text is left out.  A member of Modules is one *)
(* reference that LoadLibraryEx has given out (a DLL loaded for two sources  *)
(* has two); it may be given out again after FreeLibrary.                    *)
(***************************************************************************)
EXTENDS Dispatcher, Naturals, FiniteSets

CONSTANTS Readers,    \* bound: reader threads that exist at one time
          Sources,    \* event sources
          Modules,    \* bound: message DLLs loaded at one time
          MaxPaths,   \* bound: paths in one EventMessageFile entry
          Absent,     \* the source is not in the map
          Null        \* the map holds NULL for the source; no module

ASSUME SysLogAssumption ==
  /\ Absent \notin Modules /\ Null \notin Modules /\ Absent # Null
  /\ MaxPaths \in Nat \ {0}

VARIABLES
  threadExit,   \* m_ReadSystemEventThreadExit
  modMap,       \* g_MapDllHModule
  loaded,       \* module handles that are loaded
  rpc,          \* where each reader is; "none" when it does not exist
  logOpen,      \* readers whose hSysEvent is not NULL
  rsrc,         \* source of the record a reader is formatting
  rmod,         \* hModule of a reader
  paths,        \* paths a reader has still to try
  overlap       \* history: two readers have been in FormatEventDescription

readerVars == <<rpc, logOpen, rsrc, rmod, paths>>
sysLogVars == <<threadExit, modMap, loaded, readerVars, overlap>>

\* The constructor of the singleton, InitSysLogFun, is the only place that
\* clears the flag.
SysLogInit ==
  /\ threadExit = FALSE
  /\ modMap = [s \in Sources |-> Absent] /\ loaded = {}
  /\ rpc = [r \in Readers |-> "none"] /\ logOpen = {}
  /\ rsrc = [r \in Readers |-> Null] /\ rmod = [r \in Readers |-> Null]
  /\ paths = [r \in Readers |-> 0]
  /\ overlap = FALSE

-----------------------------------------------------------------------------
(* The dispatch thread: EnableFunction and DisableFunction.                   *)

\* GetSysLogByPsloglist waits for psloglist.exe without a limit; it fails at
\* once when the file or the process cannot be created.
Psloglist ==
  /\ \/ Goto("psloglist", "pswait")
     \/ Goto("psloglist", "subscribe")
     \/ Goto("pswait", "subscribe")
  /\ UNCHANGED sysLogVars

\* _beginthreadex(DoSystemEventThread): fails, and must when no thread is left.
StartReader ==
  \/ \E r \in Readers :
       /\ rpc[r] = "none"
       /\ rpc' = [rpc EXCEPT ![r] = "open"]
  \/ UNCHANGED rpc

GetSysLogByEvtSubscribe ==
  /\ Goto("subscribe", "readlog")
  /\ StartReader
  /\ UNCHANGED <<threadExit, modMap, loaded, logOpen, rsrc, rmod, paths, overlap>>

GetSysLogByReadEventLog ==
  /\ Goto("readlog", "idle")
  /\ StartReader
  /\ UNCHANGED <<threadExit, modMap, loaded, logOpen, rsrc, rmod, paths, overlap>>

RecycleSysLogResource ==
  /\ Goto("recycle", "idle")
  /\ threadExit' = TRUE
  /\ UNCHANGED <<modMap, loaded, readerVars, overlap>>

\* CSystemLogControl::DispatchMessages.
SysLogDispatch ==
  /\ \/ DispatchTo("psloglist")
     \/ DispatchTo("recycle")
  /\ UNCHANGED sysLogVars

-----------------------------------------------------------------------------
(* DoSystemEventThread, reader r.                                             *)

At(r, l, k) == rpc[r] = l /\ rpc' = [rpc EXCEPT ![r] = k]

\* malloc and OpenEventLog; either may fail.
OpenLog(r) ==
  /\ \/ At(r, "open", "loop") /\ logOpen' = logOpen \cup {r}
     \/ At(r, "open", "end") /\ UNCHANGED logOpen
  /\ UNCHANGED <<threadExit, modMap, loaded, rsrc, rmod, paths, overlap>>

\* Seeded fault: the loop does not test the flag.
NeverExits(r) ==
  /\ At(r, "loop", "read")
  /\ UNCHANGED <<threadExit, modMap, loaded, logOpen, rsrc, rmod, paths, overlap>>

TestExit(r) ==
  /\ At(r, "loop", IF threadExit THEN "end" ELSE "read")
  /\ UNCHANGED <<threadExit, modMap, loaded, logOpen, rsrc, rmod, paths, overlap>>

Formatting ==
  {r \in Readers : rpc[r] \in {"find", "cached", "free", "erase", "path",
                               "load", "try", "store"}}

\* ReadEventLog returned records (the second time with a larger buffer, or at
\* once): the first of them is analysed and the rest of the buffer dropped.
\* AnalyEventData formats it unless it has no strings or a string is too long.
ReadRecord(r) ==
  /\ r \in logOpen
  /\ \/ \E s \in Sources :
          /\ At(r, "read", "find")
          /\ rsrc' = [rsrc EXCEPT ![r] = s]
          /\ overlap' = (overlap \/ Formatting # {})
     \/ At(r, "read", "loop") /\ UNCHANGED <<rsrc, overlap>>
  /\ UNCHANGED <<threadExit, modMap, loaded, logOpen, rmod, paths>>

\* ERROR_HANDLE_EOF sleeps and goes on.  ERROR_EVENTLOG_FILE_CHANGED opens the
\* log again: the thread ends when that succeeds and goes on when it fails.
\* Every other error ends it, as reading from a NULL handle does.
ReadFails(r) ==
  /\ \/ r \in logOpen /\ At(r, "read", "loop") /\ UNCHANGED logOpen
     \/ r \in logOpen /\ At(r, "read", "end") /\ UNCHANGED logOpen
     \/ r \in logOpen /\ At(r, "read", "loop") /\ logOpen' = logOpen \ {r}
     \/ r \notin logOpen /\ At(r, "read", "end") /\ UNCHANGED logOpen
  /\ UNCHANGED <<threadExit, modMap, loaded, rsrc, rmod, paths, overlap>>

\* END: the buffer is freed and the log closed.
ReaderEnd(r) ==
  /\ At(r, "end", "none")
  /\ logOpen' = logOpen \ {r}
  /\ UNCHANGED <<threadExit, modMap, loaded, rsrc, rmod, paths, overlap>>

-----------------------------------------------------------------------------
(* FormatEventDescription.  Afterwards the reader is at its loop again,       *)
(* whatever the result: a text that could not be found is replaced.           *)

Return(r, l) ==
  /\ At(r, l, "loop")
  /\ rsrc' = [rsrc EXCEPT ![r] = Null]
  /\ rmod' = [rmod EXCEPT ![r] = Null]

\* g_MapDllHModule.find
FindModule(r) ==
  /\ rpc[r] = "find"
  /\ LET h == modMap[rsrc[r]] IN
       \/ h = Null /\ Return(r, "find")
       \/ h = Absent /\ At(r, "find", "path") /\ UNCHANGED <<rsrc, rmod>>
       \/ /\ h \in Modules /\ At(r, "find", "cached")
          /\ rmod' = [rmod EXCEPT ![r] = h]
          /\ UNCHANGED rsrc
  /\ UNCHANGED <<threadExit, modMap, loaded, logOpen, paths, overlap>>

\* FormatMessage with the module of the map: a text, or none (goto RENEW).
\* With a module that has been freed either may happen as well.
FormatCached(r) ==
  /\ \/ Return(r, "cached")
     \/ At(r, "cached", "free") /\ UNCHANGED <<rsrc, rmod>>
  /\ UNCHANGED <<threadExit, modMap, loaded, logOpen, paths, overlap>>

FreeCached(r) ==
  /\ At(r, "free", "erase")
  /\ loaded' = loaded \ {rmod[r]}
  /\ UNCHANGED <<threadExit, modMap, logOpen, rsrc, rmod, paths, overlap>>

\* Seeded fault: the entry of the freed module stays in the map.
NotErased(r) ==
  /\ At(r, "erase", "path")
  /\ rmod' = [rmod EXCEPT ![r] = Null]
  /\ UNCHANGED <<threadExit, modMap, loaded, logOpen, rsrc, paths, overlap>>

EraseCached(r) ==
  /\ At(r, "erase", "path")
  /\ modMap' = [modMap EXCEPT ![rsrc[r]] = Absent]
  /\ rmod' = [rmod EXCEPT ![r] = Null]
  /\ UNCHANGED <<threadExit, loaded, logOpen, rsrc, paths, overlap>>

\* GetEventDescriptionDllPath: without an entry the source is given up for good.
DllPath(r) ==
  /\ \/ /\ Return(r, "path")
        /\ modMap' = [modMap EXCEPT ![rsrc[r]] = Null]
        /\ UNCHANGED paths
     \/ /\ At(r, "path", "load")
        /\ \E n \in 1..MaxPaths : paths' = [paths EXCEPT ![r] = n]
        /\ UNCHANGED <<modMap, rsrc, rmod>>
  /\ UNCHANGED <<threadExit, loaded, logOpen, overlap>>

\* The next path, or FALSE after the last one.
NextPath(r, l) ==
  /\ paths' = [paths EXCEPT ![r] = @ - 1]
  /\ \/ /\ paths[r] > 1 /\ At(r, l, "load")
        /\ rmod' = [rmod EXCEPT ![r] = Null]
        /\ UNCHANGED rsrc
     \/ paths[r] = 1 /\ Return(r, l)

\* LoadLibraryEx
LoadModule(r) ==
  /\ \/ \E h \in Modules \ loaded :
          /\ At(r, "load", "try")
          /\ loaded' = loaded \cup {h}
          /\ rmod' = [rmod EXCEPT ![r] = h]
          /\ UNCHANGED <<rsrc, paths>>
     \/ NextPath(r, "load") /\ UNCHANGED loaded
  /\ UNCHANGED <<threadExit, modMap, logOpen, overlap>>

\* FormatMessage with the new module: a text, or FreeLibrary and the next path.
FormatLoaded(r) ==
  /\ \/ At(r, "try", "store") /\ UNCHANGED <<loaded, rsrc, rmod, paths>>
     \/ NextPath(r, "try") /\ loaded' = loaded \ {rmod[r]}
  /\ UNCHANGED <<threadExit, modMap, logOpen, overlap>>

\* g_MapDllHModule[strSource] = hModule
StoreModule(r) ==
  /\ Return(r, "store")
  /\ modMap' = [modMap EXCEPT ![rsrc[r]] = rmod[r]]
  /\ paths' = [paths EXCEPT ![r] = 0]
  /\ UNCHANGED <<threadExit, loaded, logOpen, overlap>>

-----------------------------------------------------------------------------

SysLogHandler ==
  \/ Psloglist
  \/ GetSysLogByEvtSubscribe
  \/ GetSysLogByReadEventLog
  \/ RecycleSysLogResource

DoSystemEventThread(r) ==
  \/ OpenLog(r) \/ TestExit(r) \/ ReadRecord(r) \/ ReadFails(r) \/ ReaderEnd(r)
  \/ FindModule(r) \/ FormatCached(r) \/ FreeCached(r) \/ EraseCached(r)
  \/ DllPath(r) \/ LoadModule(r) \/ FormatLoaded(r) \/ StoreModule(r)

ReaderStep == \E r \in Readers : DoSystemEventThread(r) /\ UNCHANGED dpc

SysLogNext == SysLogDispatch \/ SysLogHandler \/ ReaderStep

SysLogSpec == DispatcherInit /\ SysLogInit /\ [][SysLogNext]_<<dpc, sysLogVars>>

-----------------------------------------------------------------------------
(* Properties.                                                                *)

(* "The library is loaded: convert directly" (SysLogFun.cpp 632): a reader    *)
(* that formats with the module it found in the map uses a loaded module.     *)
CachedModuleIsLoaded ==
  \A r \in Readers : rpc[r] = "cached" => rmod[r] \in loaded

(* As long as no two readers have been in FormatEventDescription at one time, *)
(* every module in the map is loaded (but for the moment between FreeLibrary  *)
(* and erase), no two sources share one, and every loaded module is in the    *)
(* map or in the hands of the reader that has just loaded it: nothing is      *)
(* freed twice, used after it was freed, or forgotten.                        *)
ModulesAccounted ==
  ~overlap =>
    /\ \A s \in Sources : modMap[s] \in Modules =>
         \/ modMap[s] \in loaded
         \/ \E r \in Readers : rpc[r] = "erase" /\ rsrc[r] = s
    /\ \A s, u \in Sources :
         modMap[s] \in Modules /\ modMap[s] = modMap[u] => s = u
    /\ \A h \in loaded :
         \/ \E s \in Sources : modMap[s] = h
         \/ \E r \in Readers : rpc[r] \in {"try", "store"} /\ rmod[r] = h
    /\ CachedModuleIsLoaded
=============================================================================
