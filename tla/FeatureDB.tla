------------------------------ MODULE FeatureDB ------------------------------
(***************************************************************************)
(* The virus feature library, CFeatureDB (FileScanControl/FeatureDB.cpp),    *)
(* on top of LMDB.  CFileScanFun's constructor calls Init and Load;          *)
(* GetFileListByFolder calls CheckRansomware for each PE file.  Several      *)
(* threads may do so: the object is one per process, and only the lookup     *)
(* takes m_Mutex.                                                            *)
(*                                                                         *)
(* LMDB is modelled from its use: one write transaction at a time, which     *)
(* sees its own writes and publishes them when it commits; readers see the   *)
(* last commit; the commits outlive the process.  The write transaction is   *)
(* one object that belongs to the environment: ending it twice frees it.     *)
(***************************************************************************)
EXTENDS Naturals, Sequences, FiniteSets

CONSTANTS Threads,   \* the callers
          Files,     \* .dat files
          Keys,      \* hashes
          BadKey,    \* a record whose HashType has no length
          Content,   \* Content[f]: the keys of f's records, in order
          Intact,    \* files whose SM3 sum is the one in their header
          MaxCalls,  \* bound: calls by all threads together, over all processes
          MaxCrash,  \* bound: processes that die
          None

ASSUME LibraryAssumption ==
  /\ None \notin Files \cup Threads /\ BadKey \notin Keys /\ Intact \subseteq Files
  /\ Content \in [Files -> Seq(Keys \cup {BadKey})]
  /\ MaxCalls \in Nat /\ MaxCrash \in Nat

VARIABLES
  m_bInit,
  m_pEnv,     \* "none" (NULL), "created" or "open"
  m_Mutex,    \* its owner
  \* LMDB
  db,         \* the last commit: for each key the file its record came from
  writer,     \* the thread with the write transaction
  dirty,      \* what the write transaction sees
  \* the threads
  pc,
  ret,        \* where to go on when Init has succeeded
  val,        \* what InitEnv returns
  todo,       \* lstFiles: the files Load has still to read
  dat,        \* LoadDat: the file
  idx,        \* LoadDat: records done
  failed,     \* LoadDat: a put has failed and the transaction with it
  key,        \* CheckRansomware: the hash computed
  answer,     \* IsHashExist's last result; CheckRansomware returns TRUE for "virus" only
  \* history
  committed,  \* files in the order they were first committed
  known,      \* keys committed when a thread's last lookup began
  raced,      \* two threads were inside Init at the same time
  openFailed, \* mdb_env_open has failed
  broken,     \* undefined behaviour has happened: only the end of the process follows
  calls, crashes

object  == <<m_bInit, m_pEnv, m_Mutex>>
lmdb    == <<db, writer, dirty>>
loading == <<todo, dat, idx, failed>>
lookup  == <<key, answer, known>>
events  == <<committed, raced, openFailed, broken, calls, crashes>>
vars    == <<object, lmdb, pc, ret, val, loading, lookup, events>>

EmptyDb == [k \in Keys |-> None]

NewProcess ==
  /\ m_bInit = FALSE /\ m_pEnv = "none" /\ m_Mutex = None
  /\ writer = None /\ dirty = EmptyDb
  /\ pc = [t \in Threads |-> "idle"] /\ ret = [t \in Threads |-> "idle"]
  /\ val = [t \in Threads |-> FALSE]
  /\ todo = [t \in Threads |-> {}] /\ dat = [t \in Threads |-> None]
  /\ idx = [t \in Threads |-> 0] /\ failed = [t \in Threads |-> FALSE]
  /\ key = [t \in Threads |-> None]
  /\ answer = [t \in Threads |-> "none"] /\ known = [t \in Threads |-> {}]
  /\ raced = FALSE /\ openFailed = FALSE /\ broken = FALSE

Init == NewProcess /\ db = EmptyDb /\ committed = <<>> /\ calls = 0 /\ crashes = 0

Goto(t, l) == pc' = [pc EXCEPT ![t] = l]

-----------------------------------------------------------------------------
(* CFeatureDB::Init and InitEnv, without a lock of their own.                *)

InInit(t) == pc[t] \in {"reset", "test", "create", "open", "return", "assign"}

\* Seeded fault: m_Mutex is not released on this path.
GiveUpLocked(t) ==
  /\ Goto(t, "idle")
  /\ answer' = IF m_Mutex = t THEN [answer EXCEPT ![t] = "error"] ELSE answer
  /\ todo' = [todo EXCEPT ![t] = {}]
  /\ UNCHANGED m_Mutex

\* Init has failed: the caller gives up (IsHashExist leaves m_Mutex's scope).
\* The constructor, Load and CheckRansomware return.
GiveUp(t) ==
  /\ Goto(t, "idle")
  /\ m_Mutex' = IF m_Mutex = t THEN None ELSE m_Mutex
  /\ answer' = IF m_Mutex = t THEN [answer EXCEPT ![t] = "error"] ELSE answer
  /\ todo' = [todo EXCEPT ![t] = {}]

\* Seeded fault: Init does not test m_bInit.
InitUntested(t) ==
  /\ pc[t] = "init"
  /\ Goto(t, "reset")
  /\ raced' = (raced \/ \E u \in Threads \ {t} : InInit(u))
  /\ UNCHANGED <<object, lmdb, ret, val, loading, lookup, committed, openFailed, broken,
                 calls, crashes>>

InitTest(t) ==
  /\ pc[t] = "init"
  /\ Goto(t, IF m_bInit THEN ret[t] ELSE "reset")
  /\ raced' = (raced \/ (~m_bInit /\ \E u \in Threads \ {t} : InInit(u)))
  /\ UNCHANGED <<object, lmdb, ret, val, loading, lookup, committed, openFailed, broken,
                 calls, crashes>>

\* m_bInit = FALSE at the start of InitEnv
InitEnvReset(t) ==
  /\ pc[t] = "reset"
  /\ m_bInit' = FALSE
  /\ Goto(t, "test")
  /\ UNCHANGED <<m_pEnv, m_Mutex, lmdb, ret, val, loading, lookup, events>>

\* An environment that exists is left as it is, opened or not.
InitEnvTest(t) ==
  /\ pc[t] = "test"
  /\ Goto(t, IF m_pEnv = "none" THEN "create" ELSE "return")
  /\ UNCHANGED <<object, lmdb, ret, val, loading, lookup, events>>

\* mdb_env_create overwrites m_pEnv, or fails.
InitEnvCreate(t) ==
  /\ pc[t] = "create"
  /\ \/ Goto(t, "open") /\ m_pEnv' = "created"
     \/ Goto(t, "return") /\ UNCHANGED m_pEnv
  /\ UNCHANGED <<m_bInit, m_Mutex, lmdb, ret, val, loading, lookup, events>>

\* Seeded fault: the `break' after a failed mdb_env_open is missing.
InitEnvOpenUnchecked(t) ==
  /\ pc[t] = "open"
  /\ Goto(t, "return")
  /\ m_bInit' = TRUE
  /\ \/ m_pEnv = "created" /\ m_pEnv' = "open" /\ UNCHANGED openFailed
     \/ openFailed' = TRUE /\ UNCHANGED m_pEnv
  /\ UNCHANGED <<m_Mutex, lmdb, ret, val, loading, lookup, committed, raced, broken, calls,
                 crashes>>

\* mdb_env_open refuses an environment that is open, and may fail otherwise.
InitEnvOpen(t) ==
  /\ pc[t] = "open"
  /\ Goto(t, "return")
  /\ \/ m_pEnv = "created" /\ m_pEnv' = "open" /\ m_bInit' = TRUE /\ UNCHANGED openFailed
     \/ openFailed' = TRUE /\ UNCHANGED <<m_pEnv, m_bInit>>
  /\ UNCHANGED <<m_Mutex, lmdb, ret, val, loading, lookup, committed, raced, broken, calls,
                 crashes>>

\* return m_bInit, and then m_bInit = InitEnv()
InitEnvReturn(t) ==
  /\ pc[t] = "return"
  /\ val' = [val EXCEPT ![t] = m_bInit]
  /\ Goto(t, "assign")
  /\ UNCHANGED <<object, lmdb, ret, loading, lookup, events>>

InitAssign(t) ==
  /\ pc[t] = "assign"
  /\ m_bInit' = val[t]
  /\ IF val[t] THEN Goto(t, ret[t]) /\ UNCHANGED <<m_Mutex, answer, todo>> ELSE GiveUp(t)
  /\ UNCHANGED <<m_pEnv, lmdb, ret, val, dat, idx, failed, key, known, events>>

InitStep(t) ==
  InitTest(t) \/ InitEnvReset(t) \/ InitEnvTest(t) \/ InitEnvCreate(t) \/ InitEnvOpen(t)
  \/ InitEnvReturn(t) \/ InitAssign(t)

-----------------------------------------------------------------------------
(* Load: the constructor of CFileScanFun calls Init, then Load().            *)

Construct(t) ==
  /\ pc[t] = "idle" /\ calls < MaxCalls
  /\ calls' = calls + 1
  /\ Goto(t, "init") /\ ret' = [ret EXCEPT ![t] = "fetch"]
  /\ UNCHANGED <<object, lmdb, val, loading, lookup, committed, raced, openFailed, broken, crashes>>

\* FetchXFromDir lists the .dat files, or fails.
LoadFetch(t) ==
  /\ pc[t] = "fetch"
  /\ \/ /\ todo' = [todo EXCEPT ![t] = Files]
        /\ ret' = [ret EXCEPT ![t] = "clear"]
        /\ Goto(t, IF m_bInit THEN "clear" ELSE "init")
     \/ Goto(t, "idle") /\ UNCHANGED <<todo, ret>>
  /\ UNCHANGED <<object, lmdb, val, dat, idx, failed, lookup, events>>

\* mdb_drop in a read-only transaction returns EACCES; ClearLMDB aborts it and
\* returns true all the same.  It returns false when m_bInit has been reset or the
\* transaction does not begin; on an environment that is not open LMDB's behaviour is
\* undefined.
ClearLMDB(t) ==
  /\ pc[t] = "clear"
  /\ \/ m_bInit /\ m_pEnv = "open" /\ Goto(t, "next") /\ UNCHANGED <<todo, broken>>
     \/ (m_bInit => m_pEnv = "open") /\ Goto(t, "idle") /\ todo' = [todo EXCEPT ![t] = {}]
        /\ UNCHANGED broken
     \/ m_bInit /\ m_pEnv # "open" /\ broken' = TRUE /\ UNCHANGED <<pc, todo>>
  /\ UNCHANGED <<object, lmdb, ret, val, dat, idx, failed, lookup, committed, raced, openFailed,
                 calls, crashes>>

\* LoadDat for the next file; one that cannot be opened or whose header is not a
\* library's is passed over.
LoadNext(t) ==
  /\ pc[t] = "next"
  /\ \/ \E f \in todo[t] :
          /\ todo' = [todo EXCEPT ![t] = @ \ {f}]
          /\ \/ Goto(t, "begin") /\ dat' = [dat EXCEPT ![t] = f]
             \/ UNCHANGED <<pc, dat>>
     \/ todo[t] = {} /\ Goto(t, "idle") /\ UNCHANGED <<dat, todo>>
  /\ UNCHANGED <<object, lmdb, ret, val, idx, failed, lookup, events>>

\* LoadDat is over; Load ignores what it returned.
LoadDatReturn(t) ==
  /\ Goto(t, "next")
  /\ dat' = [dat EXCEPT ![t] = None] /\ idx' = [idx EXCEPT ![t] = 0]
  /\ failed' = [failed EXCEPT ![t] = FALSE]

\* mdb_txn_abort
Abort ==
  /\ writer' = None /\ dirty' = EmptyDb
  /\ UNCHANGED db

\* mdb_txn_begin waits for the writer before it, and may fail.
LoadDatBegin(t) ==
  /\ pc[t] = "begin" /\ writer = None
  /\ \/ /\ m_pEnv = "open"
        /\ writer' = t /\ dirty' = db
        /\ Goto(t, "put") /\ UNCHANGED <<dat, idx, failed, broken>>
     \/ m_pEnv = "open" /\ LoadDatReturn(t) /\ UNCHANGED <<writer, dirty, broken>>
     \/ m_pEnv # "open" /\ broken' = TRUE /\ UNCHANGED <<writer, dirty, pc, dat, idx, failed>>
  /\ UNCHANGED <<object, db, ret, val, todo, lookup, committed, raced, openFailed, calls, crashes>>

\* Seeded fault: mdb_cursor_put without MDB_NOOVERWRITE.
PutOver(d, k, f) == [d EXCEPT ![k] = f]

\* mdb_cursor_put(MDB_NOOVERWRITE) leaves out a record whose key exists.
Put(d, k, f) == IF d[k] = None THEN [d EXCEPT ![k] = f] ELSE d

\* One record.  A full map fails the transaction and the loop goes on; a record of an
\* unknown hash type has length -1, and HexToWStr reads 2^32 - 1 bytes from it.
LoadDatPut(t) ==
  /\ pc[t] = "put" /\ idx[t] < Len(Content[dat[t]])
  /\ LET k == Content[dat[t]][idx[t] + 1]
     IN  \/ k # BadKey /\ ~failed[t] /\ dirty' = Put(dirty, k, dat[t]) /\ UNCHANGED <<failed, broken>>
         \/ k # BadKey /\ failed' = [failed EXCEPT ![t] = TRUE] /\ UNCHANGED <<dirty, broken>>
         \/ k = BadKey /\ broken' = TRUE /\ UNCHANGED <<dirty, failed>>
  /\ idx' = [idx EXCEPT ![t] = @ + 1]
  /\ UNCHANGED <<object, db, writer, pc, ret, val, todo, dat, lookup, committed, raced, openFailed,
                 calls, crashes>>

\* Seeded fault: a wrong sum is not followed by mdb_txn_abort.
LoadDatNoAbort(t) ==
  /\ pc[t] = "put"
  /\ \/ idx[t] = 0
     \/ idx[t] < Len(Content[dat[t]])
     \/ dat[t] \notin Intact
  /\ LoadDatReturn(t)
  /\ UNCHANGED <<object, lmdb, ret, val, todo, lookup, events>>

\* The database or the cursor does not open; or ReadFile ends early or the sum is
\* wrong: the transaction is aborted, once.
LoadDatAbort(t) ==
  /\ pc[t] = "put"
  /\ \/ idx[t] = 0
     \/ idx[t] < Len(Content[dat[t]])
     \/ dat[t] \notin Intact
  /\ Abort
  /\ LoadDatReturn(t)
  /\ UNCHANGED <<object, ret, val, todo, lookup, events>>

\* Seeded fault: the sum is not compared.
NotCompared(t) == pc[t] = "put"

AllRead(t) == pc[t] = "put" /\ idx[t] = Len(Content[dat[t]]) /\ dat[t] \in Intact

LoadDatCommit(t) ==
  /\ AllRead(t) /\ ~failed[t]
  /\ db' = dirty /\ writer' = None /\ dirty' = EmptyDb
  /\ committed' = IF \E i \in 1..Len(committed) : committed[i] = dat[t]
                  THEN committed ELSE Append(committed, dat[t])
  /\ LoadDatReturn(t)
  /\ UNCHANGED <<object, ret, val, todo, lookup, raced, openFailed, broken, calls, crashes>>

\* A commit that fails has aborted the transaction itself ...
LoadDatCommitFails(t) ==
  /\ AllRead(t)
  /\ Abort
  /\ Goto(t, "abort")
  /\ UNCHANGED <<object, ret, val, loading, lookup, events>>

\* ... and LoadDat, which sees iRet # MDB_SUCCESS, aborts it again: the environment's
\* write transaction is freed, or another thread's is ended under it.
LoadDatAbortAgain(t) ==
  /\ pc[t] = "abort"
  /\ broken' = TRUE
  /\ LoadDatReturn(t)
  /\ UNCHANGED <<object, lmdb, ret, val, todo, lookup, committed, raced, openFailed, calls, crashes>>

LoadStep(t) ==
  LoadFetch(t) \/ ClearLMDB(t) \/ LoadNext(t) \/ LoadDatBegin(t) \/ LoadDatPut(t)
  \/ LoadDatAbort(t) \/ LoadDatCommit(t) \/ LoadDatCommitFails(t)
  \/ LoadDatAbortAgain(t)

-----------------------------------------------------------------------------
(* CheckRansomware.                                                          *)

\* What FetchFileHash may hand out, None for FALSE.  On EXCEPTION_IN_PAGE_ERROR (the medium
\* was removed) it returns TRUE with whatever the buffer holds, so any hash is possible.
FetchFileHash == Keys \cup {None}

\* Seeded fault: an unknown hash type is not replaced by MD5.
CheckAnyType(t) ==
  /\ pc[t] = "idle" /\ calls < MaxCalls
  /\ calls' = calls + 1
  /\ Goto(t, "lock") /\ answer' = [answer EXCEPT ![t] = "none"]
  /\ \E h \in Keys \cup {BadKey} : key' = [key EXCEPT ![t] = h]
  /\ UNCHANGED <<object, lmdb, ret, val, loading, known, committed, raced, openFailed, broken,
                 crashes>>

CheckRansomware(t) ==
  /\ pc[t] = "idle" /\ calls < MaxCalls
  /\ calls' = calls + 1
  /\ \E h \in FetchFileHash :
       /\ key' = [key EXCEPT ![t] = h]
       /\ \/ h # None /\ Goto(t, "lock") /\ answer' = [answer EXCEPT ![t] = "none"]
          \/ h = None /\ answer' = [answer EXCEPT ![t] = "error"] /\ UNCHANGED pc
  /\ UNCHANGED <<object, lmdb, ret, val, loading, known, committed, raced, openFailed, broken,
                 crashes>>

\* m_Mutex; IsHashExist tests m_bInit.
CheckLock(t) ==
  /\ pc[t] = "lock" /\ m_Mutex = None
  /\ m_Mutex' = t
  /\ ret' = [ret EXCEPT ![t] = "get"]
  /\ Goto(t, IF m_bInit THEN "get" ELSE "init")
  /\ known' = [known EXCEPT ![t] = {k \in Keys : db[k] # None}]
  /\ UNCHANGED <<m_bInit, m_pEnv, lmdb, val, loading, key, answer, events>>

\* Seeded fault: every error of mdb_get counts as MDB_NOTFOUND.
IsHashExistAnyError(t) ==
  /\ pc[t] = "get"
  /\ \E a \in {IF db[key[t]] # None THEN "virus" ELSE "clean", "clean"} :
       answer' = [answer EXCEPT ![t] = a]
  /\ m_Mutex' = None
  /\ Goto(t, "idle")
  /\ UNCHANGED <<m_bInit, m_pEnv, lmdb, ret, val, loading, key, known, events>>

\* mdb_get in a read-only transaction of its own, or an error; then the unlock.
IsHashExist(t) ==
  /\ pc[t] = "get"
  /\ \/ /\ m_pEnv = "open"
        /\ \E a \in {IF db[key[t]] # None THEN "virus" ELSE "clean", "error"} :
             answer' = [answer EXCEPT ![t] = a]
        /\ m_Mutex' = None
        /\ Goto(t, "idle") /\ UNCHANGED broken
     \/ m_pEnv # "open" /\ broken' = TRUE /\ UNCHANGED <<answer, m_Mutex, pc>>
  /\ UNCHANGED <<m_bInit, m_pEnv, lmdb, ret, val, loading, key, known, committed, raced, openFailed,
                 calls, crashes>>

-----------------------------------------------------------------------------

\* Service.exe dies at any moment and is started again: only commits remain.
Crash ==
  /\ crashes < MaxCrash
  /\ crashes' = crashes + 1
  /\ m_bInit' = FALSE /\ m_pEnv' = "none" /\ m_Mutex' = None
  /\ writer' = None /\ dirty' = EmptyDb
  /\ pc' = [t \in Threads |-> "idle"] /\ ret' = [t \in Threads |-> "idle"]
  /\ val' = [t \in Threads |-> FALSE]
  /\ todo' = [t \in Threads |-> {}] /\ dat' = [t \in Threads |-> None]
  /\ idx' = [t \in Threads |-> 0] /\ failed' = [t \in Threads |-> FALSE]
  /\ key' = [t \in Threads |-> None]
  /\ answer' = [t \in Threads |-> "none"] /\ known' = [t \in Threads |-> {}]
  /\ raced' = FALSE /\ openFailed' = FALSE /\ broken' = FALSE
  /\ UNCHANGED <<db, committed, calls>>

ThreadStep(t) == InitStep(t) \/ LoadStep(t) \/ CheckLock(t) \/ IsHashExist(t)

Next ==
  \/ ~broken /\ \E t \in Threads : ThreadStep(t) \/ Construct(t) \/ CheckRansomware(t)
  \/ Crash

Spec == Init /\ [][Next]_vars

\* Threads run.  The calls are bounded, so both mutexes are free in the end and stay so.
Fairness == \A t \in Threads : WF_vars(~broken /\ ThreadStep(t))

FairSpec == Spec /\ Fairness

-----------------------------------------------------------------------------
(* Properties.                                                               *)

\* Every variable has its type.
TypeOK ==
  /\ m_bInit \in BOOLEAN /\ m_pEnv \in {"none", "created", "open"}
  /\ m_Mutex \in Threads \cup {None} /\ writer \in Threads \cup {None}
  /\ db \in [Keys -> Files \cup {None}] /\ dirty \in [Keys -> Files \cup {None}]
  /\ pc \in [Threads -> {"idle", "init", "reset", "test", "create", "open", "return", "assign", "fetch",
                         "clear", "next", "begin", "put", "abort", "lock", "get"}]
  /\ ret \in [Threads -> {"idle", "fetch", "clear", "get"}] /\ val \in [Threads -> BOOLEAN]
  /\ todo \in [Threads -> SUBSET Files] /\ dat \in [Threads -> Files \cup {None}]
  /\ idx \in [Threads -> Nat] /\ failed \in [Threads -> BOOLEAN]
  /\ key \in [Threads -> Keys \cup {None}]
  /\ answer \in [Threads -> {"none", "virus", "clean", "error"}]
  /\ known \in [Threads -> SUBSET Keys]
  /\ committed \in Seq(Files) /\ raced \in BOOLEAN /\ openFailed \in BOOLEAN /\ broken \in BOOLEAN
  /\ calls \in 0..MaxCalls /\ crashes \in 0..MaxCrash

Has(f, k) == \E i \in 1..Len(Content[f]) : Content[f][i] = k

\* A .dat file is in the database with all its valid records or not at all, whoever
\* loads, whatever fails and whenever the process dies; of two files with the same
\* hash the one committed first provides the record (LoadDat 387-528).
WholeFilesFirstWins ==
  \A k \in Keys :
    \/ db[k] = None /\ \A i \in 1..Len(committed) : ~Has(committed[i], k)
    \/ \E i \in 1..Len(committed) :
         /\ db[k] = committed[i] /\ Has(committed[i], k)
         /\ \A j \in 1..(i - 1) : ~Has(committed[j], k)

\* Only files that passed the SM3 check are in the database (line 476).
OnlyIntact == \A k \in Keys : db[k] # None => db[k] \in Intact

\* No thread begins a transaction on an environment that is not open, unless two threads
\* were in Init together: both create an environment, and m_bInit stays TRUE over the
\* second one while it is still closed (lines 132-160).
EnvOpenWhenUsed ==
  \A t \in Threads : pc[t] \in {"clear", "next", "begin", "put", "abort", "get"}
                       => m_pEnv = "open" \/ raced

\* No error path of LoadDat or IsHashExist keeps LMDB's write transaction or m_Mutex.
NothingLeaked ==
  /\ writer # None => pc[writer] = "put"
  /\ m_Mutex # None => pc[m_Mutex] = "get" \/ (ret[m_Mutex] = "get" /\ (pc[m_Mutex] = "init" \/ InInit(m_Mutex)))

\* The library stays unusable in two ways only: mdb_env_open has failed once (m_pEnv is
\* not NULL any more and InitEnv never tries again), or two threads were in Init together
\* (the second one resets m_bInit and finds m_pEnv set).
UsableUnlessRaced ==
  m_pEnv # "none" /\ ~m_bInit /\ (\A t \in Threads : ~InInit(t)) => openFailed \/ raced

\* A lookup says `virus' only for a hash in a committed file, and `clean' only for one
\* that no file committed before the lookup contains, while other threads load.
VerdictMatchesLibrary ==
  \A t \in Threads :
    /\ answer[t] = "virus" => \E i \in 1..Len(committed) : Has(committed[i], key[t])
    /\ answer[t] = "clean" => key[t] \notin known[t]

\* Every call comes back, unless the process dies or LMDB is destroyed under it.
CallsReturn == \A t \in Threads : pc[t] # "idle" ~> (pc[t] = "idle" \/ broken)

\* `Failed to ClearMdb' (FeatureDB.cpp:657) is what Load says when ClearLMDB returns
\* false: when it returns true the database is empty.
ClearEmpties ==
  [][\A t \in Threads : pc[t] = "clear" /\ pc'[t] = "next" => db' = EmptyDb]_vars
=============================================================================
