--------------------------- MODULE FeatureDBProofs ---------------------------
(***************************************************************************)
(* Proofs about the feature library, for every set of threads, files and     *)
(* hashes, every content of the files and every number of calls and crashes. *)
(***************************************************************************)
EXTENDS FeatureDB, TLAPS

(* The inductive invariant, in parts.                                        *)

\* The thread with the write transaction is the one between mdb_txn_begin and the end
\* of LoadDat; its position is within the file, and LoadDat starts at the first record.
Transaction ==
  \A t \in Threads :
    /\ pc[t] = "put" <=> writer = t
    /\ pc[t] \in {"begin", "put", "abort"} => dat[t] \in Files
    /\ pc[t] = "put" => idx[t] <= Len(Content[dat[t]])
    /\ pc[t] \notin {"put", "abort"} => idx[t] = 0 /\ ~failed[t]

\* A thread between the lock of CheckRansomware and its unlock.
Looking(t) == pc[t] = "get" \/ (ret[t] = "get" /\ (pc[t] = "init" \/ InInit(t)))

\* m_Mutex is held by the thread that is looking up its hash, which has no answer yet.
Lookups ==
  \A t \in Threads :
    /\ m_Mutex = t <=> Looking(t)
    /\ pc[t] = "lock" \/ Looking(t) => key[t] \in Keys /\ answer[t] = "none"

\* Threads that use the environment.
Using(t) == pc[t] \in {"clear", "next", "begin", "put", "abort", "get"}

\* As long as no two threads were in Init together, m_bInit says whether the
\* environment is open, and it stays open while it is used.
InitAlone ==
  ~raced =>
    /\ \A t, u \in Threads : InInit(t) /\ InInit(u) => t = u
    /\ m_bInit <=> m_pEnv = "open"
    /\ \A t \in Threads :
         /\ pc[t] \in {"reset", "test", "create", "open"} => ~m_bInit
         /\ pc[t] = "create" => m_pEnv = "none"
         /\ pc[t] = "open" => m_pEnv = "created"
         /\ pc[t] = "assign" => val[t] = m_bInit
         /\ Using(t) => m_pEnv = "open"
    /\ m_pEnv = "created" => openFailed \/ \E t \in Threads : pc[t] = "open"

\* What the write transaction of t adds to the last commit: the records put so far whose
\* keys were not there.
Additions(t, k) ==
  IF db[k] # None THEN db[k]
  ELSE IF \E i \in 1..idx[t] : Content[dat[t]][i] = k THEN dat[t] ELSE None

Pending ==
  \A t \in Threads : pc[t] = "put" /\ ~failed[t] => \A k \in Keys : dirty[k] = Additions(t, k)

\* A lookup began with keys that are still in the library: nothing is ever taken out.
KnownStays == \A t \in Threads : \A k \in known[t] : k \in Keys /\ db[k] # None

IInv == /\ TypeOK /\ Transaction /\ Lookups /\ InitAlone /\ Pending
        /\ WholeFilesFirstWins /\ OnlyIntact /\ KnownStays /\ VerdictMatchesLibrary

-----------------------------------------------------------------------------
(* The parts are preserved by every step.                                    *)

\* Where a thread may be.
Places == {"idle", "init", "reset", "test", "create", "open", "return", "assign", "fetch", "clear",
           "next", "begin", "put", "abort", "lock", "get"}

\* A thread that goes somewhere is at such a place.
LEMMA PlacesKept ==
  ASSUME TypeOK, NEW t \in Threads, UNCHANGED pc \/ \E l \in Places : Goto(t, l)
  PROVE  pc' \in [Threads -> Places]
<1>1. pc \in [Threads -> Places]
  BY DEF TypeOK, Places
<1>2. CASE UNCHANGED pc
  BY <1>1, <1>2
<1>3. ASSUME NEW l \in Places, Goto(t, l)
      PROVE  pc' \in [Threads -> Places]
  BY <1>1, <1>3 DEF Goto
<1> QED
  BY <1>2, <1>3

\* Types.
LEMMA TypePreserved ==
  ASSUME TypeOK, Transaction, [Next]_vars
  PROVE  TypeOK'
<1>1. ASSUME NEW t \in Threads, InitTest(t)
      PROVE  TypeOK'
  BY <1>1, LibraryAssumption
  DEF InitTest, Goto, TypeOK, object, lmdb, loading, lookup, events
<1>2. ASSUME NEW t \in Threads, InitEnvReset(t)
      PROVE  TypeOK'
  BY <1>2, LibraryAssumption
  DEF InitEnvReset, Goto, TypeOK, object, lmdb, loading, lookup, events
<1>3. ASSUME NEW t \in Threads, InitEnvTest(t)
      PROVE  TypeOK'
  BY <1>3, LibraryAssumption
  DEF InitEnvTest, Goto, TypeOK, object, lmdb, loading, lookup, events
<1>4. ASSUME NEW t \in Threads, InitEnvCreate(t)
      PROVE  TypeOK'
  BY <1>4, LibraryAssumption
  DEF InitEnvCreate, Goto, TypeOK, object, lmdb, loading, lookup, events
<1>5. ASSUME NEW t \in Threads, InitEnvOpen(t)
      PROVE  TypeOK'
  BY <1>5, LibraryAssumption
  DEF InitEnvOpen, Goto, TypeOK, object, lmdb, loading, lookup, events
<1>6. ASSUME NEW t \in Threads, InitEnvReturn(t)
      PROVE  TypeOK'
  BY <1>6, LibraryAssumption
  DEF InitEnvReturn, Goto, TypeOK, object, lmdb, loading, lookup, events
<1>7. ASSUME NEW t \in Threads, InitAssign(t)
      PROVE  TypeOK'
  <2>1. m_bInit' \in BOOLEAN /\ m_Mutex' \in Threads \cup {None}
    BY <1>7 DEF InitAssign, GiveUp, TypeOK
  <2>2. pc' \in [Threads -> Places]
    <3>1. UNCHANGED pc \/ \E l \in Places : Goto(t, l)
      <4>1. ret[t] \in Places /\ "idle" \in Places
        BY DEF TypeOK, Places
      <4> QED
        BY <1>7, <4>1 DEF InitAssign, GiveUp
    <3> QED
      BY <3>1, PlacesKept
  <2>3. answer' \in [Threads -> {"none", "virus", "clean", "error"}] /\ todo' \in [Threads -> SUBSET Files]
    BY <1>7 DEF InitAssign, GiveUp, TypeOK
  <2> QED
    BY <1>7, <2>1, <2>2, <2>3 DEF InitAssign, TypeOK, Places, object, lmdb, loading, lookup, events
<1>8. ASSUME NEW t \in Threads, LoadFetch(t)
      PROVE  TypeOK'
  <2>1. pc' \in [Threads -> Places]
    <3>1. UNCHANGED pc \/ \E l \in Places : Goto(t, l)
      BY <1>8 DEF LoadFetch, Places
    <3> QED
      BY <3>1, PlacesKept
  <2>2. todo' \in [Threads -> SUBSET Files]
    BY <1>8 DEF LoadFetch, TypeOK
  <2>3. ret' \in [Threads -> {"idle", "fetch", "clear", "get"}]
    BY <1>8 DEF LoadFetch, TypeOK
  <2> QED
    BY <1>8, <2>1, <2>2, <2>3 DEF LoadFetch, TypeOK, Places, object, lmdb, loading, lookup, events
<1>9. ASSUME NEW t \in Threads, ClearLMDB(t)
      PROVE  TypeOK'
  BY <1>9, LibraryAssumption
  DEF ClearLMDB, Goto, TypeOK, object, lmdb, loading, lookup, events
<1>10. ASSUME NEW t \in Threads, LoadNext(t)
      PROVE  TypeOK'
  <2>1. pc' \in [Threads -> Places]
    <3>1. UNCHANGED pc \/ \E l \in Places : Goto(t, l)
      BY <1>10 DEF LoadNext, Places
    <3> QED
      BY <3>1, PlacesKept
  <2>2. todo' \in [Threads -> SUBSET Files]
    <3>1. UNCHANGED todo \/ \E X \in SUBSET Files : todo' = [todo EXCEPT ![t] = X]
      <4>1. \A f : todo[t] \ {f} \in SUBSET Files
        BY DEF TypeOK
      <4> QED
        BY <1>10, <4>1 DEF LoadNext
    <3> QED
      BY <3>1 DEF TypeOK
  <2>3. \A f \in todo[t] : f \in Files
    BY DEF TypeOK
  <2>4. dat' \in [Threads -> Files \cup {None}]
    BY <1>10, <2>3 DEF LoadNext, TypeOK
  <2> QED
    BY <1>10, <2>1, <2>2, <2>4 DEF LoadNext, TypeOK, Places, object, lmdb, loading, lookup, events
<1>11. ASSUME NEW t \in Threads, LoadDatBegin(t)
      PROVE  TypeOK'
  <2>1. pc' \in [Threads -> Places]
    <3>1. UNCHANGED pc \/ \E l \in Places : Goto(t, l)
      BY <1>11 DEF LoadDatBegin, LoadDatReturn, Places
    <3> QED
      BY <3>1, PlacesKept
  <2>2. writer' \in Threads \cup {None} /\ dirty' \in [Keys -> Files \cup {None}]
    BY <1>11 DEF LoadDatBegin, TypeOK
  <2>3. LoadDatReturn(t) \/ UNCHANGED <<dat, idx, failed>>
    BY <1>11 DEF LoadDatBegin
  <2>5. dat' \in [Threads -> Files \cup {None}]
    BY <2>3 DEF LoadDatReturn, TypeOK
  <2>6. idx' \in [Threads -> Nat]
    <3>1. CASE idx' = [idx EXCEPT ![t] = 0]
      BY <3>1 DEF TypeOK
    <3> QED
      BY <2>3, <3>1 DEF LoadDatReturn, TypeOK
  <2>7. failed' \in [Threads -> BOOLEAN]
    BY <2>3 DEF LoadDatReturn, TypeOK
  <2>4. broken' \in BOOLEAN
    BY <1>11 DEF LoadDatBegin, TypeOK
  <2> QED
    BY <1>11, <2>1, <2>2, <2>4, <2>5, <2>6, <2>7 DEF LoadDatBegin, TypeOK, Places, object, lmdb, loading, lookup, events
<1>12. ASSUME NEW t \in Threads, LoadDatPut(t)
      PROVE  TypeOK'
  <2>1. dat[t] \in Files /\ idx[t] \in Nat /\ idx[t] < Len(Content[dat[t]])
    BY <1>12 DEF LoadDatPut, TypeOK, Transaction
  <2>2. Content[dat[t]] \in Seq(Keys \cup {BadKey})
    BY <2>1, LibraryAssumption
  <2>3. Content[dat[t]][idx[t] + 1] \in Keys \cup {BadKey}
    BY <2>1, <2>2
  <2>4. dirty' \in [Keys -> Files \cup {None}]
    BY <1>12, <2>1, <2>3 DEF LoadDatPut, Put, TypeOK
  <2>5. failed' \in [Threads -> BOOLEAN]
    BY <1>12 DEF LoadDatPut, TypeOK
  <2>6. idx' \in [Threads -> Nat]
    BY <1>12 DEF LoadDatPut, TypeOK
  <2>7. broken' \in BOOLEAN
    BY <1>12 DEF LoadDatPut, TypeOK
  <2> QED
    BY <1>12, <2>4, <2>5, <2>6, <2>7 DEF LoadDatPut, TypeOK, object, lmdb, loading, lookup, events
<1>13. ASSUME NEW t \in Threads, LoadDatAbort(t)
      PROVE  TypeOK'
  BY <1>13, LibraryAssumption
  DEF LoadDatAbort, Abort, LoadDatReturn, Goto, TypeOK, object, lmdb, loading, lookup, events, EmptyDb
<1>14. ASSUME NEW t \in Threads, LoadDatCommit(t)
      PROVE  TypeOK'
  BY <1>14, LibraryAssumption
  DEF LoadDatCommit, AllRead, LoadDatReturn, Goto, TypeOK, object, lmdb, loading, lookup, events, EmptyDb
<1>15. ASSUME NEW t \in Threads, LoadDatCommitFails(t)
      PROVE  TypeOK'
  BY <1>15, LibraryAssumption
  DEF LoadDatCommitFails, AllRead, Abort, Goto, TypeOK, object, lmdb, loading, lookup, events, EmptyDb
<1>16. ASSUME NEW t \in Threads, LoadDatAbortAgain(t)
      PROVE  TypeOK'
  BY <1>16, LibraryAssumption
  DEF LoadDatAbortAgain, LoadDatReturn, Goto, TypeOK, object, lmdb, loading, lookup, events, EmptyDb
<1>17. ASSUME NEW t \in Threads, CheckLock(t)
      PROVE  TypeOK'
  BY <1>17, LibraryAssumption
  DEF CheckLock, Goto, TypeOK, object, lmdb, loading, lookup, events
<1>18. ASSUME NEW t \in Threads, IsHashExist(t)
      PROVE  TypeOK'
  <2>1. /\ answer' \in [Threads -> {"none", "virus", "clean", "error"}]
        /\ m_Mutex' \in Threads \cup {None} /\ broken' \in BOOLEAN
    BY <1>18 DEF IsHashExist, TypeOK
  <2>2. pc' \in [Threads -> Places]
    <3>1. UNCHANGED pc \/ \E l \in Places : Goto(t, l)
      BY <1>18 DEF IsHashExist, Places
    <3> QED
      BY <3>1, PlacesKept
  <2> QED
    BY <1>18, <2>1, <2>2 DEF IsHashExist, TypeOK, Places, object, lmdb, loading, lookup, events
<1>19. ASSUME NEW t \in Threads, Construct(t)
      PROVE  TypeOK'
  BY <1>19, LibraryAssumption
  DEF Construct, Goto, TypeOK, object, lmdb, loading, lookup, events
<1>20. ASSUME NEW t \in Threads, CheckRansomware(t)
      PROVE  TypeOK'
  <2>1. answer' \in [Threads -> {"none", "virus", "clean", "error"}]
    BY <1>20 DEF CheckRansomware, TypeOK
  <2>2. key' \in [Threads -> Keys \cup {None}]
    BY <1>20 DEF CheckRansomware, FetchFileHash, TypeOK
  <2>3. pc' \in [Threads -> Places]
    <3>1. UNCHANGED pc \/ \E l \in Places : Goto(t, l)
      BY <1>20 DEF CheckRansomware, Places
    <3> QED
      BY <3>1, PlacesKept
  <2>4. calls' \in 0..MaxCalls
    BY <1>20, LibraryAssumption DEF CheckRansomware, TypeOK
  <2> QED
    BY <1>20, <2>1, <2>2, <2>3, <2>4 DEF CheckRansomware, TypeOK, Places, object, lmdb, loading, lookup, events
<1>21. CASE Crash
  <2>1. dirty' \in [Keys -> Files \cup {None}]
    BY <1>21 DEF Crash, EmptyDb
  <2>2. crashes' \in 0..MaxCrash
    BY <1>21, LibraryAssumption DEF Crash, TypeOK
  <2> QED
    BY <1>21, <2>1, <2>2 DEF Crash, TypeOK
<1>22. CASE UNCHANGED vars
  BY <1>22, LibraryAssumption
  DEF Goto, TypeOK, vars, object, lmdb, loading, lookup, events
<1> QED
  BY <1>1, <1>2, <1>3, <1>4, <1>5, <1>6, <1>7, <1>8, <1>9, <1>10, <1>11, <1>12, <1>13, <1>14, <1>15, <1>16, <1>17, <1>18, <1>19, <1>20, <1>21, <1>22
  DEF Next, ThreadStep, InitStep, LoadStep

\* One write transaction, begun and ended by LoadDat.
LEMMA TransactionPreserved ==
  ASSUME TypeOK, Transaction, [Next]_vars
  PROVE  Transaction'
<1>1. ASSUME NEW t \in Threads, InitTest(t)
      PROVE  Transaction'
  BY <1>1, LibraryAssumption
  DEF InitTest, Goto, TypeOK, Transaction, object, lmdb, loading, lookup, events
<1>2. ASSUME NEW t \in Threads, InitEnvReset(t)
      PROVE  Transaction'
  BY <1>2, LibraryAssumption
  DEF InitEnvReset, Goto, TypeOK, Transaction, object, lmdb, loading, lookup, events
<1>3. ASSUME NEW t \in Threads, InitEnvTest(t)
      PROVE  Transaction'
  BY <1>3, LibraryAssumption
  DEF InitEnvTest, Goto, TypeOK, Transaction, object, lmdb, loading, lookup, events
<1>4. ASSUME NEW t \in Threads, InitEnvCreate(t)
      PROVE  Transaction'
  BY <1>4, LibraryAssumption
  DEF InitEnvCreate, Goto, TypeOK, Transaction, object, lmdb, loading, lookup, events
<1>5. ASSUME NEW t \in Threads, InitEnvOpen(t)
      PROVE  Transaction'
  BY <1>5, LibraryAssumption
  DEF InitEnvOpen, Goto, TypeOK, Transaction, object, lmdb, loading, lookup, events
<1>6. ASSUME NEW t \in Threads, InitEnvReturn(t)
      PROVE  Transaction'
  BY <1>6, LibraryAssumption
  DEF InitEnvReturn, Goto, TypeOK, Transaction, object, lmdb, loading, lookup, events
<1>7. ASSUME NEW t \in Threads, InitAssign(t)
      PROVE  Transaction'
  <2>1. pc'[t] \notin {"put", "abort", "begin"} /\ \A u \in Threads \ {t} : pc'[u] = pc[u]
    BY <1>7 DEF InitAssign, GiveUp, Goto, TypeOK
  <2>2. UNCHANGED <<writer, dat, idx, failed>>
    BY <1>7 DEF InitAssign, lmdb
  <2> QED
    BY <1>7, <2>1, <2>2 DEF InitAssign, Transaction
<1>8. ASSUME NEW t \in Threads, LoadFetch(t)
      PROVE  Transaction'
  BY <1>8, LibraryAssumption
  DEF LoadFetch, Goto, TypeOK, Transaction, object, lmdb, loading, lookup, events
<1>9. ASSUME NEW t \in Threads, ClearLMDB(t)
      PROVE  Transaction'
  BY <1>9, LibraryAssumption
  DEF ClearLMDB, Goto, TypeOK, Transaction, object, lmdb, loading, lookup, events
<1>10. ASSUME NEW t \in Threads, LoadNext(t)
      PROVE  Transaction'
  BY <1>10, LibraryAssumption
  DEF LoadNext, Goto, TypeOK, Transaction, object, lmdb, loading, lookup, events
<1>11. ASSUME NEW t \in Threads, LoadDatBegin(t)
      PROVE  Transaction'
  <2>1. CASE m_pEnv = "open" /\ writer' = t
    BY <1>11, <2>1, LibraryAssumption DEF LoadDatBegin, LoadDatReturn, Goto, TypeOK, Transaction
  <2>2. CASE m_pEnv = "open" /\ writer' # t
    <3>1. writer' = None /\ LoadDatReturn(t)
      BY <1>11, <2>2 DEF LoadDatBegin
    <3>2. pc'[t] = "next" /\ idx'[t] = 0 /\ failed'[t] = FALSE
      BY <3>1 DEF LoadDatReturn, Goto, TypeOK
    <3>3. \A u \in Threads \ {t} : pc'[u] = pc[u] /\ dat'[u] = dat[u] /\ idx'[u] = idx[u] /\ failed'[u] = failed[u]
      BY <3>1 DEF LoadDatReturn, Goto, TypeOK
    <3>4. writer = None
      BY <1>11 DEF LoadDatBegin
    <3> QED
      BY <3>1, <3>2, <3>3, <3>4, LibraryAssumption DEF Transaction
  <2>3. CASE m_pEnv # "open"
    BY <1>11, <2>3 DEF LoadDatBegin, Transaction
  <2> QED
    BY <2>1, <2>2, <2>3
<1>12. ASSUME NEW t \in Threads, LoadDatPut(t)
      PROVE  Transaction'
  BY <1>12, LibraryAssumption
  DEF LoadDatPut, Put, Goto, TypeOK, Transaction, object, lmdb, loading, lookup, events
<1>13. ASSUME NEW t \in Threads, LoadDatAbort(t)
      PROVE  Transaction'
  BY <1>13, LibraryAssumption
  DEF LoadDatAbort, Abort, LoadDatReturn, Goto, TypeOK, Transaction, object, lmdb, loading, lookup, events, EmptyDb
<1>14. ASSUME NEW t \in Threads, LoadDatCommit(t)
      PROVE  Transaction'
  BY <1>14, LibraryAssumption
  DEF LoadDatCommit, AllRead, LoadDatReturn, Goto, TypeOK, Transaction, object, lmdb, loading, lookup, events, EmptyDb
<1>15. ASSUME NEW t \in Threads, LoadDatCommitFails(t)
      PROVE  Transaction'
  BY <1>15, LibraryAssumption
  DEF LoadDatCommitFails, AllRead, Abort, Goto, TypeOK, Transaction, object, lmdb, loading, lookup, events, EmptyDb
<1>16. ASSUME NEW t \in Threads, LoadDatAbortAgain(t)
      PROVE  Transaction'
  BY <1>16, LibraryAssumption
  DEF LoadDatAbortAgain, LoadDatReturn, Goto, TypeOK, Transaction, object, lmdb, loading, lookup, events, EmptyDb
<1>17. ASSUME NEW t \in Threads, CheckLock(t)
      PROVE  Transaction'
  BY <1>17, LibraryAssumption
  DEF CheckLock, Goto, TypeOK, Transaction, object, lmdb, loading, lookup, events
<1>18. ASSUME NEW t \in Threads, IsHashExist(t)
      PROVE  Transaction'
  BY <1>18, LibraryAssumption
  DEF IsHashExist, Goto, TypeOK, Transaction, object, lmdb, loading, lookup, events
<1>19. ASSUME NEW t \in Threads, Construct(t)
      PROVE  Transaction'
  BY <1>19, LibraryAssumption
  DEF Construct, Goto, TypeOK, Transaction, object, lmdb, loading, lookup, events
<1>20. ASSUME NEW t \in Threads, CheckRansomware(t)
      PROVE  Transaction'
  BY <1>20, LibraryAssumption
  DEF CheckRansomware, FetchFileHash, Goto, TypeOK, Transaction, object, lmdb, loading, lookup, events
<1>21. CASE Crash
  BY <1>21, LibraryAssumption
  DEF Crash, EmptyDb, TypeOK, Transaction
<1>22. CASE UNCHANGED vars
  BY <1>22, LibraryAssumption
  DEF Goto, TypeOK, Transaction, vars, object, lmdb, loading, lookup, events
<1> QED
  BY <1>1, <1>2, <1>3, <1>4, <1>5, <1>6, <1>7, <1>8, <1>9, <1>10, <1>11, <1>12, <1>13, <1>14, <1>15, <1>16, <1>17, <1>18, <1>19, <1>20, <1>21, <1>22
  DEF Next, ThreadStep, InitStep, LoadStep

\* m_Mutex follows the lookups.
LEMMA LookupsPreserved ==
  ASSUME TypeOK, Lookups, [Next]_vars
  PROVE  Lookups'
<1>1. ASSUME NEW t \in Threads, InitTest(t)
      PROVE  Lookups'
  BY <1>1, LibraryAssumption
  DEF InitTest, Goto, TypeOK, Lookups, Looking, InInit, object, lmdb, loading, lookup, events
<1>2. ASSUME NEW t \in Threads, InitEnvReset(t)
      PROVE  Lookups'
  BY <1>2, LibraryAssumption
  DEF InitEnvReset, Goto, TypeOK, Lookups, Looking, InInit, object, lmdb, loading, lookup, events
<1>3. ASSUME NEW t \in Threads, InitEnvTest(t)
      PROVE  Lookups'
  BY <1>3, LibraryAssumption
  DEF InitEnvTest, Goto, TypeOK, Lookups, Looking, InInit, object, lmdb, loading, lookup, events
<1>4. ASSUME NEW t \in Threads, InitEnvCreate(t)
      PROVE  Lookups'
  BY <1>4, LibraryAssumption
  DEF InitEnvCreate, Goto, TypeOK, Lookups, Looking, InInit, object, lmdb, loading, lookup, events
<1>5. ASSUME NEW t \in Threads, InitEnvOpen(t)
      PROVE  Lookups'
  BY <1>5, LibraryAssumption
  DEF InitEnvOpen, Goto, TypeOK, Lookups, Looking, InInit, object, lmdb, loading, lookup, events
<1>6. ASSUME NEW t \in Threads, InitEnvReturn(t)
      PROVE  Lookups'
  BY <1>6, LibraryAssumption
  DEF InitEnvReturn, Goto, TypeOK, Lookups, Looking, InInit, object, lmdb, loading, lookup, events
<1>7. ASSUME NEW t \in Threads, InitAssign(t)
      PROVE  Lookups'
  <2>1. CASE val[t]
    <3>1. pc' = [pc EXCEPT ![t] = ret[t]] /\ UNCHANGED <<m_Mutex, answer, key, ret>>
      BY <1>7, <2>1 DEF InitAssign, Goto
    <3>2. Looking(t)' <=> Looking(t)
      BY <1>7, <3>1 DEF InitAssign, Looking, InInit, TypeOK
    <3>3. pc'[t] # "lock"
      BY <3>1 DEF TypeOK
    <3>4. \A u \in Threads \ {t} : (Looking(u)' <=> Looking(u)) /\ pc'[u] = pc[u]
      BY <3>1 DEF Looking, InInit, TypeOK
    <3> QED
      BY <3>1, <3>2, <3>3, <3>4 DEF Lookups
  <2>2. CASE ~val[t]
    <3>1. GiveUp(t) /\ UNCHANGED <<key, ret>>
      BY <1>7, <2>2 DEF InitAssign
    <3>2. ~Looking(t)' /\ pc'[t] # "lock" /\ m_Mutex' # t
      BY <3>1, LibraryAssumption DEF GiveUp, Goto, Looking, InInit, TypeOK
    <3>3. \A u \in Threads \ {t} : (Looking(u)' <=> Looking(u)) /\ pc'[u] = pc[u] /\ answer'[u] = answer[u]
      BY <3>1 DEF GiveUp, Goto, Looking, InInit, TypeOK
    <3>4. \A u \in Threads \ {t} : m_Mutex' = u <=> m_Mutex = u
      BY <3>1, LibraryAssumption DEF GiveUp
    <3> QED
      BY <3>1, <3>2, <3>3, <3>4 DEF Lookups
  <2> QED
    BY <2>1, <2>2
<1>8. ASSUME NEW t \in Threads, LoadFetch(t)
      PROVE  Lookups'
  BY <1>8, LibraryAssumption
  DEF LoadFetch, Goto, TypeOK, Lookups, Looking, InInit, object, lmdb, loading, lookup, events
<1>9. ASSUME NEW t \in Threads, ClearLMDB(t)
      PROVE  Lookups'
  <2>1. ~Looking(t) /\ ~Looking(t)' /\ pc'[t] # "lock"
    BY <1>9 DEF ClearLMDB, Goto, TypeOK, Looking, InInit
  <2>2. \A u \in Threads \ {t} : (Looking(u)' <=> Looking(u)) /\ pc'[u] = pc[u]
    BY <1>9 DEF ClearLMDB, Goto, TypeOK, Looking, InInit
  <2>3. UNCHANGED <<m_Mutex, key, answer>>
    BY <1>9 DEF ClearLMDB, object, lookup
  <2> QED
    BY <2>1, <2>2, <2>3 DEF Lookups
<1>10. ASSUME NEW t \in Threads, LoadNext(t)
      PROVE  Lookups'
  <2>1. ~Looking(t) /\ ~Looking(t)' /\ pc'[t] # "lock"
    BY <1>10 DEF LoadNext, Goto, TypeOK, Looking, InInit
  <2>2. \A u \in Threads \ {t} : (Looking(u)' <=> Looking(u)) /\ pc'[u] = pc[u]
    BY <1>10 DEF LoadNext, Goto, TypeOK, Looking, InInit
  <2>3. UNCHANGED <<m_Mutex, key, answer>>
    BY <1>10 DEF LoadNext, object, lookup
  <2> QED
    BY <2>1, <2>2, <2>3 DEF Lookups
<1>11. ASSUME NEW t \in Threads, LoadDatBegin(t)
      PROVE  Lookups'
  BY <1>11, LibraryAssumption
  DEF LoadDatBegin, LoadDatReturn, Goto, TypeOK, Lookups, Looking, InInit, object, lmdb, loading, lookup, events
<1>12. ASSUME NEW t \in Threads, LoadDatPut(t)
      PROVE  Lookups'
  BY <1>12, LibraryAssumption
  DEF LoadDatPut, Put, Goto, TypeOK, Lookups, Looking, InInit, object, lmdb, loading, lookup, events
<1>13. ASSUME NEW t \in Threads, LoadDatAbort(t)
      PROVE  Lookups'
  BY <1>13, LibraryAssumption
  DEF LoadDatAbort, Abort, LoadDatReturn, Goto, TypeOK, Lookups, Looking, InInit, object, lmdb, loading, lookup, events, EmptyDb
<1>14. ASSUME NEW t \in Threads, LoadDatCommit(t)
      PROVE  Lookups'
  BY <1>14, LibraryAssumption
  DEF LoadDatCommit, AllRead, LoadDatReturn, Goto, TypeOK, Lookups, Looking, InInit, object, lmdb, loading, lookup, events, EmptyDb
<1>15. ASSUME NEW t \in Threads, LoadDatCommitFails(t)
      PROVE  Lookups'
  BY <1>15, LibraryAssumption
  DEF LoadDatCommitFails, AllRead, Abort, Goto, TypeOK, Lookups, Looking, InInit, object, lmdb, loading, lookup, events, EmptyDb
<1>16. ASSUME NEW t \in Threads, LoadDatAbortAgain(t)
      PROVE  Lookups'
  BY <1>16, LibraryAssumption
  DEF LoadDatAbortAgain, LoadDatReturn, Goto, TypeOK, Lookups, Looking, InInit, object, lmdb, loading, lookup, events, EmptyDb
<1>17. ASSUME NEW t \in Threads, CheckLock(t)
      PROVE  Lookups'
  BY <1>17, LibraryAssumption
  DEF CheckLock, Goto, TypeOK, Lookups, Looking, InInit, object, lmdb, loading, lookup, events
<1>18. ASSUME NEW t \in Threads, IsHashExist(t)
      PROVE  Lookups'
  BY <1>18, LibraryAssumption
  DEF IsHashExist, Goto, TypeOK, Lookups, Looking, InInit, object, lmdb, loading, lookup, events
<1>19. ASSUME NEW t \in Threads, Construct(t)
      PROVE  Lookups'
  BY <1>19, LibraryAssumption
  DEF Construct, Goto, TypeOK, Lookups, Looking, InInit, object, lmdb, loading, lookup, events
<1>20. ASSUME NEW t \in Threads, CheckRansomware(t)
      PROVE  Lookups'
  BY <1>20, LibraryAssumption
  DEF CheckRansomware, FetchFileHash, Goto, TypeOK, Lookups, Looking, InInit, object, lmdb, loading, lookup, events
<1>21. CASE Crash
  BY <1>21, LibraryAssumption
  DEF Crash, EmptyDb, TypeOK, Lookups, Looking, InInit
<1>22. CASE UNCHANGED vars
  BY <1>22, LibraryAssumption
  DEF Goto, TypeOK, Lookups, Looking, InInit, vars, object, lmdb, loading, lookup, events
<1> QED
  BY <1>1, <1>2, <1>3, <1>4, <1>5, <1>6, <1>7, <1>8, <1>9, <1>10, <1>11, <1>12, <1>13, <1>14, <1>15, <1>16, <1>17, <1>18, <1>19, <1>20, <1>21, <1>22
  DEF Next, ThreadStep, InitStep, LoadStep

\* Init by one thread at a time.
LEMMA InitAlonePreserved ==
  ASSUME TypeOK, InitAlone, [Next]_vars
  PROVE  InitAlone'
<1>1. ASSUME NEW t \in Threads, InitTest(t)
      PROVE  InitAlone'
  <2> SUFFICES ASSUME ~raced' PROVE InitAlone'
    BY DEF InitAlone
  <2>1. UNCHANGED <<m_bInit, m_pEnv, val, openFailed>> /\ \A u \in Threads \ {t} : pc'[u] = pc[u]
    BY <1>1 DEF InitTest, Goto, TypeOK, object
  <2>2. ~raced /\ (m_bInit \/ \A u \in Threads \ {t} : ~InInit(u))
    BY <1>1 DEF InitTest
  <2>3. CASE m_bInit
    <3>1. pc'[t] \in {"idle", "fetch", "clear", "get"} /\ m_pEnv = "open" /\ pc[t] = "init"
      BY <1>1, <2>2, <2>3 DEF InitTest, Goto, TypeOK, InitAlone
    <3> QED
      BY <2>1, <2>2, <2>3, <3>1 DEF InitAlone, InInit, Using
  <2>4. CASE ~m_bInit
    <3>1. pc'[t] = "reset" /\ pc[t] = "init"
      BY <1>1, <2>4 DEF InitTest, Goto, TypeOK
    <3> QED
      BY <2>1, <2>2, <2>4, <3>1 DEF InitAlone, InInit, Using
  <2> QED
    BY <2>3, <2>4
<1>2. ASSUME NEW t \in Threads, InitEnvReset(t)
      PROVE  InitAlone'
  BY <1>2
  DEF InitEnvReset, Goto, TypeOK, InitAlone, InInit, Using, object, lmdb, loading, lookup, events
<1>3. ASSUME NEW t \in Threads, InitEnvTest(t)
      PROVE  InitAlone'
  BY <1>3
  DEF InitEnvTest, Goto, TypeOK, InitAlone, InInit, Using, object, lmdb, loading, lookup, events
<1>4. ASSUME NEW t \in Threads, InitEnvCreate(t)
      PROVE  InitAlone'
  <2> SUFFICES ASSUME ~raced' PROVE InitAlone'
    BY DEF InitAlone
  <2>1. UNCHANGED <<m_bInit, val, openFailed, raced>> /\ \A u \in Threads \ {t} : pc'[u] = pc[u]
    BY <1>4 DEF InitEnvCreate, Goto, TypeOK, events
  <2>2. pc[t] = "create" /\ m_pEnv = "none" /\ ~m_bInit /\ \A u \in Threads \ {t} : ~InInit(u) /\ ~Using(u)
    BY <1>4, <2>1 DEF InitEnvCreate, InitAlone, InInit
  <2>3. CASE pc'[t] = "open" /\ m_pEnv' = "created"
    BY <2>1, <2>2, <2>3 DEF InitAlone, InInit, Using
  <2>4. CASE pc'[t] = "return" /\ m_pEnv' = m_pEnv
    BY <2>1, <2>2, <2>4 DEF InitAlone, InInit, Using
  <2> QED
    BY <1>4, <2>3, <2>4 DEF InitEnvCreate, Goto, TypeOK
<1>5. ASSUME NEW t \in Threads, InitEnvOpen(t)
      PROVE  InitAlone'
  BY <1>5
  DEF InitEnvOpen, Goto, TypeOK, InitAlone, InInit, Using, object, lmdb, loading, lookup, events
<1>6. ASSUME NEW t \in Threads, InitEnvReturn(t)
      PROVE  InitAlone'
  BY <1>6
  DEF InitEnvReturn, Goto, TypeOK, InitAlone, InInit, Using, object, lmdb, loading, lookup, events
<1>7. ASSUME NEW t \in Threads, InitAssign(t)
      PROVE  InitAlone'
  <2> SUFFICES ASSUME ~raced' PROVE InitAlone'
    BY DEF InitAlone
  <2>1. UNCHANGED <<m_pEnv, val, openFailed, raced>> /\ pc[t] = "assign" /\ m_bInit' = val[t]
    BY <1>7 DEF InitAssign, events
  <2>2. \A u \in Threads \ {t} : pc'[u] = pc[u]
    BY <1>7 DEF InitAssign, GiveUp, Goto, TypeOK
  <2>3. m_bInit' = m_bInit /\ \A u \in Threads \ {t} : ~InInit(u)
    BY <2>1 DEF InitAlone, InInit
  <2>4. pc'[t] \in {"idle", "fetch", "clear", "get"} /\ (m_bInit \/ pc'[t] = "idle")
    BY <1>7, <2>1, <2>3 DEF InitAssign, GiveUp, Goto, TypeOK
  <2> QED
    BY <2>1, <2>2, <2>3, <2>4 DEF InitAlone, InInit, Using
<1>8. ASSUME NEW t \in Threads, LoadFetch(t)
      PROVE  InitAlone'
  <2> SUFFICES ASSUME ~raced' PROVE InitAlone'
    BY DEF InitAlone
  <2>1. UNCHANGED <<m_bInit, m_pEnv, val, openFailed, raced>> /\ \A u \in Threads \ {t} : pc'[u] = pc[u]
    BY <1>8 DEF LoadFetch, Goto, TypeOK, object, lookup, events
  <2>2. pc[t] = "fetch" /\ pc'[t] \in {"clear", "init", "idle"} /\ (pc'[t] = "clear" => m_bInit)
    BY <1>8 DEF LoadFetch, Goto, TypeOK
  <2> QED
    BY <2>1, <2>2 DEF InitAlone, InInit, Using
<1>9. ASSUME NEW t \in Threads, ClearLMDB(t)
      PROVE  InitAlone'
  BY <1>9
  DEF ClearLMDB, Goto, TypeOK, InitAlone, InInit, Using, object, lmdb, loading, lookup, events
<1>10. ASSUME NEW t \in Threads, LoadNext(t)
      PROVE  InitAlone'
  <2>1. UNCHANGED <<m_bInit, m_pEnv, val, openFailed, raced>> /\ \A u \in Threads \ {t} : pc'[u] = pc[u]
    BY <1>10 DEF LoadNext, Goto, TypeOK, object, events
  <2>2. pc[t] = "next" /\ pc'[t] \in {"begin", "next", "idle"}
    BY <1>10 DEF LoadNext, Goto, TypeOK
  <2> QED
    BY <2>1, <2>2 DEF InitAlone, InInit, Using
<1>11. ASSUME NEW t \in Threads, LoadDatBegin(t)
      PROVE  InitAlone'
  <2>1. UNCHANGED <<m_bInit, m_pEnv, val, openFailed, raced>> /\ \A u \in Threads \ {t} : pc'[u] = pc[u]
    BY <1>11 DEF LoadDatBegin, LoadDatReturn, Goto, TypeOK, object
  <2>2. pc[t] = "begin" /\ pc'[t] \in {"begin", "put", "next"}
    BY <1>11 DEF LoadDatBegin, LoadDatReturn, Goto, TypeOK
  <2> QED
    BY <2>1, <2>2 DEF InitAlone, InInit, Using
<1>12. ASSUME NEW t \in Threads, LoadDatPut(t)
      PROVE  InitAlone'
  BY <1>12
  DEF LoadDatPut, Put, Goto, TypeOK, InitAlone, InInit, Using, object, lmdb, loading, lookup, events
<1>13. ASSUME NEW t \in Threads, LoadDatAbort(t)
      PROVE  InitAlone'
  BY <1>13
  DEF LoadDatAbort, Abort, LoadDatReturn, Goto, TypeOK, InitAlone, InInit, Using, object, lmdb, loading, lookup, events, EmptyDb
<1>14. ASSUME NEW t \in Threads, LoadDatCommit(t)
      PROVE  InitAlone'
  BY <1>14
  DEF LoadDatCommit, AllRead, LoadDatReturn, Goto, TypeOK, InitAlone, InInit, Using, object, lmdb, loading, lookup, events, EmptyDb
<1>15. ASSUME NEW t \in Threads, LoadDatCommitFails(t)
      PROVE  InitAlone'
  BY <1>15
  DEF LoadDatCommitFails, AllRead, Abort, Goto, TypeOK, InitAlone, InInit, Using, object, lmdb, loading, lookup, events, EmptyDb
<1>16. ASSUME NEW t \in Threads, LoadDatAbortAgain(t)
      PROVE  InitAlone'
  BY <1>16
  DEF LoadDatAbortAgain, LoadDatReturn, Goto, TypeOK, InitAlone, InInit, Using, object, lmdb, loading, lookup, events, EmptyDb
<1>17. ASSUME NEW t \in Threads, CheckLock(t)
      PROVE  InitAlone'
  BY <1>17
  DEF CheckLock, Goto, TypeOK, InitAlone, InInit, Using, object, lmdb, loading, lookup, events
<1>18. ASSUME NEW t \in Threads, IsHashExist(t)
      PROVE  InitAlone'
  <2>1. UNCHANGED <<m_bInit, m_pEnv, val, openFailed, raced>> /\ \A u \in Threads \ {t} : pc'[u] = pc[u]
    BY <1>18 DEF IsHashExist, Goto, TypeOK, object, lookup, events
  <2>2. pc[t] = "get" /\ pc'[t] \in {"get", "idle"}
    BY <1>18 DEF IsHashExist, Goto, TypeOK
  <2> QED
    BY <2>1, <2>2 DEF InitAlone, InInit, Using
<1>19. ASSUME NEW t \in Threads, Construct(t)
      PROVE  InitAlone'
  BY <1>19
  DEF Construct, Goto, TypeOK, InitAlone, InInit, Using, object, lmdb, loading, lookup, events
<1>20. ASSUME NEW t \in Threads, CheckRansomware(t)
      PROVE  InitAlone'
  <2>1. UNCHANGED <<m_bInit, m_pEnv, val, openFailed, raced>> /\ \A u \in Threads \ {t} : pc'[u] = pc[u]
    BY <1>20 DEF CheckRansomware, Goto, TypeOK, object, lookup, events
  <2>2. pc[t] = "idle" /\ pc'[t] \in {"lock", "idle"}
    BY <1>20 DEF CheckRansomware, Goto, TypeOK
  <2> QED
    BY <2>1, <2>2 DEF InitAlone, InInit, Using
<1>21. CASE Crash
  BY <1>21
  DEF Crash, EmptyDb, TypeOK, InitAlone, InInit, Using
<1>22. CASE UNCHANGED vars
  BY <1>22
  DEF Goto, TypeOK, InitAlone, InInit, Using, vars, object, lmdb, loading, lookup, events
<1> QED
  BY <1>1, <1>2, <1>3, <1>4, <1>5, <1>6, <1>7, <1>8, <1>9, <1>10, <1>11, <1>12, <1>13, <1>14, <1>15, <1>16, <1>17, <1>18, <1>19, <1>20, <1>21, <1>22
  DEF Next, ThreadStep, InitStep, LoadStep

\* A step that leaves the transaction alone and brings nobody to it.
LEMMA PendingFrame ==
  ASSUME Pending, UNCHANGED <<db, dirty>>, NEW t \in Threads,
         pc'[t] # "put",
         \A u \in Threads \ {t} : /\ pc'[u] = pc[u] /\ dat'[u] = dat[u]
                                  /\ idx'[u] = idx[u] /\ failed'[u] = failed[u]
  PROVE  Pending'
<1> SUFFICES ASSUME NEW u \in Threads, pc'[u] = "put", ~failed'[u], NEW k \in Keys
             PROVE  dirty'[k] = Additions(u, k)'
  BY DEF Pending
<1>1. u # t
  OBVIOUS
<1>2. Additions(u, k)' = Additions(u, k)
  BY <1>1 DEF Additions
<1> QED
  BY <1>1, <1>2 DEF Pending


\* The write transaction sees the last commit and its own records.
LEMMA PendingPreserved ==
  ASSUME TypeOK, Transaction, Pending, [Next]_vars
  PROVE  Pending'
<1>1. ASSUME NEW t \in Threads, InitTest(t)
      PROVE  Pending'
  <2>1. UNCHANGED <<db, dirty>> /\ pc'[t] # "put"
    BY <1>1 DEF InitTest, Goto, TypeOK, lmdb
  <2>2. \A u \in Threads \ {t} : /\ pc'[u] = pc[u] /\ dat'[u] = dat[u]
                                  /\ idx'[u] = idx[u] /\ failed'[u] = failed[u]
    BY <1>1 DEF InitTest, Goto, TypeOK, loading
  <2> QED
    BY <2>1, <2>2, PendingFrame
<1>2. ASSUME NEW t \in Threads, InitEnvReset(t)
      PROVE  Pending'
  <2>1. UNCHANGED <<db, dirty>> /\ pc'[t] # "put"
    BY <1>2 DEF InitEnvReset, Goto, TypeOK, lmdb
  <2>2. \A u \in Threads \ {t} : /\ pc'[u] = pc[u] /\ dat'[u] = dat[u]
                                  /\ idx'[u] = idx[u] /\ failed'[u] = failed[u]
    BY <1>2 DEF InitEnvReset, Goto, TypeOK, loading
  <2> QED
    BY <2>1, <2>2, PendingFrame
<1>3. ASSUME NEW t \in Threads, InitEnvTest(t)
      PROVE  Pending'
  <2>1. UNCHANGED <<db, dirty>> /\ pc'[t] # "put"
    BY <1>3 DEF InitEnvTest, Goto, TypeOK, lmdb
  <2>2. \A u \in Threads \ {t} : /\ pc'[u] = pc[u] /\ dat'[u] = dat[u]
                                  /\ idx'[u] = idx[u] /\ failed'[u] = failed[u]
    BY <1>3 DEF InitEnvTest, Goto, TypeOK, loading
  <2> QED
    BY <2>1, <2>2, PendingFrame
<1>4. ASSUME NEW t \in Threads, InitEnvCreate(t)
      PROVE  Pending'
  <2>1. UNCHANGED <<db, dirty>> /\ pc'[t] # "put"
    BY <1>4 DEF InitEnvCreate, Goto, TypeOK, lmdb
  <2>2. \A u \in Threads \ {t} : /\ pc'[u] = pc[u] /\ dat'[u] = dat[u]
                                  /\ idx'[u] = idx[u] /\ failed'[u] = failed[u]
    BY <1>4 DEF InitEnvCreate, Goto, TypeOK, loading
  <2> QED
    BY <2>1, <2>2, PendingFrame
<1>5. ASSUME NEW t \in Threads, InitEnvOpen(t)
      PROVE  Pending'
  <2>1. UNCHANGED <<db, dirty>> /\ pc'[t] # "put"
    BY <1>5 DEF InitEnvOpen, Goto, TypeOK, lmdb
  <2>2. \A u \in Threads \ {t} : /\ pc'[u] = pc[u] /\ dat'[u] = dat[u]
                                  /\ idx'[u] = idx[u] /\ failed'[u] = failed[u]
    BY <1>5 DEF InitEnvOpen, Goto, TypeOK, loading
  <2> QED
    BY <2>1, <2>2, PendingFrame
<1>6. ASSUME NEW t \in Threads, InitEnvReturn(t)
      PROVE  Pending'
  <2>1. UNCHANGED <<db, dirty>> /\ pc'[t] # "put"
    BY <1>6 DEF InitEnvReturn, Goto, TypeOK, lmdb
  <2>2. \A u \in Threads \ {t} : /\ pc'[u] = pc[u] /\ dat'[u] = dat[u]
                                  /\ idx'[u] = idx[u] /\ failed'[u] = failed[u]
    BY <1>6 DEF InitEnvReturn, Goto, TypeOK, loading
  <2> QED
    BY <2>1, <2>2, PendingFrame
<1>7. ASSUME NEW t \in Threads, InitAssign(t)
      PROVE  Pending'
  <2>1. UNCHANGED <<db, dirty>> /\ pc'[t] # "put"
    BY <1>7 DEF InitAssign, GiveUp, Goto, TypeOK, lmdb
  <2>2. \A u \in Threads \ {t} : /\ pc'[u] = pc[u] /\ dat'[u] = dat[u]
                                  /\ idx'[u] = idx[u] /\ failed'[u] = failed[u]
    BY <1>7 DEF InitAssign, GiveUp, Goto, TypeOK, loading
  <2> QED
    BY <2>1, <2>2, PendingFrame
<1>8. ASSUME NEW t \in Threads, LoadFetch(t)
      PROVE  Pending'
  <2>1. UNCHANGED <<db, dirty>> /\ pc'[t] # "put"
    BY <1>8 DEF LoadFetch, Goto, TypeOK, lmdb
  <2>2. \A u \in Threads \ {t} : /\ pc'[u] = pc[u] /\ dat'[u] = dat[u]
                                  /\ idx'[u] = idx[u] /\ failed'[u] = failed[u]
    BY <1>8 DEF LoadFetch, Goto, TypeOK, loading
  <2> QED
    BY <2>1, <2>2, PendingFrame
<1>9. ASSUME NEW t \in Threads, ClearLMDB(t)
      PROVE  Pending'
  <2>1. UNCHANGED <<db, dirty>> /\ pc'[t] # "put"
    BY <1>9 DEF ClearLMDB, Goto, TypeOK, lmdb
  <2>2. \A u \in Threads \ {t} : /\ pc'[u] = pc[u] /\ dat'[u] = dat[u]
                                  /\ idx'[u] = idx[u] /\ failed'[u] = failed[u]
    BY <1>9 DEF ClearLMDB, Goto, TypeOK, loading
  <2> QED
    BY <2>1, <2>2, PendingFrame
<1>10. ASSUME NEW t \in Threads, LoadNext(t)
      PROVE  Pending'
  <2>1. UNCHANGED <<db, dirty>> /\ pc'[t] # "put"
    BY <1>10 DEF LoadNext, Goto, TypeOK, lmdb
  <2>2. \A u \in Threads \ {t} : /\ pc'[u] = pc[u] /\ dat'[u] = dat[u]
                                  /\ idx'[u] = idx[u] /\ failed'[u] = failed[u]
    BY <1>10 DEF LoadNext, Goto, TypeOK, loading
  <2> QED
    BY <2>1, <2>2, PendingFrame
<1>11. ASSUME NEW t \in Threads, LoadDatBegin(t)
      PROVE  Pending'
  <2>1. CASE m_pEnv = "open" /\ writer' = t
    <3>1. pc' = [pc EXCEPT ![t] = "put"] /\ dirty' = db /\ UNCHANGED <<db, dat, idx, failed>> /\ pc[t] = "begin"
      BY <1>11, <2>1, LibraryAssumption DEF LoadDatBegin, Goto, TypeOK
    <3>2. \A u \in Threads : pc'[u] = "put" => u = t
      BY <1>11, <3>1, LibraryAssumption DEF LoadDatBegin, Transaction, TypeOK
    <3>3. idx'[t] = 0
      BY <3>1 DEF Transaction
    <3>4. \A k \in Keys : dirty'[k] = Additions(t, k)'
      BY <3>1, <3>3 DEF Additions, TypeOK
    <3> QED
      BY <3>2, <3>4 DEF Pending
  <2>2. CASE m_pEnv = "open" /\ writer' # t
    <3>1. LoadDatReturn(t) /\ UNCHANGED <<db, dirty>>
      BY <1>11, <2>2 DEF LoadDatBegin
    <3>2. pc'[t] # "put" /\ \A u \in Threads \ {t} : /\ pc'[u] = pc[u] /\ dat'[u] = dat[u]
                                  /\ idx'[u] = idx[u] /\ failed'[u] = failed[u]
      BY <3>1 DEF LoadDatReturn, Goto, TypeOK
    <3> QED
      BY <3>1, <3>2, PendingFrame
  <2>3. CASE m_pEnv # "open"
    BY <1>11, <2>3 DEF LoadDatBegin, Pending, Additions
  <2> QED
    BY <2>1, <2>2, <2>3
<1>12. ASSUME NEW t \in Threads, LoadDatPut(t)
      PROVE  Pending'
  <2> DEFINE r == Content[dat[t]][idx[t] + 1]
  <2>1. /\ pc[t] = "put" /\ UNCHANGED <<db, pc, dat>> /\ dat[t] \in Files /\ dat[t] # None /\ idx[t] \in Nat
        /\ idx'[t] = idx[t] + 1
    BY <1>12, LibraryAssumption DEF LoadDatPut, TypeOK, Transaction
  <2>2. \A u \in Threads : pc[u] = "put" => u = t
    BY <2>1 DEF Transaction
  <2> SUFFICES ASSUME ~failed'[t], NEW k \in Keys
               PROVE  dirty'[k] = Additions(t, k)'
    BY <2>1, <2>2 DEF Pending
  <2>3. ~failed[t] /\ dirty[k] = Additions(t, k)
    BY <1>12, <2>1 DEF LoadDatPut, TypeOK, Pending
  <2>4. (\E i \in 1..idx'[t] : Content[dat'[t]][i] = k) <=> ((\E i \in 1..idx[t] : Content[dat[t]][i] = k) \/ r = k)
    BY <2>1
  <2>5. Additions(t, k)' = IF dirty[k] = None /\ r = k THEN dat[t] ELSE dirty[k]
    BY <2>1, <2>3, <2>4 DEF Additions
  <2>6. dirty'[k] = IF dirty[k] = None /\ r = k THEN dat[t] ELSE dirty[k]
    <3>1. CASE r = BadKey
      BY <1>12, <3>1, LibraryAssumption DEF LoadDatPut
    <3>2. CASE r # BadKey
      <4>1. dirty' = Put(dirty, r, dat[t])
        BY <1>12, <2>1, <3>2 DEF LoadDatPut, TypeOK
      <4>2. CASE r \in Keys
        BY <4>1, <4>2 DEF Put, TypeOK
      <4>3. Content[dat[t]] \in Seq(Keys \cup {BadKey}) /\ idx[t] + 1 \in 1..Len(Content[dat[t]])
        BY <1>12, <2>1, LibraryAssumption DEF LoadDatPut
      <4> QED
        BY <3>2, <4>2, <4>3
    <3> QED
      BY <3>1, <3>2
  <2> QED
    BY <2>5, <2>6
<1>13. ASSUME NEW t \in Threads, LoadDatAbort(t)
      PROVE  Pending'
  <2>1. pc[t] = "put" /\ pc'[t] # "put" /\ \A u \in Threads \ {t} : pc'[u] = pc[u]
    BY <1>13 DEF LoadDatAbort, LoadDatReturn, Goto, TypeOK
  <2>2. \A u \in Threads : pc'[u] # "put"
    BY <2>1 DEF Transaction
  <2> QED
    BY <2>2 DEF Pending
<1>14. ASSUME NEW t \in Threads, LoadDatCommit(t)
      PROVE  Pending'
  <2>1. pc[t] = "put" /\ pc'[t] # "put" /\ \A u \in Threads \ {t} : pc'[u] = pc[u]
    BY <1>14 DEF LoadDatCommit, AllRead, LoadDatReturn, Goto, TypeOK
  <2>2. \A u \in Threads : pc'[u] # "put"
    BY <2>1 DEF Transaction
  <2> QED
    BY <2>2 DEF Pending
<1>15. ASSUME NEW t \in Threads, LoadDatCommitFails(t)
      PROVE  Pending'
  <2>1. pc[t] = "put" /\ pc'[t] # "put" /\ \A u \in Threads \ {t} : pc'[u] = pc[u]
    BY <1>15 DEF LoadDatCommitFails, AllRead, Goto, TypeOK
  <2>2. \A u \in Threads : pc'[u] # "put"
    BY <2>1 DEF Transaction
  <2> QED
    BY <2>2 DEF Pending
<1>16. ASSUME NEW t \in Threads, LoadDatAbortAgain(t)
      PROVE  Pending'
  <2>1. UNCHANGED <<db, dirty>> /\ pc'[t] # "put"
    BY <1>16 DEF LoadDatAbortAgain, LoadDatReturn, Goto, TypeOK, lmdb
  <2>2. \A u \in Threads \ {t} : /\ pc'[u] = pc[u] /\ dat'[u] = dat[u]
                                  /\ idx'[u] = idx[u] /\ failed'[u] = failed[u]
    BY <1>16 DEF LoadDatAbortAgain, LoadDatReturn, Goto, TypeOK, loading
  <2> QED
    BY <2>1, <2>2, PendingFrame
<1>17. ASSUME NEW t \in Threads, CheckLock(t)
      PROVE  Pending'
  <2>1. UNCHANGED <<db, dirty>> /\ pc'[t] # "put"
    BY <1>17 DEF CheckLock, Goto, TypeOK, lmdb
  <2>2. \A u \in Threads \ {t} : /\ pc'[u] = pc[u] /\ dat'[u] = dat[u]
                                  /\ idx'[u] = idx[u] /\ failed'[u] = failed[u]
    BY <1>17 DEF CheckLock, Goto, TypeOK, loading
  <2> QED
    BY <2>1, <2>2, PendingFrame
<1>18. ASSUME NEW t \in Threads, IsHashExist(t)
      PROVE  Pending'
  <2>1. UNCHANGED <<db, dirty>> /\ pc'[t] # "put"
    BY <1>18 DEF IsHashExist, Goto, TypeOK, lmdb
  <2>2. \A u \in Threads \ {t} : /\ pc'[u] = pc[u] /\ dat'[u] = dat[u]
                                  /\ idx'[u] = idx[u] /\ failed'[u] = failed[u]
    BY <1>18 DEF IsHashExist, Goto, TypeOK, loading
  <2> QED
    BY <2>1, <2>2, PendingFrame
<1>19. ASSUME NEW t \in Threads, Construct(t)
      PROVE  Pending'
  <2>1. UNCHANGED <<db, dirty>> /\ pc'[t] # "put"
    BY <1>19 DEF Construct, Goto, TypeOK, lmdb
  <2>2. \A u \in Threads \ {t} : /\ pc'[u] = pc[u] /\ dat'[u] = dat[u]
                                  /\ idx'[u] = idx[u] /\ failed'[u] = failed[u]
    BY <1>19 DEF Construct, Goto, TypeOK, loading
  <2> QED
    BY <2>1, <2>2, PendingFrame
<1>20. ASSUME NEW t \in Threads, CheckRansomware(t)
      PROVE  Pending'
  <2>1. UNCHANGED <<db, dirty>> /\ pc'[t] # "put"
    BY <1>20 DEF CheckRansomware, FetchFileHash, Goto, TypeOK, lmdb
  <2>2. \A u \in Threads \ {t} : /\ pc'[u] = pc[u] /\ dat'[u] = dat[u]
                                  /\ idx'[u] = idx[u] /\ failed'[u] = failed[u]
    BY <1>20 DEF CheckRansomware, FetchFileHash, Goto, TypeOK, loading
  <2> QED
    BY <2>1, <2>2, PendingFrame
<1>21. CASE Crash
  BY <1>21 DEF Crash, Pending
<1>22. CASE UNCHANGED vars
  BY <1>22 DEF Pending, Additions, vars, lmdb, loading
<1> QED
  BY <1>1, <1>2, <1>3, <1>4, <1>5, <1>6, <1>7, <1>8, <1>9, <1>10, <1>11, <1>12, <1>13, <1>14, <1>15, <1>16, <1>17, <1>18, <1>19, <1>20, <1>21, <1>22
  DEF Next, ThreadStep, InitStep, LoadStep

\* The library changes in one place of the code only.
LEMMA OnlyCommitsChange ==
  ASSUME [Next]_vars
  PROVE  UNCHANGED <<db, committed>> \/ \E c \in Threads : LoadDatCommit(c)
<1>1. ASSUME NEW t \in Threads, InitTest(t)
      PROVE  UNCHANGED <<db, committed>>
  BY <1>1 DEF InitTest, lmdb, events
<1>2. ASSUME NEW t \in Threads, InitEnvReset(t)
      PROVE  UNCHANGED <<db, committed>>
  BY <1>2 DEF InitEnvReset, lmdb, events
<1>3. ASSUME NEW t \in Threads, InitEnvTest(t)
      PROVE  UNCHANGED <<db, committed>>
  BY <1>3 DEF InitEnvTest, lmdb, events
<1>4. ASSUME NEW t \in Threads, InitEnvCreate(t)
      PROVE  UNCHANGED <<db, committed>>
  BY <1>4 DEF InitEnvCreate, lmdb, events
<1>5. ASSUME NEW t \in Threads, InitEnvOpen(t)
      PROVE  UNCHANGED <<db, committed>>
  BY <1>5 DEF InitEnvOpen, lmdb, events
<1>6. ASSUME NEW t \in Threads, InitEnvReturn(t)
      PROVE  UNCHANGED <<db, committed>>
  BY <1>6 DEF InitEnvReturn, lmdb, events
<1>7. ASSUME NEW t \in Threads, InitAssign(t)
      PROVE  UNCHANGED <<db, committed>>
  BY <1>7 DEF InitAssign, lmdb, events
<1>8. ASSUME NEW t \in Threads, LoadFetch(t)
      PROVE  UNCHANGED <<db, committed>>
  BY <1>8 DEF LoadFetch, lmdb, events
<1>9. ASSUME NEW t \in Threads, ClearLMDB(t)
      PROVE  UNCHANGED <<db, committed>>
  BY <1>9 DEF ClearLMDB, lmdb, events
<1>10. ASSUME NEW t \in Threads, LoadNext(t)
      PROVE  UNCHANGED <<db, committed>>
  BY <1>10 DEF LoadNext, lmdb, events
<1>11. ASSUME NEW t \in Threads, LoadDatBegin(t)
      PROVE  UNCHANGED <<db, committed>>
  BY <1>11 DEF LoadDatBegin, lmdb, events
<1>12. ASSUME NEW t \in Threads, LoadDatPut(t)
      PROVE  UNCHANGED <<db, committed>>
  BY <1>12 DEF LoadDatPut, lmdb, events
<1>13. ASSUME NEW t \in Threads, LoadDatAbort(t)
      PROVE  UNCHANGED <<db, committed>>
  BY <1>13 DEF LoadDatAbort, Abort, lmdb, events
<1>14. ASSUME NEW t \in Threads, LoadDatCommit(t)
      PROVE  \E c \in Threads : LoadDatCommit(c)
  BY <1>14
<1>15. ASSUME NEW t \in Threads, LoadDatCommitFails(t)
      PROVE  UNCHANGED <<db, committed>>
  BY <1>15 DEF LoadDatCommitFails, Abort, lmdb, events
<1>16. ASSUME NEW t \in Threads, LoadDatAbortAgain(t)
      PROVE  UNCHANGED <<db, committed>>
  BY <1>16 DEF LoadDatAbortAgain, lmdb, events
<1>17. ASSUME NEW t \in Threads, CheckLock(t)
      PROVE  UNCHANGED <<db, committed>>
  BY <1>17 DEF CheckLock, lmdb, events
<1>18. ASSUME NEW t \in Threads, IsHashExist(t)
      PROVE  UNCHANGED <<db, committed>>
  BY <1>18 DEF IsHashExist, lmdb, events
<1>19. ASSUME NEW t \in Threads, Construct(t)
      PROVE  UNCHANGED <<db, committed>>
  BY <1>19 DEF Construct, lmdb, events
<1>20. ASSUME NEW t \in Threads, CheckRansomware(t)
      PROVE  UNCHANGED <<db, committed>>
  BY <1>20 DEF CheckRansomware, lmdb, events
<1>21. CASE Crash
  BY <1>21 DEF Crash
<1>22. CASE UNCHANGED vars
  BY <1>22 DEF vars, lmdb, events
<1> QED
  BY <1>1, <1>2, <1>3, <1>4, <1>5, <1>6, <1>7, <1>8, <1>9, <1>10, <1>11, <1>12, <1>13, <1>14, <1>15, <1>16, <1>17, <1>18, <1>19, <1>20, <1>21, <1>22
  DEF Next, ThreadStep, InitStep, LoadStep

\* What a commit does to the library, key by key.
LEMMA CommitAdds ==
  ASSUME TypeOK, Transaction, Pending, NEW t \in Threads, LoadDatCommit(t), NEW k \in Keys
  PROVE  /\ dat[t] \in Files /\ dat[t] \in Intact /\ dat[t] # None
         /\ db'[k] = IF db[k] # None THEN db[k] ELSE IF Has(dat[t], k) THEN dat[t] ELSE None
<1>1. pc[t] = "put" /\ ~failed[t] /\ db' = dirty /\ idx[t] = Len(Content[dat[t]]) /\ dat[t] \in Intact
  BY DEF LoadDatCommit, AllRead
<1>2. dirty[k] = Additions(t, k)
  BY <1>1 DEF Pending
<1> QED
  BY <1>1, <1>2, LibraryAssumption DEF Additions, Has, Transaction

\* Whole files, the first one first: through a commit.
LEMMA LibraryPreserved ==
  ASSUME TypeOK, Transaction, Pending, WholeFilesFirstWins, OnlyIntact, [Next]_vars
  PROVE  WholeFilesFirstWins' /\ OnlyIntact'
<1>1. CASE UNCHANGED <<db, committed>>
  BY <1>1 DEF WholeFilesFirstWins, OnlyIntact, Has
<1>2. ASSUME NEW t \in Threads, LoadDatCommit(t)
      PROVE  WholeFilesFirstWins' /\ OnlyIntact'
  <2> DEFINE f == dat[t]
             n == Len(committed)
  <2>1. f \in Files /\ f \in Intact /\ f # None
    <3>1. pc[t] = "put" /\ f \in Intact
      BY <1>2 DEF LoadDatCommit, AllRead
    <3> QED
      BY <3>1, LibraryAssumption DEF Transaction
  <2>2. \A k \in Keys : db'[k] = IF db[k] # None THEN db[k] ELSE IF Has(f, k) THEN f ELSE None
    BY <1>2, CommitAdds
  <2>3. OnlyIntact'
    BY <2>1, <2>2 DEF OnlyIntact
  <2>4. /\ committed \in Seq(Files) /\ n \in Nat
        /\ \A i \in 1..n : committed[i] \in Files /\ committed[i] # None
    BY LibraryAssumption DEF TypeOK
  <2>5. CASE \E i \in 1..n : committed[i] = f
    <3>1. committed' = committed
      BY <1>2, <2>5 DEF LoadDatCommit
    <3>2. \A k \in Keys : Has(f, k) => db[k] # None
      BY <2>4, <2>5 DEF WholeFilesFirstWins
    <3>3. \A k \in Keys : db'[k] = db[k]
      BY <2>2, <3>2
    <3> QED
      BY <2>3, <3>1, <3>3 DEF WholeFilesFirstWins, Has
  <2>6. CASE ~\E i \in 1..n : committed[i] = f
    <3>1. committed' = Append(committed, f)
      BY <1>2, <2>6 DEF LoadDatCommit
    <3>2. /\ Len(committed') = n + 1 /\ committed'[n + 1] = f
          /\ \A i \in 1..n : committed'[i] = committed[i]
      BY <2>1, <2>4, <3>1
    <3> SUFFICES ASSUME NEW k \in Keys
                 PROVE  \/ db'[k] = None /\ \A i \in 1..Len(committed') : ~Has(committed'[i], k)
                        \/ \E i \in 1..Len(committed') :
                             /\ db'[k] = committed'[i] /\ Has(committed'[i], k)
                             /\ \A j \in 1..(i - 1) : ~Has(committed'[j], k)
      BY <2>3 DEF WholeFilesFirstWins, Has
    <3>3. CASE db[k] = None
      <4>1. \A i \in 1..n : ~Has(committed'[i], k)
        BY <2>4, <3>2, <3>3 DEF WholeFilesFirstWins
      <4>2. CASE Has(f, k)
        <5>1. db'[k] = committed'[n + 1] /\ Has(committed'[n + 1], k)
          BY <2>2, <3>2, <3>3, <4>2
        <5> QED
          BY <2>4, <3>2, <4>1, <5>1
      <4>3. CASE ~Has(f, k)
        <5>1. \A i \in 1..(n + 1) : ~Has(committed'[i], k)
          BY <2>4, <3>2, <4>1, <4>3
        <5> QED
          BY <2>2, <3>2, <3>3, <4>3, <5>1
      <4> QED
        BY <4>2, <4>3
    <3>4. CASE db[k] # None
      <4>1. PICK i \in 1..n : /\ db[k] = committed[i] /\ Has(committed[i], k)
                              /\ \A j \in 1..(i - 1) : ~Has(committed[j], k)
        BY <3>4 DEF WholeFilesFirstWins
      <4>2. db'[k] = committed'[i] /\ Has(committed'[i], k) /\ i \in 1..Len(committed')
        BY <2>2, <2>4, <3>2, <3>4, <4>1
      <4>3. \A j \in 1..(i - 1) : ~Has(committed'[j], k)
        BY <2>4, <3>2, <4>1
      <4> QED
        BY <4>2, <4>3
    <3> QED
      BY <3>3, <3>4
  <2> QED
    BY <2>5, <2>6
<1> QED
  BY <1>1, <1>2, OnlyCommitsChange

\* Nothing is taken out of the library and a committed file stays committed.
LEMMA LibraryGrows ==
  ASSUME TypeOK, Transaction, Pending, [Next]_vars
  PROVE  /\ \A k \in Keys : db[k] # None => db'[k] = db[k]
         /\ \A i \in 1..Len(committed) : i \in 1..Len(committed') /\ committed'[i] = committed[i]
<1>1. CASE UNCHANGED <<db, committed>>
  BY <1>1
<1>2. ASSUME NEW t \in Threads, LoadDatCommit(t)
      PROVE  /\ \A k \in Keys : db[k] # None => db'[k] = db[k]
             /\ \A i \in 1..Len(committed) : i \in 1..Len(committed') /\ committed'[i] = committed[i]
  <2>1. \A k \in Keys : db[k] # None => db'[k] = db[k]
    BY <1>2, CommitAdds
  <2>2. committed \in Seq(Files) /\ dat[t] \in Files
    BY <1>2 DEF TypeOK, LoadDatCommit, AllRead, Transaction
  <2> QED
    BY <1>2, <2>1, <2>2 DEF LoadDatCommit
<1> QED
  BY <1>1, <1>2, OnlyCommitsChange

\* What a lookup may rely on stays.
LEMMA KnownPreserved ==
  ASSUME TypeOK, Transaction, Pending, KnownStays, [Next]_vars
  PROVE  KnownStays'
<1>1. ASSUME NEW t \in Threads, InitTest(t)
      PROVE  KnownStays'
  <2>1. known' = known
    BY <1>1 DEF InitTest, lookup, events
  <2> QED
    BY <2>1, LibraryGrows DEF KnownStays
<1>2. ASSUME NEW t \in Threads, InitEnvReset(t)
      PROVE  KnownStays'
  <2>1. known' = known
    BY <1>2 DEF InitEnvReset, lookup, events
  <2> QED
    BY <2>1, LibraryGrows DEF KnownStays
<1>3. ASSUME NEW t \in Threads, InitEnvTest(t)
      PROVE  KnownStays'
  <2>1. known' = known
    BY <1>3 DEF InitEnvTest, lookup, events
  <2> QED
    BY <2>1, LibraryGrows DEF KnownStays
<1>4. ASSUME NEW t \in Threads, InitEnvCreate(t)
      PROVE  KnownStays'
  <2>1. known' = known
    BY <1>4 DEF InitEnvCreate, lookup, events
  <2> QED
    BY <2>1, LibraryGrows DEF KnownStays
<1>5. ASSUME NEW t \in Threads, InitEnvOpen(t)
      PROVE  KnownStays'
  <2>1. known' = known
    BY <1>5 DEF InitEnvOpen, lookup, events
  <2> QED
    BY <2>1, LibraryGrows DEF KnownStays
<1>6. ASSUME NEW t \in Threads, InitEnvReturn(t)
      PROVE  KnownStays'
  <2>1. known' = known
    BY <1>6 DEF InitEnvReturn, lookup, events
  <2> QED
    BY <2>1, LibraryGrows DEF KnownStays
<1>7. ASSUME NEW t \in Threads, InitAssign(t)
      PROVE  KnownStays'
  <2>1. known' = known
    BY <1>7 DEF InitAssign, GiveUp, lookup, events
  <2> QED
    BY <2>1, LibraryGrows DEF KnownStays
<1>8. ASSUME NEW t \in Threads, LoadFetch(t)
      PROVE  KnownStays'
  <2>1. known' = known
    BY <1>8 DEF LoadFetch, lookup, events
  <2> QED
    BY <2>1, LibraryGrows DEF KnownStays
<1>9. ASSUME NEW t \in Threads, ClearLMDB(t)
      PROVE  KnownStays'
  <2>1. known' = known
    BY <1>9 DEF ClearLMDB, lookup, events
  <2> QED
    BY <2>1, LibraryGrows DEF KnownStays
<1>10. ASSUME NEW t \in Threads, LoadNext(t)
      PROVE  KnownStays'
  <2>1. known' = known
    BY <1>10 DEF LoadNext, lookup, events
  <2> QED
    BY <2>1, LibraryGrows DEF KnownStays
<1>11. ASSUME NEW t \in Threads, LoadDatBegin(t)
      PROVE  KnownStays'
  <2>1. known' = known
    BY <1>11 DEF LoadDatBegin, LoadDatReturn, lookup, events
  <2> QED
    BY <2>1, LibraryGrows DEF KnownStays
<1>12. ASSUME NEW t \in Threads, LoadDatPut(t)
      PROVE  KnownStays'
  <2>1. known' = known
    BY <1>12 DEF LoadDatPut, Put, lookup, events
  <2> QED
    BY <2>1, LibraryGrows DEF KnownStays
<1>13. ASSUME NEW t \in Threads, LoadDatAbort(t)
      PROVE  KnownStays'
  <2>1. known' = known
    BY <1>13 DEF LoadDatAbort, Abort, LoadDatReturn, lookup, events
  <2> QED
    BY <2>1, LibraryGrows DEF KnownStays
<1>14. ASSUME NEW t \in Threads, LoadDatCommit(t)
      PROVE  KnownStays'
  <2>1. known' = known
    BY <1>14 DEF LoadDatCommit, AllRead, LoadDatReturn, lookup, events
  <2> QED
    BY <2>1, LibraryGrows DEF KnownStays
<1>15. ASSUME NEW t \in Threads, LoadDatCommitFails(t)
      PROVE  KnownStays'
  <2>1. known' = known
    BY <1>15 DEF LoadDatCommitFails, AllRead, Abort, lookup, events
  <2> QED
    BY <2>1, LibraryGrows DEF KnownStays
<1>16. ASSUME NEW t \in Threads, LoadDatAbortAgain(t)
      PROVE  KnownStays'
  <2>1. known' = known
    BY <1>16 DEF LoadDatAbortAgain, LoadDatReturn, lookup, events
  <2> QED
    BY <2>1, LibraryGrows DEF KnownStays
<1>17. ASSUME NEW t \in Threads, CheckLock(t)
      PROVE  KnownStays'
  <2>1. known' = [known EXCEPT ![t] = {k \in Keys : db[k] # None}] /\ db' = db
    BY <1>17 DEF CheckLock, lmdb
  <2> QED
    BY <2>1 DEF KnownStays, TypeOK
<1>18. ASSUME NEW t \in Threads, IsHashExist(t)
      PROVE  KnownStays'
  <2>1. known' = known
    BY <1>18 DEF IsHashExist, lookup, events
  <2> QED
    BY <2>1, LibraryGrows DEF KnownStays
<1>19. ASSUME NEW t \in Threads, Construct(t)
      PROVE  KnownStays'
  <2>1. known' = known
    BY <1>19 DEF Construct, lookup, events
  <2> QED
    BY <2>1, LibraryGrows DEF KnownStays
<1>20. ASSUME NEW t \in Threads, CheckRansomware(t)
      PROVE  KnownStays'
  <2>1. known' = known
    BY <1>20 DEF CheckRansomware, FetchFileHash, lookup, events
  <2> QED
    BY <2>1, LibraryGrows DEF KnownStays
<1>21. CASE Crash
  BY <1>21 DEF Crash, KnownStays
<1>22. CASE UNCHANGED vars
  BY <1>22 DEF KnownStays, vars, lmdb, lookup
<1> QED
  BY <1>1, <1>2, <1>3, <1>4, <1>5, <1>6, <1>7, <1>8, <1>9, <1>10, <1>11, <1>12, <1>13, <1>14, <1>15, <1>16, <1>17, <1>18, <1>19, <1>20, <1>21, <1>22
  DEF Next, ThreadStep, InitStep, LoadStep

\* A verdict that is neither `virus' nor `clean' promises nothing.
LEMMA VerdictFrame ==
  ASSUME TypeOK, Transaction, Pending, VerdictMatchesLibrary, [Next]_vars,
         \A u \in Threads : \/ answer'[u] \notin {"virus", "clean"}
                            \/ answer'[u] = answer[u] /\ key'[u] = key[u] /\ known'[u] = known[u]
  PROVE  VerdictMatchesLibrary'
<1>1. ASSUME NEW u \in Threads, answer'[u] = "virus"
      PROVE  \E i \in 1..Len(committed') : Has(committed'[i], key'[u])
  <2>1. answer[u] = "virus" /\ key'[u] = key[u]
    BY <1>1
  <2>2. PICK i \in 1..Len(committed) : Has(committed[i], key[u])
    BY <2>1 DEF VerdictMatchesLibrary
  <2> QED
    BY <2>1, <2>2, LibraryGrows
<1>2. ASSUME NEW u \in Threads, answer'[u] = "clean"
      PROVE  key'[u] \notin known'[u]
  BY <1>2 DEF VerdictMatchesLibrary
<1> QED
  BY <1>1, <1>2 DEF VerdictMatchesLibrary, Has

\* Answers match the library while it grows.
LEMMA VerdictPreserved ==
  ASSUME TypeOK, Transaction, Pending, Lookups, WholeFilesFirstWins, KnownStays,
         VerdictMatchesLibrary, [Next]_vars
  PROVE  VerdictMatchesLibrary'
<1>1. ASSUME NEW t \in Threads, InitTest(t)
      PROVE  VerdictMatchesLibrary'
  <2>1. UNCHANGED <<answer, key, known>>
    BY <1>1 DEF InitTest, lookup
  <2> QED
    BY <2>1, VerdictFrame
<1>2. ASSUME NEW t \in Threads, InitEnvReset(t)
      PROVE  VerdictMatchesLibrary'
  <2>1. UNCHANGED <<answer, key, known>>
    BY <1>2 DEF InitEnvReset, lookup
  <2> QED
    BY <2>1, VerdictFrame
<1>3. ASSUME NEW t \in Threads, InitEnvTest(t)
      PROVE  VerdictMatchesLibrary'
  <2>1. UNCHANGED <<answer, key, known>>
    BY <1>3 DEF InitEnvTest, lookup
  <2> QED
    BY <2>1, VerdictFrame
<1>4. ASSUME NEW t \in Threads, InitEnvCreate(t)
      PROVE  VerdictMatchesLibrary'
  <2>1. UNCHANGED <<answer, key, known>>
    BY <1>4 DEF InitEnvCreate, lookup
  <2> QED
    BY <2>1, VerdictFrame
<1>5. ASSUME NEW t \in Threads, InitEnvOpen(t)
      PROVE  VerdictMatchesLibrary'
  <2>1. UNCHANGED <<answer, key, known>>
    BY <1>5 DEF InitEnvOpen, lookup
  <2> QED
    BY <2>1, VerdictFrame
<1>6. ASSUME NEW t \in Threads, InitEnvReturn(t)
      PROVE  VerdictMatchesLibrary'
  <2>1. UNCHANGED <<answer, key, known>>
    BY <1>6 DEF InitEnvReturn, lookup
  <2> QED
    BY <2>1, VerdictFrame
<1>7. ASSUME NEW t \in Threads, InitAssign(t)
      PROVE  VerdictMatchesLibrary'
  <2>1. UNCHANGED <<key, known>> /\ \A u \in Threads : answer'[u] \in {answer[u], "error"}
    BY <1>7 DEF InitAssign, GiveUp, TypeOK
  <2> QED
    BY <2>1, VerdictFrame
<1>8. ASSUME NEW t \in Threads, LoadFetch(t)
      PROVE  VerdictMatchesLibrary'
  <2>1. UNCHANGED <<answer, key, known>>
    BY <1>8 DEF LoadFetch, lookup
  <2> QED
    BY <2>1, VerdictFrame
<1>9. ASSUME NEW t \in Threads, ClearLMDB(t)
      PROVE  VerdictMatchesLibrary'
  <2>1. UNCHANGED <<answer, key, known>>
    BY <1>9 DEF ClearLMDB, lookup
  <2> QED
    BY <2>1, VerdictFrame
<1>10. ASSUME NEW t \in Threads, LoadNext(t)
      PROVE  VerdictMatchesLibrary'
  <2>1. UNCHANGED <<answer, key, known>>
    BY <1>10 DEF LoadNext, lookup
  <2> QED
    BY <2>1, VerdictFrame
<1>11. ASSUME NEW t \in Threads, LoadDatBegin(t)
      PROVE  VerdictMatchesLibrary'
  <2>1. UNCHANGED <<answer, key, known>>
    BY <1>11 DEF LoadDatBegin, LoadDatReturn, lookup
  <2> QED
    BY <2>1, VerdictFrame
<1>12. ASSUME NEW t \in Threads, LoadDatPut(t)
      PROVE  VerdictMatchesLibrary'
  <2>1. UNCHANGED <<answer, key, known>>
    BY <1>12 DEF LoadDatPut, Put, lookup
  <2> QED
    BY <2>1, VerdictFrame
<1>13. ASSUME NEW t \in Threads, LoadDatAbort(t)
      PROVE  VerdictMatchesLibrary'
  <2>1. UNCHANGED <<answer, key, known>>
    BY <1>13 DEF LoadDatAbort, Abort, LoadDatReturn, lookup
  <2> QED
    BY <2>1, VerdictFrame
<1>14. ASSUME NEW t \in Threads, LoadDatCommit(t)
      PROVE  VerdictMatchesLibrary'
  <2>1. UNCHANGED <<answer, key, known>>
    BY <1>14 DEF LoadDatCommit, AllRead, LoadDatReturn, lookup
  <2> QED
    BY <2>1, VerdictFrame
<1>15. ASSUME NEW t \in Threads, LoadDatCommitFails(t)
      PROVE  VerdictMatchesLibrary'
  <2>1. UNCHANGED <<answer, key, known>>
    BY <1>15 DEF LoadDatCommitFails, AllRead, Abort, lookup
  <2> QED
    BY <2>1, VerdictFrame
<1>16. ASSUME NEW t \in Threads, LoadDatAbortAgain(t)
      PROVE  VerdictMatchesLibrary'
  <2>1. UNCHANGED <<answer, key, known>>
    BY <1>16 DEF LoadDatAbortAgain, LoadDatReturn, lookup
  <2> QED
    BY <2>1, VerdictFrame
<1>17. ASSUME NEW t \in Threads, CheckLock(t)
      PROVE  VerdictMatchesLibrary'
  <2>1. /\ UNCHANGED <<key, answer>> /\ answer[t] = "none"
        /\ \A u \in Threads : u # t => known'[u] = known[u]
    BY <1>17 DEF CheckLock, TypeOK, Lookups
  <2> QED
    BY <2>1, VerdictFrame
<1>18. ASSUME NEW t \in Threads, IsHashExist(t)
      PROVE  VerdictMatchesLibrary'
  <2>1. /\ UNCHANGED <<db, committed, key, known>>
        /\ \A u \in Threads : u # t => answer'[u] = answer[u]
    BY <1>18 DEF IsHashExist, TypeOK, lmdb
  <2>2. key[t] \in Keys /\ answer[t] = "none"
    BY <1>18 DEF IsHashExist, Lookups, Looking
  <2>3. answer'[t] \in {"none", "error", IF db[key[t]] # None THEN "virus" ELSE "clean"}
    BY <1>18, <2>2 DEF IsHashExist, TypeOK
  <2>4. CASE answer'[t] = "virus"
    <3>1. db[key[t]] # None
      BY <2>3, <2>4
    <3>2. PICK i \in 1..Len(committed) : Has(committed[i], key[t])
      BY <2>2, <3>1 DEF WholeFilesFirstWins
    <3> QED
      BY <2>1, <2>4, <3>2 DEF VerdictMatchesLibrary, Has
  <2>5. CASE answer'[t] = "clean"
    <3>1. db[key[t]] = None
      BY <2>3, <2>5
    <3>2. key[t] \notin known[t]
      BY <3>1 DEF KnownStays
    <3> QED
      BY <2>1, <2>5, <3>2 DEF VerdictMatchesLibrary, Has
  <2> QED
    BY <2>1, <2>3, <2>4, <2>5, VerdictFrame
<1>19. ASSUME NEW t \in Threads, Construct(t)
      PROVE  VerdictMatchesLibrary'
  <2>1. UNCHANGED <<answer, key, known>>
    BY <1>19 DEF Construct, lookup
  <2> QED
    BY <2>1, VerdictFrame
<1>20. ASSUME NEW t \in Threads, CheckRansomware(t)
      PROVE  VerdictMatchesLibrary'
  <2>1. known' = known /\ \A u \in Threads : u # t => answer'[u] = answer[u] /\ key'[u] = key[u]
    BY <1>20 DEF CheckRansomware, TypeOK
  <2>2. answer'[t] \in {"none", "error"}
    BY <1>20 DEF CheckRansomware, TypeOK
  <2> QED
    BY <2>1, <2>2, VerdictFrame
<1>21. CASE Crash
  BY <1>21 DEF Crash, VerdictMatchesLibrary
<1>22. CASE UNCHANGED vars
  BY <1>22 DEF VerdictMatchesLibrary, Has, vars, events, lookup
<1> QED
  BY <1>1, <1>2, <1>3, <1>4, <1>5, <1>6, <1>7, <1>8, <1>9, <1>10, <1>11, <1>12, <1>13, <1>14, <1>15, <1>16, <1>17, <1>18, <1>19, <1>20, <1>21, <1>22
  DEF Next, ThreadStep, InitStep, LoadStep

-----------------------------------------------------------------------------
(* The results.                                                              *)

\* The inductive invariant.
THEOREM Invariance == Spec => []IInv
<1>1. Init => IInv
  <2> SUFFICES ASSUME Init PROVE IInv
    OBVIOUS
  <2>0. db \in [Keys -> Files \cup {None}] /\ dirty \in [Keys -> Files \cup {None}] /\ committed \in Seq(Files)
    BY DEF Init, NewProcess, EmptyDb
  <2>1. TypeOK
    <3>1. /\ pc \in [Threads -> {"idle"}] /\ ret \in [Threads -> {"idle"}] /\ val \in [Threads -> BOOLEAN]
          /\ todo \in [Threads -> SUBSET Files] /\ dat \in [Threads -> Files \cup {None}]
      BY DEF Init, NewProcess
    <3>2. idx \in [Threads -> Nat] /\ failed \in [Threads -> BOOLEAN] /\ key \in [Threads -> Keys \cup {None}]
      BY DEF Init, NewProcess
    <3>3. /\ answer \in [Threads -> {"none", "virus", "clean", "error"}] /\ known \in [Threads -> SUBSET Keys]
      BY DEF Init, NewProcess
    <3>4. calls \in 0..MaxCalls /\ crashes \in 0..MaxCrash
      BY LibraryAssumption DEF Init
    <3> QED
      BY <2>0, <3>1, <3>2, <3>3, <3>4 DEF Init, NewProcess, TypeOK
  <2>2. Transaction /\ Lookups /\ Pending
    BY LibraryAssumption DEF Init, NewProcess, Transaction, Lookups, Looking, InInit, Pending
  <2>3. InitAlone
    BY DEF Init, NewProcess, InitAlone, InInit, Using
  <2>4. WholeFilesFirstWins /\ OnlyIntact
    BY DEF Init, EmptyDb, WholeFilesFirstWins, OnlyIntact
  <2>5. KnownStays /\ VerdictMatchesLibrary
    BY DEF Init, NewProcess, KnownStays, VerdictMatchesLibrary
  <2> QED
    BY <2>1, <2>2, <2>3, <2>4, <2>5 DEF IInv
<1>2. IInv /\ [Next]_vars => IInv'
  BY TypePreserved, TransactionPreserved, LookupsPreserved, InitAlonePreserved, PendingPreserved,
     LibraryPreserved, KnownPreserved, VerdictPreserved
  DEF IInv
<1> QED
  BY <1>1, <1>2, PTL DEF Spec

\* Every variable keeps its type, for any number of threads, files and calls.
THEOREM TypeCorrect == Spec => []TypeOK
<1>1. IInv => TypeOK
  BY DEF IInv
<1> QED
  BY <1>1, Invariance, PTL

\* Files are in the library whole or not at all, and of two files with the same hash the
\* first one committed provides the record, whoever loads and whenever the process dies.
THEOREM LibraryIsWhole == Spec => []WholeFilesFirstWins
<1>1. IInv => WholeFilesFirstWins
  BY DEF IInv
<1> QED
  BY <1>1, Invariance, PTL

\* Only files whose sum is right get into the library.
THEOREM LibraryIsIntact == Spec => []OnlyIntact
<1>1. IInv => OnlyIntact
  BY DEF IInv
<1> QED
  BY <1>1, Invariance, PTL

\* The environment is open whenever it is used, unless two threads were in Init together.
THEOREM EnvironmentOpen == Spec => []EnvOpenWhenUsed
<1>1. IInv => EnvOpenWhenUsed
  BY DEF IInv, InitAlone, Using, EnvOpenWhenUsed
<1> QED
  BY <1>1, Invariance, PTL

\* No path keeps the write transaction or m_Mutex.
THEOREM NothingIsLeaked == Spec => []NothingLeaked
<1>1. IInv => NothingLeaked
  BY DEF IInv, TypeOK, Transaction, Lookups, Looking, NothingLeaked
<1> QED
  BY <1>1, Invariance, PTL

\* The library becomes unusable only by a failed mdb_env_open or by a race in Init.
THEOREM LibraryUsable == Spec => []UsableUnlessRaced
<1>1. IInv => UsableUnlessRaced
  BY DEF IInv, TypeOK, InitAlone, InInit, UsableUnlessRaced
<1> QED
  BY <1>1, Invariance, PTL

\* `virus' and `clean' are right answers while other threads load.
THEOREM VerdictsRight == Spec => []VerdictMatchesLibrary
<1>1. IInv => VerdictMatchesLibrary
  BY DEF IInv
<1> QED
  BY <1>1, Invariance, PTL

\* Nothing is ever taken out of the library or replaced in it, by any thread, by an error
\* path or by the death of the process (MDB_NOOVERWRITE, LoadDat 448).
NeverOverwritten == [][\A k \in Keys : db[k] # None => db'[k] = db[k]]_vars

\* What is in the library stays there, with the file it came from.
THEOREM LibraryOnlyGrows == Spec => NeverOverwritten
<1>1. IInv /\ [Next]_vars => [\A k \in Keys : db[k] # None => db'[k] = db[k]]_vars
  BY LibraryGrows DEF IInv
<1> QED
  BY <1>1, Invariance, PTL DEF Spec, NeverOverwritten
=============================================================================
