------------------------------- MODULE PECache -------------------------------
(***************************************************************************)
(* The cache of scanned files: PECacheHelper over the hash table of          *)
(* HashHelper, used by threads that walk folders (GetFileListByFolder).      *)
(* For every PE file a thread asks the cache and inserts the file if it is   *)
(* not there.  A bucket is searched under ListMutex; an item is linked and   *)
(* counted after the mutex has been released.  The walk has no caller at     *)
(* present: its call from the thread pool is commented out (FileScanFun.cpp  *)
(* 57-71).                                                                   *)
(*                                                                         *)
(* The module follows the pointers of one bucket, whose keys all have the    *)
(* same hash; buckets share nothing but the mutex and the counter.  A key is *)
(* a path with a size and a time.                                            *)
(***************************************************************************)
EXTENDS Integers, FiniteSets

CONSTANTS Threads,    \* threads that walk folders
          Keys,
          MaxItems    \* bound: items linked since the program started

ASSUME PECacheAssumption == MaxItems \in Nat

Head == 0            \* the address of hash_list[index]
Null == -1
Items == 1..MaxItems
Nodes == {Head} \cup Items

VARIABLES
  ready,       \* bucket_count # 0 and hash_list # NULL
  next, prev,  \* the pointers of the nodes
  itemKey,     \* the key of an item
  used,        \* items taken from the heap
  item_count,
  lock,        \* who holds ListMutex
  pc, key, entry, tail, item, count,   \* of each thread: where it is, locals
  inserted,    \* history: keys inserted (TRUE returned) since the table is new
  overlap      \* history: two inserts have overlapped

table == <<ready, next, prev, itemKey, used, item_count>>
locals == <<key, entry, tail, item, count>>
history == <<inserted, overlap>>
vars == <<table, lock, pc, locals, history>>

Nobody == "nobody"

\* The globals are zero: no table yet.
Init ==
  /\ ready = FALSE
  /\ next = [n \in Nodes |-> Null] /\ prev = [n \in Nodes |-> Null]
  /\ itemKey = [i \in Items |-> Null]
  /\ used = 0 /\ item_count = 0
  /\ lock = Nobody
  /\ pc = [t \in Threads |-> "idle"] /\ key = [t \in Threads |-> Null]
  /\ entry = [t \in Threads |-> Null] /\ tail = [t \in Threads |-> Null]
  /\ item = [t \in Threads |-> Null] /\ count = [t \in Threads |-> 0]
  /\ inserted = {} /\ overlap = FALSE

At(t, l, k) == pc[t] = l /\ pc' = [pc EXCEPT ![t] = k]

Finish(t, l) ==
  /\ At(t, l, "idle")
  /\ key' = [key EXCEPT ![t] = Null] /\ entry' = [entry EXCEPT ![t] = Null]
  /\ tail' = [tail EXCEPT ![t] = Null] /\ item' = [item EXCEPT ![t] = Null]
  /\ count' = [count EXCEPT ![t] = 0]

-----------------------------------------------------------------------------
(* PE_CACHE_Init, in the constructor that EnableScanFileFunction calls when   *)
(* the object's pointer happens to be NULL.  The dispatch thread calls it     *)
(* before a scan and waits for the scan's threads.  It makes a new table over *)
(* the old one, which is not freed, and leaves item_count as it is.           *)
(* PE_CACHE_Clear_AllCache never clears anything: nothing sets bInit.         *)

PE_CACHE_Init ==
  /\ \A t \in Threads : pc[t] = "idle"
  /\ \/ /\ ready' = TRUE
        /\ next' = [next EXCEPT ![Head] = Head]
        /\ prev' = [prev EXCEPT ![Head] = Head]
     \/ ready' = FALSE /\ UNCHANGED <<next, prev>>
  /\ inserted' = {}
  /\ UNCHANGED <<itemKey, used, item_count, lock, pc, locals, overlap>>

-----------------------------------------------------------------------------
(* GetFileListByFolder, for one file.                                         *)

\* CheckIsPEFile and GetFileInfoEx.  When the latter fails, size and time are
\* what was on the stack, so the key may be any; a size or time of 0 makes
\* Query return a status that counts as found, and the file is done.
GetFileInfoEx(t) ==
  /\ At(t, "idle", "query")
  /\ \E k \in Keys : key' = [key EXCEPT ![t] = k]
  /\ UNCHANGED <<table, lock, entry, tail, item, count, history>>

\* hashtb_query_item.  Without buckets it finds nothing, and insert fails.
QueryLock(t) ==
  /\ \/ /\ ready /\ lock = Nobody
        /\ At(t, "query", "qwalk")
        /\ lock' = t
        /\ entry' = [entry EXCEPT ![t] = next[Head]]
        /\ UNCHANGED <<key, tail, item, count>>
     \/ ~ready /\ Finish(t, "query") /\ UNCHANGED lock
  /\ UNCHANGED <<table, history>>

\* A NULL entry ends the search as well.
QueryWalk(t) ==
  /\ \/ /\ entry[t] \in {Head, Null} /\ At(t, "qwalk", "insert")
        /\ lock' = Nobody
        /\ entry' = [entry EXCEPT ![t] = Null]
        /\ UNCHANGED <<key, tail, item, count>>
     \/ /\ entry[t] \in Items /\ itemKey[entry[t]] = key[t]
        /\ Finish(t, "qwalk")
        /\ lock' = Nobody
     \/ /\ entry[t] \in Items /\ itemKey[entry[t]] # key[t]
        /\ At(t, "qwalk", "qwalk")
        /\ entry' = [entry EXCEPT ![t] = next[entry[t]]]
        /\ UNCHANGED <<lock, key, tail, item, count>>
  /\ UNCHANGED <<table, history>>

-----------------------------------------------------------------------------
(* PE_CACHE_insert.                                                           *)

Inserting ==
  {t \in Threads : pc[t] \in {"iwalk", "tail", "item", "forward", "back", "load", "store"}}

\* __createPECacheItem, and the lock of __hashtb_insert_item.
InsertLock(t) ==
  /\ used < MaxItems /\ lock = Nobody
  /\ At(t, "insert", "iwalk")
  /\ lock' = t
  /\ used' = used + 1
  /\ item' = [item EXCEPT ![t] = used + 1]
  /\ itemKey' = [itemKey EXCEPT ![used + 1] = key[t]]
  /\ entry' = [entry EXCEPT ![t] = next[Head]]
  /\ overlap' = (overlap \/ Inserting # {})
  /\ UNCHANGED <<ready, next, prev, item_count, key, tail, count, inserted>>

\* Seeded fault: insert relies on the query before it and does not search.
InsertNoSearch(t) ==
  /\ At(t, "iwalk", "tail")
  /\ lock' = Nobody
  /\ entry' = [entry EXCEPT ![t] = Null]
  /\ UNCHANGED <<table, key, tail, item, count, history>>

\* The search; an item that is not used is not freed.
InsertWalk(t) ==
  /\ \/ /\ entry[t] = Head /\ At(t, "iwalk", "tail")
        /\ lock' = Nobody
        /\ entry' = [entry EXCEPT ![t] = Null]
        /\ UNCHANGED <<key, tail, item, count>>
     \/ /\ entry[t] \in Items /\ itemKey[entry[t]] = key[t]
        /\ Finish(t, "iwalk")
        /\ lock' = Nobody
     \/ /\ entry[t] \in Items /\ itemKey[entry[t]] # key[t]
        /\ At(t, "iwalk", "iwalk")
        /\ entry' = [entry EXCEPT ![t] = next[entry[t]]]
        /\ UNCHANGED <<lock, key, tail, item, count>>
  /\ UNCHANGED <<table, history>>

\* __list_add_tail, without the mutex: LIST_HEAD * prev = (head)->prev
LinkTail(t) ==
  /\ At(t, "tail", "item")
  /\ tail' = [tail EXCEPT ![t] = prev[Head]]
  /\ UNCHANGED <<table, lock, key, entry, item, count, history>>

\* Seeded fault: the item's next pointer is not set.
LinkOnlyPrev(t) ==
  /\ At(t, "item", "forward")
  /\ prev' = [prev EXCEPT ![item[t]] = tail[t]]
  /\ UNCHANGED <<ready, next, itemKey, used, item_count, lock, locals, history>>

\* (item)->next = (head); (item)->prev = prev
LinkItem(t) ==
  /\ At(t, "item", "forward")
  /\ next' = [next EXCEPT ![item[t]] = Head]
  /\ prev' = [prev EXCEPT ![item[t]] = tail[t]]
  /\ UNCHANGED <<ready, itemKey, used, item_count, lock, locals, history>>

\* prev->next = (item)
LinkForward(t) ==
  /\ At(t, "forward", "back")
  /\ next' = [next EXCEPT ![tail[t]] = item[t]]
  /\ UNCHANGED <<ready, prev, itemKey, used, item_count, lock, locals, history>>

\* (head)->prev = (item)
LinkBack(t) ==
  /\ At(t, "back", "load")
  /\ prev' = [prev EXCEPT ![Head] = item[t]]
  /\ UNCHANGED <<ready, next, itemKey, used, item_count, lock, locals, history>>

\* table->item_count++, a read ...
CountLoad(t) ==
  /\ At(t, "load", "store")
  /\ count' = [count EXCEPT ![t] = item_count]
  /\ UNCHANGED <<table, lock, key, entry, tail, item, history>>

\* ... and a write; insert returns TRUE.
CountStore(t) ==
  /\ Finish(t, "store")
  /\ item_count' = count[t] + 1
  /\ inserted' = inserted \cup {key[t]}
  /\ UNCHANGED <<ready, next, prev, itemKey, used, lock, overlap>>

-----------------------------------------------------------------------------

Scan(t) ==
  \/ GetFileInfoEx(t) \/ QueryLock(t) \/ QueryWalk(t)
  \/ InsertLock(t) \/ InsertWalk(t)
  \/ LinkTail(t) \/ LinkItem(t) \/ LinkForward(t) \/ LinkBack(t)
  \/ CountLoad(t) \/ CountStore(t)

Next == PE_CACHE_Init \/ \E t \in Threads : Scan(t)

Spec == Init /\ [][Next]_vars

-----------------------------------------------------------------------------
(* Properties.                                                                *)

\* Where a search that stands on s now is after n steps along the pointers as
\* they are; at the head it stays.
Path(s) ==
  LET at[n \in 0..MaxItems] ==
        IF n = 0 THEN s
        ELSE IF at[n - 1] \in {Head, Null} THEN at[n - 1] ELSE next[at[n - 1]]
  IN  at

Behind == Path(next[Head])

Chain == {Behind[n] : n \in 0..MaxItems} \cap Items

(* Every search of the bucket ends, at the head and not at a NULL pointer,    *)
(* however the unlocked links of several threads interleave: one that starts   *)
(* now, and one that is under way, also when it stands on an item that         *)
(* another thread's link has cut off.  An item is complete before it can be    *)
(* reached, and leads back to the head for good.  So items may be lost, but    *)
(* no thread searches for ever or through a wild pointer while it holds        *)
(* ListMutex (HashHelper.h 16-23, HashHelper.cpp 208-218, 268-279).            *)
SearchesEnd ==
  ready =>
    /\ Behind[MaxItems] = Head
    /\ \A t \in Threads :
         pc[t] \in {"qwalk", "iwalk"} => Path(entry[t])[MaxItems] = Head

(* While no two inserts have overlapped, the bucket is a doubly linked list   *)
(* of exactly the keys that were inserted, each once, although a key may be   *)
(* inserted between another thread's query and its insert (HashHelper.cpp     *)
(* 207-236).                                                                  *)
CacheExact ==
  ready /\ ~overlap /\ Inserting = {} =>
    /\ {itemKey[i] : i \in Chain} = inserted
    /\ Cardinality(Chain) = Cardinality(inserted)
    /\ \A n \in Chain \cup {Head} : prev[next[n]] = n /\ next[prev[n]] = n
=============================================================================
