---------------------------- MODULE PECacheProofs ----------------------------
(***************************************************************************)
(* Proofs about PECache, for any number of threads, keys and items and every *)
(* interleaving of their searches and of the links they set without the      *)
(* mutex.                                                                    *)
(***************************************************************************)
EXTENDS PECache, FiniteSetTheorems, TLAPS

(* The inductive invariants, in parts.                                       *)

Labels ==
  {"idle", "query", "qwalk", "insert", "iwalk", "tail", "item", "forward", "back", "load", "store"}

Types ==
  /\ ready \in BOOLEAN /\ overlap \in BOOLEAN
  /\ next \in [Nodes -> Nodes \cup {Null}] /\ prev \in [Nodes -> Nodes \cup {Null}]
  /\ itemKey \in [Items -> Keys \cup {Null}]
  /\ used \in 0..MaxItems /\ item_count \in Nat
  /\ pc \in [Threads -> Labels] /\ key \in [Threads -> Keys \cup {Null}]
  /\ entry \in [Threads -> Nodes \cup {Null}] /\ tail \in [Threads -> Nodes \cup {Null}]
  /\ item \in [Threads -> Items \cup {Null}] /\ count \in [Threads -> Nat]

\* A thread searches or inserts only when there is a table; an inserting thread has an
\* item of its own, with its key.
Owners ==
  /\ \A t \in Threads : pc[t] \notin {"idle", "query"} => ready
  /\ \A t \in Threads : pc[t] # "idle" => key[t] \in Keys
  /\ \A t \in Inserting : item[t] \in 1..used /\ itemKey[item[t]] = key[t]
  /\ \A t, u \in Inserting : item[t] = item[u] => t = u

\* A node whose next pointer is set.
Complete(n) == n \in Nodes /\ (n \in Items => next[n] # Null)

\* Whatever a pointer leads to is complete: the pointers of the bucket and the locals of
\* the threads that search or link.
NoWildPointer ==
  /\ \A n \in Nodes : next[n] = Null \/ Complete(next[n])
  /\ ready => next[Head] # Null /\ Complete(prev[Head])
  /\ \A t \in Threads : pc[t] \in {"qwalk", "iwalk"} => Complete(entry[t])
  /\ \A t \in Threads : pc[t] \in {"item", "forward"} => Complete(tail[t])
  /\ \A t \in Threads : pc[t] \in {"forward", "back", "load", "store"} => Complete(item[t])

\* Items that have not been given a rank.
Unranked(f) == {i \in Items : f[i] = 0}

\* An item is ranked when its thread reads the tail: next pointers lead to higher ranks,
\* and the ranks in use leave one for every item without.
Ranks(f) ==
  /\ f[Head] = 0
  /\ \A n \in Nodes : f[n] + Cardinality(Unranked(f)) <= MaxItems
  /\ \A i \in Items : f[i] = 0 => next[i] = Null
  /\ \A i \in Items : i > used => f[i] = 0
  /\ \A n \in Nodes : next[n] \in Items => f[n] < f[next[n]]
  /\ \A t \in Threads : pc[t] \in {"iwalk", "tail"} => f[item[t]] = 0
  /\ \A t \in Threads : pc[t] \in {"item", "forward"} => f[tail[t]] < f[item[t]]

Ordered == \E f \in [Nodes -> 0..MaxItems] : Ranks(f)

-----------------------------------------------------------------------------
(* The bucket while no inserts overlap.                                      *)

\* The nodes of C and the head form a ring under the pointers nx and pv.
Ring(nx, pv, C) ==
  \A n \in C \cup {Head} :
    /\ nx[n] \in C \cup {Head} /\ pv[n] \in C \cup {Head}
    /\ pv[nx[n]] = n /\ nx[pv[n]] = n

\* C holds the inserted keys and those of more, each once.
Tally(C, more) ==
  /\ {itemKey[c] : c \in C} = inserted \cup more
  /\ IsFiniteSet(inserted)
  /\ Cardinality(C) = Cardinality(inserted) + Cardinality(more)

\* The nodes that t has left behind in its search are those from the head to its entry.
Searched(t, V) ==
  /\ \A v \in V : v \in Items /\ itemKey[v] # key[t]
  /\ \A n \in V \cup {Head} : next[n] \in V \cup {entry[t]}

\* How far the insert of t has come.
Progress(t, C) ==
  /\ pc[t] \in {"iwalk", "tail", "item", "forward"} => Ring(next, prev, C)
  /\ pc[t] \in {"iwalk", "tail", "item", "forward", "back"} => item[t] \notin C /\ Tally(C, {})
  /\ pc[t] = "iwalk" => \E V \in SUBSET Items : Searched(t, V)
  /\ pc[t] \in {"tail", "item", "forward", "back"} => \A c \in C : itemKey[c] # key[t]
  /\ pc[t] \in {"item", "forward", "back"} => tail[t] = prev[Head]
  /\ pc[t] \in {"forward", "back"} => next[item[t]] = Head /\ prev[item[t]] = tail[t]
  /\ pc[t] = "back" =>
       /\ tail[t] \in C \cup {Head} /\ next[tail[t]] = item[t]
       /\ Ring([next EXCEPT ![tail[t]] = Head], prev, C)
  /\ pc[t] \in {"load", "store"} => Ring(next, prev, C) /\ Tally(C, {key[t]}) /\ key[t] \notin inserted

\* While no inserts have overlapped the bucket is a ring of the inserted items, but for the
\* one item that is being linked.
Bucket(C) ==
  /\ C \subseteq 1..used
  /\ Inserting = {} => Ring(next, prev, C) /\ Tally(C, {})
  /\ \A t \in Inserting : Inserting = {t} /\ Progress(t, C)

Serial == ready /\ ~overlap => \E C \in SUBSET Items : Bucket(C)

IInv == Types /\ Owners /\ NoWildPointer /\ Ordered /\ Serial

-----------------------------------------------------------------------------
(* The steps of a search.                                                    *)

\* A query finds the table and starts.
Begin(t) ==
  /\ ready /\ At(t, "query", "qwalk")
  /\ entry' = [entry EXCEPT ![t] = next[Head]]
  /\ UNCHANGED <<table, history, key, tail, item, count>>

\* There is no table, or the key is found: the file is done.
Return(t) ==
  /\ pc[t] \in {"query", "qwalk", "iwalk"} /\ Finish(t, pc[t])
  /\ UNCHANGED <<table, history>>

\* On to the next entry.
Go(t) ==
  /\ pc[t] \in {"qwalk", "iwalk"} /\ pc' = pc
  /\ entry[t] \in Items /\ itemKey[entry[t]] # key[t]
  /\ entry' = [entry EXCEPT ![t] = next[entry[t]]]
  /\ UNCHANGED <<table, history, key, tail, item, count>>

\* The query has not found the key ...
QueryMiss(t) ==
  /\ At(t, "qwalk", "insert")
  /\ entry' = [entry EXCEPT ![t] = Null]
  /\ UNCHANGED <<table, history, key, tail, item, count>>

\* ... and the insert has not found it.
InsertMiss(t) ==
  /\ entry[t] = Head /\ At(t, "iwalk", "tail")
  /\ entry' = [entry EXCEPT ![t] = Null]
  /\ UNCHANGED <<table, history, key, tail, item, count>>

\* These are the steps of query and of the search of insert.
LEMMA SearchSteps ==
  ASSUME Types, NEW t \in Threads, QueryLock(t) \/ QueryWalk(t) \/ InsertWalk(t)
  PROVE  Begin(t) \/ Return(t) \/ Go(t) \/ QueryMiss(t) \/ InsertMiss(t)
<1>1. CASE QueryLock(t)
  BY <1>1 DEF QueryLock, Begin, Return, At, Finish
<1>2. CASE QueryWalk(t)
  <2>1. CASE entry[t] \in {Head, Null} /\ At(t, "qwalk", "insert") /\ entry' = [entry EXCEPT ![t] = Null]
             /\ UNCHANGED <<key, tail, item, count>>
    BY <1>2, <2>1 DEF QueryWalk, QueryMiss
  <2>2. CASE Finish(t, "qwalk")
    BY <1>2, <2>2 DEF QueryWalk, Return, Finish, At
  <2>3. CASE entry[t] \in Items /\ itemKey[entry[t]] # key[t] /\ At(t, "qwalk", "qwalk")
             /\ entry' = [entry EXCEPT ![t] = next[entry[t]]] /\ UNCHANGED <<key, tail, item, count>>
    <3>1. pc' = pc /\ pc[t] \in {"qwalk", "iwalk"}
      BY <2>3 DEF At, Types
    <3> QED
      BY <1>2, <2>3, <3>1 DEF QueryWalk, Go
  <2> QED
    BY <1>2, <2>1, <2>2, <2>3 DEF QueryWalk
<1>3. CASE InsertWalk(t)
  <2>1. CASE entry[t] = Head /\ At(t, "iwalk", "tail") /\ entry' = [entry EXCEPT ![t] = Null]
             /\ UNCHANGED <<key, tail, item, count>>
    BY <1>3, <2>1 DEF InsertWalk, InsertMiss
  <2>2. CASE Finish(t, "iwalk")
    BY <1>3, <2>2 DEF InsertWalk, Return, Finish, At
  <2>3. CASE entry[t] \in Items /\ itemKey[entry[t]] # key[t] /\ At(t, "iwalk", "iwalk")
             /\ entry' = [entry EXCEPT ![t] = next[entry[t]]] /\ UNCHANGED <<key, tail, item, count>>
    <3>1. pc' = pc /\ pc[t] \in {"qwalk", "iwalk"}
      BY <2>3 DEF At, Types
    <3> QED
      BY <1>3, <2>3, <3>1 DEF InsertWalk, Go
  <2> QED
    BY <1>3, <2>1, <2>2, <2>3 DEF InsertWalk
<1> QED
  BY <1>1, <1>2, <1>3

\* A step of the system, by cases.
LEMMA StepCases ==
  ASSUME Types, Next
  PROVE  \/ PE_CACHE_Init
         \/ \E t \in Threads :
              \/ GetFileInfoEx(t) \/ Begin(t) \/ Return(t) \/ Go(t) \/ QueryMiss(t) \/ InsertMiss(t)
              \/ InsertLock(t) \/ LinkTail(t) \/ LinkItem(t) \/ LinkForward(t) \/ LinkBack(t)
              \/ CountLoad(t) \/ CountStore(t)
<1>1. CASE PE_CACHE_Init
  BY <1>1
<1>2. ASSUME NEW t \in Threads, Scan(t)
      PROVE  \/ GetFileInfoEx(t) \/ Begin(t) \/ Return(t) \/ Go(t) \/ QueryMiss(t) \/ InsertMiss(t)
             \/ InsertLock(t) \/ LinkTail(t) \/ LinkItem(t) \/ LinkForward(t) \/ LinkBack(t)
             \/ CountLoad(t) \/ CountStore(t)
  BY <1>2, SearchSteps DEF Scan
<1> QED
  BY <1>1, <1>2 DEF Next

-----------------------------------------------------------------------------
(* Types and owners.                                                         *)

\* Items are positive numbers; the head and NULL are neither.
LEMMA Addresses ==
  /\ MaxItems \in Nat /\ Items = 1..MaxItems /\ Items \subseteq Nat
  /\ Nodes = {Head} \cup Items /\ Items \subseteq Nodes /\ Head \in Nodes
  /\ Head \notin Items /\ Null \notin Nodes /\ Null \notin Items /\ Null # Head
BY PECacheAssumption DEF Items, Nodes, Head, Null

\* Types are kept by every step.
LEMMA TypesKept ==
  ASSUME Types, Next
  PROVE  Types'
<1> USE Addresses DEF Types, table, locals, history, At, Finish, Labels
<1>1. CASE PE_CACHE_Init
  BY <1>1 DEF PE_CACHE_Init
<1>2. ASSUME NEW t \in Threads, GetFileInfoEx(t)
      PROVE  Types'
  BY <1>2 DEF GetFileInfoEx
<1>3. ASSUME NEW t \in Threads, Begin(t)
      PROVE  Types'
  BY <1>3 DEF Begin
<1>4. ASSUME NEW t \in Threads, Return(t)
      PROVE  Types'
  BY <1>4 DEF Return
<1>5. ASSUME NEW t \in Threads, Go(t)
      PROVE  Types'
  BY <1>5 DEF Go
<1>6. ASSUME NEW t \in Threads, QueryMiss(t)
      PROVE  Types'
  BY <1>6 DEF QueryMiss
<1>7. ASSUME NEW t \in Threads, InsertMiss(t)
      PROVE  Types'
  BY <1>7 DEF InsertMiss
<1>8. ASSUME NEW t \in Threads, InsertLock(t)
      PROVE  Types'
  BY <1>8 DEF InsertLock
<1>9. ASSUME NEW t \in Threads, LinkTail(t)
      PROVE  Types'
  BY <1>9 DEF LinkTail
<1>10. ASSUME NEW t \in Threads, LinkItem(t)
       PROVE  Types'
  BY <1>10 DEF LinkItem
<1>11. ASSUME NEW t \in Threads, LinkForward(t)
       PROVE  Types'
  BY <1>11 DEF LinkForward
<1>12. ASSUME NEW t \in Threads, LinkBack(t)
       PROVE  Types'
  BY <1>12 DEF LinkBack
<1>13. ASSUME NEW t \in Threads, CountLoad(t)
       PROVE  Types'
  BY <1>13 DEF CountLoad
<1>14. ASSUME NEW t \in Threads, CountStore(t)
       PROVE  Types'
  BY <1>14 DEF CountStore
<1> QED
  BY <1>1, <1>2, <1>3, <1>4, <1>5, <1>6, <1>7, <1>8, <1>9, <1>10, <1>11, <1>12, <1>13, <1>14, StepCases

\* Every step keeps the owners of items.
LEMMA OwnersKept ==
  ASSUME Types, Owners, Next
  PROVE  Owners'
<1> USE Addresses DEF Types, Owners, table, locals, history, At, Finish, Inserting
<1>1. CASE PE_CACHE_Init
  BY <1>1 DEF PE_CACHE_Init
<1>2. ASSUME NEW t \in Threads, GetFileInfoEx(t)
      PROVE  Owners'
  BY <1>2 DEF GetFileInfoEx
<1>3. ASSUME NEW t \in Threads, Begin(t)
      PROVE  Owners'
  BY <1>3 DEF Begin
<1>4. ASSUME NEW t \in Threads, Return(t)
      PROVE  Owners'
  BY <1>4 DEF Return
<1>5. ASSUME NEW t \in Threads, Go(t)
      PROVE  Owners'
  BY <1>5 DEF Go
<1>6. ASSUME NEW t \in Threads, QueryMiss(t)
      PROVE  Owners'
  BY <1>6 DEF QueryMiss
<1>7. ASSUME NEW t \in Threads, InsertMiss(t)
      PROVE  Owners'
  BY <1>7 DEF InsertMiss
<1>8. ASSUME NEW t \in Threads, InsertLock(t)
      PROVE  Owners'
  BY <1>8 DEF InsertLock
<1>9. ASSUME NEW t \in Threads, LinkTail(t)
      PROVE  Owners'
  BY <1>9 DEF LinkTail
<1>10. ASSUME NEW t \in Threads, LinkItem(t)
       PROVE  Owners'
  BY <1>10 DEF LinkItem
<1>11. ASSUME NEW t \in Threads, LinkForward(t)
       PROVE  Owners'
  BY <1>11 DEF LinkForward
<1>12. ASSUME NEW t \in Threads, LinkBack(t)
       PROVE  Owners'
  BY <1>12 DEF LinkBack
<1>13. ASSUME NEW t \in Threads, CountLoad(t)
       PROVE  Owners'
  BY <1>13 DEF CountLoad
<1>14. ASSUME NEW t \in Threads, CountStore(t)
       PROVE  Owners'
  BY <1>14 DEF CountStore
<1> QED
  BY <1>1, <1>2, <1>3, <1>4, <1>5, <1>6, <1>7, <1>8, <1>9, <1>10, <1>11, <1>12, <1>13, <1>14, StepCases

-----------------------------------------------------------------------------
(* Pointers lead to complete nodes.                                          *)

\* Every step keeps the pointers from running wild.
LEMMA NoWildPointerKept ==
  ASSUME Types, Owners, NoWildPointer, Next
  PROVE  NoWildPointer'
<1> USE Addresses DEF Types, Owners, NoWildPointer, Complete, table, locals, history, At, Finish, Inserting
<1>1. CASE PE_CACHE_Init
  <2>1. CASE ready' = TRUE /\ next' = [next EXCEPT ![Head] = Head] /\ prev' = [prev EXCEPT ![Head] = Head]
    <3>1. next'[Head] = Head /\ prev'[Head] = Head /\ \A i \in Items : next'[i] = next[i]
      BY <2>1
    <3> QED
      BY <1>1, <3>1 DEF PE_CACHE_Init
  <2>2. CASE ready' = FALSE /\ UNCHANGED <<next, prev>>
    BY <1>1, <2>2 DEF PE_CACHE_Init
  <2> QED
    BY <1>1, <2>1, <2>2 DEF PE_CACHE_Init
<1>2. ASSUME NEW t \in Threads, GetFileInfoEx(t)
      PROVE  NoWildPointer'
  BY <1>2 DEF GetFileInfoEx
<1>3. ASSUME NEW t \in Threads, Begin(t)
      PROVE  NoWildPointer'
  BY <1>3 DEF Begin
<1>4. ASSUME NEW t \in Threads, Return(t)
      PROVE  NoWildPointer'
  BY <1>4 DEF Return
<1>5. ASSUME NEW t \in Threads, Go(t)
      PROVE  NoWildPointer'
  BY <1>5 DEF Go
<1>6. ASSUME NEW t \in Threads, QueryMiss(t)
      PROVE  NoWildPointer'
  BY <1>6 DEF QueryMiss
<1>7. ASSUME NEW t \in Threads, InsertMiss(t)
      PROVE  NoWildPointer'
  BY <1>7 DEF InsertMiss
<1>8. ASSUME NEW t \in Threads, InsertLock(t)
      PROVE  NoWildPointer'
  <2>1. pc[t] = "insert" /\ ready /\ UNCHANGED <<ready, next, prev, tail>>
    BY <1>8 DEF InsertLock
  <2>2. /\ pc'[t] = "iwalk" /\ entry'[t] = next[Head]
        /\ \A u \in Threads : u # t => pc'[u] = pc[u] /\ entry'[u] = entry[u] /\ item'[u] = item[u]
    BY <1>8 DEF InsertLock
  <2>3. \A u \in Threads : pc'[u] \in {"qwalk", "iwalk"} => Complete(entry[u])'
    BY <2>1, <2>2
  <2>4. \A u \in Threads : pc'[u] \in {"item", "forward"} => Complete(tail[u])'
    BY <2>1, <2>2
  <2>5. \A u \in Threads : pc'[u] \in {"forward", "back", "load", "store"} => Complete(item[u])'
    BY <2>1, <2>2
  <2> QED
    BY <2>1, <2>3, <2>4, <2>5
<1>9. ASSUME NEW t \in Threads, LinkTail(t)
      PROVE  NoWildPointer'
  <2>1. pc[t] = "tail" /\ ready /\ UNCHANGED <<ready, next, prev, entry, item>>
    BY <1>9 DEF LinkTail
  <2>2. /\ pc'[t] = "item" /\ tail'[t] = prev[Head]
        /\ \A u \in Threads : u # t => pc'[u] = pc[u] /\ tail'[u] = tail[u]
    BY <1>9 DEF LinkTail
  <2> QED
    BY <2>1, <2>2
<1>10. ASSUME NEW t \in Threads, LinkItem(t)
       PROVE  NoWildPointer'
  BY <1>10 DEF LinkItem
<1>11. ASSUME NEW t \in Threads, LinkForward(t)
       PROVE  NoWildPointer'
  BY <1>11 DEF LinkForward
<1>12. ASSUME NEW t \in Threads, LinkBack(t)
       PROVE  NoWildPointer'
  BY <1>12 DEF LinkBack
<1>13. ASSUME NEW t \in Threads, CountLoad(t)
       PROVE  NoWildPointer'
  BY <1>13 DEF CountLoad
<1>14. ASSUME NEW t \in Threads, CountStore(t)
       PROVE  NoWildPointer'
  BY <1>14 DEF CountStore
<1> QED
  BY <1>1, <1>2, <1>3, <1>4, <1>5, <1>6, <1>7, <1>8, <1>9, <1>10, <1>11, <1>12, <1>13, <1>14, StepCases

-----------------------------------------------------------------------------
(* Next pointers lead to higher ranks.                                       *)

\* The item of a thread that reads the tail takes the rank above all others.
LEMMA RankTail ==
  ASSUME Types, Owners, NoWildPointer, NEW f \in [Nodes -> 0..MaxItems], Ranks(f),
         NEW t \in Threads, LinkTail(t)
  PROVE  \E g \in [Nodes -> 0..MaxItems] : Ranks(g)'
<1>1. PICK i : i = item[t]
  OBVIOUS
<1>2. i \in Items /\ i \in Nodes /\ i \in Unranked(f) /\ f[i] = 0 /\ next[i] = Null /\ i # Head
      /\ i \in 1..used
  BY <1>1, Addresses DEF Owners, Inserting, LinkTail, At, Ranks, Unranked, Types
<1>3. PICK c : c = Cardinality(Unranked(f))
  OBVIOUS
<1>4. IsFiniteSet(Unranked(f)) /\ c \in Nat
  <2>1. IsFiniteSet(Items)
    BY Addresses, FS_Interval
  <2> QED
    BY <1>3, <2>1, FS_Subset, FS_CardinalityType DEF Unranked
<1>5. \A n \in Nodes : f[n] \in Nat /\ f[n] + c <= MaxItems
  BY <1>3, Addresses DEF Ranks
<1>6. c \in 1..MaxItems
  <2>1. c <= MaxItems
    BY <1>2, <1>4, <1>5, Addresses
  <2>2. c # 0
    BY <1>2, <1>3, <1>4, FS_EmptySet
  <2> QED
    BY <1>4, <2>1, <2>2, Addresses
<1>7. PICK r \in 1..MaxItems : r = MaxItems - c + 1
  BY <1>6, Addresses
<1>8. PICK g : g = [f EXCEPT ![i] = r]
  OBVIOUS
<1>a. /\ g \in [Nodes -> 0..MaxItems] /\ g[i] = r
      /\ \A n \in Nodes : n # i => g[n] = f[n]
      /\ \A n \in Nodes : f[n] < r
  <2>1. g \in [Nodes -> 0..MaxItems] /\ g[i] = r /\ \A n \in Nodes : n # i => g[n] = f[n]
    BY <1>2, <1>7, <1>8
  <2>2. \A x, y, m \in Nat : x + y <= m => x < m - y + 1
    OBVIOUS
  <2>3. MaxItems \in Nat
    BY Addresses
  <2> QED
    BY <1>4, <1>5, <1>7, <2>1, <2>2, <2>3
<1>b. Cardinality(Unranked(g)) = c - 1
  <2>1. Unranked(g) = Unranked(f) \ {i}
    BY <1>2, <1>a, Addresses DEF Unranked
  <2> QED
    <3>1. Cardinality(Unranked(f) \ {i}) = Cardinality(Unranked(f)) - 1
      BY <1>2, <1>4, FS_RemoveElement
    <3> QED
      BY <1>3, <2>1, <3>1
<1>c. r + (c - 1) = MaxItems /\ \A n \in Nodes : f[n] + (c - 1) <= MaxItems
  <2>1. \A x, y, m \in Nat : x + y <= m => x + (y - 1) <= m /\ (m - y + 1) + (y - 1) = m
    OBVIOUS
  <2>2. MaxItems \in Nat /\ i \in Nodes
    BY <1>2, Addresses
  <2> QED
    BY <1>4, <1>5, <1>7, <2>1, <2>2
<1>9. Ranks(g)'
  <2> USE <1>1, <1>2, <1>a, Addresses
  <2>0. next' = next /\ used' = used /\ item' = item /\ ready /\ prev[Head] \in Nodes /\ prev[Head] # i
    BY DEF LinkTail, At, table, Owners, NoWildPointer, Complete
  <2>1. g[Head] = 0
    BY DEF Ranks
  <2>2. \A n \in Nodes : g[n] + Cardinality(Unranked(g)) <= MaxItems
    <3> TAKE n \in Nodes
    <3>1. CASE n = i
      <4>1. g[n] = r /\ Cardinality(Unranked(g)) = c - 1 /\ r + (c - 1) = MaxItems
        BY <1>b, <1>c, <3>1
      <4> QED
        BY <1>4, <1>7, <4>1
    <3>2. CASE n # i
      BY <1>b, <1>c, <3>2
    <3> QED
      BY <3>1, <3>2
  <2>3. \A j \in Items : g[j] = 0 => next[j] = Null
    BY DEF Ranks
  <2>4. \A j \in Items : j > used => g[j] = 0
    BY DEF Ranks, Types
  <2>5. \A n \in Nodes : next[n] \in Items => g[n] < g[next[n]]
    BY DEF Ranks
  <2>6. ASSUME NEW u \in Threads, pc'[u] \in {"iwalk", "tail"}
        PROVE  g[item[u]] = 0
    <3>1. u # t /\ pc[u] = pc'[u] /\ pc[t] = "tail"
      BY <2>6 DEF LinkTail, At, Types
    <3>2. item[u] # i /\ item[u] \in Items
      <4>1. t \in Inserting /\ u \in Inserting
        BY <2>6, <3>1 DEF Inserting
      <4> QED
        BY <3>1, <4>1 DEF Owners, Types
    <3> QED
      BY <2>6, <3>1, <3>2 DEF Ranks
  <2>7. ASSUME NEW u \in Threads, pc'[u] \in {"item", "forward"}
        PROVE  g[tail'[u]] < g[item[u]]
    <3>1. CASE u = t
      <4>1. tail'[u] = prev[Head]
        BY <3>1 DEF LinkTail, Types
      <4> QED
        BY <2>0, <3>1, <4>1
    <3>2. CASE u # t
      <4>1. pc[u] = pc'[u] /\ tail'[u] = tail[u] /\ pc[t] = "tail"
        BY <3>2 DEF LinkTail, At, Types
      <4>2. item[u] # i /\ item[u] \in Items /\ Complete(tail[u]) /\ f[tail[u]] < f[item[u]]
        <5>1. t \in Inserting /\ u \in Inserting
          BY <2>7, <4>1 DEF Inserting
        <5>2. item[u] # i /\ item[u] \in Items
          BY <3>2, <5>1 DEF Owners, Types
        <5>3. Complete(tail[u]) /\ f[tail[u]] < f[item[u]]
          BY <2>7, <4>1 DEF NoWildPointer, Ranks
        <5> QED
          BY <5>2, <5>3
      <4>3. tail[u] \in Nodes /\ tail[u] # i
        BY <4>2 DEF Complete
      <4> QED
        BY <4>1, <4>2, <4>3
    <3> QED
      BY <3>1, <3>2
  <2> QED
    BY <2>0, <2>1, <2>2, <2>3, <2>4, <2>5, <2>6, <2>7 DEF Ranks, Unranked
<1> QED
  BY <1>9, <1>a

\* A step after which the ranks f are still in order.
RanksKept(f) ==
  /\ \A i \in Items : f[i] = 0 => next'[i] = Null
  /\ \A i \in Items : i > used' => f[i] = 0
  /\ \A n \in Nodes : next'[n] \in Items => f[n] < f[next'[n]]
  /\ \A t \in Threads : pc'[t] \in {"iwalk", "tail"} => f[item'[t]] = 0
  /\ \A t \in Threads : pc'[t] \in {"item", "forward"} => f[tail'[t]] < f[item'[t]]

\* Every step keeps the nodes in order.
LEMMA OrderedKept ==
  ASSUME Types, Owners, NoWildPointer, Ordered, Next
  PROVE  Ordered'
<1>0. PICK f \in [Nodes -> 0..MaxItems] : Ranks(f)
  BY DEF Ordered
<1>a. RanksKept(f) => Ordered'
  BY <1>0 DEF Ranks, Ordered, Unranked, RanksKept
<1>b. /\ \A i \in Items : f[i] = 0 => next[i] = Null
      /\ \A i \in Items : i > used => f[i] = 0
      /\ \A n \in Nodes : next[n] \in Items => f[n] < f[next[n]]
      /\ \A t \in Threads : pc[t] \in {"iwalk", "tail"} => f[item[t]] = 0
      /\ \A t \in Threads : pc[t] \in {"item", "forward"} => f[tail[t]] < f[item[t]]
      /\ f \in [Nodes -> Nat] /\ f[Head] = 0
  BY <1>0, Addresses DEF Ranks
<1> USE <1>b, Addresses DEF Types, Owners, NoWildPointer, RanksKept, table, locals, history, At, Finish, Inserting
<1>1. CASE PE_CACHE_Init
  <2>1. \A i \in Items : next'[i] = next[i]
    BY <1>1 DEF PE_CACHE_Init
  <2>2. next'[Head] = Head \/ next'[Head] = next[Head]
    BY <1>1 DEF PE_CACHE_Init
  <2>3. used' = used /\ \A u \in Threads : pc'[u] = "idle"
    BY <1>1 DEF PE_CACHE_Init
  <2>4. \A n \in Nodes : next'[n] \in Items => f[n] < f[next'[n]]
    BY <2>1, <2>2
  <2>5. \A u \in Threads : pc'[u] \notin {"iwalk", "tail"} /\ pc'[u] \notin {"item", "forward"}
    BY <2>3
  <2>6. \A i \in Items : (f[i] = 0 => next'[i] = Null) /\ (i > used' => f[i] = 0)
    BY <2>1, <2>3
  <2>7. RanksKept(f)
    BY <2>4, <2>5, <2>6
  <2> QED
    BY <1>a, <2>7
<1>2. ASSUME NEW t \in Threads, GetFileInfoEx(t)
      PROVE  RanksKept(f)
  BY <1>2 DEF GetFileInfoEx
<1>3. ASSUME NEW t \in Threads, Begin(t)
      PROVE  RanksKept(f)
  BY <1>3 DEF Begin
<1>4. ASSUME NEW t \in Threads, Return(t)
      PROVE  RanksKept(f)
  BY <1>4 DEF Return
<1>5. ASSUME NEW t \in Threads, Go(t)
      PROVE  RanksKept(f)
  BY <1>5 DEF Go
<1>6. ASSUME NEW t \in Threads, QueryMiss(t)
      PROVE  RanksKept(f)
  BY <1>6 DEF QueryMiss
<1>7. ASSUME NEW t \in Threads, InsertMiss(t)
      PROVE  RanksKept(f)
  BY <1>7 DEF InsertMiss
<1>8. ASSUME NEW t \in Threads, InsertLock(t)
      PROVE  RanksKept(f)
  BY <1>8 DEF InsertLock
<1>9. ASSUME NEW t \in Threads, LinkTail(t)
      PROVE  Ordered'
  BY <1>9, <1>0, RankTail DEF Ordered
<1>10. ASSUME NEW t \in Threads, LinkItem(t)
       PROVE  RanksKept(f)
  <2>1. item[t] \in Items /\ 0 < f[item[t]] /\ pc[t] = "item"
    <3>1. item[t] \in Items /\ tail[t] \in Nodes /\ pc[t] = "item"
      BY <1>10 DEF LinkItem, Complete
    <3> QED
      BY <3>1
  <2>2. next'[item[t]] = Head /\ \A n \in Nodes : n # item[t] => next'[n] = next[n]
    BY <1>10, <2>1 DEF LinkItem
  <2> QED
    BY <1>10, <2>1, <2>2 DEF LinkItem
<1>11. ASSUME NEW t \in Threads, LinkForward(t)
       PROVE  RanksKept(f)
  <2>1. item[t] \in Items /\ tail[t] \in Nodes /\ Complete(tail[t]) /\ f[tail[t]] < f[item[t]]
    BY <1>11 DEF LinkForward, Complete
  <2>2. next'[tail[t]] = item[t] /\ \A n \in Nodes : n # tail[t] => next'[n] = next[n]
    BY <1>11, <2>1 DEF LinkForward
  <2>3. tail[t] \in Items => f[tail[t]] # 0
    BY <2>1 DEF Complete
  <2> QED
    BY <1>11, <2>1, <2>2, <2>3 DEF LinkForward
<1>12. ASSUME NEW t \in Threads, LinkBack(t)
       PROVE  RanksKept(f)
  BY <1>12 DEF LinkBack
<1>13. ASSUME NEW t \in Threads, CountLoad(t)
       PROVE  RanksKept(f)
  BY <1>13 DEF CountLoad
<1>14. ASSUME NEW t \in Threads, CountStore(t)
       PROVE  RanksKept(f)
  <2>1. /\ UNCHANGED <<next, used>> /\ pc'[t] = "idle"
        /\ \A u \in Threads : u # t => pc'[u] = pc[u] /\ tail'[u] = tail[u] /\ item'[u] = item[u]
    BY <1>14 DEF CountStore
  <2> QED
    BY <2>1
<1> QED
  BY <1>1, <1>2, <1>3, <1>4, <1>5, <1>6, <1>7, <1>8, <1>9, <1>10, <1>11, <1>12, <1>13, <1>14, <1>a, StepCases

-----------------------------------------------------------------------------
(* A search ends.                                                            *)

\* A set of naturals that is not empty has a least member.
LEMMA LeastMember ==
  ASSUME NEW T, T \subseteq Nat, T # {}
  PROVE  \E x \in T : \A y \in T : x <= y
<1>1. IsWellFoundedOn(OpToRel(<, Nat), Nat)
  BY NatLessThanWellFounded
<1>2. PICK x \in T : \A y \in T : ~ (<<y, x>> \in OpToRel(<, Nat))
  BY <1>1, WFMin, Zenon
<1>3. \A y \in T : ~(y < x)
  BY <1>2 DEF OpToRel
<1> QED
  BY <1>3

\* A set with 0 and the successor of each of its members has every natural.
LEMMA InductiveSet ==
  ASSUME NEW S, 0 \in S, \A n \in Nat : n \in S => n + 1 \in S
  PROVE  \A n \in Nat : n \in S
<1> SUFFICES ASSUME Nat \ S # {}
             PROVE  FALSE
  OBVIOUS
<1>1. PICK x \in Nat \ S : \A y \in Nat \ S : x <= y
  BY LeastMember
<1>2. x # 0 /\ x - 1 \in Nat /\ x - 1 \in S
  BY <1>1
<1> QED
  BY <1>1, <1>2

\* The entry after x in a search along the pointers nx.
After(nx, x) == IF x \in {Head, Null} THEN x ELSE nx[x]

\* The equation that defines the recursion of Path(s), up to n.
Walks(nx, s, n, h) ==
  h = [i \in 0..n |-> IF i = 0 THEN s ELSE After(nx, h[i - 1])]

\* A search can be continued.
LEMMA WalksExists ==
  ASSUME NEW nx, NEW s
  PROVE  \A n \in Nat : \E h : Walks(nx, s, n, h)
<1> DEFINE S == {n \in Nat : \E h : Walks(nx, s, n, h)}
<1>1. 0 \in S
  <2> DEFINE h == [i \in 0..0 |-> s]
  <2>1. Walks(nx, s, 0, h)
    BY DEF Walks
  <2> QED
    BY <2>1
<1>2. ASSUME NEW n \in Nat, n \in S
      PROVE  n + 1 \in S
  <2>1. PICK h : Walks(nx, s, n, h)
    BY <1>2
  <2> DEFINE g == [i \in 0..(n + 1) |-> IF i = n + 1 THEN After(nx, h[n]) ELSE h[i]]
  <2>2. ASSUME NEW i \in 0..(n + 1)
        PROVE  g[i] = IF i = 0 THEN s ELSE After(nx, g[i - 1])
    <3>1. CASE i = 0
      <4>1. h[0] = s
        BY <2>1 DEF Walks
      <4> QED
        BY <3>1, <4>1
    <3>2. CASE i = n + 1
      BY <3>2
    <3>3. CASE i # 0 /\ i # n + 1
      <4>1. i \in 0..n /\ g[i] = h[i] /\ g[i - 1] = h[i - 1]
        BY <3>3
      <4>2. h[i] = After(nx, h[i - 1])
        BY <2>1, <3>3, <4>1 DEF Walks
      <4> QED
        BY <3>3, <4>1, <4>2
    <3> QED
      BY <3>1, <3>2, <3>3
  <2>3. g = [i \in 0..(n + 1) |-> g[i]]
    OBVIOUS
  <2> HIDE DEF g
  <2>4. Walks(nx, s, n + 1, g)
    BY <2>2, <2>3 DEF Walks
  <2> QED
    BY <2>4
<1> HIDE DEF S
<1>3. \A n \in Nat : n \in S
  BY <1>1, <1>2, InductiveSet
<1> QED
  BY <1>3 DEF S

\* What Path computes.
LEMMA PathIs ==
  ASSUME NEW s
  PROVE  /\ Path(s)[0] = s
         /\ \A n \in 1..MaxItems : Path(s)[n] = After(next, Path(s)[n - 1])
<1> DEFINE F(h) == [n \in 0..MaxItems |->
                      IF n = 0 THEN s
                      ELSE IF h[n - 1] \in {Head, Null} THEN h[n - 1] ELSE next[h[n - 1]]]
           got == CHOOSE h : h = F(h)
<1>1. PICK h : Walks(next, s, MaxItems, h)
  BY WalksExists, Addresses
<1>2. h = F(h)
  BY <1>1 DEF Walks, After
<1>3. got = F(got)
  <2> HIDE DEF F
  <2> QED
    BY <1>2, Zenon
<1>4. Path(s) = got
  BY DEF Path
<1>5. Path(s) = F(Path(s))
  <2> HIDE DEF got, F
  <2> QED
    BY <1>3, <1>4
<1>6. PICK p : p = Path(s)
  OBVIOUS
<1>7. MaxItems \in Nat
  BY Addresses
<1>8. p = F(p)
  <2> HIDE DEF F
  <2> QED
    BY <1>5, <1>6
<1>9. p[0] = s
  BY <1>7, <1>8
<1>10. ASSUME NEW n \in 1..MaxItems
       PROVE  p[n] = After(next, p[n - 1])
  <2>1. n \in 0..MaxItems /\ n # 0
    BY <1>7
  <2>2. p[n] = IF p[n - 1] \in {Head, Null} THEN p[n - 1] ELSE next[p[n - 1]]
    BY <1>8, <2>1
  <2> QED
    BY <2>2 DEF After
<1> QED
  BY <1>6, <1>9, <1>10

\* What Behind computes.
LEMMA BehindIs ==
  /\ Behind[0] = next[Head]
  /\ \A n \in 1..MaxItems : Behind[n] = After(next, Behind[n - 1])
BY PathIs DEF Behind

\* From a complete node the search has ended after n steps, or is at a complete item of a
\* rank above n.
LEMMA RankOfPath ==
  ASSUME Types, NoWildPointer, NEW f \in [Nodes -> 0..MaxItems], Ranks(f),
         NEW s, Complete(s), NEW p, p = Path(s)
  PROVE  \A n \in 0..MaxItems : p[n] = Head \/ (p[n] \in Items /\ Complete(p[n]) /\ f[p[n]] > n)
<1> DEFINE S == {n \in Nat : n \in 0..MaxItems =>
                   p[n] = Head \/ (p[n] \in Items /\ Complete(p[n]) /\ f[p[n]] > n)}
<1>0. p[0] = s /\ \A n \in 1..MaxItems : p[n] = After(next, p[n - 1])
  BY PathIs
<1>1. 0 \in S
  <2>1. s = Head \/ (s \in Items /\ f[s] # 0 /\ f[s] \in 0..MaxItems)
    BY Addresses DEF Complete, Ranks
  <2> QED
    BY <1>0, <2>1, Addresses
<1>2. ASSUME NEW n \in Nat, n \in S
      PROVE  n + 1 \in S
  <2> SUFFICES ASSUME n + 1 \in 0..MaxItems
               PROVE  \/ p[n + 1] = Head
                      \/ p[n + 1] \in Items /\ Complete(p[n + 1]) /\ f[p[n + 1]] > n + 1
    OBVIOUS
  <2>1. PICK x : x = p[n]
    OBVIOUS
  <2>2. n \in 0..MaxItems /\ n + 1 \in 1..MaxItems /\ (n + 1) - 1 = n
    BY Addresses
  <2>3. p[n + 1] = After(next, x)
    BY <1>0, <2>1, <2>2
  <2>4. x = Head \/ (x \in Items /\ Complete(x) /\ f[x] > n)
    BY <1>2, <2>1, <2>2
  <2>5. CASE x = Head
    BY <2>3, <2>5 DEF After
  <2>6. CASE x \in Items /\ Complete(x) /\ f[x] > n
    <3>1. Complete(next[x]) /\ next[x] \in Nodes /\ (next[x] \in Items => f[x] < f[next[x]])
      BY <2>6, Addresses DEF Ranks, NoWildPointer, Complete
    <3>2. After(next, x) = next[x]
      BY <2>6, Addresses DEF After
    <3>3. \A a, b \in Nat : a > n /\ a < b => b > n + 1
      OBVIOUS
    <3> QED
      BY <2>3, <2>6, <3>1, <3>2, <3>3, Addresses
  <2> QED
    BY <2>4, <2>5, <2>6
<1> HIDE DEF S
<1>3. \A n \in Nat : n \in S
  BY <1>1, <1>2, InductiveSet
<1> QED
  BY <1>3 DEF S

\* So every search ends, where it starts and where a thread stands.
LEMMA InvSearchesEnd ==
  ASSUME Types, Owners, NoWildPointer, Ordered
  PROVE  SearchesEnd
<1>1. PICK f \in [Nodes -> 0..MaxItems] : Ranks(f)
  BY DEF Ordered
<1>2. MaxItems \in Nat /\ MaxItems \in 0..MaxItems /\ Items \subseteq Nodes
  BY Addresses
<1>3. ASSUME NEW s, Complete(s)
      PROVE  Path(s)[MaxItems] = Head
  <2>1. PICK p : p = Path(s)
    OBVIOUS
  <2>2. p[MaxItems] = Head \/ (p[MaxItems] \in Items /\ f[p[MaxItems]] > MaxItems)
    BY <1>1, <1>2, <1>3, <2>1, RankOfPath
  <2>3. p[MaxItems] = Head
    BY <1>2, <2>2
  <2> QED
    BY <2>1, <2>3
<1>4. ready => Complete(next[Head])
  BY Addresses DEF NoWildPointer
<1>5. \A t \in Threads : pc[t] \in {"qwalk", "iwalk"} => Complete(entry[t])
  BY DEF NoWildPointer
<1> QED
  BY <1>3, <1>4, <1>5 DEF SearchesEnd, Behind

-----------------------------------------------------------------------------
(* The bucket while no inserts overlap.                                      *)

\* What holds the head and leads from node to node has all of the ring.
LEMMA RingIsReached ==
  ASSUME NEW nx, NEW pv, NEW C, C \subseteq Items, Ring(nx, pv, C), NEW f \in [Nodes -> 0..MaxItems],
         \A n \in Nodes : nx[n] \in Items => f[n] < f[nx[n]],
         NEW V, Head \in V, \A n \in V : n \in C \cup {Head} => nx[n] \in V
  PROVE  C \subseteq V
<1> SUFFICES ASSUME C \ V # {}
             PROVE  FALSE
  OBVIOUS
<1> DEFINE R == {f[c] : c \in C \ V}
<1>0. \A n \in C : n \in Nodes /\ f[n] \in Nat
  BY Addresses
<1>1. R \subseteq Nat /\ R # {}
  BY <1>0
<1>2. PICK x \in R : \A y \in R : x <= y
  BY <1>1, LeastMember
<1>3. PICK c \in C \ V : x = f[c]
  BY <1>2
<1>4. pv[c] \in C \cup {Head} /\ nx[pv[c]] = c
  BY DEF Ring
<1>5. pv[c] \notin V
  BY <1>3, <1>4
<1>6. pv[c] \in C \ V /\ f[pv[c]] < f[c]
  BY <1>3, <1>4, <1>5, Addresses
<1>7. f[c] <= f[pv[c]]
  BY <1>2, <1>3, <1>6
<1>8. \A a, b \in Nat : ~(a < b /\ b <= a)
  OBVIOUS
<1> QED
  BY <1>0, <1>3, <1>6, <1>7, <1>8

\* A ring, a new item that leads to the head and that its tail leads to, and the head's
\* prev pointer set to it: a ring with the item.
LEMMA RingGrows ==
  ASSUME NEW nx \in [Nodes -> Nodes \cup {Null}], NEW pv \in [Nodes -> Nodes \cup {Null}],
         NEW C, C \subseteq Items, NEW i \in Items, i \notin C, NEW h \in C \cup {Head},
         Ring([nx EXCEPT ![h] = Head], pv, C),
         nx[h] = i, nx[i] = Head, pv[i] = h, pv[Head] = h
  PROVE  Ring(nx, [pv EXCEPT ![Head] = i], C \cup {i})
<1> DEFINE mx == [nx EXCEPT ![h] = Head]
           qv == [pv EXCEPT ![Head] = i]
<1>1. mx[h] = Head /\ \A n \in Nodes : n # h => mx[n] = nx[n]
  BY Addresses
<1>2. qv[Head] = i /\ \A n \in Items : qv[n] = pv[n]
  BY Addresses
<1>3. \A n \in C \cup {Head} : mx[n] \in C \cup {Head} /\ pv[n] \in C \cup {Head} /\ pv[mx[n]] = n /\ mx[pv[n]] = n
  BY DEF Ring
<1> HIDE DEF mx, qv
<1>4. nx[i] = Head /\ qv[i] = h /\ qv[nx[i]] = i /\ nx[qv[i]] = i
  BY <1>2
<1>5. ASSUME NEW n \in C \cup {Head}
      PROVE  nx[n] \in C \cup {i, Head} /\ qv[nx[n]] = n
  <2>1. CASE n = h
    BY <1>2, <2>1
  <2>2. CASE n # h
    <3>1. nx[n] = mx[n] /\ nx[n] \in C \cup {Head} /\ pv[nx[n]] = n
      BY <1>1, <1>3, <2>2, Addresses
    <3>2. nx[n] # Head
      BY <2>2, <3>1
    <3> QED
      BY <1>2, <3>1, <3>2
  <2> QED
    BY <2>1, <2>2
<1>6. ASSUME NEW n \in C
      PROVE  qv[n] \in C \cup {Head} /\ nx[qv[n]] = n
  <2>1. qv[n] = pv[n] /\ pv[n] \in C \cup {Head} /\ mx[pv[n]] = n /\ n # Head
    BY <1>2, <1>3, Addresses
  <2>2. pv[n] # h
    BY <1>1, <2>1
  <2> QED
    BY <1>1, <2>1, <2>2, Addresses
<1>7. Ring(nx, qv, C \cup {i})
  BY <1>2, <1>4, <1>5, <1>6 DEF Ring
<1> QED
  BY <1>7 DEF qv

\* A ring does not depend on the pointers of other nodes.
LEMMA RingApart ==
  ASSUME NEW nx, NEW pv, NEW mx, NEW qv, NEW C, Ring(nx, pv, C),
         \A n \in C \cup {Head} : mx[n] = nx[n] /\ qv[n] = pv[n]
  PROVE  Ring(mx, qv, C)
BY DEF Ring

\* Another thread's step that leaves the bucket alone does not disturb an insert.
LEMMA ProgressApart ==
  ASSUME NEW C, NEW u \in Threads, Progress(u, C),
         UNCHANGED <<next, prev, itemKey, inserted>>,
         pc'[u] = pc[u], key'[u] = key[u], entry'[u] = entry[u], tail'[u] = tail[u],
         item'[u] = item[u], count'[u] = count[u]
  PROVE  Progress(u, C)'
BY DEF Progress, Tally, Searched, Ring

\* Nor does it disturb the bucket.
LEMMA BucketApart ==
  ASSUME NEW C, Bucket(C), NEW t \in Threads, Inserting' = Inserting, t \notin Inserting,
         UNCHANGED <<table, history>>,
         \A u \in Threads : u # t => /\ pc'[u] = pc[u] /\ key'[u] = key[u] /\ entry'[u] = entry[u]
                                     /\ tail'[u] = tail[u] /\ item'[u] = item[u] /\ count'[u] = count[u]
  PROVE  Bucket(C)'
<1>1. UNCHANGED <<next, prev, itemKey, inserted, used>>
  BY DEF table, history
<1>2. C \subseteq 1..used'
  BY <1>1 DEF Bucket
<1>3. Inserting = {} => Ring(next, prev, C)' /\ Tally(C, {})'
  BY <1>1 DEF Bucket, Ring, Tally
<1>4. ASSUME NEW u \in Inserting
      PROVE  Inserting = {u} /\ Progress(u, C)'
  <2>1. u \in Threads /\ u # t /\ Inserting = {u} /\ Progress(u, C)
    BY DEF Bucket, Inserting
  <2> QED
    BY <1>1, <2>1, ProgressApart
<1> QED
  BY <1>2, <1>3, <1>4 DEF Bucket

\* A step of the one inserting thread.
LEMMA BucketOf ==
  ASSUME NEW C, Bucket(C), NEW t \in Inserting
  PROVE  Inserting = {t} /\ Progress(t, C) /\ C \subseteq 1..used
BY DEF Bucket

\* A thread that goes on with its insert.
LEMMA OneInserting ==
  ASSUME Types, NEW t \in Threads, Inserting = {t}, NEW l, NEW k, At(t, l, k),
         k \in {"iwalk", "tail", "item", "forward", "back", "load", "store"}
  PROVE  Inserting' = {t} /\ pc'[t] = k /\ pc[t] = l
BY DEF Types, At, Inserting

\* A thread whose insert is over.
LEMMA NoneInserting ==
  ASSUME Types, NEW t \in Threads, Inserting = {t}, NEW l, At(t, l, "idle")
  PROVE  Inserting' = {} /\ pc[t] = l
BY DEF Types, At, Inserting

\* An insert finds the key and ends.
LEMMA SerialReturn ==
  ASSUME Types, NEW C, Bucket(C), NEW t \in Inserting, Return(t)
  PROVE  Bucket(C)'
<1>1. t \in Threads /\ pc[t] = "iwalk" /\ At(t, "iwalk", "idle") /\ UNCHANGED <<table, history>>
  BY DEF Inserting, Return, Finish
<1>2. Inserting = {t} /\ Progress(t, C) /\ C \subseteq 1..used
  BY BucketOf
<1>3. Inserting' = {}
  BY <1>1, <1>2, NoneInserting
<1>4. Ring(next, prev, C) /\ Tally(C, {})
  BY <1>1, <1>2 DEF Progress
<1>5. Ring(next, prev, C)' /\ Tally(C, {})'
  BY <1>1, <1>4 DEF Ring, Tally, table, history
<1> QED
  BY <1>1, <1>2, <1>3, <1>5 DEF Bucket, table

\* The search of an insert goes on.
LEMMA SerialGo ==
  ASSUME Types, Owners, NEW C, Bucket(C), NEW t \in Inserting, Go(t)
  PROVE  Bucket(C)'
<1>1. /\ t \in Threads /\ pc[t] = "iwalk" /\ pc' = pc /\ UNCHANGED <<table, history, key, tail, item, count>>
      /\ entry[t] \in Items /\ itemKey[entry[t]] # key[t] /\ entry'[t] = next[entry[t]]
  BY DEF Inserting, Go, Types
<1>2. Inserting = {t} /\ Progress(t, C) /\ C \subseteq 1..used /\ Inserting' = Inserting
  BY <1>1, BucketOf DEF Inserting
<1>3. PICK V \in SUBSET Items : Searched(t, V)
  BY <1>1, <1>2 DEF Progress
<1>4. PICK e : e = entry[t]
  OBVIOUS
<1>5. PICK U \in SUBSET Items : U = V \cup {e}
  BY <1>1, <1>4
<1>6. Searched(t, U)'
  <2>1. \A v \in U : v \in Items /\ itemKey[v] # key[t]
    BY <1>1, <1>3, <1>4, <1>5 DEF Searched
  <2>2. \A n \in U \cup {Head} : next[n] \in U \cup {entry'[t]}
    BY <1>1, <1>3, <1>4, <1>5 DEF Searched
  <2> QED
    BY <1>1, <2>1, <2>2 DEF Searched, table
<1>7. Ring(next, prev, C)' /\ Tally(C, {})' /\ item'[t] \notin C
  BY <1>1, <1>2 DEF Ring, Tally, table, history, Progress
<1>8. Progress(t, C)'
  BY <1>1, <1>6, <1>7 DEF Progress
<1> QED
  BY <1>1, <1>2, <1>8 DEF Bucket, table

\* The search of an insert has come back to the head: the key is not in the bucket.
LEMMA SerialMiss ==
  ASSUME Types, Owners, Ordered, NEW C, Bucket(C), NEW t \in Inserting, InsertMiss(t)
  PROVE  Bucket(C)'
<1>1. /\ t \in Threads /\ At(t, "iwalk", "tail") /\ UNCHANGED <<table, history, key, tail, item, count>>
      /\ entry[t] = Head
  BY DEF Inserting, InsertMiss
<1>2. Inserting = {t} /\ Progress(t, C) /\ C \subseteq 1..used
  BY BucketOf
<1>3. Inserting' = {t} /\ pc'[t] = "tail" /\ pc[t] = "iwalk"
  BY <1>1, <1>2, OneInserting
<1>4. PICK V \in SUBSET Items : Searched(t, V)
  BY <1>2, <1>3 DEF Progress
<1>5. Ring(next, prev, C) /\ Tally(C, {}) /\ item[t] \notin C
  BY <1>2, <1>3 DEF Progress
<1>6. PICK f \in [Nodes -> 0..MaxItems] : Ranks(f)
  BY DEF Ordered
<1>7. C \subseteq V \cup {Head}
  <2>1. C \subseteq Items
    BY <1>2, Addresses DEF Types
  <2>2. \A n \in V \cup {Head} : next[n] \in V \cup {Head}
    BY <1>1, <1>4 DEF Searched
  <2>3. \A n \in Nodes : next[n] \in Items => f[n] < f[next[n]]
    BY <1>6 DEF Ranks
  <2>4. PICK W : W = V \cup {Head}
    OBVIOUS
  <2>5. C \subseteq W
    BY <1>5, <2>1, <2>2, <2>3, <2>4, RingIsReached
  <2> QED
    BY <2>4, <2>5
<1>8. \A c \in C : itemKey[c] # key[t]
  BY <1>2, <1>4, <1>7, Addresses DEF Searched, Types
<1>9. /\ Ring(next, prev, C)' /\ Tally(C, {})' /\ item'[t] \notin C
      /\ \A c \in C : itemKey'[c] # key'[t]
  BY <1>1, <1>5, <1>8 DEF Ring, Tally, table, history
<1>10. Progress(t, C)'
  BY <1>3, <1>9 DEF Progress
<1> QED
  BY <1>1, <1>2, <1>3, <1>10 DEF Bucket, table

\* An insert starts, and no other is under way.
LEMMA SerialLock ==
  ASSUME Types, Owners, NEW C, Bucket(C), NEW t \in Threads, InsertLock(t), ~overlap'
  PROVE  Bucket(C)'
<1>1. Inserting = {} /\ Inserting' = {t} /\ pc'[t] = "iwalk"
  BY DEF InsertLock, At, Inserting, Types
<1>2. Ring(next, prev, C) /\ Tally(C, {}) /\ C \subseteq 1..used
  BY <1>1 DEF Bucket
<1>3. /\ used' = used + 1 /\ item'[t] = used + 1 /\ entry'[t] = next[Head]
      /\ UNCHANGED <<next, prev, inserted>>
      /\ \A i \in Items : i # used + 1 => itemKey'[i] = itemKey[i]
  BY Addresses DEF InsertLock, Types
<1>4. used + 1 \notin C /\ C \subseteq 1..(used + 1) /\ C \subseteq Items
  BY <1>2, Addresses DEF Types
<1>5. Ring(next, prev, C)'
  BY <1>2, <1>3 DEF Ring
<1>6. Tally(C, {})'
  <2>1. {itemKey'[c] : c \in C} = {itemKey[c] : c \in C}
    BY <1>3, <1>4
  <2> QED
    BY <1>2, <1>3, <2>1 DEF Tally
<1>7. Searched(t, {})'
  BY <1>3 DEF Searched
<1>8. Progress(t, C)'
  BY <1>1, <1>3, <1>4, <1>5, <1>6, <1>7 DEF Progress
<1> QED
  BY <1>1, <1>3, <1>4, <1>8 DEF Bucket

\* The insert reads the tail.
LEMMA SerialTail ==
  ASSUME Types, NEW C, Bucket(C), NEW t \in Inserting, LinkTail(t)
  PROVE  Bucket(C)'
<1>1. t \in Threads /\ At(t, "tail", "item") /\ UNCHANGED <<table, history, key, item>> /\ tail'[t] = prev[Head]
  BY DEF Inserting, LinkTail, Types
<1>2. Inserting = {t} /\ Progress(t, C) /\ C \subseteq 1..used
  BY BucketOf
<1>3. Inserting' = {t} /\ pc'[t] = "item" /\ pc[t] = "tail"
  BY <1>1, <1>2, OneInserting
<1>4. Ring(next, prev, C) /\ Tally(C, {}) /\ item[t] \notin C /\ \A c \in C : itemKey[c] # key[t]
  BY <1>2, <1>3 DEF Progress
<1>5. /\ Ring(next, prev, C)' /\ Tally(C, {})' /\ item'[t] \notin C
      /\ (\A c \in C : itemKey'[c] # key'[t]) /\ tail'[t] = prev'[Head]
  BY <1>1, <1>4 DEF Ring, Tally, table, history
<1>6. Progress(t, C)'
  BY <1>3, <1>5 DEF Progress
<1> QED
  BY <1>1, <1>2, <1>3, <1>6 DEF Bucket, table

\* The insert sets the pointers of its item, which is not in the ring yet.
LEMMA SerialItem ==
  ASSUME Types, Owners, NEW C, Bucket(C), NEW t \in Inserting, LinkItem(t)
  PROVE  Bucket(C)'
<1>1. /\ t \in Threads /\ At(t, "item", "forward")
      /\ UNCHANGED <<itemKey, used, key, item, tail, inserted>>
  BY DEF Inserting, LinkItem, locals, history
<1>2. Inserting = {t} /\ Progress(t, C) /\ C \subseteq 1..used
  BY BucketOf
<1>3. Inserting' = {t} /\ pc'[t] = "forward" /\ pc[t] = "item"
  BY <1>1, <1>2, OneInserting
<1>4. /\ Ring(next, prev, C) /\ Tally(C, {}) /\ item[t] \notin C /\ tail[t] = prev[Head]
      /\ \A c \in C : itemKey[c] # key[t]
  BY <1>2, <1>3 DEF Progress
<1>5. item[t] \in Items /\ C \subseteq Nodes
  BY <1>2, Addresses DEF Owners, Types
<1>6. /\ next'[item[t]] = Head /\ prev'[item[t]] = tail[t]
      /\ \A n \in Nodes : n # item[t] => next'[n] = next[n] /\ prev'[n] = prev[n]
  BY <1>5, Addresses DEF LinkItem, Types
<1>7. \A n \in C \cup {Head} : next'[n] = next[n] /\ prev'[n] = prev[n]
  BY <1>4, <1>5, <1>6, Addresses
<1>8. Ring(next', prev', C)
  BY <1>4, <1>7, RingApart
<1>9. Ring(next, prev, C)' /\ Tally(C, {})'
  BY <1>1, <1>4, <1>8 DEF Ring, Tally
<1>10. /\ item'[t] \notin C /\ tail'[t] = prev'[Head] /\ (\A c \in C : itemKey'[c] # key'[t])
       /\ next'[item'[t]] = Head /\ prev'[item'[t]] = tail'[t]
  BY <1>1, <1>4, <1>6, <1>7
<1>11. Progress(t, C)'
  BY <1>3, <1>9, <1>10 DEF Progress
<1> QED
  BY <1>1, <1>2, <1>3, <1>11 DEF Bucket

\* The last node is made to lead to the item.
LEMMA SerialForward ==
  ASSUME Types, Owners, NEW C, Bucket(C), NEW t \in Inserting, LinkForward(t)
  PROVE  Bucket(C)'
<1>1. /\ t \in Threads /\ At(t, "forward", "back") /\ next' = [next EXCEPT ![tail[t]] = item[t]]
      /\ UNCHANGED <<prev, itemKey, used, key, item, tail, inserted>>
  BY DEF Inserting, LinkForward, locals, history
<1>2. Inserting = {t} /\ Progress(t, C) /\ C \subseteq 1..used
  BY BucketOf
<1>3. Inserting' = {t} /\ pc'[t] = "back" /\ pc[t] = "forward"
  BY <1>1, <1>2, OneInserting
<1>4. /\ Ring(next, prev, C) /\ Tally(C, {}) /\ item[t] \notin C /\ tail[t] = prev[Head]
      /\ next[item[t]] = Head /\ prev[item[t]] = tail[t]
      /\ \A c \in C : itemKey[c] # key[t]
  BY <1>2, <1>3 DEF Progress
<1>5. item[t] \in Items /\ C \subseteq Nodes
  BY <1>2, Addresses DEF Owners, Types
<1>6. tail[t] \in C \cup {Head} /\ next[tail[t]] = Head
  BY <1>4 DEF Ring
<1>7. item[t] # tail[t] /\ tail[t] \in Nodes
  BY <1>4, <1>5, <1>6, Addresses
<1>8. next'[tail[t]] = item[t] /\ next'[item[t]] = Head
  BY <1>1, <1>4, <1>5, <1>7, Addresses DEF Types
<1>9. [next' EXCEPT ![tail[t]] = Head] = next
  BY <1>1, <1>6, <1>7 DEF Types
<1>10. Ring([next' EXCEPT ![tail'[t]] = Head], prev', C)
  BY <1>1, <1>4, <1>9
<1>11. Ring([next EXCEPT ![tail[t]] = Head], prev, C)'
  BY <1>10 DEF Ring
<1>12. Tally(C, {})'
  BY <1>1, <1>4 DEF Tally
<1>13. /\ item'[t] \notin C /\ tail'[t] = prev'[Head] /\ (\A c \in C : itemKey'[c] # key'[t])
       /\ next'[item'[t]] = Head /\ prev'[item'[t]] = tail'[t]
       /\ tail'[t] \in C \cup {Head} /\ next'[tail'[t]] = item'[t]
  BY <1>1, <1>4, <1>6, <1>8
<1>14. Progress(t, C)'
  BY <1>3, <1>11, <1>12, <1>13 DEF Progress
<1> QED
  BY <1>1, <1>2, <1>3, <1>14 DEF Bucket

\* One more item and one more key.
LEMMA TallyGrows ==
  ASSUME Types, NEW C, C \subseteq Items, Tally(C, {}), NEW i \in Items, i \notin C,
         NEW k, k = itemKey[i], \A c \in C : itemKey[c] # k
  PROVE  Tally(C \cup {i}, {k}) /\ k \notin inserted
<1>1. k \notin inserted
  BY DEF Tally
<1>2. {itemKey[c] : c \in C \cup {i}} = inserted \cup {k}
  BY DEF Tally
<1>3. IsFiniteSet(C) /\ Cardinality(C) \in Nat
  <2>1. IsFiniteSet(Items)
    BY Addresses, FS_Interval
  <2> QED
    BY <2>1, FS_Subset, FS_CardinalityType
<1>4. Cardinality(C \cup {i}) = Cardinality(C) + 1
  BY <1>3, FS_AddElement
<1>5. Cardinality({k}) = 1 /\ Cardinality({}) = 0
  BY FS_Singleton, FS_EmptySet
<1>6. IsFiniteSet(inserted) /\ Cardinality(inserted) \in Nat
  BY FS_CardinalityType DEF Tally
<1> QED
  BY <1>1, <1>2, <1>3, <1>4, <1>5, <1>6 DEF Tally, Types

\* The head is made to lead back to the item, which closes the ring.
LEMMA SerialBack ==
  ASSUME Types, Owners, NEW C, C \subseteq Items, Bucket(C), NEW t \in Inserting, LinkBack(t)
  PROVE  \E D \in SUBSET Items : Bucket(D)'
<1>1. /\ t \in Threads /\ At(t, "back", "load") /\ prev' = [prev EXCEPT ![Head] = item[t]]
      /\ UNCHANGED <<next, itemKey, used, key, item, tail, inserted>>
  BY DEF Inserting, LinkBack, locals, history
<1>2. Inserting = {t} /\ Progress(t, C) /\ C \subseteq 1..used
  BY BucketOf
<1>3. Inserting' = {t} /\ pc'[t] = "load" /\ pc[t] = "back"
  BY <1>1, <1>2, OneInserting
<1>4. /\ Ring([next EXCEPT ![tail[t]] = Head], prev, C) /\ Tally(C, {}) /\ item[t] \notin C
      /\ tail[t] = prev[Head] /\ tail[t] \in C \cup {Head} /\ next[tail[t]] = item[t]
      /\ next[item[t]] = Head /\ prev[item[t]] = tail[t]
      /\ \A c \in C : itemKey[c] # key[t]
  BY <1>2, <1>3 DEF Progress
<1>5. item[t] \in 1..used /\ item[t] \in Items /\ itemKey[item[t]] = key[t]
  BY Addresses DEF Owners, Types
<1>6. PICK i, h, nx, pv, k : i = item[t] /\ h = tail[t] /\ nx = next /\ pv = prev /\ k = key[t]
  OBVIOUS
<1>7. PICK D \in SUBSET Items : D = C \cup {i}
  BY <1>5, <1>6
<1>8. Ring(nx, [pv EXCEPT ![Head] = i], D)
  <2>1. /\ nx \in [Nodes -> Nodes \cup {Null}] /\ pv \in [Nodes -> Nodes \cup {Null}]
        /\ i \in Items /\ i \notin C /\ h \in C \cup {Head}
        /\ Ring([nx EXCEPT ![h] = Head], pv, C)
        /\ nx[h] = i /\ nx[i] = Head /\ pv[i] = h /\ pv[Head] = h
    BY <1>4, <1>5, <1>6 DEF Types
  <2> QED
    BY <1>7, <2>1, RingGrows
<1>9. Ring(next, prev, D)'
  BY <1>1, <1>6, <1>8 DEF Ring
<1>10. Tally(D, {k}) /\ k \notin inserted
  BY <1>4, <1>5, <1>6, <1>7, TallyGrows
<1>11. Tally(D, {key[t]})' /\ key'[t] \notin inserted'
  BY <1>1, <1>6, <1>10 DEF Tally
<1>12. Progress(t, D)'
  BY <1>3, <1>9, <1>11 DEF Progress
<1> QED
  BY <1>1, <1>2, <1>3, <1>5, <1>6, <1>7, <1>12 DEF Bucket

\* The counter is read ...
LEMMA SerialLoad ==
  ASSUME Types, NEW C, Bucket(C), NEW t \in Inserting, CountLoad(t)
  PROVE  Bucket(C)'
<1>1. t \in Threads /\ At(t, "load", "store") /\ UNCHANGED <<table, history, key>>
  BY DEF Inserting, CountLoad, Types
<1>2. Inserting = {t} /\ Progress(t, C) /\ C \subseteq 1..used
  BY BucketOf
<1>3. Inserting' = {t} /\ pc'[t] = "store" /\ pc[t] = "load"
  BY <1>1, <1>2, OneInserting
<1>4. Ring(next, prev, C) /\ Tally(C, {key[t]}) /\ key[t] \notin inserted
  BY <1>2, <1>3 DEF Progress
<1>5. Ring(next, prev, C)' /\ Tally(C, {key[t]})' /\ key'[t] \notin inserted'
  BY <1>1, <1>4 DEF Ring, Tally, table, history
<1>6. Progress(t, C)'
  BY <1>3, <1>5 DEF Progress
<1> QED
  BY <1>1, <1>2, <1>3, <1>6 DEF Bucket, table

\* ... and written, and the key is in the table.
LEMMA SerialStore ==
  ASSUME Types, NEW C, Bucket(C), NEW t \in Inserting, CountStore(t)
  PROVE  Bucket(C)'
<1>1. /\ t \in Threads /\ At(t, "store", "idle") /\ UNCHANGED <<next, prev, itemKey, used>>
      /\ inserted' = inserted \cup {key[t]}
  BY DEF Inserting, CountStore, Finish
<1>2. Inserting = {t} /\ Progress(t, C) /\ C \subseteq 1..used
  BY BucketOf
<1>3. Inserting' = {} /\ pc[t] = "store"
  BY <1>1, <1>2, NoneInserting
<1>4. Ring(next, prev, C) /\ Tally(C, {key[t]}) /\ key[t] \notin inserted
  BY <1>2, <1>3 DEF Progress
<1>5. Ring(next, prev, C)'
  BY <1>1, <1>4 DEF Ring
<1>6. Tally(C, {})'
  <2>1. PICK k : k = key[t]
    OBVIOUS
  <2>2. Cardinality({k}) = 1 /\ Cardinality({}) = 0
    BY FS_Singleton, FS_EmptySet
  <2>3. IsFiniteSet(inserted) /\ Cardinality(inserted) \in Nat
    BY <1>4, FS_CardinalityType DEF Tally
  <2>4. IsFiniteSet(inserted \cup {k}) /\ Cardinality(inserted \cup {k}) = Cardinality(inserted) + 1
    BY <1>4, <2>1, <2>3, FS_AddElement
  <2>5. {itemKey[c] : c \in C} = (inserted \cup {k}) \cup {}
    BY <1>4, <2>1 DEF Tally
  <2>6. Cardinality(C) = Cardinality(inserted) + 1
    BY <1>4, <2>1, <2>2 DEF Tally
  <2> QED
    BY <1>1, <1>4, <2>1, <2>2, <2>3, <2>4, <2>5, <2>6 DEF Tally, Types
<1> QED
  BY <1>1, <1>2, <1>3, <1>5, <1>6 DEF Bucket

\* Every step keeps the bucket exact as long as no inserts overlap.
LEMMA SerialKept ==
  ASSUME Types, Owners, Ordered, Serial, Next
  PROVE  Serial'
<1> SUFFICES ASSUME ready', ~overlap'
             PROVE  \E C \in SUBSET Items : Bucket(C)'
  BY DEF Serial
<1>1. CASE PE_CACHE_Init
  <2>1. Inserting' = {}
    BY <1>1 DEF PE_CACHE_Init, Inserting
  <2>2. next'[Head] = Head /\ prev'[Head] = Head
    BY <1>1, Addresses DEF PE_CACHE_Init, Types
  <2>3. Ring(next, prev, {})'
    BY <2>2 DEF Ring
  <2>4. IsFiniteSet({}) /\ Cardinality({}) = 0
    BY FS_EmptySet
  <2>5. inserted' = {}
    BY <1>1 DEF PE_CACHE_Init, Types
  <2>6. Tally({}, {})'
    BY <2>4, <2>5 DEF Tally
  <2>7. Bucket({})'
    BY <2>1, <2>3, <2>6 DEF Bucket
  <2> QED
    BY <2>7
<1>2. ASSUME NEW t \in Threads,
             \/ GetFileInfoEx(t) \/ Begin(t) \/ Return(t) \/ Go(t) \/ QueryMiss(t) \/ InsertMiss(t)
             \/ InsertLock(t) \/ LinkTail(t) \/ LinkItem(t) \/ LinkForward(t) \/ LinkBack(t)
             \/ CountLoad(t) \/ CountStore(t)
      PROVE  \E C \in SUBSET Items : Bucket(C)'
  <2>1. ready /\ ~overlap
    <3>1. CASE InsertLock(t)
      BY <3>1 DEF InsertLock, Types
    <3>2. CASE GetFileInfoEx(t) \/ Begin(t) \/ Return(t) \/ Go(t) \/ QueryMiss(t) \/ InsertMiss(t)
      <4>1. UNCHANGED <<table, history>>
        BY <3>2 DEF GetFileInfoEx, Begin, Return, Go, QueryMiss, InsertMiss
      <4> QED
        BY <4>1 DEF table, history
    <3>3. CASE LinkTail(t) \/ CountLoad(t)
      <4>1. UNCHANGED <<table, history>>
        BY <3>3 DEF LinkTail, CountLoad
      <4> QED
        BY <4>1 DEF table, history
    <3>4. CASE LinkItem(t) \/ LinkForward(t) \/ LinkBack(t)
      <4>1. UNCHANGED <<ready, history>>
        BY <3>4 DEF LinkItem, LinkForward, LinkBack
      <4> QED
        BY <4>1 DEF history
    <3>5. CASE CountStore(t)
      BY <3>5 DEF CountStore
    <3> QED
      BY <1>2, <3>1, <3>2, <3>3, <3>4, <3>5
  <2>2. PICK C \in SUBSET Items : Bucket(C)
    BY <2>1 DEF Serial
  <2>3. CASE t \notin Inserting /\ (GetFileInfoEx(t) \/ Begin(t) \/ Return(t) \/ Go(t) \/ QueryMiss(t))
    <3>1. /\ UNCHANGED <<table, history>>
          /\ \A u \in Threads : u # t => /\ pc'[u] = pc[u] /\ key'[u] = key[u] /\ entry'[u] = entry[u]
                                         /\ tail'[u] = tail[u] /\ item'[u] = item[u] /\ count'[u] = count[u]
      <4> USE DEF Types, At, Finish
      <4>1. CASE GetFileInfoEx(t)
        BY <4>1 DEF GetFileInfoEx
      <4>2. CASE Begin(t)
        BY <4>2 DEF Begin
      <4>3. CASE Return(t)
        BY <4>3 DEF Return
      <4>4. CASE Go(t)
        BY <4>4 DEF Go
      <4>5. CASE QueryMiss(t)
        BY <4>5 DEF QueryMiss
      <4> QED
        BY <2>3, <4>1, <4>2, <4>3, <4>4, <4>5
    <3>2. pc'[t] \in {"idle", "query", "qwalk", "insert"}
      BY <2>3 DEF GetFileInfoEx, Begin, Return, Go, QueryMiss, Types, At, Finish, Inserting
    <3>3. Inserting' = Inserting
      BY <2>3, <3>1, <3>2 DEF Inserting
    <3>4. Bucket(C)'
      BY <2>2, <2>3, <3>1, <3>3, BucketApart
    <3> QED
      BY <2>2, <3>4
  <2>4. CASE t \in Inserting /\ Return(t)
    BY <2>2, <2>4, SerialReturn
  <2>5. CASE t \in Inserting /\ Go(t)
    BY <2>2, <2>5, SerialGo
  <2>6. CASE InsertMiss(t)
    <3>1. t \in Inserting
      BY <2>6 DEF InsertMiss, At, Inserting
    <3> QED
      BY <2>2, <2>6, <3>1, SerialMiss
  <2>7. CASE InsertLock(t)
    BY <2>2, <2>7, SerialLock
  <2>8. CASE LinkTail(t)
    <3>1. t \in Inserting
      BY <2>8 DEF LinkTail, At, Inserting
    <3> QED
      BY <2>2, <2>8, <3>1, SerialTail
  <2>9. CASE LinkItem(t)
    <3>1. t \in Inserting
      BY <2>9 DEF LinkItem, At, Inserting
    <3> QED
      BY <2>2, <2>9, <3>1, SerialItem
  <2>10. CASE LinkForward(t)
    <3>1. t \in Inserting
      BY <2>10 DEF LinkForward, At, Inserting
    <3> QED
      BY <2>2, <2>10, <3>1, SerialForward
  <2>11. CASE LinkBack(t)
    <3>1. t \in Inserting
      BY <2>11 DEF LinkBack, At, Inserting
    <3> QED
      BY <2>2, <2>11, <3>1, SerialBack
  <2>12. CASE CountLoad(t)
    <3>1. t \in Inserting
      BY <2>12 DEF CountLoad, At, Inserting
    <3> QED
      BY <2>2, <2>12, <3>1, SerialLoad
  <2>13. CASE CountStore(t)
    <3>1. t \in Inserting
      BY <2>13 DEF CountStore, Finish, At, Inserting
    <3> QED
      BY <2>2, <2>13, <3>1, SerialStore
  <2>14. CASE t \in Inserting /\ (GetFileInfoEx(t) \/ Begin(t) \/ QueryMiss(t))
    BY <2>14 DEF GetFileInfoEx, Begin, QueryMiss, At, Inserting
  <2> QED
    BY <1>2, <2>3, <2>4, <2>5, <2>6, <2>7, <2>8, <2>9, <2>10, <2>11, <2>12, <2>13, <2>14
<1> QED
  BY <1>1, <1>2, StepCases

\* While no insert is under way and none have overlapped, the bucket is exact.
LEMMA InvCacheExact ==
  ASSUME IInv
  PROVE  CacheExact
<1> SUFFICES ASSUME ready, ~overlap, Inserting = {}
             PROVE  /\ {itemKey[i] : i \in Chain} = inserted
                    /\ Cardinality(Chain) = Cardinality(inserted)
                    /\ \A n \in Chain \cup {Head} : prev[next[n]] = n /\ next[prev[n]] = n
  BY DEF CacheExact
<1>1. PICK C \in SUBSET Items : Ring(next, prev, C) /\ Tally(C, {})
  BY DEF IInv, Serial, Bucket
<1>2. PICK f \in [Nodes -> 0..MaxItems] : Ranks(f)
  BY DEF IInv, Ordered
<1>3. Behind[MaxItems] = Head
  BY InvSearchesEnd DEF IInv, SearchesEnd
<1>4. MaxItems \in Nat
  BY Addresses
<1>5. \A n \in 0..MaxItems : Behind[n] \in C \cup {Head}
  <2> DEFINE S == {n \in Nat : n \in 0..MaxItems => Behind[n] \in C \cup {Head}}
  <2>1. 0 \in S
    BY <1>1, BehindIs DEF Ring
  <2>2. ASSUME NEW n \in Nat, n \in S
        PROVE  n + 1 \in S
    <3> SUFFICES ASSUME n + 1 \in 0..MaxItems
                 PROVE  Behind[n + 1] \in C \cup {Head}
      OBVIOUS
    <3>1. n \in 0..MaxItems /\ n + 1 \in 1..MaxItems /\ (n + 1) - 1 = n
      BY <1>4
    <3>2. Behind[n] \in C \cup {Head} /\ Behind[n + 1] = After(next, Behind[n])
      BY <2>2, <3>1, BehindIs
    <3> QED
      BY <1>1, <3>2 DEF Ring, After
  <2> HIDE DEF S
  <2>3. \A n \in Nat : n \in S
    BY <2>1, <2>2, InductiveSet
  <2> QED
    BY <2>3 DEF S
<1>6. PICK V : V = {Behind[n] : n \in 0..MaxItems} \cup {Head}
  OBVIOUS
<1>7. ASSUME NEW n \in V
      PROVE  next[n] \in V
  <2>1. CASE n = Head
    BY <1>4, <1>6, <2>1, BehindIs
  <2>2. CASE n # Head
    <3>1. PICK k \in 0..MaxItems : n = Behind[k]
      BY <1>6, <1>7, <2>2
    <3>2. k # MaxItems
      BY <1>3, <2>2, <3>1
    <3>3. k + 1 \in 1..MaxItems /\ k + 1 \in 0..MaxItems /\ (k + 1) - 1 = k
      BY <1>4, <3>2
    <3>4. n \in Items
      BY <1>5, <2>2, <3>1
    <3>5. Behind[k + 1] = next[n]
      BY <3>1, <3>3, <3>4, BehindIs, Addresses DEF After
    <3> QED
      BY <1>6, <3>3, <3>5
  <2> QED
    BY <2>1, <2>2
<1>8. C \subseteq V
  <2>1. Head \in V /\ C \subseteq Items
    BY <1>6
  <2>2. \A n \in Nodes : next[n] \in Items => f[n] < f[next[n]]
    BY <1>2 DEF Ranks
  <2>3. PICK nx, pv : nx = next /\ pv = prev
    OBVIOUS
  <2>4. \A n \in V : n \in C \cup {Head} => nx[n] \in V
    BY <1>7, <2>3
  <2> QED
    BY <1>1, <1>2, <2>1, <2>2, <2>3, <2>4, RingIsReached
<1>9. Chain = C
  <2>1. PICK B : B = {Behind[n] : n \in 0..MaxItems}
    OBVIOUS
  <2>2. B \subseteq C \cup {Head}
    BY <1>5, <2>1
  <2>3. C \subseteq B \cup {Head}
    BY <1>6, <1>8, <2>1
  <2> QED
    BY <2>1, <2>2, <2>3, Addresses DEF Chain
<1>10. Cardinality({}) = 0 /\ Cardinality(C) \in Nat /\ Cardinality(inserted) \in Nat
  <2>1. IsFiniteSet(Items)
    BY Addresses, FS_Interval
  <2>2. IsFiniteSet(C) /\ IsFiniteSet(inserted)
    BY <1>1, <2>1, FS_Subset DEF Tally
  <2> QED
    BY <2>2, FS_CardinalityType, FS_EmptySet
<1>11. /\ {itemKey[c] : c \in C} = inserted /\ Cardinality(C) = Cardinality(inserted)
  BY <1>1, <1>10 DEF Tally, IInv, Types
<1>12. \A n \in C \cup {Head} : prev[next[n]] = n /\ next[prev[n]] = n
  BY <1>1 DEF Ring
<1> QED
  BY <1>9, <1>11, <1>12

-----------------------------------------------------------------------------
(* The theorems.                                                             *)

(* The invariants above hold in every state of every behaviour.              *)
THEOREM Invariance == Spec => []IInv
<1>1. Init => IInv
  <2> SUFFICES ASSUME Init
               PROVE  IInv
    OBVIOUS
  <2>1. Types
    <3>1. 0 \in 0..MaxItems /\ "idle" \in Labels
      BY Addresses DEF Labels
    <3> QED
      BY <3>1, Addresses DEF Init, Types
  <2>2. Owners /\ NoWildPointer
    BY Addresses DEF Init, Owners, NoWildPointer, Inserting
  <2>3. Ordered
    <3> DEFINE f == [n \in Nodes |-> 0]
    <3>1. f \in [Nodes -> 0..MaxItems] /\ \A n \in Nodes : f[n] = 0 /\ next[n] = Null
      BY Addresses DEF Init
    <3>2. Cardinality(Unranked(f)) = MaxItems
      <4>1. Unranked(f) = 1..MaxItems
        BY <3>1, Addresses DEF Unranked
      <4>2. \A m \in Nat : Cardinality(1..m) = m
        BY FS_Interval
      <4> QED
        BY <4>1, <4>2, Addresses
    <3> HIDE DEF f
    <3>3. Ranks(f)
      BY <3>1, <3>2, Addresses DEF Ranks, Init
    <3> QED
      BY <3>1, <3>3 DEF Ordered
  <2>4. Serial
    BY DEF Init, Serial
  <2> QED
    BY <2>1, <2>2, <2>3, <2>4 DEF IInv
<1>2. IInv /\ [Next]_vars => IInv'
  <2> SUFFICES ASSUME IInv, [Next]_vars
               PROVE  IInv'
    OBVIOUS
  <2>1. CASE Next
    BY <2>1, TypesKept, OwnersKept, NoWildPointerKept, OrderedKept, SerialKept DEF IInv
  <2>2. CASE UNCHANGED vars
    <3>1. Types' /\ Owners' /\ NoWildPointer'
      BY <2>2 DEF vars, table, locals, history, IInv, Types, Owners, NoWildPointer, Complete, Inserting
    <3>2. Ordered'
      BY <2>2 DEF vars, table, locals, IInv, Ordered, Ranks, Unranked
    <3>3. \A C \in SUBSET Items : Bucket(C) => Bucket(C)'
      <4> SUFFICES ASSUME NEW C \in SUBSET Items, Bucket(C)
                   PROVE  Bucket(C)'
        OBVIOUS
      <4>1. UNCHANGED <<next, prev, itemKey, inserted, used, pc, key, entry, tail, item, count>>
        BY <2>2 DEF vars, table, locals, history
      <4>2. Inserting' = Inserting
        BY <4>1 DEF Inserting
      <4>3. ASSUME NEW u \in Inserting
            PROVE  Inserting = {u} /\ Progress(u, C)'
        <5>1. u \in Threads /\ Inserting = {u} /\ Progress(u, C)
          BY DEF Bucket, Inserting
        <5> QED
          BY <4>1, <5>1, ProgressApart
      <4>4. Inserting = {} => Ring(next, prev, C)' /\ Tally(C, {})'
        <5> SUFFICES ASSUME Inserting = {}
                     PROVE  Ring(next, prev, C)' /\ Tally(C, {})'
          OBVIOUS
        <5>1. Ring(next, prev, C) /\ Tally(C, {})
          BY DEF Bucket
        <5>2. Ring(next, prev, C)'
          BY <4>1, <5>1 DEF Ring
        <5>3. Tally(C, {})'
          BY <4>1, <5>1 DEF Tally
        <5> QED
          BY <5>2, <5>3
      <4> QED
        BY <4>1, <4>2, <4>3, <4>4 DEF Bucket
    <3>4. Serial'
      BY <2>2, <3>3 DEF vars, table, history, IInv, Serial
    <3> QED
      BY <3>1, <3>2, <3>4 DEF IInv
  <2> QED
    BY <2>1, <2>2
<1> QED
  BY <1>1, <1>2, PTL DEF Spec

(* However the unlocked links of __list_add_tail interleave, every search of   *)
(* the bucket, from its start or from the item a thread stands on, ends at the *)
(* head and never follows a NULL pointer: an item gets its place in the order  *)
(* when its thread reads the tail, and pointers only lead to later places      *)
(* (HashHelper.h 16-23, HashHelper.cpp 208-218, 268-279).                      *)
THEOREM SearchesTerminate == Spec => []SearchesEnd
<1>1. IInv => SearchesEnd
  BY InvSearchesEnd DEF IInv
<1> QED
  BY <1>1, Invariance, PTL

(* While no two inserts have overlapped the bucket is a doubly linked ring of *)
(* exactly the inserted keys, each once, for any number of threads and keys   *)
(* (HashHelper.cpp 207-236).                                                  *)
THEOREM SerialInsertsExact == Spec => []CacheExact
<1>1. IInv => CacheExact
  BY InvCacheExact
<1> QED
  BY <1>1, Invariance, PTL

=============================================================================
