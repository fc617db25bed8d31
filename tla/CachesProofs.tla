---------------------------- MODULE CachesProofs ----------------------------
(***************************************************************************)
(* Two caches, for any number of threads and whatever fails.  Currency     *)
(* names: the reference counts are exact, nothing that is in use is freed  *)
(* and every locale is cached once, for any number of locales and slots.   *)
(* StringPrep profiles: threads that load the same profile share one,      *)
(* whose count is exact and whose data stays open.                         *)
(***************************************************************************)
EXTENDS CurrencyCache, FiniteSetTheorems, TLAPS

InSlot(e) == \E i \in Slot : currCache[i] = e

OneSlot ==
  \A i, j \in Slot : currCache[i] # NULL /\ currCache[i] = currCache[j] => i = j

(* The reference count, with the slots counted as at most one.             *)
Counts ==
  \A e \in heap : refCount[e] = (IF InSlot(e) THEN 1 ELSE 0) + Cardinality(Readers(e))

Owned == \A e \in heap : InSlot(e) \/ Readers(e) # {}

CleanupPending == heap # {} => cleanup # NULL

(* RefCountsExact is not inductive by itself: that an entry with count one *)
(* has no other reader needs the slots to be distinct, and that an         *)
(* insertion does not touch a live entry needs NothingDangles.             *)
IInv ==
  /\ TypeOK /\ OneSlot /\ OneEntryPerLocale
  /\ NothingDangles /\ Counts /\ Owned /\ CleanupPending

-----------------------------------------------------------------------------
(* How the set of readers changes.                                         *)

\* The readers of an entry are finitely many, as the threads are.
LEMMA ReadersFinite ==
  ASSUME NEW e
  PROVE  IsFiniteSet(Readers(e)) /\ Cardinality(Readers(e)) \in Nat
<1>1. Readers(e) \in SUBSET Thread
  BY DEF Readers
<1>2. IsFiniteSet(Readers(e))
  BY <1>1, ThreadsAreFinite, FS_Subset, Zenon
<1> QED
  BY <1>2, FS_CardinalityType

\* A thread that takes a reference joins the readers of that entry only.
LEMMA Joins ==
  ASSUME TypeOK, NEW t \in Thread, NEW e \in Entry, pc[t] # "search",
         pc' = [pc EXCEPT ![t] = "search"],
         cacheEntry' = [cacheEntry EXCEPT ![t] = e]
  PROVE  /\ Cardinality(Readers(e)') = Cardinality(Readers(e)) + 1
         /\ Readers(e)' # {}
         /\ \A f \in Entry : f # e => Readers(f)' = Readers(f)
<1>1. Readers(e)' = Readers(e) \cup {t} /\ t \notin Readers(e)
  BY DEF Readers, TypeOK
<1>2. \A f \in Entry : f # e => Readers(f)' = Readers(f)
  BY DEF Readers, TypeOK
<1> QED
  BY <1>1, <1>2, ReadersFinite, FS_AddElement, ZenonT(40)

\* A thread that releases its reference leaves the readers of that entry only.
LEMMA Leaves ==
  ASSUME TypeOK, NEW t \in Thread, pc[t] = "search",
         NEW e \in Entry, e = cacheEntry[t],
         pc' = [pc EXCEPT ![t] = "idle"],
         cacheEntry' = [cacheEntry EXCEPT ![t] = NULL]
  PROVE  /\ t \in Readers(e)
         /\ Readers(e)' = Readers(e) \ {t}
         /\ Cardinality(Readers(e)') = Cardinality(Readers(e)) - 1
         /\ \A f \in Entry : f # e => Readers(f)' = Readers(f)
<1>1. Readers(e)' = Readers(e) \ {t} /\ t \in Readers(e)
  BY DEF Readers, TypeOK
<1>2. \A f \in Entry : f # e => Readers(f)' = Readers(f)
  BY DEF Readers, TypeOK
<1> QED
  BY <1>1, <1>2, ReadersFinite, FS_RemoveElement, ZenonT(40)

\* Other steps of a thread change no entry's readers.
LEMMA Stays ==
  ASSUME TypeOK, NEW t \in Thread, pc[t] # "search",
         NEW s, s # "search", pc' = [pc EXCEPT ![t] = s], cacheEntry' = cacheEntry
  PROVE  \A e : Readers(e)' = Readers(e)
BY DEF Readers, TypeOK

\* The entry that the search of the cache finds is a live one.
LEMMA CachingLive ==
  ASSUME IInv, NEW l, Cached(l) # {}
  PROVE  Caching(l) \in heap
<1>1. PICK i \in Cached(l) : TRUE
  OBVIOUS
<1>2. \A j \in Cached(l) : j = i
  BY DEF IInv, OneEntryPerLocale, Cached
<1>3. i \in Int
  BY CacheHasSlots DEF Cached, Slot
<1>4. \E j \in Cached(l) : \A k \in Cached(l) : j <= k
  BY <1>2, <1>3
<1>5. Caching(l) = currCache[i]
  BY <1>2, <1>4 DEF Caching
<1> QED
  BY <1>5 DEF IInv, NothingDangles, Cached

\* A finite set with an element has at least one, and with one no other.
LEMMA CountOfReaders ==
  ASSUME NEW S, IsFiniteSet(S), NEW t \in S
  PROVE  /\ Cardinality(S) \in Nat /\ Cardinality(S) >= 1
         /\ Cardinality(S) = 1 => S = {t}
<1>1. Cardinality(S) \in Nat
  BY FS_CardinalityType
<1>2. Cardinality(S) # 0
  BY FS_EmptySet
<1>3. ASSUME Cardinality(S) = 1 PROVE S = {t}
  BY <1>3, FS_Singleton
<1> QED
  BY <1>1, <1>2, <1>3

-----------------------------------------------------------------------------
(* The actions preserve the invariant.                                     *)

\* Taking a reference to a live entry, in the first search or in the second.
LEMMA ReferencePreserves ==
  ASSUME IInv, NEW t \in Thread, NEW e \in heap, pc[t] # "search",
         Reference(t, e),
         arg' \in [Thread -> Locale \cup {NULL}], cleanup' = cleanup \/ cleanup' # NULL,
         UNCHANGED <<currCache, currentCacheEntryIndex, heap, locale>>
  PROVE  IInv'
<1> e \in Entry
  BY DEF IInv, TypeOK
<1>1. TypeOK'
  <2>1. refCount' \in [Entry -> Int]
    BY DEF IInv, TypeOK, Reference
  <2>2. pc' \in [Thread -> PC] /\ cacheEntry' \in [Thread -> Entry \cup {NULL}]
    BY DEF IInv, TypeOK, Reference, PC
  <2> QED
    BY <2>1, <2>2 DEF IInv, TypeOK
<1>2. OneSlot' /\ OneEntryPerLocale'
  BY DEF IInv, OneSlot, OneEntryPerLocale
<1>3. NothingDangles'
  BY DEF IInv, NothingDangles, TypeOK, Reference
<1>4. /\ Cardinality(Readers(e)') = Cardinality(Readers(e)) + 1
      /\ Readers(e)' # {}
      /\ \A f \in Entry : f # e => Readers(f)' = Readers(f)
  BY Joins, ZenonT(40) DEF IInv, Reference
<1>5. \A f : InSlot(f)' = InSlot(f)
  BY DEF InSlot
<1>6. Counts'
  <2> SUFFICES ASSUME NEW f \in heap
               PROVE  refCount'[f] = (IF InSlot(f)' THEN 1 ELSE 0) + Cardinality(Readers(f)')
    BY DEF Counts
  <2>1. f \in Entry /\ refCount \in [Entry -> Int]
    BY DEF IInv, TypeOK
  <2>2. refCount[f] = (IF InSlot(f) THEN 1 ELSE 0) + Cardinality(Readers(f))
    BY DEF IInv, Counts
  <2>3. refCount'[f] = IF f = e THEN refCount[f] + 1 ELSE refCount[f]
    BY <2>1 DEF Reference
  <2> QED
    BY <1>4, <1>5, <2>1, <2>2, <2>3, ReadersFinite
<1>7. Owned'
  BY <1>4, <1>5 DEF IInv, Owned, TypeOK
<1>8. CleanupPending'
  BY DEF IInv, CleanupPending
<1> QED
  BY <1>1, <1>2, <1>3, <1>6, <1>7, <1>8 DEF IInv

\* Steps that touch neither the cache nor its readers preserve the invariant.
LEMMA Quiet ==
  ASSUME IInv, TypeOK', UNCHANGED <<currCache, heap, locale, refCount>>,
         \A e : Readers(e)' = Readers(e),
         \A t \in Thread : pc'[t] = "search" => pc[t] = "search" /\ cacheEntry'[t] = cacheEntry[t],
         cleanup' = cleanup \/ cleanup' # NULL
  PROVE  IInv'
<1>1. \A f : InSlot(f)' = InSlot(f)
  BY DEF InSlot
<1>2. OneSlot' /\ OneEntryPerLocale' /\ NothingDangles'
  BY DEF IInv, OneSlot, OneEntryPerLocale, NothingDangles
<1>3. Counts'
  BY <1>1 DEF IInv, Counts
<1>4. Owned' /\ CleanupPending'
  BY <1>1 DEF IInv, Owned, CleanupPending
<1> QED
  BY <1>2, <1>3, <1>4 DEF IInv

\* What the eviction in insert() does: the evicted entry is deleted exactly when
\* nobody reads it, and no other slot holds it.
LEMMA Eviction ==
  ASSUME IInv
  PROVE  /\ currentCacheEntryIndex \in Slot
         /\ Evicted = NULL => Deleted = {} /\ refsWithoutSlot = refCount
         /\ Evicted # NULL => /\ Evicted \in heap /\ Evicted \in Entry
                              /\ refsWithoutSlot = [refCount EXCEPT ![Evicted] = @ - 1]
                              /\ refCount[Evicted] = 1 + Cardinality(Readers(Evicted))
                              /\ Deleted = IF Readers(Evicted) = {} THEN {Evicted} ELSE {}
         /\ \A i \in Slot : i # currentCacheEntryIndex /\ Evicted # NULL
                               => currCache[i] # Evicted
<1>1. currentCacheEntryIndex \in Slot
  BY DEF IInv, TypeOK
<1>2. Evicted = NULL => Deleted = {} /\ refsWithoutSlot = refCount
  BY DEF Deleted, refsWithoutSlot
<1>3. \A i \in Slot : i # currentCacheEntryIndex /\ Evicted # NULL => currCache[i] # Evicted
  BY <1>1 DEF IInv, OneSlot, Evicted
<1>4. ASSUME Evicted # NULL
      PROVE  /\ Evicted \in heap /\ Evicted \in Entry
             /\ refsWithoutSlot = [refCount EXCEPT ![Evicted] = @ - 1]
             /\ refCount[Evicted] = 1 + Cardinality(Readers(Evicted))
             /\ Deleted = IF Readers(Evicted) = {} THEN {Evicted} ELSE {}
  <2>1. Evicted \in heap /\ Evicted \in Entry
    BY <1>1, <1>4 DEF IInv, TypeOK, NothingDangles, Evicted
  <2>2. refsWithoutSlot = [refCount EXCEPT ![Evicted] = @ - 1]
    BY <1>4 DEF refsWithoutSlot
  <2>3. InSlot(Evicted)
    BY <1>1 DEF InSlot, Evicted
  <2>4. refCount[Evicted] = 1 + Cardinality(Readers(Evicted))
    BY <2>1, <2>3 DEF IInv, Counts
  <2>5. refsWithoutSlot[Evicted] = Cardinality(Readers(Evicted))
    BY <2>1, <2>2, <2>4, ReadersFinite DEF IInv, TypeOK
  <2>6. Cardinality(Readers(Evicted)) = 0 <=> Readers(Evicted) = {}
    BY ReadersFinite, FS_EmptySet
  <2>7. Deleted = IF Readers(Evicted) = {} THEN {Evicted} ELSE {}
    BY <1>4, <2>5, <2>6 DEF Deleted
  <2> QED
    BY <2>1, <2>2, <2>4, <2>7
<1> QED
  BY <1>1, <1>2, <1>3, <1>4

\* The counts stay integers.
LEMMA RefsTyped ==
  ASSUME IInv
  PROVE  refsWithoutSlot \in [Entry -> Int]
<1>1. refCount \in [Entry -> Int]
  BY DEF IInv, TypeOK
<1>2. CASE Evicted = NULL
  BY <1>1, <1>2, Eviction
<1>3. CASE Evicted # NULL
  <2>1. refsWithoutSlot = [refCount EXCEPT ![Evicted] = @ - 1] /\ Evicted \in Entry
    BY <1>3, Eviction
  <2> QED
    BY <1>1, <2>1
<1> QED
  BY <1>2, <1>3

\* Entries other than the evicted one keep their slot, and nothing that is read
\* or in another slot is deleted.
LEMMA Kept ==
  ASSUME IInv
  PROVE  /\ \A t \in Thread : pc[t] = "search" => cacheEntry[t] \in heap \ Deleted
         /\ \A i \in Slot : i # currentCacheEntryIndex /\ currCache[i] # NULL
                               => currCache[i] \in heap \ Deleted
<1>1. \A t \in Thread : pc[t] = "search" => cacheEntry[t] \in heap /\ t \in Readers(cacheEntry[t])
  BY DEF IInv, NothingDangles, Readers
<1>2. \A i \in Slot : currCache[i] # NULL => currCache[i] \in heap
  BY DEF IInv, NothingDangles
<1>3. \A f \in Deleted : Evicted # NULL /\ f = Evicted /\ Readers(f) = {}
  BY Eviction
<1>4. \A i \in Slot : i # currentCacheEntryIndex /\ Evicted # NULL => currCache[i] # Evicted
  BY Eviction
<1> QED
  BY <1>1, <1>2, <1>3, <1>4

\* Inserting a new entry: the address may be one that the eviction has freed.
LEMMA InsertNewPreserves ==
  ASSUME IInv, NEW t \in Thread, NEW e \in Entry, pc[t] = "insert",
         Cached(arg[t]) = {}, insertNew(t, e), UNCHANGED arg
  PROVE  IInv'
<1> DEFINE x == currentCacheEntryIndex
<1>1. e \notin heap \ Deleted
  BY DEF insertNew
<1>2. Readers(e) = {}
  <2>1. CASE e \in heap
    BY <1>1, <2>1, Eviction
  <2>2. CASE e \notin heap
    BY <2>2 DEF IInv, NothingDangles, Readers
  <2> QED
    BY <2>1, <2>2
<1>3. /\ x \in Slot /\ currCache \in [Slot -> Entry \cup {NULL}]
      /\ currCache' = [currCache EXCEPT ![x] = e]
  BY Eviction DEF insertNew, IInv, TypeOK
<1>4. \A i \in Slot : i # x => currCache'[i] = currCache[i] /\ currCache[i] # e
  BY <1>1, <1>3, Kept, NullIsNothing
<1>5. currCache'[x] = e /\ e # NULL
  BY <1>3, NullIsNothing
<1>6. TypeOK'
  <2>1. refCount' \in [Entry -> Int]
    <3>1. refsWithoutSlot \in [Entry -> Int]
      BY RefsTyped
    <3> QED
      BY <3>1 DEF insertNew
  <2>2. pc' \in [Thread -> PC] /\ cacheEntry' \in [Thread -> Entry \cup {NULL}]
    BY DEF IInv, TypeOK, insertNew, PC
  <2>3. locale' \in [Entry -> Locale \cup {NULL}] /\ heap' \subseteq Entry
    BY DEF IInv, TypeOK, insertNew
  <2>4. nextIndex \in Slot
    BY <1>3, CacheHasSlots DEF nextIndex, Slot
  <2>5. currentCacheEntryIndex' \in Slot /\ currCache' \in [Slot -> Entry \cup {NULL}]
    BY <1>3, <2>4 DEF insertNew
  <2> QED
    BY <2>1, <2>2, <2>3, <2>5 DEF IInv, TypeOK
<1>7. OneSlot'
  BY <1>4, <1>5 DEF IInv, OneSlot
<1>8. OneEntryPerLocale'
  <2>1. locale'[e] = arg[t] /\ \A f \in Entry : f # e => locale'[f] = locale[f]
    BY DEF IInv, TypeOK, insertNew
  <2>2. \A i \in Slot : i # x /\ currCache[i] # NULL
                           => currCache[i] \in Entry /\ locale[currCache[i]] # arg[t]
    BY <1>3 DEF Cached
  <2>3. \A i \in Slot : i # x /\ currCache'[i] # NULL
                           => /\ currCache[i] # NULL /\ currCache'[i] = currCache[i]
                              /\ locale'[currCache'[i]] = locale[currCache[i]]
                              /\ locale[currCache[i]] # arg[t]
    BY <1>4, <2>1, <2>2
  <2> QED
    BY <1>5, <2>1, <2>3 DEF IInv, OneEntryPerLocale
<1>9. /\ Cardinality(Readers(e)') = Cardinality(Readers(e)) + 1
      /\ Readers(e)' # {}
      /\ \A f \in Entry : f # e => Readers(f)' = Readers(f)
  BY Joins, ZenonT(40) DEF IInv, insertNew
<1>10. NothingDangles'
  <2>1. \A u \in Thread : u # t => pc'[u] = pc[u] /\ cacheEntry'[u] = cacheEntry[u]
    BY DEF insertNew, IInv, TypeOK
  <2>2. cacheEntry'[t] = e /\ e \in heap' /\ heap \ Deleted \subseteq heap'
    BY DEF insertNew, IInv, TypeOK
  <2> QED
    BY <1>4, <1>5, <2>1, <2>2, Kept DEF NothingDangles
<1>11. \A f \in Entry : f # e => (InSlot(f)' <=> InSlot(f) /\ f # Evicted)
  <2>1. \A i \in Slot : currCache[i] = Evicted => Evicted = NULL \/ i = x
    BY Eviction
  <2>2. currCache[x] = Evicted
    BY DEF Evicted
  <2> QED
    BY <1>3, <1>4, <1>5, <2>1, <2>2, NullIsNothing DEF InSlot
<1>12. InSlot(e)'
  BY <1>3, <1>5 DEF InSlot
<1>13. \A f \in heap' : f # e => f \in heap /\ f \notin Deleted /\ f \in Entry
  BY DEF insertNew, IInv, TypeOK
<1>14. Counts'
  <2> SUFFICES ASSUME NEW f \in heap'
               PROVE  refCount'[f] = (IF InSlot(f)' THEN 1 ELSE 0) + Cardinality(Readers(f)')
    BY DEF Counts
  <2>1. CASE f = e
    <3>1. Cardinality(Readers(e)) = 0
      BY <1>2, FS_EmptySet
    <3>2. refCount'[e] = 2
      BY DEF insertNew, refsWithoutSlot, IInv, TypeOK
    <3> QED
      BY <1>9, <1>12, <2>1, <3>1, <3>2
  <2>2. CASE f # e
    <3>1. f \in heap /\ f \in Entry /\ refCount \in [Entry -> Int]
      BY <1>13, <2>2 DEF IInv, TypeOK
    <3>2. refCount'[f] = refsWithoutSlot[f]
      BY <2>2, <3>1 DEF insertNew, refsWithoutSlot
    <3>3. refCount[f] = (IF InSlot(f) THEN 1 ELSE 0) + Cardinality(Readers(f))
      BY <3>1 DEF IInv, Counts
    <3>4. Readers(f)' = Readers(f)
      BY <1>9, <2>2, <3>1
    <3>5. CASE f # Evicted
      <4>1. refsWithoutSlot[f] = refCount[f]
        BY <3>1, <3>5 DEF refsWithoutSlot
      <4> QED
        BY <1>11, <2>2, <3>1, <3>2, <3>3, <3>4, <3>5, <4>1
    <3>6. CASE f = Evicted
      <4>1. Evicted # NULL
        BY <3>1, <3>6, NullIsNothing
      <4>2. refsWithoutSlot[f] = refCount[f] - 1 /\ refCount[f] = 1 + Cardinality(Readers(f))
        BY <3>1, <3>6, <4>1, Eviction
      <4>3. ~ InSlot(f)'
        BY <1>11, <2>2, <3>1, <3>6
      <4> QED
        BY <3>2, <3>4, <4>2, <4>3, ReadersFinite
    <3> QED
      BY <3>5, <3>6
  <2> QED
    BY <2>1, <2>2
<1>15. Owned'
  <2> SUFFICES ASSUME NEW f \in heap', f # e
               PROVE  InSlot(f)' \/ Readers(f)' # {}
    BY <1>12 DEF Owned
  <2>1. f \in heap /\ f \notin Deleted /\ f \in Entry /\ Readers(f)' = Readers(f)
    BY <1>9, <1>13
  <2>2. CASE f # Evicted
    BY <1>11, <2>1, <2>2 DEF IInv, Owned
  <2>3. CASE f = Evicted
    BY <2>1, <2>3, Eviction, NullIsNothing
  <2> QED
    BY <2>2, <2>3
<1>16. CleanupPending'
  BY NullIsNothing DEF CleanupPending, insertNew
<1> QED
  BY <1>6, <1>7, <1>8, <1>10, <1>14, <1>15, <1>16 DEF IInv


\* Running out of memory for the new entry leaves the slot empty, and the counts
\* right.
LEMMA InsertFailsPreserves ==
  ASSUME IInv, NEW t \in Thread, pc[t] = "insert", insertFails(t), UNCHANGED arg
  PROVE  IInv'
<1> DEFINE x == currentCacheEntryIndex
<1>1. /\ x \in Slot /\ currCache \in [Slot -> Entry \cup {NULL}]
      /\ currCache' = [currCache EXCEPT ![x] = NULL]
  BY Eviction DEF insertFails, IInv, TypeOK
<1>2. currCache'[x] = NULL /\ \A i \in Slot : i # x => currCache'[i] = currCache[i]
  BY <1>1
<1>3. TypeOK'
  <2>1. refCount' \in [Entry -> Int]
    BY RefsTyped DEF insertFails
  <2>2. pc' \in [Thread -> PC] /\ heap' \subseteq Entry
    BY DEF IInv, TypeOK, insertFails, PC
  <2>3. currCache' \in [Slot -> Entry \cup {NULL}]
    BY <1>1
  <2> QED
    BY <2>1, <2>2, <2>3 DEF IInv, TypeOK, insertFails
<1>4. OneSlot'
  BY <1>2 DEF IInv, OneSlot
<1>5. OneEntryPerLocale'
  BY <1>2 DEF IInv, OneEntryPerLocale, insertFails
<1>6. NothingDangles'
  <2>1. \A u \in Thread : pc'[u] = "search" => pc[u] = "search"
    BY DEF insertFails, IInv, TypeOK
  <2>2. heap' = heap \ Deleted /\ cacheEntry' = cacheEntry
    BY DEF insertFails
  <2> QED
    BY <1>2, <2>1, <2>2, Kept DEF NothingDangles
<1>7. \A f : Readers(f)' = Readers(f)
  BY Stays, ZenonT(40) DEF insertFails, IInv
<1>8. \A f \in heap : InSlot(f)' <=> InSlot(f) /\ f # Evicted
  <2>1. \A i \in Slot : currCache[i] = Evicted => Evicted = NULL \/ i = x
    BY Eviction
  <2>2. currCache[x] = Evicted /\ NULL \notin heap
    BY NullIsNothing DEF Evicted, IInv, TypeOK
  <2> QED
    BY <1>1, <1>2, <2>1, <2>2 DEF InSlot
<1>9. Counts'
  <2> SUFFICES ASSUME NEW f \in heap'
               PROVE  refCount'[f] = (IF InSlot(f)' THEN 1 ELSE 0) + Cardinality(Readers(f)')
    BY DEF Counts
  <2>1. f \in heap /\ f \in Entry /\ refCount \in [Entry -> Int] /\ refCount' = refsWithoutSlot
    BY DEF insertFails, IInv, TypeOK
  <2>2. refCount[f] = (IF InSlot(f) THEN 1 ELSE 0) + Cardinality(Readers(f))
    BY <2>1 DEF IInv, Counts
  <2>3. CASE f # Evicted
    <3>1. refsWithoutSlot[f] = refCount[f]
      BY <2>1, <2>3 DEF refsWithoutSlot
    <3> QED
      BY <1>7, <1>8, <2>1, <2>2, <2>3, <3>1
  <2>4. CASE f = Evicted
    <3>1. Evicted # NULL
      BY <2>1, <2>4, NullIsNothing
    <3>2. refsWithoutSlot[f] = refCount[f] - 1 /\ refCount[f] = 1 + Cardinality(Readers(f))
      BY <2>1, <2>4, <3>1, Eviction
    <3> QED
      BY <1>7, <1>8, <2>1, <2>4, <3>2, ReadersFinite
  <2> QED
    BY <2>3, <2>4
<1>10. Owned'
  <2> SUFFICES ASSUME NEW f \in heap'
               PROVE  InSlot(f)' \/ Readers(f)' # {}
    BY DEF Owned
  <2>1. f \in heap /\ f \notin Deleted /\ f \in Entry
    BY DEF insertFails, IInv, TypeOK
  <2>2. CASE f # Evicted
    BY <1>7, <1>8, <2>1, <2>2 DEF IInv, Owned
  <2>3. CASE f = Evicted
    BY <1>7, <2>1, <2>3, Eviction, NullIsNothing
  <2> QED
    BY <2>2, <2>3
<1>11. CleanupPending'
  BY DEF IInv, CleanupPending, insertFails
<1> QED
  BY <1>3, <1>4, <1>5, <1>6, <1>9, <1>10, <1>11 DEF IInv

\* The last reader of an evicted entry frees it; any other only counts down.
LEMMA ReleasePreserves ==
  ASSUME IInv, NEW t \in Thread, release(t)
  PROVE  IInv'
<1>0. PICK e : e = cacheEntry[t]
  OBVIOUS
<1>1. pc[t] = "search" /\ e \in heap /\ e \in Entry
  BY <1>0 DEF release, IInv, NothingDangles, TypeOK
<1>2. /\ t \in Readers(e)
      /\ Readers(e)' = Readers(e) \ {t}
      /\ Cardinality(Readers(e)') = Cardinality(Readers(e)) - 1
      /\ \A f \in Entry : f # e => Readers(f)' = Readers(f)
  BY <1>0, <1>1, Leaves, ZenonT(40) DEF release, IInv
<1>3. /\ Cardinality(Readers(e)) \in Nat /\ Cardinality(Readers(e)) >= 1
      /\ Cardinality(Readers(e)) = 1 => Readers(e) = {t}
  BY <1>2, ReadersFinite, CountOfReaders
<1>4. \A f : InSlot(f)' = InSlot(f)
  BY DEF InSlot, release
<1>5. refCount[e] = (IF InSlot(e) THEN 1 ELSE 0) + Cardinality(Readers(e))
  BY <1>1 DEF IInv, Counts
<1>6. refCount[e] = 1 => ~ InSlot(e) /\ Readers(e) = {t}
  BY <1>3, <1>5
<1>7. heap' = IF refCount[e] = 1 THEN heap \ {e} ELSE heap
  BY <1>0 DEF release
<1>8. TypeOK'
  <2>1. refCount' \in [Entry -> Int]
    BY <1>0, <1>1 DEF IInv, TypeOK, release
  <2>2. pc' \in [Thread -> PC] /\ cacheEntry' \in [Thread -> Entry \cup {NULL}]
    BY DEF IInv, TypeOK, release, PC
  <2>3. arg' \in [Thread -> Locale \cup {NULL}] /\ heap' \subseteq Entry
    BY <1>7 DEF IInv, TypeOK, release
  <2> QED
    BY <2>1, <2>2, <2>3 DEF IInv, TypeOK, release
<1>9. OneSlot' /\ OneEntryPerLocale'
  BY DEF IInv, OneSlot, OneEntryPerLocale, release
<1>10. NothingDangles'
  <2>1. ASSUME NEW u \in Thread, pc'[u] = "search" PROVE cacheEntry'[u] \in heap'
    <3>1. u # t /\ pc[u] = "search" /\ cacheEntry'[u] = cacheEntry[u]
      BY <2>1 DEF release, IInv, TypeOK
    <3>2. cacheEntry[u] \in heap /\ u \in Readers(cacheEntry[u])
      BY <3>1 DEF IInv, NothingDangles, Readers
    <3> QED
      BY <1>6, <1>7, <3>1, <3>2
  <2>2. \A i \in Slot : currCache'[i] \in heap' \cup {NULL}
    <3>1. \A i \in Slot : currCache[i] \in heap \cup {NULL}
      BY DEF IInv, NothingDangles
    <3>2. currCache' = currCache
      BY DEF release
    <3> QED
      BY <1>6, <1>7, <3>1, <3>2 DEF InSlot
  <2> QED
    BY <2>1, <2>2 DEF NothingDangles
<1>11. Counts'
  <2> SUFFICES ASSUME NEW f \in heap'
               PROVE  refCount'[f] = (IF InSlot(f)' THEN 1 ELSE 0) + Cardinality(Readers(f)')
    BY DEF Counts
  <2>1. f \in heap /\ f \in Entry /\ refCount \in [Entry -> Int]
    BY <1>7 DEF IInv, TypeOK
  <2>2. refCount'[f] = IF f = e THEN refCount[f] - 1 ELSE refCount[f]
    BY <1>0, <1>1, <2>1 DEF release
  <2>3. refCount[f] = (IF InSlot(f) THEN 1 ELSE 0) + Cardinality(Readers(f))
    BY <2>1 DEF IInv, Counts
  <2>4. CASE f = e
    <3>1. PICK c \in Nat : c = Cardinality(Readers(e))
      BY <1>3
    <3>2. PICK i \in {0, 1} : i = IF InSlot(e) THEN 1 ELSE 0
      OBVIOUS
    <3>3. refCount'[f] = (i + c) - 1
      BY <1>5, <2>2, <2>4, <3>1, <3>2
    <3>4. Cardinality(Readers(f)') = c - 1 /\ i = IF InSlot(f)' THEN 1 ELSE 0
      BY <1>2, <1>4, <2>4, <3>1, <3>2, ZenonT(40)
    <3> QED
      BY <3>1, <3>2, <3>3, <3>4
  <2>5. CASE f # e
    BY <1>2, <1>4, <2>1, <2>2, <2>3, <2>5
  <2> QED
    BY <2>4, <2>5
<1>12. Owned'
  <2> SUFFICES ASSUME NEW f \in heap' PROVE InSlot(f)' \/ Readers(f)' # {}
    BY DEF Owned
  <2>1. f \in heap /\ f \in Entry
    BY <1>7 DEF IInv, TypeOK
  <2>2. CASE f # e
    BY <1>2, <1>4, <2>1, <2>2 DEF IInv, Owned
  <2>3. CASE f = e
    <3>1. refCount[e] # 1
      BY <1>7, <2>3
    <3>2. ~ InSlot(e) => Cardinality(Readers(e)') # 0
      BY <1>2, <1>3, <1>5, <3>1
    <3> QED
      BY <1>4, <2>3, <3>2, FS_EmptySet
  <2> QED
    BY <2>2, <2>3
<1>13. CleanupPending'
  BY <1>7 DEF IInv, CleanupPending, release
<1> QED
  BY <1>8, <1>9, <1>10, <1>11, <1>12, <1>13 DEF IInv

\* With no thread in the library, every live entry is in a slot, and the cleanup
\* frees it: something has always registered a function that does.
LEMMA CleanupEmpties ==
  ASSUME IInv, u_cleanup
  PROVE  heap' = {}
<1>1. \A e \in heap : InSlot(e)
  BY DEF IInv, Owned, u_cleanup, Readers
<1>2. heap \ InCache = {}
  BY <1>1, NullIsNothing DEF InCache, InSlot, IInv, TypeOK
<1>3. cleanup = NULL => heap = {}
  BY DEF IInv, CleanupPending
<1> QED
  BY <1>2, <1>3 DEF u_cleanup, currency_cache_cleanup

\* Cleanup preserves the invariant.
LEMMA CleanupPreserves ==
  ASSUME IInv, u_cleanup
  PROVE  IInv'
<1>1. heap' = {}
  BY CleanupEmpties
<1>2. currCache' = Empty
  <2>1. cleanup # NULL => currCache' = Empty
    BY DEF u_cleanup, currency_cache_cleanup
  <2>2. ASSUME cleanup = NULL PROVE currCache' = Empty
    <3>1. heap = {} /\ currCache' = currCache
      BY <2>2 DEF IInv, CleanupPending, u_cleanup
    <3>2. \A i \in Slot : currCache[i] = NULL
      BY <3>1 DEF IInv, NothingDangles
    <3> QED
      BY <3>1, <3>2 DEF IInv, TypeOK, Empty
  <2> QED
    BY <2>1, <2>2
<1>3. \A i \in Slot : currCache'[i] = NULL
  BY <1>2 DEF Empty
<1>4. TypeOK'
  BY <1>1, <1>2 DEF IInv, TypeOK, u_cleanup, threadVars, Empty
<1>5. OneSlot' /\ OneEntryPerLocale'
  BY <1>3 DEF OneSlot, OneEntryPerLocale
<1>6. NothingDangles'
  BY <1>3 DEF NothingDangles, u_cleanup, threadVars
<1>7. Counts' /\ Owned' /\ CleanupPending'
  BY <1>1 DEF Counts, Owned, CleanupPending
<1> QED
  BY <1>4, <1>5, <1>6, <1>7 DEF IInv
-----------------------------------------------------------------------------
\* The invariant holds initially.
LEMMA Initially == Init => IInv
<1> SUFFICES ASSUME Init PROVE IInv
  OBVIOUS
<1>1. \A i \in Slot : currCache[i] = NULL
  BY DEF Init, Empty
<1>2. 0 \in Slot
  BY CacheHasSlots DEF Slot
<1>3. TypeOK
  BY <1>2 DEF Init, TypeOK, PC, Empty
<1>4. OneSlot /\ OneEntryPerLocale
  BY <1>1 DEF OneSlot, OneEntryPerLocale
<1>5. NothingDangles
  BY <1>1 DEF NothingDangles, Init
<1>6. Counts /\ Owned /\ CleanupPending
  BY DEF Init, Counts, Owned, CleanupPending
<1> QED
  BY <1>3, <1>4, <1>5, <1>6 DEF IInv

\* Building a table registers a cleanup function or leaves the slot alone.
LEMMA TableKeepsCleanup ==
  ASSUME NEW b, initTable(b)
  PROVE  cleanup' = cleanup \/ cleanup' # NULL
BY NullIsNothing DEF initTable, tableVars

\* Steps of a thread outside of the sections that touch entries.
LEMMA QuietThread ==
  ASSUME IInv, NEW t \in Thread, pc[t] # "search",
         NEW s \in PC, s # "search", pc' = [pc EXCEPT ![t] = s],
         arg' \in [Thread -> Locale \cup {NULL}],
         UNCHANGED <<cacheEntry, currCache, currentCacheEntryIndex, heap, locale, refCount>>,
         cleanup' = cleanup \/ cleanup' # NULL
  PROVE  IInv'
<1>1. TypeOK'
  <2>1. pc' \in [Thread -> PC]
    BY DEF IInv, TypeOK
  <2> QED
    BY <2>1 DEF IInv, TypeOK
<1>2. \A e : Readers(e)' = Readers(e)
  BY Stays, ZenonT(40) DEF IInv
<1>3. \A u \in Thread : pc'[u] = "search" => pc[u] = "search" /\ cacheEntry'[u] = cacheEntry[u]
  BY DEF IInv, TypeOK
<1> QED
  BY <1>1, <1>2, <1>3, Quiet

\* Steps that change none of the variables of the cache and its readers.
LEMMA QuietElsewhere ==
  ASSUME IInv, UNCHANGED <<pc, arg, cacheEntry, currCache, currentCacheEntryIndex,
                           heap, locale, refCount>>,
         cleanup' = cleanup \/ cleanup' # NULL
  PROVE  IInv'
<1>1. TypeOK'
  BY DEF IInv, TypeOK
<1>2. \A e : Readers(e)' = Readers(e)
  BY DEF Readers
<1> QED
  BY <1>1, <1>2, Quiet

\* Every step preserves the invariant.
LEMMA Preserved == IInv /\ [Next]_vars => IInv'
<1> SUFFICES ASSUME IInv, [Next]_vars PROVE IInv'
  OBVIOUS
<1>1. ASSUME NEW t \in Thread, NEW l \in Locale, lookup(t, l) PROVE IInv'
  <2>1. arg' \in [Thread -> Locale \cup {NULL}] /\ pc[t] # "search" /\ cleanup' = cleanup
    BY <1>1 DEF lookup, IInv, TypeOK
  <2>2. CASE Cached(l) # {}
    <3>1. Reference(t, Caching(l)) /\ Caching(l) \in heap
      BY <1>1, <2>2, CachingLive DEF lookup
    <3> QED
      BY <1>1, <2>1, <3>1, ReferencePreserves DEF lookup
  <2>3. CASE Cached(l) = {}
    <3>1. pc' = [pc EXCEPT ![t] = "collect"] /\ "collect" \in PC
      BY <1>1, <2>3 DEF lookup, PC
    <3> QED
      BY <1>1, <2>1, <2>3, <3>1, QuietThread, ZenonT(40) DEF lookup
  <2> QED
    BY <2>2, <2>3
<1>2. ASSUME NEW t \in Thread, collectCurrencyNames(t) PROVE IInv'
  <2>1. cleanup' = cleanup \/ cleanup' # NULL
    BY <1>2, TableKeepsCleanup DEF collectCurrencyNames
  <2>2. \E s \in PC : s # "search" /\ pc' = [pc EXCEPT ![t] = s]
    BY <1>2 DEF collectCurrencyNames, PC
  <2> QED
    BY <1>2, <2>1, <2>2, QuietThread, ZenonT(40) DEF collectCurrencyNames, IInv, TypeOK
<1>3. ASSUME NEW t \in Thread, insert(t) PROVE IInv'
  <2>1. pc[t] = "insert" /\ arg' = arg
    BY <1>3 DEF insert
  <2>2. ASSUME Cached(arg[t]) = {}, NEW e \in Entry, insertNew(t, e) PROVE IInv'
    BY <2>1, <2>2, InsertNewPreserves
  <2>3. ASSUME insertFails(t) PROVE IInv'
    BY <2>1, <2>3, InsertFailsPreserves
  <2>4. ASSUME Cached(arg[t]) # {}, insertFound(t) PROVE IInv'
    <3>1. Reference(t, Caching(arg[t])) /\ Caching(arg[t]) \in heap
      BY <2>4, CachingLive DEF insertFound
    <3> QED
      BY <2>1, <2>4, <3>1, ReferencePreserves DEF insertFound, IInv, TypeOK
  <2> QED
    BY <1>3, <2>2, <2>3, <2>4 DEF insert
<1>4. ASSUME NEW t \in Thread, release(t) PROVE IInv'
  BY <1>4, ReleasePreserves
<1>5. ASSUME NEW t \in Thread, NEW n \in Reg, unreg(t, n) \/ \E i \in Id : reg(t, n, i)
      PROVE  IInv'
  <2>1. cleanup' = cleanup \/ cleanup' # NULL
    BY <1>5, NullIsNothing, ZenonT(40) DEF unreg, reg
  <2> QED
    BY <1>5, <2>1, QuietElsewhere, ZenonT(40) DEF unreg, reg, cacheVars, threadVars
<1>6. ASSUME NEW t \in Thread, ucurr_isAvailable(t) PROVE IInv'
  <2>1. cleanup' = cleanup \/ cleanup' # NULL
    BY <1>6, TableKeepsCleanup DEF ucurr_isAvailable
  <2> QED
    BY <1>6, <2>1, QuietElsewhere DEF ucurr_isAvailable, cacheVars, threadVars
<1>7. ASSUME NEW t \in Thread, NEW i \in Id, get(t, i) PROVE IInv'
  <2>1. pc[t] # "search" /\ cleanup' # NULL
    BY <1>7, NullIsNothing DEF get
  <2>2. CASE pc' = pc
    BY <1>7, <2>1, <2>2, QuietElsewhere DEF get, cacheVars
  <2>3. CASE pc' = [pc EXCEPT ![t] = "copy"]
    <3>1. "copy" \in PC
      BY DEF PC
    <3> QED
      BY <1>7, <2>1, <2>3, <3>1, QuietThread, ZenonT(40) DEF get, cacheVars, IInv, TypeOK
  <2> QED
    BY <1>7, <2>2, <2>3 DEF get
<1>8. ASSUME NEW t \in Thread, copy(t) PROVE IInv'
  <2>1. "idle" \in PC
    BY DEF PC
  <2> QED
    BY <1>8, <2>1, QuietThread, ZenonT(40) DEF copy, cacheVars, IInv, TypeOK
<1>9. ASSUME u_cleanup PROVE IInv'
  BY <1>9, CleanupPreserves
<1>10. ASSUME UNCHANGED vars PROVE IInv'
  BY <1>10, QuietElsewhere DEF vars, cacheVars, threadVars
<1> QED
  BY <1>1, <1>2, <1>3, <1>4, <1>5, <1>6, <1>7, <1>8, <1>9, <1>10 DEF Next

-----------------------------------------------------------------------------
\* The invariant holds throughout.
THEOREM Invariance == Spec => []IInv
BY Initially, Preserved, PTL DEF Spec

\* Every reference count is what the comment on refCount says: one for the cache
\* and one for each parser that is accessing the entry.
THEOREM CountsAreExact == Spec => []RefCountsExact
<1>1. IInv => RefCountsExact
  <2> SUFFICES ASSUME IInv, NEW e \in heap
               PROVE  refCount[e] = Cardinality(Slots(e)) + Cardinality(Readers(e))
    BY DEF RefCountsExact
  <2>1. refCount[e] = (IF InSlot(e) THEN 1 ELSE 0) + Cardinality(Readers(e))
    BY DEF IInv, Counts
  <2>2. CASE InSlot(e)
    <3>1. PICK i \in Slot : currCache[i] = e
      BY <2>2 DEF InSlot
    <3>2. e # NULL
      BY NullIsNothing DEF IInv, TypeOK
    <3>3. Slots(e) = {i}
      BY <3>1, <3>2 DEF Slots, IInv, OneSlot
    <3> QED
      BY <2>1, <2>2, <3>3, FS_Singleton, ZenonT(40)
  <2>3. CASE ~ InSlot(e)
    <3>1. Slots(e) = {}
      BY <2>3 DEF Slots, InSlot
    <3> QED
      BY <2>1, <2>3, <3>1, FS_EmptySet
  <2> QED
    BY <2>2, <2>3
<1> QED
  BY <1>1, Invariance, PTL

\* No entry is freed while a parser reads it or a slot holds it.
THEOREM NothingInUseIsFreed == Spec => []NothingDangles
<1>1. IInv => NothingDangles
  BY DEF IInv
<1> QED
  BY <1>1, Invariance, PTL

\* Parsers that miss the same locale at the same time insert it once.
THEOREM CachedOnce == Spec => []OneEntryPerLocale
<1>1. IInv => OneEntryPerLocale
  BY DEF IInv
<1> QED
  BY <1>1, Invariance, PTL

\* Whichever function was registered last, u_cleanup() frees the whole cache.
THEOREM CleanupIsComplete == Spec => CleanupFreesCache
<1>1. IInv /\ [Next]_vars => [u_cleanup => heap' = {}]_vars
  BY CleanupEmpties
<1> QED
  BY <1>1, Invariance, PTL DEF Spec, CleanupFreesCache

-----------------------------------------------------------------------------
(* The StringPrep profiles (usprep.cpp).                                   *)

CONSTANTS Name, Profile, Newer, Corrected, MayFail

VARIABLES profileTable, profiles, sprepData, profileCount, dataVersion, lost,
          at, loading, mine, profile

Profiles == INSTANCE SprepCache WITH
  Failing <- MayFail, table <- profileTable, heap <- profiles, refCount <- profileCount,
  pc <- at, name <- loading

(* The profile that a call is loading has its data once the data is open.  *)
Loading ==
  \A t \in Thread :
    /\ at[t] = "idle" <=> mine[t] = NULL
    /\ at[t] # "idle" => loading[t] \in Name /\ mine[t] \in profiles /\ profile[t] = NULL
    /\ at[t] = "open" => mine[t] \notin sprepData
    /\ at[t] \in {"check", "insert"} => mine[t] \in sprepData

(* Nobody else knows the profile that a call is loading.                   *)
Private ==
  \A t \in Thread : mine[t] # NULL =>
    /\ \A u \in Thread : mine[u] = mine[t] => u = t
    /\ \A u \in Thread : profile[u] # mine[t]
    /\ \A n \in Name : profileTable[n] # mine[t]

(* What is in the table or in use has its data.                            *)
Open ==
  /\ \A n \in Name : profileTable[n] # NULL => profileTable[n] \in sprepData
  /\ \A t \in Thread : profile[t] # NULL => profile[t] \in sprepData

Users(p) == {t \in Thread : profile[t] = p}

(* The count of every address, allocated or not.                           *)
Counted == \A p \in Profile : profileCount[p] = Cardinality(Users(p))

(* ProfilesShared is not inductive: that unloading a profile which another *)
(* thread was faster to insert leaves theirs alone needs Private, and that *)
(* a new profile has no user needs the counts of all addresses.            *)
ProfileInv == Profiles!TypeOK /\ Loading /\ Private /\ Open /\ Counted

\* SprepCache counts with the operator of its own instance of FiniteSets.
LEMMA SameCardinality ==
  ASSUME NEW S
  PROVE  Profiles!Cardinality(S) = Cardinality(S)
BY DEF Profiles!Cardinality, Cardinality

\* The users of a profile are finitely many, as the threads are.
LEMMA UsersFinite ==
  ASSUME NEW p
  PROVE  IsFiniteSet(Users(p)) /\ Cardinality(Users(p)) \in Nat
<1>1. Users(p) \in SUBSET Thread
  BY Zenon DEF Users
<1>2. IsFiniteSet(Users(p))
  BY <1>1, ThreadsAreFinite, FS_Subset, Zenon
<1> QED
  BY <1>2, FS_CardinalityType, Zenon

\* A thread that opens a profile joins the users of that profile only.
LEMMA Opens ==
  ASSUME Profiles!TypeOK, NEW t \in Thread, NEW p \in Profile, profile[t] \notin Profile,
         profile' = [profile EXCEPT ![t] = p]
  PROVE  /\ Cardinality(Users(p)') = Cardinality(Users(p)) + 1
         /\ \A q \in Profile : q # p => Users(q)' = Users(q)
<1>1. Users(p)' = Users(p) \cup {t} /\ t \notin Users(p)
  BY ZenonT(40) DEF Users, Profiles!TypeOK
<1>2. \A q \in Profile : q # p => Users(q)' = Users(q)
  BY Zenon DEF Users, Profiles!TypeOK
<1> QED
  BY <1>1, <1>2, UsersFinite, FS_AddElement, Zenon

\* A thread that closes a profile leaves the users of that profile only.
LEMMA Closes ==
  ASSUME Profiles!TypeOK, NULL \notin Profile, NEW t \in Thread, NEW p \in Profile, p = profile[t],
         profile' = [profile EXCEPT ![t] = NULL]
  PROVE  /\ Cardinality(Users(p)) > 0
         /\ Cardinality(Users(p)') = Cardinality(Users(p)) - 1
         /\ \A q \in Profile : q # p => Users(q)' = Users(q)
<1>1. Users(p)' = Users(p) \ {t} /\ t \in Users(p)
  BY Zenon DEF Users, Profiles!TypeOK
<1>2. \A q \in Profile : q # p => Users(q)' = Users(q)
  BY Zenon DEF Users, Profiles!TypeOK
<1>3. Cardinality(Users(p)) # 0
  BY <1>1, UsersFinite, FS_EmptySet, Zenon
<1>4. Cardinality(Users(p)') = Cardinality(Users(p)) - 1
  BY <1>1, UsersFinite, FS_RemoveElement, Zenon
<1>5. Cardinality(Users(p)) \in Nat
  BY UsersFinite, Zenon
<1>6. Cardinality(Users(p)) > 0
  BY <1>3, <1>5
<1> QED
  BY <1>2, <1>4, <1>6, Zenon

\* Steps that open and close nothing keep the counts.
LEMMA CountsStay ==
  ASSUME Counted, profile' = profile, profileCount' = profileCount
  PROVE  Counted'
BY Zenon DEF Counted, Users

\* usprep_open() that shares the profile p.
LEMMA SharePreserves ==
  ASSUME ProfileInv, Profiles!SprepAssumption, NEW t \in Thread, NEW p \in Profile,
         profile[t] = NULL, Profiles!Share(t, p)
  PROVE  Counted' /\ profileCount' \in [Profile -> Nat]
<1>1. profile' = [profile EXCEPT ![t] = p] /\ profileCount' = [profileCount EXCEPT ![p] = @ + 1]
  BY Zenon DEF Profiles!Share
<1>2. Profiles!TypeOK /\ Counted /\ profile[t] \notin Profile
  BY Zenon DEF ProfileInv, Profiles!SprepAssumption
<1>3. /\ Cardinality(Users(p)') = Cardinality(Users(p)) + 1
      /\ \A q \in Profile : q # p => Users(q)' = Users(q)
  BY <1>1, <1>2, Opens, Zenon
<1>4. profileCount \in [Profile -> Nat]
  BY <1>2, Zenon DEF Profiles!TypeOK
<1> QED
  BY <1>1, <1>2, <1>3, <1>4 DEF Counted

\* usprep_open() that returns the profile it has loaded.
LEMMA ReturnPreserves ==
  ASSUME ProfileInv, Profiles!SprepAssumption, NEW t \in Thread, at[t] = "insert", Profiles!Return(t)
  PROVE  Counted' /\ profileCount' \in [Profile -> Nat]
<1> DEFINE p == mine[t]
<1>1. profile' = [profile EXCEPT ![t] = p] /\ profileCount' = [profileCount EXCEPT ![p] = 1]
  BY Zenon DEF Profiles!Return
<1>2. Profiles!TypeOK /\ Counted /\ p \in Profile /\ profile[t] \notin Profile /\ \A u \in Thread : profile[u] # p
  BY Zenon DEF ProfileInv, Profiles!SprepAssumption, Profiles!TypeOK, Loading, Private
<1> HIDE DEF p
<1>3. SUFFICES ASSUME NEW q, q = p PROVE Counted' /\ profileCount' \in [Profile -> Nat]
  BY Zenon
<1>4. /\ Cardinality(Users(q)') = Cardinality(Users(q)) + 1
      /\ \A r \in Profile : r # q => Users(r)' = Users(r)
  BY <1>1, <1>2, <1>3, Opens, Zenon
<1>5. Cardinality(Users(q)) = 0
  <2>1. Users(q) = {}
    BY <1>2, <1>3, Zenon DEF Users
  <2> QED
    BY <2>1, FS_EmptySet, Zenon
<1>6. profileCount \in [Profile -> Nat]
  BY <1>2, Zenon DEF Profiles!TypeOK
<1> QED
  BY <1>1, <1>2, <1>3, <1>4, <1>5, <1>6 DEF Counted

\* A profile that usprep_open() finds.
LEMMA FoundPreserves ==
  ASSUME ProfileInv, Profiles!SprepAssumption, NEW t \in Thread, NEW n \in Name, Profiles!found(t, n)
  PROVE  ProfileInv'
<1>1. /\ profileTable[n] \in Profile /\ Profiles!Share(t, profileTable[n])
      /\ profile[t] = NULL /\ at[t] = "idle" /\ mine[t] = NULL
  BY Zenon DEF ProfileInv, Profiles!TypeOK, Loading, Profiles!found
<1>2. Counted' /\ profileCount' \in [Profile -> Nat]
  BY <1>1, SharePreserves, Zenon
<1>3. /\ profile' = [profile EXCEPT ![t] = profileTable[n]]
      /\ UNCHANGED <<profileTable, profiles, sprepData, dataVersion, lost, at, loading, mine>>
  BY Zenon DEF Profiles!found, Profiles!Share
<1>4. Profiles!TypeOK'
  BY <1>1, <1>2, <1>3, Zenon DEF ProfileInv, Profiles!TypeOK
<1>5. Loading'
  BY <1>1, <1>3, Zenon DEF ProfileInv, Profiles!TypeOK, Loading
<1>6. Private'
  BY <1>1, <1>3, Zenon DEF ProfileInv, Profiles!TypeOK, Private
<1>7. Open'
  BY <1>1, <1>3, Zenon DEF ProfileInv, Profiles!TypeOK, Open, Profiles!found
<1> QED
  BY <1>2, <1>4, <1>5, <1>6, <1>7, Zenon DEF ProfileInv

\* A new profile is nobody else's.
LEMMA MissingPreserves ==
  ASSUME ProfileInv, Profiles!SprepAssumption, NEW t \in Thread, NEW n \in Name, Profiles!missing(t, n)
  PROVE  ProfileInv'
<1>1. PICK p \in Profile \ profiles : profiles' = profiles \cup {p} /\ mine' = [mine EXCEPT ![t] = p]
  BY Zenon DEF Profiles!missing
<1>2. /\ at[t] = "idle" /\ profile[t] = NULL
      /\ loading' = [loading EXCEPT ![t] = n] /\ at' = [at EXCEPT ![t] = "open"]
      /\ UNCHANGED <<profileTable, sprepData, profileCount, dataVersion, lost, profile>>
      /\ p # NULL /\ p \notin sprepData
  BY Zenon DEF Profiles!missing, Profiles!Goto, Profiles!SprepAssumption, ProfileInv, Profiles!TypeOK
<1>3. Profiles!TypeOK'
  BY <1>1, <1>2, Zenon DEF ProfileInv, Profiles!TypeOK
<1>4. Loading'
  BY <1>1, <1>2, Zenon DEF ProfileInv, Profiles!TypeOK, Loading
<1>5. Private'
  BY <1>1, <1>2, ZenonT(40) DEF ProfileInv, Profiles!TypeOK, Loading, Private, Open
<1>6. Open'
  BY <1>2, Zenon DEF ProfileInv, Open
<1>7. Counted'
  BY <1>2, CountsStay, Zenon DEF ProfileInv
<1> QED
  BY <1>3, <1>4, <1>5, <1>6, <1>7, Zenon DEF ProfileInv

\* What dataVersion stands for is true or false.
LEMMA IsBoolean ==
  ASSUME NEW x, NEW S
  PROVE  (x \in S) \in BOOLEAN
OBVIOUS

\* The data of the new profile is opened, or accepted.
LEMMA OpenPreserves ==
  ASSUME ProfileInv, NEW t \in Thread, Profiles!openChoice(t) \/ Profiles!accepted(t)
  PROVE  ProfileInv'
<1>1. /\ at[t] \in {"open", "check"} /\ \E l \in {"check", "insert"} : at' = [at EXCEPT ![t] = l]
      /\ sprepData' = sprepData \cup {mine[t]} /\ dataVersion' \in BOOLEAN
      /\ UNCHANGED <<profileTable, profiles, profileCount, lost, loading, mine, profile>>
  <2>1. CASE Profiles!openChoice(t)
    <3>1. dataVersion' \in BOOLEAN
      BY <2>1, IsBoolean, Zenon DEF Profiles!openChoice
    <3> QED
      BY <2>1, <3>1, Zenon DEF Profiles!openChoice, Profiles!Goto
  <2>2. CASE Profiles!accepted(t)
    <3>1. mine[t] \in sprepData /\ sprepData \cup {mine[t]} = sprepData
      BY <2>2, Zenon DEF Profiles!accepted, ProfileInv, Loading
    <3>2. dataVersion' \in BOOLEAN
      BY <2>2, Zenon DEF Profiles!accepted, ProfileInv, Profiles!TypeOK
    <3> QED
      BY <2>2, <3>1, <3>2, Zenon DEF Profiles!accepted, Profiles!Goto
  <2> QED
    BY <2>1, <2>2, Zenon
<1>2. mine[t] \in profiles /\ mine[t] # NULL
  BY <1>1, Zenon DEF ProfileInv, Loading
<1>3. Profiles!TypeOK'
  BY <1>1, <1>2, Zenon DEF ProfileInv, Profiles!TypeOK
<1>4. Loading'
  <2> SUFFICES ASSUME NEW u \in Thread
               PROVE  /\ at'[u] = "idle" <=> mine'[u] = NULL
                      /\ at'[u] # "idle" => loading'[u] \in Name /\ mine'[u] \in profiles' /\ profile'[u] = NULL
                      /\ at'[u] = "open" => mine'[u] \notin sprepData'
                      /\ at'[u] \in {"check", "insert"} => mine'[u] \in sprepData'
    BY Zenon DEF Loading
  <2>1. CASE u = t
    BY <1>1, <1>2, <2>1, Zenon DEF ProfileInv, Profiles!TypeOK, Loading
  <2>2. CASE u # t
    <3>1. at'[u] = at[u] /\ mine[u] # mine[t]
      BY <1>1, <1>2, <2>2, Zenon DEF ProfileInv, Profiles!TypeOK, Private
    <3> QED
      BY <1>1, <3>1, Zenon DEF ProfileInv, Loading
  <2> QED
    BY <2>1, <2>2, Zenon
<1>5. Private'
  BY <1>1, Zenon DEF ProfileInv, Private
<1>6. Open'
  BY <1>1, Zenon DEF ProfileInv, Open
<1>7. Counted'
  BY <1>1, CountsStay, Zenon DEF ProfileInv
<1> QED
  BY <1>3, <1>4, <1>5, <1>6, <1>7, Zenon DEF ProfileInv

\* A profile that was not inserted is unloaded, and no other: the types and what is open.
LEMMA GiveUpPreserves ==
  ASSUME ProfileInv, Profiles!SprepAssumption, NEW t \in Thread, at[t] # "idle", Profiles!GiveUp(t),
         sprepData' = sprepData \ {mine[t]}, profileTable' = profileTable,
         \/ profile' = profile
         \/ \E n \in Name : profileTable[n] # NULL /\ profile' = [profile EXCEPT ![t] = profileTable[n]]
  PROVE  /\ Loading' /\ Private' /\ Open'
         /\ sprepData' \in SUBSET profiles' /\ profiles' \in SUBSET Profile
         /\ at' \in [Thread -> {"idle", "open", "check", "insert"}]
         /\ loading' \in [Thread -> Name \cup {NULL}] /\ mine' \in [Thread -> Profile \cup {NULL}]
         /\ profile' \in [Thread -> Profile \cup {NULL}]
<1>1. /\ profiles' = profiles \ {mine[t]} /\ mine' = [mine EXCEPT ![t] = NULL]
      /\ loading' = [loading EXCEPT ![t] = NULL] /\ at' = [at EXCEPT ![t] = "idle"]
  BY Zenon DEF Profiles!GiveUp, Profiles!Goto
<1>2. mine[t] \in profiles /\ mine[t] # NULL /\ mine[t] \in Profile
  BY Zenon DEF ProfileInv, Loading, Profiles!TypeOK
<1>3. /\ sprepData' \in SUBSET profiles' /\ profiles' \in SUBSET Profile
      /\ at' \in [Thread -> {"idle", "open", "check", "insert"}]
      /\ loading' \in [Thread -> Name \cup {NULL}] /\ mine' \in [Thread -> Profile \cup {NULL}]
      /\ profile' \in [Thread -> Profile \cup {NULL}]
  BY <1>1, <1>2, Zenon DEF ProfileInv, Profiles!TypeOK
<1>4. Loading'
  <2> SUFFICES ASSUME NEW u \in Thread
               PROVE  /\ at'[u] = "idle" <=> mine'[u] = NULL
                      /\ at'[u] # "idle" => loading'[u] \in Name /\ mine'[u] \in profiles' /\ profile'[u] = NULL
                      /\ at'[u] = "open" => mine'[u] \notin sprepData'
                      /\ at'[u] \in {"check", "insert"} => mine'[u] \in sprepData'
    BY Zenon DEF Loading
  <2>1. CASE u = t
    BY <1>1, <2>1, Zenon DEF ProfileInv, Profiles!TypeOK
  <2>2. CASE u # t
    <3>1. at'[u] = at[u] /\ mine'[u] = mine[u] /\ loading'[u] = loading[u] /\ profile'[u] = profile[u]
      BY <1>1, <2>2, Zenon DEF ProfileInv, Profiles!TypeOK
    <3>2. mine[u] # mine[t]
      BY <1>2, <2>2, Zenon DEF ProfileInv, Private
    <3> QED
      <4>1. /\ at[u] = "idle" <=> mine[u] = NULL
            /\ at[u] # "idle" => loading[u] \in Name /\ mine[u] \in profiles /\ profile[u] = NULL
            /\ at[u] = "open" => mine[u] \notin sprepData
            /\ at[u] \in {"check", "insert"} => mine[u] \in sprepData
        BY Zenon DEF ProfileInv, Loading
      <4>2. /\ mine[u] \in profiles => mine[u] \in profiles'
            /\ mine[u] \in sprepData <=> mine[u] \in sprepData'
        BY <1>1, <3>2, Zenon
      <4> QED
        BY <3>1, <4>1, <4>2, Zenon
  <2> QED
    BY <2>1, <2>2, Zenon
<1>5. Private'
  <2> SUFFICES ASSUME NEW u \in Thread, mine'[u] # NULL
               PROVE  /\ \A w \in Thread : mine'[w] = mine'[u] => w = u
                      /\ \A w \in Thread : profile'[w] # mine'[u]
                      /\ \A n \in Name : profileTable'[n] # mine'[u]
    BY Zenon DEF Private
  <2>1. u # t /\ mine'[u] = mine[u] /\ \A w \in Thread : w # t => mine'[w] = mine[w]
    BY <1>1, Zenon DEF ProfileInv, Profiles!TypeOK
  <2>2. mine'[t] = NULL
    BY <1>1, Zenon DEF ProfileInv, Profiles!TypeOK
  <2>3. \A w \in Thread : mine[w] = mine[u] => w = u
    BY <2>1, Zenon DEF ProfileInv, Private
  <2>4. \A n \in Name : profileTable[n] # mine[u]
    BY <2>1, Zenon DEF ProfileInv, Private
  <2>5. \A w \in Thread : profile[w] # mine[u]
    BY <2>1, Zenon DEF ProfileInv, Private
  <2>6. \A w \in Thread : profile'[w] # mine[u]
    BY <2>4, <2>5, Zenon DEF ProfileInv, Profiles!TypeOK
  <2> QED
    BY <2>1, <2>2, <2>3, <2>4, <2>6, Zenon
<1>6. Open'
  <2>1. /\ \A n \in Name : profileTable[n] # NULL => profileTable[n] \in sprepData'
        /\ \A u \in Thread : profile[u] # NULL => profile[u] \in sprepData'
    BY <1>2, Zenon DEF ProfileInv, Open, Private
  <2>2. \A u \in Thread : profile'[u] # NULL => profile'[u] \in sprepData'
    BY <2>1, Zenon DEF ProfileInv, Profiles!TypeOK
  <2> QED
    BY <2>1, <2>2, Zenon DEF Open
<1> QED
  BY <1>3, <1>4, <1>5, <1>6, Zenon

\* A call that returns without a profile, or with the one of the table.
LEMMA GivesUp ==
  ASSUME ProfileInv, Profiles!SprepAssumption, NEW t \in Thread,
         Profiles!openFails(t) \/ Profiles!rejected(t) \/ Profiles!keyFails(t) \/ Profiles!insertFound(t)
  PROVE  ProfileInv'
<1>1. /\ at[t] # "idle" /\ Profiles!GiveUp(t) /\ profileTable' = profileTable
      /\ dataVersion' \in BOOLEAN /\ lost' \in BOOLEAN
  <2>1. at[t] # "idle" /\ Profiles!GiveUp(t) /\ profileTable' = profileTable
    BY Zenon DEF Profiles!openFails, Profiles!rejected, Profiles!keyFails, Profiles!insertFound
  <2>2. dataVersion \in BOOLEAN /\ lost \in BOOLEAN
    BY Zenon DEF ProfileInv, Profiles!TypeOK
  <2>3. dataVersion' \in BOOLEAN
    <3>1. CASE Profiles!openFails(t)
      <4> SUFFICES ASSUME NEW b, b = (loading[t] \in Newer), b \in BOOLEAN PROVE dataVersion' \in BOOLEAN
        BY IsBoolean, Zenon
      <4>1. dataVersion' \in {dataVersion, b}
        BY <3>1, Zenon DEF Profiles!openFails
      <4> QED
        BY <2>2, <4>1, Zenon
    <3>2. CASE Profiles!rejected(t) \/ Profiles!keyFails(t) \/ Profiles!insertFound(t)
      BY <2>2, <3>2, Zenon DEF Profiles!rejected, Profiles!keyFails, Profiles!insertFound
    <3> QED
      BY <3>1, <3>2, Zenon
  <2>4. lost' = lost \/ lost' = TRUE
    BY Zenon DEF Profiles!openFails, Profiles!rejected, Profiles!keyFails, Profiles!insertFound
  <2>5. lost' \in BOOLEAN
    BY <2>2, <2>4, Zenon
  <2> QED
    BY <2>1, <2>3, <2>5, Zenon
<1>2. sprepData' = sprepData \ {mine[t]}
  BY Zenon DEF Profiles!openFails, Profiles!rejected, Profiles!keyFails, Profiles!insertFound,
     ProfileInv, Loading
<1>3. /\ \/ profile' = profile
         \/ \E n \in Name : profileTable[n] # NULL /\ profile' = [profile EXCEPT ![t] = profileTable[n]]
      /\ Counted' /\ profileCount' \in [Profile -> Nat]
  <2>1. CASE Profiles!insertFound(t)
    <3> DEFINE n == loading[t]
    <3>1. n \in Name /\ profile[t] = NULL /\ profileTable[n] # NULL /\ profileTable[n] \in Profile
      BY <2>1, ZenonT(40) DEF Profiles!insertFound, ProfileInv, Loading, Profiles!TypeOK
    <3>2. Profiles!Share(t, profileTable[n])
      BY <2>1, Zenon DEF Profiles!insertFound
    <3>3. Counted' /\ profileCount' \in [Profile -> Nat]
      BY <3>1, <3>2, SharePreserves, Zenon
    <3>4. profile' = [profile EXCEPT ![t] = profileTable[n]]
      BY <3>2, Zenon DEF Profiles!Share
    <3> QED
      BY <3>1, <3>3, <3>4, Zenon
  <2>2. CASE Profiles!openFails(t) \/ Profiles!rejected(t) \/ Profiles!keyFails(t)
    <3>1. profile' = profile /\ profileCount' = profileCount
      BY <2>2, Zenon DEF Profiles!openFails, Profiles!rejected, Profiles!keyFails
    <3> QED
      BY <3>1, CountsStay, Zenon DEF ProfileInv, Profiles!TypeOK
  <2> QED
    BY <2>1, <2>2, Zenon
<1>4. /\ Loading' /\ Private' /\ Open'
      /\ sprepData' \in SUBSET profiles' /\ profiles' \in SUBSET Profile
      /\ at' \in [Thread -> {"idle", "open", "check", "insert"}]
      /\ loading' \in [Thread -> Name \cup {NULL}] /\ mine' \in [Thread -> Profile \cup {NULL}]
      /\ profile' \in [Thread -> Profile \cup {NULL}]
  BY <1>1, <1>2, <1>3, GiveUpPreserves, Zenon
<1>5. profileTable' \in [Name -> Profile \cup {NULL}]
  BY <1>1, Zenon DEF ProfileInv, Profiles!TypeOK
<1> QED
  BY <1>1, <1>3, <1>4, <1>5, Zenon DEF ProfileInv, Profiles!TypeOK

\* A call that returns the profile it has loaded, in the table or not.
LEMMA InsertPreserves ==
  ASSUME ProfileInv, Profiles!SprepAssumption, NEW t \in Thread, Profiles!insertNew(t) \/ Profiles!putFails(t)
  PROVE  ProfileInv'
<1>1. /\ at[t] = "insert" /\ Profiles!Return(t) /\ UNCHANGED <<profiles, sprepData, dataVersion>> /\ lost' \in BOOLEAN
      /\ profileTable' = profileTable \/ profileTable' = [profileTable EXCEPT ![loading[t]] = mine[t]]
  BY Zenon DEF Profiles!insertNew, Profiles!putFails, ProfileInv, Profiles!TypeOK
<1>2. /\ mine[t] \in sprepData /\ mine[t] \in Profile /\ mine[t] # NULL /\ loading[t] \in Name
      /\ \A u \in Thread : u # t => mine[u] # mine[t]
  BY <1>1, Zenon DEF ProfileInv, Loading, Private, Profiles!TypeOK
<1>3. Counted' /\ profileCount' \in [Profile -> Nat]
  BY <1>1, ReturnPreserves, Zenon
<1>4. /\ profile' = [profile EXCEPT ![t] = mine[t]] /\ mine' = [mine EXCEPT ![t] = NULL]
      /\ loading' = [loading EXCEPT ![t] = NULL] /\ at' = [at EXCEPT ![t] = "idle"]
  BY <1>1, Zenon DEF Profiles!Return, Profiles!Goto
<1>5. Profiles!TypeOK'
  BY <1>1, <1>2, <1>3, <1>4, Zenon DEF ProfileInv, Profiles!TypeOK
<1>6. Loading'
  BY <1>1, <1>4, Zenon DEF ProfileInv, Profiles!TypeOK, Loading
<1>7. Private'
  <2> SUFFICES ASSUME NEW u \in Thread, mine'[u] # NULL
               PROVE  /\ \A w \in Thread : mine'[w] = mine'[u] => w = u
                      /\ \A w \in Thread : profile'[w] # mine'[u]
                      /\ \A n \in Name : profileTable'[n] # mine'[u]
    BY Zenon DEF Private
  <2>1. u # t /\ mine'[u] = mine[u] /\ mine'[t] = NULL /\ \A w \in Thread : w # t => mine'[w] = mine[w]
    BY <1>4, Zenon DEF ProfileInv, Profiles!TypeOK
  <2>2. /\ \A w \in Thread : mine[w] = mine[u] => w = u
        /\ \A w \in Thread : profile[w] # mine[u]
        /\ \A n \in Name : profileTable[n] # mine[u]
    BY <2>1, Zenon DEF ProfileInv, Private
  <2>3. \A w \in Thread : profile'[w] # mine[u]
    BY <1>2, <1>4, <2>1, <2>2, Zenon DEF ProfileInv, Profiles!TypeOK
  <2>4. \A n \in Name : profileTable'[n] # mine[u]
    BY <1>1, <1>2, <2>1, <2>2, Zenon DEF ProfileInv, Profiles!TypeOK
  <2> QED
    BY <2>1, <2>2, <2>3, <2>4, Zenon
<1>8. Open'
  BY <1>1, <1>2, <1>4, Zenon DEF ProfileInv, Profiles!TypeOK, Open
<1> QED
  BY <1>3, <1>5, <1>6, <1>7, <1>8, Zenon DEF ProfileInv

\* usprep_close() finds a count that is not zero.
LEMMA ClosePreserves ==
  ASSUME ProfileInv, Profiles!SprepAssumption, NEW t \in Thread, Profiles!usprep_close(t)
  PROVE  ProfileInv'
<1>1. /\ at[t] = "idle" /\ profile[t] \in Profile /\ profile' = [profile EXCEPT ![t] = NULL]
      /\ UNCHANGED <<profileTable, profiles, sprepData, dataVersion, lost, at, loading, mine>>
  BY Zenon DEF Profiles!usprep_close, ProfileInv, Profiles!TypeOK
<1>2. SUFFICES ASSUME NEW CONSTANT p \in Profile, p = profile[t] PROVE ProfileInv'
  BY <1>1, Zenon
<1>3. /\ Cardinality(Users(p)) > 0
      /\ Cardinality(Users(p)') = Cardinality(Users(p)) - 1
      /\ \A q \in Profile : q # p => Users(q)' = Users(q)
  BY <1>1, <1>2, Closes, Zenon DEF ProfileInv, Profiles!SprepAssumption
<1>4. profileCount \in [Profile -> Nat] /\ profileCount[p] = Cardinality(Users(p)) /\ Counted
  BY Zenon DEF ProfileInv, Profiles!TypeOK, Counted
<1>5. profileCount' = [profileCount EXCEPT ![p] = @ - 1]
  BY <1>2, <1>3, <1>4, Zenon DEF Profiles!usprep_close
<1>6. Counted' /\ profileCount' \in [Profile -> Nat]
  BY <1>3, <1>4, <1>5 DEF Counted
<1>7. Profiles!TypeOK'
  BY <1>1, <1>6, Zenon DEF ProfileInv, Profiles!TypeOK
<1>8. Loading' /\ Open'
  BY <1>1, Zenon DEF ProfileInv, Profiles!TypeOK, Loading, Open
<1>9. Private'
  BY <1>1, Zenon DEF ProfileInv, Profiles!TypeOK, Private
<1> QED
  BY <1>6, <1>7, <1>8, <1>9, Zenon DEF ProfileInv

\* usprep_cleanup() runs when nobody uses a profile.
LEMMA SprepCleanupPreserves ==
  ASSUME ProfileInv, Profiles!SprepAssumption, Profiles!usprep_cleanup
  PROVE  ProfileInv'
<1>1. /\ \A t \in Thread : at[t] = "idle" /\ profile[t] = NULL /\ mine[t] = NULL
      /\ UNCHANGED <<dataVersion, lost, at, loading, mine, profile>>
      /\ profileTable' = [n \in Name |-> NULL]
      /\ sprepData' = sprepData \ Profiles!Range(profileTable) /\ profiles' = profiles \ Profiles!Range(profileTable)
      /\ profileCount' = [p \in Profile |-> IF p \in Profiles!Range(profileTable) THEN 0 ELSE profileCount[p]]
  BY Zenon DEF Profiles!usprep_cleanup, ProfileInv, Loading
<1>2. Profiles!TypeOK'
  BY <1>1, Zenon DEF ProfileInv, Profiles!TypeOK
<1>3. Loading' /\ Private' /\ Open'
  BY <1>1, Zenon DEF ProfileInv, Loading, Private, Open
<1>4. Counted'
  <2> SUFFICES ASSUME NEW p \in Profile PROVE profileCount'[p] = Cardinality(Users(p)')
    BY Zenon DEF Counted
  <2>1. Users(p) = {} /\ Users(p)' = {}
    BY <1>1, Zenon DEF Users, Profiles!SprepAssumption
  <2>2. Cardinality(Users(p)) = 0 /\ Cardinality(Users(p)') = 0
    BY <2>1, FS_EmptySet, Zenon
  <2>3. profileCount[p] = 0
    BY <2>2, Zenon DEF ProfileInv, Counted
  <2> QED
    BY <1>1, <2>2, <2>3, Zenon
<1> QED
  BY <1>2, <1>3, <1>4, Zenon DEF ProfileInv

\* Nothing is loaded before the first call.
LEMMA SprepInitially ==
  ASSUME Profiles!SprepAssumption, Profiles!Init
  PROVE  ProfileInv
<1>1. Profiles!TypeOK
  BY Zenon DEF Profiles!Init, Profiles!TypeOK
<1>2. Loading /\ Private /\ Open
  BY Zenon DEF Profiles!Init, Loading, Private, Open
<1>3. Counted
  <2> SUFFICES ASSUME NEW p \in Profile PROVE profileCount[p] = Cardinality(Users(p))
    BY Zenon DEF Counted
  <2>1. Users(p) = {}
    BY Zenon DEF Profiles!Init, Users, Profiles!SprepAssumption
  <2> QED
    BY <2>1, FS_EmptySet, Zenon DEF Profiles!Init
<1> QED
  BY <1>1, <1>2, <1>3, Zenon DEF ProfileInv

\* Every step of every thread, and the cleanup, keeps the invariant.
LEMMA SprepPreserved ==
  ASSUME Profiles!SprepAssumption, ProfileInv, [Profiles!Next]_(Profiles!vars)
  PROVE  ProfileInv'
<1>1. ASSUME NEW t \in Thread, NEW n \in Name, Profiles!found(t, n) \/ Profiles!missing(t, n) PROVE ProfileInv'
  BY <1>1, FoundPreserves, MissingPreserves, Zenon
<1>2. ASSUME NEW t \in Thread, Profiles!openChoice(t) \/ Profiles!accepted(t) PROVE ProfileInv'
  BY <1>2, OpenPreserves, Zenon
<1>3. ASSUME NEW t \in Thread,
             \/ Profiles!openFails(t) \/ Profiles!rejected(t)
             \/ Profiles!keyFails(t) \/ Profiles!insertFound(t)
      PROVE  ProfileInv'
  BY <1>3, GivesUp, Zenon
<1>4. ASSUME NEW t \in Thread, Profiles!insertNew(t) \/ Profiles!putFails(t) PROVE ProfileInv'
  BY <1>4, InsertPreserves, Zenon
<1>5. ASSUME NEW t \in Thread, Profiles!usprep_close(t) PROVE ProfileInv'
  BY <1>5, ClosePreserves, Zenon
<1>6. CASE Profiles!usprep_cleanup
  BY <1>6, SprepCleanupPreserves, Zenon
<1>7. CASE UNCHANGED Profiles!vars
  <2>1. UNCHANGED <<profileTable, profiles, sprepData, profileCount, dataVersion, lost, at, loading, mine, profile>>
    BY <1>7, Zenon DEF Profiles!vars
  <2>2. Counted'
    BY <2>1, CountsStay, Zenon DEF ProfileInv
  <2>3. Profiles!TypeOK' /\ Loading' /\ Private' /\ Open'
    BY <2>1, Zenon DEF ProfileInv, Profiles!TypeOK, Loading, Private, Open
  <2> QED
    BY <2>2, <2>3, Zenon DEF ProfileInv
<1> QED
  BY <1>1, <1>2, <1>3, <1>4, <1>5, <1>6, <1>7, Zenon DEF Profiles!Next

\* Threads that load the same StringPrep profile at the same time share one whose
\* count is exact and whose data stays open, for any number of threads and names
\* and whatever fails; so the test in usprep_close() never finds a count of zero.
THEOREM ProfilesAreShared ==
  ASSUME Profiles!SprepAssumption
  PROVE  Profiles!Spec => []Profiles!ProfilesShared
<1>1. Profiles!Init => ProfileInv
  BY SprepInitially, Zenon
<1>2. ProfileInv /\ [Profiles!Next]_(Profiles!vars) => ProfileInv'
  BY SprepPreserved, Zenon
<1>3. ProfileInv => Profiles!ProfilesShared
  <2> SUFFICES ASSUME ProfileInv PROVE Profiles!TypeOK /\ Profiles!RefCountsExact /\ Profiles!CachedAreLoaded
    BY Zenon DEF Profiles!ProfilesShared
  <2>1. Profiles!RefCountsExact
    BY SameCardinality, Zenon DEF ProfileInv, Profiles!TypeOK, Counted, Users, Profiles!RefCountsExact
  <2>2. Profiles!CachedAreLoaded
    BY Zenon DEF ProfileInv, Profiles!TypeOK, Open, Profiles!CachedAreLoaded, Profiles!Range
  <2> QED
    BY <2>1, <2>2, Zenon DEF ProfileInv
<1> QED
  BY <1>1, <1>2, <1>3, PTL DEF Profiles!Spec
=============================================================================
