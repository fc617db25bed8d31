-------------------------- MODULE UnifiedCacheControl -----------------------
(***************************************************************************)
(* The steps of UnifiedCache, for every number of threads, keys and        *)
(* objects, every alias relation and every eviction policy: they preserve  *)
(* the types, the lifetimes of objects, the statuses, what a key resolves  *)
(* to and the in-progress entries.                                         *)
(*                                                                         *)
(* What the numbers of references and of elements say is taken from        *)
(* References, Elements and Sizes here, which UnifiedCacheProofs derives   *)
(* from the exactness of the counts and from the finiteness of the sets.   *)
(***************************************************************************)
EXTENDS UnifiedCacheInv, TLAPS

LEMMA NullFresh ==
    /\ Null \notin Value /\ Null \notin Key /\ Null \notin Thread /\ Null \notin Obj
    /\ NoValue \in Value /\ NoValue \notin Obj /\ Obj \subseteq Value
  BY CacheAssumption, Zenon DEF Value

(* The key of the innermost get(). *)
LEMMA CurrentKeyType ==
    ASSUME TypeOK, NEW t \in Thread, job[t] # <<>>
    PROVE  CurrentKey(t) \in Key
  BY DEF TypeOK, CurrentKey

LEMMA EntryType ==
    ASSUME TypeOK, NEW k \in Key, table[k] # Null
    PROVE  /\ table[k].val \in Value
           /\ table[k].st \in Status
           /\ table[k].master \in BOOLEAN
  BY Zenon DEF TypeOK, Entry

(* References are counted. *)
LEMMA Referred ==
    ASSUME References, NEW o \in Value
    PROVE  /\ hard[o] \in Nat /\ soft[o] \in Nat /\ total[o] \in Nat /\ total[o] >= hard[o] + soft[o]
           /\ \A t \in Thread : Holds(t, o) => hard[o] > 0
           /\ \A t \in Thread : Drops(t, o) => total[o] > hard[o] + soft[o]
           /\ \A t \in Thread, k \in Key : ptr[t][k] = o => hard[o] > 0
           /\ \A k \in Key : EntryOf(k, o) => soft[o] > 0
           /\ o = NoValue => soft[o] > 0
  BY Zenon DEF References

(* u_cleanup() is called when nothing is in use. *)
LEMMA CleanupUnused ==
    ASSUME References, Cleanup, NEW o \in Value PROVE hard[o] = 0
<1>1. ~(\E t \in Thread : Holds(t, o)) /\ ~(\E t \in Thread, k \in Key : ptr[t][k] = o)
  BY NullFresh, Zenon DEF Cleanup, Holds, Holding
<1>2. ~(hard[o] > 0)
  BY <1>1, Zenon DEF References
<1>3. hard[o] \in Nat
  BY Referred, Zenon
<1> QED
  BY <1>2, <1>3

(* Of a value with a single soft reference there is a single entry. *)
LEMMA OneEntry ==
    ASSUME References, NEW o \in Obj, soft[o] = 1,
           NEW j \in Key, EntryOf(j, o), NEW k \in Key, EntryOf(k, o)
    PROVE  j = k
  BY NullFresh, Zenon DEF References

(* What a loop step evicts is there, and is not in progress. *)
LEMMA Evicted ==
    ASSUME Inv1, Elements, NEW t \in Thread, SliceStep(t) \/ FlushStep(t)
    PROVE  /\ nextElement \in Key /\ table[nextElement] # Null
           /\ visitElement(isEvictable(table[nextElement]))
           /\ table[nextElement].val \in Value
<1>1. nextElement \in Stored(table)
  BY Zenon DEF Elements, SliceStep, FlushStep
<1>2. nextElement \in Key /\ table[nextElement] # Null
  BY <1>1, Zenon DEF Stored
<1> QED
  BY <1>2, EntryType, Zenon DEF SliceStep, FlushStep, Inv1

LEMMA Counting ==
    ASSUME NEW counts \in [Value -> Int], NEW v \in Value
    PROVE  /\ inc(counts, v) \in [Value -> Int] /\ dec(counts, v) \in [Value -> Int]
           /\ \A o \in Value : /\ inc(counts, v)[o] = IF o = v THEN counts[o] + 1 ELSE counts[o]
                               /\ dec(counts, v)[o] = IF o = v THEN counts[o] - 1 ELSE counts[o]
  BY DEF inc, dec

(* A count that is positive stays so, unless the last reference goes. *)
LEMMA StaysPositive ==
    ASSUME NEW counts \in [Value -> Int], NEW v \in Value, NEW o \in Value, counts[o] > 0
    PROVE  inc(counts, v)[o] > 0 /\ ((v = o /\ counts[o] = 1) \/ dec(counts, v)[o] > 0)
  BY Counting

(* What a client has is a value. *)
LEMMA ClientValue ==
    ASSUME TypeOK, NEW t \in Thread, NEW k \in Key, ptr[t][k] # Null PROVE ptr[t][k] \in Value
<1>1. ptr \in [Thread -> [Key -> Obj \cup {Null}]]
  BY Zenon DEF TypeOK
<1>2. ptr[t][k] \in Obj \cup {Null}
  BY <1>1
<1> QED
  BY <1>2, NullFresh, Zenon

Deleters == {"readCache", "lockDec", "relSlice", "delete"}

(* Only a thread that is not about to delete its object gets another one,  *)
(* and only counts that are and stay positive change.                      *)
LEMMA LivesKept ==
    ASSUME Inv1, Lives, UNCHANGED <<gone, live>>, NEW CONSTANT t \in Thread,
           t \in gone => val'[t] = val[t] /\ pc'[t] \in Deleters,
           \A w \in Thread \ {t} : val'[w] = val[w] /\ (pc'[w] = pc[w] \/ pc[w] = "wait"),
           \A o \in Value : total'[o] = total[o] \/ (total[o] > 0 /\ total'[o] > 0)
    PROVE  Lives'
<1>1. \A w \in gone : w \in Thread /\ val'[w] = val[w] /\ pc'[w] \in Deleters /\ total[val[w]] = 0
                     /\ pc[w] \in Deleters
  BY Zenon DEF Lives, Deleting, Deleters, Inv1, TypeOK
<1>2. \A w \in gone : val[w] \in Value /\ total'[val[w]] = 0
  BY <1>1 DEF Inv1, LocalInv, LocalOK, Deleters, Removing
<1>3. ASSUME NEW CONSTANT o \in Value
      PROVE  o \in live' <=> total'[o] > 0 \/ \E w \in gone' : val'[w] = o
  <2>1. o \in live <=> total[o] > 0 \/ \E w \in gone : val[w] = o
    BY Zenon DEF Lives, LiveIffReferenced
  <2>2. (\E w \in gone' : val'[w] = o) <=> (\E w \in gone : val[w] = o)
    BY <1>1, Zenon
  <2> QED
    BY <2>1, <2>2, Zenon
<1>4. \A w \in gone' : pc'[w] \in Deleters
  BY <1>1, Zenon
<1>5. \A w, u \in gone' : val'[w] = val'[u] => w = u
  BY <1>1 DEF Lives, Deleting
<1>6. \A w \in gone' : total'[val'[w]] = 0
  BY <1>1, <1>2, Zenon
<1>7. LiveIffReferenced'
  BY <1>3, Zenon DEF LiveIffReferenced
<1>8. Deleting'
  BY <1>4, <1>5, <1>6, Zenon DEF Deleting, Deleters
<1> QED
  BY <1>7, <1>8, Zenon DEF Lives

LEMMA LivesNext ==
    ASSUME Inv1, Inv1', Inv3, References, Elements, RefCountsExact', References', [Next]_vars PROVE Lives'
<1>1. TypeOK /\ TypeOK' /\ RefCountsExact /\ Lives /\ NoValue \in Value
  BY NullFresh, Zenon DEF Inv1, Inv3
<1>2. total \in [Value -> Int] /\ total' \in [Value -> Int]
  BY <1>1, Zenon DEF TypeOK
<1>3. \A w \in gone : w \in Thread /\ pc[w] \in Deleters /\ total[val[w]] = 0 /\ val[w] \in Value
  BY <1>1, Zenon DEF Lives, Deleting, Deleters, Inv1, TypeOK, LocalInv, LocalOK, Removing
<1>4. ASSUME NEW CONSTANT v \in Value, total[v] > 0, total' = inc(total, v)
      PROVE  \A o \in Value : total'[o] = total[o] \/ (total[o] > 0 /\ total'[o] > 0)
  BY <1>2, <1>4, Counting
<1>5. total[NoValue] > 0
  BY <1>1, Referred
<1>6. ASSUME NEW CONSTANT t \in Thread,
             \/ \E k \in Key : Get(t, k)
             \/ PollWait(t) \/ PollMissFails(t) \/ SpuriousWakeup(t)
             \/ CreateAlias(t) \/ DecHard(t) \/ ReadCachePtr(t)
             \/ DecrementItemsInUse(t)
             \/ Flush(t) \/ FlushPassEnd(t)
             \/ \E p \in Policies : SetEvictionPolicy(t, p)
      PROVE  Lives'
  <2>1. UNCHANGED <<total, gone, live, val>>
    BY <1>6, Zenon DEF Get, PollWait, PollMissFails, SpuriousWakeup, CreateAlias, DecHard, ReadCachePtr,
                DecrementItemsInUse, Flush, FlushPassEnd, SetEvictionPolicy, objVars, locals
  <2>2. /\ \A w \in Thread \ {t} : pc'[w] = pc[w]
        /\ pc[t] \in Deleters => pc'[t] \in Deleters
    BY <1>1, <1>6, ZenonT(40)
    DEF Get, PollWait, PollMissFails, SpuriousWakeup, CreateAlias, DecHard, ReadCachePtr, runEvictionSlice,
        DecrementItemsInUse, Flush, FlushPassEnd, SetEvictionPolicy, TypeOK, Deleters
  <2> QED
    BY <1>1, <1>3, <2>1, <2>2, LivesKept, Zenon
<1>7. ASSUME NEW CONSTANT t \in Thread,
             Return(t) \/ \E k \in Key : Release(t, k)
      PROVE  Lives'
  <2>1. /\ UNCHANGED <<total, gone, live>> /\ t \notin gone
        /\ \A w \in Thread \ {t} : val'[w] = val[w] /\ pc'[w] = pc[w]
    <3>1. pc \in [Thread -> Pc] /\ val \in [Thread -> Value \cup {Null}]
      BY <1>1, Zenon DEF TypeOK
    <3> QED
      BY <1>3, <1>7, <3>1, ZenonT(40) DEF Return, Release, objVars, Deleters
  <2> QED
    BY <1>1, <2>1, LivesKept, Zenon
<1>8. ASSUME NEW CONSTANT t \in Thread, PollFetch(t) PROVE Lives'
  <2> DEFINE v == table[CurrentKey(t)].val
  <2>1. CurrentKey(t) \in Key
    BY <1>1, <1>8, CurrentKeyType, Zenon DEF PollFetch, LocalOK, LocalInv, Inv1
  <2>2. v \in Value /\ EntryOf(CurrentKey(t), v)
    BY <1>1, <1>8, <2>1, EntryType, Zenon DEF PollFetch, EntryOf
  <2>3. total[v] > 0
    BY <1>1, <2>1, <2>2, Referred
  <2>4. /\ UNCHANGED <<gone, live>> /\ t \notin gone /\ total' = inc(total, v)
        /\ \A w \in Thread \ {t} : val'[w] = val[w] /\ pc'[w] = pc[w]
    BY <1>1, <1>3, <1>8, Zenon DEF PollFetch, addRef, TypeOK, Deleters
  <2> HIDE DEF v
  <2>5. \A o \in Value : total'[o] = total[o] \/ (total[o] > 0 /\ total'[o] > 0)
    BY <1>4, <2>2, <2>3, <2>4, Zenon
  <2> QED
    BY <1>1, <2>4, <2>5, LivesKept, Zenon
<1>9. ASSUME NEW CONSTANT t \in Thread,
             PollMiss(t) \/ CreateFails(t) \/ ReturnToCreate(t) PROVE Lives'
  <2>1. /\ UNCHANGED <<gone, live>> /\ t \notin gone /\ (total' = inc(total, NoValue) \/ UNCHANGED total)
        /\ \A w \in Thread \ {t} : val'[w] = val[w] /\ pc'[w] = pc[w]
    <3>1. pc \in [Thread -> Pc] /\ val \in [Thread -> Value \cup {Null}]
      BY <1>1, Zenon DEF TypeOK
    <3> QED
      BY <1>3, <1>9, <3>1, Zenon DEF PollMiss, CreateFails, ReturnToCreate, addRef, addSoftRef, Deleters, objVars, locals
  <2>2. \A o \in Value : total'[o] = total[o] \/ (total[o] > 0 /\ total'[o] > 0)
    BY <1>1, <1>4, <1>5, <2>1, Zenon
  <2> QED
    BY <1>1, <2>1, <2>2, LivesKept, Zenon
<1>10. ASSUME NEW CONSTANT t \in Thread, NEW CONSTANT u \in Thread, NEW CONSTANT k \in Key,
              Share(t, u, k) PROVE Lives'
  <2>1. ptr[t][k] \in Value
    BY <1>1, <1>10, ClientValue, Zenon DEF Share
  <2>2. total[ptr[t][k]] > 0
    BY <1>1, <2>1, Referred
  <2>3. UNCHANGED <<gone, live, pc, val>> /\ t \notin gone /\ total' = inc(total, ptr[t][k])
    BY <1>3, <1>10, Zenon DEF Share, addRef, locals, Deleters
  <2>4. \A o \in Value : total'[o] = total[o] \/ (total[o] > 0 /\ total'[o] > 0)
    BY <1>4, <2>1, <2>2, <2>3, Zenon
  <2> QED
    BY <1>1, <2>3, <2>4, LivesKept, Zenon
<1>11. ASSUME NEW CONSTANT t \in Thread, CreateNew(t) PROVE Lives'
  <2>1. PICK v \in Obj :
          /\ v \notin live /\ \A w \in Thread : val[w] # v
          /\ total' = [total EXCEPT ![v] = 1] /\ live' = live \cup {v}
          /\ val' = [val EXCEPT ![t] = v]
    BY <1>11, Zenon DEF CreateNew
  <2>2. gone' = gone /\ pc' = [pc EXCEPT ![t] = "put"] /\ pc[t] = "create"
    BY <1>11, Zenon DEF CreateNew
  <2>3. v \in Value /\ t \notin gone
    BY <1>3, <2>2, NullFresh, Zenon DEF Deleters
  <2>4. \A w \in gone : val'[w] = val[w] /\ pc'[w] = pc[w] /\ val[w] # v
    BY <1>1, <1>3, <2>1, <2>2, <2>3, Zenon DEF TypeOK
  <2>5. total'[v] = 1 /\ \A o \in Value : o # v => total'[o] = total[o]
    BY <1>2, <2>1, <2>3, Zenon
  <2>6. LiveIffReferenced'
    <3> SUFFICES ASSUME NEW CONSTANT o \in Value
                 PROVE  o \in live' <=> total'[o] > 0 \/ \E w \in gone' : val'[w] = o
      BY Zenon DEF LiveIffReferenced
    <3>1. CASE o = v
      BY <2>1, <2>5, <3>1
    <3>2. CASE o # v
      <4>1. o \in live <=> total[o] > 0 \/ \E w \in gone : val[w] = o
        BY <1>1, Zenon DEF Lives, LiveIffReferenced
      <4> QED
        BY <2>1, <2>2, <2>4, <2>5, <3>2, <4>1, Zenon
    <3> QED
      BY <3>1, <3>2, Zenon
  <2>7. Deleting'
    BY <1>1, <1>3, <2>2, <2>4, <2>5 DEF Lives, Deleting
  <2> QED
    BY <2>6, <2>7, Zenon DEF Lives
<1>12. ASSUME NEW CONSTANT t \in Thread, PutIfAbsentAndGet(t) PROVE Lives'
  <2> DEFINE drop(counts) == IF table[CurrentKey(t)] = Null THEN counts ELSE dec(counts, NoValue)
  <2>1. /\ val[t] \in Value /\ Holds(t, val[t])
        /\ UNCHANGED <<gone, val>> /\ t \notin gone
        /\ total' = drop(inc(total, val[t]))
        /\ live' = IF total'[NoValue] = 0 THEN live \ {NoValue} ELSE live
    BY <1>1, <1>3, <1>12, Zenon
    DEF PutIfAbsentAndGet, LocalInv, LocalOK, Inv1, Holds, Holding, locals, Deleters
  <2>2. \A w \in Thread \ {t} : pc'[w] = pc[w] \/ pc[w] = "wait"
    BY <1>1, <1>12, ZenonT(40) DEF PutIfAbsentAndGet, runEvictionSlice, TypeOK
  <2>3. total[val[t]] > 0
    BY <1>1, <2>1, Referred
  <2>4. total'[NoValue] > 0
    <3> SUFFICES ASSUME NEW CONSTANT o \in Value, o = NoValue PROVE total'[o] > 0
      BY <1>1, Zenon
    <3>1. (hard[o] \in Nat /\ soft[o] \in Nat /\ total[o] \in Nat /\ total[o] >= hard[o] + soft[o])'
      BY <1>1, Referred, PTL
    <3>2. (o = NoValue => soft[o] > 0)'
      BY <1>1, Referred, PTL
    <3> QED
      BY <3>1, <3>2
  <2>5. ASSUME NEW CONSTANT o \in Value
        PROVE  total'[o] = total[o] \/ (total[o] > 0 /\ total'[o] > 0)
    <3>1. CASE o = NoValue
      BY <1>5, <2>4, <3>1, Zenon
    <3>2. CASE o # NoValue
      <4>1. inc(total, val[t]) \in [Value -> Int]
            /\ inc(total, val[t])[o] = IF o = val[t] THEN total[o] + 1 ELSE total[o]
        BY <1>2, <2>1, Counting
      <4>2. total'[o] = inc(total, val[t])[o]
        BY <1>1, <2>1, <3>2, <4>1, Counting, ZenonT(40)
      <4>3. total[o] \in Int
        BY <1>2, Zenon
      <4> QED
        BY <2>3, <4>1, <4>2, <4>3
    <3> QED
      BY <3>1, <3>2, Zenon
  <2>6. live' = live
    BY <2>1, <2>4
  <2> QED
    BY <1>1, <2>1, <2>2, <2>5, <2>6, LivesKept, Zenon
<1>13. ASSUME NEW CONSTANT t \in Thread, DecTotal(t) PROVE Lives'
  <2> DEFINE v == val[t]
  <2>1. /\ v \in Value /\ Drops(t, v) /\ t \notin gone
        /\ UNCHANGED <<live, val>> /\ pc'[t] = "readCache"
        /\ \A w \in Thread \ {t} : pc'[w] = pc[w]
        /\ total' = dec(total, v)
        /\ gone' = IF total[v] = 1 THEN gone \cup {t} ELSE gone
    BY <1>1, <1>3, <1>13, Zenon
    DEF DecTotal, LocalInv, LocalOK, Inv1, Drops, TypeOK, Deleters, Removing
  <2> HIDE DEF v
  <2>2. total[v] > 0 /\ total[v] \in Int
    <3>1. hard[v] \in Nat /\ soft[v] \in Nat /\ total[v] \in Nat /\ total[v] > hard[v] + soft[v]
      BY <1>1, <2>1, Referred, Zenon
    <3> QED
      BY <3>1
  <2>3. \A o \in Value : total'[o] = IF o = v THEN total[o] - 1 ELSE total[o]
    BY <1>2, <2>1, Zenon DEF dec
  <2>4. CASE total[v] # 1
    <3>1. \A o \in Value : total'[o] = total[o] \/ (total[o] > 0 /\ total'[o] > 0)
      BY <2>2, <2>3, <2>4
    <3> QED
      BY <1>1, <2>1, <2>4, <3>1, LivesKept, Zenon
  <2>5. CASE total[v] = 1
    <3>1. total'[v] = 0 /\ (\A o \in Value : o # v => total'[o] = total[o]) /\ val[t] = v
      BY <2>1, <2>2, <2>3, <2>5 DEF v
    <3>2. \A w \in gone : val[w] # v /\ pc'[w] = pc[w]
      BY <1>3, <2>1, <2>5
    <3>3. gone' = gone \cup {t}
      BY <2>1, <2>5, Zenon
    <3>4. LiveIffReferenced'
      <4> SUFFICES ASSUME NEW CONSTANT o \in Value
                   PROVE  o \in live' <=> total'[o] > 0 \/ \E w \in gone' : val'[w] = o
        BY Zenon DEF LiveIffReferenced
      <4>1. o \in live <=> total[o] > 0 \/ \E w \in gone : val[w] = o
        BY <1>1, Zenon DEF Lives, LiveIffReferenced
      <4>2. CASE o = v
        BY <2>1, <2>5, <3>1, <3>3, <4>1, <4>2
      <4>3. CASE o # v
        BY <2>1, <3>1, <3>3, <4>1, <4>3, Zenon
      <4> QED
        BY <4>2, <4>3, Zenon
    <3>5. Deleting'
      BY <1>1, <1>3, <2>1, <3>1, <3>2, <3>3 DEF Lives, Deleting
    <3> QED
      BY <3>4, <3>5, Zenon DEF Lives
  <2> QED
    BY <2>4, <2>5, Zenon
<1>14. ASSUME NEW CONSTANT t \in Thread, Delete(t) PROVE Lives'
  <2>1. /\ val[t] \in Value /\ UNCHANGED total
        /\ live' = (IF t \in gone THEN live \ {val[t]} ELSE live)
        /\ gone' = gone \ {t}
        /\ \A w \in Thread \ {t} : val'[w] = val[w] /\ pc'[w] = pc[w]
    BY <1>1, <1>14, Zenon
    DEF Delete, LocalInv, LocalOK, Inv1, TypeOK, Removing
  <2>2. \A w \in gone' : w \in gone /\ val'[w] = val[w] /\ pc'[w] = pc[w]
    BY <1>3, <2>1, Zenon
  <2>3. LiveIffReferenced'
    <3> SUFFICES ASSUME NEW CONSTANT o \in Value
                 PROVE  o \in live' <=> total'[o] > 0 \/ \E w \in gone' : val'[w] = o
      BY DEF LiveIffReferenced
    <3>1. o \in live <=> total[o] > 0 \/ \E w \in gone : val[w] = o
      BY <1>1 DEF Lives, LiveIffReferenced
    <3>2. CASE t \notin gone
      BY <2>1, <2>2, <3>1, <3>2, Zenon
    <3>3. CASE t \in gone /\ o = val[t]
      <4>1. total[o] = 0 /\ \A w \in gone' : val[w] # o
        BY <1>1, <1>3, <2>1, <3>3, Zenon DEF Lives, Deleting
      <4> QED
        BY <2>1, <2>2, <3>3, <4>1
    <3>4. CASE t \in gone /\ o # val[t]
      BY <2>1, <2>2, <3>1, <3>4, Zenon
    <3> QED
      BY <3>2, <3>3, <3>4, Zenon
  <2>4. Deleting'
    BY <1>1, <2>1, <2>2 DEF Lives, Deleting
  <2> QED
    BY <2>3, <2>4 DEF Lives
<1>15. ASSUME NEW CONSTANT t \in Thread, SliceStep(t) \/ FlushStep(t) PROVE Lives'
  <2> SUFFICES ASSUME NEW CONSTANT j \in Key, table[j] # Null, table[j].val \in Value, j = nextElement,
                      visitElement(isEvictable(table[j]))
               PROVE  Lives'
    BY <1>15, Evicted, Zenon
  <2>1. /\ UNCHANGED <<gone, val>> /\ \A w \in Thread \ {t} : pc'[w] = pc[w]
        /\ pc[t] \in Deleters => pc'[t] \in Deleters
    BY <1>1, <1>15, Zenon DEF SliceStep, FlushStep, locals, TypeOK, Deleters
  <2> DEFINE v == table[j].val
  <2>2. total[v] > 0 /\ total[v] \in Int /\ v \in Value
    BY <1>1, <1>2, Referred DEF EntryOf
  <2>3. CASE ~isEvictable(table[j])
    <3>1. UNCHANGED <<total, live>>
      BY <2>3, Zenon DEF visitElement, objVars
    <3> QED
      BY <1>1, <1>3, <2>1, <3>1, LivesKept, Zenon
  <2>4. CASE isEvictable(table[j])
    <3>1. total' = dec(total, v) /\ live' = IF total[v] = 1 THEN live \ {v} ELSE live
      BY <2>4, Zenon DEF visitElement, removeSoftRef
    <3> HIDE DEF v
    <3>2. \A o \in Value : total'[o] = IF o = v THEN total[o] - 1 ELSE total[o]
      BY <1>2, <2>2, <3>1, Zenon DEF dec
    <3>3. CASE total[v] # 1
      <4>1. \A o \in Value : total'[o] = total[o] \/ (total[o] > 0 /\ total'[o] > 0)
        BY <2>2, <3>2, <3>3
      <4> QED
        BY <1>1, <1>3, <2>1, <3>1, <3>3, <4>1, LivesKept, Zenon
    <3>4. CASE total[v] = 1
      <4>1. total'[v] = 0 /\ (\A o \in Value : o # v => total'[o] = total[o]) /\ live' = live \ {v}
        BY <2>2, <3>1, <3>2, <3>4
      <4>2. \A w \in gone : val[w] # v /\ pc'[w] \in Deleters
        BY <1>3, <2>1, <3>4
      <4>3. LiveIffReferenced'
        <5> SUFFICES ASSUME NEW CONSTANT o \in Value
                     PROVE  o \in live' <=> total'[o] > 0 \/ \E w \in gone' : val'[w] = o
          BY Zenon DEF LiveIffReferenced
        <5>1. o \in live <=> total[o] > 0 \/ \E w \in gone : val[w] = o
          BY <1>1, Zenon DEF Lives, LiveIffReferenced
        <5>2. CASE o = v
          BY <2>1, <4>1, <4>2, <5>2
        <5>3. CASE o # v
          BY <2>1, <4>1, <5>1, <5>3, Zenon
        <5> QED
          BY <5>2, <5>3, Zenon
      <4>4. Deleting'
        BY <1>1, <1>3, <2>1, <4>1, <4>2, ZenonT(40) DEF Lives, Deleting, Deleters
      <4> QED
        BY <4>3, <4>4, Zenon DEF Lives
    <3> QED
      BY <3>3, <3>4, Zenon
  <2> QED
    BY <2>3, <2>4, Zenon
<1>16. CASE Cleanup
  <2>1. gone' = {} /\ gone = {}
    BY <1>3, <1>16, Zenon DEF Cleanup, Deleters, locals
  <2>2. live' = {o \in live : total'[o] # 0}
    BY <1>16, Zenon DEF Cleanup
  <2>3. ASSUME NEW CONSTANT o \in Value
        PROVE  o \in live' <=> total'[o] > 0
    <3>1. o \in live <=> total[o] > 0
      BY <1>1, <2>1, Zenon DEF Lives, LiveIffReferenced
    <3>2. (total[o] \in Nat)'
      BY <1>1, Referred, PTL
    <3>3. CASE o = NoValue
      BY <1>5, <2>2, <3>1, <3>2, <3>3
    <3>4. CASE o # NoValue
      <4>1. total'[o] = total[o] - TableRefs(o)
        BY <1>16, <3>4, Zenon DEF Cleanup, TableRefs
      <4>2. TableRefs(o) \in Nat /\ total[o] \in Int
        BY <1>2, Zenon DEF References
      <4> QED
        BY <2>2, <3>1, <3>2, <4>1, <4>2
    <3> QED
      BY <3>3, <3>4, Zenon
  <2> QED
    BY <2>1, <2>3, Zenon DEF Lives, LiveIffReferenced, Deleting
<1>17. CASE UNCHANGED vars
  BY <1>1, <1>17, Zenon DEF Lives, LiveIffReferenced, Deleting, vars, objVars, locals
<1> QED
  BY <1>6, <1>7, <1>8, <1>9, <1>10, <1>11, <1>12, <1>13, <1>14, <1>15, <1>16, <1>17, Zenon
  DEF Next, ThreadStep

LEMMA StatusesNext ==
    ASSUME Inv1, Inv1', Inv3, References, Elements, [Next]_vars PROVE Statuses'
<1>1. TypeOK /\ TypeOK' /\ LocalInv /\ LocalInv' /\ Statuses
  BY Zenon DEF Inv1, Inv3
<1> DEFINE TableOK(tab) == \A k \in Key : tab[k] # Null /\ tab[k].val \in Obj => tab[k].st # "FAILURE"
           ThreadOK(w) == val[w] \in Obj \/ job[w] = <<>> => st[w] # "FAILURE"
<1>2. TableOK(table) /\ \A w \in Thread : ThreadOK(w)
  BY <1>1, Zenon DEF Statuses
<1>3. SUFFICES TableOK(table') /\ \A w \in Thread : ThreadOK(w)'
  BY Zenon DEF Statuses
<1>4. ASSUME NEW CONSTANT t \in Thread,
             \/ \E k \in Key : Get(t, k)
             \/ PollWait(t) \/ SpuriousWakeup(t)
             \/ CreateAlias(t) \/ CreateFails(t)
             \/ DecHard(t) \/ DecTotal(t) \/ ReadCachePtr(t)
             \/ DecrementItemsInUse(t) \/ Delete(t)
             \/ Flush(t) \/ FlushPassEnd(t)
             \/ \E p \in Policies : SetEvictionPolicy(t, p)
             \/ \E u \in Thread, k \in Key : Share(t, u, k)
      PROVE  TableOK(table') /\ \A w \in Thread : ThreadOK(w)'
  <2>1. table' = table
    BY <1>4, Zenon DEF Get, PollWait, SpuriousWakeup, CreateAlias, CreateFails, DecHard, DecTotal, ReadCachePtr,
                DecrementItemsInUse, Delete, Flush, FlushPassEnd, SetEvictionPolicy, Share, cacheVars
  <2>2. CASE UNCHANGED <<val, st, job>>
    BY <1>2, <2>1, <2>2, ZenonT(40)
  <2>3. CASE \E k \in Key : Get(t, k)
    BY <1>1, <1>2, <2>1, <2>3, NullFresh DEF Get, TypeOK, LocalInv, LocalOK
  <2>4. CASE CreateAlias(t)
    <3>1. UNCHANGED <<val, st>> /\ pc[t] = "create" /\ pc'[t] = "poll"
          /\ \A w \in Thread \ {t} : job'[w] = job[w]
      BY <1>1, <2>4, Zenon DEF CreateAlias, TypeOK
    <3>2. job[t] # <<>> /\ job'[t] # <<>>
      BY <1>1, <3>1, Zenon DEF LocalInv, LocalOK
    <3> QED
      BY <1>2, <2>1, <3>1, <3>2, Zenon
  <2>5. CASE CreateFails(t)
    BY <1>1, <1>2, <2>1, <2>5, NullFresh, ZenonT(40) DEF CreateFails, TypeOK, LocalInv, LocalOK
  <2>6. CASE Delete(t)
    BY <1>1, <1>2, <2>1, <2>6, NullFresh, ZenonT(40) DEF Delete, TypeOK
  <2> QED
    BY <1>4, <2>2, <2>3, <2>4, <2>5, <2>6, Zenon
    DEF PollWait, SpuriousWakeup, DecHard, DecTotal, ReadCachePtr,
        DecrementItemsInUse, Flush, FlushPassEnd, SetEvictionPolicy, Share, locals
<1>5. ASSUME NEW CONSTANT t \in Thread, PollFetch(t)
      PROVE  TableOK(table') /\ \A w \in Thread : ThreadOK(w)'
  <2>1. CurrentKey(t) \in Key /\ job[t] # <<>>
    BY <1>1, <1>5, CurrentKeyType, Zenon DEF PollFetch, LocalInv, LocalOK
  <2>2. /\ UNCHANGED <<table, job>> /\ table[CurrentKey(t)] # Null
        /\ val'[t] = table[CurrentKey(t)].val /\ st'[t] = table[CurrentKey(t)].st
        /\ \A w \in Thread \ {t} : val'[w] = val[w] /\ st'[w] = st[w]
    BY <1>1, <1>5, Zenon DEF PollFetch, TypeOK
  <2> QED
    BY <1>2, <2>1, <2>2, Zenon
<1>6. ASSUME NEW CONSTANT t \in Thread, PollMiss(t)
      PROVE  TableOK(table') /\ \A w \in Thread : ThreadOK(w)'
  <2>1. UNCHANGED <<val, st, job>> /\ table' = [table EXCEPT ![CurrentKey(t)] = Marker]
    BY <1>6, Zenon DEF PollMiss, locals
  <2>2. Marker.val \notin Obj
    BY NullFresh, Zenon DEF Marker
  <2>3. TableOK(table')
    BY <1>1, <1>2, <2>1, <2>2, Zenon DEF TypeOK
  <2> QED
    BY <1>2, <2>1, <2>3, Zenon
<1>7. ASSUME NEW CONSTANT t \in Thread, PollMissFails(t)
      PROVE  TableOK(table') /\ \A w \in Thread : ThreadOK(w)'
  BY <1>1, <1>2, <1>7, NullFresh, ZenonT(40) DEF PollMissFails, TypeOK, LocalInv, LocalOK, cacheVars
<1>8. ASSUME NEW CONSTANT t \in Thread, CreateNew(t)
      PROVE  TableOK(table') /\ \A w \in Thread : ThreadOK(w)'
  <2>1. CurrentKey(t) \in Key /\ job[t] # <<>>
    BY <1>1, <1>8, CurrentKeyType, Zenon DEF CreateNew, LocalInv, LocalOK
  <2>2. Outcome[CurrentKey(t)] \in SUBSET {"ZERO", "WARNING"}
    BY <2>1, CacheAssumption, Zenon
  <2>3. UNCHANGED <<table, job>>
    BY <1>8, Zenon DEF CreateNew, cacheVars
  <2>4. PICK s \in Outcome[CurrentKey(t)], o \in Obj :
          val' = [val EXCEPT ![t] = o] /\ st' = [st EXCEPT ![t] = s]
    BY <1>8, Zenon DEF CreateNew
  <2>5. s # "FAILURE"
    BY <2>2, Zenon
  <2> QED
    BY <1>1, <1>2, <2>3, <2>4, <2>5, Zenon DEF TypeOK
<1>9. ASSUME NEW CONSTANT t \in Thread, PutIfAbsentAndGet(t)
      PROVE  TableOK(table') /\ \A w \in Thread : ThreadOK(w)'
  <2> DEFINE new == [val |-> val[t], st |-> st[t], master |-> soft[val[t]] = 0]
  <2>1. UNCHANGED <<val, st, job>> /\ table' = [table EXCEPT ![CurrentKey(t)] = new]
    BY <1>9, Zenon DEF PutIfAbsentAndGet, locals
  <2>2. new.val = val[t] /\ new.st = st[t]
    OBVIOUS
  <2> HIDE DEF new
  <2>3. TableOK(table')
    BY <1>1, <1>2, <2>1, <2>2, Zenon DEF TypeOK
  <2> QED
    BY <1>2, <2>1, <2>3, Zenon
<1>10. ASSUME NEW CONSTANT t \in Thread, Return(t) \/ ReturnToCreate(t) \/ \E k \in Key : Release(t, k)
      PROVE  TableOK(table') /\ \A w \in Thread : ThreadOK(w)'
  <2>1. CASE Return(t)
    BY <1>1, <1>2, <2>1, Zenon DEF Return, TypeOK, cacheVars
  <2>2. CASE ReturnToCreate(t)
    <3>1. UNCHANGED <<table, st>> /\ pc'[t] = "put" /\ pc[t] = "return"
          /\ val'[t] = (IF st[t] = "FAILURE" THEN NoValue ELSE val[t])
          /\ \A w \in Thread \ {t} : val'[w] = val[w] /\ job'[w] = job[w]
      BY <1>1, <2>2, Zenon DEF ReturnToCreate, TypeOK, cacheVars
    <3>2. job[t] # <<>> /\ job'[t] # <<>>
      BY <1>1, <3>1, Zenon DEF LocalInv, LocalOK
    <3> QED
      BY <1>2, <3>1, <3>2, NullFresh, Zenon
  <2>3. CASE \E k \in Key : Release(t, k)
    BY <1>1, <1>2, <2>3, ZenonT(40) DEF Release, TypeOK, cacheVars, LocalInv, LocalOK
  <2> QED
    BY <1>10, <2>1, <2>2, <2>3, Zenon
<1>11. ASSUME NEW CONSTANT t \in Thread, SliceStep(t) \/ FlushStep(t)
      PROVE  TableOK(table') /\ \A w \in Thread : ThreadOK(w)'
  <2>1. UNCHANGED <<val, st, job>>
    BY <1>11, Zenon DEF SliceStep, FlushStep, locals
  <2>2. visitElement(isEvictable(table[nextElement]))
    BY <1>11, Zenon DEF SliceStep, FlushStep
  <2>3. TableOK(table')
    BY <1>1, <1>2, <2>2, Zenon DEF visitElement, TypeOK
  <2> QED
    BY <1>2, <2>1, <2>3, Zenon
<1>12. CASE Cleanup
  BY <1>2, <1>12, Zenon DEF Cleanup, locals
<1>13. CASE UNCHANGED vars
  BY <1>2, <1>13, Zenon DEF vars, cacheVars, locals
<1> HIDE DEF TableOK, ThreadOK
<1> QED
  BY <1>4, <1>5, <1>6, <1>7, <1>8, <1>9, <1>10, <1>11, <1>12, <1>13, Zenon DEF Next, ThreadStep

LEMMA CallsNext ==
    ASSUME Inv1, Inv1', Inv3, References, Elements, [Next]_vars PROVE Calls'
<1>1. TypeOK /\ TypeOK' /\ LocalInv /\ LocalInv' /\ Calls
  BY Zenon DEF Inv1, Inv3
<1> DEFINE JobOK(w) == job[w] # <<>> => ptr[w][job[w][1]] = Null
           ZeroOK(w) == /\ w \in zero => pc[w] \in {"decTotal", "readCache", "lockDec", "relSlice", "delete"}
                        /\ pc[w] = "lockDec" => w \in zero /\ val[w] # NoValue
<1>2. \A w \in Thread : JobOK(w) /\ ZeroOK(w)
  BY <1>1, Zenon DEF Calls
<1>3. SUFFICES \A w \in Thread : JobOK(w)' /\ ZeroOK(w)'
  BY Zenon DEF Calls
<1>4. ASSUME UNCHANGED vars \/ Cleanup PROVE \A w \in Thread : JobOK(w)' /\ ZeroOK(w)'
  BY <1>2, <1>4, Zenon DEF vars, locals, client, Cleanup
<1>5. ASSUME NEW CONSTANT t \in Thread, ThreadStep(t) PROVE \A w \in Thread : JobOK(w)'
  <2>1. CASE UNCHANGED <<job, ptr>>
    BY <1>2, <2>1, Zenon
  <2>2. ASSUME NEW k \in Key, Get(t, k) PROVE \A w \in Thread : JobOK(w)'
    BY <1>1, <1>2, <2>2, Zenon DEF Get, TypeOK
  <2>3. CASE CreateAlias(t)
    <3>1. job[t] # <<>> /\ CurrentKey(t) \in Key
      BY <1>1, <2>3, CurrentKeyType, Zenon DEF CreateAlias, LocalInv, LocalOK
    <3>2. Alias[CurrentKey(t)] \in Key
      BY <2>3, <3>1, CacheAssumption, Zenon DEF CreateAlias
    <3>3. job'[t] = Append(job[t], Alias[CurrentKey(t)]) /\ UNCHANGED ptr
          /\ \A w \in Thread \ {t} : job'[w] = job[w]
      BY <1>1, <2>3, Zenon DEF CreateAlias, TypeOK, client
    <3>4. job[t] \in Seq(Key)
      BY <1>1, Zenon DEF TypeOK
    <3>5. job'[t][1] = job[t][1]
      BY <3>1, <3>2, <3>3, <3>4
    <3> QED
      BY <1>2, <3>1, <3>3, <3>5, ZenonT(40)
  <2>4. CASE Return(t)
    BY <1>1, <1>2, <2>4, Zenon DEF Return, TypeOK
  <2>5. CASE ReturnToCreate(t)
    <3>1. Len(job[t]) > 1 /\ job'[t] = SubSeq(job[t], 1, Len(job[t]) - 1) /\ UNCHANGED ptr
          /\ \A w \in Thread \ {t} : job'[w] = job[w]
      BY <1>1, <2>5, Zenon DEF ReturnToCreate, TypeOK, client
    <3>2. job[t] \in Seq(Key)
      BY <1>1 DEF TypeOK
    <3>3. job'[t][1] = job[t][1] /\ job[t] # <<>>
      BY <3>1, <3>2
    <3> QED
      BY <1>2, <3>1, <3>3, ZenonT(40)
  <2>6. ASSUME NEW k \in Key, Release(t, k) PROVE \A w \in Thread : JobOK(w)'
    <3>1. UNCHANGED job /\ pc[t] = "idle" /\ \A w \in Thread \ {t} : ptr'[w] = ptr[w]
      BY <1>1, <2>6, Zenon DEF Release, TypeOK
    <3>2. job[t] = <<>>
      BY <1>1, <3>1, Zenon DEF LocalInv, LocalOK
    <3> QED
      BY <1>2, <3>1, <3>2, Zenon
  <2>7. ASSUME NEW u \in Thread, NEW k \in Key, Share(t, u, k) PROVE \A w \in Thread : JobOK(w)'
    <3>1. UNCHANGED <<job, pc>> /\ pc[u] = "idle" /\ \A w \in Thread \ {u} : ptr'[w] = ptr[w]
      BY <1>1, <2>7, Zenon DEF Share, TypeOK, locals
    <3>2. job[u] = <<>>
      BY <1>1, <3>1, Zenon DEF LocalInv, LocalOK
    <3> QED
      BY <1>2, <3>1, <3>2, Zenon
  <2> HIDE DEF JobOK
  <2> QED
    BY <1>5, <2>1, <2>2, <2>3, <2>4, <2>5, <2>6, <2>7, Zenon
    DEF ThreadStep, PollFetch, PollWait, PollMiss, PollMissFails, SpuriousWakeup, CreateNew, CreateFails,
        PutIfAbsentAndGet, DecHard, DecTotal, ReadCachePtr, DecrementItemsInUse, Delete,
        SliceStep, Flush, FlushStep, FlushPassEnd, SetEvictionPolicy, locals, client
<1>6. ASSUME NEW CONSTANT t \in Thread, ThreadStep(t) PROVE \A w \in Thread : ZeroOK(w)'
  <2>1. ASSUME \/ \E k \in Key : Get(t, k) \/ Release(t, k)
               \/ \E u \in Thread, k \in Key : Share(t, u, k)
               \/ PollFetch(t) \/ PollWait(t) \/ PollMiss(t) \/ PollMissFails(t)
               \/ SpuriousWakeup(t)
               \/ CreateAlias(t) \/ CreateNew(t) \/ CreateFails(t)
               \/ Return(t) \/ ReturnToCreate(t) \/ Flush(t) \/ FlushStep(t) \/ FlushPassEnd(t)
               \/ \E p \in Policies : SetEvictionPolicy(t, p)
        PROVE  \A w \in Thread : ZeroOK(w)'
    <3>1. zero' = zero /\ pc[t] \notin {"decTotal", "readCache", "lockDec", "relSlice", "delete"}
      BY <2>1, Zenon DEF Get, Release, Share, PollFetch, PollWait, PollMiss, PollMissFails, SpuriousWakeup, CreateAlias,
         CreateNew, CreateFails, Return, ReturnToCreate, Flush, FlushStep, FlushPassEnd, SetEvictionPolicy, locals
    <3> DEFINE Quiet == (\A w \in Thread \ {t} : pc'[w] = pc[w] /\ val'[w] = val[w]) /\ pc'[t] # "lockDec"
    <3>2. pc \in [Thread -> Pc] /\ val \in [Thread -> Value \cup {Null}]
      BY <1>1, Zenon DEF TypeOK
    <3>3. ASSUME (\E k \in Key : Get(t, k)) \/ CreateAlias(t) \/ CreateNew(t) \/ CreateFails(t) \/ Return(t) \/ ReturnToCreate(t)
          PROVE  Quiet
      BY <3>2, <3>3, Zenon DEF Get, CreateAlias, CreateNew, CreateFails, Return, ReturnToCreate
    <3>4. ASSUME PollFetch(t) \/ PollWait(t) \/ PollMiss(t) \/ PollMissFails(t) \/ SpuriousWakeup(t) PROVE Quiet
      BY <3>2, <3>4, Zenon DEF PollFetch, PollWait, PollMiss, PollMissFails, SpuriousWakeup, locals
    <3>5. ASSUME \/ \E k \in Key : Release(t, k) \/ \E u \in Thread : Share(t, u, k)
                 \/ Flush(t) \/ FlushStep(t) \/ FlushPassEnd(t) \/ \E p \in Policies : SetEvictionPolicy(t, p)
          PROVE  Quiet
      BY <3>1, <3>2, <3>5, Zenon DEF Release, Share, Flush, FlushStep, FlushPassEnd, SetEvictionPolicy, locals
    <3>6. Quiet
      BY <2>1, <3>3, <3>4, <3>5, Zenon
    <3> QED
      BY <1>2, <3>1, <3>6, Zenon
  <2>2. CASE PutIfAbsentAndGet(t)
    <3>1. UNCHANGED <<zero, val>> /\ pc[t] = "put"
      BY <2>2, Zenon DEF PutIfAbsentAndGet, locals
    <3>2. \E pcs \in {pc, [u \in Thread |-> IF pc[u] = "wait" THEN "poll" ELSE pc[u]]},
             p \in {"putSlice", "decHard", "return"} : pc' = [pcs EXCEPT ![t] = p]
      BY <2>2, Zenon DEF PutIfAbsentAndGet, runEvictionSlice, AfterPut
    <3>3. DOMAIN pc = Thread
      BY <1>1, Zenon DEF TypeOK
    <3>4. pc'[t] # "lockDec" /\ \A w \in Thread \ {t} : pc'[w] = pc[w] \/ (pc[w] = "wait" /\ pc'[w] = "poll")
      BY <3>2, <3>3, Zenon
    <3> QED
      BY <1>2, <3>1, <3>4, Zenon
  <2>3. CASE SliceStep(t)
    <3>1. /\ UNCHANGED <<zero, val>> /\ pc[t] \in {"putSlice", "relSlice"} /\ pc'[t] # "lockDec"
          /\ pc[t] = "relSlice" => pc'[t] \in {"relSlice", "delete"}
          /\ \A w \in Thread \ {t} : pc'[w] = pc[w]
      BY <1>1, <2>3, Zenon DEF SliceStep, AfterPut, TypeOK, locals
    <3> QED
      BY <1>2, <3>1, Zenon
  <2>4. CASE DecHard(t) \/ DecTotal(t)
    <3>1. /\ val' = val /\ zero' \subseteq zero \cup {t} /\ zero \subseteq zero' /\ pc'[t] \in {"decTotal", "readCache"}
          /\ \A w \in Thread \ {t} : pc'[w] = pc[w]
      BY <1>1, <2>4, Zenon DEF DecHard, DecTotal, TypeOK
    <3> QED
      BY <1>2, <3>1, Zenon
  <2>5. CASE ReadCachePtr(t)
    <3>1. UNCHANGED <<zero, val>> /\ pc[t] = "readCache"
      BY <2>5, Zenon DEF ReadCachePtr, locals
    <3>2. PICK isSet \in (IF t \in zero /\ val[t] \notin live THEN BOOLEAN ELSE {val[t] \in cached}) :
            pc' = [pc EXCEPT ![t] = IF t \in zero /\ isSet THEN "lockDec" ELSE "delete"]
      BY <2>5, Zenon DEF ReadCachePtr
    <3>3. NoValue \in live /\ NoValue \notin cached
      <4>1. total[NoValue] > 0
        BY <1>1, NullFresh, Referred DEF Inv3
      <4> QED
        BY <4>1, NullFresh, Zenon DEF Inv3, Lives, LiveIffReferenced, Fresh
    <3>4. val[t] = NoValue => ~isSet
      BY <3>2, <3>3, Zenon
    <3>5. /\ pc'[t] \in {"lockDec", "delete"} /\ (pc'[t] = "lockDec" => t \in zero /\ val[t] # NoValue)
          /\ \A w \in Thread \ {t} : pc'[w] = pc[w]
      BY <1>1, <3>2, <3>4, Zenon DEF TypeOK
    <3> QED
      BY <1>2, <3>1, <3>5, Zenon
  <2>6. CASE DecrementItemsInUse(t)
    <3>1. /\ UNCHANGED <<zero, val>> /\ pc[t] = "lockDec" /\ pc'[t] \in {"relSlice", "delete"}
          /\ \A w \in Thread \ {t} : pc'[w] = pc[w]
      BY <1>1, <2>6, Zenon DEF DecrementItemsInUse, runEvictionSlice, TypeOK, locals
    <3> QED
      BY <1>2, <3>1, Zenon
  <2>7. CASE Delete(t)
    BY <1>1, <1>2, <2>7, Zenon DEF Delete, TypeOK
  <2> HIDE DEF ZeroOK
  <2> QED
    BY <1>6, <2>1, <2>2, <2>3, <2>4, <2>5, <2>6, <2>7, Zenon DEF ThreadStep
<1> HIDE DEF JobOK, ZeroOK
<1> QED
  BY <1>4, <1>5, <1>6, Zenon DEF Next

LEMMA Registered ==
    ASSUME Inv1, Inv3, References, Elements
    PROVE  /\ \A t \in Thread : val[t] \in Obj /\ pc[t] # "put" => val[t] \in cached
           /\ \A t \in Thread, k \in Key : ptr[t][k] \in Obj => ptr[t][k] \in cached
           /\ \A k \in Key, o \in Obj : EntryOf(k, o) => o \in cached
           /\ \A o \in Obj : soft[o] # 0 => o \in cached
           /\ NoValue \notin cached /\ soft[NoValue] > 0
<1>1. \A k \in Key, o \in Obj : EntryOf(k, o) => soft[o] > 0
  BY Referred, NullFresh, Zenon DEF Inv1, Inv3
<1>2. soft[NoValue] > 0
  BY Referred, NullFresh, Zenon DEF Inv1, Inv3
<1> QED
  BY <1>1, <1>2 DEF Inv3, Fresh

LEMMA FreshNext ==
    ASSUME Inv1, Inv1', Inv3, References, Elements, RefCountsExact', [Next]_vars PROVE Fresh'
<1>1. TypeOK /\ TypeOK' /\ LocalInv /\ Fresh /\ RefCountsExact
  BY Zenon DEF Inv1, Inv3
<1>2. /\ \A t \in Thread : val[t] \in Obj /\ pc[t] # "put" => val[t] \in cached
      /\ \A t \in Thread, k \in Key : ptr[t][k] \in Obj => ptr[t][k] \in cached
      /\ \A k \in Key, o \in Obj : EntryOf(k, o) => o \in cached
      /\ NoValue \notin cached
  BY Registered, Zenon
<1>3. NoValue \notin Obj /\ Null \notin Obj /\ Obj \subseteq Value /\ NoValue \in Value
  BY NullFresh, Zenon
<1>4. ASSUME NEW CONSTANT t \in Thread, cached' = cached, \A o \in Obj : o \notin cached => soft'[o] = soft[o],
             \A w \in Thread \ {t} : val'[w] = val[w] /\ (pc'[w] = pc[w] \/ pc[w] = "wait"),
             val'[t] \in Obj => val'[t] \in cached \/ pc'[t] = "put",
             \A w \in Thread, k \in Key : ptr'[w][k] = ptr[w][k] \/ ptr'[w][k] \notin Obj \/ ptr'[w][k] \in cached
      PROVE  Fresh'
  BY <1>1, <1>4 DEF Fresh
<1>5. ASSUME NEW CONSTANT t \in Thread,
             \/ \E k \in Key : Get(t, k)
             \/ PollWait(t) \/ PollMiss(t) \/ PollMissFails(t) \/ SpuriousWakeup(t)
             \/ CreateAlias(t) \/ DecHard(t) \/ DecTotal(t) \/ ReadCachePtr(t)
             \/ DecrementItemsInUse(t)
             \/ Flush(t) \/ FlushPassEnd(t)
             \/ \E p \in Policies : SetEvictionPolicy(t, p)
      PROVE  Fresh'
  <2>1. UNCHANGED <<cached, val, ptr>> /\ pc[t] # "put" /\ (soft' = soft \/ soft' = inc(soft, NoValue))
    BY <1>5, Zenon DEF Get, PollWait, PollMiss, PollMissFails, SpuriousWakeup, CreateAlias, DecHard, DecTotal, ReadCachePtr,
                DecrementItemsInUse, Flush, FlushPassEnd, SetEvictionPolicy, objVars, locals, client, addSoftRef
  <2>2. \A w \in Thread \ {t} : pc'[w] = pc[w]
    BY <1>1, <1>5, ZenonT(40)
    DEF Get, PollWait, PollMiss, PollMissFails, SpuriousWakeup, CreateAlias, DecHard, DecTotal, ReadCachePtr, runEvictionSlice,
        DecrementItemsInUse, Flush, FlushPassEnd, SetEvictionPolicy, TypeOK
  <2>3. \A o \in Obj : soft'[o] = soft[o]
    <3>1. soft \in [Value -> Int]
      BY <1>1, Zenon DEF TypeOK
    <3> QED
      BY <1>3, <2>1, <3>1, Zenon DEF inc
  <2> QED
    BY <1>2, <1>4, <2>1, <2>2, <2>3, Zenon
<1>6. ASSUME NEW CONSTANT t \in Thread, PollFetch(t) PROVE Fresh'
  <2>1. CurrentKey(t) \in Key
    BY <1>1, <1>6, CurrentKeyType, Zenon DEF PollFetch, LocalInv, LocalOK
  <2>2. /\ UNCHANGED <<cached, soft, ptr>> /\ EntryOf(CurrentKey(t), val'[t])
        /\ \A w \in Thread \ {t} : val'[w] = val[w] /\ pc'[w] = pc[w]
    BY <1>1, <1>6, Zenon DEF PollFetch, addRef, TypeOK, EntryOf, client
  <2> QED
    BY <1>2, <1>4, <2>1, <2>2, Zenon
<1>7. ASSUME NEW CONSTANT t \in Thread, CreateFails(t) \/ ReturnToCreate(t) PROVE Fresh'
  <2>1. /\ UNCHANGED <<cached, soft, ptr>> /\ pc'[t] = "put"
        /\ \A w \in Thread \ {t} : val'[w] = val[w] /\ pc'[w] = pc[w]
    BY <1>1, <1>7, ZenonT(40) DEF CreateFails, ReturnToCreate, addRef, TypeOK, client, objVars
  <2> QED
    BY <1>4, <2>1, Zenon
<1>8. ASSUME NEW CONSTANT t \in Thread,
             Return(t) \/ Delete(t) \/ (\E k \in Key : Release(t, k)) \/ (\E u \in Thread, k \in Key : Share(t, u, k))
      PROVE  Fresh'
  <2>1. UNCHANGED <<cached, soft>>
    BY <1>8, Zenon DEF Return, Delete, Release, Share, addRef, objVars
  <2>2. /\ \A w \in Thread \ {t} : val'[w] = val[w] /\ pc'[w] = pc[w]
        /\ val'[t] = Null \/ (val'[t] = val[t] /\ pc[t] # "put") \/ \E k \in Key : val'[t] = ptr[t][k]
    BY <1>1, <1>8, ZenonT(40) DEF Return, Delete, Release, Share, TypeOK, locals
  <2>3. ASSUME NEW w \in Thread, NEW k \in Key
        PROVE  ptr'[w][k] = ptr[w][k] \/ ptr'[w][k] \notin Obj \/ ptr'[w][k] \in cached
    <3>1. CASE Return(t)
      <4>1. ptr'[w][k] = ptr[w][k] \/ ptr'[w][k] = val[t]
        BY <1>1, <3>1 DEF Return, TypeOK
      <4>2. pc[t] = "return"
        BY <3>1, Zenon DEF Return
      <4> QED
        BY <1>2, <4>1, <4>2, Zenon
    <3>2. CASE Delete(t)
      BY <3>2, Zenon DEF Delete, client
    <3>3. ASSUME NEW i \in Key, Release(t, i) PROVE ptr'[w][k] = ptr[w][k] \/ ptr'[w][k] \notin Obj
      BY <1>1, <1>3, <3>3 DEF Release, TypeOK
    <3>4. ASSUME NEW u \in Thread, NEW i \in Key, Share(t, u, i)
          PROVE  ptr'[w][k] = ptr[w][k] \/ ptr'[w][k] \notin Obj \/ ptr'[w][k] \in cached
      <4>1. ptr'[w][k] = ptr[w][k] \/ ptr'[w][k] = ptr[t][i]
        BY <1>1, <3>4, ZenonT(40) DEF Share, TypeOK
      <4> QED
        BY <1>2, <4>1, Zenon
    <3> QED
      BY <1>8, <3>1, <3>2, <3>3, <3>4, Zenon
  <2> QED
    BY <1>2, <1>3, <1>4, <2>1, <2>2, <2>3, ZenonT(40)
<1>9. ASSUME NEW CONSTANT t \in Thread, CreateNew(t) PROVE Fresh'
  <2>1. PICK v \in Obj :
          /\ v \notin live /\ \A w \in Thread : val[w] # v
          /\ soft' = [soft EXCEPT ![v] = 0] /\ cached' = cached \ {v}
          /\ val' = [val EXCEPT ![t] = v]
    BY <1>9, Zenon DEF CreateNew
  <2>2. ptr' = ptr /\ pc' = [pc EXCEPT ![t] = "put"] /\ pc[t] = "create"
    BY <1>9, Zenon DEF CreateNew, client
  <2>3. total[v] = 0 /\ hard[v] = 0
    BY <1>1, <1>3, <2>1, Referred DEF Inv3, Lives, LiveIffReferenced
  <2>4. \A w \in Thread, k \in Key : ptr[w][k] # v
    BY <1>1, <1>3, <2>3, Referred
  <2>5. /\ \A o \in Obj : soft'[o] = IF o = v THEN 0 ELSE soft[o]
        /\ \A w \in Thread : /\ val'[w] = IF w = t THEN v ELSE val[w]
                             /\ pc'[w] = IF w = t THEN "put" ELSE pc[w]
    BY <1>1, <1>3, <2>1, <2>2, Zenon DEF TypeOK
  <2>6. NoValue \notin cached'
    BY <1>2, <2>1, Zenon
  <2>7. ASSUME NEW CONSTANT o \in Obj, o \notin cached'
        PROVE  /\ soft'[o] = 0
               /\ \A w \in Thread : val'[w] = o => pc'[w] = "put"
               /\ \A w \in Thread, k \in Key : ptr'[w][k] # o
    <3>1. CASE o = v
      BY <2>1, <2>2, <2>4, <2>5, <3>1
    <3>2. CASE o # v
      <4>1. o \notin cached
        BY <2>1, <2>7, <3>2, Zenon
      <4> QED
        BY <1>1, <2>2, <2>5, <3>2, <4>1, ZenonT(40) DEF Fresh
    <3> QED
      BY <3>1, <3>2, Zenon
  <2> QED
    BY <2>6, <2>7, Zenon DEF Fresh
<1>10. ASSUME NEW CONSTANT t \in Thread, PutIfAbsentAndGet(t) PROVE Fresh'
  <2> SUFFICES ASSUME NEW CONSTANT v, v = val[t] PROVE Fresh'
    OBVIOUS
  <2> DEFINE drop(counts) == IF table[CurrentKey(t)] = Null THEN counts ELSE dec(counts, NoValue)
  <2>1. v \in Value
    BY <1>1, <1>10, Zenon DEF PutIfAbsentAndGet, LocalInv, LocalOK
  <2>2. /\ UNCHANGED <<val, ptr>> /\ soft' = drop(inc(soft, v))
        /\ cached' = IF soft[v] = 0 THEN cached \cup {v} ELSE cached
    BY <1>10, Zenon DEF PutIfAbsentAndGet, locals, client
  <2>3. \A w \in Thread \ {t} : pc'[w] = pc[w] \/ pc[w] = "wait"
    BY <1>1, <1>10, ZenonT(40) DEF PutIfAbsentAndGet, runEvictionSlice, TypeOK
  <2>4. v \in Obj => v \in cached'
    BY <2>2, Registered, Zenon
  <2>5. cached \subseteq cached' /\ cached' \subseteq cached \cup {v} /\ NoValue \notin cached'
    BY <1>2, <2>2, Registered
  <2>6. ASSUME NEW CONSTANT o \in Obj, o # v PROVE soft'[o] = soft[o]
    <3>1. soft \in [Value -> Int] /\ o \in Value /\ o # NoValue
      BY <1>1, <1>3, Zenon DEF TypeOK
    <3>2. inc(soft, v) \in [Value -> Int] /\ inc(soft, v)[o] = soft[o]
      BY <2>1, <2>6, <3>1, Counting, ZenonT(40)
    <3>3. dec(inc(soft, v), NoValue)[o] = soft[o]
      BY <1>3, <3>1, <3>2, Counting, ZenonT(40)
    <3> QED
      BY <2>2, <3>2, <3>3, Zenon
  <2>7. ASSUME NEW CONSTANT o \in Obj, o \notin cached'
        PROVE  /\ soft'[o] = 0
               /\ \A w \in Thread : val'[w] = o => pc'[w] = "put"
               /\ \A w \in Thread, k \in Key : ptr'[w][k] # o
    <3>1. o # v /\ o \notin cached
      BY <2>4, <2>5, <2>7, Zenon
    <3>2. soft'[o] = soft[o]
      BY <2>6, <3>1, Zenon
    <3> QED
      BY <1>1, <2>2, <2>3, <3>1, <3>2, SMTT(40) DEF Fresh
  <2> QED
    BY <2>5, <2>7, Zenon DEF Fresh
<1>11. ASSUME NEW CONSTANT t \in Thread, SliceStep(t) \/ FlushStep(t) PROVE Fresh'
  <2> SUFFICES ASSUME NEW CONSTANT j \in Key, table[j] # Null, table[j].val \in Value, j = nextElement,
                      visitElement(isEvictable(table[j]))
               PROVE  Fresh'
    BY <1>11, Evicted, Zenon
  <2>1. UNCHANGED <<val, ptr>> /\ pc[t] # "put" /\ \A w \in Thread \ {t} : pc'[w] = pc[w]
    BY <1>1, <1>11, Zenon DEF SliceStep, FlushStep, locals, client, TypeOK
  <2>2. cached' = cached /\ (soft' = soft \/ soft' = dec(soft, table[j].val))
    BY Zenon DEF visitElement, removeSoftRef, objVars
  <2>3. \A o \in Obj : o \notin cached => soft'[o] = soft[o]
    <3>1. soft \in [Value -> Int] /\ (table[j].val \in Obj => table[j].val \in cached)
      BY <1>1, <1>2, Zenon DEF TypeOK, EntryOf
    <3> QED
      BY <1>3, <2>2, <3>1, Zenon DEF dec
  <2> QED
    BY <1>2, <1>4, <2>1, <2>2, <2>3, Zenon
<1>12. CASE Cleanup
  <2>1. UNCHANGED <<val, pc, ptr>> /\ cached' = cached \ {NoValue}
    BY <1>12, Zenon DEF Cleanup, locals, client
  <2>2. ASSUME NEW o \in Obj PROVE soft'[o] = 0
    <3>1. soft'[o] = soft[o] - TableRefs(o)
      BY <1>3, <1>12, Zenon DEF Cleanup, TableRefs
    <3>2. soft[o] = TableRefs(o) + 0 /\ soft[o] \in Int
      BY <1>1, <1>3, Zenon DEF RefCountsExact, TypeOK
    <3>3. TableRefs(o) \in Nat
      BY <1>3, Zenon DEF References
    <3> QED
      BY <3>1, <3>2, <3>3
  <2> QED
    BY <1>1, <1>3, <2>1, <2>2, Zenon DEF Fresh
<1>13. CASE UNCHANGED vars
  BY <1>1, <1>13, Zenon DEF Fresh, vars, objVars, locals, client
<1> QED
  BY <1>5, <1>6, <1>7, <1>8, <1>9, <1>10, <1>11, <1>12, <1>13, Zenon DEF Next, ThreadStep

LEMMA MastersNext ==
    ASSUME Inv1, Inv1', Inv3, References, Elements, RefCountsExact', [Next]_vars PROVE Masters'
<1>1. TypeOK /\ TypeOK' /\ LocalInv /\ Masters /\ RefCountsExact
  BY Zenon DEF Inv1, Inv3
<1>2. NoValue \notin Obj /\ Null \notin Obj /\ Obj \subseteq Value /\ NoValue \in Value
  BY NullFresh
<1>3. hard \in [Value -> Int] /\ soft \in [Value -> Int]
  BY <1>1, Zenon DEF TypeOK
<1>4. ASSUME cached' \subseteq cached,
             \A o \in Obj : o \in cached' /\ (hard'[o] > 0 \/ soft'[o] > 0) => hard[o] > 0 \/ soft[o] > 0,
             \A k \in Key : table[k] # Null /\ table[k].val \in Obj => table'[k] = table[k]
      PROVE  Masters'
  BY <1>1, <1>4 DEF Masters, EntryOf
<1>5. ASSUME NEW CONSTANT t \in Thread,
             \/ \E k \in Key : Get(t, k) \/ Release(t, k)
             \/ PollWait(t) \/ PollMissFails(t) \/ SpuriousWakeup(t)
             \/ CreateAlias(t) \/ DecTotal(t) \/ ReadCachePtr(t)
             \/ DecrementItemsInUse(t) \/ Delete(t) \/ Return(t)
             \/ Flush(t) \/ FlushPassEnd(t)
             \/ \E p \in Policies : SetEvictionPolicy(t, p)
      PROVE  Masters'
  <2>1. UNCHANGED <<cached, hard, soft, table>>
    BY <1>5, Zenon DEF Get, Release, PollWait, PollMissFails, SpuriousWakeup, CreateAlias, DecTotal, ReadCachePtr,
                DecrementItemsInUse, Delete, Return, Flush, FlushPassEnd, SetEvictionPolicy, objVars, cacheVars
  <2> QED
    BY <1>4, <2>1, Zenon
<1>6. ASSUME NEW CONSTANT t \in Thread, CreateFails(t) \/ ReturnToCreate(t) PROVE Masters'
  <2>1. UNCHANGED <<cached, soft, table>> /\ (hard' = hard \/ hard' = inc(hard, NoValue))
    BY <1>6, Zenon DEF CreateFails, ReturnToCreate, addRef, objVars, cacheVars
  <2>2. \A o \in Obj : hard'[o] = hard[o]
    BY <1>2, <1>3, <2>1, Zenon DEF inc
  <2> QED
    BY <1>4, <2>1, <2>2, Zenon
<1>7. ASSUME NEW CONSTANT t \in Thread, PollFetch(t) PROVE Masters'
  <2>1. CurrentKey(t) \in Key
    BY <1>1, <1>7, CurrentKeyType DEF PollFetch, LocalInv, LocalOK
  <2> SUFFICES ASSUME NEW CONSTANT v, v = table[CurrentKey(t)].val PROVE Masters'
    OBVIOUS
  <2>2. UNCHANGED <<cached, soft, table>> /\ hard' = inc(hard, v) /\ EntryOf(CurrentKey(t), v)
    BY <1>7, Zenon DEF PollFetch, addRef, EntryOf
  <2>3. v \in Value
    BY <1>1, <2>1, <2>2, EntryType, Zenon DEF EntryOf
  <2>4. soft[v] > 0
    BY <1>1, <2>1, <2>2, <2>3, Referred, Zenon
  <2>5. \A o \in Obj : o # v => hard'[o] = hard[o]
    BY <1>2, <1>3, <2>2, <2>3, Zenon DEF inc
  <2> QED
    BY <1>4, <2>2, <2>4, <2>5, Zenon
<1>8. ASSUME NEW CONSTANT t \in Thread, PollMiss(t) PROVE Masters'
  <2>1. /\ UNCHANGED <<cached, hard>> /\ soft' = inc(soft, NoValue)
        /\ table[CurrentKey(t)] = Null /\ table' = [table EXCEPT ![CurrentKey(t)] = Marker]
    BY <1>8, Zenon DEF PollMiss, addSoftRef
  <2>2. \A o \in Obj : soft'[o] = soft[o]
    BY <1>2, <1>3, <2>1, Zenon DEF inc
  <2>3. \A k \in Key : table[k] # Null => table'[k] = table[k]
    BY <1>1, <2>1, Zenon DEF TypeOK
  <2> QED
    BY <1>4, <2>1, <2>2, <2>3, Zenon
<1>9. ASSUME NEW CONSTANT t \in Thread, NEW CONSTANT u \in Thread, NEW CONSTANT k \in Key, Share(t, u, k)
      PROVE  Masters'
  <2> SUFFICES ASSUME NEW CONSTANT v, v = ptr[t][k] PROVE Masters'
    OBVIOUS
  <2>1. UNCHANGED <<cached, soft, table>> /\ hard' = inc(hard, v)
    BY <1>9, ZenonT(40) DEF Share, addRef, cacheVars
  <2>2. v \in Value
    BY <1>1, <1>9, ClientValue, Zenon DEF Share
  <2>3. hard[v] > 0
    BY <1>1, <2>2, Referred, Zenon
  <2>4. \A o \in Obj : o # v => hard'[o] = hard[o]
    BY <1>2, <1>3, <2>1, <2>2, Zenon DEF inc
  <2> QED
    BY <1>4, <2>1, <2>3, <2>4, Zenon
<1>10. ASSUME NEW CONSTANT t \in Thread, DecHard(t) PROVE Masters'
  <2>1. UNCHANGED <<cached, soft, table>> /\ hard' = dec(hard, val[t]) /\ val[t] \in Value
    BY <1>1, <1>10, Zenon DEF DecHard, cacheVars, LocalInv, LocalOK, Removing
  <2>2. \A o \in Obj : hard'[o] > 0 => hard[o] > 0
    <3>1. \A o \in Obj : o \in Value /\ hard[o] \in Int /\ hard'[o] = (IF o = val[t] THEN hard[o] - 1 ELSE hard[o])
      BY <1>2, <1>3, <2>1, Counting
    <3> QED
      BY <3>1
  <2> QED
    BY <1>4, <2>1, <2>2, Zenon
<1>11. ASSUME NEW CONSTANT t \in Thread, CreateNew(t) PROVE Masters'
  <2>1. table' = table
    BY <1>11, Zenon DEF CreateNew, cacheVars
  <2>2. PICK v \in Obj :
          /\ hard' = [hard EXCEPT ![v] = 1] /\ soft' = [soft EXCEPT ![v] = 0]
          /\ cached' = cached \ {v}
    BY <1>11, Zenon DEF CreateNew
  <2>3. \A o \in Obj : o # v => hard'[o] = hard[o] /\ soft'[o] = soft[o]
    BY <1>2, <1>3, <2>2, Zenon
  <2> QED
    BY <1>4, <2>1, <2>2, <2>3, Zenon
<1>12. ASSUME NEW CONSTANT t \in Thread, PutIfAbsentAndGet(t) PROVE Masters'
  <2>1. CurrentKey(t) \in Key /\ val[t] \in Value
    BY <1>1, <1>12, CurrentKeyType, Zenon DEF PutIfAbsentAndGet, LocalInv, LocalOK
  <2> SUFFICES ASSUME NEW CONSTANT v \in Value, v = val[t], NEW CONSTANT j \in Key, j = CurrentKey(t),
                      NEW CONSTANT new, new = [val |-> v, st |-> st[t], master |-> soft[v] = 0]
               PROVE  Masters'
    BY <2>1, Zenon
  <2> DEFINE drop(counts) == IF table[j] = Null THEN counts ELSE dec(counts, NoValue)
  <2>2. /\ hard' = hard /\ soft' = drop(inc(soft, v))
        /\ cached' = IF soft[v] = 0 THEN cached \cup {v} ELSE cached
        /\ table' = [table EXCEPT ![j] = new]
        /\ table[j] = Null \/ table[j].val = NoValue
    BY <1>12, Zenon DEF PutIfAbsentAndGet, inProgress
  <2>3. /\ table'[j] = new /\ \A k \in Key : k # j => table'[k] = table[k]
        /\ new # Null /\ new.val = v /\ (soft[v] = 0 => new.master)
    <3>1. new \in Entry /\ new.val = v /\ (soft[v] = 0 => new.master)
      BY <1>1, Zenon DEF Entry, TypeOK
    <3> QED
      BY <1>1, <2>2, <3>1, CacheAssumption DEF TypeOK
  <2>4. ASSUME NEW CONSTANT o \in Obj, o # v PROVE soft'[o] = soft[o]
    <3>1. o \in Value /\ o # NoValue
      BY <1>2, Zenon
    <3>2. inc(soft, v) \in [Value -> Int] /\ inc(soft, v)[o] = soft[o]
      BY <1>3, <2>4, <3>1, Counting, ZenonT(40)
    <3>3. dec(inc(soft, v), NoValue)[o] = soft[o]
      BY <1>2, <3>1, <3>2, Counting, SMTT(40)
    <3> QED
      BY <2>2, <3>2, <3>3, Zenon
  <2>5. ASSUME NEW CONSTANT o \in Obj, o \in cached', hard'[o] > 0 \/ soft'[o] > 0
        PROVE  \E k \in Key : EntryOf(k, o)' /\ table'[k].master
    <3>1. CASE o = v /\ soft[v] = 0
      BY <2>3, <3>1, Zenon DEF EntryOf
    <3>2. CASE ~(o = v /\ soft[v] = 0)
      <4>1. o \in cached
        BY <2>2, <2>5, <3>2, Zenon
      <4>2. hard[o] > 0 \/ soft[o] > 0
        <5>1. CASE o = v
          <6>1. o \in Value /\ soft[o] \in Nat /\ soft[o] # 0
            BY <1>1, <1>2, <3>2, <5>1, Referred, Zenon
          <6> QED
            BY <6>1
        <5>2. CASE o # v
          BY <2>2, <2>4, <2>5, <5>2, Zenon
        <5> QED
          BY <5>1, <5>2, Zenon
      <4>3. PICK k \in Key : EntryOf(k, o) /\ table[k].master
        BY <1>1, <4>1, <4>2, Zenon DEF Masters
      <4>4. k # j
        BY <1>2, <2>2, <4>3, Zenon DEF EntryOf
      <4> QED
        BY <2>3, <4>3, <4>4, Zenon DEF EntryOf
    <3> QED
      BY <3>1, <3>2, Zenon
  <2> QED
    BY <2>5, Zenon DEF Masters
<1>13. ASSUME NEW CONSTANT t \in Thread, SliceStep(t) \/ FlushStep(t) PROVE Masters'
  <2> SUFFICES ASSUME NEW CONSTANT j \in Key, table[j] # Null, table[j].val \in Value, j = nextElement,
                      visitElement(isEvictable(table[j]))
               PROVE  Masters'
    BY <1>13, Evicted
  <2>1. CASE ~isEvictable(table[j])
    <3>1. UNCHANGED <<table, cached, hard, soft>>
      BY <2>1, Zenon DEF visitElement, objVars
    <3> QED
      BY <1>4, <3>1, Zenon
  <2>2. CASE isEvictable(table[j])
    <3> SUFFICES ASSUME NEW CONSTANT v \in Value, v = table[j].val PROVE Masters'
      BY Zenon
    <3>1. UNCHANGED <<hard, cached>> /\ soft' = dec(soft, v) /\ table' = [table EXCEPT ![j] = Null]
      BY <2>2, Zenon DEF visitElement, removeSoftRef
    <3>2. \A k \in Key : k # j => table'[k] = table[k]
      BY <1>1, <3>1, Zenon DEF TypeOK
    <3>3. \A o \in Value : soft[o] \in Int /\ soft'[o] = IF o = v THEN soft[o] - 1 ELSE soft[o]
      BY <1>3, <3>1, Zenon DEF dec
    <3>4. table[j].master => soft[v] = 1 /\ hard[v] = 0
      BY <2>2, Zenon DEF isEvictable
    <3>5. ASSUME NEW CONSTANT o \in Obj, o \in cached', hard'[o] > 0 \/ soft'[o] > 0
          PROVE  \E k \in Key : EntryOf(k, o)' /\ table'[k].master
      <4>1. o \in Value /\ (hard[o] > 0 \/ soft[o] > 0) /\ o \in cached
        BY <1>2, <3>1, <3>3, <3>5
      <4>2. PICK k \in Key : EntryOf(k, o) /\ table[k].master
        BY <1>1, <4>1, Zenon DEF Masters
      <4>3. k # j
        <5> SUFFICES ASSUME k = j PROVE FALSE
          OBVIOUS
        <5>1. o = v /\ soft[v] = 1 /\ hard[v] = 0
          BY <3>4, <4>2, Zenon DEF EntryOf
        <5> QED
          BY <3>1, <3>3, <3>5, <5>1
      <4> QED
        BY <3>2, <4>2, <4>3, Zenon DEF EntryOf
    <3> QED
      BY <3>5, Zenon DEF Masters
  <2> QED
    BY <2>1, <2>2, Zenon
<1>14. CASE Cleanup
  <2>1. ASSUME NEW o \in Obj PROVE hard'[o] = 0 /\ soft'[o] = 0
    <3>1. soft'[o] = soft[o] - TableRefs(o) /\ hard' = [hard EXCEPT ![NoValue] = 0]
      BY <1>2, <1>14, ZenonT(40) DEF Cleanup, TableRefs
    <3>2. soft[o] = TableRefs(o) + 0 /\ soft[o] \in Int
      <4>1. o \in Value /\ o # NoValue
        BY <1>2, Zenon
      <4>2. soft[o] = TableRefs(o) + (IF o = NoValue THEN 1 ELSE 0)
        BY <1>1, <4>1, Zenon DEF RefCountsExact
      <4>3. soft[o] \in Int
        BY <1>1, <4>1, Zenon DEF TypeOK
      <4> QED
        BY <4>1, <4>2, <4>3, Zenon
    <3>3. TableRefs(o) \in Nat
      BY <1>2 DEF References
    <3>4. hard'[o] = 0
      BY <1>2, <1>3, <1>14, <3>1, CleanupUnused, Zenon
    <3> QED
      BY <3>1, <3>2, <3>3, <3>4
  <2> QED
    BY <2>1 DEF Masters
<1>15. CASE UNCHANGED vars
  BY <1>4, <1>15, Zenon DEF vars, objVars, cacheVars
<1> QED
  BY <1>5, <1>6, <1>7, <1>8, <1>9, <1>10, <1>11, <1>12, <1>13, <1>14, <1>15, Zenon DEF Next, ThreadStep

(* A key that has a value of its own is its own root. *)
LEMMA RootSelf ==
    ASSUME NEW k \in Key, Alias[k] = Null PROVE Root[k] = k
<1>1. k \in Reached(k)
  BY Zenon DEF Reached
<1>2. {k} \in SUBSET Key /\ \A j \in {k} : Alias[j] # Null => Alias[j] \in {k}
  OBVIOUS
<1>3. Reached(k) \subseteq {k}
  BY <1>2, Zenon DEF Reached
<1>4. Ends(k) = {k}
  BY <1>1, <1>3, Zenon DEF Ends
<1> QED
  BY <1>4, Zenon DEF Root

(* A key whose value is that of another has the root of the other. *)
LEMMA RootAlias ==
    ASSUME NEW k \in Key, Alias[k] # Null PROVE Alias[k] \in Key /\ Root[k] = Root[Alias[k]]
<1>1. Alias[k] \in Key
  BY CacheAssumption, Zenon
<1> DEFINE closed(S) == \A j \in S : Alias[j] # Null => Alias[j] \in S
<1>2. ASSUME NEW r \in Key, Alias[r] = Null, r \in Reached(k) PROVE r \in Reached(Alias[k])
  <2> SUFFICES ASSUME NEW S \in SUBSET Key, Alias[k] \in S, closed(S) PROVE r \in S
    BY Zenon DEF Reached
  <2>1. S \cup {k} \in SUBSET Key /\ k \in S \cup {k} /\ closed(S \cup {k})
    OBVIOUS
  <2>2. r \in S \cup {k}
    BY <1>2, <2>1, Zenon DEF Reached
  <2> QED
    BY <1>2, <2>2, Zenon
<1>3. ASSUME NEW r \in Key, r \in Reached(Alias[k]) PROVE r \in Reached(k)
  BY <1>3, Zenon DEF Reached
<1>4. Ends(k) = Ends(Alias[k])
  <2>1. \A r : r \in Ends(k) => r \in Key /\ Alias[r] = Null /\ r \in Reached(k)
    BY Zenon DEF Ends, Reached
  <2>2. \A r : r \in Ends(Alias[k]) => r \in Key /\ Alias[r] = Null /\ r \in Reached(Alias[k])
    BY Zenon DEF Ends, Reached
  <2>3. \A r : r \in Ends(k) <=> r \in Ends(Alias[k])
    BY <1>2, <1>3, <2>1, <2>2, Zenon DEF Ends
  <2> QED
    BY <2>3, Zenon DEF Ends
<1> QED
  BY <1>1, <1>4 DEF Root

(* Thread w goes on with what it has. *)
Still(w) == pc'[w] = pc[w] /\ val'[w] = val[w] /\ job'[w] = job[w] /\ (val[w] \in cached' <=> val[w] \in cached)

(* A step that leaves the entries of objects alone. *)
LEMMA RootsKept ==
    ASSUME Roots, Chains', Alone',
           \A k \in Key : table[k] # Null /\ table[k].val \in Obj => table'[k] = table[k],
           \A w \in Thread, k \in Key, o \in Obj : ptr'[w][k] = o => ptr[w][k] = o \/ MasterAt(k, o),
           \A k \in Key, o \in Obj : EntryOf(k, o)' => EntryOf(k, o) \/ MasterAt(k, o)',
           \A w \in Thread : Still(w) \/ Got(w)'
    PROVE  Roots'
<1>1. \A k \in Key, o \in Obj : MasterAt(k, o) => MasterAt(k, o)'
  BY ZenonT(40) DEF MasterAt, EntryOf
<1>2. Owned'
  BY <1>1, Zenon DEF Roots, Owned
<1>3. Entered'
  BY <1>1, Zenon DEF Roots, Entered
<1>4. ASSUME NEW CONSTANT w \in Thread PROVE Got(w)'
  <2>1. CASE Got(w)'
    BY <2>1, Zenon
  <2>2. CASE Still(w)
    <3>1. CurrentKey(w)' = CurrentKey(w) /\ Got(w)
      BY <2>2, Zenon DEF Still, CurrentKey, Roots
    <3> QED
      BY <1>1, <2>2, <3>1, ZenonT(60) DEF Still, Got
  <2> QED
    BY <2>1, <2>2, Zenon
<1> QED
  BY <1>2, <1>3, <1>4, Zenon DEF Roots

(* How the keys of a thread change. *)
LEMMA ChainStep ==
    ASSUME Inv1, Chains, [Next]_vars PROVE Chains'
<1>1. TypeOK /\ job \in [Thread -> Seq(Key)]
  BY Zenon DEF Inv1, TypeOK
<1>2. ASSUME NEW CONSTANT t \in Thread,
             \A w \in Thread \ {t} : job'[w] = job[w],
             \/ job'[t] = job[t] \/ job'[t] = <<>> \/ \E k \in Key : job'[t] = <<k>>
             \/ Len(job[t]) > 1 /\ job'[t] = SubSeq(job[t], 1, Len(job[t]) - 1)
             \/ /\ job[t] # <<>> /\ Alias[CurrentKey(t)] \in Key
                /\ job'[t] = Append(job[t], Alias[CurrentKey(t)])
      PROVE  Chains'
  <2>1. \A w \in Thread \ {t} : Chain(w)'
    BY <1>2 DEF Chains, Chain
  <2>2. CASE job'[t] = job[t] \/ job'[t] = <<>> \/ \E k \in Key : job'[t] = <<k>>
    <3>1. Chain(t)'
      BY <2>2 DEF Chains, Chain
    <3> QED
      BY <2>1, <3>1, Zenon DEF Chains
  <2>3. CASE Len(job[t]) > 1 /\ job'[t] = SubSeq(job[t], 1, Len(job[t]) - 1)
    <3>1. job[t] \in Seq(Key) /\ Len(job[t]) \in Nat
      BY <1>1
    <3>2. Len(job'[t]) = Len(job[t]) - 1 /\ \A i \in 1..(Len(job[t]) - 1) : job'[t][i] = job[t][i]
      BY <2>3, <3>1
    <3>3. Chain(t)'
      <4> SUFFICES ASSUME NEW CONSTANT i \in 1..Len(job'[t]), i > 1 PROVE job'[t][i] = Alias[job'[t][i - 1]]
        BY Zenon DEF Chain
      <4>1. i \in 1..Len(job[t]) /\ i \in 1..(Len(job[t]) - 1) /\ i - 1 \in 1..(Len(job[t]) - 1)
        BY <3>1, <3>2
      <4>2. job[t][i] = Alias[job[t][i - 1]]
        BY <4>1, Zenon DEF Chains, Chain
      <4> QED
        BY <3>2, <4>1, <4>2, Zenon
    <3> QED
      BY <2>1, <3>3 DEF Chains
  <2>4. CASE job[t] # <<>> /\ Alias[CurrentKey(t)] \in Key /\ job'[t] = Append(job[t], Alias[CurrentKey(t)])
    <3>1. job[t] \in Seq(Key) /\ Len(job[t]) \in Nat /\ Len(job[t]) >= 1
      BY <1>1, <2>4
    <3>2. /\ Len(job'[t]) = Len(job[t]) + 1 /\ \A i \in 1..Len(job[t]) : job'[t][i] = job[t][i]
          /\ job'[t][Len(job[t]) + 1] = Alias[CurrentKey(t)]
      BY <2>4, <3>1
    <3>3. Chain(t)'
      <4> SUFFICES ASSUME NEW CONSTANT i \in 1..Len(job'[t]), i > 1 PROVE job'[t][i] = Alias[job'[t][i - 1]]
        BY DEF Chain
      <4>1. CASE i \in 1..Len(job[t])
        <5>1. job[t][i] = Alias[job[t][i - 1]] /\ i - 1 \in 1..Len(job[t])
          BY <3>1, <4>1 DEF Chains, Chain
        <5> QED
          BY <3>2, <4>1, <5>1, Zenon
      <4>2. CASE i = Len(job[t]) + 1
        <5>1. i - 1 = Len(job[t]) /\ i - 1 \in 1..Len(job[t])
          BY <3>1, <4>2
        <5> QED
          BY <3>2, <4>2, <5>1, Zenon DEF CurrentKey
      <4> QED
        BY <3>1, <3>2, <4>1, <4>2
    <3> QED
      BY <2>1, <3>3 DEF Chains
  <2> QED
    BY <1>2, <2>2, <2>3, <2>4, Zenon
<1>3. ASSUME NEW CONSTANT t \in Thread, ThreadStep(t) PROVE Chains'
  <2>1. CASE CreateAlias(t)
    <3>1. job[t] # <<>> /\ Alias[CurrentKey(t)] \in Key /\ job'[t] = Append(job[t], Alias[CurrentKey(t)])
      <4>1. job[t] # <<>>
        BY <2>1, Zenon DEF CreateAlias, Inv1, LocalInv, LocalOK
      <4>2. CurrentKey(t) \in Key
        BY <1>1, <4>1, CurrentKeyType, Zenon
      <4> QED
        BY <1>1, <2>1, <4>1, <4>2, CacheAssumption, Zenon DEF CreateAlias
    <3>2. \A w \in Thread \ {t} : job'[w] = job[w]
      BY <1>1, <2>1, Zenon DEF CreateAlias
    <3> QED
      BY <1>2, <3>1, <3>2, Zenon
  <2>2. CASE ReturnToCreate(t)
    <3>1. Len(job[t]) > 1 /\ job'[t] = SubSeq(job[t], 1, Len(job[t]) - 1) /\ \A w \in Thread \ {t} : job'[w] = job[w]
      BY <1>1, <2>2, Zenon DEF ReturnToCreate
    <3> QED
      BY <1>2, <3>1, Zenon
  <2>3. ASSUME Return(t) \/ \E k \in Key : Get(t, k) PROVE Chains'
    <3>1. (job'[t] = <<>> \/ \E k \in Key : job'[t] = <<k>>) /\ \A w \in Thread \ {t} : job'[w] = job[w]
      BY <1>1, <2>3, Zenon DEF Return, Get
    <3> QED
      BY <1>2, <3>1, Zenon
  <2>4. ASSUME \/ \E k \in Key : Release(t, k)
               \/ \E u \in Thread, k \in Key : Share(t, u, k)
               \/ PollFetch(t) \/ PollWait(t) \/ PollMiss(t) \/ PollMissFails(t) \/ SpuriousWakeup(t)
               \/ CreateNew(t) \/ CreateFails(t) \/ PutIfAbsentAndGet(t)
               \/ DecHard(t) \/ DecTotal(t) \/ ReadCachePtr(t) \/ DecrementItemsInUse(t) \/ Delete(t)
               \/ SliceStep(t) \/ Flush(t) \/ FlushStep(t) \/ FlushPassEnd(t)
               \/ \E p \in Policies : SetEvictionPolicy(t, p)
        PROVE  Chains'
    <3>1. job' = job
      BY <2>4, Zenon DEF Release, Share, PollFetch, PollWait, PollMiss, PollMissFails, SpuriousWakeup, CreateNew, CreateFails,
            PutIfAbsentAndGet, DecHard, DecTotal, ReadCachePtr, DecrementItemsInUse, Delete, SliceStep, Flush,
            FlushStep, FlushPassEnd, SetEvictionPolicy, locals
    <3> QED
      BY <3>1, Zenon DEF Chains, Chain
  <2> QED
    BY <1>3, <2>1, <2>2, <2>3, <2>4, Zenon DEF ThreadStep
<1>4. CASE Cleanup \/ UNCHANGED vars
  <2>1. job' = job
    BY <1>4, Zenon DEF Cleanup, vars, locals
  <2> QED
    BY <2>1, Zenon DEF Chains, Chain
<1> QED
  BY <1>3, <1>4, Zenon DEF Next

(* An object that is not registered yet is in the hands of one thread. *)
LEMMA AloneStep ==
    ASSUME Inv1, Inv3, References, Elements, Alone, [Next]_vars PROVE Alone'
<1>1. TypeOK /\ val \in [Thread -> Value \cup {Null}]
  BY Zenon DEF Inv1, TypeOK
<1>2. NoValue \notin Obj /\ Null \notin Obj
  BY NullFresh, Zenon
<1>3. ASSUME NEW CONSTANT t \in Thread, cached \subseteq cached',
             \A w \in Thread \ {t} : val'[w] = val[w],
             val'[t] = val[t] \/ val'[t] \notin Obj \/ val'[t] \in cached
      PROVE  Alone'
  BY <1>3, ZenonT(40) DEF Alone
<1>4. ASSUME NEW CONSTANT t \in Thread, ThreadStep(t) PROVE Alone'
  <2>1. CASE CreateNew(t)
    <3>1. PICK v \in Obj : cached' = cached \ {v} /\ val' = [val EXCEPT ![t] = v] /\ \A u \in Thread : val[u] # v
      BY <2>1, Zenon DEF CreateNew
    <3> QED
      BY <1>1, <3>1, Zenon DEF Alone
  <2>2. CASE PollFetch(t)
    <3>1. CurrentKey(t) \in Key
      BY <1>1, <2>2, CurrentKeyType, Zenon DEF PollFetch, Inv1, LocalInv, LocalOK
    <3> SUFFICES ASSUME NEW CONSTANT v, v = table[CurrentKey(t)].val PROVE Alone'
      OBVIOUS
    <3>2. EntryOf(CurrentKey(t), v) /\ cached' = cached /\ val' = [val EXCEPT ![t] = v]
      BY <2>2, Zenon DEF PollFetch, addRef, EntryOf
    <3>3. v \in Obj => v \in cached
      BY <3>1, <3>2, Registered, Zenon
    <3> QED
      BY <1>1, <1>3, <3>2, <3>3, Zenon
  <2>3. ASSUME NEW CONSTANT k \in Key, Release(t, k) PROVE Alone'
    <3>1. cached' = cached /\ val' = [val EXCEPT ![t] = ptr[t][k]] /\ (ptr[t][k] \in Obj => ptr[t][k] \in cached)
      BY <2>3, Registered, Zenon DEF Release, objVars
    <3> QED
      BY <1>1, <1>3, <3>1, Zenon
  <2>4. ASSUME CreateFails(t) \/ Return(t) \/ ReturnToCreate(t) \/ Delete(t) PROVE Alone'
    <3>1. cached' = cached /\ \E x \in {NoValue, Null, val[t]} : val' = [val EXCEPT ![t] = x]
      BY <2>4, Zenon DEF CreateFails, Return, ReturnToCreate, Delete, addRef, objVars
    <3> QED
      BY <1>1, <1>2, <1>3, <3>1
  <2>5. ASSUME \/ \E k \in Key : Get(t, k)
               \/ \E u \in Thread, k \in Key : Share(t, u, k)
               \/ PollWait(t) \/ PollMiss(t) \/ PollMissFails(t) \/ SpuriousWakeup(t)
               \/ CreateAlias(t) \/ PutIfAbsentAndGet(t)
               \/ DecHard(t) \/ DecTotal(t) \/ ReadCachePtr(t) \/ DecrementItemsInUse(t)
               \/ SliceStep(t) \/ Flush(t) \/ FlushStep(t) \/ FlushPassEnd(t)
               \/ \E p \in Policies : SetEvictionPolicy(t, p)
        PROVE  Alone'
    <3>1. val' = val /\ cached \subseteq cached'
      BY <2>5, Zenon DEF Get, Share, PollWait, PollMiss, PollMissFails, SpuriousWakeup, CreateAlias,
            PutIfAbsentAndGet, DecHard, DecTotal, ReadCachePtr, DecrementItemsInUse, SliceStep, Flush,
            FlushStep, FlushPassEnd, SetEvictionPolicy, locals, objVars, addRef, addSoftRef, visitElement, removeSoftRef
    <3> QED
      BY <3>1, Zenon DEF Alone
  <2> QED
    BY <1>4, <2>1, <2>2, <2>3, <2>4, <2>5, Zenon DEF ThreadStep
<1>5. CASE Cleanup \/ UNCHANGED vars
  <2>1. val' = val /\ cached \subseteq cached' \cup {NoValue}
    BY <1>5, Zenon DEF Cleanup, vars, locals, objVars
  <2> QED
    BY <1>2, <2>1, Zenon DEF Alone
<1> QED
  BY <1>4, <1>5, Zenon DEF Next

LEMMA RootsNext ==
    ASSUME Inv1, Inv3, References, Elements, Roots, [Next]_vars PROVE Roots'
<1>1. TypeOK /\ LocalInv /\ RefCountsExact /\ Chains /\ Owned /\ Entered /\ Alone /\ \A w \in Thread : Got(w)
  BY Zenon DEF Inv1, Inv3, Roots
<1>2. Chains' /\ Alone'
  BY <1>1, ChainStep, AloneStep, Zenon
<1>3. /\ pc \in [Thread -> Pc] /\ val \in [Thread -> Value \cup {Null}] /\ job \in [Thread -> Seq(Key)]
      /\ ptr \in [Thread -> [Key -> Obj \cup {Null}]]
  BY <1>1, Zenon DEF TypeOK
<1>4. NoValue \notin Obj /\ Null \notin Obj /\ Obj \subseteq Value
  BY NullFresh, Zenon
<1>5. ASSUME NEW CONSTANT t \in Thread, table' = table, ptr' = ptr, cached' = cached,
             \A w \in Thread \ {t} : pc'[w] = pc[w] /\ val'[w] = val[w] /\ job'[w] = job[w], Got(t)'
      PROVE  Roots'
  <2>1. \A w \in Thread : Still(w) \/ Got(w)'
    BY <1>5, Zenon DEF Still
  <2> QED
    BY <1>2, <1>5, <2>1, RootsKept, Zenon DEF EntryOf
<1>6. ASSUME NEW CONSTANT t \in Thread,
             \/ \E k \in Key : Get(t, k)
             \/ PollWait(t) \/ PollMissFails(t) \/ SpuriousWakeup(t)
             \/ CreateAlias(t) \/ CreateFails(t)
             \/ DecHard(t) \/ DecTotal(t) \/ ReadCachePtr(t) \/ DecrementItemsInUse(t) \/ Delete(t)
             \/ Flush(t) \/ FlushPassEnd(t)
             \/ \E p \in Policies : SetEvictionPolicy(t, p)
      PROVE  Roots'
  <2>1. UNCHANGED <<table, ptr, cached>>
    BY <1>6, Zenon DEF Get, PollWait, PollMissFails, SpuriousWakeup, CreateAlias, CreateFails, DecHard, DecTotal, ReadCachePtr,
                DecrementItemsInUse, Delete, Flush, FlushPassEnd, SetEvictionPolicy, addRef, cacheVars, objVars, client
  <2>2. \A w \in Thread \ {t} : pc'[w] = pc[w] /\ val'[w] = val[w] /\ job'[w] = job[w]
    BY <1>3, <1>6, Zenon DEF Get, PollWait, PollMissFails, SpuriousWakeup, CreateAlias, CreateFails, DecHard, DecTotal,
                ReadCachePtr, DecrementItemsInUse, runEvictionSlice, Delete, Flush, FlushPassEnd, SetEvictionPolicy, locals
  <2>3. pc'[t] \notin {"return", "putSlice", "put"} \/ val'[t] \notin Obj
    <3>1. CASE PollMissFails(t)
      BY <1>1, <1>4, <3>1, Zenon DEF PollMissFails, LocalInv, LocalOK
    <3>2. CASE CreateFails(t) \/ Delete(t)
      BY <1>3, <1>4, <3>2, Zenon DEF CreateFails, Delete
    <3>3. ASSUME ~(PollMissFails(t) \/ CreateFails(t) \/ Delete(t))
          PROVE  pc'[t] \notin {"return", "putSlice", "put"}
      BY <1>3, <1>6, <3>3, Zenon DEF Get, PollWait, SpuriousWakeup, CreateAlias, DecHard, DecTotal,
                ReadCachePtr, DecrementItemsInUse, runEvictionSlice, Flush, FlushPassEnd, SetEvictionPolicy
    <3> QED
      BY <3>1, <3>2, <3>3, Zenon
  <2>4. Got(t)'
    BY <2>3, Zenon DEF Got
  <2> QED
    BY <1>5, <2>1, <2>2, <2>4, Zenon
<1>7. ASSUME NEW CONSTANT t \in Thread, PollMiss(t) PROVE Roots'
  <2>1. CurrentKey(t) \in Key
    BY <1>1, <1>7, CurrentKeyType, Zenon DEF PollMiss, LocalInv, LocalOK
  <2> SUFFICES ASSUME NEW CONSTANT j \in Key, j = CurrentKey(t) PROVE Roots'
    BY <2>1, Zenon
  <2>2. /\ UNCHANGED <<ptr, cached, val, job>> /\ table[j] = Null /\ table' = [table EXCEPT ![j] = Marker]
        /\ pc' = [pc EXCEPT ![t] = "create"]
    BY <1>7, Zenon DEF PollMiss, addSoftRef, client, locals
  <2>3. table'[j] = Marker /\ \A k \in Key : k # j => table'[k] = table[k]
    BY <1>1, <2>2, Zenon DEF TypeOK
  <2>4. \A k \in Key, o \in Obj : EntryOf(k, o)' => EntryOf(k, o)
    BY <1>4, <2>3 DEF EntryOf, Marker
  <2>5. \A w \in Thread : Still(w) \/ Got(w)'
    BY <1>3, <2>2, Zenon DEF Still, Got
  <2>6. \A k \in Key : table[k] # Null => table'[k] = table[k]
    BY <2>2, <2>3, Zenon
  <2> QED
    BY <1>2, <2>2, <2>4, <2>5, <2>6, RootsKept, Zenon
<1>8. ASSUME NEW CONSTANT t \in Thread, NEW CONSTANT k \in Key, Release(t, k) PROVE Roots'
  <2>1. UNCHANGED <<table, cached, job>> /\ ptr' = [ptr EXCEPT ![t][k] = Null]
    BY <1>8, Zenon DEF Release, cacheVars, objVars
  <2>2. \A w \in Thread, i \in Key, o \in Obj : ptr'[w][i] = o => ptr[w][i] = o
    BY <1>3, <1>4, <2>1, Zenon
  <2>3. \A w \in Thread : Still(w) \/ pc'[w] = "decHard"
    BY <1>3, <1>8, <2>1, Zenon DEF Still, Release
  <2>4. \A w \in Thread : Still(w) \/ Got(w)'
    BY <2>3, Zenon DEF Got
  <2>5. \A i \in Key, o \in Obj : EntryOf(i, o)' => EntryOf(i, o)
    BY <2>1, Zenon DEF EntryOf
  <2> QED
    BY <1>2, <2>1, <2>2, <2>4, <2>5, RootsKept
<1>9. ASSUME NEW CONSTANT t \in Thread, NEW CONSTANT u \in Thread, NEW CONSTANT k \in Key, Share(t, u, k)
      PROVE  Roots'
  <2>1. UNCHANGED <<table, cached, job, pc, val>> /\ ptr' = [ptr EXCEPT ![u][k] = ptr[t][k]]
    BY <1>9, Zenon DEF Share, addRef, cacheVars, locals
  <2>2. \A w \in Thread, i \in Key, o \in Obj : ptr'[w][i] = o => ptr[w][i] = o \/ MasterAt(i, o)
    <3> SUFFICES ASSUME NEW CONSTANT w \in Thread, NEW CONSTANT i \in Key, NEW CONSTANT o \in Obj,
                        ptr'[w][i] = o, ptr[w][i] # o
                 PROVE  MasterAt(i, o)
      OBVIOUS
    <3>1. i = k /\ ptr[t][k] = o
      BY <1>3, <2>1, Zenon
    <3> QED
      BY <1>1, <3>1, Zenon DEF Owned
  <2>3. \A w \in Thread : Still(w)
    BY <2>1, Zenon DEF Still
  <2>4. \A i \in Key, o \in Obj : EntryOf(i, o)' => EntryOf(i, o)
    BY <2>1, Zenon DEF EntryOf
  <2> QED
    BY <1>2, <2>1, <2>2, <2>3, <2>4, RootsKept, Zenon
<1>10. ASSUME NEW CONSTANT t \in Thread, PollFetch(t) PROVE Roots'
  <2>1. CurrentKey(t) \in Key
    BY <1>1, <1>10, CurrentKeyType, Zenon DEF PollFetch, LocalInv, LocalOK
  <2> SUFFICES ASSUME NEW CONSTANT j \in Key, j = CurrentKey(t), NEW CONSTANT v, v = table[j].val PROVE Roots'
    BY <2>1, Zenon
  <2>2. /\ UNCHANGED <<table, ptr, cached, job>> /\ EntryOf(j, v) /\ val' = [val EXCEPT ![t] = v]
        /\ \E next \in {"decHard", "return"} : pc' = [pc EXCEPT ![t] = next]
    BY <1>10, Zenon DEF PollFetch, addRef, client, EntryOf
  <2>3. v \in Obj => MasterAt(j, v)'
    BY <1>1, <2>2, Zenon DEF Entered, MasterAt, EntryOf
  <2>4. CurrentKey(t)' = j /\ val'[t] = v /\ pc'[t] \in {"decHard", "return"}
    BY <1>3, <2>2, Zenon DEF CurrentKey
  <2>5. Got(t)'
    BY <2>3, <2>4, Zenon DEF Got
  <2> QED
    BY <1>3, <1>5, <2>2, <2>5, Zenon
<1>11. ASSUME NEW CONSTANT t \in Thread, CreateNew(t) PROVE Roots'
  <2>1. UNCHANGED <<table, ptr, job>> /\ pc' = [pc EXCEPT ![t] = "put"] /\ Alias[CurrentKey(t)] = Null
    BY <1>11, Zenon DEF CreateNew, cacheVars, client
  <2>2. PICK v \in Obj : cached' = cached \ {v} /\ val' = [val EXCEPT ![t] = v] /\ \A u \in Thread : val[u] # v
    BY <1>11, Zenon DEF CreateNew
  <2>3. CurrentKey(t)' = CurrentKey(t) /\ val'[t] = v /\ pc'[t] = "put" /\ v \notin cached'
    BY <1>3, <2>1, <2>2, Zenon DEF CurrentKey
  <2>4. Got(t)'
    BY <2>1, <2>3, Zenon DEF Got
  <2>5. \A w \in Thread \ {t} : Still(w)
    BY <1>3, <2>1, <2>2, Zenon DEF Still
  <2> QED
    BY <1>2, <2>1, <2>4, <2>5, RootsKept, Zenon DEF EntryOf
<1>12. ASSUME NEW CONSTANT t \in Thread, Return(t) PROVE Roots'
  <2>1. job[t] # <<>>
    BY <1>1, <1>12, Zenon DEF Return, LocalInv, LocalOK
  <2>2. CurrentKey(t) \in Key
    BY <1>1, <2>1, CurrentKeyType, Zenon
  <2> SUFFICES ASSUME NEW CONSTANT j \in Key, j = CurrentKey(t) PROVE Roots'
    BY <2>2
  <2>3. /\ UNCHANGED <<table, cached>> /\ ptr' = [ptr EXCEPT ![t][j] = val[t]] /\ pc[t] = "return"
        /\ val' = [val EXCEPT ![t] = Null] /\ pc' = [pc EXCEPT ![t] = "idle"] /\ job' = [job EXCEPT ![t] = <<>>]
    BY <1>12, Zenon DEF Return, cacheVars, objVars
  <2>4. \A w \in Thread, i \in Key, o \in Obj : ptr'[w][i] = o => ptr[w][i] = o \/ MasterAt(i, o)
    <3> SUFFICES ASSUME NEW CONSTANT w \in Thread, NEW CONSTANT i \in Key, NEW CONSTANT o \in Obj,
                        ptr'[w][i] = o, ptr[w][i] # o
                 PROVE  MasterAt(i, o)
      OBVIOUS
    <3>1. i = j /\ val[t] = o
      BY <1>3, <2>3, Zenon
    <3> QED
      BY <1>1, <2>1, <2>3, <3>1, Zenon DEF Got
  <2>5. \A w \in Thread : Still(w) \/ Got(w)'
    BY <1>3, <2>3, Zenon DEF Still, Got
  <2>6. \A i \in Key, o \in Obj : EntryOf(i, o)' => EntryOf(i, o)
    BY <2>3, Zenon DEF EntryOf
  <2> QED
    BY <1>2, <2>3, <2>4, <2>5, <2>6, RootsKept, Zenon
<1>13. ASSUME NEW CONSTANT t \in Thread, ReturnToCreate(t) PROVE Roots'
  <2>1. /\ UNCHANGED <<table, ptr, cached>> /\ pc[t] = "return" /\ pc' = [pc EXCEPT ![t] = "put"]
        /\ Len(job[t]) > 1 /\ job' = [job EXCEPT ![t] = SubSeq(@, 1, Len(@) - 1)]
        /\ \E x \in {NoValue, val[t]} : val' = [val EXCEPT ![t] = x]
    BY <1>13, Zenon DEF ReturnToCreate, addRef, cacheVars, objVars, client
  <2>2. job[t] \in Seq(Key) /\ Len(job[t]) \in Nat /\ job[t] # <<>>
    BY <1>3, <2>1
  <2>3. Len(job[t]) \in 1..Len(job[t]) /\ Len(job[t]) - 1 \in 1..Len(job[t]) /\ Len(job[t]) - 1 \in 1..(Len(job[t]) - 1)
    BY <2>1, <2>2
  <2>4. job[t][Len(job[t])] \in Key /\ job[t][Len(job[t]) - 1] \in Key
    BY <2>2, <2>3
  <2> SUFFICES ASSUME NEW CONSTANT j \in Key, j = job[t][Len(job[t])],
                      NEW CONSTANT i \in Key, i = job[t][Len(job[t]) - 1]
               PROVE  Roots'
    BY <2>4, Zenon
  <2>5. j = Alias[i] /\ j = CurrentKey(t)
    BY <1>1, <2>1, <2>3, Zenon DEF Chains, Chain, CurrentKey
  <2>6. Root[i] = Root[j]
    BY <2>5, RootAlias, NullFresh, Zenon
  <2>7. CurrentKey(t)' = i
    <3>1. Len(job'[t]) = Len(job[t]) - 1 /\ job'[t][Len(job[t]) - 1] = job[t][Len(job[t]) - 1]
      BY <1>3, <2>1, <2>2, <2>3
    <3> QED
      BY <3>1, Zenon DEF CurrentKey
  <2>8. ASSUME NEW CONSTANT o \in Obj, o = val'[t] PROVE MasterAt(i, o)' /\ o \in cached'
    <3>1. val[t] = o
      BY <1>3, <1>4, <2>1, <2>8, Zenon
    <3>2. MasterAt(j, o)
      BY <1>1, <2>1, <2>2, <2>5, <3>1, Zenon DEF Got
    <3>3. o \in cached
      BY <2>1, <3>1, Registered, Zenon
    <3> QED
      BY <2>1, <2>6, <3>2, <3>3, Zenon DEF MasterAt, EntryOf
  <2>9. Got(t)'
    BY <1>3, <2>1, <2>7, <2>8, ZenonT(40) DEF Got
  <2> QED
    BY <1>3, <1>5, <2>1, <2>9, Zenon
<1>14. ASSUME NEW CONSTANT t \in Thread, PutIfAbsentAndGet(t) PROVE Roots'
  <2>1. job[t] # <<>> /\ val[t] \in Value
    BY <1>1, <1>14, Zenon DEF PutIfAbsentAndGet, LocalInv, LocalOK
  <2>2. CurrentKey(t) \in Key
    BY <1>1, <2>1, CurrentKeyType, Zenon
  <2> SUFFICES ASSUME NEW CONSTANT v \in Value, v = val[t], NEW CONSTANT j \in Key, j = CurrentKey(t),
                      NEW CONSTANT new, new = [val |-> v, st |-> st[t], master |-> soft[v] = 0]
               PROVE  Roots'
    BY <2>1, <2>2, Zenon
  <2>3. /\ UNCHANGED <<ptr, val, job>> /\ pc[t] = "put"
        /\ cached' = IF soft[v] = 0 THEN cached \cup {v} ELSE cached
        /\ table' = [table EXCEPT ![j] = new]
        /\ table[j] = Null \/ table[j].val = NoValue
    BY <1>14, Zenon DEF PutIfAbsentAndGet, inProgress, client, locals
  <2>4. /\ table'[j] = new /\ \A k \in Key : k # j => table'[k] = table[k]
        /\ new # Null /\ new.val = v /\ (soft[v] = 0 => new.master)
    <3>1. new \in Entry /\ new.val = v /\ (soft[v] = 0 => new.master)
      BY <1>1, Zenon DEF Entry, TypeOK
    <3> QED
      BY <1>1, <2>3, <3>1, CacheAssumption, Zenon DEF TypeOK
  <2>5. \A k \in Key : table[k] # Null /\ table[k].val \in Obj => table'[k] = table[k]
    BY <1>4, <2>3, <2>4, ZenonT(40)
  <2>6. ASSUME v \in Obj PROVE MasterAt(j, v)' /\ (v \in cached <=> soft[v] # 0)
    <3>1. v \in cached => MasterAt(j, v)
      BY <1>1, <2>1, <2>3, <2>6, Zenon DEF Got
    <3>2. MasterAt(j, v) => soft[v] # 0
      BY <1>1, Referred DEF MasterAt
    <3>3. soft[v] # 0 => v \in cached
      BY <2>6, Registered, Zenon
    <3>4. CASE v \in cached
      BY <2>5, <2>6, <3>1, <3>2, <3>4, Zenon DEF MasterAt, EntryOf
    <3>5. CASE v \notin cached
      <4>1. Alias[j] = Null /\ soft[v] = 0
        BY <1>1, <2>1, <2>3, <2>6, <3>3, <3>5, Zenon DEF Got
      <4>2. Root[j] = j
        BY <4>1, RootSelf, Zenon
      <4> QED
        BY <2>4, <3>5, <4>1, <4>2, ZenonT(40) DEF MasterAt, EntryOf
    <3> QED
      BY <3>4, <3>5, Zenon
  <2>7. \A k \in Key, o \in Obj : EntryOf(k, o)' => EntryOf(k, o) \/ MasterAt(k, o)'
    <3> SUFFICES ASSUME NEW CONSTANT k \in Key, NEW CONSTANT o \in Obj, EntryOf(k, o)', ~EntryOf(k, o)
                 PROVE  MasterAt(k, o)'
      OBVIOUS
    <3>1. k = j /\ o = v
      BY <2>4, Zenon DEF EntryOf
    <3> QED
      BY <2>6, <3>1, ZenonT(40)
  <2>8. /\ pc'[t] \in {"putSlice", "decHard", "return"}
        /\ \A w \in Thread \ {t} : pc'[w] = pc[w] \/ (pc[w] = "wait" /\ pc'[w] = "poll")
    BY <1>3, <1>14, Zenon DEF PutIfAbsentAndGet, runEvictionSlice, AfterPut
  <2>9. Got(t)'
    <3>1. CurrentKey(t)' = j /\ val'[t] = v
      BY <2>3, Zenon DEF CurrentKey
    <3> QED
      BY <2>6, <2>8, <3>1, Zenon DEF Got
  <2>10. ASSUME NEW CONSTANT w \in Thread PROVE Still(w) \/ Got(w)'
    <3>1. CASE w = t
      BY <2>9, <3>1, Zenon
    <3>2. CASE w # t /\ pc'[w] = "poll"
      BY <3>2, Zenon DEF Got
    <3>3. CASE w # t /\ pc'[w] # "poll"
      <4>1. pc'[w] = pc[w] /\ val'[w] = val[w] /\ job'[w] = job[w]
        BY <2>3, <2>8, <3>3, Zenon
      <4>2. val[w] \in cached' <=> val[w] \in cached
        <5>1. CASE val[w] # v \/ soft[v] # 0
          BY <2>3, <5>1, Zenon
        <5>2. CASE val[w] = v /\ soft[v] = 0
          <6>1. v \in Obj
            BY <1>1, <5>2, Referred DEF Value
          <6>2. v \notin cached
            BY <2>6, <5>2, <6>1, Zenon
          <6> QED
            BY <1>1, <3>3, <5>2, <6>1, <6>2, ZenonT(40) DEF Alone
        <5> QED
          BY <5>1, <5>2, Zenon
      <4> QED
        BY <4>1, <4>2, Zenon DEF Still
    <3> QED
      BY <3>1, <3>2, <3>3, Zenon
  <2> QED
    BY <1>2, <2>3, <2>5, <2>7, <2>10, RootsKept, Zenon
<1>15. ASSUME NEW CONSTANT t \in Thread, SliceStep(t) \/ FlushStep(t) PROVE Roots'
  <2> SUFFICES ASSUME NEW CONSTANT j \in Key, table[j] # Null, table[j].val \in Value, j = nextElement,
                      visitElement(isEvictable(table[j]))
               PROVE  Roots'
    BY <1>15, Evicted, Zenon
  <2>1. UNCHANGED <<ptr, val, job, cached, hard>>
    BY <1>15, Zenon DEF SliceStep, FlushStep, visitElement, removeSoftRef, objVars, locals, client
  <2>2. \A w \in Thread : pc'[w] = pc[w] \/ (pc[w] \in {"putSlice", "relSlice"} /\ pc'[w] \in {"decHard", "return", "delete"}
                                              /\ (pc'[w] = "return" => pc[w] = "putSlice"))
    BY <1>3, <1>15, Zenon DEF SliceStep, FlushStep, AfterPut
  <2>3. \A w \in Thread : CurrentKey(w)' = CurrentKey(w)
    BY <2>1, Zenon DEF CurrentKey
  <2>4. ASSUME \A k \in Key, o \in Obj :
                  MasterAt(k, o) /\ (hard[o] > 0 \/ EntryOf(k, o)') => MasterAt(k, o)',
               \A k \in Key, o \in Obj : EntryOf(k, o)' => EntryOf(k, o)
        PROVE  Roots'
    <3>1. Owned'
      <4>1. \A w \in Thread, k \in Key, o \in Obj : ptr[w][k] = o => hard[o] > 0
        BY <1>1, <1>4, Referred, Zenon
      <4> QED
        BY <1>1, <2>1, <2>4, <4>1, Zenon DEF Owned
    <3>2. Entered'
      BY <1>1, <2>4, Zenon DEF Entered
    <3>3. ASSUME NEW CONSTANT w \in Thread PROVE Got(w)'
      <4> SUFFICES ASSUME NEW CONSTANT k \in Key, NEW CONSTANT o \in Obj, job'[w] # <<>>, k = CurrentKey(w)', o = val'[w],
                          pc'[w] \in {"return", "putSlice", "put"}
                   PROVE  /\ pc'[w] \in {"return", "putSlice"} => MasterAt(k, o)'
                          /\ pc'[w] = "put" => IF o \in cached' THEN MasterAt(k, o)' ELSE Alias[k] = Null
        BY Zenon DEF Got
      <4>1. /\ job[w] # <<>> /\ k = CurrentKey(w) /\ o = val[w] /\ pc[w] \in {"return", "putSlice", "put"}
            /\ pc'[w] \in {"return", "putSlice"} => pc[w] \in {"return", "putSlice"}
            /\ pc'[w] = "put" => pc[w] = "put"
        BY <2>1, <2>2, <2>3, Zenon
      <4>2. Holds(w, o)
        BY <4>1, Zenon DEF Holds, Holding
      <4>3. hard[o] > 0
        BY <1>1, <1>4, <4>2, Referred, Zenon
      <4>4. /\ pc[w] \in {"return", "putSlice"} => MasterAt(k, o)
            /\ pc[w] = "put" => IF o \in cached THEN MasterAt(k, o) ELSE Alias[k] = Null
        BY <1>1, <4>1, Zenon DEF Got
      <4>5. MasterAt(k, o) => MasterAt(k, o)'
        BY <2>4, <4>3, Zenon
      <4> QED
        BY <2>1, <4>1, <4>4, <4>5, Zenon
    <3> QED
      BY <1>2, <3>1, <3>2, <3>3, Zenon DEF Roots
  <2>5. CASE ~isEvictable(table[j])
    <3>1. table' = table
      BY <2>5, Zenon DEF visitElement
    <3> QED
      BY <2>4, <3>1, Zenon DEF MasterAt, EntryOf
  <2>6. CASE isEvictable(table[j])
    <3>1. table' = [table EXCEPT ![j] = Null]
      BY <2>6, Zenon DEF visitElement
    <3>2. table'[j] = Null /\ \A k \in Key : k # j => table'[k] = table[k]
      BY <1>1, <3>1, Zenon DEF TypeOK
    <3>3. \A k \in Key, o \in Obj : EntryOf(k, o)' => EntryOf(k, o) /\ k # j
      BY <3>2, Zenon DEF EntryOf
    <3>4. ASSUME NEW CONSTANT k \in Key, NEW CONSTANT o \in Obj, MasterAt(k, o), hard[o] > 0 \/ EntryOf(k, o)'
          PROVE  MasterAt(k, o)'
      <4>1. CASE Root[k] # j
        BY <3>2, <3>4, <4>1, Zenon DEF MasterAt, EntryOf
      <4>2. CASE Root[k] = j
        <5>1. EntryOf(j, o) /\ table[j].master /\ table[j].val = o
          BY <3>4, <4>2, Zenon DEF MasterAt, EntryOf
        <5>2. soft[o] = 1 /\ hard[o] = 0
          BY <2>6, <5>1, ZenonT(40) DEF isEvictable
        <5>3. EntryOf(k, o) /\ k # j
          BY <3>3, <3>4, <5>2
        <5> QED
          BY <1>1, <5>1, <5>2, <5>3, OneEntry, Zenon
      <4> QED
        BY <4>1, <4>2, Zenon
    <3> QED
      BY <2>4, <3>3, <3>4, Zenon
  <2> QED
    BY <2>5, <2>6, Zenon
<1>16. CASE Cleanup
  <2>1. /\ \A w \in Thread : pc[w] = "idle" /\ \A k \in Key : ptr[w][k] = Null
        /\ UNCHANGED <<ptr, job, pc>> /\ table' = [k \in Key |-> Null]
    BY <1>16, Zenon DEF Cleanup, locals, client
  <2>2. Owned' /\ Entered'
    BY <1>4, <2>1, Zenon DEF Owned, Entered, EntryOf
  <2>3. \A w \in Thread : Got(w)'
    BY <2>1, Zenon DEF Got
  <2> QED
    BY <1>2, <2>2, <2>3, Zenon DEF Roots
<1>17. CASE UNCHANGED vars
  <2>1. UNCHANGED <<table, ptr, cached, pc, val, job>>
    BY <1>17, Zenon DEF vars, cacheVars, objVars, locals, client
  <2>2. \A w \in Thread : Still(w)
    BY <2>1, Zenon DEF Still
  <2> QED
    BY <1>2, <2>1, <2>2, RootsKept, Zenon DEF EntryOf
<1> QED
  BY <1>6, <1>7, <1>8, <1>9, <1>10, <1>11, <1>12, <1>13, <1>14, <1>15, <1>16, <1>17, Zenon DEF Next, ThreadStep

LEMMA OneMasterNext ==
    ASSUME Inv1, Inv3, References, Elements, OneMaster, [Next]_vars PROVE OneMaster'
<1>1. TypeOK /\ LocalInv /\ RefCountsExact
  BY Zenon DEF Inv1, Inv3
<1>2. NoValue \notin Obj /\ Null \notin Obj /\ Obj \subseteq Value
  BY NullFresh
<1>3. ASSUME \A k \in Key : table'[k] # Null /\ table'[k].master => table'[k] = table[k] PROVE OneMaster'
  BY <1>3 DEF OneMaster, EntryOf
<1>4. ASSUME NEW CONSTANT t \in Thread, PollMiss(t) PROVE OneMaster'
  <2>1. table' = [table EXCEPT ![CurrentKey(t)] = Marker]
    BY <1>4, Zenon DEF PollMiss
  <2>2. \A k \in Key : table'[k] = table[k] \/ table'[k] = Marker
    BY <1>1, <2>1, Zenon DEF TypeOK
  <2> QED
    BY <1>3, <2>2 DEF Marker
<1>5. ASSUME NEW CONSTANT t \in Thread, PutIfAbsentAndGet(t) PROVE OneMaster'
  <2>1. CurrentKey(t) \in Key /\ val[t] \in Value
    BY <1>1, <1>5, CurrentKeyType, Zenon DEF PutIfAbsentAndGet, LocalInv, LocalOK
  <2> SUFFICES ASSUME NEW CONSTANT v \in Value, v = val[t], NEW CONSTANT j \in Key, j = CurrentKey(t),
                      NEW CONSTANT new, new = [val |-> v, st |-> st[t], master |-> soft[v] = 0]
               PROVE  OneMaster'
    BY <2>1, Zenon
  <2>2. table' = [table EXCEPT ![j] = new]
    BY <1>5, Zenon DEF PutIfAbsentAndGet
  <2>3. table'[j] = new /\ (\A k \in Key : k # j => table'[k] = table[k]) /\ new.val = v /\ new.master = (soft[v] = 0)
    BY <1>1, <2>2, ZenonT(40) DEF TypeOK
  <2>4. soft[v] = 0 => v \in Obj /\ \A k \in Key : ~EntryOf(k, v)
    BY <1>1, Referred DEF Value
  <2>5. ASSUME NEW CONSTANT k \in Key, table'[k] # Null, table'[k].master PROVE table'[k].val \in Obj
    <3>1. CASE k = j
      BY <2>3, <2>4, <2>5, <3>1, Zenon
    <3>2. CASE k # j
      BY <2>3, <2>5, <3>2, Zenon DEF OneMaster
    <3> QED
      BY <3>1, <3>2, Zenon
  <2>6. ASSUME NEW CONSTANT o \in Obj, NEW CONSTANT i \in Key, NEW CONSTANT k \in Key,
               EntryOf(i, o)', table'[i].master, EntryOf(k, o)', table'[k].master
        PROVE  i = k
    <3>1. CASE soft[v] = 0 /\ o = v
      BY <2>3, <2>4, <2>6, <3>1, ZenonT(40) DEF EntryOf
    <3>2. CASE ~(soft[v] = 0 /\ o = v)
      <4>1. i # j /\ k # j
        BY <2>3, <2>6, <3>2, ZenonT(40) DEF EntryOf
      <4> QED
        BY <2>3, <2>6, <4>1 DEF OneMaster, EntryOf
    <3> QED
      BY <3>1, <3>2, Zenon
  <2> QED
    BY <2>5, <2>6, Zenon DEF OneMaster
<1>6. ASSUME NEW CONSTANT t \in Thread, SliceStep(t) \/ FlushStep(t) PROVE OneMaster'
  <2>1. table' = table \/ table' = [table EXCEPT ![nextElement] = Null]
    BY <1>6, Zenon DEF SliceStep, FlushStep, visitElement
  <2>2. \A k \in Key : table'[k] = table[k] \/ table'[k] = Null
    BY <1>1, <2>1, Zenon DEF TypeOK
  <2> QED
    BY <1>3, <2>2, Zenon
<1>7. CASE Cleanup
  <2>1. \A k \in Key : table'[k] = Null
    BY <1>7, Zenon DEF Cleanup
  <2> QED
    BY <1>3, <2>1, Zenon
<1>8. ASSUME NEW CONSTANT t \in Thread,
             \/ \E k \in Key : Get(t, k) \/ Release(t, k)
             \/ \E u \in Thread, k \in Key : Share(t, u, k)
             \/ PollFetch(t) \/ PollWait(t) \/ PollMissFails(t) \/ SpuriousWakeup(t)
             \/ CreateAlias(t) \/ CreateNew(t) \/ CreateFails(t) \/ Return(t) \/ ReturnToCreate(t)
             \/ DecHard(t) \/ DecTotal(t) \/ ReadCachePtr(t) \/ DecrementItemsInUse(t) \/ Delete(t)
             \/ Flush(t) \/ FlushPassEnd(t)
             \/ \E p \in Policies : SetEvictionPolicy(t, p)
      PROVE  OneMaster'
  <2>1. table' = table
    BY <1>8, Zenon DEF Get, Release, Share, PollFetch, PollWait, PollMissFails, SpuriousWakeup, CreateAlias, CreateNew,
          CreateFails, Return, ReturnToCreate, DecHard, DecTotal, ReadCachePtr, DecrementItemsInUse, Delete, Flush,
          FlushPassEnd, SetEvictionPolicy, cacheVars
  <2> QED
    BY <1>3, <2>1, Zenon
<1>9. CASE UNCHANGED vars
  BY <1>3, <1>9, Zenon DEF vars, cacheVars
<1> QED
  BY <1>4, <1>5, <1>6, <1>7, <1>8, <1>9, Zenon DEF Next, ThreadStep

(* While flush() has the mutex, the others do not unblock an element. *)
LEMMA BlockedStays ==
    ASSUME Inv1, Inv3, References, Elements, OneMaster, NEW CONSTANT k \in Key, table[k] # Null, Blocked(k), table' = table,
           NEW CONSTANT u \in Thread, WithoutMutex(u)
    PROVE  Blocked(k)'
<1>1. TypeOK /\ LocalInv /\ RefCountsExact /\ Lives /\ Calls
  BY Zenon DEF Inv1, Inv3
<1>2. NoValue \notin Obj /\ Null \notin Value /\ Obj \subseteq Value /\ NoValue \in Value
  BY NullFresh, Zenon
<1>3. hard \in [Value -> Int] /\ soft \in [Value -> Int] /\ pc \in [Thread -> Pc] /\ val \in [Thread -> Value \cup {Null}]
  BY <1>1, Zenon DEF TypeOK
<1>4. CASE inProgress(table[k])
  BY <1>4, Zenon DEF Blocked, inProgress
<1>5. CASE ~inProgress(table[k])
  <2>1. table[k].master /\ table[k].val \in Obj
    BY <1>5, Zenon DEF Blocked, OneMaster
  <2> SUFFICES ASSUME NEW CONSTANT o \in Obj, o = table[k].val PROVE Blocked(k)'
    BY <2>1, Zenon
  <2>2. soft[o] # 1 \/ hard[o] > 0 \/ \E w \in Thread : Owes(w) /\ val[w] = o
    BY <1>5, Zenon DEF Blocked
  <2>3. SUFFICES soft'[o] # 1 \/ hard'[o] > 0 \/ \E w \in Thread : Owes(w)' /\ val'[w] = o
    BY <2>1, Zenon DEF Blocked
  <2>4. o \in Value /\ EntryOf(k, o) /\ o # NoValue
    BY <1>2, Zenon DEF EntryOf
  <2>5. soft[o] > 0 /\ hard[o] \in Nat /\ total[o] \in Nat /\ total[o] >= hard[o] + soft[o] /\ soft[o] \in Nat
    BY <1>1, <2>4, Referred, Zenon
  <2>6. total[o] > 0
    BY <2>5
  <2>7. o \in live /\ o \in cached
    BY <1>1, <2>4, <2>6, Registered, Zenon DEF Lives, LiveIffReferenced
  <2>8. CASE DecHard(u)
    <3>1. val[u] \in Value /\ u \notin zero
      BY <1>1, <2>8, Zenon DEF DecHard, LocalInv, LocalOK, Removing, Calls
    <3>2. /\ UNCHANGED <<soft, cached, val>> /\ hard' = dec(hard, val[u]) /\ zero \subseteq zero'
          /\ (hard[val[u]] = 1 => u \in zero') /\ pc[u] = "decHard" /\ pc' = [pc EXCEPT ![u] = "decTotal"]
      BY <2>8, Zenon DEF DecHard
    <3>3. \A w \in Thread : Owes(w) => Owes(w)'
      BY <1>3, <3>1, <3>2, Zenon DEF Owes
    <3>4. CASE val[u] = o /\ hard[o] = 1
      <4>1. Owes(u)' /\ val'[u] = o
        BY <1>3, <2>7, <3>2, <3>4, Zenon DEF Owes
      <4> QED
        BY <4>1, Zenon
    <3>5. CASE ~(val[u] = o /\ hard[o] = 1)
      <4>1. hard[o] > 0 => dec(hard, val[u])[o] > 0
        BY <1>3, <2>4, <3>1, <3>5, StaysPositive, Zenon
      <4>2. hard[o] > 0 => hard'[o] > 0
        BY <3>2, <4>1, Zenon
      <4> QED
        BY <2>2, <3>2, <3>3, <4>2, ZenonT(40)
    <3> QED
      BY <3>4, <3>5, Zenon
  <2>9. CASE CreateNew(u)
    <3>1. PICK v \in Obj : /\ v \notin live /\ \A w \in Thread : val[w] # v
                           /\ hard' = [hard EXCEPT ![v] = 1] /\ soft' = [soft EXCEPT ![v] = 0]
                           /\ cached' = cached \ {v} /\ val' = [val EXCEPT ![u] = v]
      BY <2>9, Zenon DEF CreateNew
    <3>2. zero' = zero /\ pc[u] = "create" /\ pc' = [pc EXCEPT ![u] = "put"]
      BY <2>9, Zenon DEF CreateNew
    <3>3. hard'[o] = hard[o] /\ soft'[o] = soft[o]
      BY <1>3, <2>4, <2>7, <3>1, Zenon
    <3>4. \A w \in Thread : Owes(w) => Owes(w)' /\ val'[w] = val[w]
      BY <1>3, <3>1, <3>2, Zenon DEF Owes
    <3> QED
      BY <2>2, <3>3, <3>4, Zenon
  <2>10. CASE ReadCachePtr(u)
    <3>1. UNCHANGED <<soft, hard, cached, val, zero>> /\ pc[u] = "readCache"
      BY <2>10, Zenon DEF ReadCachePtr, objVars, locals
    <3>2. PICK isSet \in (IF u \in zero /\ val[u] \notin live THEN BOOLEAN ELSE {val[u] \in cached}) :
            pc' = [pc EXCEPT ![u] = IF u \in zero /\ isSet THEN "lockDec" ELSE "delete"]
      BY <2>10, Zenon DEF ReadCachePtr
    <3>3. \A w \in Thread : Owes(w) /\ val[w] = o => Owes(w)' /\ val'[w] = o
      BY <1>3, <2>7, <3>1, <3>2, Zenon DEF Owes
    <3> QED
      BY <2>2, <3>1, <3>3, Zenon
  <2>11. ASSUME NEW CONSTANT w \in Thread, NEW CONSTANT i \in Key, Share(u, w, i)
         PROVE  soft'[o] # 1 \/ hard'[o] > 0 \/ \E x \in Thread : Owes(x)' /\ val'[x] = o
    <3>1. UNCHANGED <<soft, cached, val, zero, pc>> /\ hard' = inc(hard, ptr[u][i]) /\ ptr[u][i] # Null
      BY <2>11, ZenonT(40) DEF Share, addRef, locals
    <3>2. ptr[u][i] \in Value
      BY <1>1, <3>1, ClientValue, Zenon
    <3>3. hard[o] > 0 => hard'[o] > 0
      <4>1. hard[o] > 0 => inc(hard, ptr[u][i])[o] > 0
        BY <1>3, <2>4, <3>2, StaysPositive, Zenon
      <4> QED
        BY <3>1, <4>1, Zenon
    <3>4. \A x \in Thread : Owes(x) => Owes(x)'
      BY <3>1, Zenon DEF Owes
    <3> QED
      BY <2>2, <3>1, <3>3, <3>4, Zenon
  <2>12. ASSUME \/ \E i \in Key : Get(u, i) \/ Release(u, i)
                \/ SpuriousWakeup(u) \/ CreateAlias(u) \/ CreateFails(u) \/ Return(u) \/ ReturnToCreate(u)
                \/ DecTotal(u) \/ Delete(u)
         PROVE  soft'[o] # 1 \/ hard'[o] > 0 \/ \E x \in Thread : Owes(x)' /\ val'[x] = o
    <3>1. UNCHANGED <<soft, cached>> /\ (hard' = hard \/ hard' = inc(hard, NoValue)) /\ zero \ {u} = zero' \ {u}
      BY <2>12, ZenonT(40) DEF Get, Release, SpuriousWakeup, CreateAlias, CreateFails, Return, ReturnToCreate, DecTotal, Delete,
            addRef, objVars, locals
    <3>2. hard'[o] = hard[o]
      BY <1>3, <2>4, <3>1, Counting, NullFresh
    <3>3. \A x \in Thread \ {u} : pc'[x] = pc[x] /\ val'[x] = val[x]
      BY <1>3, <2>12, Zenon DEF Get, Release, SpuriousWakeup, CreateAlias, CreateFails, Return, ReturnToCreate, DecTotal,
            Delete, locals
    <3>4. Owes(u) => Owes(u)' /\ val'[u] = val[u]
      BY <1>3, <2>12, <3>1, Zenon DEF Owes, Get, Release, SpuriousWakeup, CreateAlias, CreateFails, Return, ReturnToCreate,
            DecTotal, Delete
    <3>5. \A x \in Thread : Owes(x) => Owes(x)' /\ val'[x] = val[x]
      BY <3>1, <3>3, <3>4, Zenon DEF Owes
    <3> QED
      BY <2>2, <3>1, <3>2, <3>5, Zenon
  <2> QED
    BY <2>8, <2>9, <2>10, <2>11, <2>12, Zenon DEF WithoutMutex
<1> QED
  BY <1>4, <1>5, Zenon

(* Counting up or down keeps the type of the counts. *)
LEMMA CountsType ==
    ASSUME NEW counts \in [Value -> Int], NEW o
    PROVE  inc(counts, o) \in [Value -> Int] /\ dec(counts, o) \in [Value -> Int]
<1>1. CASE o \in Value
  BY <1>1 DEF inc, dec
<1>2. CASE o \notin Value
  BY <1>2, Zenon DEF inc, dec
<1> QED
  BY <1>1, <1>2, Zenon

(* The type invariant of the object fields. *)
ObjOK ==
    /\ total \in [Value -> Int] /\ hard \in [Value -> Int] /\ soft \in [Value -> Int]
    /\ live \subseteq Value /\ cached \subseteq Value

LEMMA RefOpsType ==
    ASSUME TypeOK, NEW o, addRef(o) \/ addSoftRef(o) \/ removeSoftRef(o) \/ UNCHANGED objVars
    PROVE  ObjOK'
<1>1. CASE addRef(o)
  BY <1>1, CountsType, Zenon DEF TypeOK, ObjOK, addRef
<1>2. CASE addSoftRef(o)
  BY <1>2, CountsType, Zenon DEF TypeOK, ObjOK, addSoftRef
<1>3. CASE removeSoftRef(o)
  BY <1>3, CountsType, Zenon DEF TypeOK, ObjOK, removeSoftRef
<1>4. CASE UNCHANGED objVars
  BY <1>4, Zenon DEF TypeOK, ObjOK, objVars
<1> QED
  BY <1>1, <1>2, <1>3, <1>4, Zenon

(* The keys of the enclosing get()s. *)
LEMMA FrontType ==
    ASSUME NEW q \in Seq(Key), Len(q) > 1
    PROVE  LET f == SubSeq(q, 1, Len(q) - 1)
           IN  /\ f \in Seq(Key) /\ f # <<>> /\ Len(f) = Len(q) - 1
               /\ \A i \in 1..(Len(q) - 1) : f[i] = q[i]
<1> DEFINE f == SubSeq(q, 1, Len(q) - 1)
<1>1. Len(q) \in Nat /\ 1 \in Int /\ Len(q) - 1 \in Int
  OBVIOUS
<1>2. \A i \in 1..(Len(q) - 1) : q[i] \in Key
  BY <1>1
<1>3. f \in Seq(Key)
  BY <1>1, <1>2
<1>4. Len(f) = Len(q) - 1
  BY <1>1, <1>2
<1>5. \A i \in 1..(Len(q) - 1) : f[i] = q[i]
  <2>1. \A i \in 1..((Len(q) - 1) - 1 + 1) : f[i] = q[1 + i - 1]
    BY <1>1, <1>2
  <2> QED
    BY <1>1, <2>1
<1> HIDE DEF f
<1>6. f # <<>>
  BY <1>1, <1>3, <1>4
<1> QED
  BY <1>3, <1>4, <1>5, <1>6, Zenon DEF f

LEMMA Inv1Init == Init => Inv1
<1> SUFFICES ASSUME Init PROVE Inv1
  OBVIOUS
<1>1. 0 \in 0..NKey /\ MaxGets \in Nat
  BY CacheAssumption
<1>2. initialRefs \in [Value -> Int]
  BY DEF initialRefs
<1>3. <<>> \in Seq(Key) /\ "idle" \in Pc /\ "ZERO" \in Status
  BY DEF Pc, Status
<1>7. raced \in BOOLEAN
  BY Zenon DEF Init
<1>4. TypeOK
  BY <1>1, <1>2, <1>3, <1>7, NullFresh DEF Init, TypeOK
<1>6. LocalInv
  BY NullFresh, Zenon DEF Init, LocalInv, LocalOK, Removing
<1>5. TableInv
  BY Zenon DEF Init, TableInv
<1> QED
  BY <1>4, <1>5, <1>6, Zenon DEF Inv1

(* A step that leaves the locals of all threads but one alone. *)
LEMMA LocalFrame ==
    ASSUME LocalInv, NEW t \in Thread, LocalOK(t)',
           \A u \in Thread \ {t} : /\ pc'[u] = pc[u] /\ val'[u] = val[u]
                                   /\ st'[u] = st[u] /\ job'[u] = job[u]
    PROVE  LocalInv'
<1> SUFFICES ASSUME NEW u \in Thread PROVE LocalOK(u)'
  BY Zenon DEF LocalInv
<1>1. CASE u = t
  BY <1>1, Zenon
<1>2. CASE u # t
  <2>1. LocalOK(u) /\ pc'[u] = pc[u] /\ val'[u] = val[u] /\ st'[u] = st[u] /\ job'[u] = job[u]
    BY <1>2, Zenon DEF LocalInv
  <2> QED
    BY <2>1, Zenon DEF LocalOK
<1> QED
  BY <1>1, <1>2, Zenon

LEMMA GetInv1 ==
    ASSUME Inv1, NEW t \in Thread, NEW k \in Key, Get(t, k) PROVE Inv1'
<1>a. TypeOK'
  BY DEF Get, Inv1, TypeOK, Pc, cacheVars, objVars, locals, loop, client
<1>b. LocalInv'
  BY NullFresh, Zenon DEF Get, Inv1, TypeOK, LocalInv, LocalOK, Removing, locals
<1>c. TableInv'
  BY Zenon DEF Get, Inv1, TypeOK, TableInv, cacheVars
<1> QED
  BY <1>a, <1>b, <1>c, ZenonT(40) DEF Inv1

LEMMA PollFetchInv1 ==
    ASSUME Inv1, NEW t \in Thread, PollFetch(t) PROVE Inv1'
<1>k. CurrentKey(t) \in Key
  BY CurrentKeyType, Zenon DEF Inv1, LocalInv, LocalOK, PollFetch
<1> DEFINE e == table[CurrentKey(t)]
<1>e. e.val \in Value /\ e.st \in Status
  BY <1>k, EntryType, Zenon DEF PollFetch, Inv1
<1>f. e.val = NoValue => e.st = "FAILURE"
  BY <1>k, <1>e, Zenon DEF PollFetch, Inv1, TableInv, inProgress
<1>o. ObjOK'
  BY RefOpsType, Zenon DEF Inv1, PollFetch
<1>i. itemsInUse' \in Int
  BY DEF PollFetch, Inv1, TypeOK
<1>j. val' \in [Thread -> Value \cup {Null}] /\ st' \in [Thread -> Status]
  BY <1>e, Zenon DEF PollFetch, Inv1, TypeOK
<1>p. pc' \in [Thread -> Pc]
  BY Zenon DEF PollFetch, Inv1, TypeOK, Pc
<1>a. TypeOK'
  BY <1>i, <1>j, <1>o, <1>p, Zenon DEF PollFetch, Inv1, TypeOK, cacheVars, objVars, locals, loop, client, ObjOK
<1>b. LocalInv'
  <2>1. \A u \in Thread \ {t} : /\ pc'[u] = pc[u] /\ val'[u] = val[u]
                                /\ st'[u] = st[u] /\ job'[u] = job[u]
    BY Zenon DEF PollFetch, Inv1, TypeOK, locals
  <2>2. LocalOK(t)'
    BY NullFresh, <1>e, <1>f, Zenon DEF PollFetch, Inv1, TypeOK, LocalInv, LocalOK, Removing, locals
  <2> QED
    BY <2>1, <2>2, LocalFrame, Zenon DEF Inv1
<1>c. TableInv'
  BY Zenon DEF PollFetch, Inv1, TypeOK, TableInv, cacheVars
<1> QED
  BY <1>a, <1>b, <1>c, Zenon DEF Inv1

LEMMA PollWaitInv1 ==
    ASSUME Inv1, NEW t \in Thread, PollWait(t) PROVE Inv1'
<1>a. TypeOK'
  BY Zenon DEF PollWait, Inv1, TypeOK, Pc, cacheVars, objVars, locals, loop, client
<1>b. LocalInv'
  BY NullFresh, Zenon DEF PollWait, Inv1, TypeOK, LocalInv, LocalOK, Removing, locals
<1>c. TableInv'
  BY Zenon DEF PollWait, Inv1, TypeOK, TableInv, cacheVars
<1> QED
  BY <1>a, <1>b, <1>c DEF Inv1

LEMMA PollMissInv1 ==
    ASSUME Inv1, NEW t \in Thread, PollMiss(t) PROVE Inv1'
<1>k. CurrentKey(t) \in Key
  BY CurrentKeyType, Zenon DEF Inv1, LocalInv, LocalOK, PollMiss
<1>m. Marker \in Entry /\ Marker.val = NoValue /\ Marker.st = "ZERO"
  BY NullFresh, Zenon DEF Marker, Entry, Status
<1>o. ObjOK'
  BY RefOpsType, Zenon DEF Inv1, PollMiss
<1>a. TypeOK'
  BY <1>o, <1>k, <1>m, Zenon DEF PollMiss, Inv1, TypeOK, Pc, cacheVars, objVars, locals, loop, client, ObjOK
<1>b. LocalInv'
  BY NullFresh, ZenonT(40) DEF PollMiss, Inv1, TypeOK, LocalInv, LocalOK, Removing, locals
<1>c. TableInv'
  BY <1>k, <1>m, Zenon DEF PollMiss, Inv1, TypeOK, TableInv, cacheVars
<1> QED
  BY <1>a, <1>b, <1>c DEF Inv1

LEMMA PollMissFailsInv1 ==
    ASSUME Inv1, NEW t \in Thread, PollMissFails(t) PROVE Inv1'
<1>a. TypeOK'
  BY ZenonT(40) DEF PollMissFails, Inv1, TypeOK, Pc, cacheVars, objVars, locals, loop, client, Status
<1>b. LocalInv'
  <2>1. \A u \in Thread \ {t} : /\ pc'[u] = pc[u] /\ val'[u] = val[u]
                                /\ st'[u] = st[u] /\ job'[u] = job[u]
    BY Zenon DEF PollMissFails, Inv1, TypeOK, locals
  <2>2. LocalOK(t)'
    BY NullFresh, Zenon DEF PollMissFails, Inv1, TypeOK, LocalInv, LocalOK, Removing, locals
  <2> QED
    BY <2>1, <2>2, LocalFrame DEF Inv1
<1>c. TableInv'
  BY Zenon DEF PollMissFails, Inv1, TypeOK, TableInv, cacheVars
<1> QED
  BY <1>a, <1>b, <1>c DEF Inv1

LEMMA SpuriousWakeupInv1 ==
    ASSUME Inv1, NEW t \in Thread, SpuriousWakeup(t) PROVE Inv1'
<1>a. TypeOK'
  BY Zenon DEF SpuriousWakeup, Inv1, TypeOK, Pc, cacheVars, objVars, locals, loop, client
<1>b. LocalInv'
  BY NullFresh, Zenon DEF SpuriousWakeup, Inv1, TypeOK, LocalInv, LocalOK, Removing, locals
<1>c. TableInv'
  BY Zenon DEF SpuriousWakeup, Inv1, TypeOK, TableInv, cacheVars
<1> QED
  BY <1>a, <1>b, <1>c DEF Inv1

LEMMA CreateAliasInv1 ==
    ASSUME Inv1, NEW t \in Thread, CreateAlias(t) PROVE Inv1'
<1>k. CurrentKey(t) \in Key
  BY CurrentKeyType, Zenon DEF Inv1, LocalInv, LocalOK, CreateAlias
<1>m. Alias[CurrentKey(t)] \in Key
  BY <1>k, CacheAssumption, Zenon DEF CreateAlias
<1>n. Append(job[t], Alias[CurrentKey(t)]) \in Seq(Key)
      /\ Append(job[t], Alias[CurrentKey(t)]) # <<>>
  <2>1. job[t] \in Seq(Key)
    BY Zenon DEF Inv1, TypeOK
  <2> QED
    BY <1>m, <2>1
<1>a. TypeOK'
  BY <1>n, Zenon DEF CreateAlias, Inv1, TypeOK, Pc, cacheVars, objVars, locals, loop, client
<1>b. LocalInv'
  BY NullFresh, <1>n, Zenon DEF CreateAlias, Inv1, TypeOK, LocalInv, LocalOK, Removing, locals
<1>c. TableInv'
  BY Zenon DEF CreateAlias, Inv1, TypeOK, TableInv, cacheVars
<1> QED
  BY <1>a, <1>b, <1>c DEF Inv1

LEMMA CreateNewInv1 ==
    ASSUME Inv1, NEW t \in Thread, CreateNew(t) PROVE Inv1'
<1>k. CurrentKey(t) \in Key
  BY CurrentKeyType, Zenon DEF Inv1, LocalInv, LocalOK, CreateNew
<1>m. Outcome[CurrentKey(t)] \subseteq Status
  BY <1>k, CacheAssumption, Zenon DEF Status
<1>n. PICK s \in Status, o \in Obj :
        /\ total' = [total EXCEPT ![o] = 1] /\ hard' = [hard EXCEPT ![o] = 1]
        /\ soft' = [soft EXCEPT ![o] = 0]
        /\ live' = live \cup {o} /\ cached' = cached \ {o}
        /\ val' = [val EXCEPT ![t] = o]
        /\ st' = [st EXCEPT ![t] = s]
  BY <1>m, Zenon DEF CreateNew
<1>o. ObjOK'
  BY <1>n, NullFresh DEF Inv1, TypeOK, ObjOK
<1>v. val' \in [Thread -> Value \cup {Null}] /\ st' \in [Thread -> Status]
  BY <1>n, NullFresh, Zenon DEF Inv1, TypeOK
<1>p. job' = job /\ pc' = [pc EXCEPT ![t] = "put"] /\ pc' \in [Thread -> Pc]
  BY Zenon DEF CreateNew, Inv1, TypeOK, Pc
<1>a. TypeOK'
  BY <1>o, <1>p, <1>v, Zenon DEF CreateNew, Inv1, TypeOK, ObjOK, cacheVars, loop, client
<1>b. LocalInv'
  <2>1. \A u \in Thread \ {t} : /\ pc'[u] = pc[u] /\ val'[u] = val[u]
                                /\ st'[u] = st[u] /\ job'[u] = job[u]
    BY <1>n, <1>p, Zenon DEF Inv1, TypeOK
  <2>2. pc'[t] = "put" /\ val'[t] = o /\ job'[t] = job[t]
    BY <1>n, <1>p, Zenon DEF Inv1, TypeOK
  <2>3. job[t] # <<>>
    BY Zenon DEF CreateNew, Inv1, LocalInv, LocalOK
  <2>4. LocalOK(t)'
    BY <2>2, <2>3, NullFresh, Zenon DEF LocalOK, Removing
  <2> QED
    BY <2>1, <2>4, LocalFrame, Zenon DEF Inv1
<1>c. TableInv'
  BY Zenon DEF CreateNew, Inv1, TypeOK, TableInv, cacheVars
<1> QED
  BY <1>a, <1>b, <1>c, Zenon DEF Inv1

LEMMA CreateFailsInv1 ==
    ASSUME Inv1, NEW t \in Thread, CreateFails(t) PROVE Inv1'
<1>o. ObjOK'
  BY RefOpsType, Zenon DEF Inv1, CreateFails
<1>a. TypeOK'
  BY <1>o, NullFresh, Zenon DEF CreateFails, Inv1, TypeOK, Pc, cacheVars, objVars, locals, loop, client, ObjOK, Status
<1>b. LocalInv'
  <2>1. \A u \in Thread \ {t} : /\ pc'[u] = pc[u] /\ val'[u] = val[u]
                                /\ st'[u] = st[u] /\ job'[u] = job[u]
    BY Zenon DEF CreateFails, Inv1, TypeOK, locals
  <2>2. pc'[t] = "put" /\ val'[t] = NoValue /\ st'[t] = "FAILURE" /\ job'[t] = job[t]
    BY Zenon DEF CreateFails, Inv1, TypeOK
  <2>3. job[t] # <<>>
    BY Zenon DEF CreateFails, Inv1, LocalInv, LocalOK
  <2>4. LocalOK(t)'
    BY <2>2, <2>3, NullFresh, Zenon DEF LocalOK, Removing
  <2> QED
    BY <2>1, <2>4, LocalFrame DEF Inv1
<1>c. TableInv'
  BY Zenon DEF CreateFails, Inv1, TypeOK, TableInv, cacheVars
<1> QED
  BY <1>a, <1>b, <1>c DEF Inv1

LEMMA ReturnInv1 ==
    ASSUME Inv1, NEW t \in Thread, Return(t) PROVE Inv1'
<1>k. CurrentKey(t) \in Key
  BY CurrentKeyType, Zenon DEF Inv1, LocalInv, LocalOK, Return
<1>r. val[t] \in Obj \cup {Null}
  BY Zenon DEF Return, Inv1, TypeOK, LocalInv, LocalOK, Value
<1>p. ptr' \in [Thread -> [Key -> Obj \cup {Null}]] /\ pc' \in [Thread -> Pc]
  BY <1>k, <1>r, Zenon DEF Return, Inv1, TypeOK, Pc
<1>v. val' \in [Thread -> Value \cup {Null}] /\ st' \in [Thread -> Status]
  BY Zenon DEF Return, Inv1, TypeOK, Status
<1>j. job' \in [Thread -> Seq(Key)]
  BY DEF Return, Inv1, TypeOK
<1>a. TypeOK'
  BY <1>j, <1>p, <1>v, Zenon DEF Return, Inv1, TypeOK, cacheVars, objVars, loop
<1>b. LocalInv'
  BY NullFresh, ZenonT(40) DEF Return, Inv1, TypeOK, LocalInv, LocalOK, Removing, locals
<1>c. TableInv'
  BY Zenon DEF Return, Inv1, TypeOK, TableInv, cacheVars
<1> QED
  BY <1>a, <1>b, <1>c DEF Inv1

LEMMA ReturnToCreateInv1 ==
    ASSUME Inv1, NEW t \in Thread, ReturnToCreate(t) PROVE Inv1'
<1> DEFINE q == SubSeq(job[t], 1, Len(job[t]) - 1)
<1>m. q \in Seq(Key) /\ q # <<>>
  BY FrontType, Zenon DEF Inv1, TypeOK, ReturnToCreate
<1>q. job' = [job EXCEPT ![t] = q]
  BY Zenon DEF ReturnToCreate
<1>y. /\ pc[t] = "return" /\ pc' = [pc EXCEPT ![t] = "put"]
      /\ val' = [val EXCEPT ![t] = IF st[t] = "FAILURE" THEN NoValue ELSE @]
      /\ UNCHANGED <<mutex, cacheVars, st, zero, gone, loop, client, raced>>
  BY Zenon DEF ReturnToCreate
<1> HIDE DEF q
<1>o. ObjOK'
  BY RefOpsType, Zenon DEF Inv1, ReturnToCreate
<1>a. TypeOK'
  BY <1>m, <1>o, <1>q, <1>y, NullFresh, ZenonT(40) DEF Inv1, TypeOK, Pc, cacheVars, loop, client, ObjOK
<1>b. LocalInv'
  BY <1>m, <1>q, <1>y, NullFresh, ZenonT(40) DEF Inv1, TypeOK, LocalInv, LocalOK, Removing
<1>c. TableInv'
  BY Zenon DEF ReturnToCreate, Inv1, TypeOK, TableInv, cacheVars
<1> QED
  BY <1>a, <1>b, <1>c DEF Inv1

LEMMA ShareInv1 ==
    ASSUME Inv1, NEW t \in Thread, NEW u \in Thread, NEW k \in Key, Share(t, u, k) PROVE Inv1'
<1>o. ObjOK'
  BY RefOpsType, Zenon DEF Inv1, Share
<1>a. TypeOK'
  <2>1. ptr' \in [Thread -> [Key -> Obj \cup {Null}]]
    BY DEF Share, Inv1, TypeOK
  <2> QED
    BY <1>o, <2>1, ZenonT(40) DEF Share, Inv1, TypeOK, cacheVars, locals, loop, ObjOK
<1>b. LocalInv'
  BY NullFresh, Zenon DEF Share, Inv1, TypeOK, LocalInv, LocalOK, Removing, locals
<1>c. TableInv'
  BY Zenon DEF Share, Inv1, TypeOK, TableInv, cacheVars
<1> QED
  BY <1>a, <1>b, <1>c, Zenon DEF Inv1

LEMMA ReleaseInv1 ==
    ASSUME Inv1, NEW t \in Thread, NEW k \in Key, Release(t, k) PROVE Inv1'
<1>v. val' \in [Thread -> Value \cup {Null}]
  BY NullFresh DEF Release, Inv1, TypeOK, Value
<1>p. ptr' \in [Thread -> [Key -> Obj \cup {Null}]] /\ pc' \in [Thread -> Pc]
  BY Zenon DEF Release, Inv1, TypeOK, Pc
<1>a. TypeOK'
  BY <1>v, <1>p, Zenon DEF Release, Inv1, TypeOK, cacheVars, objVars, loop
<1>b. LocalInv'
  <2>1. \A u \in Thread \ {t} : /\ pc'[u] = pc[u] /\ val'[u] = val[u]
                                /\ st'[u] = st[u] /\ job'[u] = job[u]
    BY Zenon DEF Release, Inv1, TypeOK, locals
  <2>2. pc'[t] = "decHard" /\ val'[t] \in Obj /\ job'[t] = job[t]
    BY DEF Release, Inv1, TypeOK
  <2>3. job[t] = <<>>
    BY Zenon DEF Release, Inv1, LocalInv, LocalOK
  <2>4. LocalOK(t)'
    BY <2>2, <2>3, NullFresh, Zenon DEF LocalOK, Removing
  <2> QED
    BY <2>1, <2>4, LocalFrame, Zenon DEF Inv1
<1>c. TableInv'
  BY Zenon DEF Release, Inv1, TypeOK, TableInv, cacheVars
<1> QED
  BY <1>a, <1>b, <1>c, Zenon DEF Inv1

LEMMA DecHardInv1 ==
    ASSUME Inv1, NEW t \in Thread, DecHard(t) PROVE Inv1'
<1>a. TypeOK'
  BY CountsType, Zenon DEF DecHard, Inv1, TypeOK, Pc, cacheVars, objVars, locals, loop, client
<1>b. LocalInv'
  BY NullFresh, Zenon DEF DecHard, Inv1, TypeOK, LocalInv, LocalOK, Removing, locals
<1>c. TableInv'
  BY Zenon DEF DecHard, Inv1, TypeOK, TableInv, cacheVars
<1> QED
  BY <1>a, <1>b, <1>c DEF Inv1

LEMMA DecTotalInv1 ==
    ASSUME Inv1, NEW t \in Thread, DecTotal(t) PROVE Inv1'
<1>a. TypeOK'
  BY CountsType, Zenon DEF DecTotal, Inv1, TypeOK, Pc, cacheVars, objVars, locals, loop, client
<1>b. LocalInv'
  BY NullFresh, ZenonT(40) DEF DecTotal, Inv1, TypeOK, LocalInv, LocalOK, Removing, locals
<1>c. TableInv'
  BY Zenon DEF DecTotal, Inv1, TypeOK, TableInv, cacheVars
<1> QED
  BY <1>a, <1>b, <1>c DEF Inv1

LEMMA ReadCachePtrInv1 ==
    ASSUME Inv1, NEW t \in Thread, ReadCachePtr(t) PROVE Inv1'
<1>a. TypeOK'
  BY Zenon DEF ReadCachePtr, Inv1, TypeOK, Pc, cacheVars, objVars, locals, loop, client
<1>b. LocalInv'
  <2>1. \A u \in Thread \ {t} : /\ pc'[u] = pc[u] /\ val'[u] = val[u]
                                /\ st'[u] = st[u] /\ job'[u] = job[u]
    BY Zenon DEF ReadCachePtr, Inv1, TypeOK, locals
  <2>2. LocalOK(t) /\ pc[t] = "readCache" /\ val' = val /\ st' = st /\ job' = job
    BY Zenon DEF ReadCachePtr, Inv1, LocalInv, locals
  <2>3. pc'[t] \in {"lockDec", "delete"}
    BY Zenon DEF ReadCachePtr, Inv1, TypeOK
  <2>4. LocalOK(t)'
    BY <2>2, <2>3, Zenon DEF LocalOK, Removing
  <2> QED
    BY <2>1, <2>4, LocalFrame DEF Inv1
<1>c. TableInv'
  BY Zenon DEF ReadCachePtr, Inv1, TypeOK, TableInv, cacheVars
<1> QED
  BY <1>a, <1>b, <1>c DEF Inv1

LEMMA DeleteInv1 ==
    ASSUME Inv1, NEW t \in Thread, Delete(t) PROVE Inv1'
<1>a. TypeOK'
  BY Zenon DEF Delete, Inv1, TypeOK, Pc, cacheVars, objVars, locals, loop, client
<1>b. LocalInv'
  BY NullFresh, Zenon DEF Delete, Inv1, TypeOK, LocalInv, LocalOK, Removing, locals
<1>c. TableInv'
  BY Zenon DEF Delete, Inv1, TypeOK, TableInv, cacheVars
<1> QED
  BY <1>a, <1>b, <1>c DEF Inv1

(* The number of elements of the hash table is a natural number. *)
LEMMA CountType ==
    ASSUME Sizes, NEW tab PROVE count(tab) \in Nat
<1>1. Stored(tab) \in SUBSET Key
  BY Zenon DEF Stored
<1> QED
  BY <1>1, Zenon DEF Sizes, Counted, count

(* _computeCountOfItemsToEvict() yields an integer. *)
LEMMA EvictCountType ==
    ASSUME Sizes, NEW tab, NEW inUse \in Int, policy \in Policies
    PROVE  countOfItemsToEvict(tab, inUse) \in Int
<1>1. policy.pct \in Nat /\ policy.unused \in Nat
  BY CacheAssumption, Zenon
<1>2. (inUse * policy.pct) \div 100 \in Int
  BY <1>1
<1> QED
  BY <1>1, <1>2, CountType DEF countOfItemsToEvict

(* _nextElement() returns a key, or NULL. *)
LEMMA NextElementType == Sizes => nextElement \in Key \cup {Null}
<1> SUFFICES ASSUME Sizes PROVE nextElement \in Key \cup {Null}
  OBVIOUS
<1> DEFINE after == {k \in Stored(table) : k > evictPos}
           among == IF after = {} THEN Stored(table) ELSE after
           least == CHOOSE k \in among : \A j \in among : k <= j
<1>1. among \in SUBSET Key
  BY Zenon DEF Stored
<1>2. ASSUME among # {} PROVE least \in Key
  <2>1. \E k \in among : \A j \in among : k <= j
    BY <1>1, <1>2, Zenon DEF Sizes
  <2>2. least \in among
    BY <2>1, Zenon
  <2> QED
    BY <1>1, <2>2, Zenon
<1>3. nextElement = IF among = {} THEN Null ELSE least
  BY Zenon DEF nextElement
<1> QED
  BY <1>2, <1>3, Zenon

(* The beginning of an eviction slice: types, and where the thread goes. *)
LEMMA SliceType ==
    ASSUME Sizes, TypeOK, NEW t \in Thread, NEW tab, NEW inUse \in Int,
           NEW pcs \in [Thread -> Pc], NEW slicePc \in Pc, NEW next \in Pc,
           runEvictionSlice(t, tab, inUse, pcs, slicePc, next)
    PROVE  /\ pc' \in [Thread -> Pc]
           /\ mutex' \in Thread \cup {Null}
           /\ left' \in Int /\ iter' \in Int
           /\ \E p \in {slicePc, next} : pc' = [pcs EXCEPT ![t] = p]
<1> DEFINE n == countOfItemsToEvict(tab, inUse)
<1>1. n \in Int
  BY EvictCountType, Zenon DEF TypeOK
<1>2. \/ /\ pc' = [pcs EXCEPT ![t] = next]
         /\ mutex' = Null /\ left' = left /\ iter' = iter
      \/ /\ pc' = [pcs EXCEPT ![t] = slicePc]
         /\ mutex' = t /\ left' = n /\ iter' = 0
  BY Zenon DEF runEvictionSlice, loop
<1> HIDE DEF n
<1>3. mutex' \in Thread \cup {Null} /\ left' \in Int /\ iter' \in Int
  BY <1>1, <1>2 DEF TypeOK
<1>4. PICK p \in {slicePc, next} : pc' = [pcs EXCEPT ![t] = p]
  BY <1>2, Zenon
<1>5. pc' \in [Thread -> Pc]
  BY <1>4, Zenon
<1> QED
  BY <1>3, <1>4, <1>5, Zenon

LEMMA PutIfAbsentAndGetInv1 ==
    ASSUME Sizes, Inv1, NEW t \in Thread, PutIfAbsentAndGet(t) PROVE Inv1'
<1> DEFINE k == CurrentKey(t)
           entry == [val |-> val[t], st |-> st[t], master |-> soft[val[t]] = 0]
           woken == [u \in Thread |-> IF pc[u] = "wait" THEN "poll" ELSE pc[u]]
           pcs == IF table[k] = Null THEN pc ELSE woken
<1>k. k \in Key
  BY CurrentKeyType, Zenon DEF Inv1, LocalInv, LocalOK, PutIfAbsentAndGet
<1>v. val[t] \in Value
  BY Zenon DEF Inv1, LocalInv, LocalOK, PutIfAbsentAndGet
<1>e. entry \in Entry /\ entry.val = val[t] /\ entry.st = st[t]
  BY <1>v, Zenon DEF Entry, Inv1, TypeOK
<1>t. table' = [table EXCEPT ![k] = entry]
  BY Zenon DEF PutIfAbsentAndGet
<1>p. pcs \in [Thread -> Pc] /\ "putSlice" \in Pc /\ AfterPut(t) \in Pc
  BY Zenon DEF Inv1, TypeOK, Pc, AfterPut
<1>i. itemsInUse' \in Int
  <2>1. itemsInUse' = itemsInUse + 1 \/ itemsInUse' = itemsInUse
    BY Zenon DEF PutIfAbsentAndGet
  <2> QED
    BY <2>1 DEF Inv1, TypeOK
<1>r. runEvictionSlice(t, table', itemsInUse', pcs, "putSlice", AfterPut(t))
  BY Zenon DEF PutIfAbsentAndGet
<1> HIDE DEF pcs
<1>s. /\ pc' \in [Thread -> Pc]
      /\ mutex' \in Thread \cup {Null}
      /\ left' \in Int /\ iter' \in Int
      /\ \E p \in {"putSlice", AfterPut(t)} : pc' = [pcs EXCEPT ![t] = p]
  BY <1>i, <1>p, <1>r, SliceType DEF Inv1
<1>o. ObjOK'
  BY <1>v, CountsType, Zenon DEF ObjOK, PutIfAbsentAndGet, Inv1, TypeOK
<1>x. table' \in [Key -> Entry \cup {Null}]
  BY <1>e, <1>k, <1>t, Zenon DEF Inv1, TypeOK
<1>y. UNCHANGED <<evictPos, policy, hard, locals, client, raced>>
  BY Zenon DEF PutIfAbsentAndGet
<1>a. TypeOK'
  BY <1>i, <1>o, <1>s, <1>x, <1>y, ZenonT(40) DEF Inv1, TypeOK, ObjOK, locals, client
<1>b. LocalInv'
  <2> SUFFICES ASSUME NEW u \in Thread PROVE LocalOK(u)'
    BY Zenon DEF LocalInv
  <2>1. job' = job /\ val' = val /\ st' = st
    BY <1>y, Zenon DEF locals
  <2>2. CASE u = t
    <3>1. pc'[t] \in {"putSlice", AfterPut(t)}
      BY <1>s, <1>p, Zenon
    <3>2. job[t] # <<>> /\ (val[t] = NoValue => st[t] = "FAILURE")
      BY Zenon DEF PutIfAbsentAndGet, Inv1, LocalInv, LocalOK
    <3> QED
      BY <1>v, <2>1, <2>2, <3>1, <3>2, NullFresh, Zenon DEF LocalOK, Removing, AfterPut
  <2>3. CASE u # t
    <3>1. pc'[u] = pc[u] \/ (pc[u] = "wait" /\ pc'[u] = "poll")
      BY <1>s, <1>p, <2>3, Zenon DEF pcs
    <3> QED
      BY <2>1, <3>1, Zenon DEF Inv1, LocalInv, LocalOK, Removing
  <2> QED
    BY <2>2, <2>3, Zenon
<1>c. TableInv'
  <2>1. val[t] = NoValue => st[t] = "FAILURE"
    BY ZenonT(40) DEF Inv1, LocalInv, LocalOK
  <2> HIDE DEF entry, k
  <2> QED
    BY <1>e, <1>k, <1>t, <2>1, ZenonT(40) DEF Inv1, TableInv, TypeOK
<1> QED
  BY <1>a, <1>b, <1>c DEF Inv1

LEMMA DecrementItemsInUseInv1 ==
    ASSUME Sizes, Inv1, NEW t \in Thread, DecrementItemsInUse(t) PROVE Inv1'
<1>i. itemsInUse' \in Int /\ pc \in [Thread -> Pc] /\ "relSlice" \in Pc /\ "delete" \in Pc
  BY DEF DecrementItemsInUse, Inv1, TypeOK, Pc
<1>s. /\ pc' \in [Thread -> Pc]
      /\ mutex' \in Thread \cup {Null}
      /\ left' \in Int /\ iter' \in Int
      /\ \E p \in {"relSlice", "delete"} : pc' = [pc EXCEPT ![t] = p]
  <2>1. runEvictionSlice(t, table, itemsInUse', pc, "relSlice", "delete")
    BY Zenon DEF DecrementItemsInUse
  <2> QED
    BY <1>i, <2>1, SliceType DEF Inv1
<1>a. TypeOK'
  BY <1>i, <1>s, Zenon DEF DecrementItemsInUse, Inv1, TypeOK, objVars, locals, client
<1>b. LocalInv'
  <2>1. pc[t] = "lockDec" /\ job' = job /\ val' = val /\ st' = st
    BY Zenon DEF DecrementItemsInUse, locals
  <2>2. ASSUME NEW u \in Thread PROVE LocalOK(u)'
    <3>1. LocalOK(u) /\ pc \in [Thread -> Pc]
      BY Zenon DEF Inv1, LocalInv, TypeOK
    <3>2. pc'[u] = pc[u] \/ (pc[u] = "lockDec" /\ pc'[u] \in {"relSlice", "delete"})
      BY <1>s, <2>1, <3>1, Zenon
    <3> QED
      BY <2>1, <3>1, <3>2, Zenon DEF LocalOK, Removing
  <2> QED
    BY <2>2, Zenon DEF LocalInv
<1>c. TableInv'
  BY Zenon DEF DecrementItemsInUse, Inv1, TableInv
<1> QED
  BY <1>a, <1>b, <1>c DEF Inv1

(* A step of a loop over the table: types. *)
LEMMA VisitType ==
    ASSUME Sizes, Inv1, NEW drop \in BOOLEAN, visitElement(drop)
    PROVE  /\ ObjOK'
           /\ table' \in [Key -> Entry \cup {Null}]
           /\ evictPos' \in 0..NKey
           /\ TableInv'
<1>1. ObjOK'
  BY RefOpsType, Zenon DEF visitElement, Inv1
<1>2. evictPos' \in 0..NKey
  BY NextElementType, NullFresh, CacheAssumption DEF visitElement, Key
<1>3. table' \in [Key -> Entry \cup {Null}]
  BY Zenon DEF visitElement, Inv1, TypeOK
<1>4. TableInv'
  BY Zenon DEF visitElement, Inv1, TypeOK, TableInv
<1> QED
  BY <1>1, <1>2, <1>3, <1>4, Zenon

LEMMA SliceStepInv1 ==
    ASSUME Sizes, Inv1, NEW t \in Thread, SliceStep(t) PROVE Inv1'
<1> DEFINE evict == isEvictable(table[nextElement])
<1>1. evict \in BOOLEAN
  BY Zenon DEF isEvictable
<1>2. visitElement(evict)
  BY Zenon DEF SliceStep
<1>v. ObjOK' /\ table' \in [Key -> Entry \cup {Null}] /\ evictPos' \in 0..NKey /\ TableInv'
  BY <1>1, <1>2, VisitType, Zenon
<1>p. /\ \/ pc' = pc
         \/ pc[t] = "putSlice" /\ pc' = [pc EXCEPT ![t] = AfterPut(t)]
         \/ pc[t] = "relSlice" /\ pc' = [pc EXCEPT ![t] = "delete"]
      /\ UNCHANGED <<itemsInUse, policy, locals, client, raced>>
  BY Zenon DEF SliceStep
<1>l. mutex' \in Thread \cup {Null} /\ left' \in Int /\ iter' \in Int
  <2>1. \/ mutex' = Null /\ left' = 0 /\ iter' = 0
        \/ mutex' = mutex /\ left' \in {left - 1, left} /\ iter' = iter + 1
    BY Zenon DEF SliceStep
  <2> QED
    BY <2>1 DEF Inv1, TypeOK
<1>q. AfterPut(t) \in Pc /\ "delete" \in Pc
  BY Zenon DEF AfterPut, Pc
<1>a. TypeOK'
  BY <1>l, <1>p, <1>q, <1>v, ZenonT(40) DEF Inv1, TypeOK, ObjOK, locals, client
<1>b. LocalInv'
  <2> SUFFICES ASSUME NEW u \in Thread PROVE LocalOK(u)'
    BY Zenon DEF LocalInv
  <2>1. LocalOK(u) /\ LocalOK(t) /\ pc \in [Thread -> Pc]
    BY Zenon DEF Inv1, LocalInv, TypeOK
  <2>2. job' = job /\ val' = val /\ st' = st
    BY <1>p, Zenon DEF locals
  <2>3. CASE pc'[u] = pc[u]
    BY <2>1, <2>2, <2>3, Zenon DEF LocalOK
  <2>4. CASE u = t /\ pc[t] = "putSlice" /\ pc'[t] = AfterPut(t)
    BY <2>1, <2>2, <2>4, NullFresh, Zenon DEF LocalOK, Removing, AfterPut
  <2>5. CASE u = t /\ pc[t] = "relSlice" /\ pc'[t] = "delete"
    BY <2>1, <2>2, <2>5, Zenon DEF LocalOK, Removing
  <2> QED
    BY <1>p, <2>1, <2>3, <2>4, <2>5, Zenon
<1> QED
  BY <1>a, <1>b, <1>v, Zenon DEF Inv1

LEMMA FlushStepInv1 ==
    ASSUME Sizes, Inv1, NEW t \in Thread, FlushStep(t) PROVE Inv1'
<1> DEFINE evict == isEvictable(table[nextElement])
<1>1. evict \in BOOLEAN
  BY DEF isEvictable
<1>2. visitElement(evict)
  BY Zenon DEF FlushStep
<1>v. ObjOK' /\ table' \in [Key -> Entry \cup {Null}] /\ evictPos' \in 0..NKey /\ TableInv'
  BY <1>1, <1>2, VisitType
<1>i. left' \in Int /\ iter' \in Int
  BY DEF FlushStep, Inv1, TypeOK
<1>a. TypeOK'
  BY <1>i, <1>v, Zenon DEF FlushStep, Inv1, TypeOK, ObjOK, locals, client
<1>b. LocalInv'
  BY ZenonT(40) DEF FlushStep, Inv1, TypeOK, LocalInv, LocalOK, Removing, locals
<1> QED
  BY <1>a, <1>b, <1>v DEF Inv1

LEMMA FlushInv1 ==
    ASSUME Sizes, Inv1, NEW t \in Thread, Flush(t) PROVE Inv1'
<1>l. mutex' \in Thread \cup {Null} /\ left' \in Int /\ iter' \in Int
  BY CountType DEF Flush, Inv1, TypeOK
<1>p. pc' \in [Thread -> Pc] /\ budget' \in [Thread -> Nat]
  BY Zenon DEF Flush, Inv1, TypeOK, Pc, client
<1>a. TypeOK'
  BY <1>l, <1>p, ZenonT(40) DEF Flush, Inv1, TypeOK, cacheVars, objVars, locals, client
<1>b. LocalInv'
  BY NullFresh, ZenonT(40) DEF Flush, Inv1, TypeOK, LocalInv, LocalOK, Removing, locals
<1>c. TableInv'
  BY ZenonT(40) DEF Flush, Inv1, TypeOK, TableInv, cacheVars
<1> QED
  BY <1>a, <1>b, <1>c DEF Inv1

LEMMA FlushPassEndInv1 ==
    ASSUME Sizes, Inv1, NEW t \in Thread, FlushPassEnd(t) PROVE Inv1'
<1>l. mutex' \in Thread \cup {Null} /\ left' \in Int /\ iter' \in Int
  <2>1. \/ mutex' = Null /\ left' = left /\ iter' = iter
        \/ mutex' = mutex /\ left' = count(table) /\ iter' = 0
    BY Zenon DEF FlushPassEnd, loop
  <2> QED
    BY <2>1, CountType DEF Inv1, TypeOK
<1>p. pc' \in [Thread -> Pc]
  BY ZenonT(40) DEF FlushPassEnd, Inv1, TypeOK, Pc
<1>a. TypeOK'
  BY <1>l, <1>p, Zenon DEF FlushPassEnd, Inv1, TypeOK, cacheVars, objVars, locals, loop, client
<1>b. LocalInv'
  <2>1. \A u \in Thread \ {t} : /\ pc'[u] = pc[u] /\ val'[u] = val[u]
                                /\ st'[u] = st[u] /\ job'[u] = job[u]
    BY Zenon DEF FlushPassEnd, Inv1, TypeOK, locals
  <2>2. LocalOK(t) /\ pc[t] = "flush" /\ val' = val /\ st' = st /\ job' = job
    BY Zenon DEF FlushPassEnd, Inv1, LocalInv, locals
  <2>3. pc'[t] \in {"flush", "idle"}
    BY Zenon DEF FlushPassEnd, Inv1, TypeOK
  <2>4. LocalOK(t)'
    BY <2>2, <2>3, NullFresh, Zenon DEF LocalOK, Removing
  <2> QED
    BY <2>1, <2>4, LocalFrame, Zenon DEF Inv1
<1>c. TableInv'
  BY Zenon DEF FlushPassEnd, Inv1, TypeOK, TableInv, cacheVars
<1> QED
  BY <1>a, <1>b, <1>c DEF Inv1

LEMMA SetEvictionPolicyInv1 ==
    ASSUME Inv1, NEW t \in Thread, NEW p \in Policies, SetEvictionPolicy(t, p) PROVE Inv1'
<1>a. TypeOK'
  BY Zenon DEF SetEvictionPolicy, Inv1, TypeOK, Pc, cacheVars, objVars, locals, loop, client
<1>b. LocalInv'
  BY NullFresh, ZenonT(40) DEF SetEvictionPolicy, Inv1, TypeOK, LocalInv, LocalOK, Removing, locals
<1>c. TableInv'
  BY Zenon DEF SetEvictionPolicy, Inv1, TypeOK, TableInv, cacheVars
<1> QED
  BY <1>a, <1>b, <1>c, Zenon DEF Inv1

(* What u_cleanup() leaves of the cache and of the threads. *)
LEMMA CleanupFacts ==
    ASSUME Cleanup
    PROVE  /\ table' = [k \in Key |-> Null]
           /\ evictPos' = 0 /\ itemsInUse' = 0 /\ policy' \in Policies
           /\ \A t \in Thread : pc[t] = "idle"
           /\ UNCHANGED <<mutex, pc, locals, loop, client, raced>>
  BY Zenon DEF Cleanup

LEMMA CleanupInv1 ==
    ASSUME Sizes, Inv1, Cleanup PROVE Inv1'
<1> DEFINE entriesOf(o) == Cardinality({k \in Stored(table) : table[k].val = o})
<1>1. \A o : entriesOf(o) \in Nat
  <2>1. ASSUME NEW o PROVE {k \in Stored(table) : table[k].val = o} \in SUBSET Key
    BY Zenon DEF Stored
  <2> QED
    BY <2>1, Zenon DEF Sizes, Counted
<1> HIDE DEF entriesOf
<1>o. ObjOK'
  <2>1. /\ total' = [o \in Value |-> IF o = NoValue THEN 1 ELSE total[o] - entriesOf(o)]
        /\ soft' = [o \in Value |-> IF o = NoValue THEN 1 ELSE soft[o] - entriesOf(o)]
        /\ hard' = [hard EXCEPT ![NoValue] = 0]
        /\ live' \subseteq live /\ cached' \subseteq cached
    BY Zenon DEF Cleanup, entriesOf
  <2>2. total' \in [Value -> Int] /\ soft' \in [Value -> Int]
    <3>1. total \in [Value -> Int] /\ soft \in [Value -> Int]
      BY Zenon DEF Inv1, TypeOK
    <3>2. total' \in [Value -> Int]
      BY <1>1, <2>1, <3>1
    <3>3. soft' \in [Value -> Int]
      BY <1>1, <2>1, <3>1
    <3> QED
      BY <3>2, <3>3, Zenon
  <2>3. hard' \in [Value -> Int]
    <3>1. hard \in [Value -> Int] /\ hard' = [hard EXCEPT ![NoValue] = 0]
      BY <2>1, Zenon DEF Inv1, TypeOK
    <3>2. \A o \in Value : hard'[o] \in Int
      BY <3>1
    <3> QED
      BY <3>1, <3>2, Zenon
  <2> QED
    BY <2>1, <2>2, <2>3, Zenon DEF Inv1, TypeOK, ObjOK
<1>e. 0 \in 0..NKey
  BY CacheAssumption
<1>t. table' \in [Key -> Entry \cup {Null}] /\ itemsInUse' \in Int
  BY CleanupFacts
<1>a. TypeOK'
  BY <1>e, <1>o, <1>t, CleanupFacts, ZenonT(40) DEF Inv1, TypeOK, ObjOK, locals, loop, client
<1>b. LocalInv'
  BY CleanupFacts, Zenon DEF Inv1, LocalInv, LocalOK, locals
<1>c. TableInv'
  BY CleanupFacts, Zenon DEF TableInv
<1> QED
  BY <1>a, <1>b, <1>c, Zenon DEF Inv1

LEMMA Inv1Next == Sizes /\ Inv1 /\ [Next]_vars => Inv1'
<1> SUFFICES ASSUME Sizes, Inv1, [Next]_vars PROVE Inv1'
  OBVIOUS
<1>2. CASE Cleanup
  BY <1>2, CleanupInv1, Zenon
<1>3. ASSUME NEW t \in Thread, ThreadStep(t) PROVE Inv1'
  <2>1. ASSUME NEW k \in Key, Get(t, k) PROVE Inv1'
    BY <2>1, GetInv1, Zenon
  <2>2. ASSUME NEW k \in Key, Release(t, k) PROVE Inv1'
    BY <2>2, ReleaseInv1, Zenon
  <2>3. ASSUME NEW u \in Thread, NEW k \in Key, Share(t, u, k) PROVE Inv1'
    BY <2>3, ShareInv1, Zenon
  <2>4. CASE PollFetch(t)
    BY <2>4, PollFetchInv1, Zenon
  <2>5. CASE PollWait(t)
    BY <2>5, PollWaitInv1, Zenon
  <2>6. CASE PollMiss(t)
    BY <2>6, PollMissInv1, Zenon
  <2>7. CASE PollMissFails(t)
    BY <2>7, PollMissFailsInv1, Zenon
  <2>8. CASE SpuriousWakeup(t)
    BY <2>8, SpuriousWakeupInv1, Zenon
  <2>9. CASE CreateAlias(t)
    BY <2>9, CreateAliasInv1, Zenon
  <2>10. CASE CreateNew(t)
    BY <2>10, CreateNewInv1, Zenon
  <2>11. CASE CreateFails(t)
    BY <2>11, CreateFailsInv1, Zenon
  <2>12. CASE PutIfAbsentAndGet(t)
    BY <2>12, PutIfAbsentAndGetInv1, Zenon
  <2>13. CASE Return(t)
    BY <2>13, ReturnInv1, Zenon
  <2>14. CASE ReturnToCreate(t)
    BY <2>14, ReturnToCreateInv1, Zenon
  <2>15. CASE DecHard(t)
    BY <2>15, DecHardInv1, Zenon
  <2>16. CASE DecTotal(t)
    BY <2>16, DecTotalInv1, Zenon
  <2>17. CASE ReadCachePtr(t)
    BY <2>17, ReadCachePtrInv1, Zenon
  <2>18. CASE DecrementItemsInUse(t)
    BY <2>18, DecrementItemsInUseInv1, Zenon
  <2>19. CASE Delete(t)
    BY <2>19, DeleteInv1, Zenon
  <2>20. CASE SliceStep(t)
    BY <2>20, SliceStepInv1, Zenon
  <2>21. CASE Flush(t)
    BY <2>21, FlushInv1, Zenon
  <2>22. CASE FlushStep(t)
    BY <2>22, FlushStepInv1, Zenon
  <2>23. CASE FlushPassEnd(t)
    BY <2>23, FlushPassEndInv1, Zenon
  <2>24. ASSUME NEW p \in Policies, SetEvictionPolicy(t, p) PROVE Inv1'
    BY <2>24, SetEvictionPolicyInv1, Zenon
  <2> QED
    BY <1>3, <2>1, <2>2, <2>3, <2>4, <2>5, <2>6, <2>7, <2>8, <2>9, <2>10, <2>11, <2>12,
       <2>13, <2>14, <2>15, <2>16, <2>17, <2>18, <2>19, <2>20, <2>21, <2>22, <2>23, <2>24, ZenonT(40) DEF ThreadStep
<1>4. CASE UNCHANGED vars
  <2>1. TypeOK'
    BY <1>4, Zenon DEF vars, cacheVars, objVars, locals, loop, client, Inv1, TypeOK
  <2>2. LocalInv'
    BY <1>4, Zenon DEF vars, locals, Inv1, LocalInv, LocalOK
  <2>3. TableInv'
    BY <1>4, Zenon DEF vars, cacheVars, Inv1, TableInv
  <2> QED
    BY <2>1, <2>2, <2>3, Zenon DEF Inv1
<1> QED
  BY <1>2, <1>3, <1>4, Zenon DEF Next

LEMMA SlotsSuffice ==
    ASSUME TypeOK, SlotInv PROVE CreatorOwnsMarker /\ MarkerHasCreator
<1>1. \A t \in Thread : job[t] \in Seq(Key) /\ \A i \in 1..Len(job[t]) : job[t][i] \in Key /\ i \in Nat
  BY DEF TypeOK
<1>2. CreatorOwnsMarker
  BY <1>1, ZenonT(40) DEF SlotInv, Slot, Marked, CreatorOwnsMarker
<1>3. MarkerHasCreator
  BY <1>1 DEF SlotInv, Slot, Marked, MarkerHasCreator, Creating
<1> QED
  BY <1>2, <1>3, Zenon

(* A step that changes neither the slots nor the marked keys. *)
LEMMA SlotsSame ==
    ASSUME SlotInv,
           \A t \in Thread, i \in Nat, k \in Key : Slot(t, i, k)' <=> Slot(t, i, k),
           \A k \in Key : Marked(k)' <=> Marked(k)
    PROVE  SlotInv'
  BY DEF SlotInv

(* Slots depend on the jobs and on who is in createObject() or about to    *)
(* put its value.                                                          *)
LEMMA SlotsFrame ==
    ASSUME SlotInv, job' = job,
           \A u \in Thread : pc'[u] \in {"create", "put"} <=> pc[u] \in {"create", "put"},
           \A k \in Key : Marked(k)' <=> Marked(k)
    PROVE  SlotInv'
<1>1. \A t \in Thread, i \in Nat, k \in Key : Slot(t, i, k)' <=> Slot(t, i, k)
  BY Zenon DEF Slot, Creating
<1> QED
  BY <1>1, SlotsSame, Zenon

LEMMA PollFetchSlots ==
    ASSUME Inv2, NEW t \in Thread, PollFetch(t) PROVE SlotInv'
<1>1. job' = job /\ table' = table
  BY Zenon DEF PollFetch, locals, cacheVars
<1>2. \A u \in Thread : pc'[u] \in {"create", "put"} <=> pc[u] \in {"create", "put"}
  BY Zenon DEF PollFetch, Inv2, Inv1, TypeOK
<1> QED
  BY <1>1, <1>2, SlotsFrame, Zenon DEF Inv2, Marked, inProgress

LEMMA PollWaitSlots ==
    ASSUME Inv2, NEW t \in Thread, PollWait(t) PROVE SlotInv'
<1>1. job' = job /\ table' = table
  BY Zenon DEF PollWait, locals, cacheVars
<1>2. \A u \in Thread : pc'[u] \in {"create", "put"} <=> pc[u] \in {"create", "put"}
  BY Zenon DEF PollWait, Inv2, Inv1, TypeOK
<1> QED
  BY <1>1, <1>2, SlotsFrame, Zenon DEF Inv2, Marked, inProgress

LEMMA PollMissFailsSlots ==
    ASSUME Inv2, NEW t \in Thread, PollMissFails(t) PROVE SlotInv'
<1>1. job' = job /\ table' = table
  BY Zenon DEF PollMissFails, locals, cacheVars
<1>2. \A u \in Thread : pc'[u] \in {"create", "put"} <=> pc[u] \in {"create", "put"}
  BY Zenon DEF PollMissFails, Inv2, Inv1, TypeOK
<1> QED
  BY <1>1, <1>2, SlotsFrame, Zenon DEF Inv2, Marked, inProgress

LEMMA SpuriousWakeupSlots ==
    ASSUME Inv2, NEW t \in Thread, SpuriousWakeup(t) PROVE SlotInv'
<1>1. job' = job /\ table' = table
  BY Zenon DEF SpuriousWakeup, locals, cacheVars
<1>2. \A u \in Thread : pc'[u] \in {"create", "put"} <=> pc[u] \in {"create", "put"}
  BY Zenon DEF SpuriousWakeup, Inv2, Inv1, TypeOK
<1> QED
  BY <1>1, <1>2, SlotsFrame, Zenon DEF Inv2, Marked, inProgress

LEMMA CreateNewSlots ==
    ASSUME Inv2, NEW t \in Thread, CreateNew(t) PROVE SlotInv'
<1>1. job' = job /\ table' = table
  BY Zenon DEF CreateNew, locals, cacheVars
<1>2. \A u \in Thread : pc'[u] \in {"create", "put"} <=> pc[u] \in {"create", "put"}
  <2>1. pc[t] = "create" /\ pc' = [pc EXCEPT ![t] = "put"]
    BY Zenon DEF CreateNew
  <2> QED
    BY <2>1, Zenon DEF Inv2, Inv1, TypeOK
<1> QED
  BY <1>1, <1>2, SlotsFrame, Zenon DEF Inv2, Marked, inProgress

LEMMA CreateFailsSlots ==
    ASSUME Inv2, NEW t \in Thread, CreateFails(t) PROVE SlotInv'
<1>1. job' = job /\ table' = table
  BY Zenon DEF CreateFails, locals, cacheVars
<1>2. \A u \in Thread : pc'[u] \in {"create", "put"} <=> pc[u] \in {"create", "put"}
  BY Zenon DEF CreateFails, Inv2, Inv1, TypeOK
<1> QED
  BY <1>1, <1>2, SlotsFrame, Zenon DEF Inv2, Marked, inProgress

LEMMA DecHardSlots ==
    ASSUME Inv2, NEW t \in Thread, DecHard(t) PROVE SlotInv'
<1>1. job' = job /\ table' = table
  BY Zenon DEF DecHard, locals, cacheVars
<1>2. \A u \in Thread : pc'[u] \in {"create", "put"} <=> pc[u] \in {"create", "put"}
  BY Zenon DEF DecHard, Inv2, Inv1, TypeOK
<1> QED
  BY <1>1, <1>2, SlotsFrame, Zenon DEF Inv2, Marked, inProgress

LEMMA DecTotalSlots ==
    ASSUME Inv2, NEW t \in Thread, DecTotal(t) PROVE SlotInv'
<1>1. job' = job /\ table' = table
  BY Zenon DEF DecTotal, locals, cacheVars
<1>2. \A u \in Thread : pc'[u] \in {"create", "put"} <=> pc[u] \in {"create", "put"}
  BY Zenon DEF DecTotal, Inv2, Inv1, TypeOK
<1> QED
  BY <1>1, <1>2, SlotsFrame, Zenon DEF Inv2, Marked, inProgress

LEMMA ReadCachePtrSlots ==
    ASSUME Inv2, NEW t \in Thread, ReadCachePtr(t) PROVE SlotInv'
<1>1. job' = job /\ table' = table
  BY Zenon DEF ReadCachePtr, locals, cacheVars
<1>2. \A u \in Thread : pc'[u] \in {"create", "put"} <=> pc[u] \in {"create", "put"}
  BY Zenon DEF ReadCachePtr, Inv2, Inv1, TypeOK
<1> QED
  BY <1>1, <1>2, SlotsFrame, Zenon DEF Inv2, Marked, inProgress

LEMMA DeleteSlots ==
    ASSUME Inv2, NEW t \in Thread, Delete(t) PROVE SlotInv'
<1>1. job' = job /\ table' = table
  BY Zenon DEF Delete, locals, cacheVars
<1>2. \A u \in Thread : pc'[u] \in {"create", "put"} <=> pc[u] \in {"create", "put"}
  BY Zenon DEF Delete, Inv2, Inv1, TypeOK
<1> QED
  BY <1>1, <1>2, SlotsFrame, Zenon DEF Inv2, Marked, inProgress

LEMMA FlushSlots ==
    ASSUME Inv2, NEW t \in Thread, Flush(t) PROVE SlotInv'
<1>1. job' = job /\ table' = table
  BY Zenon DEF Flush, locals, cacheVars
<1>2. \A u \in Thread : pc'[u] \in {"create", "put"} <=> pc[u] \in {"create", "put"}
  BY Zenon DEF Flush, Inv2, Inv1, TypeOK
<1> QED
  BY <1>1, <1>2, SlotsFrame, Zenon DEF Inv2, Marked, inProgress

LEMMA FlushPassEndSlots ==
    ASSUME Inv2, NEW t \in Thread, FlushPassEnd(t) PROVE SlotInv'
<1>1. job' = job /\ table' = table
  BY Zenon DEF FlushPassEnd, locals, cacheVars
<1>2. \A u \in Thread : pc'[u] \in {"create", "put"} <=> pc[u] \in {"create", "put"}
  BY Zenon DEF FlushPassEnd, Inv2, Inv1, TypeOK
<1> QED
  BY <1>1, <1>2, SlotsFrame, Zenon DEF Inv2, Marked, inProgress

LEMMA ShareSlots ==
    ASSUME Inv2, NEW t \in Thread, NEW u \in Thread, NEW k \in Key, Share(t, u, k) PROVE SlotInv'
<1>1. job' = job /\ table' = table
  BY Zenon DEF Share, locals, cacheVars
<1>2. \A w \in Thread : pc'[w] \in {"create", "put"} <=> pc[w] \in {"create", "put"}
  BY Zenon DEF Share, Inv2, Inv1, TypeOK
<1> QED
  BY <1>1, <1>2, SlotsFrame, Zenon DEF Inv2, Marked, inProgress

LEMMA ReleaseSlots ==
    ASSUME Inv2, NEW t \in Thread, NEW k \in Key, Release(t, k) PROVE SlotInv'
<1>1. job' = job /\ table' = table
  BY Zenon DEF Release, locals, cacheVars
<1>2. \A u \in Thread : pc'[u] \in {"create", "put"} <=> pc[u] \in {"create", "put"}
  BY Zenon DEF Release, Inv2, Inv1, TypeOK
<1> QED
  BY <1>1, <1>2, SlotsFrame, Zenon DEF Inv2, Marked, inProgress

LEMMA SetEvictionPolicySlots ==
    ASSUME Inv2, NEW t \in Thread, NEW p \in Policies, SetEvictionPolicy(t, p) PROVE SlotInv'
<1>1. job' = job /\ table' = table
  BY Zenon DEF SetEvictionPolicy, locals, cacheVars
<1>2. \A u \in Thread : pc'[u] \in {"create", "put"} <=> pc[u] \in {"create", "put"}
  BY Zenon DEF SetEvictionPolicy, Inv2, Inv1, TypeOK
<1> QED
  BY <1>1, <1>2, SlotsFrame, Zenon DEF Inv2, Marked, inProgress

LEMMA DecrementItemsInUseSlots ==
    ASSUME Inv2, NEW t \in Thread, DecrementItemsInUse(t) PROVE SlotInv'
<1>1. job' = job /\ table' = table
  BY Zenon DEF DecrementItemsInUse, locals
<1>2. /\ pc[t] = "lockDec"
      /\ pc' = [pc EXCEPT ![t] = "relSlice"] \/ pc' = [pc EXCEPT ![t] = "delete"]
  BY Zenon DEF DecrementItemsInUse, runEvictionSlice
<1>3. \A u \in Thread : pc'[u] \in {"create", "put"} <=> pc[u] \in {"create", "put"}
  BY <1>2, Zenon DEF Inv2, Inv1, TypeOK
<1> QED
  BY <1>1, <1>3, SlotsFrame, Zenon DEF Inv2, Marked, inProgress

(* The loops over the table drop no entry that is in progress. *)
LEMMA VisitKeepsMarkers ==
    ASSUME Inv1, visitElement(isEvictable(table[nextElement]))
    PROVE  \A k \in Key : Marked(k)' <=> Marked(k)
<1>1. CASE isEvictable(table[nextElement])
  <2>1. table' = [table EXCEPT ![nextElement] = Null]
    BY <1>1, Zenon DEF visitElement
  <2>2. ~inProgress(table[nextElement])
    BY <1>1, Zenon DEF isEvictable
  <2> QED
    BY <2>1, <2>2, Zenon DEF Marked, inProgress, Inv1, TypeOK
<1>2. CASE ~isEvictable(table[nextElement])
  BY <1>2, Zenon DEF visitElement, Marked, inProgress
<1> QED
  BY <1>1, <1>2, Zenon

LEMMA SliceStepSlots ==
    ASSUME Inv2, NEW t \in Thread, SliceStep(t) PROVE SlotInv'
<1>1. job' = job /\ visitElement(isEvictable(table[nextElement]))
  BY Zenon DEF SliceStep, locals
<1>2. /\ pc[t] \in {"putSlice", "relSlice"}
      /\ \/ pc' = pc
         \/ \E p \in {"decHard", "return", "delete"} : pc' = [pc EXCEPT ![t] = p]
  BY Zenon DEF SliceStep, AfterPut
<1>3. \A u \in Thread : pc'[u] \in {"create", "put"} <=> pc[u] \in {"create", "put"}
  BY <1>2, Zenon DEF Inv2, Inv1, TypeOK
<1> QED
  BY <1>1, <1>3, SlotsFrame, VisitKeepsMarkers, Zenon DEF Inv2

LEMMA FlushStepSlots ==
    ASSUME Inv2, NEW t \in Thread, FlushStep(t) PROVE SlotInv'
<1>1. job' = job /\ pc' = pc /\ visitElement(isEvictable(table[nextElement]))
  BY Zenon DEF FlushStep, locals
<1> QED
  BY <1>1, SlotsFrame, VisitKeepsMarkers, Zenon DEF Inv2

LEMMA GetSlots ==
    ASSUME Inv2, NEW t \in Thread, NEW k \in Key, Get(t, k) PROVE SlotInv'
<1>1. table' = table /\ job[t] = <<>>
  BY ZenonT(40) DEF Get, cacheVars, Inv2, Inv1, LocalInv, LocalOK
<1>2. \A u \in Thread, i \in Nat, j \in Key : Slot(u, i, j)' <=> Slot(u, i, j)
  <2>1. /\ job'[t] = <<k>> /\ pc'[t] = "poll" /\ pc[t] = "idle"
        /\ \A u \in Thread : u # t => job'[u] = job[u] /\ pc'[u] = pc[u]
    BY Zenon DEF Get, Inv2, Inv1, TypeOK
  <2>2. ASSUME NEW i \in Nat PROVE ~Creating(t, i)' /\ ~Creating(t, i)
    <3>1. Len(<<k>>) = 1 /\ Len(<<>>) = 0 /\ ~(i \in 1..0) /\ (i \in 1..1 => ~(i < 1))
      OBVIOUS
    <3> QED
      BY <1>1, <2>1, <3>1, Zenon DEF Creating
  <2>3. \A u \in Thread, i \in Nat : Creating(u, i)' <=> Creating(u, i)
    BY <2>1, <2>2, Zenon DEF Creating
  <2>4. \A u \in Thread, i \in Nat, j \in Key : Slot(u, i, j) => u # t
    BY <2>2, Zenon DEF Slot
  <2>5. \A u \in Thread, i \in Nat, j \in Key : Slot(u, i, j)' => u # t
    BY <2>2, Zenon DEF Slot
  <2> QED
    BY <2>1, <2>3, <2>4, <2>5, Zenon DEF Slot
<1> QED
  BY <1>1, <1>2, SlotsSame, Zenon DEF Inv2, Marked, inProgress

(* The caller whose _poll() stores the marker gets the slot. *)
LEMMA PollMissSlots ==
    ASSUME Inv2, NEW t \in Thread, PollMiss(t) PROVE SlotInv'
<1> DEFINE ck == CurrentKey(t)
<1>1. ck \in Key /\ job[t] \in Seq(Key) /\ job[t] # <<>>
  BY CurrentKeyType, ZenonT(40) DEF Inv2, Inv1, LocalInv, LocalOK, PollMiss, TypeOK
<1>2. ck = job[t][Len(job[t])] /\ Len(job[t]) \in Nat
  BY <1>1 DEF CurrentKey
<1> HIDE DEF ck
<1>3. ~Marked(ck)
  BY Zenon DEF PollMiss, Marked, ck
<1>4. \A k \in Key : Marked(k)' <=> Marked(k) \/ k = ck
  <2>1. table' = [table EXCEPT ![ck] = Marker]
    BY Zenon DEF PollMiss, ck
  <2>2. inProgress(Marker) /\ Marker # Null
    <3>1. Marker \in Entry
      BY NullFresh, ZenonT(40) DEF Marker, Entry, Status
    <3> QED
      BY <3>1, CacheAssumption, Zenon DEF inProgress, Marker
  <2> QED
    BY <1>1, <2>1, <2>2, ZenonT(40) DEF Marked, inProgress, Inv2, Inv1, TypeOK
<1>5. \A u \in Thread, i \in Nat, k \in Key :
         Slot(u, i, k)' <=> Slot(u, i, k) \/ (u = t /\ i = Len(job[t]) /\ k = ck)
  <2>1. job' = job /\ pc[t] = "poll" /\ pc' = [pc EXCEPT ![t] = "create"]
    BY Zenon DEF PollMiss, locals
  <2>2. pc'[t] = "create" /\ \A u \in Thread : u # t => pc'[u] = pc[u]
    BY <2>1, Zenon DEF Inv2, Inv1, TypeOK
  <2>3. /\ Len(job[t]) \in 1..Len(job[t]) /\ ~(Len(job[t]) < Len(job[t]))
        /\ \A i \in 1..Len(job[t]) : i < Len(job[t]) \/ i = Len(job[t])
    BY <1>1
  <2>4. \A i \in Nat : Creating(t, i)' <=> Creating(t, i) \/ i = Len(job[t])
    BY <2>1, <2>2, <2>3, Zenon DEF Creating
  <2>5. \A u \in Thread, i \in Nat : u # t => (Creating(u, i)' <=> Creating(u, i))
    BY <2>1, <2>2, Zenon DEF Creating
  <2> QED
    BY <1>2, <2>1, <2>4, <2>5, ZenonT(40) DEF Slot
<1>6. SlotInv /\ ck \in Key
  BY <1>1, Zenon DEF Inv2
<1>7. ASSUME NEW u \in Thread, NEW i \in Nat, NEW k \in Key, Slot(u, i, k)' PROVE Marked(k)'
  <2>1. Slot(u, i, k) => Marked(k)
    BY <1>6, Zenon DEF SlotInv
  <2>2. Slot(u, i, k) \/ k = ck
    BY <1>5, <1>7, Zenon
  <2> QED
    BY <1>4, <2>1, <2>2, Zenon
<1>8. ASSUME NEW u \in Thread, NEW v \in Thread, NEW i \in Nat, NEW j \in Nat, NEW k \in Key,
             Slot(u, i, k)', Slot(v, j, k)'
      PROVE  u = v /\ i = j
  <2>1. /\ Slot(u, i, k) \/ (u = t /\ i = Len(job[t]) /\ k = ck)
        /\ Slot(v, j, k) \/ (v = t /\ j = Len(job[t]) /\ k = ck)
    BY <1>5, <1>8, Zenon
  <2>2. (Slot(u, i, k) => Marked(k)) /\ (Slot(v, j, k) => Marked(k))
    BY <1>6, Zenon DEF SlotInv
  <2>3. Slot(u, i, k) /\ Slot(v, j, k) => u = v /\ i = j
    BY <1>6, Zenon DEF SlotInv
  <2> QED
    BY <1>3, <2>1, <2>2, <2>3, Zenon
<1>9. \A k \in Key : Marked(k)' => \E u \in Thread, i \in Nat : Slot(u, i, k)'
  BY <1>2, <1>4, <1>5, <1>6, Zenon DEF SlotInv
<1> QED
  BY <1>7, <1>8, <1>9, Zenon DEF SlotInv

LEMMA CreateAliasSlots ==
    ASSUME Inv2, NEW t \in Thread, CreateAlias(t) PROVE SlotInv'
<1> DEFINE q == Append(job[t], Alias[CurrentKey(t)])
<1>1. job[t] \in Seq(Key) /\ Alias[CurrentKey(t)] \in Key
  BY CurrentKeyType, CacheAssumption, ZenonT(40) DEF Inv2, Inv1, LocalInv, LocalOK, CreateAlias, TypeOK
<1>2. Len(q) = Len(job[t]) + 1 /\ \A i \in 1..Len(job[t]) : q[i] = job[t][i]
  BY <1>1
<1>3. /\ table' = table /\ pc[t] = "create" /\ pc' = [pc EXCEPT ![t] = "poll"]
      /\ job' = [job EXCEPT ![t] = q]
  BY Zenon DEF CreateAlias, cacheVars
<1> HIDE DEF q
<1>4. \A u \in Thread, i \in Nat, j \in Key : Slot(u, i, j)' <=> Slot(u, i, j)
  <2>1. \A u \in Thread \ {t}, i \in Nat, j \in Key : Slot(u, i, j)' <=> Slot(u, i, j)
    BY <1>3, ZenonT(40) DEF Slot, Creating, Inv2, Inv1, TypeOK
  <2>2. job'[t] = q /\ pc'[t] = "poll" /\ Len(job[t]) \in Nat
    BY <1>1, <1>3 DEF Inv2, Inv1, TypeOK
  <2>3. ASSUME NEW i \in Nat, NEW j \in Key PROVE Slot(t, i, j)' <=> Slot(t, i, j)
    <3>1. Creating(t, i)' <=> i \in 1..Len(job[t])
      BY <1>2, <2>2 DEF Creating
    <3>2. Creating(t, i) <=> i \in 1..Len(job[t])
      BY <1>3, <2>2, Zenon DEF Creating
    <3> QED
      BY <1>2, <2>2, <3>1, <3>2, Zenon DEF Slot
  <2> QED
    BY <2>1, <2>3, Zenon
<1> QED
  BY <1>3, <1>4, SlotsSame, ZenonT(40) DEF Inv2, Marked, inProgress

(* _putIfAbsentAndGet() completes the caller's own marker. *)
LEMMA PutIfAbsentAndGetSlots ==
    ASSUME Inv2, NEW t \in Thread, PutIfAbsentAndGet(t) PROVE SlotInv'
<1> DEFINE ck == CurrentKey(t)
           entry == [val |-> val[t], st |-> st[t], master |-> soft[val[t]] = 0]
<1>1. ck \in Key /\ job[t] \in Seq(Key) /\ job[t] # <<>> /\ pc[t] = "put"
  <2>1. pc[t] = "put"
    BY Zenon DEF PutIfAbsentAndGet
  <2>2. job[t] # <<>> /\ job[t] \in Seq(Key)
    BY <2>1, ZenonT(40) DEF Inv2, Inv1, LocalInv, LocalOK, TypeOK
  <2> QED
    BY <2>1, <2>2, CurrentKeyType, Zenon DEF Inv2, Inv1
<1>2. ck = job[t][Len(job[t])] /\ Len(job[t]) \in Nat /\ Len(job[t]) > 0
  BY <1>1 DEF CurrentKey
<1> HIDE DEF ck
<1>3. Slot(t, Len(job[t]), ck)
  BY <1>1, <1>2 DEF Slot, Creating
<1>4. /\ table' = [table EXCEPT ![ck] = entry] /\ job' = job
  BY Zenon DEF PutIfAbsentAndGet, ck, locals
<1>5. ~inProgress(entry)
  <2>1. val[t] = NoValue => st[t] = "FAILURE"
    BY Zenon DEF Inv2, Inv1, LocalInv, LocalOK
  <2> QED
    BY <2>1, Zenon DEF inProgress
<1>6. \A k \in Key : Marked(k)' <=> Marked(k) /\ k # ck
  <2>1. ASSUME NEW k \in Key, k # ck PROVE table'[k] = table[k]
    BY <1>4, <2>1, ZenonT(40) DEF Inv2, Inv1, TypeOK
  <2>2. table'[ck] = entry
    BY <1>1, <1>4, Zenon DEF Inv2, Inv1, TypeOK
  <2>3. ASSUME NEW k \in Key, k = ck PROVE ~Marked(k)'
    BY <1>5, <2>2, <2>3, Zenon DEF Marked, inProgress
  <2>4. ASSUME NEW k \in Key, k # ck PROVE Marked(k)' <=> Marked(k)
    BY <2>1, <2>4, Zenon DEF Marked, inProgress
  <2> QED
    BY <2>3, <2>4, Zenon
<1>7. /\ \A u \in Thread \ {t} : pc'[u] \in {"create", "put"} <=> pc[u] \in {"create", "put"}
      /\ pc'[t] \notin {"create", "put"}
  BY Zenon DEF PutIfAbsentAndGet, runEvictionSlice, AfterPut, Inv2, Inv1, TypeOK
<1>8. \A u \in Thread, i \in Nat, k \in Key :
         Slot(u, i, k)' <=> Slot(u, i, k) /\ ~(u = t /\ i = Len(job[t]))
  <2>1. \A u \in Thread \ {t}, i \in Nat, k \in Key : Slot(u, i, k)' <=> Slot(u, i, k)
    BY <1>4, <1>7, Zenon DEF Slot, Creating
  <2>2. ASSUME NEW i \in Nat, NEW k \in Key
        PROVE  Slot(t, i, k)' <=> Slot(t, i, k) /\ i # Len(job[t])
    <3>1. Creating(t, i)' <=> i \in 1..Len(job[t]) /\ i # Len(job[t])
      BY <1>2, <1>4, <1>7 DEF Creating
    <3>2. Creating(t, i) <=> i \in 1..Len(job[t])
      BY <1>1, Zenon DEF Creating
    <3> QED
      BY <1>4, <3>1, <3>2, ZenonT(40) DEF Slot
  <2> QED
    BY <2>1, <2>2, Zenon
<1>9. \A u \in Thread, i \in Nat, k \in Key : Slot(u, i, k)' => Marked(k)'
  <2> SUFFICES ASSUME NEW u \in Thread, NEW i \in Nat, NEW k \in Key, Slot(u, i, k)'
               PROVE  Marked(k)'
    OBVIOUS
  <2>1. Slot(u, i, k) /\ ~(u = t /\ i = Len(job[t]))
    BY <1>8, Zenon
  <2>2. Marked(k)
    BY <2>1, Zenon DEF Inv2, SlotInv
  <2>3. k # ck
    <3>1. \A w \in Thread, j \in Nat : Slot(w, j, k) /\ Slot(t, Len(job[t]), k) => w = t /\ j = Len(job[t])
      BY <1>2, Zenon DEF Inv2, SlotInv
    <3> QED
      BY <1>3, <2>1, <3>1, Zenon
  <2> QED
    BY <1>6, <2>2, <2>3, Zenon
<1>10. \A u, w \in Thread, i, j \in Nat, k \in Key :
          Slot(u, i, k)' /\ Slot(w, j, k)' => u = w /\ i = j
  BY <1>8 DEF Inv2, SlotInv
<1>11. \A k \in Key : Marked(k)' => \E u \in Thread, i \in Nat : Slot(u, i, k)'
  <2> SUFFICES ASSUME NEW k \in Key, Marked(k)' PROVE \E u \in Thread, i \in Nat : Slot(u, i, k)'
    OBVIOUS
  <2>1. PICK u \in Thread, i \in Nat : Slot(u, i, k)
    BY <1>6, Zenon DEF Inv2, SlotInv
  <2>2. k # ck
    BY <1>6, Zenon
  <2>3. ~(u = t /\ i = Len(job[t]))
    BY <1>2, <2>1, <2>2, Zenon DEF Slot
  <2> QED
    BY <1>8, <2>1, <2>3, Zenon
<1> QED
  BY <1>9, <1>10, <1>11, Zenon DEF SlotInv

LEMMA ReturnSlots ==
    ASSUME Inv2, NEW t \in Thread, Return(t) PROVE SlotInv'
<1>1. table' = table
  BY Zenon DEF Return, cacheVars
<1>2. \A u \in Thread, i \in Nat, j \in Key : Slot(u, i, j)' <=> Slot(u, i, j)
  <2>1. /\ pc[t] = "return" /\ Len(job[t]) = 1
        /\ job' = [job EXCEPT ![t] = <<>>] /\ pc' = [pc EXCEPT ![t] = "idle"]
    BY Zenon DEF Return
  <2>2. \A i \in Nat, j \in Key : ~Slot(t, i, j)
    BY <2>1, SMTT(40) DEF Slot, Creating
  <2>3. \A i \in Nat, j \in Key : ~Slot(t, i, j)'
    BY <2>1 DEF Slot, Creating, Inv2, Inv1, TypeOK
  <2>4. \A u \in Thread \ {t}, i \in Nat, j \in Key : Slot(u, i, j)' <=> Slot(u, i, j)
    BY <2>1, Zenon DEF Slot, Creating, Inv2, Inv1, TypeOK
  <2> QED
    BY <2>2, <2>3, <2>4, Zenon
<1> QED
  BY <1>1, <1>2, SlotsSame, Zenon DEF Inv2, Marked, inProgress

LEMMA ReturnToCreateSlots ==
    ASSUME Inv2, NEW t \in Thread, ReturnToCreate(t) PROVE SlotInv'
<1> DEFINE q == SubSeq(job[t], 1, Len(job[t]) - 1)
<1>1. job[t] \in Seq(Key) /\ Len(job[t]) > 1
  BY Zenon DEF Inv2, Inv1, ReturnToCreate, TypeOK
<1>2. Len(q) = Len(job[t]) - 1 /\ \A i \in 1..(Len(job[t]) - 1) : q[i] = job[t][i]
  BY <1>1, FrontType, Zenon
<1>3. /\ table' = table /\ pc[t] = "return" /\ pc' = [pc EXCEPT ![t] = "put"]
      /\ job' = [job EXCEPT ![t] = q]
  BY Zenon DEF ReturnToCreate, cacheVars
<1> HIDE DEF q
<1>4. \A u \in Thread, i \in Nat, j \in Key : Slot(u, i, j)' <=> Slot(u, i, j)
  <2>1. \A u \in Thread \ {t}, i \in Nat, j \in Key : Slot(u, i, j)' <=> Slot(u, i, j)
    BY <1>3, ZenonT(40) DEF Slot, Creating, Inv2, Inv1, TypeOK
  <2>2. job'[t] = q /\ pc'[t] = "put" /\ Len(job[t]) \in Nat
    BY <1>1, <1>3, SMTT(40) DEF Inv2, Inv1, TypeOK
  <2>3. ASSUME NEW i \in Nat, NEW j \in Key PROVE Slot(t, i, j)' <=> Slot(t, i, j)
    <3>1. Creating(t, i)' <=> i \in 1..(Len(job[t]) - 1)
      BY <1>2, <2>2, Zenon DEF Creating
    <3>2. Creating(t, i) <=> i \in 1..(Len(job[t]) - 1)
      BY <1>3, <2>2 DEF Creating
    <3> QED
      BY <1>2, <2>2, <3>1, <3>2, Zenon DEF Slot
  <2> QED
    BY <2>1, <2>3
<1> QED
  BY <1>3, <1>4, SlotsSame, Zenon DEF Inv2, Marked, inProgress

LEMMA CleanupSlots ==
    ASSUME Inv2, Cleanup PROVE SlotInv'
<1>1. \A u \in Thread : job'[u] = <<>>
  BY CleanupFacts, ZenonT(40) DEF locals, Inv2, Inv1, LocalInv, LocalOK
<1>2. \A u \in Thread, i \in Nat, k \in Key : ~Slot(u, i, k)'
  BY <1>1 DEF Slot, Creating
<1>3. \A k \in Key : ~Marked(k)'
  BY CleanupFacts, Zenon DEF Marked
<1> QED
  BY <1>2, <1>3, Zenon DEF SlotInv

LEMMA Inv2Init == Init => Inv2
<1> SUFFICES ASSUME Init PROVE SlotInv
  BY Inv1Init, Zenon DEF Inv2
<1>1. \A t \in Thread, i \in Nat, k \in Key : ~Slot(t, i, k)
  BY DEF Init, Slot, Creating
<1>2. \A k \in Key : ~Marked(k)
  BY Zenon DEF Init, Marked
<1> QED
  BY <1>1, <1>2, Zenon DEF SlotInv

LEMMA SlotsNext == Inv2 /\ [Next]_vars => SlotInv'
<1> SUFFICES ASSUME Inv2, [Next]_vars PROVE SlotInv'
  OBVIOUS
<1>2. CASE Cleanup
  BY <1>2, CleanupSlots, Zenon
<1>3. ASSUME NEW t \in Thread, ThreadStep(t) PROVE SlotInv'
  <2>1. ASSUME NEW k \in Key, Get(t, k) PROVE SlotInv'
    BY <2>1, GetSlots, Zenon
  <2>2. ASSUME NEW k \in Key, Release(t, k) PROVE SlotInv'
    BY <2>2, ReleaseSlots, Zenon
  <2>3. ASSUME NEW u \in Thread, NEW k \in Key, Share(t, u, k) PROVE SlotInv'
    BY <2>3, ShareSlots, Zenon
  <2>4. CASE PollFetch(t)
    BY <2>4, PollFetchSlots, Zenon
  <2>5. CASE PollWait(t)
    BY <2>5, PollWaitSlots, Zenon
  <2>6. CASE PollMiss(t)
    BY <2>6, PollMissSlots, Zenon
  <2>7. CASE PollMissFails(t)
    BY <2>7, PollMissFailsSlots, Zenon
  <2>8. CASE SpuriousWakeup(t)
    BY <2>8, SpuriousWakeupSlots, Zenon
  <2>9. CASE CreateAlias(t)
    BY <2>9, CreateAliasSlots, Zenon
  <2>10. CASE CreateNew(t)
    BY <2>10, CreateNewSlots, Zenon
  <2>11. CASE CreateFails(t)
    BY <2>11, CreateFailsSlots, Zenon
  <2>12. CASE PutIfAbsentAndGet(t)
    BY <2>12, PutIfAbsentAndGetSlots, Zenon
  <2>13. CASE Return(t)
    BY <2>13, ReturnSlots, Zenon
  <2>14. CASE ReturnToCreate(t)
    BY <2>14, ReturnToCreateSlots, Zenon
  <2>15. CASE DecHard(t)
    BY <2>15, DecHardSlots, Zenon
  <2>16. CASE DecTotal(t)
    BY <2>16, DecTotalSlots, Zenon
  <2>17. CASE ReadCachePtr(t)
    BY <2>17, ReadCachePtrSlots, Zenon
  <2>18. CASE DecrementItemsInUse(t)
    BY <2>18, DecrementItemsInUseSlots, Zenon
  <2>19. CASE Delete(t)
    BY <2>19, DeleteSlots, Zenon
  <2>20. CASE SliceStep(t)
    BY <2>20, SliceStepSlots, Zenon
  <2>21. CASE Flush(t)
    BY <2>21, FlushSlots, Zenon
  <2>22. CASE FlushStep(t)
    BY <2>22, FlushStepSlots, Zenon
  <2>23. CASE FlushPassEnd(t)
    BY <2>23, FlushPassEndSlots, Zenon
  <2>24. ASSUME NEW p \in Policies, SetEvictionPolicy(t, p) PROVE SlotInv'
    BY <2>24, SetEvictionPolicySlots, Zenon
  <2> QED
    BY <1>3, <2>1, <2>2, <2>3, <2>4, <2>5, <2>6, <2>7, <2>8, <2>9, <2>10, <2>11, <2>12,
       <2>13, <2>14, <2>15, <2>16, <2>17, <2>18, <2>19, <2>20, <2>21, <2>22, <2>23, <2>24, ZenonT(40) DEF ThreadStep
<1>4. CASE UNCHANGED vars
  BY <1>4, SlotsFrame, Zenon DEF Inv2, vars, cacheVars, locals, Marked, inProgress
<1> QED
  BY <1>2, <1>3, <1>4, Zenon DEF Next
=============================================================================
