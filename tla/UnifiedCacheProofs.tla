-------------------------- MODULE UnifiedCacheProofs ------------------------
(***************************************************************************)
(* What UnifiedCache promises, for every number of threads, keys and       *)
(* objects, every alias relation and every eviction policy.                *)
(*                                                                         *)
(* The inductive invariant is Inv1 /\ Inv4 of UnifiedCacheInv.  That steps *)
(* preserve it is shown in UnifiedCacheControl and UnifiedCacheCounts,     *)
(* each from facts that the other one or counting provides; here these     *)
(* are put together.                                                       *)
(***************************************************************************)
EXTENDS UnifiedCacheControl, UnifiedCacheCounts, FiniteSetTheorems

(* The subsets of a finite set can be counted. *)
LEMMA FiniteCounted ==
    ASSUME NEW S, IsFiniteSet(S) PROVE Counted(S)
<1> SUFFICES ASSUME NEW A \in SUBSET S
             PROVE  /\ Cardinality(A) \in Nat /\ (Cardinality(A) = 0 <=> A = {})
                    /\ \A B \in SUBSET A : Cardinality(B) <= Cardinality(A)
                    /\ \A x \in S \ A : Cardinality(A \cup {x}) = Cardinality(A) + 1
  BY Zenon DEF Counted
<1>1. IsFiniteSet(A)
  BY FS_Subset, Zenon
<1>2. Cardinality(A) \in Nat /\ (Cardinality(A) = 0 <=> A = {})
  BY <1>1, FS_CardinalityType, FS_EmptySet, Zenon
<1>3. \A B \in SUBSET A : Cardinality(B) <= Cardinality(A)
  BY <1>1, FS_Subset, Zenon
<1>4. \A x \in S \ A : Cardinality(A \cup {x}) = Cardinality(A) + 1
  BY <1>1, FS_AddElement, Zenon
<1> QED
  BY <1>2, <1>3, <1>4, Zenon

(* Keys are numbers. *)
LEMMA FirstKey ==
    ASSUME NEW S \in SUBSET Key, S # {}
    PROVE  \E k \in S : \A j \in S : k <= j
<1> DEFINE R == OpToRel(<, Nat)
<1>1. S \subseteq Nat
  BY CacheAssumption DEF Key
<1>2. IsWellFoundedOn(R, S)
  BY <1>1, NatLessThanWellFounded, IsWellFoundedOnSubset, Zenon
<1>3. PICK k \in S : \A j \in S : ~(<<j, k>> \in R)
  BY <1>2, WFMin, Zenon
<1>4. ASSUME NEW j \in S PROVE k <= j
  <2>1. j \in Nat /\ k \in Nat /\ <<j, k>> \in Nat \X Nat
    BY <1>1, Zenon
  <2>2. j < k => <<j, k>> \in R
    BY <2>1, Zenon DEF OpToRel
  <2>3. ~(j < k)
    BY <1>3, <2>2, Zenon
  <2> QED
    BY <2>1, <2>3
<1> QED
  BY <1>4, Zenon

(* Threads, keys and values are finitely many. *)
LEMMA SizesHold == Sizes
<1>1. IsFiniteSet(Key)
  BY FS_Interval, CacheAssumption DEF Key
<1>2. IsFiniteSet(Thread \X Key)
  BY <1>1, FiniteAssumption, FS_Product, Zenon
<1>3. IsFiniteSet(Value)
  BY FiniteAssumption, FS_AddElement, Zenon DEF Value
<1>4. Counted(Thread) /\ Counted(Key) /\ Counted(Thread \X Key) /\ Counted(Value)
  BY <1>1, <1>2, <1>3, FiniteAssumption, FiniteCounted, Zenon
<1> QED
  BY <1>4, FirstKey, Zenon DEF Sizes

-----------------------------------------------------------------------------
LEMMA Inv1Always == Spec => []Inv1
<1>1. Inv1 /\ [Next]_vars => Inv1'
  BY SizesHold, Inv1Next, Zenon
<1> QED
  BY <1>1, Inv1Init, PTL DEF Spec

(* Every variable keeps its type; in particular a value that get() returns *)
(* to its caller is never gNoValue.                                        *)
THEOREM TypeCorrect == Spec => []TypeOK
<1>1. Inv1 => TypeOK
  BY Zenon DEF Inv1
<1> QED
  BY <1>1, Inv1Always, PTL

LEMMA Inv2Always == Spec => []Inv2
<1>1. Inv2 /\ [Next]_vars => Inv2'
  BY SizesHold, Inv1Next, SlotsNext, Zenon DEF Inv2
<1> QED
  BY <1>1, Inv2Init, PTL DEF Spec

(* However many threads fetch, create, evict and flush, an in-progress     *)
(* entry is owned by exactly one creator and stays until its put: the      *)
(* U_ASSERT(_inProgress(element)) of _put() holds, and no value is created *)
(* twice at the same time.                                                 *)
THEOREM CreatorOwnsMarkerAlways == Spec => []CreatorOwnsMarker
<1>1. Inv2 => CreatorOwnsMarker
  BY SlotsSuffice, Zenon DEF Inv2, Inv1
<1> QED
  BY <1>1, Inv2Always, PTL

(* No in-progress entry is ever without a creator: nobody waits on         *)
(* gInProgressValueAddedCond for a value that nobody will put.             *)
THEOREM MarkerHasCreatorAlways == Spec => []MarkerHasCreator
<1>1. Inv2 => MarkerHasCreator
  BY SlotsSuffice, Zenon DEF Inv2, Inv1
<1> QED
  BY <1>1, Inv2Always, PTL

-----------------------------------------------------------------------------
LEMMA Inv4Init == Init => Inv1 /\ Inv4
  BY SizesHold, Inv1Init, Inv3Init, RootsInit, Zenon DEF Inv4

(* What counting gives in a state with exact counts. *)
LEMMA Referenced == TypeOK /\ RefCountsExact => References
  BY SizesHold, ReferencesHold, Zenon

(* The rest of the invariant is preserved. *)
LEMMA Inv4Next == Inv1 /\ Inv1' /\ Inv4 /\ [Next]_vars => Inv4'
<1> SUFFICES ASSUME Inv1, Inv1', Inv4, [Next]_vars PROVE Inv4'
  OBVIOUS
<1>1. Sizes /\ Inv3 /\ Roots /\ OneMaster /\ Passes
  BY SizesHold, Zenon DEF Inv4
<1>2. References /\ Elements
  BY <1>1, Referenced, ElementsHold, Zenon DEF Inv1, Inv3
<1>3. RefCountsExact'
  BY <1>1, <1>2, ExactNext, Zenon
<1>4. (TypeOK /\ RefCountsExact => References)'
  BY Referenced, PTL
<1>5. References'
  BY <1>3, <1>4, Zenon DEF Inv1
<1>6. Lives'
  BY <1>1, <1>2, <1>3, <1>5, LivesNext, Zenon
<1>7. Fresh' /\ Masters'
  BY <1>1, <1>2, <1>3, <1>5, FreshNext, MastersNext, Zenon
<1>8. Statuses' /\ Calls' /\ Loops'
  BY <1>1, <1>2, StatusesNext, CallsNext, LoopsNext, Zenon
<1>9. ItemsInUseExact'
  BY <1>1, <1>2, <1>5, <1>6, ItemsNext, Zenon
<1>10. Roots' /\ OneMaster'
  BY <1>1, <1>2, RootsNext, OneMasterNext, Zenon
<1>11. \A u \in Thread, k \in Key : WithoutMutex(u) /\ table' = table /\ table[k] # Null /\ Blocked(k) => Blocked(k)'
  BY <1>1, <1>2, BlockedStays, Zenon
<1>12. Passes'
  BY <1>1, <1>2, <1>11, PassesNext, Zenon
<1> QED
  BY <1>3, <1>6, <1>7, <1>8, <1>9, <1>10, <1>12, Zenon DEF Inv4, Inv3

(* The inductive invariant holds. *)
LEMMA Inv4Always == Spec => [](Inv1 /\ Inv4)
<1>1. Inv1 /\ Inv4 /\ [Next]_vars => (Inv1 /\ Inv4)'
  BY SizesHold, Inv1Next, Inv4Next, Zenon
<1> QED
  BY <1>1, Inv4Init, PTL DEF Spec

(* SharedObject's totalRefCount, hardRefCount and softRefCount and         *)
(* fItemsInUseCount agree with the references that clients, calls and the  *)
(* hash table have, and an object lives as long as it is counted: for      *)
(* every number of threads, keys and objects.                              *)
THEOREM CountsAgreeAlways == Spec => []CountsAgree
<1>1. Inv4 => CountsAgree
  BY Zenon DEF Inv4, Inv3, Lives, CountsAgree
<1> QED
  BY <1>1, Inv4Always, PTL

(* As long as a client has a value for a key, the cache has it under the   *)
(* key, or the key that its createObject() goes to, as a master: get()     *)
(* returns the same reference.                                             *)
THEOREM SameReferenceAlways == Spec => []SameReference
<1>1. Inv1 /\ Inv4 => SameReference
  <2> SUFFICES ASSUME Inv1, Inv4, NEW CONSTANT t \in Thread, NEW CONSTANT k \in Key, ptr[t][k] # Null
               PROVE  table[Root[k]] # Null /\ table[Root[k]].val = ptr[t][k] /\ table[Root[k]].master
    BY Zenon DEF SameReference
  <2>1. ptr[t][k] \in Obj
    BY DEF Inv1, TypeOK
  <2>2. MasterAt(k, ptr[t][k])
    BY <2>1, Zenon DEF Inv4, Roots, Owned
  <2> QED
    BY <2>2, Zenon DEF MasterAt, EntryOf
<1> QED
  BY <1>1, Inv4Always, PTL

(* The loops of _runEvictionSlice() and _flush() never call _nextElement() *)
(* on an empty table.                                                      *)
THEOREM LoopHasElementAlways == Spec => []LoopHasElement
<1>1. Inv1 /\ Inv4 => LoopHasElement
  BY SizesHold, LoopElement, Zenon DEF Inv4
<1> QED
  BY <1>1, Inv4Always, PTL

(* No step of _runEvictionSlice() removes an entry when the unused ones    *)
(* are down to one of the limits of setEvictionPolicy().                   *)
THEOREM EvictionCeases == Spec => EvictionCeasesAtLimit
<1> DEFINE Ceases == \A t \in Thread : pc[t] \in {"putSlice", "relSlice"} /\ table' # table /\ mutex = t
                        => countOfItemsToEvict(table', itemsInUse) >= 0
<1>1. Inv1 /\ Inv4 /\ [Next]_vars => [Ceases]_vars
  <2>1. Inv1 /\ Inv4 => Sizes /\ Inv3 /\ References /\ Elements
    BY SizesHold, Referenced, ElementsHold, Zenon DEF Inv4, Inv3, Inv1
  <2> QED
    BY <2>1, SliceEvicts, Zenon
<1> QED
  BY <1>1, Inv4Always, PTL DEF Spec, EvictionCeasesAtLimit

(* What flush() leaves in the table is being made, or the only entry of a  *)
(* value with a hard reference, or with one given up since the last pass   *)
(* came by.                                                                *)
THEOREM FlushLeaves == Spec => FlushLeavesOnlyUsed
<1> DEFINE Leaves == \A t \in Thread : pc[t] = "flush" /\ pc'[t] = "idle" =>
                        \A k \in Stored(table) : inProgress(table[k]) \/
                            LET o == table[k].val
                            IN  /\ table[k].master /\ soft[o] = 1
                                /\ \/ hard[o] > 0
                                   \/ \E u \in Thread : /\ val[u] = o
                                                        /\ pc[u] \in {"decTotal", "readCache", "lockDec"}
<1>1. Inv1 /\ Inv4 /\ [Next]_vars => [Leaves]_vars
  <2>1. Inv1 /\ Inv4 => Sizes /\ Inv3 /\ References /\ Elements /\ OneMaster /\ Passes
    BY SizesHold, Referenced, ElementsHold, Zenon DEF Inv4, Inv3, Inv1
  <2> QED
    BY <2>1, FlushEnds, Zenon
<1> QED
  BY <1>1, Inv4Always, PTL DEF Spec, FlushLeavesOnlyUsed
=============================================================================
