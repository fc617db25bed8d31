--------------------------- MODULE UnifiedCacheInv --------------------------
(***************************************************************************)
(* The inductive invariant of UnifiedCache, and what its proofs take from  *)
(* counting.  UnifiedCacheControl and UnifiedCacheCounts show the parts of *)
(* it to be preserved, UnifiedCacheProofs puts them together.              *)
(***************************************************************************)
EXTENDS UnifiedCache

Removing == {"decHard", "decTotal", "readCache", "lockDec", "relSlice", "delete"}

(* What a thread has in hand at each point of get() and removeRef().  The  *)
(* removeRef() that get() itself calls is always of gNoValue.              *)
LocalOK(t) ==
    /\ pc[t] \in {"idle", "poll", "wait", "create", "flush"} => val[t] = Null
    /\ pc[t] \in {"put", "putSlice"} \cup Removing => val[t] \in Value
    /\ pc[t] = "return" => /\ val[t] # NoValue
                           /\ val[t] = Null => st[t] = "FAILURE"
    /\ val[t] = NoValue => st[t] = "FAILURE"
    /\ pc[t] \in Removing /\ job[t] # <<>> => val[t] = NoValue
    /\ pc[t] \in {"poll", "wait", "create", "put", "putSlice", "return"} => job[t] # <<>>
    /\ pc[t] \in {"idle", "flush"} => job[t] = <<>>

LocalInv == \A t \in Thread : LocalOK(t)

(* gNoValue stands in the table for "in progress" or for a failure. *)
TableInv ==
    \A k \in Key : table[k] # Null /\ table[k].val = NoValue =>
        table[k].st \in {"ZERO", "FAILURE"}

Inv1 == TypeOK /\ LocalInv /\ TableInv

(* The i-th get() of thread t's job is creating the value of key k. *)
Slot(t, i, k) == Creating(t, i) /\ job[t][i] = k

Marked(k) == table[k] # Null /\ inProgress(table[k])

(* CreatorOwnsMarker and MarkerHasCreator in terms of slots: the slots and *)
(* the marked keys correspond one to one.                                  *)
SlotInv ==
    /\ \A t \in Thread, i \in Nat, k \in Key : Slot(t, i, k) => Marked(k)
    /\ \A t, u \in Thread, i, j \in Nat, k \in Key :
          Slot(t, i, k) /\ Slot(u, j, k) => t = u /\ i = j
    /\ \A k \in Key : Marked(k) => \E t \in Thread, i \in Nat : Slot(t, i, k)

Inv2 == Inv1 /\ SlotInv

-----------------------------------------------------------------------------
(* The entry of k has value o. *)
EntryOf(k, o) == table[k] # Null /\ table[k].val = o

Holding == {"put", "putSlice", "return", "decHard"}

(* Thread t has a hard reference to o in hand, or one that is no longer    *)
(* counted as hard.                                                        *)
Holds(t, o) == val[t] = o /\ pc[t] \in Holding

Drops(t, o) == val[t] = o /\ pc[t] = "decTotal"

(* An object that is to be deleted has no references, and one thread       *)
(* deletes it.                                                             *)
Deleting ==
    /\ \A t \in gone : pc[t] \in {"readCache", "lockDec", "relSlice", "delete"} /\ total[val[t]] = 0
    /\ \A t, u \in gone : val[t] = val[u] => t = u

Lives == LiveIffReferenced /\ Deleting

(* An object whose cachePtr is not set yet is known to its creator only. *)
Fresh ==
    /\ NoValue \notin cached
    /\ \A o \in Obj : o \notin cached =>
          /\ soft[o] = 0
          /\ \A t \in Thread : val[t] = o => pc[t] = "put"
          /\ \A t \in Thread, k \in Key : ptr[t][k] # o

(* A registered object that is referred to has its master entry. *)
Masters ==
    \A o \in Obj : o \in cached /\ (hard[o] > 0 \/ soft[o] > 0) =>
        \E k \in Key : EntryOf(k, o) /\ table[k].master

(* There is no error where there is an object, nor before a call of get(). *)
Statuses ==
    /\ \A t \in Thread : val[t] \in Obj \/ job[t] = <<>> => st[t] # "FAILURE"
    /\ \A k \in Key : table[k] # Null /\ table[k].val \in Obj => table[k].st # "FAILURE"

(* A get() is for a key of which the client has no value; removeRef() goes *)
(* on to decrement fItemsInUseCount only for a registered object.          *)
Calls ==
    \A t \in Thread :
        /\ job[t] # <<>> => ptr[t][job[t][1]] = Null
        /\ t \in zero => pc[t] \in {"decTotal", "readCache", "lockDec", "relSlice", "delete"}
        /\ pc[t] = "lockDec" => t \in zero /\ val[t] # NoValue

(* The mutex is held over a loop, whose elements are there. *)
Loops ==
    \A t \in Thread :
        /\ mutex = t <=> pc[t] \in {"putSlice", "relSlice", "flush"}
        /\ pc[t] \in {"putSlice", "relSlice"} =>
              left >= 1 /\ left <= countOfItemsToEvict(table, itemsInUse)
        /\ pc[t] = "flush" => left >= 0 /\ left <= count(table)

Inv3 == RefCountsExact /\ Lives /\ Fresh /\ Masters /\ Statuses /\ Calls /\ ItemsInUseExact /\ Loops

-----------------------------------------------------------------------------
(* The entry that a get() of k ends at has value o and is its master. *)
MasterAt(k, o) == Root[k] \in Key /\ EntryOf(Root[k], o) /\ table[Root[k]].master

(* The keys of a get() that createObject() calls in turn. *)
Chain(t) == \A i \in 1..Len(job[t]) : i > 1 => job[t][i] = Alias[job[t][i - 1]]

(* What thread t got or made for the key at hand. *)
Got(t) ==
    \A k \in Key, o \in Obj : job[t] # <<>> /\ k = CurrentKey(t) /\ o = val[t] =>
        /\ pc[t] \in {"return", "putSlice"} => MasterAt(k, o)
        /\ pc[t] = "put" => IF o \in cached THEN MasterAt(k, o) ELSE Alias[k] = Null

Owned == \A t \in Thread, k \in Key, o \in Obj : ptr[t][k] = o => MasterAt(k, o)

Entered == \A k \in Key, o \in Obj : EntryOf(k, o) => MasterAt(k, o)

Alone == \A t \in Thread, u \in Thread, o \in Obj : o \notin cached /\ val[t] = o /\ val[u] = o => t = u

Chains == \A t \in Thread : Chain(t)

Roots == Owned /\ Entered /\ (\A t \in Thread : Got(t)) /\ Chains /\ Alone

(* Each registered object has one master, which is not gNoValue. *)
OneMaster ==
    /\ \A k \in Key : table[k] # Null /\ table[k].master => table[k].val \in Obj
    /\ \A o \in Obj : \A j, k \in Key :
          EntryOf(j, o) /\ table[j].master /\ EntryOf(k, o) /\ table[k].master => j = k

Owes(t) == t \in zero /\ pc[t] \in {"decTotal", "readCache", "lockDec"} /\ val[t] \in cached

(* An element that flush() has met and left: its value is being made, or   *)
(* was in use.                                                             *)
Blocked(k) ==
    \/ inProgress(table[k])
    \/ /\ table[k].master
       /\ \/ soft[table[k].val] # 1 \/ hard[table[k].val] > 0
          \/ \E u \in Thread : Owes(u) /\ val[u] = table[k].val

(* The elements that the iteration visits after k to get to p. *)
After(k, p) == {i \in Stored(table) : IF k <= p THEN k < i /\ i <= p ELSE k < i \/ i <= p}

(* As long as a pass of flush() has removed nothing, the elements that it  *)
(* has visited are blocked.                                                *)
Visited ==
    \A k \in Stored(table) : Cardinality(After(k, evictPos)) < count(table) - left => Blocked(k)

Passes == \A t \in Thread : pc[t] = "flush" => iter >= 0 /\ (iter = 0 => Visited)

Inv4 == Inv3 /\ Roots /\ OneMaster /\ Passes

(* What a thread does while another has the mutex of the cache. *)
WithoutMutex(u) ==
    \/ \E i \in Key : Get(u, i) \/ Release(u, i)
    \/ \E w \in Thread, i \in Key : Share(u, w, i)
    \/ SpuriousWakeup(u) \/ CreateAlias(u) \/ CreateNew(u) \/ CreateFails(u)
    \/ Return(u) \/ ReturnToCreate(u)
    \/ DecHard(u) \/ DecTotal(u) \/ ReadCachePtr(u) \/ Delete(u)

-----------------------------------------------------------------------------
(* What counting gives.                                                    *)

(* The references are counted: there is one where a count is positive, and *)
(* the other way round; a single soft reference is that of a single entry. *)
References ==
    \A o \in Value :
        /\ hard[o] \in Nat /\ soft[o] \in Nat /\ total[o] \in Nat /\ total[o] >= hard[o] + soft[o]
        /\ TableRefs(o) \in Nat
        /\ \A t \in Thread : Holds(t, o) => hard[o] > 0
        /\ \A t \in Thread : Drops(t, o) => total[o] > hard[o] + soft[o]
        /\ \A t \in Thread, k \in Key : ptr[t][k] = o => hard[o] > 0
        /\ hard[o] > 0 => (\E t \in Thread : Holds(t, o)) \/ \E t \in Thread, k \in Key : ptr[t][k] = o
        /\ \A k \in Key : EntryOf(k, o) => soft[o] > 0
        /\ o = NoValue => soft[o] > 0
        /\ o \in Obj /\ soft[o] = 1 => \A j, k \in Key : EntryOf(j, o) /\ EntryOf(k, o) => j = k

(* The iteration of a loop is at an element of the table. *)
Elements ==
    \A t \in Thread :
        pc[t] \in {"putSlice", "relSlice"} \/ (pc[t] = "flush" /\ left > 0) => nextElement \in Stored(table)

(* The subsets of S can be counted. *)
Counted(S) ==
    \A A \in SUBSET S :
        /\ Cardinality(A) \in Nat /\ (Cardinality(A) = 0 <=> A = {})
        /\ \A B \in SUBSET A : Cardinality(B) <= Cardinality(A)
        /\ \A x \in S \ A : Cardinality(A \cup {x}) = Cardinality(A) + 1

(* Threads, keys and values are finitely many, and keys have an order. *)
Sizes ==
    /\ Counted(Thread) /\ Counted(Key) /\ Counted(Thread \X Key) /\ Counted(Value)
    /\ \A S \in SUBSET Key : S # {} => \E k \in S : \A j \in S : k <= j

=============================================================================
