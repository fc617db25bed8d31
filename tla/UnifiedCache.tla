---------------------------- MODULE UnifiedCache ----------------------------
(***************************************************************************)
(* ICU's UnifiedCache (common/unifiedcache.cpp) together with the          *)
(* reference counts of the SharedObjects it caches (common/sharedobject.h, *)
(* .cpp), as several client threads use them.                              *)
(*                                                                         *)
(* One step is one atomic operation of the code: an atomic increment or    *)
(* decrement of a reference count, or a stretch that runs under            *)
(* gCacheMutex.  The eviction slice and flush() hold the mutex over one    *)
(* step per hash element, because the reference counts they read move      *)
(* under them: removeRef() decrements without the lock.                    *)
(***************************************************************************)
EXTENDS Integers, Sequences, FiniteSets

CONSTANTS
    Thread,           \* client threads
    NKey,             \* the keys are 1..NKey, in the order of their hash slots
    Obj,              \* addresses of SharedObjects
    NoValue,          \* gNoValue
    Null,             \* NULL; also "no thread"
    Alias,            \* Alias[k]: the key createObject(k) gets its value from, or Null
    Outcome,          \* Outcome[k]: statuses createObject(k) may return with a new value
    Policies,         \* arguments that setEvictionPolicy() is called with
    MaxEvict,         \* MAX_EVICT_ITERATIONS
    MaxGets           \* bound: calls of get() per thread

Key == 1..NKey
Value == Obj \cup {NoValue}
Status == {"ZERO", "WARNING", "FAILURE"}
Entry == [val : Value, st : Status, master : BOOLEAN]

ASSUME CacheAssumption ==
    /\ NKey \in Nat \ {0}
    /\ NoValue \notin Obj /\ Null \notin Value \cup Key \cup Thread \cup Entry
    /\ Alias \in [Key -> Key \cup {Null}]
    /\ Outcome \in [Key -> SUBSET {"ZERO", "WARNING"}]
    /\ Policies # {} /\ Policies \subseteq [unused : Nat, pct : Nat]
    /\ MaxEvict \in Nat \ {0} /\ MaxGets \in Nat

ASSUME FiniteAssumption == IsFiniteSet(Thread) /\ IsFiniteSet(Obj)

VARIABLES
    mutex,            \* owner of gCacheMutex, or Null
    table,            \* fHashtable: entry of each key, or Null
    evictPos,         \* fEvictPos; 0 is UHASH_FIRST
    itemsInUse,       \* fItemsInUseCount
    policy,           \* fMaxUnused and fMaxPercentageOfInUse
    total, hard, soft,\* reference counts of every SharedObject: totalRefCount,
                      \* hardRefCount and softRefCount
    live,             \* the objects that are allocated
    cached,           \* the objects whose cachePtr is set
    pc, job, val, st, \* per thread: where it is, keys being fetched (innermost
                      \* last), and the value and status in hand
    zero, gone,       \* threads whose removeRef() has decrementItemsInUse set,
                      \* and allReferencesGone
    left, iter,       \* loop variables of the mutex owner
    ptr,              \* ptr[t][k]: what client t got for key k and still owns
    budget,           \* calls of get() that each client still makes
    raced             \* some removeRef() has used an object already deleted

cacheVars == <<table, evictPos, itemsInUse, policy>>
objVars == <<total, hard, soft, live, cached>>
locals == <<job, val, st, zero, gone>>
loop == <<left, iter>>
client == <<ptr, budget>>
vars == <<mutex, cacheVars, objVars, pc, locals, loop, client, raced>>

-----------------------------------------------------------------------------
(* SharedObject: the counts that an operation on object o changes. *)

inc(counts, o) == [counts EXCEPT ![o] = @ + 1]
dec(counts, o) == [counts EXCEPT ![o] = @ - 1]

addRef(o) ==
    /\ total' = inc(total, o) /\ hard' = inc(hard, o)
    /\ UNCHANGED <<soft, live, cached>>

addSoftRef(o) ==
    /\ total' = inc(total, o) /\ soft' = inc(soft, o)
    /\ UNCHANGED <<hard, live, cached>>

(* The object goes with its last reference. *)
removeSoftRef(o) ==
    /\ total' = dec(total, o) /\ soft' = dec(soft, o)
    /\ live' = IF total[o] = 1 THEN live \ {o} ELSE live
    /\ UNCHANGED <<hard, cached>>

-----------------------------------------------------------------------------
(* UnifiedCache: what the code computes from the table. *)

Stored(tab) == {k \in Key : tab[k] # Null}
count(tab) == Cardinality(Stored(tab))

Marker == [val |-> NoValue, st |-> "ZERO", master |-> FALSE]

inProgress(e) == e.val = NoValue /\ e.st = "ZERO"

(* Mutant: in-progress entries may be evicted. *)
isEvictableInProgress(e) == ~e.master \/ (soft[e.val] = 1 /\ hard[e.val] = 0)

(* Mutant: a value that clients hold may be evicted. *)
isEvictableInUse(e) == ~inProgress(e)

isEvictable(e) ==
    /\ ~inProgress(e)
    /\ ~e.master \/ (soft[e.val] = 1 /\ hard[e.val] = 0)

(* The next stored key after fEvictPos, round robin; NULL if there is none *)
nextElement ==
    LET after == {k \in Stored(table) : k > evictPos}
        among == IF after = {} THEN Stored(table) ELSE after
    IN  IF among = {} THEN Null
        ELSE CHOOSE k \in among : \A j \in among : k <= j

countOfItemsToEvict(tab, inUse) ==
    LET byPct == (inUse * policy.pct) \div 100
    IN  count(tab) - inUse - (IF policy.unused < byPct THEN byPct ELSE policy.unused)

(* Takes the eviction slice's early return, or enters its loop with the    *)
(* mutex held.  The threads are at pcs; "next" is where t goes on once it  *)
(* has unlocked.                                                           *)
runEvictionSlice(t, tab, inUse, pcs, slicePc, next) ==
    LET n == countOfItemsToEvict(tab, inUse)
    IN  IF n <= 0
        THEN /\ pc' = [pcs EXCEPT ![t] = next]
             /\ mutex' = Null
             /\ UNCHANGED loop
        ELSE /\ pc' = [pcs EXCEPT ![t] = slicePc]
             /\ mutex' = t
             /\ left' = n /\ iter' = 0

Lockable == mutex = Null
CurrentKey(t) == job[t][Len(job[t])]

(* cacheInit(): a soft reference of its own keeps gNoValue alive. *)
initialRefs == [o \in Value |-> IF o = NoValue THEN 1 ELSE 0]

Init ==
    /\ mutex = Null
    /\ table = [k \in Key |-> Null]
    /\ evictPos = 0
    /\ itemsInUse = 0
    /\ policy \in Policies
    /\ total = initialRefs /\ soft = initialRefs
    /\ hard = [o \in Value |-> 0]
    /\ live = {NoValue} /\ cached = {}
    /\ pc = [t \in Thread |-> "idle"]
    /\ job = [t \in Thread |-> <<>>]
    /\ val = [t \in Thread |-> Null]
    /\ st = [t \in Thread |-> "ZERO"]
    /\ zero = {} /\ gone = {}
    /\ left = 0 /\ iter = 0
    /\ ptr = [t \in Thread |-> [k \in Key |-> Null]]
    /\ budget = [t \in Thread |-> MaxGets]
    /\ raced = FALSE

-----------------------------------------------------------------------------
(* get(): fetch from the cache, or create. *)

Get(t, k) ==
    /\ pc[t] = "idle" /\ ptr[t][k] = Null /\ budget[t] > 0
    /\ budget' = [budget EXCEPT ![t] = @ - 1]
    /\ job' = [job EXCEPT ![t] = <<k>>]
    /\ pc' = [pc EXCEPT ![t] = "poll"]
    /\ UNCHANGED <<mutex, cacheVars, objVars, val, st, zero, gone, loop, ptr, raced>>

(* _poll(), the key is stored: _fetch() its value and status.  The hard    *)
(* count may go from 0 to 1 here, which puts the item in use again.  (The  *)
(* test _inProgress(element) takes a reference of its own and drops it     *)
(* again under the same lock; a removeRef() that meets it leaves its       *)
(* decrement of fItemsInUseCount to it, with the same sum.)                *)
PollFetch(t) ==
    LET e == table[CurrentKey(t)]
    IN  /\ pc[t] = "poll" /\ Lockable
        /\ e # Null /\ ~inProgress(e)
        /\ addRef(e.val)
        /\ itemsInUse' = IF hard[e.val] = 0 /\ e.val \in cached
                         THEN itemsInUse + 1 ELSE itemsInUse
        /\ val' = [val EXCEPT ![t] = e.val]
        /\ st' = [st EXCEPT ![t] = e.st]
        /\ pc' = [pc EXCEPT ![t] = IF e.val = NoValue THEN "decHard" ELSE "return"]
        /\ UNCHANGED <<mutex, table, evictPos, policy, job, zero, gone, loop, client, raced>>

(* _poll(), another thread is creating the value: wait for it. *)
PollWait(t) ==
    LET e == table[CurrentKey(t)]
    IN  /\ pc[t] = "poll" /\ Lockable
        /\ e # Null /\ inProgress(e)
        /\ pc' = [pc EXCEPT ![t] = "wait"]
        /\ UNCHANGED <<mutex, cacheVars, objVars, locals, loop, client, raced>>

(* _poll(), the key is absent: mark it in progress and create the value.   *)
PollMiss(t) ==
    LET k == CurrentKey(t)
    IN  /\ pc[t] = "poll" /\ Lockable /\ table[k] = Null
        /\ table' = [table EXCEPT ![k] = Marker]
        /\ addSoftRef(NoValue)
        /\ pc' = [pc EXCEPT ![t] = "create"]
        /\ UNCHANGED <<mutex, evictPos, itemsInUse, policy, locals, loop, client, raced>>

(* _poll(), the marker cannot be stored (memory): get() fails. *)
PollMissFails(t) ==
    /\ pc[t] = "poll" /\ Lockable /\ table[CurrentKey(t)] = Null
    /\ st' = [st EXCEPT ![t] = "FAILURE"]
    /\ pc' = [pc EXCEPT ![t] = "return"]
    /\ UNCHANGED <<mutex, cacheVars, objVars, job, val, zero, gone, loop, client, raced>>

(* umtx_condWait() may return without a broadcast. *)
SpuriousWakeup(t) ==
    /\ pc[t] = "wait"
    /\ pc' = [pc EXCEPT ![t] = "poll"]
    /\ UNCHANGED <<mutex, cacheVars, objVars, locals, loop, client, raced>>

(* createObject() of a key whose value is that of another key, got from    *)
(* the cache in turn.                                                      *)
CreateAlias(t) ==
    LET k == CurrentKey(t)
    IN  /\ pc[t] = "create" /\ Alias[k] # Null
        /\ job' = [job EXCEPT ![t] = Append(@, Alias[k])]
        /\ pc' = [pc EXCEPT ![t] = "poll"]
        /\ UNCHANGED <<mutex, cacheVars, objVars, val, st, zero, gone, loop, client, raced>>

(* createObject() returns a new object with one hard reference.  An        *)
(* address is reused once nobody is still working on the object there.     *)
CreateNew(t) ==
    /\ pc[t] = "create" /\ Alias[CurrentKey(t)] = Null
    /\ \E s \in Outcome[CurrentKey(t)], o \in Obj :
        /\ o \notin live /\ \A u \in Thread : val[u] # o
        /\ total' = [total EXCEPT ![o] = 1] /\ hard' = [hard EXCEPT ![o] = 1]
        /\ soft' = [soft EXCEPT ![o] = 0]
        /\ live' = live \cup {o} /\ cached' = cached \ {o}
        /\ val' = [val EXCEPT ![t] = o]
        /\ st' = [st EXCEPT ![t] = s]
    /\ pc' = [pc EXCEPT ![t] = "put"]
    /\ UNCHANGED <<mutex, cacheVars, job, zero, gone, loop, client, raced>>

(* createObject() returns NULL and an error; _get() puts gNoValue instead. *)
CreateFails(t) ==
    /\ pc[t] = "create" /\ Alias[CurrentKey(t)] = Null
    /\ addRef(NoValue)
    /\ val' = [val EXCEPT ![t] = NoValue]
    /\ st' = [st EXCEPT ![t] = "FAILURE"]
    /\ pc' = [pc EXCEPT ![t] = "put"]
    /\ UNCHANGED <<mutex, cacheVars, job, zero, gone, loop, client, raced>>

AfterPut(t) == IF val[t] = NoValue THEN "decHard" ELSE "return"

(* Mutant: _put() does not broadcast. *)
PutWithoutBroadcast(t) ==
    LET k == CurrentKey(t)
        v == val[t]
        isNew == soft[v] = 0
    IN  /\ pc[t] = "put" /\ Lockable
        /\ table' = [table EXCEPT ![k] = [val |-> v, st |-> st[t], master |-> isNew]]
        /\ itemsInUse' = IF isNew THEN itemsInUse + 1 ELSE itemsInUse
        /\ total' = dec(inc(total, v), NoValue) /\ soft' = dec(inc(soft, v), NoValue)
        /\ cached' = IF isNew THEN cached \cup {v} ELSE cached
        /\ runEvictionSlice(t, table', itemsInUse', pc, "putSlice", AfterPut(t))
        /\ UNCHANGED <<evictPos, policy, hard, live, locals, client, raced>>

(* _putIfAbsentAndGet(): store the value and its status over the marker,   *)
(* registering a value that is not cached yet (_registerMaster), broadcast *)
(* to the waiting threads and run an eviction slice.  That the entry is    *)
(* never one that somebody else completed is CreatorOwnsMarker below.      *)
PutIfAbsentAndGet(t) ==
    LET k == CurrentKey(t)
        e == table[k]
        v == val[t]
        isNew == soft[v] = 0
        drop(counts) == IF e = Null THEN counts ELSE dec(counts, NoValue)
        woken == [u \in Thread |-> IF pc[u] = "wait" THEN "poll" ELSE pc[u]]
    IN  /\ pc[t] = "put" /\ Lockable
        /\ e = Null \/ inProgress(e)
        /\ table' = [table EXCEPT ![k] = [val |-> v, st |-> st[t], master |-> isNew]]
        /\ itemsInUse' = IF isNew THEN itemsInUse + 1 ELSE itemsInUse
        /\ total' = drop(inc(total, v)) /\ soft' = drop(inc(soft, v))
        /\ live' = IF total'[NoValue] = 0 THEN live \ {NoValue} ELSE live
        /\ cached' = IF isNew THEN cached \cup {v} ELSE cached
        /\ runEvictionSlice(t, table', itemsInUse', IF e = Null THEN pc ELSE woken,
                            "putSlice", AfterPut(t))
        /\ UNCHANGED <<evictPos, policy, hard, locals, client, raced>>

(* The end of get(): copyPtr() and clearPtr() of one object, so that the   *)
(* reference in hand becomes the client's.  Of a failure nothing is left.  *)
Return(t) ==
    /\ pc[t] = "return" /\ Len(job[t]) = 1
    /\ ptr' = [ptr EXCEPT ![t][CurrentKey(t)] = val[t]]
    /\ val' = [val EXCEPT ![t] = Null]
    /\ job' = [job EXCEPT ![t] = <<>>]
    /\ st' = [st EXCEPT ![t] = "ZERO"]
    /\ pc' = [pc EXCEPT ![t] = "idle"]
    /\ UNCHANGED <<mutex, cacheVars, objVars, zero, gone, loop, budget, raced>>

(* Mutant: the gNoValue that is put for a failure is not counted. *)
ReturnToCreateUncounted(t) ==
    /\ pc[t] = "return" /\ Len(job[t]) > 1
    /\ job' = [job EXCEPT ![t] = SubSeq(@, 1, Len(@) - 1)]
    /\ val' = [val EXCEPT ![t] = IF st[t] = "FAILURE" THEN NoValue ELSE @]
    /\ pc' = [pc EXCEPT ![t] = "put"]
    /\ UNCHANGED <<mutex, cacheVars, objVars, st, zero, gone, loop, client, raced>>

(* The get() that createObject() called returns to it, and createObject()  *)
(* returns what it got, or NULL, for which _get() puts gNoValue.           *)
ReturnToCreate(t) ==
    /\ pc[t] = "return" /\ Len(job[t]) > 1
    /\ job' = [job EXCEPT ![t] = SubSeq(@, 1, Len(@) - 1)]
    /\ val' = [val EXCEPT ![t] = IF st[t] = "FAILURE" THEN NoValue ELSE @]
    /\ IF st[t] = "FAILURE" THEN addRef(NoValue) ELSE UNCHANGED objVars
    /\ pc' = [pc EXCEPT ![t] = "put"]
    /\ UNCHANGED <<mutex, cacheVars, st, zero, gone, loop, client, raced>>

-----------------------------------------------------------------------------
(* addRef() and removeRef() by clients. *)

(* A client adds a reference and hands it to another thread.  The counts   *)
(* are at least 1, so nothing depends on the order of the two increments.  *)
Share(t, u, k) ==
    /\ pc[t] = "idle" /\ pc[u] = "idle"
    /\ ptr[t][k] # Null /\ ptr[u][k] = Null
    /\ addRef(ptr[t][k])
    /\ ptr' = [ptr EXCEPT ![u][k] = ptr[t][k]]
    /\ UNCHANGED <<mutex, cacheVars, pc, locals, loop, budget, raced>>

(* A client is done with a value and calls removeRef(). *)
Release(t, k) ==
    /\ pc[t] = "idle" /\ ptr[t][k] # Null
    /\ val' = [val EXCEPT ![t] = ptr[t][k]]
    /\ ptr' = [ptr EXCEPT ![t][k] = Null]
    /\ pc' = [pc EXCEPT ![t] = "decHard"]
    /\ UNCHANGED <<mutex, cacheVars, objVars, job, st, zero, gone, loop, budget, raced>>

(* Mutant: every removeRef() counts the item out of use. *)
DecHardAlways(t) ==
    /\ pc[t] = "decHard"
    /\ hard' = dec(hard, val[t])
    /\ zero' = zero \cup {t}
    /\ pc' = [pc EXCEPT ![t] = "decTotal"]
    /\ UNCHANGED <<mutex, cacheVars, total, soft, live, cached, job, val, st, gone, loop, client, raced>>

DecHard(t) ==
    /\ pc[t] = "decHard"
    /\ hard' = dec(hard, val[t])
    /\ zero' = IF hard[val[t]] = 1 THEN zero \cup {t} ELSE zero
    /\ pc' = [pc EXCEPT ![t] = "decTotal"]
    /\ UNCHANGED <<mutex, cacheVars, total, soft, live, cached, job, val, st, gone, loop, client, raced>>

DecTotal(t) ==
    /\ pc[t] = "decTotal"
    /\ total' = dec(total, val[t])
    /\ gone' = IF total[val[t]] = 1 THEN gone \cup {t} ELSE gone
    /\ pc' = [pc EXCEPT ![t] = "readCache"]
    /\ UNCHANGED <<mutex, cacheVars, hard, soft, live, cached, job, val, st, zero, loop, client, raced>>

(* removeRef() tests cachePtr.  The last hard reference may be the one     *)
(* that kept the object from eviction: by now the object may be deleted,   *)
(* and the field then reads as anything.                                   *)
ReadCachePtr(t) ==
    LET deleted == t \in zero /\ val[t] \notin live
        cachePtr == IF deleted THEN BOOLEAN ELSE {val[t] \in cached}
    IN  /\ pc[t] = "readCache"
        /\ \E isSet \in cachePtr :
              pc' = [pc EXCEPT ![t] = IF t \in zero /\ isSet THEN "lockDec" ELSE "delete"]
        /\ raced' = (raced \/ deleted)
        /\ UNCHANGED <<mutex, cacheVars, objVars, locals, loop, client>>

(* decrementItemsInUseWithLockingAndEviction() *)
DecrementItemsInUse(t) ==
    /\ pc[t] = "lockDec" /\ Lockable
    /\ itemsInUse' = itemsInUse - 1
    /\ runEvictionSlice(t, table, itemsInUse', pc, "relSlice", "delete")
    /\ UNCHANGED <<table, evictPos, policy, objVars, locals, client, raced>>

(* The end of removeRef(): delete the object if this was its last reference *)
Delete(t) ==
    /\ pc[t] = "delete"
    /\ live' = IF t \in gone THEN live \ {val[t]} ELSE live
    /\ val' = [val EXCEPT ![t] = Null]
    /\ zero' = zero \ {t} /\ gone' = gone \ {t}
    /\ pc' = [pc EXCEPT ![t] = IF job[t] = <<>> THEN "idle" ELSE "return"]
    /\ UNCHANGED <<mutex, cacheVars, total, hard, soft, cached, job, st, loop, client, raced>>

-----------------------------------------------------------------------------
(* Eviction: the loops that run with the mutex held, one element a step. *)

(* Looks at the next element; drops it and its soft reference if "drop".   *)
visitElement(drop) ==
    LET k == nextElement
    IN  /\ evictPos' = IF k = Null THEN 0 ELSE k
        /\ IF drop
           THEN /\ table' = [table EXCEPT ![k] = Null]
                /\ removeSoftRef(table[k].val)
           ELSE UNCHANGED <<table, objVars>>

(* Mutant: a slice always runs its MAX_EVICT_ITERATIONS. *)
SliceStepOn(t) ==
    LET evict == isEvictable(table[nextElement])
        next == IF pc[t] = "putSlice" THEN AfterPut(t) ELSE "delete"
    IN  /\ pc[t] \in {"putSlice", "relSlice"} /\ Stored(table) # {}
        /\ visitElement(evict)
        /\ IF iter + 1 = MaxEvict
           THEN /\ mutex' = Null
                /\ left' = 0 /\ iter' = 0
                /\ pc' = [pc EXCEPT ![t] = next]
           ELSE /\ iter' = iter + 1
                /\ UNCHANGED <<mutex, left, pc>>
        /\ UNCHANGED <<itemsInUse, policy, locals, client, raced>>

SliceStep(t) ==
    LET evict == isEvictable(table[nextElement])
        next == IF pc[t] = "putSlice" THEN AfterPut(t) ELSE "delete"
    IN  /\ pc[t] \in {"putSlice", "relSlice"}
        /\ visitElement(evict)
        /\ IF iter + 1 = MaxEvict \/ (evict /\ left = 1)
           THEN /\ mutex' = Null
                /\ left' = 0 /\ iter' = 0
                /\ pc' = [pc EXCEPT ![t] = next]
           ELSE /\ left' = IF evict THEN left - 1 ELSE left
                /\ iter' = iter + 1
                /\ UNCHANGED <<mutex, pc>>
        /\ UNCHANGED <<itemsInUse, policy, locals, client, raced>>

(* flush(): passes over the whole table until one removes nothing.  "left" *)
(* counts the elements left in the pass, "iter" those it has removed.      *)
Flush(t) ==
    /\ pc[t] = "idle" /\ Lockable /\ count(table) > 0
    /\ mutex' = t
    /\ left' = count(table) /\ iter' = 0
    /\ pc' = [pc EXCEPT ![t] = "flush"]
    /\ UNCHANGED <<cacheVars, objVars, locals, client, raced>>

FlushStep(t) ==
    LET evict == isEvictable(table[nextElement])
    IN  /\ pc[t] = "flush" /\ left > 0
        /\ visitElement(evict)
        /\ left' = left - 1
        /\ iter' = IF evict THEN iter + 1 ELSE iter
        /\ UNCHANGED <<mutex, itemsInUse, policy, pc, locals, client, raced>>

(* Mutant: flush() makes a single pass. *)
FlushOnePass(t) ==
    /\ pc[t] = "flush" /\ left = 0
    /\ mutex' = Null
    /\ pc' = [pc EXCEPT ![t] = "idle"]
    /\ iter' = 0
    /\ UNCHANGED <<cacheVars, objVars, locals, left, client, raced>>

FlushPassEnd(t) ==
    /\ pc[t] = "flush" /\ left = 0
    /\ IF iter = 0
       THEN /\ mutex' = Null
            /\ pc' = [pc EXCEPT ![t] = "idle"]
            /\ UNCHANGED loop
       ELSE /\ left' = count(table) /\ iter' = 0
            /\ UNCHANGED <<mutex, pc>>
    /\ UNCHANGED <<cacheVars, objVars, locals, client, raced>>

SetEvictionPolicy(t, p) ==
    /\ pc[t] = "idle" /\ Lockable
    /\ policy' = p
    /\ UNCHANGED <<mutex, table, evictPos, itemsInUse, objVars, pc, locals, loop, client, raced>>

(* unifiedcache_cleanup() and ~UnifiedCache(), called by u_cleanup() when  *)
(* no client holds a reference any more, then a new cacheInit().           *)
Cleanup ==
    LET entriesOf(o) == Cardinality({k \in Stored(table) : table[k].val = o})
    IN  /\ \A t \in Thread : pc[t] = "idle" /\ \A k \in Key : ptr[t][k] = Null
        /\ count(table) > 0
        /\ table' = [k \in Key |-> Null]
        /\ total' = [o \in Value |-> IF o = NoValue THEN 1 ELSE total[o] - entriesOf(o)]
        /\ soft' = [o \in Value |-> IF o = NoValue THEN 1 ELSE soft[o] - entriesOf(o)]
        /\ hard' = [hard EXCEPT ![NoValue] = 0]
        /\ live' = {o \in live : total'[o] # 0} /\ cached' = cached \ {NoValue}
        /\ evictPos' = 0 /\ itemsInUse' = 0 /\ policy' \in Policies
        /\ UNCHANGED <<mutex, pc, locals, loop, client, raced>>

ThreadStep(t) ==
    \/ \E k \in Key : Get(t, k) \/ Release(t, k)
    \/ \E u \in Thread, k \in Key : Share(t, u, k)
    \/ PollFetch(t) \/ PollWait(t) \/ PollMiss(t) \/ PollMissFails(t)
    \/ SpuriousWakeup(t)
    \/ CreateAlias(t) \/ CreateNew(t) \/ CreateFails(t)
    \/ PutIfAbsentAndGet(t) \/ Return(t) \/ ReturnToCreate(t)
    \/ DecHard(t) \/ DecTotal(t) \/ ReadCachePtr(t)
    \/ DecrementItemsInUse(t) \/ Delete(t)
    \/ SliceStep(t) \/ Flush(t) \/ FlushStep(t) \/ FlushPassEnd(t)
    \/ \E p \in Policies : SetEvictionPolicy(t, p)

Next == Cleanup \/ \E t \in Thread : ThreadStep(t)

Spec == Init /\ [][Next]_vars

(* A call under way goes on: a thread is scheduled again, and the platform *)
(* mutex does not pass one thread over for ever.  Nothing makes a client   *)
(* begin a call or release a value.                                        *)
Lockers(t) ==
    \/ PollFetch(t) \/ PollWait(t) \/ PollMiss(t)
    \/ PutIfAbsentAndGet(t) \/ DecrementItemsInUse(t)

Runners(t) ==
    \/ CreateAlias(t) \/ CreateNew(t) \/ CreateFails(t)
    \/ Return(t) \/ ReturnToCreate(t)
    \/ DecHard(t) \/ DecTotal(t) \/ ReadCachePtr(t) \/ Delete(t)
    \/ SliceStep(t) \/ FlushStep(t) \/ FlushPassEnd(t)

FairSpec == Spec /\ \A t \in Thread : SF_vars(Lockers(t)) /\ WF_vars(Runners(t))

-----------------------------------------------------------------------------
(* Properties *)

Pc == {"idle", "poll", "wait", "create", "put", "putSlice", "return",
       "decHard", "decTotal", "readCache", "lockDec", "relSlice", "delete",
       "flush"}

(* Every variable has the type of the field or local it stands for. *)
TypeOK ==
    /\ mutex \in Thread \cup {Null}
    /\ table \in [Key -> Entry \cup {Null}]
    /\ evictPos \in 0..NKey
    /\ itemsInUse \in Int
    /\ policy \in Policies
    /\ total \in [Value -> Int] /\ hard \in [Value -> Int] /\ soft \in [Value -> Int]
    /\ live \subseteq Value /\ cached \subseteq Value
    /\ pc \in [Thread -> Pc]
    /\ job \in [Thread -> Seq(Key)]
    /\ val \in [Thread -> Value \cup {Null}]
    /\ st \in [Thread -> Status]
    /\ zero \subseteq Thread /\ gone \subseteq Thread
    /\ left \in Int /\ iter \in Int
    /\ ptr \in [Thread -> [Key -> Obj \cup {Null}]]
    /\ budget \in [Thread -> Nat]
    /\ raced \in BOOLEAN

(* Thread t is between the _poll() that marked the i-th key of its job and *)
(* the _putIfAbsentAndGet() that completes it.                             *)
Creating(t, i) ==
    /\ i \in 1..Len(job[t])
    /\ i < Len(job[t]) \/ pc[t] \in {"create", "put"}

(* An in-progress entry belongs to exactly one createObject() under way,   *)
(* and stays in the table, untouched by eviction, flush() and other        *)
(* callers, until that creator replaces it: _putIfAbsentAndGet() always    *)
(* finds its own marker (U_ASSERT(_inProgress(element)) in _put).          *)
CreatorOwnsMarker ==
    /\ \A t \in Thread : \A i \in 1..Len(job[t]) :
          Creating(t, i) => /\ table[job[t][i]] # Null
                            /\ inProgress(table[job[t][i]])
    /\ \A t, u \in Thread : \A i \in 1..Len(job[t]), j \in 1..Len(job[u]) :
          /\ Creating(t, i) /\ Creating(u, j)
          /\ job[t][i] = job[u][j]
          => t = u /\ i = j

(* No marker is left behind: whoever waits for it waits for somebody. *)
MarkerHasCreator ==
    \A k \in Key : table[k] # Null /\ inProgress(table[k]) =>
        \E t \in Thread : \E i \in 1..Len(job[t]) : Creating(t, i) /\ job[t][i] = k

(* The references there are: pointers of clients, values in the hands of a *)
(* get() or about to be given up by removeRef(), and hash elements.        *)
ClientRefs(o) == Cardinality({tk \in Thread \X Key : ptr[tk[1]][tk[2]] = o})
InHand(o, pcs) == Cardinality({t \in Thread : val[t] = o /\ pc[t] \in pcs})
TableRefs(o) == Cardinality({k \in Stored(table) : table[k].val = o})

(* Each count of a SharedObject is exactly the number of references of its *)
(* kind, whatever the interleaving of addRef() and removeRef() with        *)
(* lookups, eviction and flush(); total lags hard only within removeRef(). *)
RefCountsExact ==
    \A o \in Value :
        /\ hard[o] = ClientRefs(o) + InHand(o, {"put", "putSlice", "return", "decHard"})
        /\ soft[o] = TableRefs(o) + (IF o = NoValue THEN 1 ELSE 0)
        /\ total[o] = hard[o] + soft[o] + InHand(o, {"decTotal"})

(* Nothing is deleted while a reference to it is counted, and nothing      *)
(* uncounted survives, except in a removeRef() that is about to delete it. *)
LiveIffReferenced ==
    \A o \in Value :
        o \in live <=> total[o] > 0 \/ \E t \in gone : val[t] = o

(* "Although items in use may not be correct immediately, it will be       *)
(* correct eventually": fItemsInUseCount is the number of registered       *)
(* objects with hard references plus the decrements that removeRef() calls *)
(* still owe.  A removeRef() that ran into a deleted object may have       *)
(* skipped its decrement; even then the count is never too low.            *)
ItemsInUseExact ==
    LET inUse == {o \in live \cap cached : hard[o] > 0}
        owing == {t \in zero : /\ pc[t] \in {"decTotal", "readCache", "lockDec"}
                               /\ val[t] \in cached}
        exact == Cardinality(inUse) + Cardinality(owing)
    IN  itemsInUse >= exact /\ (~raced => itemsInUse = exact)

(* The books of the cache agree, whatever the interleaving of addRef() and *)
(* removeRef() with lookups, eviction and flush(): each reference count is *)
(* the number of references, objects live as long as they have any, and    *)
(* fItemsInUseCount is the number of values in use plus what is owed to it.*)
CountsAgree == RefCountsExact /\ LiveIffReferenced /\ ItemsInUseExact

(* The keys whose createObject() a get() of k may reach, by way of aliases, *)
(* and the one of them that has a value of its own.                        *)
Reached(k) == {r \in Key : \A S \in SUBSET Key :
                  k \in S /\ (\A j \in S : Alias[j] # Null => Alias[j] \in S) => r \in S}
Ends(k) == {r \in Reached(k) : Alias[r] = Null}
Root == [k \in Key |-> CHOOSE r \in Ends(k) : TRUE]

(* unifiedcache.h: "for a given key X, the cache returns the same          *)
(* reference to the same value as long as the client already holds a       *)
(* reference to that value".  What a client holds for a key is still the   *)
(* master entry that a new get() of the key would end at.                  *)
SameReference ==
    \A t \in Thread, k \in Key :
        ptr[t][k] # Null =>
            LET e == table[Root[k]]
            IN  e # Null /\ e.val = ptr[t][k] /\ e.master

(* The loops over the table never run out of elements: _nextElement()      *)
(* returns NULL for an empty table and its callers do not test for it.     *)
LoopHasElement ==
    \A t \in Thread :
        pc[t] \in {"putSlice", "relSlice"} \/ (pc[t] = "flush" /\ left > 0)
            => Stored(table) # {}

(* setEvictionPolicy: eviction is triggered when the unused entries exceed *)
(* both limits and ceases when they drop to one of them: an entry that a   *)
(* slice evicts leaves at least that many unused ones.                     *)
EvictionCeasesAtLimit ==
    [][\A t \in Thread : pc[t] \in {"putSlice", "relSlice"} /\ table' # table /\ mutex = t
          => countOfItemsToEvict(table', itemsInUse) >= 0]_vars

(* flush() "removes any values from cache that are not referenced outside  *)
(* the cache": what a finished flush leaves is in progress, or the only    *)
(* entry of a value with a hard reference that was given up, if at all,    *)
(* while the last pass was running.                                        *)
FlushLeavesOnlyUsed ==
    [][\A t \in Thread : pc[t] = "flush" /\ pc'[t] = "idle" =>
          \A k \in Stored(table) : inProgress(table[k]) \/
              LET o == table[k].val
              IN  /\ table[k].master /\ soft[o] = 1
                  /\ \/ hard[o] > 0
                     \/ \E u \in Thread : /\ val[u] = o
                                          /\ pc[u] \in {"decTotal", "readCache", "lockDec"}]_vars

(* sharedobject.h says of removeRef(): "Decrements the number of           *)
(* references to this object. Thread-safe."  No call touches an object     *)
(* that another thread has deleted in the meantime.                        *)
RemoveRefThreadSafe == ~raced

(* Every call of get(), removeRef() and flush() returns: no wakeup is lost *)
(* and nobody waits for a value that nobody creates.                       *)
CallsReturn == \A t \in Thread : pc[t] # "idle" ~> pc[t] = "idle"
=============================================================================
