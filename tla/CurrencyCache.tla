--------------------------- MODULE CurrencyCache ---------------------------
(***************************************************************************)
(* The shared state of ucurr.cpp: the cache of currency names that         *)
(* uprv_parseCurrency() keeps, with a reference count in every entry; the  *)
(* list of registered currencies; the two tables that are built once; and  *)
(* the cleanup of all of them, which hangs on one function pointer.        *)
(* A section under gCurrencyCacheMutex or gCRegLock is one step; collecting *)
(* the names, searching them and copying a code happen outside of them.    *)
(***************************************************************************)
EXTENDS Integers, FiniteSets, Sequences

CONSTANTS Thread, Locale,
          Entry,                      \* addresses of CurrencyNameCacheEntry
          Reg, Id,                    \* addresses of CReg, and their ids
          CURRENCY_NAME_CACHE_NUM,
          Failing,                    \* which of {"collect", "malloc"} may fail
          Calls,                      \* the functions that clients call
          MaxArrays,                  \* bound on allocated pairs of arrays
          NULL

ASSUME CacheHasSlots == CURRENCY_NAME_CACHE_NUM \in Nat \ {0}
ASSUME ThreadsAreFinite == IsFiniteSet(Thread)
ASSUME NullIsNothing == NULL \notin Entry \cup {"currency_cleanup", "currency_cache_cleanup"}

VARIABLES currCache, currentCacheEntryIndex,
          heap,                       \* allocated entries
          locale, refCount,           \* their members
          arrays,                     \* allocated pairs of name arrays
          pc, arg, cacheEntry,        \* of each thread
          gCReg,                      \* the list from gCRegHead on
          result,                     \* the CReg whose iso a thread copies
          tables, tried,              \* built by umtx_initOnce, and attempted
          cleanup                     \* registered for UCLN_COMMON_CURRENCY

cacheVars == <<currCache, currentCacheEntryIndex, heap, locale, refCount, arrays>>
threadVars == <<pc, arg, cacheEntry>>
regVars == <<gCReg, result>>
tableVars == <<tables, tried>>
vars == <<cacheVars, threadVars, regVars, tableVars, cleanup>>

Slot == 0 .. CURRENCY_NAME_CACHE_NUM - 1
Table == {"isoCodes", "symbolsEquiv"}
Empty == [i \in Slot |-> NULL]

Init ==
  /\ currCache = Empty /\ currentCacheEntryIndex = 0
  /\ heap = {} /\ arrays = 0
  /\ locale = [e \in Entry |-> NULL]
  /\ refCount = [e \in Entry |-> 0]
  /\ pc = [t \in Thread |-> "idle"]
  /\ arg = [t \in Thread |-> NULL]
  /\ cacheEntry = [t \in Thread |-> NULL]
  /\ gCReg = <<>> /\ result = [t \in Thread |-> NULL]
  /\ tables = {} /\ tried = {} /\ cleanup = NULL

-----------------------------------------------------------------------------
(* uprv_parseCurrency                                                      *)

Cached(l) == {i \in Slot : currCache[i] # NULL /\ locale[currCache[i]] = l}
Caching(l) == currCache[CHOOSE i \in Cached(l) : \A j \in Cached(l) : i <= j]

Reference(t, e) ==
  /\ refCount' = [refCount EXCEPT ![e] = @ + 1]
  /\ cacheEntry' = [cacheEntry EXCEPT ![t] = e]
  /\ pc' = [pc EXCEPT ![t] = "search"]

lookup(t, l) ==
  /\ "parse" \in Calls /\ pc[t] = "idle"
  /\ arg' = [arg EXCEPT ![t] = l]
  /\ \/ /\ Cached(l) # {}
        /\ Reference(t, Caching(l))
     \/ /\ Cached(l) = {}
        /\ pc' = [pc EXCEPT ![t] = "collect"]
        /\ UNCHANGED <<refCount, cacheEntry>>
  /\ UNCHANGED <<currCache, currentCacheEntryIndex, heap, locale, arrays>>
  /\ UNCHANGED <<regVars, tableVars, cleanup>>

(* umtx_initOnce() of a table: it registers the cleanup, then builds.      *)
initTable(b) ==
  \/ b \in tried /\ UNCHANGED <<tableVars, cleanup>>
  \/ /\ b \notin tried
     /\ tried' = tried \cup {b}
     /\ cleanup' = "currency_cleanup"
     /\ \/ tables' = tables \cup {b}
        \/ "collect" \in Failing /\ UNCHANGED tables

(* Without memory the test for it is of the wrong pointers, and the names  *)
(* are written through NULL.                                               *)
collectCurrencyNames(t) ==
  /\ pc[t] = "collect" /\ arrays < MaxArrays
  /\ initTable("symbolsEquiv")
  /\ \/ arrays' = arrays + 1 /\ pc' = [pc EXCEPT ![t] = "insert"]
     \/ /\ "collect" \in Failing
        /\ arrays' = arrays + 1 /\ pc' = [pc EXCEPT ![t] = "idle"]
     \/ /\ "malloc" \in Failing
        /\ pc' = [pc EXCEPT ![t] = "crashed"] /\ UNCHANGED arrays
  /\ UNCHANGED <<currCache, currentCacheEntryIndex, heap, locale, refCount>>
  /\ UNCHANGED <<arg, cacheEntry, regVars>>

Evicted == currCache[currentCacheEntryIndex]
(* Mutations: the slot's reference is kept; the evicted entry is deleted   *)
(* in any case.                                                            *)
keepCount == refCount
deleteAll == {Evicted} \ {NULL}
refsWithoutSlot ==
  IF Evicted = NULL THEN refCount ELSE [refCount EXCEPT ![Evicted] = @ - 1]
Deleted == {e \in {Evicted} \ {NULL} : refsWithoutSlot[e] = 0}
nextIndex == (currentCacheEntryIndex + 1) % CURRENCY_NAME_CACHE_NUM

insertNew(t, e) ==
  /\ e \in Entry \ (heap \ Deleted)
  /\ heap' = (heap \ Deleted) \cup {e}
  /\ currCache' = [currCache EXCEPT ![currentCacheEntryIndex] = e]
  /\ locale' = [locale EXCEPT ![e] = arg[t]]
  /\ refCount' = [refsWithoutSlot EXCEPT ![e] = 2]
  /\ currentCacheEntryIndex' = nextIndex
  /\ arrays' = arrays - Cardinality(Deleted)
  /\ cacheEntry' = [cacheEntry EXCEPT ![t] = e]
  /\ pc' = [pc EXCEPT ![t] = "search"]
  /\ cleanup' = "currency_cache_cleanup"

insertFails(t) ==
  /\ "malloc" \in Failing
  /\ heap' = heap \ Deleted
  /\ currCache' = [currCache EXCEPT ![currentCacheEntryIndex] = NULL]
  /\ refCount' = refsWithoutSlot
  /\ arrays' = arrays - Cardinality(Deleted)
  /\ pc' = [pc EXCEPT ![t] = "crashed"]
  /\ UNCHANGED <<locale, currentCacheEntryIndex, cacheEntry, cleanup>>

insertFound(t) ==
  /\ Reference(t, Caching(arg[t]))
  /\ arrays' = arrays - 1
  /\ UNCHANGED <<currCache, currentCacheEntryIndex, heap, locale, cleanup>>

insert(t) ==
  /\ pc[t] = "insert"
  /\ \/ /\ Cached(arg[t]) = {}
        /\ (\E e \in Entry : insertNew(t, e)) \/ insertFails(t)
     \/ Cached(arg[t]) # {} /\ insertFound(t)
  /\ UNCHANGED <<arg, regVars, tableVars>>

(* Searching reads the names of the entry, without the lock, up to here.   *)
release(t) ==
  LET e == cacheEntry[t] IN
  /\ pc[t] = "search"
  /\ refCount' = [refCount EXCEPT ![e] = @ - 1]
  /\ \/ refCount[e] = 1 /\ heap' = heap \ {e} /\ arrays' = arrays - 1
     \/ refCount[e] # 1 /\ UNCHANGED <<heap, arrays>>
  /\ pc' = [pc EXCEPT ![t] = "idle"]
  /\ cacheEntry' = [cacheEntry EXCEPT ![t] = NULL]
  /\ arg' = [arg EXCEPT ![t] = NULL]
  /\ UNCHANGED <<currCache, currentCacheEntryIndex, locale>>
  /\ UNCHANGED <<regVars, tableVars, cleanup>>

-----------------------------------------------------------------------------
(* CReg, and the functions that use the tables.                            *)

Node(n, i) == [node |-> n, id |-> i]
Registered == {gCReg[k].node : k \in DOMAIN gCReg}

reg(t, n, i) ==
  /\ "register" \in Calls /\ pc[t] = "idle"
  /\ n \notin Registered
  /\ cleanup' = IF gCReg = <<>> THEN "currency_cleanup" ELSE cleanup
  /\ gCReg' = <<Node(n, i)>> \o gCReg
  /\ UNCHANGED <<cacheVars, threadVars, result, tableVars>>

unreg(t, n) ==
  /\ "unregister" \in Calls /\ pc[t] = "idle"
  /\ n \in Registered
  /\ gCReg' = SelectSeq(gCReg, LAMBDA x : x.node # n)
  /\ UNCHANGED <<cacheVars, threadVars, result, tableVars, cleanup>>

get(t, i) ==
  LET hits == {k \in DOMAIN gCReg : gCReg[k].id = i} IN
  /\ "forLocale" \in Calls /\ pc[t] = "idle"
  /\ cleanup' = "currency_cleanup"
  /\ \/ \E k \in hits : /\ \A j \in hits : k <= j
                        /\ result' = [result EXCEPT ![t] = gCReg[k].node]
                        /\ pc' = [pc EXCEPT ![t] = "copy"]
     \/ hits = {} /\ UNCHANGED <<result, pc>>
  /\ UNCHANGED <<cacheVars, arg, cacheEntry, gCReg, tableVars>>

copy(t) ==
  /\ pc[t] = "copy"
  /\ pc' = [pc EXCEPT ![t] = "idle"]
  /\ result' = [result EXCEPT ![t] = NULL]
  /\ UNCHANGED <<cacheVars, arg, cacheEntry, gCReg, tableVars, cleanup>>

ucurr_isAvailable(t) ==
  /\ "isAvailable" \in Calls /\ pc[t] = "idle"
  /\ initTable("isoCodes")
  /\ UNCHANGED <<cacheVars, threadVars, regVars>>

-----------------------------------------------------------------------------
InCache == {currCache[i] : i \in Slot} \ {NULL}

(* Mutation: the first slot is left out.                                   *)
cleanupKeepsFirst ==
  LET others == {currCache[i] : i \in Slot \ {0}} \ {NULL} IN
  /\ heap' = heap \ others
  /\ arrays' = arrays - Cardinality(others)
  /\ currCache' = [Empty EXCEPT ![0] = currCache[0]]
currency_cache_cleanup ==
  /\ heap' = heap \ InCache
  /\ arrays' = arrays - Cardinality(InCache)
  /\ currCache' = Empty

cleanRegistryAndTables ==
  /\ gCReg' = <<>> /\ tables' = {} /\ tried' = {}

(* u_cleanup() requires that no other thread uses the library.             *)
u_cleanup ==
  /\ "cleanup" \in Calls /\ \A t \in Thread : pc[t] = "idle"
  /\ cleanup' = NULL
  /\ \/ cleanup = NULL /\ UNCHANGED <<heap, arrays, currCache, gCReg, tableVars>>
     \/ cleanup # NULL /\ currency_cache_cleanup
        /\ \/ cleanup = "currency_cleanup" /\ cleanRegistryAndTables
           \/ cleanup # "currency_cleanup" /\ UNCHANGED <<gCReg, tableVars>>
  /\ UNCHANGED <<currentCacheEntryIndex, locale, refCount, threadVars, result>>

(* Writing through NULL ends the process.                                  *)
Running == \A t \in Thread : pc[t] # "crashed"

Next ==
  /\ Running
  /\ \/ \E t \in Thread :
          \/ \E l \in Locale : lookup(t, l)
          \/ collectCurrencyNames(t) \/ insert(t) \/ release(t)
          \/ \E n \in Reg : unreg(t, n) \/ \E i \in Id : reg(t, n, i)
          \/ (\E i \in Id : get(t, i)) \/ copy(t) \/ ucurr_isAvailable(t)
     \/ u_cleanup

Spec == Init /\ [][Next]_vars

-----------------------------------------------------------------------------
PC == {"idle", "collect", "insert", "search", "copy", "crashed"}

(* Type invariant of the variables of ucurr.cpp and of its callers.        *)
TypeOK ==
  /\ currCache \in [Slot -> Entry \cup {NULL}] /\ currentCacheEntryIndex \in Slot
  /\ heap \subseteq Entry
  /\ locale \in [Entry -> Locale \cup {NULL}] /\ refCount \in [Entry -> Int]
  /\ pc \in [Thread -> PC]
  /\ arg \in [Thread -> Locale \cup {NULL}]
  /\ cacheEntry \in [Thread -> Entry \cup {NULL}]

Slots(e) == {i \in Slot : currCache[i] = e}
Readers(e) == {t \in Thread : pc[t] = "search" /\ cacheEntry[t] = e}

(* An entry's reference count is one for the slot that holds it and one    *)
(* for every parser that reads it (the comment on refCount in              *)
(* CurrencyNameCacheEntry), whatever evictions happen in between.          *)
RefCountsExact ==
  \A e \in heap : refCount[e] = Cardinality(Slots(e)) + Cardinality(Readers(e))

(* No parser reads, and no slot holds, an entry that deleteCacheEntry() has *)
(* freed: eviction by another thread leaves it to the last reader.         *)
NothingDangles ==
  /\ \A t \in Thread : pc[t] = "search" => cacheEntry[t] \in heap
  /\ \A i \in Slot : currCache[i] \in heap \cup {NULL}

(* No CReg is deleted by unreg() between get() and the copying of its iso. *)
RegistrationsStay ==
  \A t \in Thread : pc[t] = "copy" => result[t] \in Registered

(* Every entry is in a slot or in use, and every pair of arrays belongs to *)
(* an entry or to the parser that is about to insert it: losing the race   *)
(* for the insertion, or being evicted while in use, loses no memory.      *)
NothingLeaks ==
  /\ \A e \in heap : Slots(e) # {} \/ Readers(e) # {}
  /\ arrays = Cardinality(heap) + Cardinality({t \in Thread : pc[t] = "insert"})

(* Two parsers of one locale that both miss the cache insert it once: the  *)
(* second search, under the lock, must see the first one's entry.          *)
OneEntryPerLocale ==
  \A i, j \in Slot : /\ currCache[i] # NULL /\ currCache[j] # NULL
                     /\ locale[currCache[i]] = locale[currCache[j]]
                     => i = j

(* Whatever the order of the calls, u_cleanup() frees every cached entry.  *)
CleanupFreesCache == [][u_cleanup => heap' = {}]_vars

(* u_cleanup() frees all memory that ucurr.cpp holds.                      *)
CleanupFreesAll ==
  [][u_cleanup => heap' = {} /\ arrays' = 0 /\ gCReg' = <<>> /\ tables' = {}]_vars

(* Without memory, the parser reports an error and writes through no NULL. *)
FailsCleanly == Running
=============================================================================
