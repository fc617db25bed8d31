---------------------------- MODULE TZNamesCache ----------------------------
(***************************************************************************)
(* The two caches of time zone names.  TimeZoneNames (tznames.cpp) and     *)
(* TimeZoneGenericNames (tzgnames.cpp) are handles: each refers to a       *)
(* counted entry of a table keyed by locale, and every SWEEP_INTERVAL-th   *)
(* creation frees the entries that nobody uses and nobody asked for        *)
(* lately.  The core of a generic entry owns a TimeZoneNames, so that the  *)
(* second cache is a client of the first.                                  *)
(* A section under gTimeZoneNamesLock is one step.  A creation of generic  *)
(* names holds gTZGNLock over two steps, the construction of the core      *)
(* (which takes gTimeZoneNamesLock in turn) and the rest.                  *)
(***************************************************************************)
EXTENDS Integers, FiniteSets, FiniteSetsExt

CONSTANTS Locale,
          Entry,            \* addresses of TimeZoneNamesCacheEntry, TZGNCoreRef
          Handle,           \* addresses of objects that clients hold
          SWEEP_INTERVAL,
          Failing,          \* which of Step may fail
          NULL, Garbage     \* Garbage: a pointer that was never assigned

Kind == {"names", "generic"}
Step == {"open", "data", "core", "put"}

NamesCacheAssumption ==
  /\ SWEEP_INTERVAL \in Nat \ {0}
  /\ IsFiniteSet(Handle) /\ IsFiniteSet(Entry)
  /\ {NULL, Garbage} \cap (Entry \cup Handle) = {} /\ NULL # Garbage
  /\ Failing \subseteq Step

VARIABLES cache,            \* the tables, entries and counters of both files
          handle,           \* what each Handle is: free, or a kind and its entry
          building,         \* the creation of generic names that holds gTZGNLock
          fault             \* the undefined behaviour that ended the process

vars == <<cache, handle, building, fault>>

Free == [kind |-> NULL, ref |-> NULL]
Lost == [kind |-> "lost", ref |-> NULL]  \* allocated, and nobody's
NoCache == [k \in Kind |-> [l \in Locale |-> NULL]]

Init ==
  /\ cache = [table |-> NoCache,
              opened |-> {},                         \* ...CacheInitialized
              heap |-> {},                           \* allocated entries
              refCount |-> [e \in Entry |-> 0],
              expired |-> {},                        \* not accessed for CACHE_EXPIRATION
              core |-> [e \in Entry |-> NULL],       \* obj->fTimeZoneNames's entry
              gAccessCount |-> [k \in Kind |-> 0]]
  /\ handle = [h \in Handle |-> Free]
  /\ building = NULL
  /\ fault = NULL

-----------------------------------------------------------------------------
(* The steps that both caches share, as functions of the cache c.          *)

Cached(c, k) == {c.table[k][l] : l \in Locale} \ {NULL}

(* A hit: the entry is counted and its lastAccess is set.                  *)
Referenced(c, e) == [c EXCEPT !.refCount[e] = @ + 1, !.expired = @ \ {e}]

Inserted(c, k, l, e, n) ==
  [c EXCEPT !.table[k][l] = e, !.heap = @ \cup {e}, !.refCount[e] = 1,
            !.expired = @ \ {e}, !.core[e] = n]

(* What destroying handles on the entries in the function's range does,    *)
(* one decrement for each of the d in D.                                   *)
Dereferenced(c, D, ref) ==
  [c EXCEPT !.refCount = [e \in Entry |-> c.refCount[e] - Cardinality({d \in D : ref[d] = e})]]

(* uhash_removeElement() deletes an entry; deleting a generic entry        *)
(* deletes its core, and the core its TimeZoneNames.                       *)
Deleted(c, k, E) ==
  LET d == IF k = "generic" THEN Dereferenced(c, E, c.core) ELSE c
  IN  [d EXCEPT !.table[k] = [l \in Locale |-> IF @[l] \in E THEN NULL ELSE @[l]],
                !.heap = @ \ E,
                !.expired = @ \ E,
                !.refCount = [e \in Entry |-> IF e \in E THEN 0 ELSE @[e]],
                !.core = [e \in Entry |-> IF e \in E THEN NULL ELSE @[e]]]

sweepCache(c, k) ==
  Deleted(c, k, {e \in Cached(c, k) : c.refCount[e] <= 0 /\ e \in c.expired})

(* Every path of a creation that got past the opening ends here.           *)
Accessed(c, k) ==
  LET n == c.gAccessCount[k] + 1
  IN  IF n >= SWEEP_INTERVAL
        THEN [sweepCache(c, k) EXCEPT !.gAccessCount[k] = 0]
        ELSE [c EXCEPT !.gAccessCount[k] = n]

Opened(c, k) == [c EXCEPT !.opened = @ \cup {k}]
MayFailToOpen(c, k) == "open" \in Failing /\ k \notin c.opened

-----------------------------------------------------------------------------
(* TimeZoneNames::createInstance: the caches and pointers it may leave.    *)
(* A put that fails has already deleted the key and the entry, which are   *)
(* then freed a second time.                                               *)

Outcome(c, r, f) == [cache |-> c, ref |-> r, fault |-> f]


namesHit(c, l) ==
  Outcome(Accessed(Referenced(c, c.table["names"][l]), "names"), c.table["names"][l], NULL)

namesMiss(c, l) ==
  {Outcome(Accessed(Inserted(c, "names", l, e, NULL), "names"), e, NULL) : e \in Entry \ c.heap}
    \cup {Outcome(Accessed(c, "names"), NULL, NULL) : f \in Failing \cap {"data"}}
    \cup {Outcome(c, NULL, "putTwice") : f \in Failing \cap {"put"}}

createNames(c, l) ==
  LET o == Opened(c, "names")
  IN  (IF o.table["names"][l] # NULL THEN {namesHit(o, l)} ELSE namesMiss(o, l))
        \cup (IF MayFailToOpen(c, "names") THEN {Outcome(c, Garbage, NULL)} ELSE {})

TimeZoneNames(h, l) ==
  /\ handle[h] = Free
  /\ \E o \in createNames(cache, l) :
       /\ cache' = o.cache
       /\ fault' = o.fault
       /\ handle' = [handle EXCEPT ![h] = [kind |-> "names", ref |-> o.ref]]
  /\ UNCHANGED building

-----------------------------------------------------------------------------
(* TimeZoneGenericNames::createInstance                                    *)

Generic(h, e) == [handle EXCEPT ![h] = [kind |-> "generic", ref |-> e]]

(* A table that cannot be opened ends the creation with NULL; the object   *)
(* that was allocated before stays behind.                                 *)
genericUnopened(h) ==
  /\ handle[h] = Free /\ building = NULL
  /\ MayFailToOpen(cache, "generic")
  /\ handle' = [handle EXCEPT ![h] = Lost]
  /\ UNCHANGED <<cache, building, fault>>

genericHit(h, l) ==
  LET o == Opened(cache, "generic")  e == o.table["generic"][l]
  IN  /\ handle[h] = Free /\ building = NULL
      /\ e # NULL
      /\ cache' = Accessed(Referenced(o, e), "generic")
      /\ handle' = Generic(h, e)
      /\ UNCHANGED <<building, fault>>

(* TZGNCore::initialize() begins by creating a TimeZoneNames.              *)
genericCore(h, l) ==
  LET o == Opened(cache, "generic")
  IN  /\ handle[h] = Free /\ building = NULL
      /\ o.table["generic"][l] = NULL
      /\ \E n \in createNames(o, l) :
           /\ cache' = n.cache
           /\ fault' = n.fault
           /\ building' = [handle |-> h, locale |-> l, names |-> n.ref]
      /\ handle' = Generic(h, NULL)

(* The rest of initialize(), the key, the entry and the table.             *)
genericInsert ==
  LET b == building
  IN  /\ b # NULL /\ b.names \in Entry
      /\ \E e \in Entry \ cache.heap :
           /\ cache' = Accessed(Inserted(cache, "generic", b.locale, e, b.names), "generic")
           /\ handle' = Generic(b.handle, e)
      /\ building' = NULL
      /\ UNCHANGED fault

(* initialize() fails after its first statement: it deletes the core's     *)
(* TimeZoneNames and keeps the pointer, and the core's destructor deletes  *)
(* it again.                                                               *)
initializeFails ==
  /\ building # NULL /\ building.names \in Entry
  /\ "core" \in Failing
  /\ fault' = "coreTwice"
  /\ UNCHANGED <<cache, handle, building>>

(* A put that fails has deleted the core, which is then deleted again.     *)
genericPutFails ==
  /\ building # NULL /\ building.names \in Entry
  /\ "put" \in Failing
  /\ fault' = "putTwice"
  /\ UNCHANGED <<cache, handle, building>>

(* No TimeZoneNames, or no memory for the key or the entry: the core is    *)
(* deleted, and then the instance, whose destructor uses an fRef that was  *)
(* never set.                                                              *)
genericFails ==
  /\ building # NULL
  /\ building.names \notin Entry \/ "data" \in Failing
  /\ fault' = IF building.names = Garbage THEN "garbage" ELSE "noEntry"
  /\ UNCHANGED <<cache, handle, building>>

-----------------------------------------------------------------------------
(* clone() and the destructors.  A client neither clones nor uses an       *)
(* object whose creation reported an error; it only deletes it.            *)

Complete(h) == handle[h].ref \in Entry
Unlocked(h) == handle[h].kind = "generic" => building = NULL

(* Mutation: the copy is not counted.                                      *)
cloneUncounted(h, g) ==
  /\ Complete(h) /\ Unlocked(h)
  /\ handle[g] = Free
  /\ handle' = [handle EXCEPT ![g] = handle[h]]
  /\ UNCHANGED <<cache, building, fault>>

clone(h, g) ==
  /\ Complete(h) /\ Unlocked(h)
  /\ handle[g] = Free
  /\ cache' = [cache EXCEPT !.refCount[handle[h].ref] = @ + 1]
  /\ handle' = [handle EXCEPT ![g] = handle[h]]
  /\ UNCHANGED <<building, fault>>

destroy(h) ==
  /\ handle[h].kind \in Kind /\ Unlocked(h)
  /\ handle' = [handle EXCEPT ![h] = Free]
  /\ IF Complete(h) THEN cache' = [cache EXCEPT !.refCount[handle[h].ref] = @ - 1]
                    ELSE UNCHANGED cache
  /\ fault' = IF handle[h].ref = Garbage THEN "garbage" ELSE fault
  /\ UNCHANGED building

-----------------------------------------------------------------------------
(* The environment: CACHE_EXPIRATION goes by; and u_cleanup(), which the   *)
(* application calls when it holds no object.                              *)

time ==
  /\ cache.expired # cache.heap
  /\ cache' = [cache EXCEPT !.expired = @ \cup cache.heap]
  /\ UNCHANGED <<handle, building, fault>>

Closed(c, k) == [Deleted(c, k, Cached(c, k)) EXCEPT !.opened = @ \ {k}]

(* Closing the table of the generic names uses the entries of the other.   *)
UsesFreed(c) == \E e \in Cached(c, "generic") : c.core[e] \notin c.heap

Cleaned(first, second) ==
  /\ cache.opened # {}
  /\ \A h \in Handle : handle[h].kind \notin Kind
  /\ cache' = Closed(Closed(cache, first), second)
  /\ fault' = IF UsesFreed(IF second = "generic" THEN Closed(cache, first) ELSE cache)
                THEN "freed" ELSE fault
  /\ UNCHANGED <<handle, building>>

namesFirst == Cleaned("names", "generic")

u_cleanup == Cleaned("generic", "names")

-----------------------------------------------------------------------------
Next ==
  /\ fault = NULL
  /\ \/ \E h \in Handle, l \in Locale :
          \/ TimeZoneNames(h, l)
          \/ genericHit(h, l)
          \/ genericCore(h, l)
     \/ \E h \in Handle : genericUnopened(h)
     \/ genericInsert
     \/ initializeFails
     \/ genericPutFails
     \/ genericFails
     \/ \E h, g \in Handle : clone(h, g)
     \/ \E h \in Handle : destroy(h)
     \/ time
     \/ u_cleanup

Spec == Init /\ [][Next]_vars

-----------------------------------------------------------------------------
Pointer == Entry \cup {NULL}

(* The types of the variables.                                             *)
TypeOK ==
  /\ cache \in [table : [Kind -> [Locale -> Pointer]], opened : SUBSET Kind,
                heap : SUBSET Entry, refCount : [Entry -> Int],
                expired : SUBSET Entry, core : [Entry -> Pointer],
                gAccessCount : [Kind -> 0 .. SWEEP_INTERVAL - 1]]
  /\ handle \in [Handle -> [kind : Kind \cup {NULL, "lost"}, ref : Pointer \cup {Garbage}]]
  /\ \/ building = NULL
     \/ building \in [handle : Handle, locale : Locale, names : Pointer \cup {Garbage}]
  /\ fault \in {NULL, "putTwice", "coreTwice", "noEntry", "garbage", "freed"}

Handles(e) == {h \in Handle : handle[h].ref = e}
Cores(e) == {g \in cache.heap : cache.core[g] = e}
Builder(e) == {b \in {building} \ {NULL} : b.names = e}

(* The refCount of an allocated entry is the number of the objects that    *)
(* refer to it: those of clients, and for an entry of tznames.cpp those    *)
(* that the cores of generic entries own, up to the end of the process.    *)
(* The assertions in both destructors follow.                              *)
RefCountsExact ==
  fault = NULL =>
    \A e \in cache.heap :
      cache.refCount[e] = Cardinality(Handles(e)) + Cardinality(Cores(e)) + Cardinality(Builder(e))

(* Whatever an object of a client, a core or a table refers to is          *)
(* allocated: no sweep frees an entry that is used.                        *)
NothingDangles ==
  /\ \A h \in Handle : handle[h].ref \in cache.heap \cup {NULL, Garbage}
  /\ \A g \in cache.heap : cache.core[g] \in cache.heap \cup {NULL}
  /\ \A k \in Kind : Cached(cache, k) \subseteq cache.heap

(* Every allocated entry is in exactly one of the tables, where a sweep or *)
(* u_cleanup() finds it.                                                   *)
NothingLeaks ==
  \A e \in cache.heap : Cardinality({<<k, l>> \in Kind \X Locale : cache.table[k][l] = e}) = 1

(* u_cleanup() leaves nothing allocated, and on the way it never uses an   *)
(* entry that it has freed: the order of ECleanupI18NType matters, because *)
(* deleting generic names releases time zone names.                        *)
CleansUpInOrder ==
  /\ fault # "freed"
  /\ cache.opened = {} => cache.heap = {}

(* U_ASSERT(fRef->refCount > 0) in ~TimeZoneGenericNames() presumes that   *)
(* an object which is deleted has its entry.                               *)
HasEntryWhenDeleted == fault # "noEntry"

(* U_ASSERT(fTZnamesCacheEntry->refCount > 0) in ~TimeZoneNamesDelegate()  *)
(* presumes that the pointer is NULL or refers to an entry.                *)
PointerIsInitialized == fault # "garbage"

(* A table with deleters owns what it was given, by the documentation of   *)
(* uhash_put(); nobody else frees it.                                      *)
TableOwnsWhatItIsGiven == fault # "putTwice"

(* The TimeZoneNames of a core is deleted once: its destructor asserts     *)
(* that the entry is still counted.                                        *)
CoreDeletesOnce == fault # "coreTwice"
=============================================================================
