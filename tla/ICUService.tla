------------------------------ MODULE ICUService ------------------------------
(***************************************************************************)
(* The service framework (common/serv.cpp, servls.cpp, servlk.cpp): a list *)
(* of factories, newest first, that is asked for an object by its locale   *)
(* and the fallbacks of that locale; a cache of the answers (serviceCache),*)
(* of the visible IDs (idCache) and of their display names (dnCache); and  *)
(* the notification of listeners, from ICUNotifier, which it extends as    *)
(* the class does.  NumberFormat and Collator register their factories so. *)
(*                                                                         *)
(* What runs under the mutex "lock" is one step, except where the code     *)
(* meets state that this mutex does not guard.  createKey(), wherever it   *)
(* is called, reads the default locale, compares and replaces the fallback *)
(* locale under a mutex of its own ("llock"), where it deletes             *)
(* serviceCache, and reads the name of the fallback locale after that.     *)
(* getKey() is cut because of this, between its search and its insertion,  *)
(* and getDisplayNames() because it reads dnCache without the lock.        *)
(***************************************************************************)
EXTENDS ICUNotifier, Integers

CONSTANTS
    Id, Root, NoId,   \* locale IDs; "", the empty one; a bogus one
    Chop,             \* Chop[id]: id without its last "_" part, or NoId
    Slot,             \* Slot[id]: where id comes in the order of a hash table
    Defaults,         \* what the process sets as the default locale
    Factory,
    Supports,         \* Supports[f]: the IDs the factory handles
    Delegates,        \* Delegates[f]: those it leaves to older factories
    Invisible,        \* the factories registered with coverage INVISIBLE
    ForPrimary,       \* those that build for the requested, not the current ID
    BuiltIn,          \* what the constructor of the service registers
    HasDefault,       \* does handleDefault() return an object?
    Calls,            \* Calls[t]: what the thread t calls
    Request,          \* the IDs asked for
    DisplayLocale,    \* the locales that display names are asked for
    Readers,          \* the listeners that ask for the IDs when they are called
    MaxChanges,       \* bound on the changes of the factory list
    Fails,            \* where memory runs out: "vector" or "put"
    MaxFailure,       \* bound on the number of times it does
    KeepsKeys,        \* do callers keep their registry keys across a reset()?
    Entries,          \* bound on the number of CacheEntry objects
    NULL, FREED       \* a null pointer; a pointer to what has been deleted

VARIABLES
    factories, timestamp, serviceCache, idCache, dnCache,   \* of ICUService
    fallbackLocale, fallbackLocaleName,                     \* of ICULocaleService
    default,     \* the process's default locale
    entry,       \* the CacheEntry objects
    lock,        \* the thread that holds the service's mutex, or NoThread
    llock,       \* the same, for the mutex of validateFallbackLocale()
    pc, work,    \* where each thread is, and the locals it has there
    enum,        \* the ServiceEnumeration of each thread
    keys,        \* the registry keys that callers hold
    leaked,      \* factories that nobody will delete
    failures,
    faults       \* what was used or deleted after it had been deleted

serviceVars == <<factories, timestamp, serviceCache, idCache, dnCache>>
localeVars == <<fallbackLocale, fallbackLocaleName, default, llock>>
vars == <<serviceVars, localeVars, entry, lock, pc, work, enum, keys, leaked,
          failures, faults, notifierVars>>

ASSUME ServiceAssumption ==
    /\ {Root} \cup Defaults \cup Request \subseteq Id
    /\ Chop \in [Id -> Id \cup {NoId}] /\ Chop[Root] = NoId
    /\ IsInjective(Slot) /\ DOMAIN Slot = Id
    /\ \A f \in Factory : Delegates[f] \subseteq Supports[f]
    /\ {MaxChanges, MaxFailure, Entries} \subseteq Nat

\* An object: the factory that built it and the locale it is for.
Object == [by : Factory \cup {NULL}, for : Id]
NoObject == << >>
Free == [desc |-> NoId, obj |-> NoObject, refcount |-> 0]

NoWork == [key |-> NULL, hit |-> 0, obj |-> NoObject, desc |-> NoId,
           passed |-> << >>, put |-> FALSE, loc |-> NULL, pos |-> -1,
           id |-> NoId, def |-> NoId, then |-> "idle"]
NoEnum == [stamp |-> 0, ids |-> {}, pos |-> -1, ready |-> FALSE]

Facs == IF factories \in {NULL, FREED} THEN << >> ELSE factories
\* countFactories() compared with what the service's class says
isDefault == Len(Facs) = Len(BuiltIn)

------------------------------------------------------------------------------
(* Keys: LocaleKey.                                                         *)

LocaleKey(id, fallback) ==
    [primary |-> id, cur |-> id,
     fb |-> IF id # Root /\ id # fallback THEN fallback ELSE NoId]

\* The current ID of a key that has run out is bogus; it reads as "".
currentID(k) == IF k.cur = NoId THEN Root ELSE k.cur

\* The key after LocaleKey::fallback(); that returned FALSE iff cur is NoId.
fallback(k) ==
    IF k.cur = NoId THEN k
    ELSE IF Chop[k.cur] # NoId THEN [k EXCEPT !.cur = Chop[k.cur]]
    ELSE IF k.fb # NoId THEN [k EXCEPT !.cur = k.fb, !.fb = NoId]
    ELSE [k EXCEPT !.cur = IF k.cur = Root THEN NoId ELSE Root]

------------------------------------------------------------------------------
(* The search of getKey(), as an operator on the cache s = [cache, entry].  *)
(* cache is a function from IDs to entries, 0 where there is none.          *)

NoCache == [id \in Id |-> 0]
Lookup(s, k) == IF k.cur = NoId THEN 0 ELSE s.cache[k.cur]

handleDefault(k) == IF HasDefault THEN [by |-> NULL, for |-> currentID(k)] ELSE NoObject

RECURSIVE getKeyFor(_, _, _), search(_, _, _, _), tryFactories(_, _, _)

\* ICUServiceFactory::create(); a factory that delegates calls getKey().
create(s, k, f) ==
    IF currentID(k) \notin Supports[f] THEN [s |-> s, k |-> k, obj |-> NoObject]
    ELSE IF currentID(k) \in Delegates[f] THEN getKeyFor(s, k, f)
    ELSE [s |-> s, k |-> k,
          obj |-> [by |-> f, for |-> IF f \in ForPrimary THEN k.primary ELSE currentID(k)]]

\* while (index < limit): the first object that a factory from i on makes
tryFactories(s, k, i) ==
    IF i > Len(Facs) THEN [s |-> s, k |-> k, obj |-> NoObject]
    ELSE LET c == create(s, k, Facs[i]) IN
         IF c.obj # NoObject THEN c ELSE tryFactories(c.s, c.k, i + 1)

\* do ... while (key.fallback()); passed is cacheDescriptorList
search(s, k, start, passed) ==
    IF Lookup(s, k) # 0
    THEN LET e == s.entry[Lookup(s, k)] IN
         [s |-> s, k |-> k, hit |-> Lookup(s, k), obj |-> e.obj, desc |-> e.desc,
          passed |-> passed, put |-> passed # << >>]
    ELSE LET c == tryFactories(s, k, start)
             n == fallback(c.k) IN
         IF c.obj # NoObject
         THEN [s |-> c.s, k |-> c.k, hit |-> 0, obj |-> c.obj, desc |-> k.cur,
               passed |-> passed, put |-> TRUE]
         ELSE IF n.cur = NoId
         THEN [s |-> c.s, k |-> n, hit |-> 0, obj |-> NoObject, desc |-> NoId,
               passed |-> passed, put |-> TRUE]
         ELSE search(c.s, n, start, Append(passed, k.cur))

\* getKey() as a factory calls it: what older factories would have returned.
\* Nothing is cached, so the result is deleted unless it came from the first
\* look into the cache.
getKeyFor(s, k, f) ==
    LET r == search(s, k, 1 + CHOOSE i \in DOMAIN Facs : Facs[i] = f, << >>) IN
    IF isDefault THEN [s |-> s, k |-> k, obj |-> handleDefault(k)]
    ELSE IF r.obj = NoObject THEN [s |-> r.s, k |-> r.k, obj |-> handleDefault(r.k)]
    ELSE [s |-> IF r.put /\ r.hit # 0 THEN [r.s EXCEPT !.entry[r.hit] = Free] ELSE r.s,
          k |-> r.k, obj |-> r.obj]

------------------------------------------------------------------------------
(* Caches that the factory list determines.                                 *)

\* getVisibleIDMap() goes from the oldest factory to the newest; each sets or
\* removes the IDs it supports, so that the newest one decides.
newest(id) == Facs[CHOOSE i \in DOMAIN Facs :
                     /\ id \in Supports[Facs[i]]
                     /\ \A j \in 1 .. i - 1 : id \notin Supports[Facs[j]]]
visibleIDs ==
    {id \in Id : /\ \E i \in DOMAIN Facs : id \in Supports[Facs[i]]
                 /\ newest(id) \notin Invisible}

getVisibleIDMap == IF idCache = NULL THEN [id \in visibleIDs |-> newest(id)] ELSE idCache

\* delete serviceCache: cacheDeleter() takes one reference per ID.
uses(cache, e) == Cardinality({id \in Id : cache[id] = e})
deleteCache ==
    IF serviceCache \in {NULL, FREED} THEN entry
    ELSE [e \in DOMAIN entry |->
            IF entry[e].refcount <= uses(serviceCache, e) THEN Free
            ELSE [entry[e] EXCEPT !.refcount = @ - uses(serviceCache, e)]]

deleteServiceCache ==
    /\ entry' = deleteCache
    /\ faults' = IF serviceCache = FREED THEN faults \cup {"cache"} ELSE faults

clearCaches ==
    /\ timestamp' = timestamp + 1
    /\ dnCache' = NULL
    /\ idCache' = NULL
    /\ deleteServiceCache
    /\ serviceCache' = NULL

------------------------------------------------------------------------------

Idle(t) == pc[t] = "idle" /\ notifying[t] = "no"
May(t, call) == call \in Calls[t] /\ Idle(t)
Goto(t, l) == pc' = [pc EXCEPT ![t] = l]

\* XMutex, for the getKey() that a client calls
enter(t) == lock = NoThread /\ lock' = t
leave(t) == lock' = NoThread

InitFactories == IF BuiltIn = << >> THEN NULL ELSE BuiltIn

\* The constructors; the name of the fallback locale starts out empty.
Init ==
    /\ factories = InitFactories
    /\ timestamp = Len(BuiltIn)
    /\ serviceCache = NULL /\ idCache = NULL /\ dnCache = NULL
    /\ default \in Defaults
    /\ fallbackLocale = default
    /\ fallbackLocaleName = Root
    /\ entry = [e \in 1 .. Entries |-> Free]
    /\ enum = [t \in Thread |-> NoEnum]
    /\ keys = {}
    /\ lock = NoThread /\ llock = NoThread
    /\ pc = [t \in Thread |-> "idle"]
    /\ work = [t \in Thread |-> NoWork]
    /\ leaked = {} /\ failures = 0 /\ faults = {}
    /\ NotifierInit

\* Registration.  Memory may run out for the vector itself or for its new
\* element; only then the code deletes the factory.
registerFactory(t, f) ==
    /\ May(t, "register")
    /\ lock = NoThread
    /\ f \notin ToSet(Facs) \cup keys \cup leaked
    /\ factories # FREED
    /\ timestamp < Len(BuiltIn) + MaxChanges
    /\ \/ /\ factories' = <<f>> \o Facs
          /\ clearCaches
          /\ keys' = keys \cup {f}
          /\ Changed(t)
          /\ UNCHANGED <<leaked, failures>>
       \/ /\ "vector" \in Fails /\ failures < MaxFailure
          /\ failures' = failures + 1
          /\ IF factories = NULL
             THEN factories' = FREED /\ leaked' = leaked \cup {f}
             ELSE UNCHANGED <<factories, leaked>>
          /\ UNCHANGED <<timestamp, serviceCache, idCache, dnCache, entry, keys, faults,
                         notifierVars>>
    /\ UNCHANGED <<localeVars, lock, pc, work, enum>>

unregister(t, f) ==
    /\ May(t, "unregister")
    /\ f \in keys
    /\ lock = NoThread
    /\ keys' = keys \ {f}
    /\ IF f \in ToSet(Facs)
       THEN /\ timestamp < Len(BuiltIn) + MaxChanges
            /\ factories' = SelectSeq(Facs, LAMBDA g : g # f)
            /\ clearCaches
            /\ Changed(t)
       ELSE /\ faults' = faults \cup {"factory"}
            /\ UNCHANGED <<serviceVars, entry, notifierVars>>
    /\ UNCHANGED <<localeVars, lock, pc, work, enum, leaked, failures>>

reset(t) ==
    /\ May(t, "reset")
    /\ lock = NoThread
    /\ timestamp < Len(BuiltIn) + MaxChanges
    /\ factories # FREED
    /\ factories' = IF factories = NULL THEN NULL ELSE << >>
    /\ keys' = IF KeepsKeys THEN keys ELSE {}
    /\ clearCaches
    /\ Changed(t)
    /\ UNCHANGED <<localeVars, lock, pc, work, enum, leaked, failures>>

\* createKey() for an ID, or for none: Locale::getDefault() is read first, then
\* validateFallbackLocale() takes its mutex.  The thread goes on at "then".
getDefault(t, w, then) ==
    /\ work' = [work EXCEPT ![t] = [w EXCEPT !.def = default, !.then = then]]
    /\ Goto(t, "validate")

\* A bug: the answers for the old default locale are kept.
validateKeepsAnswers(t) ==
    /\ pc[t] = "validate"
    /\ llock = NoThread
    /\ fallbackLocale' = work[t].def
    /\ fallbackLocaleName' = IF work[t].def = fallbackLocale THEN fallbackLocaleName ELSE work[t].def
    /\ Goto(t, work[t].then)
    /\ UNCHANGED <<serviceVars, default, llock, entry, lock, work, enum, keys, leaked, failures,
                   faults, notifierVars>>

\* A default locale that is new to the service: serviceCache is deleted, ...
validateFallbackLocale(t) ==
    /\ pc[t] = "validate"
    /\ llock = NoThread
    /\ IF work[t].def = fallbackLocale
       THEN /\ Goto(t, work[t].then)
            /\ UNCHANGED <<fallbackLocale, fallbackLocaleName, llock, serviceCache, entry, faults>>
       ELSE /\ llock' = t
            /\ fallbackLocale' = work[t].def
            /\ fallbackLocaleName' = work[t].def
            /\ deleteServiceCache
            /\ serviceCache' = IF serviceCache = NULL THEN NULL ELSE FREED
            /\ Goto(t, "clearing")
    /\ UNCHANGED <<factories, timestamp, idCache, dnCache, default, lock, work, enum, keys, leaked,
                   failures, notifierVars>>

\* ... and the pointer to it is cleared.
clearServiceCache(t) ==
    /\ pc[t] = "clearing"
    /\ serviceCache' = NULL
    /\ llock' = NoThread
    /\ Goto(t, work[t].then)
    /\ UNCHANGED <<factories, timestamp, idCache, dnCache, fallbackLocale, fallbackLocaleName,
                   default, entry, lock, work, enum, keys, leaked, failures, faults, notifierVars>>

\* ICULocaleService::get() makes a key ...
get(t, id) ==
    /\ May(t, "get")
    /\ getDefault(t, [NoWork EXCEPT !.id = id], "create")
    /\ UNCHANGED <<serviceVars, localeVars, entry, lock, enum, keys, leaked, failures, faults,
                   notifierVars>>

\* ... with the name of the fallback locale, read without a mutex.
createKey(t) ==
    /\ pc[t] = "create"
    /\ work' = [work EXCEPT ![t] = [NoWork EXCEPT !.key = LocaleKey(work[t].id, fallbackLocaleName)]]
    /\ Goto(t, "key")
    /\ UNCHANGED <<serviceVars, localeVars, entry, lock, enum, keys, leaked, failures, faults,
                   notifierVars>>

\* isDefault(), tested without the lock; handleDefault() then has no effect here
testDefault(t) ==
    /\ pc[t] = "key"
    /\ Goto(t, IF isDefault THEN "idle" ELSE "enter")
    /\ work' = IF isDefault THEN [work EXCEPT ![t] = NoWork] ELSE work
    /\ UNCHANGED <<serviceVars, localeVars, entry, lock, enum, keys, leaked, failures,
                   faults, notifierVars>>

\* getKey() from the lock to outerEnd
getKeySearch(t) ==
    LET r == search([cache |-> IF serviceCache \in {NULL, FREED} THEN NoCache ELSE serviceCache,
                     entry |-> entry], work[t].key, 1, << >>) IN
    /\ pc[t] = "enter"
    /\ enter(t)
    /\ serviceCache' = r.s.cache
    /\ entry' = r.s.entry
    /\ work' = [work EXCEPT ![t].hit = r.hit, ![t].obj = r.obj, ![t].desc = r.desc,
                            ![t].passed = r.passed, ![t].put = r.put]
    /\ Goto(t, "found")
    /\ faults' = IF serviceCache = FREED THEN faults \cup {"cache"} ELSE faults
    /\ UNCHANGED <<factories, timestamp, idCache, dnCache, localeVars, enum, keys, leaked,
                   failures, notifierVars>>

\* The entry to store: the one found in the cache, or a new one.
resultEntry(w) == IF w.hit # 0 THEN w.hit
                  ELSE CHOOSE e \in DOMAIN entry :
                         entry[e] = Free /\ \A d \in 1 .. e - 1 : entry[d] # Free

\* A bug: the descriptors passed on the way are stored without a reference.
storeUncounted(w) ==
    LET e == resultEntry(w) IN
    /\ serviceCache' = [id \in Id |-> IF id = w.desc \/ id \in ToSet(w.passed)
                                      THEN e ELSE serviceCache[id]]
    /\ entry' = IF w.hit # 0 THEN entry
                ELSE [entry EXCEPT ![e] = [desc |-> w.desc, obj |-> w.obj, refcount |-> 1]]

\* serviceCache->put() for the result and, with a reference each, for the
\* descriptors passed on the way to it
store(w) ==
    LET e == resultEntry(w)
        old == IF w.hit # 0 THEN entry[e].refcount ELSE 1 IN
    /\ serviceCache' = [id \in Id |-> IF id = w.desc \/ id \in ToSet(w.passed)
                                      THEN e ELSE serviceCache[id]]
    /\ entry' = [entry EXCEPT ![e] = [desc |-> w.desc, obj |-> w.obj,
                                      refcount |-> old + Len(w.passed)]]

\* getKey() from outerEnd to its return.  When put() fails it releases the
\* entry, and the code then deletes it.
getKeyStore(t) ==
    LET w == work[t]
        stale == w.hit # 0 /\ entry[w.hit] = Free IN
    /\ pc[t] = "found"
    /\ \/ /\ w.obj = NoObject \/ ~w.put
          /\ faults' = IF w.obj # NoObject /\ stale THEN faults \cup {"entry"} ELSE faults
          /\ UNCHANGED <<serviceCache, entry, failures>>
       \/ /\ w.obj # NoObject /\ w.put
          /\ \E fail \in {FALSE} \cup {"put" \in Fails /\ failures < MaxFailure} :
               /\ failures' = failures + (IF fail THEN 1 ELSE 0)
               /\ IF serviceCache \in {NULL, FREED} \/ stale \/ fail
                  THEN /\ faults' = faults \cup {IF fail THEN "entry" ELSE "cache"}
                       /\ UNCHANGED <<serviceCache, entry>>
                  ELSE store(w) /\ UNCHANGED faults
    /\ leave(t)
    /\ work' = [work EXCEPT ![t] = NoWork]
    /\ Goto(t, "idle")
    /\ UNCHANGED <<factories, timestamp, idCache, dnCache, localeVars, enum, keys, leaked,
                   notifierVars>>

\* The map of the visible IDs, under the lock, which is kept for createKey().
lockIDs(t, id, then) ==
    /\ lock = NoThread
    /\ lock' = t
    /\ idCache' = getVisibleIDMap
    /\ getDefault(t, [NoWork EXCEPT !.id = id], then)

\* getDisplayName(): of the factory of the ID, if the ID is visible, ...
getDisplayName(t, id) ==
    /\ May(t, "name")
    /\ \/ /\ id \in DOMAIN getVisibleIDMap
          /\ lock = NoThread
          /\ idCache' = getVisibleIDMap
          /\ UNCHANGED <<lock, pc, work>>
       \/ id \notin DOMAIN getVisibleIDMap /\ lockIDs(t, id, "display")
    /\ UNCHANGED <<factories, timestamp, serviceCache, dnCache, localeVars, entry, enum, keys,
                   leaked, failures, faults, notifierVars>>

\* ... else of that of the first fallback that is, if any.
displayFallback(t) ==
    /\ pc[t] = "display"
    /\ leave(t)
    /\ work' = [work EXCEPT ![t] = NoWork]
    /\ Goto(t, "idle")
    /\ UNCHANGED <<serviceVars, localeVars, entry, enum, keys, leaked, failures, faults,
                   notifierVars>>

\* getDisplayNames(), the part under the lock.
getDisplayNames(t, loc) ==
    /\ May(t, "names")
    /\ lock = NoThread
    /\ IF dnCache # NULL /\ dnCache.locale = loc
       THEN UNCHANGED <<idCache, dnCache>>
       ELSE /\ idCache' = getVisibleIDMap
            /\ dnCache' = [locale |-> loc, ids |-> DOMAIN getVisibleIDMap]
    /\ work' = [work EXCEPT ![t] = [NoWork EXCEPT !.loc = loc]]
    /\ Goto(t, "match")
    /\ UNCHANGED <<factories, timestamp, serviceCache, localeVars, entry, lock, enum, keys,
                   leaked, failures, faults, notifierVars>>

\* createKey(matchID), without the lock.
matchKey(t) ==
    /\ pc[t] = "match"
    /\ getDefault(t, work[t], "names")
    /\ UNCHANGED <<serviceVars, localeVars, entry, lock, enum, keys, leaked, failures, faults,
                   notifierVars>>

\* A bug: the walk starts at pos, not after it.
from(ids, pos) == {id \in ids : /\ Slot[id] >= pos
                                /\ \A o \in ids : Slot[o] >= pos => Slot[id] <= Slot[o]}

\* The next element after pos of a hash table with these keys.
after(ids, pos) == {id \in ids : /\ Slot[id] > pos
                                 /\ \A o \in ids : Slot[o] > pos => Slot[id] <= Slot[o]}

\* One round of its loop over dnCache, without the lock.
nextName(t) ==
    LET left == IF dnCache = NULL THEN {} ELSE after(dnCache.ids, work[t].pos) IN
    /\ pc[t] = "names"
    /\ \/ \E id \in left :
            /\ work' = [work EXCEPT ![t].pos = Slot[id]]
            /\ UNCHANGED <<pc, faults>>
       \/ /\ left = {}
          /\ faults' = IF dnCache = NULL THEN faults \cup {"names"} ELSE faults
          /\ work' = [work EXCEPT ![t] = NoWork]
          /\ Goto(t, "idle")
    /\ UNCHANGED <<serviceVars, localeVars, entry, lock, enum, keys, leaked, failures,
                   notifierVars>>

\* A ServiceEnumeration is created, or reset: the timestamp first, unlocked ...
getTimestamp(t) ==
    /\ May(t, "enum")
    /\ enum' = [enum EXCEPT ![t] = [NoEnum EXCEPT !.stamp = timestamp]]
    /\ Goto(t, "enum")
    /\ UNCHANGED <<serviceVars, localeVars, entry, lock, work, keys, leaked, failures,
                   faults, notifierVars>>

\* ... then the visible IDs, ...
getVisibleIDs(t) ==
    /\ pc[t] = "enum"
    /\ lockIDs(t, NoId, "ids")
    /\ UNCHANGED <<factories, timestamp, serviceCache, dnCache, localeVars, entry, enum, keys,
                   leaked, failures, faults, notifierVars>>

\* ... which are copied.
copyIDs(t) ==
    /\ pc[t] = "ids"
    /\ enum' = [enum EXCEPT ![t].ids = DOMAIN idCache, ![t].ready = TRUE]
    /\ leave(t)
    /\ work' = [work EXCEPT ![t] = NoWork]
    /\ Goto(t, "idle")
    /\ UNCHANGED <<serviceVars, localeVars, entry, keys, leaked, failures, faults, notifierVars>>

\* ServiceEnumeration::snext() returns an ID if upToDate().
snext(t) ==
    /\ May(t, "enum")
    /\ enum[t].ready
    /\ enum[t].stamp = timestamp
    /\ \E id \in after(enum[t].ids, enum[t].pos) : enum' = [enum EXCEPT ![t].pos = Slot[id]]
    /\ UNCHANGED <<serviceVars, localeVars, entry, lock, pc, work, keys, leaked, failures,
                   faults, notifierVars>>

\* Locale::setDefault()
setDefault(t, loc) ==
    /\ May(t, "setDefault")
    /\ default' = loc
    /\ UNCHANGED <<serviceVars, fallbackLocale, fallbackLocaleName, llock, entry, lock, pc, work,
                   enum, keys, leaked, failures, faults, notifierVars>>

\* The listeners of the service; some ask for the visible IDs when called.
listen(t, l) ==
    /\ May(t, "listen")
    /\ addListener(t, l) \/ removeListener(t, l)
    /\ UNCHANGED <<serviceVars, localeVars, entry, lock, pc, work, enum, keys, leaked,
                   failures, faults>>

serviceChanged(t) ==
    /\ callListener(t)
    /\ IF listeners[next[t]] \in Readers THEN lockIDs(t, NoId, "heard")
       ELSE Goto(t, "returning") /\ UNCHANGED <<lock, idCache, work>>
    /\ UNCHANGED <<factories, timestamp, serviceCache, dnCache, localeVars, entry, enum, keys,
                   leaked, failures, faults>>

\* The listener has the IDs, if it asked for them, and returns.
listenerReturns(t) ==
    /\ pc[t] \in {"heard", "returning"}
    /\ returnListener(t)
    /\ lock' = IF pc[t] = "heard" THEN NoThread ELSE lock
    /\ work' = [work EXCEPT ![t] = NoWork]
    /\ Goto(t, "idle")
    /\ UNCHANGED <<serviceVars, localeVars, entry, enum, keys, leaked, failures, faults>>

enterNotify(t) ==
    /\ testListeners(t) \/ lockListeners(t)
    /\ UNCHANGED <<serviceVars, localeVars, entry, lock, pc, work, enum, keys, leaked,
                   failures, faults>>

\* collator_cleanup(), numfmt_cleanup(): no call is under way; the service is
\* deleted, and made anew by the next call.
cleanup ==
    /\ \A t \in Thread : Idle(t)
    /\ factories # FREED
    /\ factories' = InitFactories
    /\ timestamp' = Len(BuiltIn)
    /\ dnCache' = NULL /\ idCache' = NULL /\ serviceCache' = NULL /\ deleteServiceCache
    /\ fallbackLocale' = default /\ fallbackLocaleName' = Root
    /\ enum' = [t \in Thread |-> NoEnum]
    /\ keys' = {}
    /\ listeners' = << >> /\ unseen' = {}
    /\ UNCHANGED <<default, llock, lock, pc, work, leaked, failures, notifyLock, notifying, next>>

getKey(t) == testDefault(t) \/ getKeySearch(t) \/ getKeyStore(t)
makeKey(t) == validateFallbackLocale(t) \/ clearServiceCache(t) \/ createKey(t)

\* A thread inside a call keeps running, and gets a mutex that is free again
\* and again; the step it can take is always one of these.
insideCall(t) ==
    \/ makeKey(t) \/ getKey(t) \/ displayFallback(t) \/ matchKey(t) \/ nextName(t)
    \/ getVisibleIDs(t) \/ copyIDs(t)
    \/ enterNotify(t) \/ serviceChanged(t) \/ listenerReturns(t)

Next ==
    \/ \E t \in Thread :
        \/ \E f \in Factory : registerFactory(t, f) \/ unregister(t, f)
        \/ \E id \in Request : get(t, id) \/ getDisplayName(t, id)
        \/ \E loc \in DisplayLocale : getDisplayNames(t, loc)
        \/ \E loc \in Defaults : setDefault(t, loc)
        \/ \E l \in Listener : listen(t, l)
        \/ reset(t) \/ getTimestamp(t) \/ snext(t)
        \/ insideCall(t)
    \/ cleanup

Spec == Init /\ [][Next]_vars

------------------------------------------------------------------------------

CacheType == [locale : DisplayLocale, ids : SUBSET Id]

LockHeld == {"found", "display", "ids", "heard"}
Validating == {"validate", "clearing"}

TypeOK ==
    /\ factories \in {NULL, FREED} \/ factories \in Seq(Factory)
    /\ timestamp \in 0 .. Len(BuiltIn) + MaxChanges
    /\ serviceCache \in {NULL, FREED} \/ serviceCache \in [Id -> 0 .. Entries]
    /\ idCache = NULL \/ (DOMAIN idCache \subseteq Id /\ \A i \in DOMAIN idCache : idCache[i] \in Factory)
    /\ dnCache = NULL \/ dnCache \in CacheType
    /\ {default, fallbackLocale} \subseteq Defaults /\ fallbackLocaleName \in Id
    /\ \A e \in 1 .. Entries : entry[e].refcount \in Nat
    /\ lock \in Thread \cup {NoThread}
    /\ \A t \in Thread : lock = t <=> pc[t] \in LockHeld \/ (pc[t] \in Validating /\ work[t].then \in LockHeld)
    /\ \A t \in Thread : llock = t <=> pc[t] = "clearing"
    /\ keys \cup leaked \subseteq Factory
    /\ NotifierTypeOK

(***************************************************************************)
(* The references of a CacheEntry are the descriptors that serviceCache    *)
(* maps to it, and an entry without any is gone: cacheDeleter() and ref()  *)
(* are called in balance (serv.cpp:221-250).                               *)
(***************************************************************************)
CountsExact ==
    \A e \in 1 .. Entries :
        entry[e].refcount = IF serviceCache \in {NULL, FREED} THEN 0 ELSE uses(serviceCache, e)

(***************************************************************************)
(* The cache is transparent: what it holds for a descriptor is what asking *)
(* the factories that are registered now would give, with the fallbacks of *)
(* now.  "The cache has to stay in synch with the factory list"            *)
(* (serv.cpp:445).                                                         *)
(***************************************************************************)
uncached(id) ==
    search([cache |-> NoCache, entry |-> entry], LocaleKey(id, fallbackLocaleName), 1, << >>).obj
CacheTransparent ==
    serviceCache \notin {NULL, FREED} =>
        \A id \in Id : serviceCache[id] # 0 => entry[serviceCache[id]].obj = uncached(id)

(***************************************************************************)
(* idCache, if there is one, has the IDs and the factories of the present  *)
(* list, so getDisplayName() calls a factory that still exists; dnCache,   *)
(* which shares its ID strings with idCache, exists only with it.          *)
(***************************************************************************)
IdCacheCurrent ==
    /\ idCache # NULL => idCache = [id \in visibleIDs |-> newest(id)]
    /\ dnCache # NULL => idCache # NULL /\ dnCache.ids \subseteq DOMAIN idCache

(***************************************************************************)
(* Enumerations are fail-fast (serv.h:536): one whose timestamp is that of *)
(* the service has the IDs that are visible now, although its timestamp    *)
(* and its IDs were read at two times, the first without the lock.         *)
(***************************************************************************)
FailFast ==
    \A t \in Thread : enum[t].ready /\ enum[t].stamp = timestamp => enum[t].ids = visibleIDs

(***************************************************************************)
(* No table, entry or factory is used or deleted after it was deleted.     *)
(***************************************************************************)
NothingDangles == faults = {}

(***************************************************************************)
(* getDisplayNames() returns "a snapshot of the mapping from display names *)
(* to visible IDs" (serv.h:735) for the locale it was asked for: while it  *)
(* reads dnCache, that is the table it prepared or found under the lock.   *)
(***************************************************************************)
NamesAreASnapshot ==
    \A t \in Thread :
        pc[t] = "names" => dnCache # NULL /\ dnCache.locale = work[t].loc

(***************************************************************************)
(* registerFactory(): "In case of an error, the factory is deleted."       *)
(* (serv.h:798)                                                            *)
(***************************************************************************)
DeletedOnError == leaked = {}

(***************************************************************************)
(* The fallback of a key is "the current default locale" (servloc.h:56) at *)
(* the time the key is made.                                               *)
(***************************************************************************)
FallsBackToDefault ==
    \A t \in Thread :
        pc[t] = "key" /\ work[t].key.primary \notin {Root, fallbackLocale}
            => work[t].key.fb = fallbackLocale
==============================================================================
