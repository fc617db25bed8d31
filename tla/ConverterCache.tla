---------------------------- MODULE ConverterCache --------------------------
(***************************************************************************)
(* The converter cache, ucnv_bld.cpp: threads open, clone, close and flush *)
(* converters, whose shared data is that of ConverterData, with the cached *)
(* default converter (ustr_cnv.cpp) and the default converter name.        *)
(*                                                                         *)
(* Everything between umtx_lock(&cnvCacheMutex) and its unlock is one      *)
(* step, except the flush, whose iteration order is that of a hash table.  *)
(***************************************************************************)
EXTENDS ConverterData

CONSTANTS
    Thread,
    Codepage,     \* the name that uprv_getDefaultCodepage() returns
    Cnv,          \* addresses of UConverter, bounds what is open
    Clients,      \* what the threads do, a subset of AllClients
    MaxCalls      \* bound: API calls of all threads, other than to close

AllClients == {"open", "package", "test", "clone", "default", "flush"}

ASSUME ConverterAssumption ==
    /\ Codepage \in Name
    /\ Clients \subseteq AllClients
    /\ MaxCalls \in Nat
    /\ Null \notin Thread \cup Cnv
    /\ IsFiniteSet(Thread) /\ IsFiniteSet(Cnv)

VARIABLES
    shared,       \* the allocated UConverterSharedData
    hashtable,    \* SHARED_DATA_HASHTABLE is not NULL
    table,        \* its contents
    cnvCacheMutex,\* the thread that flushes under cnvCacheMutex, or Null
    pending,      \* what the rest of its iteration may visit
    pass,         \* i of ucnv_flushCache()
    cnv,          \* the shared data of the open UConverters
    mine,         \* the UConverters that a thread opened
    borrowed,     \* those it has from u_getDefaultConverter()
    gDefaultConverter,
    gDefaultConverterName,
    at,           \* where a thread is
    op,           \* the API call that it makes
    want,         \* the name that it loads
    d,            \* the shared data it has a reference to, not yet in a UConverter
    c,            \* the UConverter it is about to close or to give back
    name,         \* where the string it has from ucnv_getDefaultName() is stored
    budget        \* API calls still to be made

table_vars == <<hashtable, table, cnvCacheMutex, pending, pass>>
flush_vars == <<cnvCacheMutex, pending, pass>>
local_vars == <<at, op, want, d, c, name, budget>>
default_vars == <<gDefaultConverter, gDefaultConverterName>>
cnv_vars == <<cnv, mine, borrowed>>
vars == <<shared, table_vars, cnv_vars, default_vars, local_vars>>

Init ==
    /\ shared = [x \in Data |-> Null]
    /\ hashtable = FALSE /\ table = [n \in Name |-> Null]
    /\ cnvCacheMutex = Null /\ pending = {} /\ pass = 0
    /\ cnv = [x \in Cnv |-> Null]
    /\ mine = [t \in Thread |-> {}] /\ borrowed = [t \in Thread |-> {}]
    /\ gDefaultConverter = Null /\ gDefaultConverterName = Null
    /\ at = [t \in Thread |-> "idle"] /\ op = [t \in Thread |-> "none"]
    /\ want = [t \in Thread |-> Null]
    /\ d = [t \in Thread |-> Null] /\ c = [t \in Thread |-> Null]
    /\ name = [t \in Thread |-> Null]
    /\ budget = MaxCalls
-----------------------------------------------------------------------------
Cache == [sh |-> shared, tab |-> table, hash |-> hashtable]

goto(t, p) == at' = [at EXCEPT ![t] = p]

Idle(t) == at[t] = "idle" /\ \A u \in Thread : op[u] # "cleanup"

begin(t, o, p) ==
    /\ Idle(t)
    /\ op' = [op EXCEPT ![t] = o]
    /\ goto(t, p)

spend == budget > 0 /\ budget' = budget - 1

(* ucnv_open(), ucnv_openPackage() and ucnv_canCreateConverter(). *)
Open(t, n) ==
    /\ \E o \in Clients \cap {"open", "package", "test"} : begin(t, o, "load")
    /\ spend
    /\ want' = [want EXCEPT ![t] = n]
    /\ UNCHANGED <<shared, table_vars, cnv_vars, default_vars, d, c, name>>

(* ucnv_open(NULL). *)
OpenDefault(t) ==
    /\ "open" \in Clients /\ begin(t, "open", "name")
    /\ spend
    /\ UNCHANGED <<shared, table_vars, cnv_vars, default_vars, want, d, c, name>>

(* u_getDefaultConverter() and ucnv_flushCache(), which begins with        *)
(* u_flushDefaultConverter(): gDefaultConverter is tested without a lock.  *)
GetDefault(t) ==
    /\ \/ /\ "default" \in Clients
          /\ begin(t, "default", IF gDefaultConverter # Null THEN "take" ELSE "name")
       \/ /\ "flush" \in Clients
          /\ begin(t, "flush", IF gDefaultConverter # Null THEN "take" ELSE "check")
    /\ spend
    /\ UNCHANGED <<shared, table_vars, cnv_vars, default_vars, want, d, c, name>>

(* u_releaseDefaultConverter(). *)
Release(t, x) ==
    /\ x \in borrowed[t]
    /\ begin(t, "release", IF gDefaultConverter = Null THEN "put" ELSE "close")
    /\ c' = [c EXCEPT ![t] = x]
    /\ borrowed' = [borrowed EXCEPT ![t] = @ \ {x}]
    /\ UNCHANGED <<shared, table_vars, cnv, mine, default_vars, want, d, name, budget>>

Close(t, x) ==
    /\ x \in mine[t]
    /\ begin(t, "close", "close")
    /\ c' = [c EXCEPT ![t] = x]
    /\ mine' = [mine EXCEPT ![t] = @ \ {x}]
    /\ UNCHANGED <<shared, table_vars, cnv, borrowed, default_vars, want, d, name, budget>>

unusedCnv == CHOOSE y \in Cnv : cnv[y] = Null

(* ucnv_safeClone(). *)
Clone(t, x) ==
    /\ "clone" \in Clients /\ Idle(t) /\ x \in mine[t]
    /\ cnvCacheMutex = Null /\ \E y \in Cnv : cnv[y] = Null
    /\ shared' = incrementRefCount(shared, cnv[x])
    /\ cnv' = [cnv EXCEPT ![unusedCnv] = cnv[x]]
    /\ mine' = [mine EXCEPT ![t] = @ \cup {unusedCnv}]
    /\ spend
    /\ UNCHANGED <<table_vars, borrowed, default_vars, at, op, want, d, c, name>>

(* u_cleanup() calls ucnv_cleanup() while no other thread uses ICU. *)
BeginCleanup(t) ==
    /\ \A u \in Thread : at[u] = "idle"
    /\ op' = [op EXCEPT ![t] = "cleanup"]
    /\ goto(t, IF gDefaultConverter # Null THEN "take" ELSE "check")
    /\ UNCHANGED <<shared, table_vars, cnv_vars, default_vars, want, d, c, name, budget>>
-----------------------------------------------------------------------------
(* Go on at p; the call is over when that is "idle". *)
continue(t, p) ==
    /\ goto(t, p)
    /\ IF p = "idle"
       THEN /\ op' = [op EXCEPT ![t] = "none"]
            /\ want' = [want EXCEPT ![t] = Null]
            /\ name' = [name EXCEPT ![t] = Null]
       ELSE UNCHANGED <<op, want, name>>

(* The locked part of u_getDefaultConverter() and u_flushDefaultConverter(). *)
Take(t) ==
    /\ at[t] = "take"
    /\ IF gDefaultConverter = Null
       THEN /\ continue(t, IF op[t] = "default" THEN "name" ELSE "check")
            /\ UNCHANGED <<gDefaultConverter, c, borrowed>>
       ELSE /\ gDefaultConverter' = Null
            /\ IF op[t] = "default"
               THEN /\ borrowed' = [borrowed EXCEPT ![t] = @ \cup {gDefaultConverter}]
                    /\ continue(t, "idle") /\ UNCHANGED c
               ELSE /\ c' = [c EXCEPT ![t] = gDefaultConverter]
                    /\ continue(t, "close") /\ UNCHANGED borrowed
    /\ UNCHANGED <<shared, table_vars, cnv, mine, gDefaultConverterName, d, budget>>

(* Mutant: the test is not repeated under the lock. *)
PutUnchecked(t) ==
    /\ at[t] = "put"
    /\ gDefaultConverter' = c[t]
    /\ c' = [c EXCEPT ![t] = Null]
    /\ continue(t, "idle")
    /\ UNCHANGED <<shared, table_vars, cnv_vars, gDefaultConverterName, d, budget>>

(* The locked part of u_releaseDefaultConverter(). *)
Put(t) ==
    /\ at[t] = "put"
    /\ IF gDefaultConverter = Null
       THEN /\ gDefaultConverter' = c[t]
            /\ c' = [c EXCEPT ![t] = Null]
            /\ continue(t, "idle")
       ELSE continue(t, "close") /\ UNCHANGED <<gDefaultConverter, c>>
    /\ UNCHANGED <<shared, table_vars, cnv_vars, gDefaultConverterName, d, budget>>

(* ucnv_getDefaultName() reads the pointer; the first call tries the OS    *)
(* codepage out.                                                           *)
GetDefaultName(t) ==
    /\ at[t] = "name" /\ cnvCacheMutex = Null
    /\ IF gDefaultConverterName # Null
       THEN goto(t, "algorithmic") /\ name' = [name EXCEPT ![t] = "buffer"] /\ UNCHANGED want
       ELSE goto(t, "probe") /\ want' = [want EXCEPT ![t] = Codepage] /\ UNCHANGED name
    /\ UNCHANGED <<shared, table_vars, cnv_vars, default_vars, op, d, c, budget>>

(* internalSetName(), and the string that ucnv_getDefaultName() will       *)
(* return: that of the tried converter, or the literal "US-ASCII".         *)
InternalSetName(t) ==
    /\ at[t] = "setName" /\ cnvCacheMutex = Null
    /\ gDefaultConverterName' = IF c[t] = Null THEN Static ELSE Codepage
    /\ want' = [want EXCEPT ![t] = gDefaultConverterName']
    /\ name' = [name EXCEPT ![t] = IF c[t] = Null THEN "literal" ELSE cnv[c[t]]]
    /\ goto(t, IF c[t] = Null THEN "algorithmic" ELSE "close")
    /\ UNCHANGED <<shared, table_vars, cnv_vars, gDefaultConverter, op, d, c, budget>>

(* gDefaultAlgorithmicSharedData, read without a lock: not NULL when the   *)
(* default name is that of an algorithmic converter.                       *)
Algorithmic(t) ==
    /\ at[t] = "algorithmic"
    /\ IF gDefaultConverterName = Static
       THEN goto(t, "create") /\ d' = [d EXCEPT ![t] = Static]
       ELSE goto(t, "load") /\ UNCHANGED d
    /\ UNCHANGED <<shared, table_vars, cnv_vars, default_vars, op, want, c, name, budget>>

(* What the name may read as: the buffer may have been set again, and a    *)
(* string whose converter data was freed meanwhile may be anything.        *)
readName(t) ==
    CASE name[t] = "buffer" -> {gDefaultConverterName}
      [] name[t] \in Data -> IF shared[name[t]] = Null THEN Name \cup {Static} ELSE {want[t]}
      [] OTHER -> {want[t]}

(* ucnv_load() under cnvCacheMutex, or createConverterFromFile() without.  *)
(* There is no file for a name that is not that of a data-based converter. *)
Load(t) ==
    /\ at[t] \in {"load", "probe"} /\ (op[t] = "package" \/ cnvCacheMutex = Null)
    /\ \E x, y \in Data : x # y /\ shared[x] = Null /\ shared[y] = Null
    /\ \E n \in readName(t) :
       \E r \in IF n \notin Name THEN {Loaded(Cache, Null)}
                ELSE IF op[t] = "package" THEN loadFromPackage(Cache, n)
                ELSE ucnv_load(Cache, n, op[t] = "test") :
          /\ shared' = r.m.sh /\ table' = r.m.tab /\ hashtable' = r.m.hash
          /\ d' = [d EXCEPT ![t] = r.d]
          /\ continue(t, CASE r.d # Null -> IF at[t] = "probe" THEN "try" ELSE "create"
                           [] OTHER -> IF at[t] = "probe" THEN "setName" ELSE "idle")
    /\ UNCHANGED <<flush_vars, cnv_vars, default_vars, c, budget>>

(* ucnv_createConverterFromSharedData() succeeds. *)
Create(t) ==
    /\ at[t] \in {"create", "try"} /\ op[t] # "test"
    /\ \E y \in Cnv : cnv[y] = Null
    /\ cnv' = [cnv EXCEPT ![unusedCnv] = d[t]]
    /\ d' = [d EXCEPT ![t] = Null]
    /\ IF at[t] = "try"
       THEN c' = [c EXCEPT ![t] = unusedCnv] /\ UNCHANGED <<mine, borrowed>>
       ELSE /\ UNCHANGED c
            /\ IF op[t] = "default"
               THEN borrowed' = [borrowed EXCEPT ![t] = @ \cup {unusedCnv}] /\ UNCHANGED mine
               ELSE mine' = [mine EXCEPT ![t] = @ \cup {unusedCnv}] /\ UNCHANGED borrowed
    /\ continue(t, IF at[t] = "try" THEN "setName" ELSE "idle")
    /\ UNCHANGED <<shared, table_vars, default_vars, budget>>

(* It fails, or ucnv_canCreateConverter() has seen enough: the shared data *)
(* is unloaded.                                                            *)
Unload(t) ==
    /\ at[t] \in {"create", "try"} /\ (d[t] = Static \/ cnvCacheMutex = Null)
    /\ op[t] = "test" \/ "create" \in Failures
    /\ shared' = ucnv_unload(shared, d[t])
    /\ d' = [d EXCEPT ![t] = Null]
    /\ continue(t, IF at[t] = "try" THEN "setName" ELSE "idle")
    /\ UNCHANGED <<table_vars, cnv_vars, default_vars, c, budget>>

(* ucnv_close(). *)
CloseConverter(t) ==
    /\ at[t] = "close" /\ (cnv[c[t]] = Static \/ cnvCacheMutex = Null)
    /\ shared' = ucnv_unload(shared, cnv[c[t]])
    /\ cnv' = [cnv EXCEPT ![c[t]] = Null]
    /\ c' = [c EXCEPT ![t] = Null]
    /\ continue(t, CASE op[t] \in {"open", "default"} -> "algorithmic"
                     [] op[t] \in {"flush", "cleanup"} -> "check"
                     [] OTHER -> "idle")
    /\ UNCHANGED <<table_vars, mine, borrowed, default_vars, d, budget>>
-----------------------------------------------------------------------------
cached == {n \in Name : table[n] # Null}

(* ucnv_flushCache() returns, to the client or to ucnv_cleanup(). *)
flushReturns(t) == continue(t, IF op[t] = "cleanup" THEN "cleanup" ELSE "idle")

(* SHARED_DATA_HASHTABLE is tested without the lock. *)
CheckTable(t) ==
    /\ at[t] = "check"
    /\ IF hashtable THEN continue(t, "lock") ELSE flushReturns(t)
    /\ UNCHANGED <<shared, table_vars, cnv_vars, default_vars, d, c, budget>>

FlushLock(t) ==
    /\ at[t] = "lock" /\ cnvCacheMutex = Null
    /\ cnvCacheMutex' = t /\ pending' = cached /\ pass' = 0
    /\ continue(t, "flush")
    /\ UNCHANGED <<shared, hashtable, table, cnv_vars, default_vars, d, c, budget>>

(* The next element of the iteration: deleted when nothing refers to it. *)
FlushElement(t, n) ==
    /\ at[t] = "flush" /\ n \in pending
    /\ pending' = pending \ {n}
    /\ IF shared[table[n]].referenceCounter = 0
       THEN /\ table' = [table EXCEPT ![n] = Null]
            /\ shared' = deleteSharedConverterData(shared, table[n])
       ELSE UNCHANGED <<shared, table>>
    /\ UNCHANGED <<hashtable, cnvCacheMutex, pass, cnv_vars, default_vars, local_vars>>

(* Mutant: a single pass. *)
FlushOnce(t) ==
    /\ at[t] = "flush" /\ pending = {}
    /\ cnvCacheMutex' = Null
    /\ flushReturns(t)
    /\ UNCHANGED <<shared, hashtable, table, pending, pass, cnv_vars, default_vars, d, c, budget>>

(* The outer loop: a second pass when something remains. *)
FlushPassEnd(t) ==
    /\ at[t] = "flush" /\ pending = {}
    /\ IF pass = 0 /\ cached # {}
       THEN /\ pass' = 1 /\ pending' = cached
            /\ UNCHANGED <<cnvCacheMutex, at, op, want, name>>
       ELSE /\ cnvCacheMutex' = Null /\ pass' = 0
            /\ flushReturns(t) /\ UNCHANGED pending
    /\ UNCHANGED <<shared, hashtable, table, cnv_vars, default_vars, d, c, budget>>

(* The rest of ucnv_cleanup(). *)
EndCleanup(t) ==
    /\ at[t] = "cleanup"
    /\ hashtable' = (hashtable /\ cached # {})
    /\ gDefaultConverterName' = Null
    /\ continue(t, "idle")
    /\ UNCHANGED <<shared, table, flush_vars, cnv_vars, gDefaultConverter, d, c, budget>>

Next ==
    \E t \in Thread :
        \/ \E n \in Name : Open(t, n) \/ FlushElement(t, n)
        \/ \E x \in Cnv : Release(t, x) \/ Close(t, x) \/ Clone(t, x)
        \/ OpenDefault(t) \/ GetDefault(t) \/ BeginCleanup(t)
        \/ Take(t) \/ Put(t) \/ GetDefaultName(t) \/ InternalSetName(t) \/ Algorithmic(t)
        \/ Load(t) \/ Create(t) \/ Unload(t) \/ CloseConverter(t)
        \/ CheckTable(t) \/ FlushLock(t) \/ FlushPassEnd(t) \/ EndCleanup(t)

Spec == Init /\ [][Next]_vars
-----------------------------------------------------------------------------
Pc == {"idle", "name", "take", "put", "probe", "try", "setName", "algorithmic", "load", "create",
       "close", "check", "lock", "flush", "cleanup"}

(* Every variable has the type of the field or local that it stands for;   *)
(* no reference counter is negative.                                       *)
TypeOK ==
    /\ shared \in [Data -> SharedData \cup {Null}]
    /\ hashtable \in BOOLEAN /\ table \in [Name -> Data \cup {Null}]
    /\ cnvCacheMutex \in Thread \cup {Null} /\ pending \subseteq Name /\ pass \in {0, 1}
    /\ cnv \in [Cnv -> Data \cup {Static, Null}]
    /\ mine \in [Thread -> SUBSET Cnv] /\ borrowed \in [Thread -> SUBSET Cnv]
    /\ gDefaultConverter \in Cnv \cup {Null}
    /\ gDefaultConverterName \in {Codepage, Static, Null}
    /\ at \in [Thread -> Pc]
    /\ op \in [Thread -> AllClients \cup {"none", "release", "close", "cleanup"}]
    /\ want \in [Thread -> Name \cup {Static, Null}]
    /\ d \in [Thread -> Data \cup {Static, Null}]
    /\ c \in [Thread -> Cnv \cup {Null}]
    /\ name \in [Thread -> Data \cup {"buffer", "literal", Static, Null}]
    /\ budget \in 0..MaxCalls

live(x) == x \in Data /\ shared[x] # Null

(* Whatever the order of opens, clones, closes, failed loads and flushes,  *)
(* referenceCounter is the number of converters, converters being created  *)
(* and extension tables that use the shared data.                          *)
RefCountsExact ==
    \A x \in Data : live(x) =>
        shared[x].referenceCounter =
            Cardinality({y \in Cnv : cnv[y] = x}) + Cardinality({t \in Thread : d[t] = x})
            + Cardinality({y \in Data : live(y) /\ shared[y].base = x})

(* Shared data is not freed while a converter, a thread that loaded it, an *)
(* extension table or the cache refers to it.                              *)
NothingDangles ==
    /\ \A y \in Cnv : cnv[y] \in Data => live(cnv[y])
    /\ \A t \in Thread : d[t] \in Data => live(d[t])
    /\ \A x \in Data : live(x) /\ shared[x].base # Null => live(shared[x].base)
    /\ \A n \in Name : table[n] # Null => live(table[n]) /\ shared[table[n]].name = n

(* Nothing is lost: shared data that nobody uses is in the cache, and what *)
(* is marked as cached is what the cache returns for its name.             *)
NothingLeaks ==
    \A x \in Data : live(x) =>
        /\ shared[x].referenceCounter > 0 \/ shared[x].sharedDataCached
        /\ shared[x].sharedDataCached <=> table[shared[x].name] = x

(* Shared data exists as long as somebody refers to it, and no longer: it  *)
(* is not freed in use, and what nobody uses is in the cache, which can    *)
(* free it (ucnv_bld.cpp:572-598).                                         *)
SharedDataLives == TypeOK /\ NothingDangles /\ NothingLeaks

(* A UConverter is for one thread at a time: every open one is with one    *)
(* thread or is the cached default converter, never both, never nowhere.   *)
OneOwner ==
    \A y \in Cnv :
        LET owners == {t \in Thread : y \in mine[t]} \cup {t \in Thread : y \in borrowed[t]}
                      \cup {t \in Thread : c[t] = y} \cup {x \in {Null} : gDefaultConverter = y}
        IN  /\ Cardinality(owners) = IF cnv[y] = Null THEN 0 ELSE 1
            /\ \A t \in Thread : Cardinality({k \in 1..3 : y \in <<mine[t], borrowed[t], {c[t]}>>[k]}) <= 1

inUse(x) ==
    \/ \E y \in Cnv : cnv[y] = x
    \/ \E t \in Thread : d[t] = x

(* ucnv_flushCache() "frees all shared immutable objects that aren't       *)
(* referred to", in whatever order the hash table yields extension and     *)
(* base tables: what it leaves is in use, or is the base of such data.     *)
FlushComplete ==
    [][cnvCacheMutex # Null /\ cnvCacheMutex' = Null =>
         \A x \in Data : live(x)' =>
            inUse(x)' \/ \E y \in Data : live(y)' /\ shared'[y].base = x /\ inUse(y)']_vars

(* ucnv_cleanup() deletes all storage "except any in use by open           *)
(* converters": when none is open, nothing remains.                        *)
CleanupFrees ==
    [][\A t \in Thread : at[t] = "cleanup" /\ at'[t] = "idle" /\ (\A y \in Cnv : cnv[y] = Null) =>
         ~hashtable' /\ \A x \in Data : shared'[x] = Null]_vars

(* "Concurrent calls to ucnv_getDefaultName must be thread safe", and the  *)
(* string is storage "owned by the library": while a thread uses the name, *)
(* the memory it points to is not freed.                                   *)
DefaultNameLive ==
    \A t \in Thread : name[t] \in Data /\ at[t] = "load" => live(name[t])

(* "If NULL is passed for the converter name, it will create one with the  *)
(* getDefaultName return value": also when the attempt of another thread   *)
(* to find the default name ends differently.                              *)
OpensDefaultName ==
    \A t \in Thread : at[t] = "create" /\ name[t] \in Data \cup {"literal"} =>
        (d[t] = Static <=> want[t] = Static)
=============================================================================
