----------------------------- MODULE ConverterData --------------------------
(***************************************************************************)
(* What ucnv_bld.cpp does to the shared data of converters while it holds  *)
(* cnvCacheMutex: loading, counting, sharing and deleting the reference-   *)
(* counted UConverterSharedData, with the base tables of extension-only    *)
(* files (ucnvmbcs.cpp).  The operators take the allocated shared data sh, *)
(* or the cache m, and return the new one; those of the calls that may     *)
(* fail return the set of their possible results.                          *)
(***************************************************************************)
EXTENDS Integers, FiniteSets

CONSTANTS
    Name,         \* canonical names of data-based converters
    Base,         \* the base table that an extension-only file names, or Null
    Data,         \* addresses of UConverterSharedData, bounds what is loaded
    Static,       \* the shared data of an algorithmic converter (US-ASCII)
    Failures,     \* which calls may fail: "file", "table", "hash", "create"
    Null

ASSUME DataAssumption ==
    /\ Base \in [Name -> Name \cup {Null}]
    /\ \A n \in Name : Base[n] # Null => Base[Base[n]] = Null
    /\ Failures \subseteq {"file", "table", "hash", "create"}
    /\ Static \notin Data \cup {Null} /\ Null \notin Name \cup Data
    /\ IsFiniteSet(Data)

SharedData == [name : Name, referenceCounter : Nat, sharedDataCached : BOOLEAN, base : Data \cup {Null}]

ASSUME SharedDataAssumption == Null \notin SharedData
-----------------------------------------------------------------------------
free(sh) == CHOOSE x \in Data : sh[x] = Null

(* ucnv_data_unFlattenClone(): the static structures start with a count of 1. *)
unFlattenClone(sh, x, n, b) ==
    [sh EXCEPT ![x] = [name |-> n, referenceCounter |-> 1, sharedDataCached |-> FALSE, base |-> b]]

incrementRefCount(sh, x) ==
    IF x = Static THEN sh ELSE [sh EXCEPT ![x].referenceCounter = @ + 1]

decrement(sh, x) == [sh EXCEPT ![x].referenceCounter = IF @ > 0 THEN @ - 1 ELSE @]

(* Mutant: the cache is forgotten. *)
unusedByConverters(sh, x) == sh[x].referenceCounter <= 0

unused(sh, x) == sh[x].referenceCounter <= 0 /\ ~sh[x].sharedDataCached

(* ucnv_unload() of a base table, which has no base itself. *)
unloadBase(sh, x) ==
    LET s == decrement(sh, x) IN IF unused(s, x) THEN [s EXCEPT ![x] = Null] ELSE s

(* ucnv_deleteSharedConverterData() with ucnv_MBCSUnload(). *)
deleteSharedConverterData(sh, x) ==
    LET s == [sh EXCEPT ![x] = Null]
    IN  IF sh[x].base = Null THEN s ELSE unloadBase(s, sh[x].base)

ucnv_unload(sh, x) ==
    IF x = Static THEN sh
    ELSE LET s == decrement(sh, x) IN IF unused(s, x) THEN deleteSharedConverterData(s, x) ELSE s

(* The cache m, a record of sh, tab and hash.  ucnv_shareConverterData()   *)
(* opens the table when it must; the table has room for all converters.    *)
shareConverterData(m, x) ==
    {[m EXCEPT !.sh[x].sharedDataCached = TRUE, !.tab[m.sh[x].name] = x, !.hash = TRUE]}
    \cup IF ~m.hash /\ "hash" \in Failures THEN {m} ELSE {}

Loaded(m, x) == [m |-> m, d |-> x]

Fails(why, m) == IF why \in Failures THEN {Loaded(m, Null)} ELSE {}

(* Mutant: the caller of a cached entry is not counted. *)
hitUncounted(m, n) == {Loaded(m, m.tab[n])}

hit(m, n) == {Loaded([m EXCEPT !.sh = incrementRefCount(@, m.tab[n])], m.tab[n])}

(* ucnv_load() shares what it loads, unless it only tests or loads from a  *)
(* package.                                                                *)
share(m, x, cacheable) == IF cacheable THEN shareConverterData(m, x) ELSE {m}

(* A file with a base table of its own, not yet in the cache. *)
createFromFile(m, n, cacheable) ==
    LET x == free(m.sh)
        r == [m EXCEPT !.sh = unFlattenClone(@, x, n, Null)]
    IN  Fails("file", m) \cup {Loaded(s, x) : s \in share(r, x, cacheable)}

(* ucnv_MBCSLoad() of an extension-only file, whose base table is loaded   *)
(* by base.  When only testing, the base table is released at once.        *)
createExtension(m, n, base, test, cacheable) ==
    LET with(b) ==
            LET x == free(b.m.sh)
                u == [b.m EXCEPT !.sh = ucnv_unload(@, b.d)]
            IN  IF b.d = Null THEN {b}
                ELSE IF test
                     THEN {Loaded([u EXCEPT !.sh = unFlattenClone(@, x, n, Null)], x)}
                     ELSE {Loaded(s, x) :
                              s \in share([b.m EXCEPT !.sh = unFlattenClone(@, x, n, b.d)], x, cacheable)}
                          \cup Fails("table", u)
    IN  Fails("file", m) \cup UNION {with(b) : b \in base}

(* ucnv_load() without a package: the possible results. *)
ucnv_load(m, n, test) ==
    LET plain(b) == IF m.tab[b] # Null THEN hit(m, b) ELSE createFromFile(m, b, ~test)
    IN  IF m.tab[n] # Null THEN hit(m, n)
        ELSE IF Base[n] = Null THEN plain(n)
        ELSE createExtension(m, n, plain(Base[n]), test, ~test)

(* createConverterFromFile() with a package: nothing is looked up or cached. *)
loadFromPackage(m, n) ==
    IF Base[n] = Null THEN createFromFile(m, n, FALSE)
    ELSE createExtension(m, n, createFromFile(m, Base[n], FALSE), FALSE, FALSE)
=============================================================================
