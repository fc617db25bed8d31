------------------------------- MODULE UData -------------------------------
(***************************************************************************)
(* Loading of data items (common/udata.cpp): the array of ICU data         *)
(* packages, the cache of opened packages, the late search for the .dat    *)
(* file of the full ICU data, and the ownership of mapped memory.          *)
(*                                                                         *)
(* A step is what a thread does between two points where another can see   *)
(* or change shared state: a section under the global mutex, an access of  *)
(* an object after the mutex was left, or a file operation.  What packages *)
(* and files contain is constant.  The hash table of the cache exists (see *)
(* UInitOnce) and memory does not run out.                                 *)
(***************************************************************************)
EXTENDS Integers, Sequences, FiniteSets

CONSTANTS
    Thread, NoThread,
    Path,       \* paths of application packages, <<directory, base name>>
    IcuBase,    \* <<"", U_ICUDATA_NAME>>
    LinkedIn,   \* the package at U_ICUDATA_ENTRY_POINT
    CommonData, \* packages that the user passes to udata_setCommonData()
    AppData,    \* packages that the user passes to udata_setAppData()
    Name,       \* names of data items
    ZoneName,   \* the names for which isTimeZoneFile() holds
    Requests,   \* the <<path, name>> that threads open
    Holds,      \* Holds[p][n]: what package p has for item n, see Content
    DatFile,    \* DatFile[b]: the .dat file with base name b, see FileKind
    Single,     \* Single[d][n]: the individual file of item n in directory d
    HasDataDir, \* u_getDataDirectory() is not empty
    Accesses,   \* the values of gDataFileAccess
    Stdio,      \* MAP_IMPLEMENTATION is MAP_STDIO
    Slots,      \* UPRV_LENGTHOF(gCommonICUDataArray)
    MaxMap,     \* bound on the number of files mapped at the same time
    MaxCleanup, \* bound on the number of calls of u_cleanup()
    ICU,        \* the path NULL or "ICUDATA" of an ICU data item
    NULL

Content == {"absent", "rejected", "accepted"}   \* by the caller's isAcceptable()
FileKind == {"absent", "invalid", "valid"}      \* by udata_checkCommonData()

\* findBasename(); it is the key of the cache.
findBasename(path) == <<"", path[2]>>
Base == {IcuBase} \cup {findBasename(path) : path \in Path}

\* A package is a pair of strings; in a .dat file it is named after the file.
Package == {LinkedIn} \cup CommonData \cup AppData \cup Base
Index == 0 .. Slots - 1

ASSUME UDataAssumption ==
    /\ Holds \in [Package -> [Name -> Content]]
    /\ DatFile \in [Base -> FileKind]
    /\ Single \in [{"zoneFiles", "files"} -> [Name -> Content]]
    /\ Requests \subseteq ({ICU} \cup Path) \X Name
    /\ Accesses \subseteq {"filesFirst", "onlyPackages", "packagesFirst", "noFiles"}
    /\ Stdio \in BOOLEAN
    /\ Slots \in Nat \ {0}

VARIABLES array,      \* gCommonICUDataArray
          cache,      \* gCommonDataCache: the item of each base name
          tried,      \* gHaveTriedToLoadCommonData
          extendLock, \* extendICUDataMutex
          mapped,     \* the files in memory, by number
          th,         \* the call of each thread, see Idle
          handle,     \* what the last udata_open() of each thread returned
          access,     \* gDataFileAccess
          searched,   \* the .dat file of ICU was looked for or was in the cache
          cleanups    \* how often udata_cleanup() ran

vars == <<array, cache, tried, extendLock, mapped, th, handle, access, searched, cleanups>>

-----------------------------------------------------------------------------
(* UDataMemory.  Its memory is a package, with the number of the mapping   *)
(* if it came from a file; map says that closing the object unmaps it.     *)

Static(package) == [package |-> package, no |-> 0, map |-> FALSE]
Mapping(package, no) == [package |-> package, no |-> no, map |-> TRUE]
WithoutMap(m) == [m EXCEPT !.map = FALSE]
SameHeader(m, o) == m # NULL /\ m.package = o.package /\ m.no = o.no

Memory == [package : Package \cup ({"file"} \X Name), no : 0 .. MaxMap, map : BOOLEAN]

Idle == [pc |-> "idle", path |-> ICU, name |-> NULL, todo |-> << >>, index |-> 0,
         checked |-> FALSE, failed |-> FALSE, p |-> NULL, tData |-> NULL, start |-> {}]

\* The objects that own a mapping.
Owners == {cache[b] : b \in Base} \cup {array[i] : i \in Index} \cup
          {handle[t] : t \in Thread} \cup {th[t].tData : t \in Thread}
Numbers == {m.no : m \in Owners \ {NULL}} \cup
           {th[t].p.no : t \in {u \in Thread : th[u].p # NULL}}

\* uprv_mapFile(): the memory gets a number that nothing refers to.
fresh == CHOOSE no \in 1 .. MaxMap : no \notin mapped \cup Numbers
canMap == 1 .. MaxMap \ (mapped \cup Numbers) # {}

\* udata_close(): unmaps what the object owns.
udata_close(m) == IF m # NULL /\ m.map THEN mapped \ {m.no} ELSE mapped

Pointer(m) == m = NULL \/ m \in Memory

TypeOK ==
    /\ DOMAIN array = Index /\ \A i \in Index : Pointer(array[i])
    /\ DOMAIN cache = Base /\ \A b \in Base : Pointer(cache[b])
    /\ tried \in BOOLEAN
    /\ extendLock \in Thread \cup {NoThread}
    /\ mapped \subseteq 1 .. MaxMap
    /\ DOMAIN th = Thread /\ DOMAIN handle = Thread
    /\ \A t \in Thread :
          /\ th[t].index \in 0 .. Slots
          /\ Pointer(th[t].p) /\ Pointer(th[t].tData) /\ Pointer(handle[t])
          /\ (extendLock = t) => th[t].pc \notin {"idle", "slot", "linked", "reread"}

Init ==
    /\ array = [i \in Index |-> NULL]
    /\ cache = [b \in Base |-> NULL]
    /\ tried = FALSE
    /\ extendLock = NoThread
    /\ mapped = {}
    /\ th = [t \in Thread |-> Idle]
    /\ handle = [t \in Thread |-> NULL]
    /\ access \in Accesses
    /\ searched = FALSE
    /\ cleanups = 0

-----------------------------------------------------------------------------
(* The shared tables.                                                      *)

\* The section under the mutex in setCommonICUData(): fill the first free slot
\* unless the same data comes before it.
setCommonICUData(m) ==
    LET free == {i \in Index : array[i] = NULL}
    IN  IF (\E i \in Index : SameHeader(array[i], m)) \/ free = {} THEN array
        ELSE [array EXCEPT ![CHOOSE i \in free : \A j \in free : i <= j] = m]

\* What uhash_get() finds: the keys are base names.
cached(path) == IF path \in Base THEN cache[path] ELSE NULL

\* udata_cacheDataItem(): the item that is now in the cache for path, with what
\* becomes of the cache and of the memory of an item that uhash_put() replaces.
udata_cacheDataItem(path, m) ==
    LET old == cached(path)
        b == findBasename(path)
    IN  IF old # NULL
        THEN [item |-> old, cache |-> cache, mapped |-> mapped]
        ELSE [item |-> m, cache |-> [cache EXCEPT ![b] = m], mapped |-> udata_close(cache[b])]

udata_setCommonData(t, d) ==
    /\ th[t].pc = "idle"
    /\ array' = setCommonICUData(Static(d))
    /\ UNCHANGED <<cache, tried, extendLock, mapped, th, handle, access, searched, cleanups>>

udata_setAppData(t, path, d) ==
    /\ th[t].pc = "idle"
    /\ LET r == udata_cacheDataItem(path, Static(d))
       IN  cache' = r.cache /\ mapped' = r.mapped
    /\ UNCHANGED <<array, tried, extendLock, th, handle, access, searched, cleanups>>

-----------------------------------------------------------------------------
(* doOpenChoice()                                                          *)

isICUData(t) == th[t].path = ICU

\* The places where doOpenChoice() looks, in order.
places(name, path) ==
    LET zone == IF path = ICU /\ name \in ZoneName THEN <<"zoneFiles">> ELSE << >>
        files == IF HasDataDir \/ path # ICU THEN <<"files">> ELSE << >>
    IN  zone \o (CASE access = "filesFirst" -> files \o <<"packages">>
                   [] access = "packagesFirst" -> <<"packages">> \o files
                   [] OTHER -> <<"packages">>)

Step(t, from, changes) ==
    /\ th[t].pc = from
    /\ th' = [th EXCEPT ![t] = changes]

\* doLoadFromCommonData() starts with index 0 for ICU data; other packages are
\* looked for in the cache.
enterPackages(r) == [r EXCEPT !.pc = IF r.path = ICU THEN "slot" ELSE "find", !.index = 0,
                              !.checked = FALSE, !.p = NULL]

\* The next place to look at, or the end of doOpenChoice().
enterPlace(r) ==
    IF r.todo = << >> THEN Idle
    ELSE IF Head(r.todo) # "packages" THEN [r EXCEPT !.pc = "files", !.p = NULL]
    ELSE IF r.failed /\ r.path # ICU THEN [r EXCEPT !.pc = "looked", !.p = NULL]
    ELSE enterPackages(r)

nextPlace(r) == enterPlace([r EXCEPT !.todo = Tail(@)])

udata_open(t, path, name) ==
    /\ handle[t] = NULL
    /\ Step(t, "idle", enterPlace([Idle EXCEPT !.path = path, !.name = name,
              !.todo = places(name, path), !.start = {array[i] : i \in Index} \ {NULL}]))
    /\ UNCHANGED <<array, cache, tried, extendLock, mapped, handle, access, searched, cleanups>>

\* doLoadFromIndividualFiles(): a rejected file is unmapped again.
doLoadFromIndividualFiles(t) ==
    /\ th[t].pc = "files"
    /\ canMap
    /\ LET found == Single[Head(th[t].todo)][th[t].name]
       IN  IF found = "accepted"
           THEN /\ th' = [th EXCEPT ![t] = Idle]
                /\ handle' = [handle EXCEPT ![t] = Mapping(<<"file", th[t].name>>, fresh)]
                /\ mapped' = mapped \cup {fresh}
           ELSE /\ th' = [th EXCEPT ![t] =
                             nextPlace([@ EXCEPT !.failed = @ \/ found = "rejected"])]
                /\ UNCHANGED <<handle, mapped>>
    /\ UNCHANGED <<array, cache, tried, extendLock, access, searched, cleanups>>

udata_closeHandle(t) ==
    /\ th[t].pc = "idle"
    /\ handle[t] # NULL
    /\ mapped' = udata_close(handle[t])
    /\ handle' = [handle EXCEPT ![t] = NULL]
    /\ UNCHANGED <<array, cache, tried, extendLock, th, access, searched, cleanups>>

-----------------------------------------------------------------------------
(* doLoadFromCommonData() with openCommonData()                            *)

\* openCommonData() for the slot of the array that is next, up to the end of
\* its first section under the mutex.
openSlot(t) ==
    LET r == th[t] IN
    /\ Step(t, "slot",
         CASE r.failed \/ r.index >= Slots -> [r EXCEPT !.pc = "looked", !.p = NULL]
           [] OTHER ->
                IF array[r.index] # NULL THEN [r EXCEPT !.pc = "looked", !.p = array[r.index]]
                ELSE IF \E i \in 0 .. r.index - 1 : SameHeader(array[i], Static(LinkedIn))
                THEN [r EXCEPT !.pc = "looked", !.p = NULL]
                ELSE [r EXCEPT !.pc = "linked"])
    /\ UNCHANGED <<array, cache, tried, extendLock, mapped, handle, access, searched, cleanups>>

\* The linked-in data is added to the array ...
addLinkedIn(t) ==
    /\ Step(t, "linked", [th[t] EXCEPT !.pc = "reread"])
    /\ array' = setCommonICUData(Static(LinkedIn))
    /\ UNCHANGED <<cache, tried, extendLock, mapped, handle, access, searched, cleanups>>

\* ... and the slot is read again under the mutex.
readSlot(t) ==
    /\ Step(t, "reread", [th[t] EXCEPT !.pc = "looked", !.p = array[th[t].index]])
    /\ UNCHANGED <<array, cache, tried, extendLock, mapped, handle, access, searched, cleanups>>

\* A loop that does not remember that the .dat file was tried.
loopOn(r) ==
    IF r.path # ICU THEN nextPlace(r)
    ELSE IF r.p # NULL THEN [r EXCEPT !.pc = "slot", !.index = @ + 1, !.p = NULL]
    ELSE [r EXCEPT !.pc = "extend"]

\* The end of the loop of doLoadFromCommonData(): the next package, the .dat
\* file, or no more places.
loop(r) ==
    IF r.path # ICU THEN nextPlace(r)
    ELSE IF r.p # NULL THEN [r EXCEPT !.pc = "slot", !.index = @ + 1, !.p = NULL]
    ELSE IF ~r.checked THEN [r EXCEPT !.pc = "extend"]
    ELSE nextPlace(r)

\* The lookup in the package that openCommonData() returned, checkDataItem(),
\* and the decision how to go on.
lookup(t) ==
    LET r == th[t]
        found == IF ~r.failed /\ r.p # NULL THEN Holds[r.p.package][r.name] ELSE "absent"
    IN  /\ r.pc = "looked"
        /\ IF found = "accepted"
           THEN /\ th' = [th EXCEPT ![t] = Idle]
                /\ handle' = [handle EXCEPT ![t] = WithoutMap(r.p)]
           ELSE /\ th' = [th EXCEPT ![t] =
                             loop([r EXCEPT !.failed = @ \/ found = "rejected"])]
                /\ UNCHANGED handle
        /\ UNCHANGED <<array, cache, tried, extendLock, mapped, access, searched, cleanups>>

-----------------------------------------------------------------------------
(* openCommonData() for a .dat file                                        *)

fileBase(r) == IF r.path = ICU THEN IcuBase ELSE findBasename(r.path)

\* Where openCommonData() returns to: extendICUData() or the lookup.
opened(r, m) == [r EXCEPT !.pc = IF r.path = ICU THEN "setCommon" ELSE "looked",
                          !.p = m, !.tData = NULL]

\* The section under the mutex in udata_findCachedData().
udata_findCachedData(t) ==
    LET el == cache[fileBase(th[t])] IN
    /\ Step(t, "find", [th[t] EXCEPT !.pc = IF el = NULL THEN "map" ELSE "found", !.p = el])
    /\ searched' = (searched \/ isICUData(t))
    /\ UNCHANGED <<array, cache, tried, extendLock, mapped, handle, access, cleanups>>

\* It reads the item of the element after the mutex was left.
readItem(t) ==
    /\ Step(t, "found", opened(th[t], th[t].p))
    /\ UNCHANGED <<array, cache, tried, extendLock, mapped, handle, access, searched, cleanups>>

\* uprv_mapFile() and udata_checkCommonData(), which unmaps what is not valid.
mapFile(t) ==
    /\ canMap
    /\ LET b == fileBase(th[t])
           valid == DatFile[b] = "valid"
       IN  /\ Step(t, "map",
                IF valid THEN [th[t] EXCEPT !.pc = "cacheItem", !.tData = Mapping(b, fresh)]
                ELSE opened([th[t] EXCEPT !.failed = TRUE], NULL))
           /\ mapped' = IF valid THEN mapped \cup {fresh} ELSE mapped
    /\ UNCHANGED <<array, cache, tried, extendLock, handle, access, searched, cleanups>>

cacheItem(t) ==
    LET r == udata_cacheDataItem(fileBase(th[t]), th[t].tData) IN
    /\ Step(t, "cacheItem", opened(th[t], r.item))
    /\ cache' = r.cache
    /\ mapped' = r.mapped
    /\ UNCHANGED <<array, tried, extendLock, handle, access, searched, cleanups>>

-----------------------------------------------------------------------------
(* extendICUData()                                                         *)

\* The flag is set before the file is looked for.
extendTriedFirst(t) ==
    /\ Stdio => extendLock = NoThread
    /\ extendLock' = IF Stdio THEN t ELSE NoThread
    /\ Step(t, "extend", IF tried THEN [th[t] EXCEPT !.pc = "byName"]
                         ELSE [th[t] EXCEPT !.pc = "find"])
    /\ tried' = TRUE
    /\ UNCHANGED <<array, cache, mapped, handle, access, searched, cleanups>>

\* The mutex, if there is one, and the test of gHaveTriedToLoadCommonData.
\* openCommonData() returns at once if an error is already set.
extendICUData(t) ==
    /\ Stdio => extendLock = NoThread
    /\ extendLock' = IF Stdio THEN t ELSE NoThread
    /\ Step(t, "extend", IF tried THEN [th[t] EXCEPT !.pc = "byName"]
                         ELSE IF th[t].failed THEN opened(th[t], NULL)
                         ELSE [th[t] EXCEPT !.pc = "find"])
    /\ UNCHANGED <<array, cache, tried, mapped, handle, access, searched, cleanups>>

\* The copy for the array keeps the mapping of the item in the cache.
copyOwning(m) == m

\* The copy for the array does not own the mapping.
copyPData(m) == WithoutMap(m)

setCommon(t) ==
    /\ Step(t, "setCommon", [th[t] EXCEPT !.pc = "store", !.p = NULL])
    /\ array' = IF th[t].p # NULL THEN setCommonICUData(copyPData(th[t].p)) ELSE array
    /\ UNCHANGED <<cache, tried, extendLock, mapped, handle, access, searched, cleanups>>

storeTried(t) ==
    /\ Step(t, "store", [th[t] EXCEPT !.pc = "byName"])
    /\ tried' = TRUE
    /\ UNCHANGED <<array, cache, extendLock, mapped, handle, access, searched, cleanups>>

\* extendICUData() returns; the loop tries the slot again if it found the data.
extended(t, r, found) ==
    /\ th' = [th EXCEPT ![t] = IF found THEN [r EXCEPT !.pc = "slot", !.checked = TRUE, !.p = NULL]
                               ELSE nextPlace(r)]
    /\ extendLock' = NoThread

\* findCommonICUDataByName(): the cache, then the array.
findCached(t) ==
    LET r == th[t]
        el == IF r.failed THEN NULL ELSE cache[IcuBase]
    IN  /\ r.pc = "byName"
        /\ IF el = NULL THEN extended(t, r, FALSE)
           ELSE /\ th' = [th EXCEPT ![t] = [r EXCEPT !.pc = "compare", !.p = el]]
                /\ UNCHANGED extendLock
        /\ UNCHANGED <<array, cache, tried, mapped, handle, access, searched, cleanups>>

findInArray(t) ==
    LET r == th[t] IN
    /\ r.pc = "compare"
    /\ extended(t, r, \E i \in Index : SameHeader(array[i], r.p))
    /\ UNCHANGED <<array, cache, tried, mapped, handle, access, searched, cleanups>>

-----------------------------------------------------------------------------
\* u_cleanup() with udata_cleanup(); no other thread uses ICU and everything is
\* closed.
udata_cleanup ==
    /\ cleanups < MaxCleanup
    /\ \A t \in Thread : th[t].pc = "idle" /\ handle[t] = NULL
    /\ mapped' = mapped \ {m.no : m \in {o \in Owners \ {NULL} : o.map}}
    /\ cache' = [b \in Base |-> NULL]
    /\ array' = [i \in Index |-> NULL]
    /\ tried' = FALSE
    /\ searched' = FALSE
    /\ cleanups' = cleanups + 1
    /\ UNCHANGED <<extendLock, th, handle, access>>

insideOpen(t) ==
    \/ doLoadFromIndividualFiles(t) \/ openSlot(t) \/ addLinkedIn(t) \/ readSlot(t)
    \/ lookup(t) \/ udata_findCachedData(t) \/ readItem(t) \/ mapFile(t) \/ cacheItem(t)
    \/ extendICUData(t) \/ setCommon(t) \/ storeTried(t) \/ findCached(t) \/ findInArray(t)

Next ==
    \/ \E t \in Thread :
          \/ \E q \in Requests : udata_open(t, q[1], q[2])
          \/ insideOpen(t)
          \/ udata_closeHandle(t)
          \/ \E d \in CommonData : udata_setCommonData(t, d)
          \/ \E path \in Path, d \in AppData : udata_setAppData(t, path, d)
    \/ udata_cleanup

Spec == Init /\ [][Next]_vars

\* A call that was entered goes on, and gets extendICUDataMutex in the end.
FairSpec == Spec /\ \A t \in Thread : SF_vars(insideOpen(t))

-----------------------------------------------------------------------------
(* Properties                                                              *)

\* A thread that left the mutex with a pointer to an item of the cache, or to a
\* package of the array, still finds it there (udata.cpp:250: "Data remains
\* cached for the duration of the process"), the memory that a client got from
\* udata_open() stays mapped until it closes it, and openCommonData() finds no
\* empty slot before its index (udata.cpp:677).
NothingDangles ==
    /\ \A t \in Thread :
          /\ th[t].p # NULL => th[t].p \in Owners
          /\ handle[t] # NULL => handle[t].no \in mapped \cup {0}
          /\ \A i \in 0 .. th[t].index - 1 : th[t].pc \in {"slot", "linked"} => array[i] # NULL
    /\ \A i \in Index : array[i] # NULL => array[i].no \in mapped \cup {0}

\* Two objects never own the same mapping, so that it is unmapped once
\* (udata.cpp:824-829).
OneOwner ==
    \A no \in mapped : Cardinality({<<k, x>> \in
          ({"cache"} \X Base) \cup ({"array"} \X Index) \cup ({"handle", "thread"} \X Thread) :
              LET m == CASE k = "cache" -> cache[x] [] k = "array" -> array[x]
                         [] k = "handle" -> handle[x] [] k = "thread" -> th[x].tData
              IN  m # NULL /\ m.no = no /\ m.map}) <= 1

\* The memory of a file has an owner as long as it is mapped: the object in the
\* cache for a .dat file, the client's object for an individual file
\* (udata.cpp:1095-1105).
NothingLeaks ==
    \A no \in mapped : \E m \in Owners : m # NULL /\ m.no = no /\ m.map

\* The array holds no package twice, and no two copies of one .dat file, even if
\* threads race to load it (extendICUData, udata.cpp:799-806).
OneCopy ==
    \A i, j \in Index :
        i # j /\ array[i] # NULL /\ array[j] # NULL => array[i].package # array[j].package

\* Threads that race to load a package load it once, and nothing that is used
\* is unmapped.
OneLoad == TypeOK /\ OneCopy /\ OneOwner /\ NothingDangles

\* Once gHaveTriedToLoadCommonData is set, the .dat file of ICU has been looked
\* for (udata.cpp:784: "load it now").
TriedMeansSearched == tried => searched

\* With UDATA_NO_FILES no file is opened (udata.h:411).
NoFiles == access = "noFiles" => \A t \in Thread : th[t].pc \notin {"files", "map"}

\* An item in the cache is never replaced: setAppData() for a package that is
\* already known has no effect (udata.h:380-383).
KeepsCached ==
    cleanups' = cleanups => \A b \in Base : cache[b] # NULL => cache'[b] = cache[b]

Returns(t) == th[t].pc # "idle" /\ th'[t].pc = "idle"
Full == \A i \in Index : array[i] # NULL

\* udata_open() of an ICU item fails only if no package that was in the array
\* when it was called has the item, and neither has the linked-in data or the
\* .dat file, whichever thread loads it, unless there is no slot for them.
FoundIfPresent(t) ==
    Returns(t) /\ isICUData(t) /\ handle'[t] = NULL =>
        LET has(package) == Holds[package][th[t].name] = "accepted"
        IN  /\ \A m \in th[t].start : ~has(m.package)
            /\ has(LinkedIn) => Full
            /\ (DatFile[IcuBase] = "valid" /\ has(IcuBase)) => Full

\* Where isAcceptable() turns items down, an open may also fail because the
\* first package of the array that has the item has one that is turned down
\* (udata.cpp:658; the comment at udata.cpp:948 promises more).
TurnedDown(t) ==
    /\ th[t].failed
    /\ \E i \in Index :
          /\ array[i] # NULL /\ Holds[array[i].package][th[t].name] = "rejected"
          /\ \A j \in 0 .. i - 1 : Holds[array[j].package][th[t].name] = "absent"

\* An ICU item comes from the first package of the array that has it
\* (udata.h:345: "in the order in which they were set").
FirstPackageWins(t) ==
    Returns(t) /\ isICUData(t) /\ handle'[t] # NULL =>
        \A i, j \in Index :
            (i < j /\ array[i] # NULL /\ SameHeader(array[j], handle'[t])) =>
                Holds[array[i].package][th[t].name] = "absent"

\* What every step does: it finds what is there, in the first package that has
\* it, and replaces nothing; with items that are turned down, the first package
\* that has the item decides.
FindsInOrder ==
    KeepsCached /\ \A t \in Thread : FoundIfPresent(t) /\ FirstPackageWins(t)
DecidesInOrder ==
    KeepsCached /\ \A t \in Thread : (FoundIfPresent(t) \/ TurnedDown(t)) /\ FirstPackageWins(t)

\* Every udata_open() returns (doLoadFromCommonData, udata.cpp:1039).
EveryOpenReturns == \A t \in Thread : (th[t].pc # "idle") ~> (th[t].pc = "idle")
=============================================================================
