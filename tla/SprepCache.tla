----------------------------- MODULE SprepCache -----------------------------
(***************************************************************************)
(* The cache of StringPrep profiles of usprep.cpp.  Profiles are counted   *)
(* and shared; one that is missing is loaded outside of usprepMutex and    *)
(* looked up a second time before it is inserted.  The Unicode version of  *)
(* the data goes through a variable that all threads share, dataVersion:   *)
(* isSPrepAcceptable() writes it and loadData() compares it with the       *)
(* version of the normalization data.  A version counts here only by       *)
(* whether it is newer than that.                                          *)
(***************************************************************************)
EXTENDS Integers, FiniteSets

CONSTANTS Thread, Name,
          Profile,          \* addresses of UStringPrepProfile
          Newer,            \* names whose data has a newer Unicode version
          Corrected,        \* names with newer corrections, that normalize
          Failing,          \* which of {"memory", "data", "put"} may fail
          NULL

SprepAssumption ==
  /\ Newer \subseteq Name /\ Corrected \subseteq Name
  /\ NULL \notin Profile \cup Name

VARIABLES table,            \* SHARED_DATA_HASHTABLE, by name
          heap,             \* allocated profiles
          sprepData,        \* those with an open UDataMemory
          refCount,
          dataVersion,      \* whether the version written last is newer
          lost,             \* whether memory was left without an owner
          pc, name, mine,   \* of a call of usprep_open: the profile it loads
          profile           \* what a thread has open

vars == <<table, heap, sprepData, refCount, dataVersion, lost, pc, name, mine, profile>>

Init ==
  /\ table = [n \in Name |-> NULL]
  /\ heap = {} /\ sprepData = {}
  /\ refCount = [p \in Profile |-> 0]
  /\ dataVersion = FALSE /\ lost = FALSE
  /\ pc = [t \in Thread |-> "idle"]
  /\ name = [t \in Thread |-> NULL]
  /\ mine = [t \in Thread |-> NULL]
  /\ profile = [t \in Thread |-> NULL]

Goto(t, l) == pc' = [pc EXCEPT ![t] = l]

-----------------------------------------------------------------------------
(* usprep_getProfile                                                       *)

Share(t, p) ==
  /\ refCount' = [refCount EXCEPT ![p] = @ + 1]
  /\ profile' = [profile EXCEPT ![t] = p]

found(t, n) ==
  /\ pc[t] = "idle" /\ profile[t] = NULL
  /\ table[n] # NULL
  /\ Share(t, table[n])
  /\ UNCHANGED <<table, heap, sprepData, dataVersion, lost, pc, name, mine>>

(* The profile is allocated; without memory the call changes nothing.      *)
missing(t, n) ==
  /\ pc[t] = "idle" /\ profile[t] = NULL
  /\ table[n] = NULL
  /\ \E p \in Profile \ heap :
       /\ heap' = heap \cup {p}
       /\ mine' = [mine EXCEPT ![t] = p]
  /\ name' = [name EXCEPT ![t] = n]
  /\ Goto(t, "open")
  /\ UNCHANGED <<table, sprepData, refCount, dataVersion, lost, profile>>

(* The call returns NULL and its LocalMemory frees the new profile.        *)
GiveUp(t) ==
  /\ heap' = heap \ {mine[t]}
  /\ mine' = [mine EXCEPT ![t] = NULL]
  /\ name' = [name EXCEPT ![t] = NULL]
  /\ Goto(t, "idle")

(* udata_openChoice() asks isSPrepAcceptable(), which copies the version.  *)
openChoice(t) ==
  /\ pc[t] = "open"
  /\ dataVersion' = (name[t] \in Newer)
  /\ sprepData' = sprepData \cup {mine[t]}
  /\ Goto(t, "check")
  /\ UNCHANGED <<table, heap, refCount, lost, name, mine, profile>>

(* The data is missing or not acceptable, or does not unserialize; in the  *)
(* last case its version has been copied.                                  *)
openFails(t) ==
  /\ pc[t] = "open" /\ "data" \in Failing
  /\ dataVersion' \in {dataVersion, name[t] \in Newer}
  /\ GiveUp(t)
  /\ UNCHANGED <<table, sprepData, refCount, lost, profile>>

Rejects(t) == dataVersion /\ name[t] \in Corrected

accepted(t) ==
  /\ pc[t] = "check"
  /\ ~Rejects(t)
  /\ Goto(t, "insert")
  /\ UNCHANGED <<table, heap, sprepData, refCount, dataVersion, lost, name, mine, profile>>

(* The profile has taken over the data, so that udata_close(dataMemory)    *)
(* closes nothing.                                                         *)
rejected(t) ==
  /\ pc[t] = "check"
  /\ Rejects(t)
  /\ GiveUp(t)
  /\ sprepData' = sprepData \ {mine[t]} /\ lost' = TRUE
  /\ UNCHANGED <<table, refCount, dataVersion, profile>>

(* No memory for the key: the data is closed.                              *)
keyFails(t) ==
  /\ pc[t] = "insert" /\ "memory" \in Failing
  /\ GiveUp(t)
  /\ sprepData' = sprepData \ {mine[t]}
  /\ UNCHANGED <<table, refCount, dataVersion, lost, profile>>

(* Another thread was faster.  Mutation: its profile is unloaded instead.  *)
unloadTheirs(t) ==
  /\ pc[t] = "insert"
  /\ table[name[t]] # NULL
  /\ Share(t, table[name[t]])
  /\ GiveUp(t)
  /\ sprepData' = sprepData \ {table[name[t]]}
  /\ UNCHANGED <<table, dataVersion, lost>>

insertFound(t) ==
  /\ pc[t] = "insert"
  /\ table[name[t]] # NULL
  /\ Share(t, table[name[t]])
  /\ GiveUp(t)
  /\ sprepData' = sprepData \ {mine[t]}
  /\ UNCHANGED <<table, dataVersion, lost>>

Return(t) ==
  /\ refCount' = [refCount EXCEPT ![mine[t]] = 1]
  /\ profile' = [profile EXCEPT ![t] = mine[t]]
  /\ mine' = [mine EXCEPT ![t] = NULL]
  /\ name' = [name EXCEPT ![t] = NULL]
  /\ Goto(t, "idle")

insertNew(t) ==
  /\ pc[t] = "insert"
  /\ table[name[t]] = NULL
  /\ table' = [table EXCEPT ![name[t]] = mine[t]]
  /\ Return(t)
  /\ UNCHANGED <<heap, sprepData, dataVersion, lost>>

(* The profile is returned all the same, and is in no table.               *)
putFails(t) ==
  /\ pc[t] = "insert" /\ "put" \in Failing
  /\ table[name[t]] = NULL
  /\ Return(t)
  /\ lost' = TRUE
  /\ UNCHANGED <<table, heap, sprepData, dataVersion>>

usprep_close(t) ==
  /\ pc[t] = "idle" /\ profile[t] # NULL
  /\ refCount' = IF refCount[profile[t]] > 0
                   THEN [refCount EXCEPT ![profile[t]] = @ - 1] ELSE refCount
  /\ profile' = [profile EXCEPT ![t] = NULL]
  /\ UNCHANGED <<table, heap, sprepData, dataVersion, lost, pc, name, mine>>

Range(f) == {f[x] : x \in DOMAIN f}

(* u_cleanup() when no thread is in a call and nothing is open: every      *)
(* profile of the table is unloaded, whatever its count.                   *)
usprep_cleanup ==
  /\ \A t \in Thread : pc[t] = "idle" /\ profile[t] = NULL
  /\ Range(table) # {NULL}
  /\ sprepData' = sprepData \ Range(table)
  /\ heap' = heap \ Range(table)
  /\ refCount' = [p \in Profile |-> IF p \in Range(table) THEN 0 ELSE refCount[p]]
  /\ table' = [n \in Name |-> NULL]
  /\ UNCHANGED <<dataVersion, lost, pc, name, mine, profile>>

Next ==
  \/ \E t \in Thread, n \in Name : found(t, n) \/ missing(t, n)
  \/ \E t \in Thread :
       \/ openChoice(t) \/ openFails(t)
       \/ accepted(t) \/ rejected(t)
       \/ keyFails(t) \/ insertFound(t) \/ insertNew(t) \/ putFails(t)
       \/ usprep_close(t)
  \/ usprep_cleanup

Spec == Init /\ [][Next]_vars

-----------------------------------------------------------------------------
(* The types of the variables.                                             *)
TypeOK ==
  /\ table \in [Name -> Profile \cup {NULL}]
  /\ sprepData \in SUBSET heap /\ heap \in SUBSET Profile
  /\ refCount \in [Profile -> Nat]
  /\ dataVersion \in BOOLEAN /\ lost \in BOOLEAN
  /\ pc \in [Thread -> {"idle", "open", "check", "insert"}]
  /\ name \in [Thread -> Name \cup {NULL}]
  /\ mine \in [Thread -> Profile \cup {NULL}]
  /\ profile \in [Thread -> Profile \cup {NULL}]

(* The count of a profile is the number of callers of usprep_open() that   *)
(* have not closed it: the test in usprep_close() never finds 0.           *)
RefCountsExact ==
  \A p \in heap : refCount[p] = Cardinality({t \in Thread : profile[t] = p})

(* A profile in the table has its data open, as has one that is being      *)
(* used, although several threads load and unload the same name.           *)
CachedAreLoaded == (Range(table) \cup Range(profile)) \ {NULL} \subseteq sprepData

(* Threads that load the same profile at the same time share one whose     *)
(* count is exact and whose data stays open.                               *)
ProfilesShared == TypeOK /\ RefCountsExact /\ CachedAreLoaded

(* Two threads that have loaded the same name end up with the profile of   *)
(* the table: everything allocated is in it or is still being loaded, and  *)
(* no UDataMemory was left behind.  u_cleanup() relies on it.              *)
NothingLeaks == ~lost /\ heap = (Range(table) \cup Range(mine)) \ {NULL}

(* loadData() turns down a profile that normalizes and whose data and      *)
(* corrections are newer than the normalization data, whatever else is     *)
(* being loaded: "the Unicode version of SPREP file must be less than      *)
(* the Unicode Vesion of the normalization data".                          *)
VersionIsChecked == \A n \in Newer \cap Corrected : table[n] = NULL
=============================================================================
