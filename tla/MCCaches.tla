------------------------------ MODULE MCCaches ------------------------------
(***************************************************************************)
(* Four caches of the libraries for TLC: currency names (CurrencyCache),   *)
(* resource bundles (ResourceCache), time zone names (TZNamesCache) and    *)
(* StringPrep profiles (SprepCache).  They share no state, so a behaviour  *)
(* exercises one of them, which Init picks, and the others rest.           *)
(***************************************************************************)
EXTENDS CurrencyCache, TLC

CONSTANTS Component,                 \* the caches that are exercised
          Address,                   \* of entries of the time zone name caches
          Object,                    \* of objects that refer to them
          Garbage,
          Bundle,                    \* the client's resource bundles
          NamesFailing,              \* Failing of TZNamesCache
          Profile

VARIABLES component,
          bundles, bundle, asked, aliased, bundleFailures,
          zoneNames, object, building, fault,
          profileTable, profiles, sprepData, profileCount, dataVersion, lost,
          at, loading, mine, profile

bundleVars == <<bundles, bundle, asked, aliased, bundleFailures>>
zoneVars == <<zoneNames, object, building, fault>>
profileVars == <<profileTable, profiles, sprepData, profileCount, dataVersion, lost,
                 at, loading, mine, profile>>
allVars == <<component, vars, bundleVars, zoneVars, profileVars>>

-----------------------------------------------------------------------------
(* Bundles: a locale with its language, an alias of the locale, a language *)
(* without data with a locale that has data, an explicit parent and a      *)
(* bundle without fallback.                                                *)
Plain == [kind |-> "real", to |-> "", parent |-> "", rootParent |-> FALSE,
          noFallback |-> FALSE, pool |-> FALSE]
TreeNames == {"root", "pool", "de", "de_AT", "at", "xx", "xx_YY", "es", "es_MX", "es_419", "nf"}
TreeChop == [n \in TreeNames |->
    CASE n = "de_AT" -> "de" [] n = "xx_YY" -> "xx" [] n \in {"es_MX", "es_419"} -> "es"
      [] OTHER -> ""]
TreeData == [n \in TreeNames |->
    CASE n \in {"root", "de_AT"} -> [Plain EXCEPT !.pool = TRUE]
      [] n = "at" -> [Plain EXCEPT !.kind = "alias", !.to = "de_AT"]
      [] n \in {"xx", "es"} -> [Plain EXCEPT !.kind = "none"]
      [] n = "es_MX" -> [Plain EXCEPT !.parent = "es_419"]
      [] n = "es_419" -> [Plain EXCEPT !.rootParent = TRUE]
      [] n = "nf" -> [Plain EXCEPT !.noFallback = TRUE]
      [] OTHER -> Plain]

(* Memory runs out where entryOpen() has linked nothing yet: at the entry  *)
(* or the insertion of a requested bundle, or in loading one.              *)
BundleFailures ==
  [at : {"entry", "put"}, name : {"at", "xx_YY"}] \cup [at : {"load"}, name : {"de_AT"}]

(* Clients that open aliases and languages, also without memory, and ones  *)
(* that open bundles with other parents, or names without data.            *)
Aliases == INSTANCE ResourceCache WITH
  Name <- TreeNames, Root <- "root", Pool <- "pool", Chop <- TreeChop, NoName <- "",
  Data <- TreeData, Default <- "de_AT", IsDefaultPrefix <- {"de", "de_AT"}, Handle <- Bundle,
  Requests <- {"de_AT", "at", "xx_YY"}, DirectRequests <- {"de_AT", "at", "xx"},
  Failing <- BundleFailures, MaxFailure <- 1, MaxCleanup <- 1,
  st <- bundles, handle <- bundle, failures <- bundleFailures
Parents == INSTANCE ResourceCache WITH
  Name <- TreeNames, Root <- "root", Pool <- "pool", Chop <- TreeChop, NoName <- "",
  Data <- TreeData, Default <- "de_AT", IsDefaultPrefix <- {"de", "de_AT"}, Handle <- Bundle,
  Requests <- {"xx", "es_MX", "nf", "at"}, DirectRequests <- {"de", "xx"},
  Failing <- {}, MaxFailure <- 0, MaxCleanup <- 1,
  st <- bundles, handle <- bundle, failures <- bundleFailures

(* Two locales in both caches of time zone names, a sweep on every second  *)
(* creation.                                                               *)
Names == INSTANCE TZNamesCache WITH
  Locale <- {1, 2}, Entry <- Address, Handle <- Object, SWEEP_INTERVAL <- 2,
  Failing <- NamesFailing, cache <- zoneNames, handle <- object

(* Two profiles; the data of the second is too new.                        *)
Profiles == INSTANCE SprepCache WITH
  Name <- {1, 2}, Newer <- {2}, Corrected <- {2}, Failing <- {"memory", "data", "put"},
  table <- profileTable, heap <- profiles, refCount <- profileCount, pc <- at, name <- loading

ASSUME BundleAssumption == Aliases!DataAssumption /\ Parents!DataAssumption
ASSUME NamesAssumption == Names!NamesCacheAssumption
ASSUME ProfileAssumption == Profiles!SprepAssumption

-----------------------------------------------------------------------------
MCInit == /\ component \in Component
          /\ Init /\ Aliases!Init /\ Names!Init /\ Profiles!Init

MCNext ==
  /\ UNCHANGED component
  /\ \/ component = "currency" /\ Next /\ UNCHANGED <<bundleVars, zoneVars, profileVars>>
     \/ component = "aliases" /\ Aliases!Next /\ UNCHANGED <<vars, zoneVars, profileVars>>
     \/ component = "parents" /\ Parents!Next /\ UNCHANGED <<vars, zoneVars, profileVars>>
     \/ component = "names" /\ Names!Next /\ UNCHANGED <<vars, bundleVars, profileVars>>
     \/ component = "profiles" /\ Profiles!Next /\ UNCHANGED <<vars, bundleVars, zoneVars>>

MCSpec == MCInit /\ [][MCNext]_allVars

Symmetry == Permutations(Thread) \cup Permutations(Entry) \cup Permutations(Bundle)

-----------------------------------------------------------------------------
(* fCountExisting of every bundle counts the open bundles whose chain it   *)
(* is in and the aliases and pool users that refer to it, and nothing that *)
(* is open or linked refers to a freed entry, also after an open that      *)
(* failed before it had linked anything; so when nothing is open, one      *)
(* flush frees all, whatever the order it meets the entries in.            *)
BundlesCounted ==
  /\ component = "aliases" =>
       Aliases!TypeOK /\ Aliases!CountsExact /\ Aliases!NothingDangles /\ Aliases!FlushFreesAll
  /\ component = "parents" =>
       Parents!TypeOK /\ Parents!CountsExact /\ Parents!NothingDangles /\ Parents!FlushFreesAll

(* As long as memory suffices, ures_open() returns the bundle and the      *)
(* parent chain that the names and the data mean, whatever was opened,     *)
(* closed and cached before, with one exception: a bundle that was first   *)
(* reached by ures_openDirect() of an alias keeps the parents that the     *)
(* name of the alias has (uresbund.cpp:762-764).                           *)
BundlesMeant ==
  /\ component = "aliases" /\ bundleFailures = 0 => Aliases!OpensWhatIsLinked
  /\ component = "parents" => Parents!OpensWhatIsLinked

(* The counts of both caches of time zone names are exact up to the end of *)
(* the process, so that no sweep frees an entry that an object or the core *)
(* of a generic entry refers to, and every entry is in its table.          *)
ZoneNamesCounted ==
  Names!TypeOK /\ Names!RefCountsExact /\ Names!NothingDangles /\ Names!NothingLeaks

(* u_cleanup() closes the caches of time zone names in the order that      *)
(* their references demand, and leaves nothing allocated.                  *)
ZoneNamesCleanedUp == Names!CleansUpInOrder

(* TimeZoneGenericNames::createInstance() deletes no instance without an   *)
(* entry, as the assertion in the destructor demands.                      *)
ZoneNamesHaveEntry == Names!HasEntryWhenDeleted

(* Threads that load the same StringPrep profile at the same time share    *)
(* one whose count is exact and whose data stays open.                     *)
ProfilesShared == Profiles!ProfilesShared
=============================================================================
