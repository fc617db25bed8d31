------------------------------ MODULE MCUData ------------------------------
(***************************************************************************)
(* Packages and files for TLC.  Item "in" is in the linked-in data, "dat"  *)
(* in the .dat file of ICU only, "user" in both packages that the user may *)
(* set, "both" in the second of them and in the .dat file, "bad" in both,  *)
(* but turned down in the first, "zone" in a time zone file, and "app" in  *)
(* an application package.                                                 *)
(***************************************************************************)
EXTENDS UData

MCIcuBase == <<"", "icudt">>
AppName == <<"", "app">>
AppOnly == {AppName}
MCName == {"in", "dat", "user", "both", "bad", "zone", "app"}
Nothing == [n \in MCName |-> "absent"]
Items(names) == [n \in MCName |-> IF n \in names THEN "accepted" ELSE "absent"]

Linked == <<"memory", "linked">>
User1 == <<"memory", "u1">>
User2 == <<"memory", "u2">>
App1 == <<"memory", "a1">>
TwoUsers == {User1, User2}
OneApp == {App1}

MCHolds == [p \in Package |->
    CASE p = Linked -> Items({"in"})
      [] p = MCIcuBase -> Items({"dat", "both"})
      [] p = User1 -> [Items({"user"}) EXCEPT !["bad"] = "rejected"]
      [] p = User2 -> Items({"user", "both", "bad"})
      [] OTHER -> Items({"app"})]
MCDatFile == [b \in {MCIcuBase, AppName} |-> "valid"]
MCSingle == [d \in {"zoneFiles", "files"} |->
    IF d = "zoneFiles" THEN Items({"zone"}) ELSE Nothing]

PackageRequests == {<<ICU, n>> : n \in {"both", "user"}}
RejectedRequests == {<<ICU, n>> : n \in {"bad", "user"}}
FileRequests == {<<ICU, n>> : n \in {"dat", "zone"}} \cup {<<AppName, "app">>}
AllRequests == PackageRequests \cup RejectedRequests \cup FileRequests

-----------------------------------------------------------------------------
(***************************************************************************)
(* What the threads call: they open ICU items while the user adds packages *)
(* and unloads ICU; the same with items that are turned down; or they open *)
(* items of a package, of single files and of the .dat file.               *)
(***************************************************************************)
VARIABLE calls

Packages == INSTANCE UData WITH
    CommonData <- TwoUsers, AppData <- {}, Requests <- PackageRequests,
    Accesses <- {"onlyPackages"}, Stdio <- TRUE, MaxCleanup <- 1
Rejected == INSTANCE UData WITH
    CommonData <- TwoUsers, AppData <- {}, Requests <- RejectedRequests, Slots <- 3,
    Accesses <- {"packagesFirst"}, Stdio <- FALSE, MaxCleanup <- 0
Files == INSTANCE UData WITH
    CommonData <- {}, AppData <- OneApp, Requests <- FileRequests,
    Accesses <- {"filesFirst"}, Stdio <- FALSE, MaxCleanup <- 0

allVars == <<vars, calls>>

MCInit ==
    \/ calls = "packages" /\ Packages!Init
    \/ calls = "rejected" /\ Rejected!Init
    \/ calls = "files" /\ Files!Init

MCNext ==
    /\ \/ calls = "packages" /\ Packages!Next
       \/ calls = "rejected" /\ Rejected!Next
       \/ calls = "files" /\ Files!Next
    /\ UNCHANGED calls

\* A call that was entered goes on, and gets extendICUDataMutex in the end.
inside(t) ==
    /\ \/ calls = "packages" /\ Packages!insideOpen(t)
       \/ calls = "rejected" /\ Rejected!insideOpen(t)
       \/ calls = "files" /\ Files!insideOpen(t)
    /\ UNCHANGED calls

MCSpec == MCInit /\ [][MCNext]_allVars /\ \A t \in Thread : SF_allVars(inside(t))

-----------------------------------------------------------------------------
\* Threads that race to load a package load it once: the array holds no package
\* twice (udata.cpp:799-806); each mapping has one owner, that unmaps it
\* (udata.cpp:824-829); and what a thread or a client points to stays
\* (udata.cpp:250).
LoadedOnce ==
    /\ calls = "packages" => Packages!OneLoad
    /\ calls = "rejected" => Rejected!OneLoad
    /\ calls = "files" => Files!OneLoad

\* Every open finds what is there, in the first package that has it: it fails
\* only if none of the packages that it had to search has the item, or if there
\* was no slot for them, or if the first one that has the item has one that is
\* turned down; and what is set later replaces nothing (udata.cpp:1039,
\* udata.h:345, 380).
FindsFirst ==
    [][/\ calls = "packages" => Packages!FindsInOrder
       /\ calls = "rejected" => Rejected!DecidesInOrder
       /\ calls = "files" => Files!FindsInOrder]_allVars
=============================================================================
