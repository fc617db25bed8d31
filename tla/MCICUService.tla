----------------------------- MODULE MCICUService -----------------------------
(***************************************************************************)
(* Small services: the locales "de_CH", "de", "en", "fr" and "", the root, *)
(* and up to four factories.                                               *)
(***************************************************************************)
EXTENDS ICUService

MCId == {"", "de", "de_CH", "en", "fr"}
MCChop == [id \in MCId |-> IF id = "de_CH" THEN "de" ELSE NoId]
MCSlot == [id \in MCId |-> CASE id = "" -> 3 [] id = "de" -> 0 [] id = "de_CH" -> 4
                             [] id = "en" -> 1 [] OTHER -> 2]

\* What the constructor of the service registers: nothing, or English.
NoBuiltIn == << >>
English == <<"f0">>

\* f0 makes English objects and root ones, f1 German and root ones, f2 Swiss
\* ones; f3 takes German over, but leaves it to the older factories.  French is
\* made for the default locale.
Supports3 == [f \in Factory |-> CASE f = "f0" -> {"en", ""} [] f = "f1" -> {"de", ""}
                                  [] f = "f2" -> {"de_CH"} [] OTHER -> {"de"}]
Delegates3 == [f \in Factory |-> IF f = "f3" THEN {"de"} ELSE {}]

\* Who calls what.
CallsPeers ==
    [t \in Thread |-> IF t = "t1" THEN {"get", "register", "name"}
                      ELSE {"get", "unregister", "enum"}]
CallsApart ==
    [t \in Thread |-> IF t = "t1" THEN {"get", "register", "unregister", "reset", "name", "names"}
                      ELSE {"setDefault", "listen"}]
CallsNotified == [t \in Thread |-> {"register", "unregister", "listen"}]
CallsBack ==
    [t \in Thread |-> IF t = "t1" THEN {"register", "unregister", "listen", "names"}
                      ELSE {"get", "enum"}]

-------------------------------------------------------------------------------
(***************************************************************************)
(* Four services.  "peers", with the constants of the configuration, has   *)
(* two threads that both use and change it under one default locale.       *)
(* "apart" has one thread that uses and changes a service without          *)
(* factories of its own, and another that changes the default locale at    *)
(* any time, and listens.  "notified" has two threads that both change the *)
(* service and add and remove two listeners.  "back" has a listener that   *)
(* calls back into a service that another thread is using.  No default     *)
(* locale is the parent of a requested one: that is counted twice on the   *)
(* way (serv.cpp:563).                                                     *)
(***************************************************************************)
VARIABLE service

Apart == INSTANCE ICUService WITH
    Listener <- {"l1"}, Readers <- {"l1"}, Defaults <- {"en", "de"},
    Factory <- {"f0", "f1", "f2"}, BuiltIn <- NoBuiltIn, HasDefault <- FALSE,
    Calls <- CallsApart, Request <- {"fr", "de"}
Notified == INSTANCE ICUService WITH
    Listener <- {"l1", "l2"}, Readers <- {"l2"},
    Factory <- {"f1", "f2"}, BuiltIn <- NoBuiltIn, HasDefault <- FALSE,
    Calls <- CallsNotified, Fails <- {"vector"}, MaxFailure <- 1
Back == INSTANCE ICUService WITH
    Listener <- {"l1"}, Readers <- {"l1"},
    Factory <- {"f1"}, BuiltIn <- NoBuiltIn, HasDefault <- FALSE,
    Calls <- CallsBack, Request <- {"de_CH"}

allVars == <<vars, service>>

MCInit ==
    \/ service = "peers" /\ Init
    \/ service = "apart" /\ Apart!Init
    \/ service = "notified" /\ Notified!Init
    \/ service = "back" /\ Back!Init

MCNext ==
    /\ \/ service = "peers" /\ Next
       \/ service = "apart" /\ Apart!Next
       \/ service = "notified" /\ Notified!Next
       \/ service = "back" /\ Back!Next
    /\ UNCHANGED service

\* A thread inside a call keeps running, and gets the locks it waits for.
inside(t) == service = "back" /\ Back!insideCall(t) /\ UNCHANGED service

MCSpec == MCInit /\ [][MCNext]_allVars /\ \A t \in Thread : SF_allVars(inside(t))

\* Each CacheEntry has one reference for each element of serviceCache that
\* points to it, and is deleted with the last (serv.cpp:205-257).
EntriesCounted ==
    /\ service = "peers" => TypeOK /\ CountsExact
    /\ service = "apart" => Apart!TypeOK /\ Apart!CountsExact
    /\ service = "notified" => Notified!TypeOK /\ Notified!CountsExact
    /\ service = "back" => Back!TypeOK /\ Back!CountsExact

\* What the service hands out is what it would find now without its caches:
\* registrations and default locales leave no old answer (serv.cpp:931-948), no
\* old ID, and no enumeration that takes itself for up to date (servls.cpp:163).
AnswersCurrent ==
    /\ service = "peers" => CacheTransparent /\ IdCacheCurrent /\ FailFast
    /\ service = "apart" => Apart!CacheTransparent /\ Apart!IdCacheCurrent
    /\ service = "notified" => Notified!IdCacheCurrent
    /\ service = "back" => Back!CacheTransparent /\ Back!IdCacheCurrent /\ Back!FailFast


\* Every call returns: listeners are called with notifyLock held and ask for the
\* lock that getKey() holds (servnotf.cpp:106-114, serv.cpp:439).  So the thread
\* that NoLostChange speaks of reaches the listener: whoever listens hears of
\* every change unless removed first.
CallsReturn ==
    /\ \A t \in Thread : (service = "back" /\ ~Back!Idle(t)) ~> Back!Idle(t)
    /\ (service = "back" /\ unseen # {}) ~> (unseen = {})
===============================================================================
