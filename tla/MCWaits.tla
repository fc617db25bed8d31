------------------------------- MODULE MCWaits -------------------------------
(***************************************************************************)
(* Waiting for other threads, for TLC: the condition variable for Windows  *)
(* (WinCondition) with three threads, and, above a condition variable that *)
(* works, the clients of UnifiedCache that wait for a value in progress.   *)
(* They share no state: Init picks the one that a behaviour exercises.     *)
(***************************************************************************)
EXTENDS WinCondition

CONSTANTS Client, Address, NoValue   \* Thread, Obj and gNoValue of UnifiedCache

VARIABLES component,
          cacheMutex, table, evictPos, itemsInUse, policy, total, hard, soft, live, cached,
          pc, job, val, st, zero, gone, left, iter, ptr, budget, raced

cacheVars == <<cacheMutex, table, evictPos, itemsInUse, policy, total, hard, soft, live,
               cached, pc, job, val, st, zero, gone, left, iter, ptr, budget, raced>>
allVars == <<component, vars, cacheVars>>

\* Key 1 has a value of its own, key 2 resolves to the value of key 1; every
\* value that is not in use is evicted.
Cache == INSTANCE UnifiedCache WITH
    Thread <- Client, NKey <- 2, Obj <- Address, Alias <- <<Null, 1>>,
    Outcome <- <<{"ZERO", "WARNING"}, {}>>, Policies <- {[unused |-> 0, pct |-> 0]},
    MaxEvict <- 2, MaxGets <- 1, mutex <- cacheMutex

MCInit == component \in {"condition", "cache"} /\ Init /\ Cache!Init

MCNext ==
    /\ UNCHANGED component
    /\ \/ component = "condition" /\ Next /\ UNCHANGED cacheVars
       \/ component = "cache" /\ Cache!Next /\ UNCHANGED vars

Condition(A) == component = "condition" /\ A /\ UNCHANGED <<component, cacheVars>>
InCache(A) == component = "cache" /\ A /\ UNCHANGED <<component, vars>>

\* A thread that can run runs in the end; the mutex of the cache does not pass
\* one thread over for ever.
MCSpec ==
    /\ MCInit /\ [][MCNext]_allVars
    /\ \A t \in Thread : WF_allVars(Condition(Step(t)))
    /\ \A t \in Client : /\ SF_allVars(InCache(Cache!Lockers(t)))
                         /\ WF_allVars(InCache(Cache!Runners(t)))

------------------------------------------------------------------------------
\* Every get(), removeRef() and flush() returns: the thread that creates a value
\* wakes all that wait for it (unifiedcache.cpp:364-376, 471).
CacheCallsReturn == Cache!CallsReturn
==============================================================================
