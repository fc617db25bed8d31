----------------------------- MODULE UCondition -----------------------------
(***************************************************************************)
(* What umutex.h promises of a UConditionVar and its UMutex: a wait gives  *)
(* the mutex up and returns with the mutex, after a broadcast or, as with  *)
(* pthread_cond_wait(), without one; a broadcast wakes every thread that   *)
(* waits.                                                                  *)
(***************************************************************************)
CONSTANTS Thread, Null

VARIABLES
    mutex,        \* the thread that holds the UMutex, or Null
    cond          \* per thread: "out", "hold", "asleep", or "awake" without the mutex yet

vars == <<mutex, cond>>

Init ==
    /\ mutex = Null
    /\ cond = [t \in Thread |-> "out"]

Lock(t) ==
    /\ cond[t] \in {"out", "awake"} /\ mutex = Null
    /\ mutex' = t
    /\ cond' = [cond EXCEPT ![t] = "hold"]

Unlock(t) ==
    /\ cond[t] = "hold" /\ mutex = t
    /\ mutex' = Null
    /\ cond' = [cond EXCEPT ![t] = "out"]

Wait(t) ==
    /\ cond[t] = "hold" /\ mutex = t
    /\ mutex' = Null
    /\ \E c \in {"asleep", "awake"} : cond' = [cond EXCEPT ![t] = c]

SpuriousWakeup(t) ==
    /\ cond[t] = "asleep"
    /\ cond' = [cond EXCEPT ![t] = "awake"]
    /\ UNCHANGED mutex

Broadcast(t) ==
    /\ cond[t] = "hold" /\ mutex = t
    /\ cond' = [u \in Thread |-> IF cond[u] = "asleep" THEN "awake" ELSE cond[u]]
    /\ UNCHANGED mutex

Next == \E t \in Thread :
    Lock(t) \/ Unlock(t) \/ Wait(t) \/ SpuriousWakeup(t) \/ Broadcast(t)

Spec == Init /\ [][Next]_vars
=============================================================================
