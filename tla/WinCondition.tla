---------------------------- MODULE WinCondition ----------------------------
(***************************************************************************)
(* The Windows UConditionVar of umutex.cpp: two manual-reset events, the   *)
(* entry gate and the exit gate, and a count of the threads that wait.     *)
(* Threads lock the mutex, wait, broadcast and unlock in any order.        *)
(***************************************************************************)
EXTENDS Integers, FiniteSets

CONSTANTS
    Thread,
    MaxOps,       \* bound: calls of the three functions per thread
    Null

ASSUME ConditionAssumption ==
    IsFiniteSet(Thread) /\ MaxOps \in Nat /\ Null \notin Thread

VARIABLES
    mutex,        \* the thread that holds the mutex, or Null
    fEntryGate,   \* "NULL", "reset" or "set"
    fExitGate,
    fWaitCount,
    at,           \* where each thread is
    ops           \* calls that a thread may still make

vars == <<mutex, fEntryGate, fExitGate, fWaitCount, at, ops>>

Pc == {"out", "hold", "resetExit", "setEntry", "entry", "passed", "setExit",
       "exit", "leaving"}

Gate == {"NULL", "reset", "set"}

Init ==
    /\ mutex = Null
    /\ fEntryGate = "NULL" /\ fExitGate = "NULL"
    /\ fWaitCount = 0
    /\ at = [t \in Thread |-> "out"]
    /\ ops = [t \in Thread |-> MaxOps]

goto(t, p) == at' = [at EXCEPT ![t] = p]

umtx_lock(t) ==
    /\ at[t] = "out" /\ ops[t] > 0 /\ mutex = Null
    /\ mutex' = t
    /\ goto(t, "hold")
    /\ ops' = [ops EXCEPT ![t] = @ - 1]
    /\ UNCHANGED <<fEntryGate, fExitGate, fWaitCount>>

umtx_unlock(t) ==
    /\ at[t] = "hold"
    /\ mutex' = Null
    /\ goto(t, "out")
    /\ UNCHANGED <<fEntryGate, fExitGate, fWaitCount, ops>>

(* umtx_condWait(), to the unlock: the first wait creates the events.      *)
condWait(t) ==
    /\ at[t] = "hold" /\ ops[t] > 0
    /\ fEntryGate' = IF fEntryGate = "NULL" THEN "reset" ELSE fEntryGate
    /\ fExitGate' = IF fEntryGate = "NULL" THEN "set" ELSE fExitGate
    /\ fWaitCount' = fWaitCount + 1
    /\ mutex' = Null
    /\ goto(t, "entry")
    /\ ops' = [ops EXCEPT ![t] = @ - 1]

(* WaitForSingleObject(condition->fEntryGate) returns. *)
enterGate(t) ==
    /\ at[t] = "entry" /\ fEntryGate = "set"
    /\ goto(t, "passed")
    /\ UNCHANGED <<mutex, fEntryGate, fExitGate, fWaitCount, ops>>

(* Mutant: the entry gate is shut by the first thread that has passed. *)
passGateFirst(t) ==
    /\ at[t] = "passed" /\ mutex = Null
    /\ fWaitCount' = fWaitCount - 1
    /\ mutex' = t /\ goto(t, "setExit") /\ fEntryGate' = "reset"
    /\ UNCHANGED <<fExitGate, ops>>

(* With the mutex again: the last thread through shuts the entry gate, any *)
(* other gives the mutex up and goes to the exit gate.                     *)
passGate(t) ==
    /\ at[t] = "passed" /\ mutex = Null
    /\ fWaitCount' = fWaitCount - 1
    /\ \/ /\ fWaitCount = 1
          /\ mutex' = t /\ goto(t, "setExit") /\ fEntryGate' = "reset"
       \/ /\ fWaitCount # 1
          /\ goto(t, "exit") /\ UNCHANGED <<mutex, fEntryGate>>
    /\ UNCHANGED <<fExitGate, ops>>

(* Mutant: the last thread does not open the exit gate. *)
openExitForgotten(t) ==
    /\ at[t] = "setExit"
    /\ goto(t, "hold")
    /\ UNCHANGED <<mutex, fEntryGate, fExitGate, fWaitCount, ops>>

(* SetEvent(condition->fExitGate), and the last thread returns. *)
openExit(t) ==
    /\ at[t] = "setExit"
    /\ fExitGate' = "set"
    /\ goto(t, "hold")
    /\ UNCHANGED <<mutex, fEntryGate, fWaitCount, ops>>

(* WaitForSingleObject(condition->fExitGate) returns. *)
exitGate(t) ==
    /\ at[t] = "exit" /\ fExitGate = "set"
    /\ goto(t, "leaving")
    /\ UNCHANGED <<mutex, fEntryGate, fExitGate, fWaitCount, ops>>

(* The umtx_lock() at the end of umtx_condWait(). *)
relock(t) ==
    /\ at[t] = "leaving" /\ mutex = Null
    /\ mutex' = t
    /\ goto(t, "hold")
    /\ UNCHANGED <<fEntryGate, fExitGate, fWaitCount, ops>>

(* umtx_condBroadcast(): nothing to do when nobody waits. *)
condBroadcast(t) ==
    /\ at[t] = "hold" /\ ops[t] > 0
    /\ goto(t, IF fWaitCount = 0 THEN "hold" ELSE "resetExit")
    /\ ops' = [ops EXCEPT ![t] = @ - 1]
    /\ UNCHANGED <<mutex, fEntryGate, fExitGate, fWaitCount>>

closeExit(t) ==
    /\ at[t] = "resetExit"
    /\ fExitGate' = "reset"
    /\ goto(t, "setEntry")
    /\ UNCHANGED <<mutex, fEntryGate, fWaitCount, ops>>

openEntry(t) ==
    /\ at[t] = "setEntry"
    /\ fEntryGate' = "set"
    /\ goto(t, "hold")
    /\ UNCHANGED <<mutex, fExitGate, fWaitCount, ops>>

Step(t) ==
    \/ umtx_unlock(t) \/ enterGate(t) \/ passGate(t) \/ openExit(t) \/ exitGate(t)
    \/ relock(t) \/ closeExit(t) \/ openEntry(t)

Next == \E t \in Thread :
    Step(t) \/ umtx_lock(t) \/ condWait(t) \/ condBroadcast(t)

Spec == Init /\ [][Next]_vars

(* A thread that can run eventually runs, and does not keep the mutex. *)
FairSpec == Spec /\ \A t \in Thread : WF_vars(Step(t))
-----------------------------------------------------------------------------
Waiters == {t \in Thread : at[t] \in {"entry", "passed"}}

(* Every variable has the type of its field; fWaitCount is never negative. *)
TypeOK ==
    /\ mutex \in Thread \cup {Null}
    /\ fEntryGate \in Gate /\ fExitGate \in Gate
    /\ fWaitCount \in Nat
    /\ at \in [Thread -> Pc]
    /\ ops \in [Thread -> Nat]

(* fWaitCount, read and written only with the mutex, is the number of      *)
(* threads between the two updates of umtx_condWait(); it never gets       *)
(* negative, so that the last thread is recognized.                        *)
WaitCountExact == fWaitCount = Cardinality(Waiters)

(* SetEvent() and ResetEvent() are called on events that exist: a thread   *)
(* broadcasts before anybody has ever waited.                              *)
NoNullEvent ==
    \A t \in Thread : at[t] \in {"resetExit", "setEntry", "setExit"} =>
        fEntryGate # "NULL" /\ fExitGate # "NULL"

(* A closed exit gate will be opened: some thread is still to go through   *)
(* an open entry gate and be the last, or the holder of the mutex is about *)
(* to change the gates.                                                    *)
ExitGateOpens ==
    fExitGate = "reset" =>
        \/ fEntryGate = "set" /\ Waiters # {}
        \/ \E t \in Thread : at[t] \in {"setEntry", "setExit"} /\ mutex = t

(* The threads as users of an ideal condition variable see them.  A thread *)
(* at an open entry gate is awake.                                         *)
condOf(t) ==
    CASE at[t] = "out" -> "out"
      [] at[t] \in {"hold", "resetExit", "setEntry", "setExit"} -> "hold"
      [] at[t] = "entry" -> IF fEntryGate = "set" THEN "awake" ELSE "asleep"
      [] at[t] \in {"passed", "exit", "leaving"} -> "awake"

U == INSTANCE UCondition WITH cond <- [t \in Thread |-> condOf(t)]

(* The two gates implement the condition variable that umutex.h describes: *)
(* no broadcast is lost on a thread that waits, and nobody returns without *)
(* the mutex.                                                              *)
IsCondition == U!Spec

(* A thread that was waiting at a broadcast returns from umtx_condWait(),  *)
(* whatever waits and broadcasts follow.                                   *)
BroadcastWakes ==
    \A t \in Thread : at[t] = "entry" /\ fEntryGate = "set" ~> at[t] = "hold"
=============================================================================
