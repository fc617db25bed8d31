------------------------- MODULE WinConditionProofs -------------------------
(***************************************************************************)
(* The Windows condition variable implements the ideal one, for any finite *)
(* number of threads and any number of waits and broadcasts.               *)
(***************************************************************************)
EXTENDS WinCondition, FiniteSetTheorems, TLAPS

Holding == {"hold", "resetExit", "setEntry", "setExit"}

(* Who holds the mutex is where the threads are. *)
MutexInv == \A t \in Thread : at[t] \in Holding <=> mutex = t

(* The gates: created together by the first wait; the entry gate is open   *)
(* only while somebody is still to go through, and a broadcast under way   *)
(* has somebody to wake.                                                   *)
GateInv ==
    /\ fEntryGate = "NULL" <=> fExitGate = "NULL"
    /\ \A t \in Thread : at[t] \notin {"out", "hold"} => fEntryGate # "NULL"
    /\ fEntryGate = "set" => Waiters # {}
    /\ \A t \in Thread : at[t] \in {"resetExit", "setEntry"} => Waiters # {}

Inv == TypeOK /\ MutexInv /\ GateInv /\ ExitGateOpens /\ WaitCountExact

(* The number of waiters is a natural number, and 0 or 1 exactly for the   *)
(* empty set and for a single thread.                                      *)
LEMMA WaitersCounted ==
    /\ IsFiniteSet(Waiters) /\ Cardinality(Waiters) \in Nat
    /\ Cardinality(Waiters) = 0 <=> Waiters = {}
    /\ \A t \in Waiters : Cardinality(Waiters) = 1 <=> Waiters = {t}
<1>1. IsFiniteSet(Waiters)
  BY FS_Subset, ConditionAssumption DEF Waiters
<1>2. Cardinality(Waiters) \in Nat /\ (Cardinality(Waiters) = 0 <=> Waiters = {})
  BY <1>1, FS_CardinalityType, FS_EmptySet
<1>3. ASSUME NEW t \in Waiters PROVE Cardinality(Waiters) = 1 <=> Waiters = {t}
  BY <1>1, FS_Singleton
<1> QED
  BY <1>1, <1>2, <1>3

LEMMA InvInit == Init => Inv
<1> SUFFICES ASSUME Init PROVE Inv
  OBVIOUS
<1>1. Waiters = {}
  BY DEF Init, Waiters
<1>2. WaitCountExact
  BY <1>1, WaitersCounted DEF Init, WaitCountExact
<1>3. TypeOK /\ MutexInv
  BY ConditionAssumption DEF Init, TypeOK, MutexInv, Holding, Pc, Gate
<1>4. GateInv /\ ExitGateOpens
  BY DEF Init, GateInv, ExitGateOpens
<1> QED
  BY <1>2, <1>3, <1>4 DEF Inv

(* A step that leaves the set of waiting threads and the count alone. *)
LEMMA SameWaiters ==
    ASSUME WaitCountExact, Waiters' = Waiters, fWaitCount' = fWaitCount
    PROVE  WaitCountExact'
  BY DEF WaitCountExact

LEMMA LockInv == ASSUME Inv, NEW t \in Thread, umtx_lock(t) PROVE Inv'
<1>1. TypeOK'
  BY DEF Inv, TypeOK, umtx_lock, goto, Pc, Gate
<1>2. MutexInv'
  BY ConditionAssumption DEF Inv, TypeOK, MutexInv, umtx_lock, goto, Holding
<1>3. Waiters' = Waiters
  BY DEF Inv, TypeOK, umtx_lock, goto, Waiters
<1>4. GateInv' /\ ExitGateOpens'
  BY <1>3, ConditionAssumption DEF Inv, TypeOK, MutexInv, Holding, GateInv, ExitGateOpens, umtx_lock, goto
<1> QED
  BY <1>1, <1>2, <1>3, <1>4, SameWaiters DEF Inv, umtx_lock

LEMMA UnlockInv == ASSUME Inv, NEW t \in Thread, umtx_unlock(t) PROVE Inv'
<1>1. TypeOK'
  BY DEF Inv, TypeOK, umtx_unlock, goto, Pc, Gate
<1>2. MutexInv'
  BY ConditionAssumption DEF Inv, TypeOK, MutexInv, umtx_unlock, goto, Holding
<1>3. Waiters' = Waiters
  BY DEF Inv, TypeOK, umtx_unlock, goto, Waiters
<1>4. GateInv' /\ ExitGateOpens'
  BY <1>3, ConditionAssumption DEF Inv, TypeOK, MutexInv, Holding, GateInv, ExitGateOpens, umtx_unlock, goto
<1> QED
  BY <1>1, <1>2, <1>3, <1>4, SameWaiters DEF Inv, umtx_unlock

(* A new waiter is counted. *)
LEMMA WaitInv == ASSUME Inv, NEW t \in Thread, condWait(t) PROVE Inv'
<1>1. Waiters' = Waiters \cup {t} /\ t \notin Waiters
  BY DEF Inv, TypeOK, condWait, goto, Waiters
<1>2. WaitCountExact'
  BY <1>1, WaitersCounted, FS_AddElement DEF Inv, WaitCountExact, condWait
<1>3. TypeOK'
  BY DEF Inv, TypeOK, condWait, goto, Pc, Gate
<1>4. MutexInv'
  BY ConditionAssumption DEF Inv, TypeOK, MutexInv, condWait, goto, Holding
<1>5. GateInv' /\ ExitGateOpens'
  BY <1>1, ConditionAssumption DEF Inv, TypeOK, MutexInv, Holding, GateInv, ExitGateOpens, condWait, goto
<1> QED
  BY <1>2, <1>3, <1>4, <1>5 DEF Inv

LEMMA EnterGateInv == ASSUME Inv, NEW t \in Thread, enterGate(t) PROVE Inv'
<1>1. TypeOK'
  BY DEF Inv, TypeOK, enterGate, goto, Pc, Gate
<1>2. MutexInv'
  BY ConditionAssumption DEF Inv, TypeOK, MutexInv, enterGate, goto, Holding
<1>3. Waiters' = Waiters
  BY DEF Inv, TypeOK, enterGate, goto, Waiters
<1>4. GateInv' /\ ExitGateOpens'
  BY <1>3, ConditionAssumption DEF Inv, TypeOK, MutexInv, Holding, GateInv, ExitGateOpens, enterGate, goto
<1> QED
  BY <1>1, <1>2, <1>3, <1>4, SameWaiters DEF Inv, enterGate

(* A thread through the entry gate is counted out; the count tells whether *)
(* it was the last one.                                                    *)
LEMMA PassGateInv == ASSUME Inv, NEW t \in Thread, passGate(t) PROVE Inv'
<1>1. Waiters' = Waiters \ {t} /\ t \in Waiters
  BY DEF Inv, TypeOK, passGate, goto, Waiters
<1>2. Cardinality(Waiters') = Cardinality(Waiters) - 1
  BY <1>1, WaitersCounted, FS_RemoveElement
<1>3. fWaitCount' = fWaitCount - 1 /\ WaitCountExact'
  BY <1>2 DEF Inv, WaitCountExact, passGate
<1>4. fWaitCount # 1 => Waiters' # {}
  BY <1>1, WaitersCounted DEF Inv, WaitCountExact
<1>5. TypeOK'
  <2>1. fWaitCount' \in Nat
    BY <1>1, <1>3, WaitersCounted DEF Inv, WaitCountExact
  <2> QED
    BY <2>1 DEF Inv, TypeOK, passGate, goto, Pc, Gate
<1>6. MutexInv'
  BY ConditionAssumption DEF Inv, TypeOK, MutexInv, passGate, goto, Holding
<1>7. GateInv' /\ ExitGateOpens'
  BY <1>4, ConditionAssumption DEF Inv, TypeOK, MutexInv, Holding, GateInv, ExitGateOpens, passGate, goto
<1> QED
  BY <1>3, <1>5, <1>6, <1>7 DEF Inv

LEMMA OpenExitInv == ASSUME Inv, NEW t \in Thread, openExit(t) PROVE Inv'
<1>1. TypeOK'
  BY DEF Inv, TypeOK, openExit, goto, Pc, Gate
<1>2. MutexInv'
  BY ConditionAssumption DEF Inv, TypeOK, MutexInv, openExit, goto, Holding
<1>3. Waiters' = Waiters
  BY DEF Inv, TypeOK, openExit, goto, Waiters
<1>4. GateInv' /\ ExitGateOpens'
  BY <1>3, ConditionAssumption DEF Inv, TypeOK, MutexInv, Holding, GateInv, ExitGateOpens, openExit, goto
<1> QED
  BY <1>1, <1>2, <1>3, <1>4, SameWaiters DEF Inv, openExit

LEMMA ExitGateInv == ASSUME Inv, NEW t \in Thread, exitGate(t) PROVE Inv'
<1>1. TypeOK'
  BY DEF Inv, TypeOK, exitGate, goto, Pc, Gate
<1>2. MutexInv'
  BY ConditionAssumption DEF Inv, TypeOK, MutexInv, exitGate, goto, Holding
<1>3. Waiters' = Waiters
  BY DEF Inv, TypeOK, exitGate, goto, Waiters
<1>4. GateInv' /\ ExitGateOpens'
  BY <1>3, ConditionAssumption DEF Inv, TypeOK, MutexInv, Holding, GateInv, ExitGateOpens, exitGate, goto
<1> QED
  BY <1>1, <1>2, <1>3, <1>4, SameWaiters DEF Inv, exitGate

LEMMA RelockInv == ASSUME Inv, NEW t \in Thread, relock(t) PROVE Inv'
<1>1. TypeOK'
  BY DEF Inv, TypeOK, relock, goto, Pc, Gate
<1>2. MutexInv'
  BY ConditionAssumption DEF Inv, TypeOK, MutexInv, relock, goto, Holding
<1>3. Waiters' = Waiters
  BY DEF Inv, TypeOK, relock, goto, Waiters
<1>4. GateInv' /\ ExitGateOpens'
  BY <1>3, ConditionAssumption DEF Inv, TypeOK, MutexInv, Holding, GateInv, ExitGateOpens, relock, goto
<1> QED
  BY <1>1, <1>2, <1>3, <1>4, SameWaiters DEF Inv, relock

LEMMA BroadcastInv == ASSUME Inv, NEW t \in Thread, condBroadcast(t) PROVE Inv'
<1>1. TypeOK'
  BY DEF Inv, TypeOK, condBroadcast, goto, Pc, Gate
<1>2. MutexInv'
  BY ConditionAssumption DEF Inv, TypeOK, MutexInv, condBroadcast, goto, Holding
<1>3. Waiters' = Waiters
  BY DEF Inv, TypeOK, condBroadcast, goto, Waiters
<1>4. fWaitCount # 0 => Waiters # {} /\ fEntryGate # "NULL"
  <2>1. fWaitCount # 0 => Waiters # {}
    BY WaitersCounted DEF Inv, WaitCountExact
  <2>2. Waiters # {} => fEntryGate # "NULL"
    BY DEF Inv, GateInv, Waiters
  <2> QED
    BY <2>1, <2>2
<1>5. GateInv'
  BY <1>3, <1>4 DEF Inv, TypeOK, GateInv, condBroadcast, goto
<1>6. ExitGateOpens'
  BY <1>3 DEF Inv, TypeOK, ExitGateOpens, condBroadcast, goto
<1> QED
  BY <1>1, <1>2, <1>3, <1>5, <1>6, SameWaiters DEF Inv, condBroadcast

LEMMA CloseExitInv == ASSUME Inv, NEW t \in Thread, closeExit(t) PROVE Inv'
<1>1. TypeOK'
  BY DEF Inv, TypeOK, closeExit, goto, Pc, Gate
<1>2. MutexInv'
  BY ConditionAssumption DEF Inv, TypeOK, MutexInv, closeExit, goto, Holding
<1>3. Waiters' = Waiters
  BY DEF Inv, TypeOK, closeExit, goto, Waiters
<1>4. GateInv' /\ ExitGateOpens'
  BY <1>3, ConditionAssumption DEF Inv, TypeOK, MutexInv, Holding, GateInv, ExitGateOpens, closeExit, goto
<1> QED
  BY <1>1, <1>2, <1>3, <1>4, SameWaiters DEF Inv, closeExit

LEMMA OpenEntryInv == ASSUME Inv, NEW t \in Thread, openEntry(t) PROVE Inv'
<1>1. TypeOK'
  BY DEF Inv, TypeOK, openEntry, goto, Pc, Gate
<1>2. MutexInv'
  BY ConditionAssumption DEF Inv, TypeOK, MutexInv, openEntry, goto, Holding
<1>3. Waiters' = Waiters
  BY DEF Inv, TypeOK, openEntry, goto, Waiters
<1>4. GateInv' /\ ExitGateOpens'
  BY <1>3, ConditionAssumption DEF Inv, TypeOK, MutexInv, Holding, GateInv, ExitGateOpens, openEntry, goto
<1> QED
  BY <1>1, <1>2, <1>3, <1>4, SameWaiters DEF Inv, openEntry

LEMMA InvNext == Inv /\ [Next]_vars => Inv'
<1>1. ASSUME Inv, UNCHANGED vars PROVE Inv'
  BY <1>1 DEF Inv, TypeOK, MutexInv, GateInv, ExitGateOpens, WaitCountExact, Waiters, vars
<1>2. ASSUME Inv, NEW t \in Thread, Step(t) \/ umtx_lock(t) \/ condWait(t) \/ condBroadcast(t)
      PROVE  Inv'
  BY <1>2, UnlockInv, EnterGateInv, PassGateInv, OpenExitInv, ExitGateInv, RelockInv,
     CloseExitInv, OpenEntryInv, LockInv, WaitInv, BroadcastInv, Zenon DEF Step
<1> QED
  BY <1>1, <1>2 DEF Next

LEMMA InvAlways == Spec => []Inv
  BY InvInit, InvNext, PTL DEF Spec

(* fWaitCount is the number of threads in umtx_condWait() that have not    *)
(* passed the entry gate, for any number of threads.                       *)
THEOREM WaitCountAlwaysExact == Spec => []WaitCountExact
<1>1. Inv => WaitCountExact
  BY DEF Inv
<1> QED
  BY <1>1, InvAlways, PTL

(* A closed exit gate always has a thread that will open it, so that the   *)
(* threads which wait there are not stranded by later broadcasts.          *)
THEOREM ExitGateAlwaysOpens == Spec => []ExitGateOpens
<1>1. Inv => ExitGateOpens
  BY DEF Inv
<1> QED
  BY <1>1, InvAlways, PTL

(* umtx_condBroadcast() and umtx_condWait() never pass a null event to     *)
(* SetEvent() or ResetEvent().                                             *)
THEOREM NeverNullEvent == Spec => []NoNullEvent
<1>1. Inv => NoNullEvent
  BY DEF Inv, GateInv, NoNullEvent
<1> QED
  BY <1>1, InvAlways, PTL
-----------------------------------------------------------------------------
(* Refinement *)

condMap == [t \in Thread |-> condOf(t)]

(* Where a thread is, as the ideal condition variable has it. *)
LEMMA CondCases ==
    ASSUME NEW t \in Thread
    PROVE  /\ condMap[t] = condOf(t)
           /\ at[t] = "out" => condOf(t) = "out"
           /\ at[t] \in Holding => condOf(t) = "hold"
           /\ at[t] = "entry" /\ fEntryGate = "set" => condOf(t) = "awake"
           /\ at[t] = "entry" /\ fEntryGate # "set" => condOf(t) = "asleep"
           /\ at[t] \in {"passed", "exit", "leaving"} => condOf(t) = "awake"
  BY DEF condMap, condOf, Holding

LEMMA CondSame ==
    ASSUME NEW u \in Thread, at'[u] = at[u],
           at[u] = "entry" => (fEntryGate' = "set" <=> fEntryGate = "set")
    PROVE  condOf(u)' = condOf(u)
  BY DEF condOf

LEMMA CondExcept ==
    ASSUME NEW t \in Thread, NEW c, condOf(t)' = c,
           \A u \in Thread \ {t} : condOf(u)' = condOf(u)
    PROVE  condMap' = [condMap EXCEPT ![t] = c]
  BY DEF condMap

LEMMA LockMaps == ASSUME Inv, NEW t \in Thread, umtx_lock(t) PROVE U!Lock(t)
<1>1. fEntryGate' = fEntryGate /\ condOf(t)' = "hold"
  BY DEF Inv, TypeOK, umtx_lock, goto, condOf
<1>2. \A u \in Thread \ {t} : condOf(u)' = condOf(u)
  BY <1>1, CondSame DEF Inv, TypeOK, umtx_lock, goto
<1>3. condMap' = [condMap EXCEPT ![t] = "hold"]
  BY <1>1, <1>2, CondExcept
<1> QED
  BY <1>3, CondCases DEF U!Lock, condMap, Inv, MutexInv, Holding, umtx_lock

LEMMA UnlockMaps == ASSUME Inv, NEW t \in Thread, umtx_unlock(t) PROVE U!Unlock(t)
<1>1. fEntryGate' = fEntryGate /\ condOf(t)' = "out"
  BY DEF Inv, TypeOK, umtx_unlock, goto, condOf
<1>2. \A u \in Thread \ {t} : condOf(u)' = condOf(u)
  BY <1>1, CondSame DEF Inv, TypeOK, umtx_unlock, goto
<1>3. condMap' = [condMap EXCEPT ![t] = "out"]
  BY <1>1, <1>2, CondExcept
<1> QED
  BY <1>3, CondCases DEF U!Unlock, condMap, Inv, MutexInv, Holding, umtx_unlock

LEMMA RelockMaps == ASSUME Inv, NEW t \in Thread, relock(t) PROVE U!Lock(t)
<1>1. fEntryGate' = fEntryGate /\ condOf(t)' = "hold"
  BY DEF Inv, TypeOK, relock, goto, condOf
<1>2. \A u \in Thread \ {t} : condOf(u)' = condOf(u)
  BY <1>1, CondSame DEF Inv, TypeOK, relock, goto
<1>3. condMap' = [condMap EXCEPT ![t] = "hold"]
  BY <1>1, <1>2, CondExcept
<1> QED
  BY <1>3, CondCases DEF U!Lock, condMap, Inv, MutexInv, Holding, relock

LEMMA EnterGateMaps == ASSUME Inv, NEW t \in Thread, enterGate(t) PROVE UNCHANGED U!vars
<1>1. mutex' = mutex /\ fEntryGate' = fEntryGate
  BY DEF enterGate
<1>2. condOf(t)' = condOf(t)
  BY <1>1 DEF Inv, TypeOK, enterGate, goto, condOf
<1>3. \A u \in Thread \ {t} : condOf(u)' = condOf(u)
  BY <1>1, CondSame DEF Inv, TypeOK, enterGate, goto
<1> QED
  BY <1>1, <1>2, <1>3 DEF U!vars

LEMMA OpenExitMaps == ASSUME Inv, NEW t \in Thread, openExit(t) PROVE UNCHANGED U!vars
<1>1. mutex' = mutex /\ fEntryGate' = fEntryGate
  BY DEF openExit
<1>2. condOf(t)' = condOf(t)
  BY <1>1 DEF Inv, TypeOK, openExit, goto, condOf
<1>3. \A u \in Thread \ {t} : condOf(u)' = condOf(u)
  BY <1>1, CondSame DEF Inv, TypeOK, openExit, goto
<1> QED
  BY <1>1, <1>2, <1>3 DEF U!vars

LEMMA ExitGateMaps == ASSUME Inv, NEW t \in Thread, exitGate(t) PROVE UNCHANGED U!vars
<1>1. mutex' = mutex /\ fEntryGate' = fEntryGate
  BY DEF exitGate
<1>2. condOf(t)' = condOf(t)
  BY <1>1 DEF Inv, TypeOK, exitGate, goto, condOf
<1>3. \A u \in Thread \ {t} : condOf(u)' = condOf(u)
  BY <1>1, CondSame DEF Inv, TypeOK, exitGate, goto
<1> QED
  BY <1>1, <1>2, <1>3 DEF U!vars

LEMMA BroadcastMaps == ASSUME Inv, NEW t \in Thread, condBroadcast(t) PROVE UNCHANGED U!vars
<1>1. mutex' = mutex /\ fEntryGate' = fEntryGate
  BY DEF condBroadcast
<1>2. condOf(t)' = condOf(t)
  BY <1>1 DEF Inv, TypeOK, condBroadcast, goto, condOf
<1>3. \A u \in Thread \ {t} : condOf(u)' = condOf(u)
  BY <1>1, CondSame DEF Inv, TypeOK, condBroadcast, goto
<1> QED
  BY <1>1, <1>2, <1>3 DEF U!vars

LEMMA CloseExitMaps == ASSUME Inv, NEW t \in Thread, closeExit(t) PROVE UNCHANGED U!vars
<1>1. mutex' = mutex /\ fEntryGate' = fEntryGate
  BY DEF closeExit
<1>2. condOf(t)' = condOf(t)
  BY <1>1 DEF Inv, TypeOK, closeExit, goto, condOf
<1>3. \A u \in Thread \ {t} : condOf(u)' = condOf(u)
  BY <1>1, CondSame DEF Inv, TypeOK, closeExit, goto
<1> QED
  BY <1>1, <1>2, <1>3 DEF U!vars

LEMMA WaitMaps == ASSUME Inv, NEW t \in Thread, condWait(t) PROVE U!Wait(t)
<1>1. fEntryGate' = "set" <=> fEntryGate = "set"
  BY DEF condWait
<1>2. condOf(t)' \in {"asleep", "awake"}
  BY DEF Inv, TypeOK, condWait, goto, condOf
<1>3. \A u \in Thread \ {t} : condOf(u)' = condOf(u)
  BY <1>1, CondSame DEF Inv, TypeOK, condWait, goto
<1>4. \E c \in {"asleep", "awake"} : condMap' = [condMap EXCEPT ![t] = c]
  BY <1>2, <1>3, CondExcept
<1> QED
  BY <1>4, CondCases DEF U!Wait, condMap, Inv, MutexInv, Holding, condWait

(* The last thread through the entry gate returns with the mutex, and      *)
(* shuts the gate on nobody.                                               *)
LEMMA PassGateMaps ==
    ASSUME Inv, NEW t \in Thread, passGate(t) PROVE U!Lock(t) \/ UNCHANGED U!vars
<1>1. t \in Waiters
  BY DEF passGate, Waiters
<1>2. CASE fWaitCount = 1
  <2>1. \A u \in Thread \ {t} : at[u] # "entry"
    BY <1>1, <1>2, WaitersCounted DEF Inv, WaitCountExact, Waiters
  <2>2. at' = [at EXCEPT ![t] = "setExit"] /\ mutex' = t /\ mutex = Null
    BY <1>2 DEF passGate, goto
  <2>3. \A u \in Thread \ {t} : condOf(u)' = condOf(u)
    BY <2>1, <2>2, CondSame DEF Inv, TypeOK
  <2>4. condOf(t) = "awake" /\ condOf(t)' = "hold"
    BY <2>2 DEF Inv, TypeOK, passGate, condOf
  <2>5. condMap' = [condMap EXCEPT ![t] = "hold"]
    BY <2>3, <2>4, CondExcept
  <2> QED
    BY <2>2, <2>4, <2>5, CondCases DEF U!Lock, condMap
<1>3. CASE fWaitCount # 1
  <2>1. mutex' = mutex /\ fEntryGate' = fEntryGate /\ at' = [at EXCEPT ![t] = "exit"]
    BY <1>3 DEF passGate, goto
  <2>2. condOf(t)' = condOf(t)
    BY <2>1 DEF Inv, TypeOK, passGate, condOf
  <2>3. \A u \in Thread \ {t} : condOf(u)' = condOf(u)
    BY <2>1, CondSame DEF Inv, TypeOK
  <2> QED
    BY <2>1, <2>2, <2>3 DEF U!vars
<1> QED
  BY <1>2, <1>3

(* Opening the entry gate wakes all that wait at it. *)
LEMMA OpenEntryMaps == ASSUME Inv, NEW t \in Thread, openEntry(t) PROVE U!Broadcast(t)
<1>1. at[t] = "setEntry" /\ at' = [at EXCEPT ![t] = "hold"] /\ fEntryGate' = "set" /\ mutex' = mutex
  BY DEF openEntry, goto
<1>2. ASSUME NEW u \in Thread
      PROVE  condOf(u)' = IF condOf(u) = "asleep" THEN "awake" ELSE condOf(u)
  BY <1>1 DEF Inv, TypeOK, condOf, Pc
<1>3. condMap' = [u \in Thread |-> IF condMap[u] = "asleep" THEN "awake" ELSE condMap[u]]
  BY <1>2 DEF condMap
<1> QED
  BY <1>1, <1>3, CondCases DEF U!Broadcast, condMap, Inv, MutexInv, Holding

(* umtx_condWait() and umtx_condBroadcast() on Windows implement the       *)
(* condition variable of umutex.h: a broadcast wakes every waiting thread, *)
(* a thread returns with the mutex, and only the holder waits, broadcasts  *)
(* or unlocks.                                                             *)
THEOREM ImplementsCondition == Spec => IsCondition
<1>1. Init => U!Init
  BY DEF Init, U!Init, condOf
<1>2. Inv /\ [Next]_vars => [U!Next]_(U!vars)
  <2>1. ASSUME Inv, UNCHANGED vars PROVE UNCHANGED U!vars
    BY <2>1 DEF vars, U!vars, condOf
  <2>2. ASSUME Inv, NEW t \in Thread, Step(t) \/ umtx_lock(t) \/ condWait(t) \/ condBroadcast(t)
        PROVE  U!Next \/ UNCHANGED U!vars
    BY <2>2, UnlockMaps, EnterGateMaps, PassGateMaps, OpenExitMaps, ExitGateMaps, RelockMaps,
       CloseExitMaps, OpenEntryMaps, LockMaps, WaitMaps, BroadcastMaps, Zenon DEF Step, U!Next
  <2> QED
    BY <2>1, <2>2 DEF Next
<1> QED
  BY <1>1, <1>2, InvAlways, PTL DEF Spec, IsCondition, U!Spec
=============================================================================
