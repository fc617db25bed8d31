------------------------------ MODULE UInitOnce -----------------------------
(***************************************************************************)
(* One-time initialization, umutex.h and umutex.cpp: the umtx_initOnce()   *)
(* variants, umtx_initImplPreInit() and umtx_initImplPostInit() on POSIX   *)
(* and on Windows, and UInitOnce::reset() as u_cleanup() calls it.  Every  *)
(* UInitOnce of the library shares one initMutex and one initCondition,    *)
(* and an init function may itself call umtx_initOnce() on another         *)
(* UInitOnce with the same UErrorCode.                                     *)
(***************************************************************************)
EXTENDS Integers, Sequences

CONSTANTS
    Thread,
    Once,         \* the UInitOnce objects
    HasError,     \* those used through the variants with a UErrorCode
    Nested,       \* the UInitOnce that the init function of another one needs
    Outcomes,     \* what an init function may report
    Platform,     \* "posix" or "win32", the #if chain of umutex.cpp
    MaxCalls,     \* bound: calls of umtx_initOnce() per client thread
    Null

Err == {"ZERO", "WARNING", "FAILURE"}

U_FAILURE(e) == e = "FAILURE"

ASSUME OnceAssumption ==
    /\ HasError \subseteq Once
    /\ Nested \in [Once -> Once \cup {Null}]
    /\ \A o \in Once : Nested[o] \in HasError => o \in HasError
    /\ Outcomes \subseteq Err /\ Outcomes # {}
    /\ Platform \in {"posix", "win32"}
    /\ MaxCalls \in Nat
    /\ Null \notin Thread \cup Once

VARIABLES
    fState,       \* UInitOnce::fState: 0 reset, 1 being initialized, 2 done
    fErrCode,     \* UInitOnce::fErrCode
    initMutex,    \* the thread that holds initMutex, or Null
    call,         \* per thread, the UInitOnces of its nested umtx_initOnce() calls
    at,           \* per thread, where its innermost call is
    err,          \* per thread, the UErrorCode that it passes by reference
    built,        \* what the init function last reported, "none" after cleanup
    budget        \* calls that the client of a thread may still make

vars == <<fState, fErrCode, initMutex, call, at, err, built, budget>>

Pc == {"idle", "load", "pre", "wait", "rewait", "sleep", "run", "fn", "store",
       "post", "broadcast", "others", "return", "skip"}

Init ==
    /\ fState = [o \in Once |-> 0]
    /\ fErrCode = [o \in Once |-> "ZERO"]
    /\ initMutex = Null
    /\ call = [t \in Thread |-> <<>>]
    /\ at = [t \in Thread |-> "idle"]
    /\ err = [t \in Thread |-> "ZERO"]
    /\ built = [o \in Once |-> "none"]
    /\ budget = [t \in Thread |-> MaxCalls]

uio(t) == call[t][Len(call[t])]

goto(t, p) == at' = [at EXCEPT ![t] = p]

(* The entry of umtx_initOnce(): a variant with a UErrorCode does nothing  *)
(* when that already is a failure.                                         *)
enter(t, o, e) ==
    /\ call' = [call EXCEPT ![t] = Append(@, o)]
    /\ goto(t, IF o \in HasError /\ U_FAILURE(e) THEN "skip" ELSE "load")

(* A client calls umtx_initOnce(), with a fresh UErrorCode or with the one *)
(* that its previous call left.                                            *)
Call(t, o) ==
    /\ at[t] = "idle" /\ budget[t] > 0
    /\ \E e \in {err[t], "ZERO", "WARNING"} :
          /\ err' = [err EXCEPT ![t] = e]
          /\ enter(t, o, e)
    /\ budget' = [budget EXCEPT ![t] = @ - 1]
    /\ UNCHANGED <<fState, fErrCode, initMutex, built>>

(* umtx_loadAcquire(uio.fState) outside any lock. *)
Load(t) ==
    /\ at[t] = "load"
    /\ goto(t, IF fState[uio(t)] = 2 THEN "others" ELSE "pre")
    /\ UNCHANGED <<fState, fErrCode, initMutex, call, err, built, budget>>

(* umtx_initImplPreInit() on POSIX, under initMutex: take the              *)
(* initialization, or wait for the thread that has it.                     *)
PreInit(t) ==
    /\ Platform = "posix" /\ at[t] = "pre" /\ initMutex = Null
    /\ fState' = [fState EXCEPT ![uio(t)] = IF @ = 0 THEN 1 ELSE @]
    /\ goto(t, CASE fState[uio(t)] = 0 -> "run"
                 [] fState[uio(t)] = 1 -> "wait"
                 [] OTHER -> "others")
    /\ UNCHANGED <<fErrCode, initMutex, call, err, built, budget>>

(* pthread_cond_wait() may return without a broadcast. *)
SpuriousWakeup(t) ==
    /\ at[t] = "wait"
    /\ goto(t, "rewait")
    /\ UNCHANGED <<fState, fErrCode, initMutex, call, err, built, budget>>

(* Mutant: a woken thread does not test the state again. *)
RewaitOnce(t) ==
    /\ at[t] = "rewait" /\ initMutex = Null
    /\ goto(t, "others")
    /\ UNCHANGED <<fState, fErrCode, initMutex, call, err, built, budget>>

(* The while loop of umtx_initImplPreInit(), with initMutex again. *)
Rewait(t) ==
    /\ at[t] = "rewait" /\ initMutex = Null
    /\ goto(t, IF fState[uio(t)] = 1 THEN "wait" ELSE "others")
    /\ UNCHANGED <<fState, fErrCode, initMutex, call, err, built, budget>>

(* umtx_initImplPreInit() on Windows: InterlockedCompareExchange(). *)
PreInitWin(t) ==
    /\ Platform = "win32" /\ at[t] = "pre"
    /\ fState' = [fState EXCEPT ![uio(t)] = IF @ = 0 THEN 1 ELSE @]
    /\ goto(t, CASE fState[uio(t)] = 0 -> "run"
                 [] fState[uio(t)] = 1 -> "sleep"
                 [] OTHER -> "others")
    /\ UNCHANGED <<fErrCode, initMutex, call, err, built, budget>>

(* The Sleep(1) loop on Windows ends when the state is no longer 1. *)
Awake(t) ==
    /\ at[t] = "sleep" /\ fState[uio(t)] # 1
    /\ goto(t, "pre")
    /\ UNCHANGED <<fState, fErrCode, initMutex, call, err, built, budget>>

(* The init function first calls umtx_initOnce() for what it needs. *)
Run(t) ==
    /\ at[t] = "run"
    /\ LET n == Nested[uio(t)]
       IN  IF n = Null THEN goto(t, "fn") /\ UNCHANGED call ELSE enter(t, n, err[t])
    /\ UNCHANGED <<fState, fErrCode, initMutex, err, built, budget>>

(* The rest of the init function fp(errCode).  It does nothing when a      *)
(* nested call failed; one without a UErrorCode leaves the caller's alone. *)
InitFunction(t) ==
    /\ at[t] = "fn"
    /\ \E e \in IF U_FAILURE(err[t]) \/ uio(t) \notin HasError THEN {err[t]} ELSE Outcomes :
          /\ err' = [err EXCEPT ![t] = e]
          /\ built' = [built EXCEPT ![uio(t)] = e]
    /\ goto(t, IF uio(t) \in HasError THEN "store" ELSE "post")
    /\ UNCHANGED <<fState, fErrCode, initMutex, call, budget>>

(* Mutant: only failures are stored, so that reset() leaves an old one. *)
StoreErrorSticky(t) ==
    /\ at[t] = "store"
    /\ fErrCode' = [fErrCode EXCEPT ![uio(t)] = IF U_FAILURE(err[t]) THEN err[t] ELSE @]
    /\ goto(t, "post")
    /\ UNCHANGED <<fState, initMutex, call, err, built, budget>>

(* uio.fErrCode = errCode. *)
StoreError(t) ==
    /\ at[t] = "store"
    /\ fErrCode' = [fErrCode EXCEPT ![uio(t)] = err[t]]
    /\ goto(t, "post")
    /\ UNCHANGED <<fState, initMutex, call, err, built, budget>>

(* umtx_initImplPostInit() on POSIX: threads that test fState outside the  *)
(* mutex may see 2 from here on.                                           *)
PostInit(t) ==
    /\ Platform = "posix" /\ at[t] = "post" /\ initMutex = Null
    /\ initMutex' = t
    /\ fState' = [fState EXCEPT ![uio(t)] = 2]
    /\ goto(t, "broadcast")
    /\ UNCHANGED <<fErrCode, call, err, built, budget>>

(* Mutant: nobody is woken. *)
BroadcastDropped(t) ==
    /\ at[t] = "broadcast"
    /\ goto(t, "return")
    /\ initMutex' = Null
    /\ UNCHANGED <<fState, fErrCode, call, err, built, budget>>

(* pthread_cond_broadcast() on the condition that all UInitOnces share,    *)
(* and the unlock.                                                         *)
Broadcast(t) ==
    /\ at[t] = "broadcast"
    /\ at' = [u \in Thread |-> IF u = t THEN "return"
                               ELSE IF at[u] = "wait" THEN "rewait" ELSE at[u]]
    /\ initMutex' = Null
    /\ UNCHANGED <<fState, fErrCode, call, err, built, budget>>

(* umtx_initImplPostInit() on Windows. *)
PostInitWin(t) ==
    /\ Platform = "win32" /\ at[t] = "post"
    /\ fState' = [fState EXCEPT ![uio(t)] = 2]
    /\ goto(t, "return")
    /\ UNCHANGED <<fErrCode, initMutex, call, err, built, budget>>

(* Someone else ran the initialization: take its failure. *)
Others(t) ==
    /\ at[t] = "others"
    /\ err' = [err EXCEPT ![t] =
                  IF uio(t) \in HasError /\ U_FAILURE(fErrCode[uio(t)])
                  THEN fErrCode[uio(t)] ELSE @]
    /\ goto(t, "return")
    /\ UNCHANGED <<fState, fErrCode, initMutex, call, built, budget>>

(* umtx_initOnce() returns, to the client or to the init function. *)
Return(t) ==
    /\ at[t] \in {"return", "skip"}
    /\ call' = [call EXCEPT ![t] = SubSeq(@, 1, Len(@) - 1)]
    /\ goto(t, IF Len(call[t]) = 1 THEN "idle" ELSE "fn")
    /\ UNCHANGED <<fState, fErrCode, initMutex, err, built, budget>>

(* u_cleanup(), documented as safe only while no other thread uses ICU:    *)
(* the cleanup functions free what was built and reset() the UInitOnces,   *)
(* which leaves fErrCode as it is.                                         *)
Cleanup ==
    /\ \A t \in Thread : at[t] = "idle"
    /\ fState' = [o \in Once |-> 0]
    /\ built' = [o \in Once |-> "none"]
    /\ UNCHANGED <<fErrCode, initMutex, call, at, err, budget>>

Step(t) ==
    \/ Load(t) \/ PreInit(t) \/ Rewait(t) \/ PreInitWin(t) \/ Awake(t)
    \/ Run(t) \/ InitFunction(t) \/ StoreError(t)
    \/ PostInit(t) \/ Broadcast(t) \/ PostInitWin(t)
    \/ Others(t) \/ Return(t)

Next ==
    \/ \E t \in Thread : Step(t) \/ SpuriousWakeup(t) \/ \E o \in Once : Call(t, o)
    \/ Cleanup

Spec == Init /\ [][Next]_vars

(* A thread that can run eventually runs, and init functions terminate. *)
FairSpec == Spec /\ \A t \in Thread : WF_vars(Step(t))
-----------------------------------------------------------------------------
(* Every variable has the type of the field or local that it stands for. *)
TypeOK ==
    /\ fState \in [Once -> 0..2]
    /\ fErrCode \in [Once -> Err]
    /\ initMutex \in Thread \cup {Null}
    /\ call \in [Thread -> Seq(Once)]
    /\ at \in [Thread -> Pc]
    /\ err \in [Thread -> Err]
    /\ built \in [Once -> Err \cup {"none"}]
    /\ budget \in [Thread -> Nat]

(* The i-th nested call of thread t runs the init function, or has run it  *)
(* and not yet published that.                                             *)
Initializing(t, i) ==
    /\ i \in 1..Len(call[t])
    /\ i < Len(call[t]) \/ at[t] \in {"run", "fn", "store", "post"}

(* However many threads ask, and whatever init functions nest in each      *)
(* other, a UInitOnce is in state 1 exactly when one call of one thread is *)
(* initializing it.                                                        *)
OneInitializer ==
    \A o \in Once :
        /\ fState[o] = 1 <=> \E t \in Thread : \E i \in 1..Len(call[t]) :
                                Initializing(t, i) /\ call[t][i] = o
        /\ \A t, u \in Thread : \A i \in 1..Len(call[t]), j \in 1..Len(call[u]) :
              Initializing(t, i) /\ Initializing(u, j) /\ call[t][i] = o /\ call[u][j] = o
              => t = u /\ i = j

(* An init function runs at most once between two cleanups: no thread is   *)
(* in it when it has reported already.                                     *)
RunsOnce ==
    \A t \in Thread : at[t] \in {"run", "fn"} => built[uio(t)] = "none"

(* umtx_initOnce() returns only after the init function has completed, so  *)
(* that nobody reads fErrCode while it is written; this is the             *)
(* U_ASSERT(uio.fState == 2) of umtx_initImplPreInit().                    *)
NoEarlyReturn ==
    \A t \in Thread : at[t] \in {"others", "return"} =>
        fState[uio(t)] = 2 /\ built[uio(t)] # "none"

(* Every caller learns of a failure of the init function, the first one    *)
(* and all others, also when an earlier run before u_cleanup() ended       *)
(* differently.                                                            *)
ErrorAgrees ==
    \A t \in Thread : at[t] = "return" /\ uio(t) \in HasError =>
        (U_FAILURE(err[t]) <=> U_FAILURE(built[uio(t)]))

(* No lost wakeup: a thread asleep on initCondition waits for a UInitOnce  *)
(* that is still being initialized, or the broadcast is about to come.     *)
NoLostWakeup ==
    \A t \in Thread : at[t] = "wait" =>
        \/ fState[uio(t)] = 1
        \/ \E u \in Thread : at[u] = "broadcast" /\ initMutex = u

(* Every umtx_initOnce() returns, when no init function needs itself. *)
EveryCallReturns == \A t \in Thread : at[t] # "idle" ~> at[t] = "idle"
=============================================================================
