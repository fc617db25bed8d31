--------------------------- MODULE UInitOnceProofs --------------------------
(***************************************************************************)
(* The promises of umtx_initOnce(), for any number of threads and          *)
(* UInitOnces, however their init functions nest, on POSIX and on Windows. *)
(***************************************************************************)
EXTENDS UInitOnce, SequenceTheorems, TLAPS

Top == {"run", "fn", "store", "post"}

(* The i-th nested call of thread t is the one that initializes o. *)
Slot(t, i, o) == Initializing(t, i) /\ call[t][i] = o

(* Slots and UInitOnces in state 1 correspond one to one. *)
SlotInv ==
    /\ \A t \in Thread, i \in Nat, o \in Once : Slot(t, i, o) => fState[o] = 1
    /\ \A t, u \in Thread, i, j \in Nat, o \in Once :
          Slot(t, i, o) /\ Slot(u, j, o) => t = u /\ i = j
    /\ \A o \in Once : fState[o] = 1 => \E t \in Thread, i \in Nat : Slot(t, i, o)

(* An init function in progress has not reported, also one that waits for  *)
(* a nested call to return.                                                *)
PendingOK(t) ==
    \A i \in 1..Len(call[t]) :
        i < Len(call[t]) \/ at[t] \in {"run", "fn"} => built[call[t][i]] = "none"

(* What a thread knows at each point of umtx_initOnce(). *)
LocalOK(t) ==
    /\ at[t] = "idle" <=> call[t] = <<>>
    /\ at[t] \in {"others", "return", "broadcast"} => fState[uio(t)] = 2
    /\ at[t] \in {"wait", "rewait"} => fState[uio(t)] # 0
    /\ at[t] = "wait" => fState[uio(t)] = 1 \/ initMutex # Null
    /\ at[t] \in {"wait", "rewait", "broadcast"} => Platform = "posix"
    /\ at[t] = "broadcast" <=> initMutex = t
    /\ at[t] \in {"load", "pre", "wait", "rewait", "sleep", "others", "run"}
          /\ uio(t) \in HasError => ~U_FAILURE(err[t])
    /\ at[t] \in {"store", "post"} => built[uio(t)] # "none"
    /\ at[t] = "store" => err[t] = built[uio(t)]
    /\ at[t] = "post" /\ uio(t) \in HasError =>
          err[t] = built[uio(t)] /\ fErrCode[uio(t)] = err[t]
    /\ at[t] \in {"broadcast", "return"} /\ uio(t) \in HasError =>
          (U_FAILURE(err[t]) <=> U_FAILURE(built[uio(t)]))

LocalInv == \A t \in Thread : LocalOK(t) /\ PendingOK(t)

OnceOK(o) ==
    /\ fState[o] = 0 => built[o] = "none"
    /\ fState[o] = 2 => built[o] # "none"
    /\ fState[o] = 2 /\ o \in HasError => (U_FAILURE(fErrCode[o]) <=> U_FAILURE(built[o]))

OnceInv == \A o \in Once : OnceOK(o)

Inv == TypeOK /\ LocalInv /\ OnceInv /\ SlotInv

(* The invariant gives the properties. *)
LEMMA InvSuffices ==
    Inv => OneInitializer /\ RunsOnce /\ NoEarlyReturn /\ ErrorAgrees /\ NoLostWakeup
<1> SUFFICES ASSUME Inv
             PROVE  OneInitializer /\ RunsOnce /\ NoEarlyReturn /\ ErrorAgrees /\ NoLostWakeup
  OBVIOUS
<1>1. \A t \in Thread : /\ call[t] \in Seq(Once) /\ LocalOK(t) /\ PendingOK(t)
                        /\ \A i \in 1..Len(call[t]) : i \in Nat /\ call[t][i] \in Once
  <2>1. \A t \in Thread : call[t] \in Seq(Once) /\ LocalOK(t) /\ PendingOK(t)
    BY DEF Inv, TypeOK, LocalInv
  <2>2. ASSUME NEW t \in Thread, NEW i \in 1..Len(call[t])
        PROVE  i \in Nat /\ call[t][i] \in Once
    BY <2>1
  <2> QED
    BY <2>1, <2>2
<1>2. ASSUME NEW t \in Thread, at[t] # "idle"
      PROVE  uio(t) \in Once /\ Len(call[t]) \in 1..Len(call[t])
  BY <1>1, <1>2 DEF LocalOK, uio
<1>3. OneInitializer
  <2>1. ASSUME NEW o \in Once
        PROVE  fState[o] = 1 <=> \E t \in Thread : \E i \in 1..Len(call[t]) :
                                    Initializing(t, i) /\ call[t][i] = o
    BY <1>1 DEF Inv, SlotInv, Slot, Initializing
  <2>2. ASSUME NEW o \in Once, NEW t \in Thread, NEW u \in Thread,
               NEW i \in 1..Len(call[t]), NEW j \in 1..Len(call[u]),
               Initializing(t, i), Initializing(u, j), call[t][i] = o, call[u][j] = o
        PROVE  t = u /\ i = j
    BY <1>1, <2>2 DEF Inv, SlotInv, Slot
  <2> QED
    BY <2>1, <2>2 DEF OneInitializer
<1>4. RunsOnce
  BY <1>1, <1>2 DEF PendingOK, RunsOnce, uio
<1>5. NoEarlyReturn
  BY <1>1, <1>2 DEF LocalOK, NoEarlyReturn, Inv, OnceInv, OnceOK
<1>6. ErrorAgrees
  BY <1>1 DEF LocalOK, ErrorAgrees
<1>7. NoLostWakeup
  BY <1>1 DEF LocalOK, NoLostWakeup, Inv, TypeOK
<1> QED
  BY <1>3, <1>4, <1>5, <1>6, <1>7

LEMMA InvInit == Init => Inv
<1> SUFFICES ASSUME Init PROVE Inv
  OBVIOUS
<1>1. TypeOK
  BY OnceAssumption DEF Init, TypeOK, Err, Pc
<1>2. LocalInv
  <2>1. ASSUME NEW t \in Thread PROVE LocalOK(t)
    BY OnceAssumption DEF Init, LocalOK
  <2>2. ASSUME NEW t \in Thread PROVE PendingOK(t)
    BY DEF Init, PendingOK
  <2> QED
    BY <2>1, <2>2 DEF LocalInv
<1>3. OnceInv
  BY DEF Init, OnceInv, OnceOK
<1>4. SlotInv
  BY DEF Init, SlotInv, Slot, Initializing
<1> QED
  BY <1>1, <1>2, <1>3, <1>4 DEF Inv

(* The innermost call of a thread that is not idle. *)
LEMMA UioType ==
    ASSUME Inv, NEW t \in Thread, at[t] # "idle"
    PROVE  /\ uio(t) \in Once /\ call[t] \in Seq(Once)
           /\ Len(call[t]) \in Nat /\ Len(call[t]) \in 1..Len(call[t])
           /\ LocalOK(t) /\ PendingOK(t)
<1>1. call[t] \in Seq(Once) /\ LocalOK(t) /\ PendingOK(t)
  BY DEF Inv, TypeOK, LocalInv
<1>2. call[t] # <<>>
  BY <1>1 DEF LocalOK
<1> QED
  BY <1>1, <1>2 DEF uio

(* A step that changes neither the slots nor which UInitOnces are in       *)
(* state 1.                                                                *)
LEMMA SlotsSame ==
    ASSUME SlotInv,
           \A t \in Thread, i \in Nat, o \in Once : Slot(t, i, o)' <=> Slot(t, i, o),
           \A o \in Once : fState'[o] = 1 <=> fState[o] = 1
    PROVE  SlotInv'
<1>1. \A t \in Thread, i \in Nat, o \in Once : Slot(t, i, o)' => fState'[o] = 1
  BY DEF SlotInv
<1>2. \A t, u \in Thread, i, j \in Nat, o \in Once :
         Slot(t, i, o)' /\ Slot(u, j, o)' => t = u /\ i = j
  BY DEF SlotInv
<1>3. \A o \in Once : fState'[o] = 1 => \E t \in Thread, i \in Nat : Slot(t, i, o)'
  BY DEF SlotInv
<1> QED
  BY <1>1, <1>2, <1>3 DEF SlotInv

LEMMA SlotsFrame ==
    ASSUME SlotInv, call' = call,
           \A t \in Thread : at'[t] \in Top <=> at[t] \in Top,
           \A o \in Once : fState'[o] = 1 <=> fState[o] = 1
    PROVE  SlotInv'
<1>1. \A t \in Thread, i \in Nat, o \in Once : Slot(t, i, o)' <=> Slot(t, i, o)
  BY Zenon DEF Slot, Initializing, Top
<1> QED
  BY <1>1, SlotsSame, Zenon

(* A thread that does not move keeps its facts when the shared state does  *)
(* not change.                                                             *)
LEMMA ThreadFrame ==
    ASSUME NEW u \in Thread, LocalOK(u) /\ PendingOK(u),
           at'[u] = at[u], call'[u] = call[u], err'[u] = err[u],
           UNCHANGED <<fState, fErrCode, initMutex, built>>
    PROVE  LocalOK(u)' /\ PendingOK(u)'
<1>1. uio(u)' = uio(u)
  BY DEF uio
<1>2. LocalOK(u)'
  BY <1>1, Zenon DEF LocalOK
<1>3. PendingOK(u)'
  BY Zenon DEF PendingOK
<1> QED
  BY <1>2, <1>3

(* So only the thread that moves is left to look at, if it leaves the      *)
(* shared state alone.                                                     *)
LEMMA LocalStep ==
    ASSUME Inv, NEW t \in Thread, LocalOK(t)', PendingOK(t)',
           UNCHANGED <<fState, fErrCode, initMutex, built>>,
           \A u \in Thread \ {t} : at'[u] = at[u] /\ call'[u] = call[u] /\ err'[u] = err[u]
    PROVE  LocalInv' /\ OnceInv'
<1>1. ASSUME NEW u \in Thread PROVE LocalOK(u)' /\ PendingOK(u)'
  <2>1. CASE u = t
    BY <2>1
  <2>2. CASE u # t
    BY <2>2, ThreadFrame DEF Inv, LocalInv
  <2> QED
    BY <2>1, <2>2
<1>2. OnceInv'
  BY Zenon DEF Inv, OnceInv, OnceOK
<1> QED
  BY <1>1, <1>2 DEF LocalInv
LEMMA LoadInv == ASSUME Inv, NEW t \in Thread, Load(t) PROVE Inv'
<1>1. UNCHANGED <<fState, fErrCode, initMutex, call, err, built, budget>>
  BY DEF Load
<1>2. at' = [at EXCEPT ![t] = IF fState[uio(t)] = 2 THEN "others" ELSE "pre"] /\ at[t] = "load"
  BY DEF Load, goto
<1>3. TypeOK'
  BY <1>1, <1>2 DEF Inv, TypeOK, Pc
<1>4. LocalOK(t)' /\ PendingOK(t)'
  <2>1. LocalOK(t) /\ PendingOK(t) /\ uio(t)' = uio(t)
    BY <1>1, <1>2, UioType DEF uio
  <2>2. at'[t] \in {"others", "pre"} /\ (at'[t] = "others" => fState[uio(t)] = 2)
    BY <1>2 DEF Inv, TypeOK
  <2> QED
    BY <1>1, <1>2, <2>1, <2>2 DEF LocalOK, PendingOK
<1>5. LocalInv' /\ OnceInv'
  BY <1>1, <1>2, <1>4, LocalStep DEF Inv, TypeOK
<1>6. SlotInv'
  BY <1>1, <1>2, SlotsFrame DEF Inv, TypeOK, Top
<1> QED
  BY <1>3, <1>5, <1>6 DEF Inv
LEMMA SpuriousInv == ASSUME Inv, NEW t \in Thread, SpuriousWakeup(t) PROVE Inv'
<1>1. UNCHANGED <<fState, fErrCode, initMutex, call, err, built, budget>>
  BY DEF SpuriousWakeup
<1>2. at' = [at EXCEPT ![t] = "rewait"] /\ at[t] = "wait"
  BY DEF SpuriousWakeup, goto
<1>3. TypeOK'
  BY <1>1, <1>2 DEF Inv, TypeOK, Pc
<1>4. LocalOK(t)' /\ PendingOK(t)'
  <2>1. LocalOK(t) /\ PendingOK(t) /\ uio(t)' = uio(t) /\ uio(t) \in Once
    BY <1>1, <1>2, UioType DEF uio
  <2>2. at'[t] \in {"rewait"}
    BY <1>2, <2>1 DEF SpuriousWakeup, Inv, TypeOK, LocalOK
  <2> QED
    BY <1>1, <1>2, <2>1, <2>2 DEF LocalOK, PendingOK
<1>5. LocalInv' /\ OnceInv'
  BY <1>1, <1>2, <1>4, LocalStep DEF Inv, TypeOK
<1>6. SlotInv'
  BY <1>1, <1>2, SlotsFrame DEF Inv, TypeOK, Top
<1> QED
  BY <1>3, <1>5, <1>6 DEF Inv

LEMMA RewaitInv == ASSUME Inv, NEW t \in Thread, Rewait(t) PROVE Inv'
<1>1. UNCHANGED <<fState, fErrCode, initMutex, call, err, built, budget>>
  BY DEF Rewait
<1>2. at' = [at EXCEPT ![t] = IF fState[uio(t)] = 1 THEN "wait" ELSE "others"] /\ at[t] = "rewait"
  BY DEF Rewait, goto
<1>3. TypeOK'
  BY <1>1, <1>2 DEF Inv, TypeOK, Pc
<1>4. LocalOK(t)' /\ PendingOK(t)'
  <2>1. LocalOK(t) /\ PendingOK(t) /\ uio(t)' = uio(t) /\ uio(t) \in Once
    BY <1>1, <1>2, UioType DEF uio
  <2>2. at'[t] \in {"wait", "others"} /\ (at'[t] = "wait" => fState[uio(t)] = 1)
        /\ (at'[t] = "others" => fState[uio(t)] = 2)
    BY <1>2, <2>1 DEF Rewait, Inv, TypeOK, LocalOK
  <2> QED
    BY <1>1, <1>2, <2>1, <2>2 DEF LocalOK, PendingOK
<1>5. LocalInv' /\ OnceInv'
  BY <1>1, <1>2, <1>4, LocalStep DEF Inv, TypeOK
<1>6. SlotInv'
  BY <1>1, <1>2, SlotsFrame DEF Inv, TypeOK, Top
<1> QED
  BY <1>3, <1>5, <1>6 DEF Inv

LEMMA AwakeInv == ASSUME Inv, NEW t \in Thread, Awake(t) PROVE Inv'
<1>1. UNCHANGED <<fState, fErrCode, initMutex, call, err, built, budget>>
  BY DEF Awake
<1>2. at' = [at EXCEPT ![t] = "pre"] /\ at[t] = "sleep"
  BY DEF Awake, goto
<1>3. TypeOK'
  BY <1>1, <1>2 DEF Inv, TypeOK, Pc
<1>4. LocalOK(t)' /\ PendingOK(t)'
  <2>1. LocalOK(t) /\ PendingOK(t) /\ uio(t)' = uio(t) /\ uio(t) \in Once
    BY <1>1, <1>2, UioType DEF uio
  <2>2. at'[t] \in {"pre"}
    BY <1>2, <2>1 DEF Awake, Inv, TypeOK, LocalOK
  <2> QED
    BY <1>1, <1>2, <2>1, <2>2 DEF LocalOK, PendingOK
<1>5. LocalInv' /\ OnceInv'
  BY <1>1, <1>2, <1>4, LocalStep DEF Inv, TypeOK
<1>6. SlotInv'
  BY <1>1, <1>2, SlotsFrame DEF Inv, TypeOK, Top
<1> QED
  BY <1>3, <1>5, <1>6 DEF Inv

LEMMA OthersInv == ASSUME Inv, NEW t \in Thread, Others(t) PROVE Inv'
<1> DEFINE o == uio(t)
           e == IF o \in HasError /\ U_FAILURE(fErrCode[o]) THEN fErrCode[o] ELSE err[t]
<1>1. UNCHANGED <<fState, fErrCode, initMutex, call, built, budget>>
  BY DEF Others
<1>2. at' = [at EXCEPT ![t] = "return"] /\ at[t] = "others" /\ err' = [err EXCEPT ![t] = e]
  BY DEF Others, goto
<1>t. LocalOK(t) /\ PendingOK(t) /\ uio(t)' = o /\ o \in Once
  BY <1>1, <1>2, UioType DEF uio
<1>e. e \in Err
  BY <1>t DEF Inv, TypeOK
<1>f. fState[o] = 2 /\ (o \in HasError => (U_FAILURE(e) <=> U_FAILURE(built[o])))
  BY <1>2, <1>t DEF LocalOK, Inv, OnceInv, OnceOK, U_FAILURE
<1> HIDE DEF e, o
<1>3. TypeOK'
  BY <1>1, <1>2, <1>e DEF Inv, TypeOK, Pc
<1>4. LocalOK(t)' /\ PendingOK(t)'
  <2>1. at'[t] = "return" /\ err'[t] = e
    BY <1>2 DEF Inv, TypeOK
  <2> QED
    BY <1>1, <1>2, <1>t, <1>f, <2>1 DEF LocalOK, PendingOK
<1>5. LocalInv' /\ OnceInv'
  BY <1>1, <1>2, <1>4, LocalStep DEF Inv, TypeOK
<1>6. SlotInv'
  BY <1>1, <1>2, SlotsFrame DEF Inv, TypeOK, Top
<1> QED
  BY <1>3, <1>5, <1>6 DEF Inv

(* A call of umtx_initOnce(), by the client or by an init function. *)
LEMMA EnterFacts ==
    ASSUME Inv, NEW t \in Thread, NEW o \in Once, NEW e, enter(t, o, e),
           NEW q, q = Append(call[t], o)
    PROVE  /\ call' = [call EXCEPT ![t] = q] /\ q \in Seq(Once)
           /\ Len(q) = Len(call[t]) + 1 /\ q[Len(q)] = o /\ q # <<>>
           /\ \A i \in 1..Len(call[t]) : q[i] = call[t][i]
           /\ Len(call[t]) \in Nat
           /\ \E p \in {"skip", "load"} :
                 /\ at' = [at EXCEPT ![t] = p]
                 /\ p = "load" => ~(o \in HasError /\ U_FAILURE(e))
<1>1. call[t] \in Seq(Once) /\ Len(call[t]) \in Nat
  BY DEF Inv, TypeOK
<1>2. /\ q \in Seq(Once) /\ Len(q) = Len(call[t]) + 1 /\ q[Len(q)] = o
      /\ \A i \in 1..Len(call[t]) : q[i] = call[t][i]
  BY <1>1, AppendProperties
<1>3. q # <<>>
  BY <1>1, <1>2
<1>4. call' = [call EXCEPT ![t] = q]
  BY DEF enter
<1>5. \E p \in {"skip", "load"} :
         at' = [at EXCEPT ![t] = p] /\ (p = "load" => ~(o \in HasError /\ U_FAILURE(e)))
  BY DEF enter, goto
<1> QED
  BY <1>1, <1>2, <1>3, <1>4, <1>5
LEMMA CallInv == ASSUME Inv, NEW t \in Thread, NEW o \in Once, Call(t, o) PROVE Inv'
<1> DEFINE q == Append(call[t], o)
<1>b. budget' \in [Thread -> Nat]
  BY DEF Call, Inv, TypeOK
<1>a. \A e \in {err[t], "ZERO", "WARNING"} : e \in Err
  BY DEF Inv, TypeOK, Err
<1>1. PICK e \in Err : /\ err' = [err EXCEPT ![t] = e] /\ enter(t, o, e)
                       /\ UNCHANGED <<fState, fErrCode, initMutex, built>>
                       /\ budget' \in [Thread -> Nat]
  BY <1>a, <1>b, Zenon DEF Call
<1>k. at[t] = "idle" /\ call[t] = <<>> /\ Len(call[t]) = 0 /\ initMutex # t
  BY DEF Call, Inv, LocalInv, LocalOK
<1>n. \A i \in 1..Len(call[t]) : built[call[t][i]] = "none"
  BY <1>k
<1>q. enter(t, o, e) /\ q = Append(call[t], o)
  BY <1>1
<1>p. PICK p \in {"skip", "load"} :
         at' = [at EXCEPT ![t] = p] /\ (p = "load" => ~(o \in HasError /\ U_FAILURE(e)))
  BY <1>q, EnterFacts
<1>c. call' = [call EXCEPT ![t] = q] /\ q \in Seq(Once) /\ q # <<>>
  BY <1>q, EnterFacts
<1>l. /\ Len(q) = Len(call[t]) + 1 /\ q[Len(q)] = o /\ Len(call[t]) \in Nat
      /\ \A i \in 1..Len(call[t]) : q[i] = call[t][i]
  BY <1>q, EnterFacts
<1> HIDE DEF q
<1>t. at'[t] = p /\ call'[t] = q /\ err'[t] = e /\ uio(t)' = o
  BY <1>1, <1>p, <1>c, <1>l DEF Inv, TypeOK, uio
<1>3. TypeOK'
  BY <1>1, <1>p, <1>c DEF Inv, TypeOK, Pc
<1>4. LocalOK(t)' /\ PendingOK(t)'
  <2>1. LocalOK(t)'
    BY <1>1, <1>p, <1>c, <1>t, <1>k DEF LocalOK
  <2>2. PendingOK(t)'
    <3>1. \A i \in 1..Len(q) : i < Len(q) => i \in 1..Len(call[t])
      BY <1>l
    <3>2. at'[t] \notin {"run", "fn"}
      BY <1>p, <1>t
    <3> QED
      BY <1>1, <1>l, <1>t, <1>n, <3>1, <3>2 DEF PendingOK
  <2> QED
    BY <2>1, <2>2
<1>5. LocalInv' /\ OnceInv'
  BY <1>1, <1>p, <1>c, <1>4, LocalStep DEF Inv, TypeOK
<1>6. SlotInv'
  <2>1. ASSUME NEW i \in Nat, NEW a \in Once PROVE Slot(t, i, a)' <=> Slot(t, i, a)
    <3>1. Initializing(t, i)' <=> i \in 1..Len(call[t])
      BY <1>l, <1>p, <1>t DEF Initializing
    <3>2. Initializing(t, i) <=> i \in 1..Len(call[t])
      BY <1>k, <1>l DEF Initializing
    <3> QED
      BY <1>l, <1>t, <3>1, <3>2, Zenon DEF Slot
  <2>2. \A u \in Thread \ {t}, i \in Nat, a \in Once : Slot(u, i, a)' <=> Slot(u, i, a)
    BY <1>p, <1>c DEF Slot, Initializing, Inv, TypeOK
  <2> QED
    BY <1>1, <2>1, <2>2, SlotsSame DEF Inv
<1> QED
  BY <1>3, <1>5, <1>6 DEF Inv

LEMMA RunNestedInv ==
    ASSUME Inv, NEW t \in Thread, Run(t), Nested[uio(t)] # Null PROVE Inv'
<1> DEFINE o == Nested[uio(t)]
           e == err[t]
           q == Append(call[t], o)
<1>1. /\ err' = [err EXCEPT ![t] = e] /\ enter(t, o, e)
      /\ UNCHANGED <<fState, fErrCode, initMutex, built>>
      /\ budget' \in [Thread -> Nat] /\ e \in Err
  BY DEF Run, Inv, TypeOK
<1>k. /\ at[t] = "run" /\ Len(call[t]) \in 1..Len(call[t]) /\ initMutex # t
      /\ PendingOK(t)
  BY UioType DEF Run, LocalOK
<1>n. \A i \in 1..Len(call[t]) : built[call[t][i]] = "none"
  BY <1>k DEF PendingOK
<1>o. o \in Once
  BY <1>k, UioType, OnceAssumption
<1>q. enter(t, o, e) /\ q = Append(call[t], o)
  BY <1>1
<1> HIDE DEF o, e
<1>p. PICK p \in {"skip", "load"} :
         at' = [at EXCEPT ![t] = p] /\ (p = "load" => ~(o \in HasError /\ U_FAILURE(e)))
  BY <1>o, <1>q, EnterFacts
<1>c. call' = [call EXCEPT ![t] = q] /\ q \in Seq(Once) /\ q # <<>>
  <2>1. call' = [call EXCEPT ![t] = q]
    BY <1>q DEF enter
  <2>2. q \in Seq(Once) /\ q # <<>>
    BY <1>o, <1>q, EnterFacts
  <2> QED
    BY <2>1, <2>2
<1>l. /\ Len(q) = Len(call[t]) + 1 /\ q[Len(q)] = o /\ Len(call[t]) \in Nat
      /\ \A i \in 1..Len(call[t]) : q[i] = call[t][i]
  BY <1>o, <1>q, EnterFacts
<1> HIDE DEF q
<1>t. at'[t] = p /\ call'[t] = q /\ err'[t] = e /\ uio(t)' = o
  BY <1>1, <1>p, <1>c, <1>l DEF Inv, TypeOK, uio
<1>3. TypeOK'
  BY <1>1, <1>p, <1>c DEF Inv, TypeOK, Pc
<1>4. LocalOK(t)' /\ PendingOK(t)'
  <2>1. LocalOK(t)'
    BY <1>1, <1>p, <1>c, <1>t, <1>k DEF LocalOK
  <2>2. PendingOK(t)'
    <3>1. \A i \in 1..Len(q) : i < Len(q) => i \in 1..Len(call[t])
      BY <1>l
    <3>2. at'[t] \notin {"run", "fn"}
      BY <1>p, <1>t
    <3> QED
      BY <1>1, <1>l, <1>t, <1>n, <3>1, <3>2 DEF PendingOK
  <2> QED
    BY <2>1, <2>2
<1>5. LocalInv' /\ OnceInv'
  BY <1>1, <1>p, <1>c, <1>4, LocalStep DEF Inv, TypeOK
<1>6. SlotInv'
  <2>1. ASSUME NEW i \in Nat, NEW a \in Once PROVE Slot(t, i, a)' <=> Slot(t, i, a)
    <3>1. Initializing(t, i)' <=> i \in 1..Len(call[t])
      BY <1>l, <1>p, <1>t DEF Initializing
    <3>2. Initializing(t, i) <=> i \in 1..Len(call[t])
      BY <1>k, <1>l DEF Initializing
    <3> QED
      BY <1>l, <1>t, <3>1, <3>2, Zenon DEF Slot
  <2>2. \A u \in Thread \ {t}, i \in Nat, a \in Once : Slot(u, i, a)' <=> Slot(u, i, a)
    BY <1>p, <1>c DEF Slot, Initializing, Inv, TypeOK
  <2> QED
    BY <1>1, <2>1, <2>2, SlotsSame DEF Inv
<1> QED
  BY <1>3, <1>5, <1>6 DEF Inv

LEMMA RunInv == ASSUME Inv, NEW t \in Thread, Run(t) PROVE Inv'
<1> USE DEF Inv
<1>1. CASE Nested[uio(t)] = Null
  <2>1. UNCHANGED <<fState, fErrCode, initMutex, call, err, built, budget>>
    BY <1>1 DEF Run
  <2>2. at' = [at EXCEPT ![t] = "fn"] /\ at[t] = "run"
    BY <1>1 DEF Run, goto
  <2>3. TypeOK'
    BY <2>1, <2>2 DEF TypeOK, Pc
  <2>4. LocalOK(t)' /\ PendingOK(t)'
    <3>1. LocalOK(t) /\ PendingOK(t) /\ uio(t)' = uio(t) /\ at'[t] = "fn"
      BY <2>1, <2>2, UioType DEF uio, TypeOK
    <3> QED
      BY <2>1, <2>2, <3>1 DEF LocalOK, PendingOK
  <2>5. LocalInv' /\ OnceInv'
    BY <2>1, <2>2, <2>4, LocalStep DEF TypeOK
  <2>6. SlotInv'
    BY <2>1, <2>2, SlotsFrame DEF TypeOK, Top
  <2> QED
    BY <2>3, <2>5, <2>6
<1>2. CASE Nested[uio(t)] # Null
  BY <1>2, RunNestedInv
<1> QED
  BY <1>1, <1>2

(* umtx_initOnce() returns: the call that it was nested in goes on. *)
LEMMA ReturnInv == ASSUME Inv, NEW t \in Thread, Return(t) PROVE Inv'
<1> DEFINE n == Len(call[t])
           q == SubSeq(call[t], 1, n - 1)
           p == IF n = 1 THEN "idle" ELSE "fn"
<1>1. /\ at[t] \in {"return", "skip"} /\ call' = [call EXCEPT ![t] = q] /\ at' = [at EXCEPT ![t] = p]
      /\ UNCHANGED <<fState, fErrCode, initMutex, err, built, budget>>
  BY DEF Return, goto
<1>2. call[t] \in Seq(Once) /\ n \in Nat /\ n >= 1 /\ LocalOK(t) /\ PendingOK(t)
  BY <1>1, UioType
<1>3. q \in Seq(Once) /\ Len(q) = n - 1 /\ \A i \in 1..(n - 1) : q[i] = call[t][i]
  <2>1. 1 \in Int /\ n - 1 \in Int /\ \A i \in 1..(n - 1) : call[t][i] \in Once
    BY <1>2
  <2>2. q \in Seq(Once) /\ Len(q) = n - 1
    BY <1>2, <2>1, SubSeqProperties
  <2>3. \A i \in 1..((n - 1) - 1 + 1) : q[i] = call[t][1 + i - 1]
    BY <1>2, <2>1, SubSeqProperties
  <2> QED
    BY <1>2, <2>2, <2>3
<1> HIDE DEF q, n
<1>4. at'[t] = p /\ call'[t] = q /\ err'[t] = err[t] /\ initMutex # t
  BY <1>1, <1>2 DEF Inv, TypeOK, LocalOK
<1>5. TypeOK'
  BY <1>1, <1>3 DEF Inv, TypeOK, Pc
<1>6. LocalOK(t)'
  <2>1. p = "idle" <=> q = <<>>
    BY <1>2, <1>3
  <2> QED
    BY <1>1, <1>4, <2>1 DEF LocalOK
<1>7. PendingOK(t)'
  <2>1. \A i \in 1..Len(q) : i \in 1..n /\ i < n /\ q[i] = call[t][i]
    BY <1>2, <1>3
  <2> QED
    BY <1>1, <1>2, <1>4, <2>1 DEF PendingOK, n
<1>8. LocalInv' /\ OnceInv'
  BY <1>1, <1>6, <1>7, LocalStep DEF Inv, TypeOK
<1>9. SlotInv'
  <2>1. ASSUME NEW i \in Nat, NEW a \in Once PROVE Slot(t, i, a)' <=> Slot(t, i, a)
    <3>1. Initializing(t, i)' <=> i \in 1..(n - 1)
      BY <1>2, <1>3, <1>4 DEF Initializing
    <3>2. Initializing(t, i) <=> i \in 1..(n - 1)
      BY <1>1, <1>2 DEF Initializing, n
    <3> QED
      BY <1>3, <1>4, <3>1, <3>2, Zenon DEF Slot
  <2>2. \A u \in Thread \ {t}, i \in Nat, a \in Once : Slot(u, i, a)' <=> Slot(u, i, a)
    BY <1>1 DEF Slot, Initializing, Inv, TypeOK
  <2> QED
    BY <1>1, <2>1, <2>2, SlotsSame DEF Inv
<1> QED
  BY <1>5, <1>8, <1>9 DEF Inv
(* A thread that finds state 0 takes the initialization, and its call gets *)
(* the slot.                                                               *)
LEMMA TakeInv ==
    ASSUME Inv, NEW t \in Thread, at[t] = "pre", fState[uio(t)] = 0,
           fState' = [fState EXCEPT ![uio(t)] = 1], at' = [at EXCEPT ![t] = "run"],
           UNCHANGED <<fErrCode, initMutex, call, err, built, budget>>
    PROVE  Inv'
<1> DEFINE o == uio(t)
           n == Len(call[t])
<1>1. o \in Once /\ LocalOK(t) /\ PendingOK(t) /\ n \in Nat /\ n \in 1..n /\ call[t][n] = o
  BY UioType DEF uio
<1>2. uio(t)' = o /\ at'[t] = "run"
  BY DEF uio, Inv, TypeOK
<1> HIDE DEF o
<1>3. TypeOK'
  BY <1>1 DEF Inv, TypeOK, Pc, o
<1>4. fState'[o] = 1 /\ \A a \in Once : a # o => fState'[a] = fState[a]
  BY <1>1 DEF Inv, TypeOK, o
<1>5. OnceInv'
  BY <1>4 DEF Inv, OnceInv, OnceOK
<1>6. LocalOK(t)' /\ PendingOK(t)'
  <2>1. built[o] = "none"
    BY <1>1 DEF Inv, OnceInv, OnceOK, o
  <2>2. \A i \in 1..n : i < n \/ i = n
    BY <1>1
  <2>3. PendingOK(t)'
    BY <1>1, <1>2, <2>1, <2>2 DEF PendingOK
  <2> QED
    BY <1>1, <1>2, <2>3 DEF LocalOK, o
<1>7. ASSUME NEW u \in Thread, u # t PROVE LocalOK(u)' /\ PendingOK(u)'
  <2>1. LocalOK(u) /\ PendingOK(u) /\ at'[u] = at[u] /\ uio(u)' = uio(u)
    BY <1>7 DEF Inv, TypeOK, LocalInv, uio
  <2>2. at[u] # "idle" => uio(u) \in Once
    BY UioType
  <2>3. at[u] \in {"others", "return", "broadcast", "wait", "rewait"} => fState'[uio(u)] = fState[uio(u)]
    BY <1>4, <2>1, <2>2 DEF LocalOK, o
  <2>4. LocalOK(u)'
    BY <2>1, <2>3 DEF LocalOK
  <2>5. PendingOK(u)'
    BY <2>1 DEF PendingOK
  <2> QED
    BY <2>4, <2>5
<1>8. \A u \in Thread, i \in Nat, a \in Once :
         Slot(u, i, a)' <=> Slot(u, i, a) \/ (u = t /\ i = n /\ a = o)
  <2>1. ASSUME NEW i \in Nat, NEW a \in Once
        PROVE  Slot(t, i, a)' <=> Slot(t, i, a) \/ (i = n /\ a = o)
    <3>1. Initializing(t, i)' <=> i \in 1..n
      BY <1>2 DEF Initializing
    <3>2. Initializing(t, i) <=> i \in 1..n /\ i # n
      BY <1>1 DEF Initializing
    <3> QED
      BY <1>1, <3>1, <3>2 DEF Slot
  <2>2. \A u \in Thread \ {t}, i \in Nat, a \in Once : Slot(u, i, a)' <=> Slot(u, i, a)
    BY DEF Slot, Initializing, Inv, TypeOK
  <2> QED
    BY <2>1, <2>2
<1>9. SlotInv'
  <2>1. \A u \in Thread, i \in Nat : ~Slot(u, i, o)
    BY <1>1 DEF Inv, SlotInv, o
  <2>2. \A u \in Thread, i \in Nat, a \in Once : Slot(u, i, a)' => fState'[a] = 1
    BY <1>4, <1>8, <2>1 DEF Inv, SlotInv
  <2>3. \A u, w \in Thread, i, j \in Nat, a \in Once :
           Slot(u, i, a)' /\ Slot(w, j, a)' => u = w /\ i = j
    BY <1>8, <2>1 DEF Inv, SlotInv
  <2>4. \A a \in Once : fState'[a] = 1 => \E u \in Thread, i \in Nat : Slot(u, i, a)'
    BY <1>1, <1>4, <1>8 DEF Inv, SlotInv
  <2> QED
    BY <2>2, <2>3, <2>4 DEF SlotInv
<1> QED
  BY <1>3, <1>5, <1>6, <1>7, <1>9 DEF Inv, LocalInv

LEMMA PreInitInv == ASSUME Inv, NEW t \in Thread, PreInit(t) PROVE Inv'
<1>1. at[t] = "pre" /\ UNCHANGED <<fErrCode, initMutex, call, err, built, budget>> /\ Platform = "posix"
  BY DEF PreInit
<1>2. uio(t) \in Once /\ LocalOK(t) /\ PendingOK(t) /\ uio(t)' = uio(t) /\ fState[uio(t)] \in 0..2
  <2>1. uio(t) \in Once /\ LocalOK(t) /\ PendingOK(t)
    BY <1>1, UioType
  <2> QED
    BY <1>1, <2>1 DEF uio, Inv, TypeOK
<1>3. CASE fState[uio(t)] = 0
  <2>1. fState' = [fState EXCEPT ![uio(t)] = 1] /\ at' = [at EXCEPT ![t] = "run"]
    BY <1>3 DEF PreInit, goto
  <2> QED
    BY <1>1, <1>3, <2>1, TakeInv
<1>4. CASE fState[uio(t)] # 0
  <2>1. fState' = [fState EXCEPT ![uio(t)] = fState[uio(t)]]
    BY <1>4 DEF PreInit
  <2>2. fState' = fState
    BY <2>1 DEF Inv, TypeOK
  <2>3. PICK p \in {"wait", "others"} :
           /\ at' = [at EXCEPT ![t] = p]
           /\ p = "wait" => fState[uio(t)] = 1
           /\ p = "others" => fState[uio(t)] = 2
    <3>1. CASE fState[uio(t)] = 1
      <4>1. at' = [at EXCEPT ![t] = "wait"]
        BY <3>1 DEF PreInit, goto
      <4> QED
        BY <3>1, <4>1
    <3>2. CASE fState[uio(t)] = 2
      <4>1. at' = [at EXCEPT ![t] = "others"]
        BY <3>2 DEF PreInit, goto
      <4> QED
        BY <3>2, <4>1
    <3> QED
      BY <1>2, <1>4, <3>1, <3>2
  <2>4. TypeOK'
    BY <1>1, <2>2, <2>3 DEF Inv, TypeOK, Pc
  <2>5. LocalOK(t)' /\ PendingOK(t)'
    <3>1. at'[t] = p
      BY <2>3 DEF Inv, TypeOK
    <3>2. LocalOK(t)'
      <4>1. fState'[uio(t)] = fState[uio(t)] /\ (at'[t] = "others" => fState[uio(t)] = 2)
            /\ (at'[t] \in {"wait", "sleep"} => fState[uio(t)] = 1)
        BY <2>2, <2>3, <3>1
      <4>2. CASE at'[t] = "others"
        BY <1>1, <1>2, <4>1, <4>2 DEF LocalOK
      <4>3. CASE at'[t] = "wait"
        BY <1>1, <1>2, <4>1, <4>3 DEF LocalOK
      <4> QED
        BY <3>1, <4>2, <4>3
    <3>3. PendingOK(t)'
      BY <1>1, <1>2, <3>1 DEF PendingOK
    <3> QED
      BY <3>2, <3>3
  <2>6. LocalInv' /\ OnceInv'
    BY <1>1, <2>2, <2>3, <2>5, LocalStep DEF Inv, TypeOK
  <2>7. SlotInv'
    BY <1>1, <2>2, <2>3, SlotsFrame DEF Inv, TypeOK, Top
  <2> QED
    BY <2>4, <2>6, <2>7 DEF Inv
<1> QED
  BY <1>3, <1>4

LEMMA PreInitWinInv == ASSUME Inv, NEW t \in Thread, PreInitWin(t) PROVE Inv'
<1>1. at[t] = "pre" /\ UNCHANGED <<fErrCode, initMutex, call, err, built, budget>>
  BY DEF PreInitWin
<1>2. uio(t) \in Once /\ LocalOK(t) /\ PendingOK(t) /\ uio(t)' = uio(t) /\ fState[uio(t)] \in 0..2
  <2>1. uio(t) \in Once /\ LocalOK(t) /\ PendingOK(t)
    BY <1>1, UioType
  <2> QED
    BY <1>1, <2>1 DEF uio, Inv, TypeOK
<1>3. CASE fState[uio(t)] = 0
  <2>1. fState' = [fState EXCEPT ![uio(t)] = 1] /\ at' = [at EXCEPT ![t] = "run"]
    BY <1>3 DEF PreInitWin, goto
  <2> QED
    BY <1>1, <1>3, <2>1, TakeInv
<1>4. CASE fState[uio(t)] # 0
  <2>1. fState' = [fState EXCEPT ![uio(t)] = fState[uio(t)]]
    BY <1>4 DEF PreInitWin
  <2>2. fState' = fState
    BY <2>1 DEF Inv, TypeOK
  <2>3. PICK p \in {"sleep", "others"} :
           /\ at' = [at EXCEPT ![t] = p]
           /\ p = "sleep" => fState[uio(t)] = 1
           /\ p = "others" => fState[uio(t)] = 2
    <3>1. CASE fState[uio(t)] = 1
      <4>1. at' = [at EXCEPT ![t] = "sleep"]
        BY <3>1 DEF PreInitWin, goto
      <4> QED
        BY <3>1, <4>1
    <3>2. CASE fState[uio(t)] = 2
      <4>1. at' = [at EXCEPT ![t] = "others"]
        BY <3>2 DEF PreInitWin, goto
      <4> QED
        BY <3>2, <4>1
    <3> QED
      BY <1>2, <1>4, <3>1, <3>2
  <2>4. TypeOK'
    BY <1>1, <2>2, <2>3 DEF Inv, TypeOK, Pc
  <2>5. LocalOK(t)' /\ PendingOK(t)'
    <3>1. at'[t] = p
      BY <2>3 DEF Inv, TypeOK
    <3>2. LocalOK(t)'
      <4>1. fState'[uio(t)] = fState[uio(t)] /\ (at'[t] = "others" => fState[uio(t)] = 2)
            /\ (at'[t] \in {"wait", "sleep"} => fState[uio(t)] = 1)
        BY <2>2, <2>3, <3>1
      <4>2. CASE at'[t] = "others"
        BY <1>1, <1>2, <4>1, <4>2 DEF LocalOK
      <4>3. CASE at'[t] = "sleep"
        BY <1>1, <1>2, <4>1, <4>3 DEF LocalOK
      <4> QED
        BY <3>1, <4>2, <4>3
    <3>3. PendingOK(t)'
      BY <1>1, <1>2, <3>1 DEF PendingOK
    <3> QED
      BY <3>2, <3>3
  <2>6. LocalInv' /\ OnceInv'
    BY <1>1, <2>2, <2>3, <2>5, LocalStep DEF Inv, TypeOK
  <2>7. SlotInv'
    BY <1>1, <2>2, <2>3, SlotsFrame DEF Inv, TypeOK, Top
  <2> QED
    BY <2>4, <2>6, <2>7 DEF Inv
<1> QED
  BY <1>3, <1>4

(* Whoever initializes o knows that no other call does, and that nobody is *)
(* past the initialization of o.                                           *)
LEMMA Alone ==
    ASSUME Inv, NEW t \in Thread, at[t] \in Top
    PROVE  /\ fState[uio(t)] = 1
           /\ \A i \in 1..Len(call[t]) : i < Len(call[t]) => call[t][i] # uio(t)
           /\ \A u \in Thread \ {t} :
                 /\ at[u] \in Top \cup {"others", "broadcast", "return"} => uio(u) # uio(t)
                 /\ \A i \in 1..Len(call[u]) :
                       i < Len(call[u]) \/ at[u] \in Top => call[u][i] # uio(t)
<1> DEFINE o == uio(t)
           n == Len(call[t])
<1>1. o \in Once /\ n \in Nat /\ n \in 1..n /\ call[t][n] = o
  BY UioType DEF uio, Top
<1> HIDE DEF o
<1>2. Slot(t, n, o)
  BY <1>1 DEF Slot, Initializing, Top
<1>3. fState[o] = 1
  BY <1>1, <1>2 DEF Inv, SlotInv
<1>4. ASSUME NEW u \in Thread, NEW i \in 1..Len(call[u]),
             i < Len(call[u]) \/ at[u] \in Top, call[u][i] = o
      PROVE  u = t /\ i = n
  <2>1. call[u] \in Seq(Once)
    BY DEF Inv, TypeOK
  <2>2. i \in Nat /\ Slot(u, i, o)
    BY <1>4, <2>1 DEF Slot, Initializing, Top
  <2> QED
    BY <1>1, <1>2, <2>2 DEF Inv, SlotInv
<1>5. \A i \in 1..n : i < n => call[t][i] # o
  BY <1>1, <1>4
<1>6. ASSUME NEW u \in Thread \ {t}
      PROVE  at[u] \in Top \cup {"others", "broadcast", "return"} => uio(u) # o
  <2>1. CASE at[u] \in Top
    <3>1. Len(call[u]) \in 1..Len(call[u])
      BY <2>1, UioType DEF Top
    <3> QED
      BY <1>4, <2>1, <3>1 DEF uio
  <2>2. CASE at[u] \in {"others", "broadcast", "return"}
    BY <1>3, <2>2 DEF Inv, LocalInv, LocalOK
  <2> QED
    BY <2>1, <2>2
<1> QED
  BY <1>3, <1>4, <1>5, <1>6 DEF o

LEMMA InitFunctionInv == ASSUME Inv, NEW t \in Thread, InitFunction(t) PROVE Inv'
<1> DEFINE o == uio(t)
<1>1. at[t] = "fn" /\ UNCHANGED <<fState, fErrCode, initMutex, call, budget>>
  BY DEF InitFunction
<1>2. o \in Once /\ LocalOK(t) /\ PendingOK(t) /\ call[t] \in Seq(Once) /\ err[t] \in Err
  BY <1>1, UioType DEF Inv, TypeOK
<1>3. PICK e \in Err : err' = [err EXCEPT ![t] = e] /\ built' = [built EXCEPT ![o] = e]
  <2>1. PICK e \in IF U_FAILURE(err[t]) \/ uio(t) \notin HasError THEN {err[t]} ELSE Outcomes :
           err' = [err EXCEPT ![t] = e] /\ built' = [built EXCEPT ![uio(t)] = e]
    BY DEF InitFunction
  <2>2. e \in Err
    BY <1>2, OnceAssumption
  <2> QED
    BY <2>1, <2>2
<1>4. PICK p \in {"store", "post"} : at' = [at EXCEPT ![t] = p] /\ (p = "post" => o \notin HasError)
  BY DEF InitFunction, goto
<1>5. uio(t)' = o
  BY <1>1 DEF uio
<1>6. fState[o] = 1
  BY <1>1, Alone DEF Top
<1>7. \A i \in 1..Len(call[t]) : i < Len(call[t]) => call[t][i] # o
  BY <1>1, Alone DEF Top
<1>8. \A u \in Thread \ {t} :
         /\ at[u] \in Top \cup {"others", "broadcast", "return"} => uio(u) # o
         /\ \A i \in 1..Len(call[u]) : i < Len(call[u]) \/ at[u] \in Top => call[u][i] # o
  BY <1>1, Alone DEF Top
<1> HIDE DEF o
<1>9. TypeOK'
  BY <1>1, <1>2, <1>3, <1>4 DEF Inv, TypeOK, Pc
<1>10. at'[t] = p /\ err'[t] = e /\ built'[o] = e /\ \A a \in Once : a # o => built'[a] = built[a]
  BY <1>2, <1>3, <1>4 DEF Inv, TypeOK
<1>11. LocalOK(t)' /\ PendingOK(t)'
  <2>1. LocalOK(t)'
    <3>1. e # "none"
      BY DEF Err
    <3> QED
      BY <1>1, <1>2, <1>4, <1>5, <1>10, <3>1 DEF LocalOK
  <2>2. PendingOK(t)'
    <3>1. ASSUME NEW i \in 1..Len(call[t]), i < Len(call[t]) PROVE built'[call[t][i]] = "none"
      <4>1. call[t][i] \in Once /\ call[t][i] # o
        BY <1>2, <1>7, <3>1
      <4>2. built[call[t][i]] = "none"
        BY <1>2, <3>1 DEF PendingOK
      <4> QED
        BY <1>10, <4>1, <4>2
    <3> QED
      BY <1>1, <1>4, <1>10, <3>1 DEF PendingOK
  <2> QED
    BY <2>1, <2>2
<1>12. ASSUME NEW u \in Thread, u # t PROVE LocalOK(u)' /\ PendingOK(u)'
  <2>1. LocalOK(u) /\ PendingOK(u) /\ at'[u] = at[u] /\ err'[u] = err[u] /\ uio(u)' = uio(u)
        /\ call[u] \in Seq(Once)
    BY <1>1, <1>3, <1>4, <1>12 DEF Inv, TypeOK, LocalInv, uio
  <2>2. at[u] # "idle" => uio(u) \in Once
    BY UioType
  <2>3. at[u] \in {"store", "post", "broadcast", "return"} => built'[uio(u)] = built[uio(u)]
    BY <1>8, <1>10, <1>12, <2>2 DEF Top
  <2>4. LocalOK(u)'
    BY <1>1, <2>1, <2>3 DEF LocalOK
  <2>5. PendingOK(u)'
    <3>1. ASSUME NEW i \in 1..Len(call[u]), i < Len(call[u]) \/ at[u] \in {"run", "fn"}
          PROVE  built'[call[u][i]] = "none"
      <4>1. call[u][i] \in Once /\ call[u][i] # o
        <5>1. call[u][i] \in Once
          BY <2>1, <3>1, ElementOfSeq, Zenon
        <5>2. i < Len(call[u]) \/ at[u] \in Top
          BY <3>1 DEF Top
        <5>3. u \in Thread \ {t}
          BY <1>12
        <5> QED
          BY <1>8, <5>1, <5>2, <5>3
      <4>2. built[call[u][i]] = "none"
        BY <2>1, <3>1 DEF PendingOK
      <4> QED
        BY <1>10, <4>1, <4>2
    <3> QED
      BY <1>1, <2>1, <3>1 DEF PendingOK
  <2> QED
    BY <2>4, <2>5
<1>13. OnceInv'
  <2>1. ASSUME NEW a \in Once, a # o PROVE OnceOK(a)'
    BY <1>1, <1>6, <1>10, <2>1 DEF Inv, OnceInv, OnceOK
  <2>2. ASSUME NEW a \in Once, a = o PROVE OnceOK(a)'
    BY <1>1, <1>6, <2>2 DEF OnceOK
  <2> QED
    BY <2>1, <2>2 DEF OnceInv
<1>14. SlotInv'
  BY <1>1, <1>4, SlotsFrame DEF Inv, TypeOK, Top
<1> QED
  BY <1>9, <1>11, <1>12, <1>13, <1>14 DEF Inv, LocalInv

LEMMA StoreErrorInv == ASSUME Inv, NEW t \in Thread, StoreError(t) PROVE Inv'
<1> DEFINE o == uio(t)
<1>1. /\ at[t] = "store" /\ at' = [at EXCEPT ![t] = "post"]
      /\ fErrCode' = [fErrCode EXCEPT ![o] = err[t]]
      /\ UNCHANGED <<fState, initMutex, call, err, built, budget>>
  BY DEF StoreError, goto
<1>2. o \in Once /\ LocalOK(t) /\ PendingOK(t) /\ err[t] \in Err
  BY <1>1, UioType DEF Inv, TypeOK
<1>3. fState[o] = 1
  BY <1>1, Alone DEF Top
<1>4. \A u \in Thread \ {t} : at[u] \in Top => uio(u) # o
  BY <1>1, Alone DEF Top
<1>5. uio(t)' = o
  BY <1>1 DEF uio
<1> HIDE DEF o
<1>6. TypeOK'
  BY <1>1, <1>2 DEF Inv, TypeOK, Pc
<1>7. at'[t] = "post" /\ fErrCode'[o] = err[t] /\ \A a \in Once : a # o => fErrCode'[a] = fErrCode[a]
  BY <1>1, <1>2 DEF Inv, TypeOK
<1>8. LocalOK(t)' /\ PendingOK(t)'
  <2>1. LocalOK(t)'
    BY <1>1, <1>2, <1>5, <1>7 DEF LocalOK, o
  <2>2. PendingOK(t)'
    BY <1>1, <1>2, <1>7 DEF PendingOK
  <2> QED
    BY <2>1, <2>2
<1>9. ASSUME NEW u \in Thread, u # t PROVE LocalOK(u)' /\ PendingOK(u)'
  <2>1. LocalOK(u) /\ PendingOK(u) /\ at'[u] = at[u] /\ uio(u)' = uio(u)
    BY <1>1, <1>9 DEF Inv, TypeOK, LocalInv, uio
  <2>2. at[u] = "post" => fErrCode'[uio(u)] = fErrCode[uio(u)]
    BY <1>4, <1>7, <1>9, UioType DEF Top
  <2>3. LocalOK(u)'
    BY <1>1, <2>1, <2>2 DEF LocalOK
  <2>4. PendingOK(u)'
    BY <1>1, <2>1 DEF PendingOK
  <2> QED
    BY <2>3, <2>4
<1>10. OnceInv'
  <2>1. ASSUME NEW a \in Once, a # o PROVE OnceOK(a)'
    BY <1>1, <1>3, <1>7, <2>1 DEF Inv, OnceInv, OnceOK
  <2>2. ASSUME NEW a \in Once, a = o PROVE OnceOK(a)'
    BY <1>1, <1>3, <2>2 DEF OnceOK
  <2> QED
    BY <2>1, <2>2 DEF OnceInv
<1>11. SlotInv'
  BY <1>1, SlotsFrame DEF Inv, TypeOK, Top
<1> QED
  BY <1>6, <1>8, <1>9, <1>10, <1>11 DEF Inv, LocalInv

(* Publishing state 2 gives up the slot. *)
LEMMA PublishSlots ==
    ASSUME Inv, NEW t \in Thread, at[t] = "post", NEW p \in Pc \ Top,
           fState' = [fState EXCEPT ![uio(t)] = 2], at' = [at EXCEPT ![t] = p],
           call' = call
    PROVE  SlotInv'
<1> DEFINE o == uio(t)
           n == Len(call[t])
<1>1. o \in Once /\ n \in Nat /\ n \in 1..n /\ call[t][n] = o
  BY UioType DEF uio
<1>2. fState'[o] = 2 /\ (\A a \in Once : a # o => fState'[a] = fState[a]) /\ at'[t] = p
  BY <1>1 DEF Inv, TypeOK
<1> HIDE DEF o
<1>3. Slot(t, n, o)
  BY <1>1 DEF Slot, Initializing
<1>4. \A u \in Thread, i \in Nat, a \in Once :
         Slot(u, i, a)' <=> Slot(u, i, a) /\ a # o
  <2>1. ASSUME NEW i \in Nat, NEW a \in Once
        PROVE  Slot(t, i, a)' <=> Slot(t, i, a) /\ i # n
    <3>1. Initializing(t, i)' <=> i \in 1..n /\ i < n
      BY <1>2 DEF Initializing, Top
    <3>2. Initializing(t, i) <=> i \in 1..n
      BY DEF Initializing
    <3>3. i \in 1..n => (i < n <=> i # n)
      BY <1>1
    <3> QED
      BY <3>1, <3>2, <3>3 DEF Slot
  <2>2. \A u \in Thread \ {t}, i \in Nat, a \in Once : Slot(u, i, a)' <=> Slot(u, i, a)
    BY DEF Slot, Initializing, Inv, TypeOK
  <2>3. \A u \in Thread, i \in Nat : Slot(u, i, o) => u = t /\ i = n
    BY <1>1, <1>3 DEF Inv, SlotInv
  <2>4. \A a \in Once : Slot(t, n, a) => a = o
    BY <1>1 DEF Slot
  <2> QED
    BY <1>1, <2>1, <2>2, <2>3, <2>4
<1> QED
  BY <1>1, <1>2, <1>4 DEF Inv, SlotInv

(* What the others see when state 2 is published. *)
LEMMA PublishInv ==
    ASSUME Inv, NEW t \in Thread, at[t] = "post", NEW p \in {"broadcast", "return"},
           fState' = [fState EXCEPT ![uio(t)] = 2], at' = [at EXCEPT ![t] = p],
           UNCHANGED <<fErrCode, call, err, built, budget>>,
           \/ Platform = "posix" /\ initMutex = Null /\ initMutex' = t /\ p = "broadcast"
           \/ Platform = "win32" /\ initMutex' = initMutex /\ p = "return"
    PROVE  Inv'
<1> DEFINE o == uio(t)
<1>1. o \in Once /\ LocalOK(t) /\ PendingOK(t)
  BY UioType
<1>2. uio(t)' = o
  BY DEF uio
<1>3. fState[o] = 1
  BY Alone DEF Top
<1>4. fState'[o] = 2 /\ (\A a \in Once : a # o => fState'[a] = fState[a]) /\ at'[t] = p
  BY <1>1 DEF Inv, TypeOK
<1>5. t # Null
  BY OnceAssumption
<1> HIDE DEF o
<1>6. TypeOK'
  BY <1>1 DEF Inv, TypeOK, Pc, o
<1>7. LocalOK(t)' /\ PendingOK(t)'
  <2>1. LocalOK(t)'
    BY <1>1, <1>2, <1>4 DEF LocalOK, o
  <2>2. PendingOK(t)'
    BY <1>1, <1>4 DEF PendingOK
  <2> QED
    BY <2>1, <2>2
<1>8. ASSUME NEW u \in Thread, u # t PROVE LocalOK(u)' /\ PendingOK(u)'
  <2>1. LocalOK(u) /\ PendingOK(u) /\ at'[u] = at[u] /\ uio(u)' = uio(u)
    BY <1>8 DEF Inv, TypeOK, LocalInv, uio
  <2>2. at[u] # "idle" => uio(u) \in Once
    BY UioType
  <2>3. at[u] # "idle" => fState'[uio(u)] = fState[uio(u)] \/ fState'[uio(u)] = 2
    BY <1>4, <2>2
  <2>4. at[u] \in {"others", "return", "broadcast"} => fState'[uio(u)] = 2
    <3>1. at[u] \in {"others", "return", "broadcast"} => fState[uio(u)] = 2
      BY <2>1 DEF LocalOK
    <3> QED
      BY <2>3, <3>1
  <2>5. at[u] \in {"wait", "rewait"} => fState'[uio(u)] # 0
    BY <2>1, <2>3 DEF LocalOK
  <2>6. at[u] = "wait" => initMutex' # Null
    BY <1>5, <2>1 DEF LocalOK
  <2>7. at[u] = "broadcast" <=> initMutex' = u
    BY <1>8, <2>1, OnceAssumption DEF LocalOK
  <2>8. LocalOK(u)'
    BY <2>1, <2>4, <2>5, <2>6, <2>7 DEF LocalOK
  <2>9. PendingOK(u)'
    BY <2>1 DEF PendingOK
  <2> QED
    BY <2>8, <2>9
<1>9. OnceInv'
  <2>1. built[o] # "none" /\ (o \in HasError => err[t] = built[o] /\ fErrCode[o] = err[t])
    BY <1>1 DEF LocalOK, o
  <2> QED
    BY <1>4, <2>1 DEF Inv, OnceInv, OnceOK
<1>10. SlotInv'
  BY PublishSlots DEF Pc, Top
<1> QED
  BY <1>6, <1>7, <1>8, <1>9, <1>10 DEF Inv, LocalInv

LEMMA PostInitInv == ASSUME Inv, NEW t \in Thread, PostInit(t) PROVE Inv'
BY PublishInv DEF PostInit, goto

LEMMA PostInitWinInv == ASSUME Inv, NEW t \in Thread, PostInitWin(t) PROVE Inv'
BY PublishInv DEF PostInitWin, goto

LEMMA BroadcastInv == ASSUME Inv, NEW t \in Thread, Broadcast(t) PROVE Inv'
<1>1. /\ at[t] = "broadcast" /\ initMutex' = Null
      /\ at' = [u \in Thread |-> IF u = t THEN "return"
                                 ELSE IF at[u] = "wait" THEN "rewait" ELSE at[u]]
      /\ UNCHANGED <<fState, fErrCode, call, err, built, budget>>
  BY DEF Broadcast
<1>2. LocalOK(t) /\ initMutex = t
  BY <1>1, UioType DEF LocalOK
<1>3. TypeOK'
  <2>1. at' \in [Thread -> Pc]
    BY <1>1 DEF Inv, TypeOK, Pc
  <2> QED
    BY <1>1, <2>1 DEF Inv, TypeOK
<1>4. ASSUME NEW u \in Thread PROVE LocalOK(u)' /\ PendingOK(u)'
  <2>1. LocalOK(u) /\ PendingOK(u) /\ uio(u)' = uio(u) /\ u # Null
    BY <1>1, OnceAssumption DEF Inv, LocalInv, uio
  <2>2. CASE u = t
    <3>1. at[u] = "broadcast" /\ at'[u] = "return"
      BY <1>1, <2>2
    <3> QED
      BY <1>1, <2>1, <3>1 DEF LocalOK, PendingOK
  <2>3. CASE u # t /\ at[u] = "wait"
    <3>1. at'[u] = "rewait"
      BY <1>1, <2>3
    <3> QED
      BY <1>1, <2>1, <2>3, <3>1 DEF LocalOK, PendingOK
  <2>4. CASE u # t /\ at[u] # "wait"
    <3>1. at'[u] = at[u] /\ at[u] # "broadcast"
      BY <1>1, <1>2, <2>1, <2>4 DEF LocalOK
    <3> QED
      BY <1>1, <2>1, <2>4, <3>1 DEF LocalOK, PendingOK
  <2> QED
    BY <2>2, <2>3, <2>4
<1>5. OnceInv'
  BY <1>1 DEF Inv, OnceInv, OnceOK
<1>6. SlotInv'
  <2>1. \A u \in Thread : at'[u] \in Top <=> at[u] \in Top
    BY <1>1 DEF Top
  <2> QED
    BY <1>1, <2>1, SlotsFrame DEF Inv
<1> QED
  BY <1>3, <1>4, <1>5, <1>6 DEF Inv, LocalInv

LEMMA CleanupInv == ASSUME Inv, Cleanup PROVE Inv'
<1>1. /\ \A t \in Thread : at[t] = "idle"
      /\ fState' = [o \in Once |-> 0] /\ built' = [o \in Once |-> "none"]
      /\ UNCHANGED <<fErrCode, initMutex, call, at, err, budget>>
  BY DEF Cleanup
<1>2. TypeOK'
  BY <1>1 DEF Inv, TypeOK
<1>3. ASSUME NEW t \in Thread PROVE LocalOK(t) /\ call[t] = <<>> /\ at[t] = "idle"
  BY <1>1 DEF Inv, LocalInv, LocalOK
<1>4. LocalInv'
  <2>1. ASSUME NEW t \in Thread PROVE LocalOK(t)'
    BY <1>1, <1>3 DEF LocalOK
  <2>2. ASSUME NEW t \in Thread PROVE PendingOK(t)'
    BY <1>1, <1>3 DEF PendingOK
  <2> QED
    BY <2>1, <2>2 DEF LocalInv
<1>5. OnceInv'
  BY <1>1 DEF OnceInv, OnceOK
<1>6. SlotInv'
  <2>1. \A t \in Thread, i \in Nat, o \in Once : ~Slot(t, i, o)'
    BY <1>1, <1>3 DEF Slot, Initializing
  <2>2. \A o \in Once : fState'[o] # 1
    BY <1>1
  <2> QED
    BY <2>1, <2>2 DEF SlotInv
<1> QED
  BY <1>2, <1>4, <1>5, <1>6 DEF Inv

LEMMA InvNext == Inv /\ [Next]_vars => Inv'
<1> SUFFICES ASSUME Inv, [Next]_vars PROVE Inv'
  OBVIOUS
<1>1. ASSUME NEW t \in Thread, Step(t) PROVE Inv'
  BY <1>1, LoadInv, PreInitInv, RewaitInv, PreInitWinInv, AwakeInv, RunInv, InitFunctionInv,
     StoreErrorInv, PostInitInv, BroadcastInv, PostInitWinInv, OthersInv, ReturnInv DEF Step
<1>2. CASE UNCHANGED vars
  <2>1. UNCHANGED <<fState, fErrCode, initMutex, call, at, err, built, budget>>
    BY <1>2 DEF vars
  <2>2. TypeOK'
    BY <2>1 DEF Inv, TypeOK
  <2>3. ASSUME NEW t \in Thread PROVE LocalOK(t)' /\ PendingOK(t)'
    <3>1. LocalOK(t) /\ PendingOK(t) /\ uio(t)' = uio(t)
      BY <2>1 DEF Inv, LocalInv, uio
    <3>2. LocalOK(t)'
      BY <2>1, <3>1 DEF LocalOK
    <3>3. PendingOK(t)'
      BY <2>1, <3>1 DEF PendingOK
    <3> QED
      BY <3>2, <3>3
  <2>4. OnceInv'
    BY <2>1 DEF Inv, OnceInv, OnceOK
  <2>5. SlotInv'
    BY <2>1, SlotsFrame DEF Inv
  <2> QED
    BY <2>2, <2>3, <2>4, <2>5 DEF Inv, LocalInv
<1> QED
  BY <1>1, <1>2, SpuriousInv, CallInv, CleanupInv DEF Next

LEMMA InvAlways == Spec => []Inv
BY InvInit, InvNext, PTL DEF Spec

(* The state of every UInitOnce and of every call of umtx_initOnce() stays *)
(* of its type.                                                            *)
THEOREM OnceTypeCorrect == Spec => []TypeOK
<1>1. Inv => TypeOK
  BY DEF Inv
<1> QED
  BY <1>1, InvAlways, PTL

(* umtx_initImplPreInit() lets one call at a time initialize a UInitOnce,  *)
(* and state 1 means that there is one.                                    *)
THEOREM OneInitializerAlways == Spec => []OneInitializer
BY InvAlways, InvSuffices, PTL

(* No init function runs again before UInitOnce::reset(). *)
THEOREM RunsOnceAlways == Spec => []RunsOnce
BY InvAlways, InvSuffices, PTL

(* umtx_initOnce() returns only after the init function has completed: the *)
(* U_ASSERT(uio.fState == 2) of umtx_initImplPreInit().                    *)
THEOREM NoEarlyReturnAlways == Spec => []NoEarlyReturn
BY InvAlways, InvSuffices, PTL

(* Every caller of umtx_initOnce() with a UErrorCode learns of a failure,  *)
(* and of none that is not there.                                          *)
THEOREM ErrorAgreesAlways == Spec => []ErrorAgrees
BY InvAlways, InvSuffices, PTL

(* Nobody is left asleep on initCondition after the broadcast. *)
THEOREM NoLostWakeupAlways == Spec => []NoLostWakeup
BY InvAlways, InvSuffices, PTL

=============================================================================
