------------------------- MODULE ConverterCacheProofs -------------------------
(***************************************************************************)
(* Reference counts, lifetime and ownership in the converter cache, for    *)
(* any number of files, tables, threads, converters and failures.          *)
(***************************************************************************)
EXTENDS ConverterCache, FiniteSetTheorems, TLAPS

\* Where a thread has a reference or a converter in its local variables.
Locals ==
    \A t \in Thread :
        /\ d[t] # Null <=> at[t] \in {"create", "try"}
        /\ c[t] # Null => at[t] \in {"put", "close", "setName"}
        /\ at[t] \in {"put", "close"} => c[t] # Null

Owned(y) ==
    \/ \E t \in Thread : y \in mine[t]
    \/ \E t \in Thread : y \in borrowed[t]
    \/ \E t \in Thread : c[t] = y
    \/ gDefaultConverter = y

OwnedOnce(y) ==
    /\ \A t, u \in Thread :
          /\ (y \in mine[t] /\ y \in mine[u]) \/ (y \in borrowed[t] /\ y \in borrowed[u])
             \/ (c[t] = y /\ c[u] = y) => t = u
          /\ ~(y \in mine[t] /\ y \in borrowed[u])
          /\ ~(y \in mine[t] /\ c[u] = y)
          /\ ~(y \in borrowed[t] /\ c[u] = y)
    /\ \A t \in Thread : gDefaultConverter = y => y \notin mine[t] \cup borrowed[t] /\ c[t] # y

\* A converter is open when somebody has it, and then just one has.
OwnersOf(y) == (cnv[y] # Null <=> Owned(y)) /\ OwnedOnce(y)
Owners == \A y \in Cnv : OwnersOf(y)

\* While a thread flushes, what it has passed and left is in use, but for a base
\* table in the first pass, whose extensions may be deleted after it.
Flushing ==
    /\ \A t \in Thread : at[t] = "flush" <=> cnvCacheMutex = t
    /\ cnvCacheMutex # Null =>
          /\ pending \subseteq cached
          /\ \A n \in cached :
                \/ pass = 1 /\ (n \notin pending \/ shared[table[n]].base # Null)
                \/ pass = 0 /\ n \notin pending /\ shared[table[n]].base # Null
                => shared[table[n]].referenceCounter > 0

\* Nothing is live that is not in use.
AllUsed == \A x \in Data : live(x) => shared[x].referenceCounter > 0

\* ucnv_cleanup() runs alone, and ends with a complete flush.
CleaningUp ==
    \A t \in Thread :
        /\ at[t] = "idle" <=> op[t] = "none"
        /\ op[t] = "cleanup" => \A u \in Thread \ {t} : at[u] = "idle"
        /\ at[t] = "cleanup" => op[t] = "cleanup" /\ AllUsed

-------------------------------------------------------------------------------
(* Types, and what the threads hold.                                       *)

\* A counter that is zero is not in use.
LEMMA ZeroIsLeast == ~(0 > 0)
  OBVIOUS

\* One more or one less of what is counted in two parts.
LEMMA PartChanges ==
    ASSUME NEW p \in Nat, NEW q \in Nat
    PROVE  /\ (p + 1) + q = (p + q) + 1 /\ (p - 1) + q = (p + q) - 1
           /\ p + (q + 1) = (p + q) + 1 /\ p + (q - 1) = (p + q) - 1
           /\ p > 0 \/ q > 0 => p + q > 0
  OBVIOUS

\* Where continue() goes, and that it clears the locals at the end of a call.
LEMMA Continues ==
    ASSUME TypeOK, NEW t \in Thread, NEW p \in Pc, continue(t, p)
    PROVE  /\ at' = [at EXCEPT ![t] = p] /\ at' \in [Thread -> Pc]
           /\ op' \in [Thread -> AllClients \cup {"none", "release", "close", "cleanup"}]
           /\ op' = IF p = "idle" THEN [op EXCEPT ![t] = "none"] ELSE op
           /\ want' \in [Thread -> Name \cup {Static, Null}]
           /\ name' \in [Thread -> Data \cup {"buffer", "literal", Static, Null}]
<1>1. at' = [at EXCEPT ![t] = p]
  BY Zenon DEF continue, goto
<1>2. at' \in [Thread -> Pc]
  BY <1>1, Zenon DEF TypeOK
<1>3. CASE p = "idle"
  BY <1>1, <1>2, <1>3 DEF continue, TypeOK
<1>4. CASE p # "idle"
  BY <1>1, <1>2, <1>4, Zenon DEF continue, TypeOK
<1> QED
  BY <1>3, <1>4, Zenon

\* Beginning a call.
LEMMA Begins ==
    ASSUME TypeOK, NEW t \in Thread, NEW p \in Pc,
           NEW o \in AllClients \cup {"none", "release", "close", "cleanup"}, begin(t, o, p)
    PROVE  /\ at' = [at EXCEPT ![t] = p] /\ at' \in [Thread -> Pc]
           /\ op' = [op EXCEPT ![t] = o]
           /\ op' \in [Thread -> AllClients \cup {"none", "release", "close", "cleanup"}]
           /\ at[t] = "idle" /\ \A u \in Thread : op[u] # "cleanup"
BY Zenon DEF begin, goto, Idle, TypeOK

\* Every step keeps the types.
LEMMA TypeNext ==
    ASSUME TypeOK, Locals, [Next]_vars,
           shared' \in [Data -> SharedData \cup {Null}],
           hashtable' \in BOOLEAN, table' \in [Name -> Data \cup {Null}],
           \A t \in Thread : Load(t) => d' \in [Thread -> Data \cup {Static, Null}]
    PROVE  TypeOK'
<1>0. /\ shared' \in [Data -> SharedData \cup {Null}]
      /\ hashtable' \in BOOLEAN /\ table' \in [Name -> Data \cup {Null}]
  OBVIOUS
<1>1. ASSUME NEW t \in Thread, NEW n \in Name, Open(t, n)
      PROVE  TypeOK'
  <2>1. PICK o \in Clients \cap {"open", "package", "test"} : begin(t, o, "load")
    BY <1>1, Zenon DEF Open
  <2>2. o \in AllClients \cup {"none", "release", "close", "cleanup"} /\ "load" \in Pc
    BY ConverterAssumption, Zenon DEF Pc
  <2>3. at' \in [Thread -> Pc] /\ op' \in [Thread -> AllClients \cup {"none", "release", "close", "cleanup"}]
    BY <2>1, <2>2, Begins, Zenon
  <2>4. budget' \in 0..MaxCalls /\ want' \in [Thread -> Name \cup {Static, Null}]
    BY <1>1, ConverterAssumption DEF Open, spend, TypeOK
  <2> QED
    BY <1>0, <1>1, <2>3, <2>4, Zenon DEF Open, TypeOK, table_vars, cnv_vars, default_vars
<1>2. ASSUME NEW t \in Thread, NEW n \in Name, FlushElement(t, n)
      PROVE  TypeOK'
  BY <1>0, <1>2, Zenon DEF FlushElement, TypeOK, cnv_vars, default_vars, local_vars
<1>3. ASSUME NEW t \in Thread, NEW x \in Cnv, Release(t, x) \/ Close(t, x)
      PROVE  TypeOK'
  <2> DEFINE p == IF gDefaultConverter = Null THEN "put" ELSE "close"
  <2>1. begin(t, "release", p) \/ begin(t, "close", "close")
    BY <1>3, Zenon DEF Release, Close
  <2>2. p \in Pc /\ "close" \in Pc
    BY Zenon DEF Pc
  <2> HIDE DEF p
  <2>3. at' \in [Thread -> Pc] /\ op' \in [Thread -> AllClients \cup {"none", "release", "close", "cleanup"}]
    BY <2>1, <2>2, Begins, Zenon
  <2>4. /\ c' \in [Thread -> Cnv \cup {Null}]
        /\ mine' \in [Thread -> SUBSET Cnv] /\ borrowed' \in [Thread -> SUBSET Cnv]
    BY <1>3, SMTT(40) DEF Release, Close, TypeOK
  <2> QED
    BY <1>0, <1>3, <2>3, <2>4, Zenon DEF Release, Close, TypeOK, table_vars, default_vars
<1>4. ASSUME NEW t \in Thread, NEW x \in Cnv, Clone(t, x)
      PROVE  TypeOK'
  <2>1. unusedCnv \in Cnv
    BY <1>4, Zenon DEF Clone, unusedCnv
  <2>2. cnv' \in [Cnv -> Data \cup {Static, Null}] /\ mine' \in [Thread -> SUBSET Cnv]
    BY <1>4, <2>1, ZenonT(40) DEF Clone, TypeOK
  <2>3. budget' \in 0..MaxCalls
    BY <1>4, ConverterAssumption DEF Clone, spend, TypeOK
  <2> QED
    BY <1>0, <1>4, <2>2, <2>3, Zenon DEF Clone, TypeOK, table_vars, default_vars
<1>5. ASSUME NEW t \in Thread, OpenDefault(t) \/ GetDefault(t) \/ BeginCleanup(t)
      PROVE  TypeOK'
  <2>1. at' \in [Thread -> Pc] /\ op' \in [Thread -> AllClients \cup {"none", "release", "close", "cleanup"}]
    <3>1. \E o \in {"open", "default", "flush", "cleanup"}, p \in {"name", "take", "check"} :
             op' = [op EXCEPT ![t] = o] /\ at' = [at EXCEPT ![t] = p]
      BY <1>5, Zenon DEF OpenDefault, GetDefault, BeginCleanup, begin, goto
    <3>2. PICK o \in {"open", "default", "flush", "cleanup"}, p \in {"name", "take", "check"} :
             op' = [op EXCEPT ![t] = o] /\ at' = [at EXCEPT ![t] = p]
      BY <3>1, Zenon
    <3>3. o \in AllClients \cup {"none", "release", "close", "cleanup"} /\ p \in Pc
      BY Zenon DEF AllClients, Pc
    <3> QED
      BY <3>2, <3>3, Zenon DEF TypeOK
  <2>2. budget' \in 0..MaxCalls
    BY <1>5, ConverterAssumption DEF OpenDefault, GetDefault, BeginCleanup, spend, TypeOK
  <2> QED
    BY <1>0, <1>5, <2>1, <2>2
       DEF OpenDefault, GetDefault, BeginCleanup, TypeOK, table_vars, cnv_vars, default_vars
<1>6. ASSUME NEW t \in Thread, Take(t)
      PROVE  TypeOK'
  <2>1. \E p \in Pc : continue(t, p)
    BY <1>6, Zenon DEF Take, Pc
  <2>2. /\ c' \in [Thread -> Cnv \cup {Null}] /\ gDefaultConverter' \in Cnv \cup {Null}
        /\ borrowed' \in [Thread -> SUBSET Cnv]
    BY <1>6 DEF Take, TypeOK
  <2> QED
    BY <1>0, <1>6, <2>1, <2>2, Continues, Zenon DEF Take, TypeOK, table_vars
<1>7. ASSUME NEW t \in Thread, Put(t)
      PROVE  TypeOK'
  <2>1. \E p \in Pc : continue(t, p)
    BY <1>7, Zenon DEF Put, Pc
  <2>2. c' \in [Thread -> Cnv \cup {Null}] /\ gDefaultConverter' \in Cnv \cup {Null}
    BY <1>7, Zenon DEF Put, TypeOK
  <2> QED
    BY <1>0, <1>7, <2>1, <2>2, Continues, Zenon DEF Put, TypeOK, table_vars, cnv_vars
<1>8. ASSUME NEW t \in Thread, GetDefaultName(t)
      PROVE  TypeOK'
  <2>1. at' \in [Thread -> Pc]
    BY <1>8 DEF GetDefaultName, goto, TypeOK, Pc
  <2>2. /\ want' \in [Thread -> Name \cup {Static, Null}]
        /\ name' \in [Thread -> Data \cup {"buffer", "literal", Static, Null}]
    BY <1>8, ConverterAssumption DEF GetDefaultName, TypeOK
  <2> QED
    BY <1>0, <1>8, <2>1, <2>2, Zenon DEF GetDefaultName, TypeOK, table_vars, cnv_vars, default_vars
<1>9. ASSUME NEW t \in Thread, InternalSetName(t)
      PROVE  TypeOK'
  <2>1. at' \in [Thread -> Pc]
    BY <1>9, Zenon DEF InternalSetName, goto, TypeOK, Pc
  <2>2. gDefaultConverterName' \in {Codepage, Static}
    BY <1>9, Zenon DEF InternalSetName
  <2>3. want' \in [Thread -> Name \cup {Static, Null}]
    BY <1>9, <2>2, ConverterAssumption, Zenon DEF InternalSetName, TypeOK
  <2>4. name' \in [Thread -> Data \cup {"buffer", "literal", Static, Null}]
    BY <1>9, Zenon DEF InternalSetName, TypeOK
  <2> QED
    BY <1>0, <1>9, <2>1, <2>2, <2>3, <2>4, Zenon DEF InternalSetName, TypeOK, table_vars, cnv_vars
<1>10. ASSUME NEW t \in Thread, Algorithmic(t)
       PROVE  TypeOK'
  <2>1. at' \in [Thread -> Pc] /\ d' \in [Thread -> Data \cup {Static, Null}]
    BY <1>10, Zenon DEF Algorithmic, goto, TypeOK, Pc
  <2> QED
    BY <1>0, <1>10, <2>1, Zenon DEF Algorithmic, TypeOK, table_vars, cnv_vars, default_vars

<1>11. ASSUME NEW t \in Thread, Load(t)
       PROVE  TypeOK'
  <2>1. \E p \in Pc : continue(t, p)
    BY <1>11, Zenon DEF Load, Pc
  <2>2. d' \in [Thread -> Data \cup {Static, Null}]
    BY <1>11, Zenon
  <2> QED
    BY <1>0, <1>11, <2>1, <2>2, Continues, Zenon DEF Load, TypeOK, flush_vars, cnv_vars, default_vars
<1>12. ASSUME NEW t \in Thread, Create(t)
       PROVE  TypeOK'
  <2>1. \E p \in Pc : continue(t, p)
    BY <1>12, Zenon DEF Create, Pc
  <2>2. unusedCnv \in Cnv
    BY <1>12, Zenon DEF Create, unusedCnv
  <2>3. cnv' \in [Cnv -> Data \cup {Static, Null}] /\ d' \in [Thread -> Data \cup {Static, Null}]
    BY <1>12, <2>2, Zenon DEF Create, TypeOK
  <2>4. /\ c' \in [Thread -> Cnv \cup {Null}]
        /\ mine' \in [Thread -> SUBSET Cnv] /\ borrowed' \in [Thread -> SUBSET Cnv]
    <3>1. /\ c \in [Thread -> Cnv \cup {Null}]
          /\ mine \in [Thread -> SUBSET Cnv] /\ borrowed \in [Thread -> SUBSET Cnv]
      BY Zenon DEF TypeOK
    <3>2. /\ c' = c \/ c' = [c EXCEPT ![t] = unusedCnv]
          /\ mine' = mine \/ mine' = [mine EXCEPT ![t] = @ \cup {unusedCnv}]
          /\ borrowed' = borrowed \/ borrowed' = [borrowed EXCEPT ![t] = @ \cup {unusedCnv}]
      BY <1>12, Zenon DEF Create
    <3>3. mine[t] \cup {unusedCnv} \in SUBSET Cnv /\ borrowed[t] \cup {unusedCnv} \in SUBSET Cnv
      BY <2>2, <3>1, Zenon
    <3> QED
      BY <2>2, <3>1, <3>2, <3>3, Zenon
  <2> QED
    BY <1>0, <1>12, <2>1, <2>3, <2>4, Continues, Zenon DEF Create, TypeOK, table_vars, default_vars
<1>13. ASSUME NEW t \in Thread, Unload(t)
       PROVE  TypeOK'
  <2>1. \E p \in Pc : continue(t, p)
    BY <1>13, Zenon DEF Unload, Pc
  <2>2. d' \in [Thread -> Data \cup {Static, Null}]
    BY <1>13, Zenon DEF Unload, TypeOK
  <2> QED
    BY <1>0, <1>13, <2>1, <2>2, Continues, SMTT(20) DEF Unload, TypeOK, table_vars, cnv_vars, default_vars
<1>14. ASSUME NEW t \in Thread, CloseConverter(t)
       PROVE  TypeOK'
  <2>1. \E p \in Pc : continue(t, p)
    BY <1>14, Zenon DEF CloseConverter, Pc
  <2>2. cnv' \in [Cnv -> Data \cup {Static, Null}] /\ c' \in [Thread -> Cnv \cup {Null}]
    BY <1>14, Zenon DEF CloseConverter, TypeOK
  <2> QED
    BY <1>0, <1>14, <2>1, <2>2, Continues, Zenon DEF CloseConverter, TypeOK, table_vars, default_vars
<1>15. ASSUME NEW t \in Thread, CheckTable(t)
       PROVE  TypeOK'
  <2>1. \E p \in Pc : continue(t, p)
    BY <1>15, Zenon DEF CheckTable, flushReturns, Pc
  <2> QED
    BY <1>0, <1>15, <2>1, Continues, SMTT(20) DEF CheckTable, TypeOK, table_vars, cnv_vars, default_vars
<1>16. ASSUME NEW t \in Thread, FlushLock(t)
       PROVE  TypeOK'
  <2>1. \E p \in Pc : continue(t, p)
    BY <1>16, Zenon DEF FlushLock, Pc
  <2> QED
    BY <1>0, <1>16, <2>1, Continues, Zenon DEF FlushLock, TypeOK, cached, cnv_vars, default_vars
<1>17. ASSUME NEW t \in Thread, FlushPassEnd(t)
       PROVE  TypeOK'
  <2>1. CASE pass = 0 /\ cached # {}
    BY <1>0, <1>17, <2>1, Zenon DEF FlushPassEnd, TypeOK, cached, cnv_vars, default_vars
  <2>2. CASE ~(pass = 0 /\ cached # {})
    <3>1. \E p \in Pc : continue(t, p)
      BY <1>17, <2>2, SMTT(20) DEF FlushPassEnd, flushReturns, Pc
    <3> QED
      BY <1>0, <1>17, <2>2, <3>1, Continues, SMTT(20) DEF FlushPassEnd, TypeOK, cnv_vars, default_vars
  <2> QED
    BY <2>1, <2>2, Zenon
<1>18. ASSUME NEW t \in Thread, EndCleanup(t)
       PROVE  TypeOK'
  <2>1. \E p \in Pc : continue(t, p)
    BY <1>18, Zenon DEF EndCleanup, Pc
  <2> QED
    BY <1>0, <1>18, <2>1, Continues, Zenon DEF EndCleanup, TypeOK, flush_vars, cnv_vars, default_vars
<1>19. CASE UNCHANGED vars
  BY <1>19, Zenon DEF vars, TypeOK, table_vars, cnv_vars, default_vars, local_vars
<1> QED
  BY <1>1, <1>2, <1>3, <1>4, <1>5, <1>6, <1>7, <1>8, <1>9, <1>10, <1>11, <1>12, <1>13, <1>14,
     <1>15, <1>16, <1>17, <1>18, <1>19, Zenon DEF Next


\* A thread has a reference or a converter only where the code has one.
LEMMA LocalsNext ==
    ASSUME TypeOK, Locals, [Next]_vars
    PROVE  Locals'
<1>1. ASSUME NEW t \in Thread, NEW n \in Name, Open(t, n)
      PROVE  Locals'
  BY <1>1 DEF Open, Locals, TypeOK, begin, Idle, goto
<1>2. ASSUME NEW t \in Thread, NEW n \in Name, FlushElement(t, n)
      PROVE  Locals'
  BY <1>2, Zenon DEF FlushElement, Locals, local_vars
<1>3. ASSUME NEW t \in Thread, NEW x \in Cnv, Release(t, x) \/ Close(t, x)
      PROVE  Locals'
  <2>1. x # Null /\ at[t] = "idle" /\ c' = [c EXCEPT ![t] = x] /\ d' = d
    BY <1>3, ConverterAssumption, Zenon DEF Release, Close, begin, Idle
  <2>2. at' = [at EXCEPT ![t] = "put"] \/ at' = [at EXCEPT ![t] = "close"]
    BY <1>3, Zenon DEF Release, Close, begin, goto
  <2> QED
    BY <2>1, <2>2 DEF Locals, TypeOK
<1>4. ASSUME NEW t \in Thread, NEW x \in Cnv, Clone(t, x)
      PROVE  Locals'
  BY <1>4, Zenon DEF Clone, Locals
<1>5. ASSUME NEW t \in Thread, OpenDefault(t) \/ GetDefault(t) \/ BeginCleanup(t)
      PROVE  Locals'
  <2>1. at[t] = "idle" /\ d' = d /\ c' = c
    BY <1>5, Zenon DEF OpenDefault, GetDefault, BeginCleanup, begin, Idle
  <2>2. \E p \in {"name", "take", "check"} : at' = [at EXCEPT ![t] = p]
    BY <1>5, Zenon DEF OpenDefault, GetDefault, BeginCleanup, begin, goto
  <2> QED
    BY <2>1, <2>2, Zenon DEF Locals, TypeOK
<1>6. ASSUME NEW t \in Thread, Take(t)
      PROVE  Locals'
  <2>1. CASE gDefaultConverter = Null
    BY <1>6, <2>1 DEF Take, continue, goto, Locals, TypeOK
  <2>2. CASE gDefaultConverter # Null /\ op[t] = "default"
    BY <1>6, <2>2, ZenonT(40) DEF Take, continue, goto, Locals, TypeOK
  <2>3. CASE gDefaultConverter # Null /\ op[t] # "default"
    BY <1>6, <2>3 DEF Take, continue, goto, Locals, TypeOK
  <2> QED
    BY <2>1, <2>2, <2>3, Zenon
<1>7. ASSUME NEW t \in Thread, Put(t)
      PROVE  Locals'
  <2>1. CASE gDefaultConverter = Null
    BY <1>7, <2>1 DEF Put, continue, goto, Locals, TypeOK
  <2>2. CASE gDefaultConverter # Null
    BY <1>7, <2>2 DEF Put, continue, goto, Locals, TypeOK
  <2> QED
    BY <2>1, <2>2, Zenon
<1>8. ASSUME NEW t \in Thread, GetDefaultName(t)
      PROVE  Locals'
  <2>1. d' = d /\ c' = c /\ \E p \in {"algorithmic", "probe"} : at' = [at EXCEPT ![t] = p]
    BY <1>8, Zenon DEF GetDefaultName, goto
  <2> QED
    BY <1>8, <2>1, Zenon DEF GetDefaultName, Locals, TypeOK
<1>9. ASSUME NEW t \in Thread, InternalSetName(t)
      PROVE  Locals'
  <2>1. /\ d' = d /\ c' = c
        /\ at' = [at EXCEPT ![t] = IF c[t] = Null THEN "algorithmic" ELSE "close"]
    BY <1>9, Zenon DEF InternalSetName, goto
  <2> QED
    BY <1>9, <2>1, SMTT(20) DEF InternalSetName, Locals, TypeOK
<1>10. ASSUME NEW t \in Thread, Algorithmic(t)
       PROVE  Locals'
  <2>1. Static # Null
    BY DataAssumption, Zenon
  <2> QED
    BY <1>10, <2>1 DEF Algorithmic, goto, Locals, TypeOK
<1>11. ASSUME NEW t \in Thread, Load(t)
       PROVE  Locals'
  <2>1. PICK x : /\ d' = [d EXCEPT ![t] = x]
                 /\ at' = [at EXCEPT ![t] =
                              CASE x # Null -> IF at[t] = "probe" THEN "try" ELSE "create"
                                [] OTHER -> IF at[t] = "probe" THEN "setName" ELSE "idle"]
    BY <1>11, Zenon DEF Load, continue, goto
  <2>2. c' = c /\ at[t] \in {"load", "probe"}
    BY <1>11, Zenon DEF Load
  <2>3. CASE x # Null
    BY <2>1, <2>2, <2>3, Zenon DEF Locals, TypeOK
  <2>4. CASE x = Null
    BY <2>1, <2>2, <2>4, Zenon DEF Locals, TypeOK
  <2> QED
    BY <2>3, <2>4, Zenon
<1>12. ASSUME NEW t \in Thread, Create(t)
       PROVE  Locals'
  <2>1. unusedCnv \in Cnv /\ unusedCnv # Null
    BY <1>12, ConverterAssumption, Zenon DEF Create, unusedCnv
  <2>2. CASE at[t] = "try"
    BY <1>12, <2>1, <2>2, SMTT(20) DEF Create, continue, goto, Locals, TypeOK
  <2>3. CASE at[t] # "try"
    BY <1>12, <2>3, Zenon DEF Create, continue, goto, Locals, TypeOK
  <2> QED
    BY <2>2, <2>3, Zenon
<1>13. ASSUME NEW t \in Thread, Unload(t)
       PROVE  Locals'
  BY <1>13, Zenon DEF Unload, continue, goto, Locals, TypeOK
<1>14. ASSUME NEW t \in Thread, CloseConverter(t)
       PROVE  Locals'
  <2>1. /\ d' = d /\ c' = [c EXCEPT ![t] = Null] /\ at[t] = "close"
        /\ \E p \in {"algorithmic", "check", "idle"} : at' = [at EXCEPT ![t] = p]
    BY <1>14, Zenon DEF CloseConverter, continue, goto
  <2> QED
    BY <2>1, ZenonT(40) DEF Locals, TypeOK
<1>15. ASSUME NEW t \in Thread, CheckTable(t) \/ FlushLock(t) \/ FlushPassEnd(t) \/ EndCleanup(t)
       PROVE  Locals'
  <2>1. /\ d' = d /\ c' = c /\ at[t] \in {"check", "lock", "flush", "cleanup"}
        /\ \/ at' = at
           \/ \E p \in {"lock", "flush", "cleanup", "idle"} : at' = [at EXCEPT ![t] = p]
    BY <1>15, SMTT(20) DEF CheckTable, FlushLock, FlushPassEnd, EndCleanup, flushReturns, continue, goto
  <2> QED
    BY <2>1, Zenon DEF Locals, TypeOK
<1>16. CASE UNCHANGED vars
  BY <1>16, SMTT(20) DEF vars, Locals, local_vars
<1> QED
  BY <1>1, <1>2, <1>3, <1>4, <1>5, <1>6, <1>7, <1>8, <1>9, <1>10, <1>11, <1>12, <1>13, <1>14,
     <1>15, <1>16, ZenonT(40) DEF Next


\* A step that leaves y where it is.
LEMMA OwnerStays ==
    ASSUME NEW y \in Cnv, OwnersOf(y), cnv'[y] # Null <=> cnv[y] # Null,
           \A u \in Thread : /\ y \in mine'[u] <=> y \in mine[u]
                             /\ y \in borrowed'[u] <=> y \in borrowed[u]
                             /\ c'[u] = y <=> c[u] = y,
           gDefaultConverter' = y <=> gDefaultConverter = y
    PROVE  OwnersOf(y)'
<1>1. Owned(y)' <=> Owned(y)
  BY Zenon DEF Owned
<1>2. OwnedOnce(y)'
  BY Zenon DEF OwnersOf, OwnedOnce
<1> QED
  BY <1>1, <1>2, Zenon DEF OwnersOf

\* Every open converter keeps exactly one owner.
LEMMA OwnersNext ==
    ASSUME TypeOK, Locals, Owners, [Next]_vars
    PROVE  Owners'
<1>1. CASE UNCHANGED <<cnv, mine, borrowed, c, gDefaultConverter>>
  BY <1>1, OwnerStays, Zenon DEF Owners
<1>2. ASSUME NEW t \in Thread, NEW x \in Cnv, Release(t, x)
      PROVE  Owners'
  <2> SUFFICES ASSUME NEW y \in Cnv PROVE OwnersOf(y)'
    BY Zenon DEF Owners
  <2>1. /\ c[t] = Null /\ x # Null /\ y # Null /\ x \in borrowed[t]
        /\ c' = [c EXCEPT ![t] = x] /\ borrowed' = [borrowed EXCEPT ![t] = @ \ {x}]
        /\ UNCHANGED <<cnv, mine, gDefaultConverter>>
    BY <1>2, ConverterAssumption, Zenon DEF Release, begin, Idle, Locals, default_vars
  <2>2. CASE y # x
    BY <2>1, <2>2, OwnerStays, Zenon DEF Owners, TypeOK
  <2>3. CASE y = x
    BY <2>1, <2>3 DEF Owners, OwnersOf, Owned, OwnedOnce, TypeOK
  <2> QED
    BY <2>2, <2>3, Zenon
<1>3. ASSUME NEW t \in Thread, NEW x \in Cnv, Close(t, x)
      PROVE  Owners'
  <2> SUFFICES ASSUME NEW y \in Cnv PROVE OwnersOf(y)'
    BY DEF Owners
  <2>1. /\ c[t] = Null /\ x # Null /\ y # Null /\ x \in mine[t]
        /\ c' = [c EXCEPT ![t] = x] /\ mine' = [mine EXCEPT ![t] = @ \ {x}]
        /\ UNCHANGED <<cnv, borrowed, gDefaultConverter>>
    BY <1>3, ConverterAssumption, Zenon DEF Close, begin, Idle, Locals, default_vars
  <2>2. CASE y # x
    BY <2>1, <2>2, OwnerStays, Zenon DEF Owners, TypeOK
  <2>3. CASE y = x
    BY <2>1, <2>3 DEF Owners, OwnersOf, Owned, OwnedOnce, TypeOK
  <2> QED
    BY <2>2, <2>3
<1>4. ASSUME NEW t \in Thread, NEW x \in Cnv, Clone(t, x)
      PROVE  Owners'
  <2> SUFFICES ASSUME NEW y \in Cnv PROVE OwnersOf(y)'
    BY DEF Owners
  <2> DEFINE z == unusedCnv
  <2>1. /\ z \in Cnv /\ cnv[z] = Null /\ cnv[x] # Null
        /\ cnv' = [cnv EXCEPT ![z] = cnv[x]] /\ mine' = [mine EXCEPT ![t] = @ \cup {z}]
        /\ UNCHANGED <<borrowed, c, gDefaultConverter>>
    BY <1>4, Zenon DEF Clone, unusedCnv, Owners, OwnersOf, Owned, default_vars
  <2> HIDE DEF z
  <2>2. CASE y # z
    BY <2>1, <2>2, OwnerStays, Zenon DEF Owners, TypeOK
  <2>3. CASE y = z
    BY <2>1, <2>3 DEF Owners, OwnersOf, Owned, OwnedOnce, TypeOK
  <2> QED
    BY <2>2, <2>3, Zenon
<1>5. ASSUME NEW t \in Thread, Take(t)
      PROVE  Owners'
  <2> SUFFICES ASSUME NEW y \in Cnv PROVE OwnersOf(y)'
    BY Zenon DEF Owners
  <2>1. c[t] = Null /\ y # Null /\ UNCHANGED <<cnv, mine>>
    BY <1>5, ConverterAssumption, Zenon DEF Take, Locals
  <2>2. CASE gDefaultConverter = Null
    BY <1>5, <2>1, <2>2, OwnerStays, Zenon DEF Take, Owners
  <2>3. CASE gDefaultConverter # Null /\ op[t] = "default"
    <3>1. /\ gDefaultConverter' = Null /\ c' = c
          /\ borrowed' = [borrowed EXCEPT ![t] = @ \cup {gDefaultConverter}]
      BY <1>5, <2>3, Zenon DEF Take
    <3>2. CASE y # gDefaultConverter
      BY <2>1, <3>1, <3>2, OwnerStays, Zenon DEF Owners, TypeOK
    <3>3. CASE y = gDefaultConverter
      BY <2>1, <3>1, <3>3 DEF Owners, OwnersOf, Owned, OwnedOnce, TypeOK
    <3> QED
      BY <3>2, <3>3, SMTT(20)
  <2>4. CASE gDefaultConverter # Null /\ op[t] # "default"
    <3>1. /\ gDefaultConverter' = Null /\ borrowed' = borrowed
          /\ c' = [c EXCEPT ![t] = gDefaultConverter]
      BY <1>5, <2>4, Zenon DEF Take
    <3>2. CASE y # gDefaultConverter
      BY <2>1, <3>1, <3>2, OwnerStays, Zenon DEF Owners, TypeOK
    <3>3. CASE y = gDefaultConverter
      BY <2>1, <3>1, <3>3 DEF Owners, OwnersOf, Owned, OwnedOnce, TypeOK
    <3> QED
      BY <3>2, <3>3, SMTT(20)
  <2> QED
    BY <2>2, <2>3, <2>4, Zenon
<1>6. ASSUME NEW t \in Thread, Put(t)
      PROVE  Owners'
  <2> SUFFICES ASSUME NEW y \in Cnv PROVE OwnersOf(y)'
    BY DEF Owners
  <2>1. c[t] # Null /\ y # Null /\ UNCHANGED <<cnv, mine, borrowed>>
    BY <1>6, ConverterAssumption, Zenon DEF Put, Locals, cnv_vars
  <2>2. CASE gDefaultConverter # Null
    BY <1>6, <2>1, <2>2, OwnerStays, Zenon DEF Put, Owners
  <2>3. CASE gDefaultConverter = Null
    <3>1. gDefaultConverter' = c[t] /\ c' = [c EXCEPT ![t] = Null]
      BY <1>6, <2>3, Zenon DEF Put
    <3>2. CASE y # c[t]
      BY <2>1, <2>3, <3>1, <3>2, OwnerStays, SMTT(20) DEF Owners, TypeOK
    <3>3. CASE y = c[t]
      BY <2>1, <2>3, <3>1, <3>3 DEF Owners, OwnersOf, Owned, OwnedOnce, TypeOK
    <3> QED
      BY <3>2, <3>3, Zenon
  <2> QED
    BY <2>2, <2>3, Zenon
<1>7. ASSUME NEW t \in Thread, Create(t)
      PROVE  Owners'
  <2> SUFFICES ASSUME NEW y \in Cnv PROVE OwnersOf(y)'
    BY SMTT(20) DEF Owners
  <2> DEFINE z == unusedCnv
  <2>1. /\ z \in Cnv /\ z # Null /\ y # Null /\ cnv[z] = Null /\ d[t] # Null
        /\ cnv' = [cnv EXCEPT ![z] = d[t]] /\ gDefaultConverter' = gDefaultConverter
    BY <1>7, ConverterAssumption, Zenon DEF Create, unusedCnv, Locals, default_vars
  <2>2. \/ /\ c[t] = Null /\ c' = [c EXCEPT ![t] = z] /\ UNCHANGED <<mine, borrowed>>
        \/ borrowed' = [borrowed EXCEPT ![t] = @ \cup {z}] /\ UNCHANGED <<mine, c>>
        \/ mine' = [mine EXCEPT ![t] = @ \cup {z}] /\ UNCHANGED <<borrowed, c>>
    BY <1>7, SMTT(20) DEF Create, Locals
  <2> HIDE DEF z
  <2>3. CASE y # z
    <3>1. \A u \in Thread : /\ y \in mine'[u] <=> y \in mine[u]
                            /\ y \in borrowed'[u] <=> y \in borrowed[u]
                            /\ c'[u] = y <=> c[u] = y
      BY <2>1, <2>2, <2>3 DEF TypeOK
    <3>2. cnv'[y] = cnv[y]
      BY <2>1, <2>3, Zenon DEF TypeOK
    <3> QED
      BY <2>1, <3>1, <3>2, OwnerStays, Zenon DEF Owners
  <2>4. CASE y = z
    <3>1. ~Owned(z) /\ cnv'[z] # Null
      BY <2>1, Zenon DEF Owners, OwnersOf, TypeOK
    <3>2. CASE c[t] = Null /\ c' = [c EXCEPT ![t] = z] /\ UNCHANGED <<mine, borrowed>>
      BY <2>1, <2>4, <3>1, <3>2, Zenon DEF OwnersOf, Owned, OwnedOnce, TypeOK
    <3>3. CASE borrowed' = [borrowed EXCEPT ![t] = @ \cup {z}] /\ UNCHANGED <<mine, c>>
      BY <2>1, <2>4, <3>1, <3>3, ZenonT(40) DEF OwnersOf, Owned, OwnedOnce, TypeOK
    <3>4. CASE mine' = [mine EXCEPT ![t] = @ \cup {z}] /\ UNCHANGED <<borrowed, c>>
      BY <2>1, <2>4, <3>1, <3>4, Zenon DEF OwnersOf, Owned, OwnedOnce, TypeOK
    <3> QED
      BY <2>2, <3>2, <3>3, <3>4, Zenon
  <2> QED
    BY <2>3, <2>4, Zenon
<1>8. ASSUME NEW t \in Thread, CloseConverter(t)
      PROVE  Owners'
  <2> SUFFICES ASSUME NEW y \in Cnv PROVE OwnersOf(y)'
    BY DEF Owners
  <2>1. /\ c[t] \in Cnv /\ y # Null /\ cnv' = [cnv EXCEPT ![c[t]] = Null]
        /\ c' = [c EXCEPT ![t] = Null] /\ UNCHANGED <<mine, borrowed, gDefaultConverter>>
    BY <1>8, ConverterAssumption, Zenon DEF CloseConverter, Locals, TypeOK, default_vars
  <2>2. CASE y # c[t]
    BY <2>1, <2>2, OwnerStays, Zenon DEF Owners, TypeOK
  <2>3. CASE y = c[t]
    BY <2>1, <2>3, SMTT(20) DEF Owners, OwnersOf, Owned, OwnedOnce, TypeOK
  <2> QED
    BY <2>2, <2>3
<1>9. ASSUME NEW t \in Thread, NEW n \in Name, Open(t, n) \/ FlushElement(t, n)
      PROVE  UNCHANGED <<cnv, mine, borrowed, c, gDefaultConverter>>
  BY <1>9, Zenon DEF Open, FlushElement, cnv_vars, default_vars, local_vars
<1>10. ASSUME NEW t \in Thread,
              OpenDefault(t) \/ GetDefault(t) \/ BeginCleanup(t) \/ GetDefaultName(t)
              \/ InternalSetName(t) \/ Algorithmic(t) \/ Load(t) \/ Unload(t)
       PROVE  UNCHANGED <<cnv, mine, borrowed, c, gDefaultConverter>>
  BY <1>10, Zenon DEF OpenDefault, GetDefault, BeginCleanup, GetDefaultName, InternalSetName,
               Algorithmic, Load, Unload, cnv_vars, default_vars
<1>11. ASSUME NEW t \in Thread, CheckTable(t) \/ FlushLock(t) \/ FlushPassEnd(t) \/ EndCleanup(t)
       PROVE  UNCHANGED <<cnv, mine, borrowed, c, gDefaultConverter>>
  BY <1>11, Zenon DEF CheckTable, FlushLock, FlushPassEnd, EndCleanup, cnv_vars, default_vars
<1>12. CASE UNCHANGED vars
  BY <1>1, <1>12, Zenon DEF vars, cnv_vars, default_vars, local_vars
<1> QED
  BY <1>1, <1>2, <1>3, <1>4, <1>5, <1>6, <1>7, <1>8, <1>9, <1>10, <1>11, <1>12, Zenon DEF Next


-------------------------------------------------------------------------------
(* The flush and the cleanup.                                              *)

\* Steps that do not touch the cache, and do not leave or enter the loop.
LEMMA FlushingStays ==
    ASSUME Flushing, UNCHANGED <<shared, table, cnvCacheMutex, pending, pass>>,
           \A t \in Thread : at'[t] = "flush" <=> at[t] = "flush"
    PROVE  Flushing'
BY Zenon DEF Flushing, cached

\* A step of t that keeps cnvCacheMutex and is not one of the loop.
LEMMA OutsideLoop ==
    ASSUME TypeOK, Flushing, NEW t \in Thread, cnvCacheMutex' = cnvCacheMutex,
           NEW p, p # "flush", at[t] # "flush", at' = [at EXCEPT ![t] = p]
    PROVE  /\ \A u \in Thread : at'[u] = "flush" <=> at[u] = "flush"
           /\ \A u \in Thread : at'[u] = "flush" <=> cnvCacheMutex' = u
BY Zenon DEF TypeOK, Flushing

\* What a flush has achieved is kept by every step other than those that change
\* the cache while the flush has cnvCacheMutex: its own, and loading from a package.
LEMMA FlushingNext ==
    ASSUME TypeOK, Flushing, [Next]_vars,
           \A t \in Thread, n \in Name : ~FlushElement(t, n),
           \A t \in Thread : ~Load(t)
    PROVE  Flushing'
<1>0. at \in [Thread -> Pc]
  BY Zenon DEF TypeOK
<1>1. ASSUME NEW t \in Thread, NEW n \in Name, Open(t, n)
      PROVE  Flushing'
  <2>1. at[t] = "idle" /\ at' = [at EXCEPT ![t] = "load"]
    BY <1>1, Zenon DEF Open, begin, Idle, goto
  <2> QED
    BY <1>1, <2>1, OutsideLoop, FlushingStays, Zenon DEF Open, table_vars
<1>2. ASSUME NEW t \in Thread, NEW x \in Cnv, Release(t, x) \/ Close(t, x)
      PROVE  Flushing'
  <2>1. at[t] = "idle" /\ \E p : p # "flush" /\ at' = [at EXCEPT ![t] = p]
    BY <1>2, Zenon DEF Release, Close, begin, Idle, goto
  <2> QED
    BY <1>2, <2>1, OutsideLoop, FlushingStays, Zenon DEF Release, Close, table_vars
<1>3. ASSUME NEW t \in Thread, NEW x \in Cnv, Clone(t, x)
      PROVE  Flushing'
  BY <1>3, Zenon DEF Clone, Flushing, table_vars
<1>4. ASSUME NEW t \in Thread, OpenDefault(t) \/ GetDefault(t) \/ BeginCleanup(t)
      PROVE  Flushing'
  <2>1. at[t] = "idle" /\ \E p : p # "flush" /\ at' = [at EXCEPT ![t] = p]
    BY <1>4, Zenon DEF OpenDefault, GetDefault, BeginCleanup, begin, Idle, goto
  <2> QED
    BY <1>4, <2>1, OutsideLoop, FlushingStays, Zenon DEF OpenDefault, GetDefault, BeginCleanup, table_vars
<1>5. ASSUME NEW t \in Thread,
             Take(t) \/ Put(t) \/ GetDefaultName(t) \/ InternalSetName(t) \/ Algorithmic(t)
      PROVE  Flushing'
  <2>1. at[t] \in {"take", "put", "name", "setName", "algorithmic"}
    BY <1>5, Zenon DEF Take, Put, GetDefaultName, InternalSetName, Algorithmic
  <2>2. \E p : p # "flush" /\ at' = [at EXCEPT ![t] = p]
    BY <1>5, Zenon DEF Take, Put, GetDefaultName, InternalSetName, Algorithmic, continue, goto
  <2>3. UNCHANGED <<shared, table, cnvCacheMutex, pending, pass>>
    BY <1>5, Zenon DEF Take, Put, GetDefaultName, InternalSetName, Algorithmic, table_vars
  <2> QED
    BY <2>1, <2>2, <2>3, OutsideLoop, FlushingStays, Zenon
<1>6. ASSUME NEW t \in Thread, Create(t)
      PROVE  Flushing'
  <2>1. at[t] \in {"create", "try"} /\ UNCHANGED <<shared, table, cnvCacheMutex, pending, pass>>
    BY <1>6, Zenon DEF Create, table_vars
  <2>2. \E p : p # "flush" /\ at' = [at EXCEPT ![t] = p]
    BY <1>6, Zenon DEF Create, continue, goto
  <2> QED
    BY <2>1, <2>2, OutsideLoop, FlushingStays, SMTT(20)
<1>7. ASSUME NEW t \in Thread, Unload(t) \/ CloseConverter(t)
      PROVE  Flushing'
  <2>1. /\ at[t] \in {"create", "try", "close"} /\ UNCHANGED <<table, cnvCacheMutex, pending, pass>>
        /\ \E p : p # "flush" /\ at' = [at EXCEPT ![t] = p]
    BY <1>7, Zenon DEF Unload, CloseConverter, continue, goto, table_vars
  <2>2. CASE cnvCacheMutex = Null
    BY <2>1, <2>2, OutsideLoop, Zenon DEF Flushing
  <2>3. CASE cnvCacheMutex # Null
    <3>1. shared' = shared
      BY <1>7, <2>3, Zenon DEF Unload, CloseConverter, ucnv_unload
    <3> QED
      BY <2>1, <3>1, OutsideLoop, FlushingStays, Zenon
  <2> QED
    BY <2>2, <2>3, Zenon
<1>8. ASSUME NEW t \in Thread, CheckTable(t) \/ EndCleanup(t)
       PROVE  Flushing'
  <2>1. /\ at[t] \in {"check", "cleanup"} /\ UNCHANGED <<shared, table, cnvCacheMutex, pending, pass>>
        /\ \E p : p # "flush" /\ at' = [at EXCEPT ![t] = p]
    BY <1>8, Zenon DEF CheckTable, EndCleanup, flushReturns, continue, goto, table_vars, flush_vars
  <2> QED
    BY <2>1, OutsideLoop, FlushingStays, Zenon
<1>9. ASSUME NEW t \in Thread, FlushLock(t)
       PROVE  Flushing'
  <2>1. /\ cnvCacheMutex = Null /\ cnvCacheMutex' = t /\ at' = [at EXCEPT ![t] = "flush"]
        /\ pending' = cached /\ pass' = 0 /\ UNCHANGED <<shared, table>>
    BY <1>9, Zenon DEF FlushLock, continue, goto
  <2>2. cached' = cached
    BY <2>1, Zenon DEF cached
  <2>3. \A u \in Thread : at'[u] = "flush" <=> cnvCacheMutex' = u
    BY <1>0, <2>1, ConverterAssumption, Zenon DEF Flushing
  <2> QED
    BY <2>1, <2>2, <2>3 DEF Flushing
<1>10. ASSUME NEW t \in Thread, FlushPassEnd(t)
       PROVE  Flushing'
  <2>0. at[t] = "flush" /\ cnvCacheMutex = t /\ t # Null /\ pending = {}
        /\ UNCHANGED <<shared, table>> /\ cached' = cached
    BY <1>10, ConverterAssumption, Zenon DEF FlushPassEnd, Flushing, cached
  <2>1. CASE pass = 0 /\ cached # {}
    <3>1. pass' = 1 /\ pending' = cached /\ UNCHANGED <<cnvCacheMutex, at>>
      BY <1>10, <2>1, SMTT(20) DEF FlushPassEnd
    <3> QED
      BY <2>0, <2>1, <3>1, Zenon DEF Flushing
  <2>2. CASE ~(pass = 0 /\ cached # {})
    <3>1. cnvCacheMutex' = Null /\ \E p : p # "flush" /\ at' = [at EXCEPT ![t] = p]
      BY <1>10, <2>2, Zenon DEF FlushPassEnd, flushReturns, continue, goto
    <3> QED
      <4>1. \A u \in Thread : u # t => at[u] # "flush"
        BY <2>0, Zenon DEF Flushing
      <4>2. \A u \in Thread : at'[u] # "flush"
        BY <1>0, <3>1, <4>1, Zenon
      <4>3. \A u \in Thread : u # Null
        BY ConverterAssumption, Zenon
      <4> QED
        BY <3>1, <4>2, <4>3, SMTT(20) DEF Flushing
  <2> QED
    BY <2>1, <2>2, Zenon
<1>11. CASE UNCHANGED vars
  BY <1>11, FlushingStays, Zenon DEF vars, table_vars, local_vars
<1> QED
  BY <1>1, <1>2, <1>3, <1>4, <1>5, <1>6, <1>7, <1>8, <1>9, <1>10, <1>11, Zenon DEF Next


\* A step of a thread within a call, or the one that ends it.
LEMMA CleaningUpWithin ==
    ASSUME TypeOK, CleaningUp, NEW t \in Thread, at[t] # "idle", NEW p, NEW o,
           at' = [at EXCEPT ![t] = p], op' = [op EXCEPT ![t] = o],
           o = IF p = "idle" THEN "none" ELSE op[t],
           p = "cleanup" => op[t] = "cleanup" /\ AllUsed'
    PROVE  CleaningUp'
<1> SUFFICES ASSUME NEW u \in Thread
             PROVE  /\ at'[u] = "idle" <=> op'[u] = "none"
                    /\ op'[u] = "cleanup" => \A v \in Thread \ {u} : at'[v] = "idle"
                    /\ at'[u] = "cleanup" => op'[u] = "cleanup" /\ AllUsed'
  BY Zenon DEF CleaningUp
<1>1. CASE u = t
  BY <1>1, Zenon DEF CleaningUp, TypeOK
<1>2. CASE u # t
  <2>1. op[u] # "cleanup" /\ at[u] # "cleanup" /\ at'[u] = at[u] /\ op'[u] = op[u]
    BY <1>2, Zenon DEF CleaningUp, TypeOK
  <2> QED
    BY <2>1, Zenon DEF CleaningUp
<1> QED
  BY <1>1, <1>2, Zenon

\* The start of a call.
LEMMA CleaningUpBegins ==
    ASSUME TypeOK, CleaningUp, NEW t \in Thread, NEW p, NEW o, begin(t, o, p),
           p # "idle", p # "cleanup", o # "none", o # "cleanup"
    PROVE  CleaningUp'
<1>1. /\ at[t] = "idle" /\ \A u \in Thread : op[u] # "cleanup" /\ at[u] # "cleanup"
      /\ at' = [at EXCEPT ![t] = p] /\ op' = [op EXCEPT ![t] = o]
  BY Zenon DEF begin, Idle, goto, CleaningUp
<1> QED
  BY <1>1, ZenonT(40) DEF CleaningUp, TypeOK

\* Cleanup runs alone, and ends with everything that is left in use if a flush
\* does.
LEMMA CleaningUpNext ==
    ASSUME TypeOK, CleaningUp, [Next]_vars, ~hashtable => AllUsed,
           \A t \in Thread : FlushPassEnd(t) /\ ~(pass = 0 /\ cached # {}) => AllUsed
    PROVE  CleaningUp'
<1>1. ASSUME NEW t \in Thread, NEW n \in Name, Open(t, n)
      PROVE  CleaningUp'
  BY <1>1, CleaningUpBegins, Zenon DEF Open
<1>2. ASSUME NEW t \in Thread, NEW n \in Name, FlushElement(t, n)
      PROVE  CleaningUp'
  <2>1. \A u \in Thread : at[u] # "cleanup"
    BY <1>2, Zenon DEF FlushElement, CleaningUp
  <2> QED
    BY <1>2, <2>1, Zenon DEF FlushElement, CleaningUp, local_vars
<1>3. ASSUME NEW t \in Thread, NEW x \in Cnv, Release(t, x) \/ Close(t, x)
      PROVE  CleaningUp'
  <2>1. \E p, o : begin(t, o, p) /\ p \in {"put", "close"} /\ o \in {"release", "close"}
    BY <1>3, Zenon DEF Release, Close
  <2> QED
    BY <2>1, CleaningUpBegins, Zenon
<1>4. ASSUME NEW t \in Thread, NEW x \in Cnv, Clone(t, x)
      PROVE  CleaningUp'
  <2>1. \A u \in Thread : at[u] # "cleanup"
    BY <1>4, Zenon DEF Clone, Idle, CleaningUp
  <2> QED
    BY <1>4, <2>1, Zenon DEF Clone, CleaningUp
<1>5. ASSUME NEW t \in Thread, OpenDefault(t) \/ GetDefault(t)
      PROVE  CleaningUp'
  <2>1. \E p, o : begin(t, o, p) /\ p \in {"name", "take", "check"} /\ o \in {"open", "default", "flush"}
    BY <1>5, Zenon DEF OpenDefault, GetDefault
  <2> QED
    BY <2>1, CleaningUpBegins, Zenon
<1>6. ASSUME NEW t \in Thread, BeginCleanup(t)
      PROVE  CleaningUp'
  <2>1. /\ \A u \in Thread : at[u] = "idle"
        /\ op' = [op EXCEPT ![t] = "cleanup"]
        /\ \E p \in {"take", "check"} : at' = [at EXCEPT ![t] = p]
    BY <1>6, Zenon DEF BeginCleanup, goto
  <2> QED
    BY <2>1 DEF CleaningUp, TypeOK
<1>7. ASSUME NEW t \in Thread, Take(t) \/ Put(t) \/ Load(t) \/ Create(t) \/ Unload(t) \/ CloseConverter(t)
      PROVE  CleaningUp'
  <2>1. at[t] # "idle"
    BY <1>7, Zenon DEF Take, Put, Load, Create, Unload, CloseConverter
  <2>2. PICK p : p # "cleanup" /\ continue(t, p)
    BY <1>7, Zenon DEF Take, Put, Load, Create, Unload, CloseConverter
  <2>3. /\ at' = [at EXCEPT ![t] = p]
        /\ op' = [op EXCEPT ![t] = IF p = "idle" THEN "none" ELSE op[t]]
    BY <2>2, Zenon DEF continue, goto, TypeOK
  <2> QED
    BY <2>1, <2>2, <2>3, CleaningUpWithin, Zenon
<1>8. ASSUME NEW t \in Thread, GetDefaultName(t) \/ InternalSetName(t) \/ Algorithmic(t)
      PROVE  CleaningUp'
  <2>1. at[t] # "idle"
    BY <1>8, Zenon DEF GetDefaultName, InternalSetName, Algorithmic
  <2>2. /\ op' = op
        /\ \E p : p # "cleanup" /\ p # "idle" /\ at' = [at EXCEPT ![t] = p]
    <3>1. CASE GetDefaultName(t)
      BY <3>1, Zenon DEF GetDefaultName, goto
    <3>2. CASE InternalSetName(t)
      BY <3>2, Zenon DEF InternalSetName, goto
    <3>3. CASE Algorithmic(t)
      BY <3>3, Zenon DEF Algorithmic, goto
    <3> QED
      BY <1>8, <3>1, <3>2, <3>3, Zenon
  <2>3. PICK p : p # "cleanup" /\ p # "idle" /\ at' = [at EXCEPT ![t] = p]
    BY <2>2, Zenon
  <2>4. op' = [op EXCEPT ![t] = IF p = "idle" THEN "none" ELSE op[t]]
    BY <2>2, <2>3, Zenon DEF TypeOK
  <2> QED
    BY <2>1, <2>3, <2>4, CleaningUpWithin, Zenon
<1>9. ASSUME NEW t \in Thread, CheckTable(t)
      PROVE  CleaningUp'
  <2>1. at[t] # "idle" /\ UNCHANGED <<shared, table>>
    BY <1>9, Zenon DEF CheckTable, table_vars
  <2> DEFINE p == IF hashtable THEN "lock" ELSE IF op[t] = "cleanup" THEN "cleanup" ELSE "idle"
  <2>2. continue(t, p) /\ (p = "cleanup" => op[t] = "cleanup" /\ ~hashtable)
    BY <1>9, Zenon DEF CheckTable, flushReturns
  <2> HIDE DEF p
  <2>3. ~hashtable => AllUsed'
    BY <2>1, SMTT(20) DEF AllUsed, live
  <2>4. /\ at' = [at EXCEPT ![t] = p]
        /\ op' = [op EXCEPT ![t] = IF p = "idle" THEN "none" ELSE op[t]]
    BY <2>2, Zenon DEF continue, goto, TypeOK
  <2> QED
    BY <2>1, <2>2, <2>3, <2>4, CleaningUpWithin, Zenon
<1>10. ASSUME NEW t \in Thread, FlushLock(t) \/ EndCleanup(t)
       PROVE  CleaningUp'
  <2>1. at[t] # "idle"
    BY <1>10, Zenon DEF FlushLock, EndCleanup
  <2>2. PICK p : p # "cleanup" /\ continue(t, p)
    BY <1>10, SMTT(20) DEF FlushLock, EndCleanup
  <2>3. /\ at' = [at EXCEPT ![t] = p]
        /\ op' = [op EXCEPT ![t] = IF p = "idle" THEN "none" ELSE op[t]]
    BY <2>2 DEF continue, goto, TypeOK
  <2> QED
    BY <2>1, <2>2, <2>3, CleaningUpWithin, Zenon
<1>11. ASSUME NEW t \in Thread, FlushPassEnd(t)
       PROVE  CleaningUp'
  <2>1. at[t] = "flush" /\ UNCHANGED shared
    BY <1>11, Zenon DEF FlushPassEnd
  <2>2. CASE pass = 0 /\ cached # {}
    <3>1. UNCHANGED <<at, op>> /\ \A u \in Thread : at[u] # "cleanup"
      BY <1>11, <2>1, <2>2, Zenon DEF FlushPassEnd, CleaningUp
    <3> QED
      BY <3>1, Zenon DEF CleaningUp
  <2>3. CASE ~(pass = 0 /\ cached # {})
    <3>1. PICK p : /\ continue(t, p) /\ p \in {"cleanup", "idle"}
                   /\ p = "cleanup" => op[t] = "cleanup"
      BY <1>11, <2>3 DEF FlushPassEnd, flushReturns
    <3>2. AllUsed
      BY <1>11, <2>3, Zenon
    <3>3. AllUsed'
      BY <2>1, <3>2, Zenon DEF AllUsed, live
    <3>4. /\ at' = [at EXCEPT ![t] = p]
          /\ op' = [op EXCEPT ![t] = IF p = "idle" THEN "none" ELSE op[t]]
      BY <3>1, Zenon DEF continue, goto, TypeOK
    <3> QED
      BY <2>1, <3>1, <3>3, <3>4, CleaningUpWithin, ZenonT(40)
  <2> QED
    BY <2>2, <2>3, Zenon
<1>12. CASE UNCHANGED vars
  BY <1>12, Zenon DEF vars, CleaningUp, AllUsed, live, local_vars
<1> QED
  BY <1>1, <1>2, <1>3, <1>4, <1>5, <1>6, <1>7, <1>8, <1>9, <1>10, <1>11, <1>12, Zenon DEF Next

-------------------------------------------------------------------------------
Live(sh) == {x \in Data : sh[x] # Null}

Extensions(sh, x) == {y \in Data : sh[y] # Null /\ sh[y].base = x}

\* The count of x is that of the references from outside and of its extensions.
Exact(sh, E) ==
    \A x \in Data :
        IF sh[x] = Null THEN E[x] = 0
        ELSE sh[x].referenceCounter = E[x] + Cardinality(Extensions(sh, x))

\* The base table of an extension is there, and is the one that the file names.
HasBase(sh) ==
    \A x \in Live(sh) :
        sh[x].base # Null => sh[x].base \in Live(sh) /\ sh[sh[x].base].name = Base[sh[x].name]

\* The table maps the name of what is marked as cached to it, and nothing else.
Indexed(sh, tab) ==
    /\ \A n \in Name : tab[n] # Null => tab[n] \in Live(sh) /\ sh[tab[n]].name = n
    /\ \A x \in Live(sh) : sh[x].sharedDataCached <=> tab[sh[x].name] = x

\* But for what is in S, shared data is in use or cached.
Kept(sh, S) ==
    \A x \in Live(sh) \ S : sh[x].referenceCounter > 0 \/ sh[x].sharedDataCached

Core(sh, tab, E) ==
    /\ sh \in [Data -> SharedData \cup {Null}]
    /\ tab \in [Name -> Data \cup {Null}]
    /\ E \in [Data -> Nat]
    /\ Exact(sh, E) /\ HasBase(sh) /\ Indexed(sh, tab)

Good(sh, tab, E) == Core(sh, tab, E) /\ Kept(sh, {})

Plus(E, x) == [E EXCEPT ![x] = @ + 1]
Minus(E, x) == [E EXCEPT ![x] = @ - 1]

-------------------------------------------------------------------------------
(* The shared data and the table.                                          *)

\* What extends x is finitely many.
LEMMA ExtensionsFinite ==
    ASSUME NEW sh, NEW x
    PROVE  /\ IsFiniteSet(Extensions(sh, x)) /\ Cardinality(Extensions(sh, x)) \in Nat
           /\ Cardinality(Extensions(sh, x)) = 0 <=> Extensions(sh, x) = {}
<1>1. IsFiniteSet(Extensions(sh, x))
  BY DataAssumption, FS_Subset, Zenon DEF Extensions
<1> QED
  BY <1>1, FS_CardinalityType, FS_EmptySet, Zenon

\* Extensions depend on what is live and on the base pointers only.
LEMMA SameExtensions ==
    ASSUME NEW sh, NEW s,
           \A y \in Data : (s[y] = Null <=> sh[y] = Null) /\ (sh[y] # Null => s[y].base = sh[y].base)
    PROVE  \A z : Extensions(s, z) = Extensions(sh, z)
BY Zenon DEF Extensions

\* Null is not shared data, so what is live has its fields.
LEMMA LiveHasFields ==
    ASSUME NEW sh \in [Data -> SharedData \cup {Null}], NEW x \in Live(sh)
    PROVE  /\ x \in Data /\ sh[x] \in SharedData /\ sh[x] # Null
           /\ sh[x].name \in Name /\ sh[x].referenceCounter \in Nat
           /\ sh[x].sharedDataCached \in BOOLEAN /\ sh[x].base \in Data \cup {Null}
BY Zenon DEF Live, SharedData

\* A base table has no base table itself: extension files do not extend others.
LEMMA BaseIsPlain ==
    ASSUME NEW sh \in [Data -> SharedData \cup {Null}], HasBase(sh), NEW x \in Live(sh)
    PROVE  /\ Base[sh[x].name] = Null => sh[x].base = Null
           /\ sh[x].base # Null => sh[x].base \in Live(sh) /\ sh[sh[x].base].base = Null
<1>1. ASSUME NEW y \in Live(sh), Base[sh[y].name] = Null
      PROVE  sh[y].base = Null
  BY <1>1, LiveHasFields, DataAssumption DEF HasBase
<1>2. ASSUME sh[x].base # Null
      PROVE  sh[x].base \in Live(sh) /\ Base[sh[sh[x].base].name] = Null
  BY <1>2, LiveHasFields, DataAssumption DEF HasBase
<1> QED
  BY <1>1, <1>2, Zenon

\* What has an extension has no base, so an extension is extended by nothing.
LEMMA ExtensionNotExtended ==
    ASSUME NEW sh \in [Data -> SharedData \cup {Null}], HasBase(sh),
           NEW x \in Live(sh), sh[x].base # Null
    PROVE  Extensions(sh, x) = {}
<1> SUFFICES ASSUME NEW y \in Live(sh), sh[y].base = x
             PROVE  FALSE
  BY Zenon DEF Extensions, Live
<1>1. x # Null
  BY DataAssumption, Zenon DEF Live
<1>2. sh[x].base = Null
  BY <1>1, BaseIsPlain, Zenon
<1> QED
  BY <1>2, Zenon

\* A reference more or less to x, counted in x and outside.
LEMMA Recount ==
    ASSUME NEW sh, NEW tab, NEW E, Core(sh, tab, E),
           NEW x \in Live(sh),
           NEW s \in [Data -> SharedData \cup {Null}], NEW F \in [Data -> Nat],
           s[x] # Null, s[x].name = sh[x].name, s[x].base = sh[x].base,
           s[x].sharedDataCached = sh[x].sharedDataCached,
           s[x].referenceCounter - F[x] = sh[x].referenceCounter - E[x],
           \A y \in Data : y # x => s[y] = sh[y] /\ F[y] = E[y]
    PROVE  Core(s, tab, F)
<1> x \in Data /\ E \in [Data -> Nat] /\ sh[x] # Null
  BY Zenon DEF Core, Live
<1>1. Live(s) = Live(sh)
  BY Zenon DEF Live
<1>2. \A z : Extensions(s, z) = Extensions(sh, z)
  BY SameExtensions
<1>3. Exact(s, F)
  <2> SUFFICES ASSUME NEW z \in Data
               PROVE  IF s[z] = Null THEN F[z] = 0
                      ELSE s[z].referenceCounter = F[z] + Cardinality(Extensions(sh, z))
    BY <1>2, Zenon DEF Exact
  <2>1. CASE z # x
    BY <2>1, Zenon DEF Core, Exact
  <2>2. CASE z = x
    <3>1. sh[x].referenceCounter = E[x] + Cardinality(Extensions(sh, x))
      BY Zenon DEF Core, Exact
    <3>2. s[x].referenceCounter \in Nat /\ Cardinality(Extensions(sh, x)) \in Nat
      BY ExtensionsFinite, LiveHasFields, <1>1, Zenon
    <3> QED
      BY <2>2, <3>1, <3>2
  <2> QED
    BY <2>1, <2>2, Zenon
<1>4. HasBase(s)
  BY <1>1 DEF Core, HasBase, Live
<1>5. Indexed(s, tab)
  BY <1>1 DEF Core, Indexed, Live
<1> QED
  BY <1>3, <1>4, <1>5, Zenon DEF Core

\* incrementRefCount() of live shared data, for a caller that gains a reference.
LEMMA IncrementGood ==
    ASSUME NEW sh, NEW tab, NEW E, Good(sh, tab, E), NEW x \in Live(sh)
    PROVE  /\ Good(incrementRefCount(sh, x), tab, Plus(E, x))
           /\ Live(incrementRefCount(sh, x)) = Live(sh)
<1> DEFINE s == incrementRefCount(sh, x)
           F == Plus(E, x)
<1>0. sh \in [Data -> SharedData \cup {Null}] /\ E \in [Data -> Nat] /\ x \in Data /\ x # Static
      /\ sh[x] \in SharedData /\ sh[x] # Null
  BY DataAssumption, LiveHasFields, Zenon DEF Good, Core, Live
<1>1. /\ s \in [Data -> SharedData \cup {Null}]
      /\ s[x] \in SharedData /\ s[x].name = sh[x].name /\ s[x].base = sh[x].base
      /\ s[x].sharedDataCached = sh[x].sharedDataCached
      /\ s[x].referenceCounter = sh[x].referenceCounter + 1
      /\ \A y \in Data : y # x => s[y] = sh[y]
  BY <1>0 DEF incrementRefCount, SharedData
<1>2. F \in [Data -> Nat] /\ F[x] = E[x] + 1 /\ \A y \in Data : y # x => F[y] = E[y]
  BY <1>0 DEF Plus
<1> HIDE DEF s, F
<1>3. s[x] # Null
  BY <1>1, SharedDataAssumption, Zenon
<1>4. Live(s) = Live(sh)
  BY <1>0, <1>1, <1>3, Zenon DEF Live
<1>5. s[x].referenceCounter - F[x] = sh[x].referenceCounter - E[x] /\ s[x].referenceCounter > 0
  BY <1>0, <1>1, <1>2 DEF SharedData
<1>6. Core(s, tab, F)
  BY <1>1, <1>2, <1>3, <1>5, Recount DEF Good
<1>7. Kept(s, {})
  BY <1>1, <1>4, <1>5, Zenon DEF Good, Kept, Live
<1> QED
  BY <1>4, <1>6, <1>7, Zenon DEF Good, s, F

\* Only x has a different count; it may be the only one that nobody keeps.
LEMMA DecrementCore ==
    ASSUME NEW sh, NEW tab, NEW E, Core(sh, tab, E), Kept(sh, {}),
           NEW x \in Live(sh), E[x] > 0
    PROVE  /\ Core(decrement(sh, x), tab, Minus(E, x)) /\ Kept(decrement(sh, x), {x})
           /\ Live(decrement(sh, x)) = Live(sh)
           /\ decrement(sh, x)[x].base = sh[x].base
<1> DEFINE s == decrement(sh, x)
           F == Minus(E, x)
<1>0. sh \in [Data -> SharedData \cup {Null}] /\ E \in [Data -> Nat] /\ x \in Data
      /\ sh[x] \in SharedData /\ sh[x] # Null
  BY LiveHasFields, Zenon DEF Core
<1>1. sh[x].referenceCounter \in Nat /\ sh[x].referenceCounter > 0
  BY <1>0, ExtensionsFinite DEF Core, Exact, SharedData
<1>2. /\ s \in [Data -> SharedData \cup {Null}]
      /\ s[x] \in SharedData /\ s[x].name = sh[x].name /\ s[x].base = sh[x].base
      /\ s[x].sharedDataCached = sh[x].sharedDataCached
      /\ s[x].referenceCounter = sh[x].referenceCounter - 1
      /\ \A y \in Data : y # x => s[y] = sh[y]
  BY <1>0, <1>1 DEF decrement, SharedData
<1>3. F \in [Data -> Nat] /\ F[x] = E[x] - 1 /\ \A y \in Data : y # x => F[y] = E[y]
  BY <1>0 DEF Minus
<1> HIDE DEF s, F
<1>4. s[x] # Null
  BY <1>2, SharedDataAssumption, Zenon
<1>5. Live(s) = Live(sh)
  BY <1>0, <1>2, <1>4, Zenon DEF Live
<1>6. s[x].referenceCounter - F[x] = sh[x].referenceCounter - E[x]
  BY <1>0, <1>1, <1>2, <1>3
<1>7. Core(s, tab, F)
  BY <1>2, <1>3, <1>4, <1>6, Recount
<1>8. Kept(s, {x})
  BY <1>2, <1>5, Zenon DEF Kept, Live
<1> QED
  BY <1>2, <1>5, <1>7, <1>8, Zenon DEF s, F

\* Freeing x, which nothing refers to and which extends nothing.
LEMMA FreePlain ==
    ASSUME NEW sh, NEW tab, NEW E, Core(sh, tab, E), NEW x \in Live(sh), Kept(sh, {x}),
           sh[x].referenceCounter = 0, ~sh[x].sharedDataCached, sh[x].base = Null
    PROVE  /\ Good([sh EXCEPT ![x] = Null], tab, E)
           /\ Live([sh EXCEPT ![x] = Null]) = Live(sh) \ {x}
<1> DEFINE s == [sh EXCEPT ![x] = Null]
<1>0. sh \in [Data -> SharedData \cup {Null}] /\ E \in [Data -> Nat] /\ x \in Data
      /\ sh[x] \in SharedData /\ sh[x] # Null
  BY LiveHasFields, ZenonT(40) DEF Core
<1>1. s \in [Data -> SharedData \cup {Null}] /\ s[x] = Null /\ \A y \in Data : y # x => s[y] = sh[y]
  BY <1>0, Zenon
<1> HIDE DEF s
<1>2. Live(s) = Live(sh) \ {x}
  BY <1>1, ZenonT(40) DEF Live
<1>3. E[x] = 0 /\ Extensions(sh, x) = {}
  BY <1>0, ExtensionsFinite, SMTT(40) DEF Core, Exact
<1>4. \A z \in Data : Extensions(s, z) = Extensions(sh, z)
  BY <1>0, <1>1, DataAssumption DEF Extensions
<1>5. Exact(s, E)
  BY <1>1, <1>3, <1>4, Zenon DEF Core, Exact
<1>6. HasBase(s)
  <2> SUFFICES ASSUME NEW y \in Live(s), s[y].base # Null
               PROVE  s[y].base \in Live(s) /\ s[s[y].base].name = Base[s[y].name]
    BY Zenon DEF HasBase
  <2>1. y # x /\ y \in Live(sh) /\ s[y] = sh[y]
    BY <1>1, <1>2, Zenon DEF Live
  <2>2. sh[y].base # x
    BY <1>3, <2>1, Zenon DEF Extensions, Live
  <2>3. sh[y].base \in Live(sh) /\ sh[sh[y].base].name = Base[sh[y].name]
    BY <2>1, Zenon DEF Core, HasBase
  <2> QED
    BY <1>1, <1>2, <2>1, <2>2, <2>3, Zenon DEF Live
<1>7. Indexed(s, tab)
  <2>1. \A n \in Name : tab[n] # x
    BY <1>0, DataAssumption, ZenonT(40) DEF Core, Indexed
  <2> QED
    BY <1>1, <1>2, <2>1, ZenonT(40) DEF Core, Indexed, Live
<1>8. Kept(s, {})
  BY <1>1, <1>2, Zenon DEF Kept, Live
<1> QED
  BY <1>1, <1>2, <1>5, <1>6, <1>7, <1>8, Zenon DEF Good, Core, s

\* ucnv_deleteSharedConverterData() of what nothing refers to: its base loses an
\* extension, and goes with it when that was all that kept it.
LEMMA DeleteGood ==
    ASSUME NEW sh, NEW tab, NEW E, Core(sh, tab, E), NEW x \in Live(sh), Kept(sh, {x}),
           sh[x].referenceCounter = 0, ~sh[x].sharedDataCached
    PROVE  /\ Good(deleteSharedConverterData(sh, x), tab, E)
           /\ Live(deleteSharedConverterData(sh, x)) \subseteq Live(sh) \ {x}
<1>0. sh \in [Data -> SharedData \cup {Null}] /\ E \in [Data -> Nat] /\ x \in Data
      /\ sh[x] \in SharedData /\ sh[x] # Null /\ sh[x].base \in Data \cup {Null}
  BY LiveHasFields, Zenon DEF Core
<1>1. CASE sh[x].base = Null
  BY <1>1, FreePlain, Zenon DEF deleteSharedConverterData
<1>2. CASE sh[x].base # Null
  <2> DEFINE b == sh[x].base
             s == [sh EXCEPT ![x] = Null]
             s2 == decrement(s, b)
  <2>1. b \in Live(sh) /\ sh[b].base = Null /\ b # x /\ b \in Data
    BY <1>0, <1>2, BaseIsPlain, SMTT(40) DEF Core, Live
  <2>2. E[x] = 0 /\ Extensions(sh, x) = {}
    BY <1>0, ExtensionsFinite DEF Core, Exact
  <2>3. x \in Extensions(sh, b)
    BY <1>0, ZenonT(40) DEF Extensions
  <2>4. sh[b] \in SharedData /\ sh[b] # Null /\ sh[b].referenceCounter \in Nat /\ sh[b].referenceCounter > 0
    <3>1. sh[b].referenceCounter = E[b] + Cardinality(Extensions(sh, b)) /\ E[b] \in Nat
      BY <2>1, <1>0, Zenon DEF Core, Exact, Live
    <3>2. Cardinality(Extensions(sh, b)) \in Nat /\ Cardinality(Extensions(sh, b)) # 0
      BY <2>3, ExtensionsFinite, Zenon
    <3> QED
      BY <2>1, <3>1, <3>2, <1>0, LiveHasFields
  <2>5. /\ s2 \in [Data -> SharedData \cup {Null}] /\ s2[x] = Null
        /\ s2[b] \in SharedData /\ s2[b].name = sh[b].name /\ s2[b].base = sh[b].base
        /\ s2[b].sharedDataCached = sh[b].sharedDataCached
        /\ s2[b].referenceCounter = sh[b].referenceCounter - 1
        /\ \A y \in Data : y # x /\ y # b => s2[y] = sh[y]
    BY <1>0, <2>1, <2>4 DEF decrement, SharedData
  <2>6. deleteSharedConverterData(sh, x) = IF unused(s2, b) THEN [s2 EXCEPT ![b] = Null] ELSE s2
    BY <1>2, Zenon DEF deleteSharedConverterData, unloadBase
  <2> HIDE DEF b, s, s2
  <2>7. s2[b] # Null
    BY <2>5, SharedDataAssumption, Zenon
  <2>8. Live(s2) = Live(sh) \ {x}
    BY <2>1, <2>5, <2>7, ZenonT(40) DEF Live
  <2>9. Extensions(s2, b) = Extensions(sh, b) \ {x} /\ \A z \in Data : z # b => Extensions(s2, z) = Extensions(sh, z)
    BY <1>0, <2>1, <2>5, <2>7 DEF Extensions, Live, b
  <2>10. Exact(s2, E)
    <3> SUFFICES ASSUME NEW z \in Data
                 PROVE  IF s2[z] = Null THEN E[z] = 0
                        ELSE s2[z].referenceCounter = E[z] + Cardinality(Extensions(s2, z))
      BY Zenon DEF Exact
    <3>1. CASE z = x
      BY <2>2, <2>5, <3>1, Zenon
    <3>2. CASE z = b
      <4>1. Cardinality(Extensions(s2, b)) = Cardinality(Extensions(sh, b)) - 1
        <5>1. IsFiniteSet(Extensions(sh, b))
          BY ExtensionsFinite, Zenon
        <5>2. Cardinality(Extensions(sh, b) \ {x}) = Cardinality(Extensions(sh, b)) - 1
          BY <2>3, <5>1, FS_RemoveElement, Zenon
        <5> QED
          BY <2>9, <5>2, Zenon
      <4>2. sh[b].referenceCounter = E[b] + Cardinality(Extensions(sh, b))
        BY <2>1, Zenon DEF Core, Exact, Live
      <4>3. E[b] \in Nat /\ Cardinality(Extensions(sh, b)) \in Nat
        BY <1>0, <2>1, ExtensionsFinite, Zenon
      <4> QED
        BY <2>5, <2>7, <3>2, <4>1, <4>2, <4>3
    <3>3. CASE z # x /\ z # b
      BY <2>5, <2>9, <3>3, Zenon DEF Core, Exact
    <3> QED
      BY <3>1, <3>2, <3>3, Zenon
  <2>11. HasBase(s2)
    <3> SUFFICES ASSUME NEW y \in Live(s2), s2[y].base # Null
                 PROVE  s2[y].base \in Live(s2) /\ s2[s2[y].base].name = Base[s2[y].name]
      BY Zenon DEF HasBase
    <3>1. y # x /\ y \in Live(sh) /\ s2[y].base = sh[y].base /\ s2[y].name = sh[y].name
      BY <2>5, <2>8, Zenon DEF Live
    <3>2. sh[y].base # x
      BY <2>2, <3>1, Zenon DEF Extensions, Live
    <3>3. sh[y].base \in Live(sh) /\ sh[sh[y].base].name = Base[sh[y].name]
      BY <3>1, Zenon DEF Core, HasBase
    <3>4. s2[sh[y].base].name = sh[sh[y].base].name
      BY <2>5, <3>2, <3>3, ZenonT(40) DEF Live
    <3> QED
      BY <2>8, <3>1, <3>2, <3>3, <3>4, Zenon
  <2>12. Indexed(s2, tab)
    <3>1. \A n \in Name : tab[n] # x
      BY <1>0, DataAssumption, ZenonT(40) DEF Core, Indexed
    <3>2. \A y \in Live(s2) : /\ y \in Live(sh) /\ s2[y].name = sh[y].name
                              /\ s2[y].sharedDataCached = sh[y].sharedDataCached
      BY <2>5, <2>8, Zenon DEF Live
    <3> QED
      BY <2>8, <3>1, <3>2 DEF Core, Indexed
  <2>13. Core(s2, tab, E)
    BY <2>5, <2>10, <2>11, <2>12, Zenon DEF Core
  <2>14. \A y \in Live(s2) \ {b} : s2[y].referenceCounter > 0 \/ s2[y].sharedDataCached
    BY <2>5, <2>8, Zenon DEF Kept, Live
  <2>15. CASE unused(s2, b)
    <3>1. b \in Live(s2) /\ Kept(s2, {b}) /\ s2[b].base = Null
      BY <2>1, <2>5, <2>8, <2>14, ZenonT(40) DEF Kept
    <3>2. s2[b].referenceCounter = 0 /\ ~s2[b].sharedDataCached
      BY <2>4, <2>5, <2>15 DEF unused
    <3>3. /\ Good([s2 EXCEPT ![b] = Null], tab, E)
          /\ Live([s2 EXCEPT ![b] = Null]) = Live(s2) \ {b}
      BY <2>13, <3>1, <3>2, FreePlain, Zenon
    <3> QED
      BY <2>6, <2>8, <2>15, <3>3, Zenon
  <2>16. CASE ~unused(s2, b)
    <3>1. s2[b].referenceCounter > 0 \/ s2[b].sharedDataCached
      BY <2>4, <2>5, <2>16 DEF unused
    <3>2. Kept(s2, {})
      BY <2>14, <3>1, Zenon DEF Kept
    <3> QED
      BY <2>6, <2>8, <2>13, <2>16, <3>2, ZenonT(40) DEF Good
  <2> QED
    BY <2>15, <2>16, ZenonT(40)
<1> QED
  BY <1>1, <1>2, Zenon

\* ucnv_unload() by a caller that gives up its reference.
LEMMA UnloadGood ==
    ASSUME NEW sh, NEW tab, NEW E, Good(sh, tab, E), NEW x \in Live(sh), E[x] > 0
    PROVE  /\ Good(ucnv_unload(sh, x), tab, Minus(E, x))
           /\ Live(ucnv_unload(sh, x)) \subseteq Live(sh)
<1> DEFINE s == decrement(sh, x)
<1>1. x \in Data /\ x # Static
  BY DataAssumption, Zenon DEF Live
<1>2. /\ Core(s, tab, Minus(E, x)) /\ Kept(s, {x}) /\ Live(s) = Live(sh)
  BY DecrementCore, Zenon DEF Good
<1>3. ucnv_unload(sh, x) = IF unused(s, x) THEN deleteSharedConverterData(s, x) ELSE s
  BY <1>1, Zenon DEF ucnv_unload
<1> HIDE DEF s
<1>4. s[x].referenceCounter \in Nat /\ s[x].sharedDataCached \in BOOLEAN
  BY <1>2, LiveHasFields, ZenonT(40) DEF Core
<1>5. CASE unused(s, x)
  <2>1. s[x].referenceCounter = 0 /\ ~s[x].sharedDataCached
    BY <1>4, <1>5 DEF unused
  <2> QED
    BY <1>2, <1>3, <1>5, <2>1, DeleteGood
<1>6. CASE ~unused(s, x)
  <2>1. s[x].referenceCounter > 0 \/ s[x].sharedDataCached
    BY <1>4, <1>6 DEF unused
  <2>2. Kept(s, {})
    BY <1>2, <2>1, Zenon DEF Kept
  <2> QED
    BY <1>2, <1>3, <1>6, <2>2, Zenon DEF Good
<1> QED
  BY <1>5, <1>6, Zenon

\* New shared data, with one reference from outside; a base table is handed over
\* from the caller to its new extension.
LEMMA AddGood ==
    ASSUME NEW sh, NEW tab, NEW E, Good(sh, tab, E),
           NEW x \in Data, sh[x] = Null, NEW n \in Name, NEW b \in Data \cup {Null},
           b # Null => b \in Live(sh) /\ sh[b].name = Base[n] /\ E[b] > 0,
           NEW F \in [Data -> Nat], F[x] = 1, b # Null => F[b] = E[b] - 1,
           \A y \in Data : y # x /\ y # b => F[y] = E[y]
    PROVE  LET s == unFlattenClone(sh, x, n, b)
           IN  /\ Good(s, tab, F) /\ Live(s) = Live(sh) \cup {x} /\ x \notin Live(sh)
               /\ s[x] = [name |-> n, referenceCounter |-> 1, sharedDataCached |-> FALSE, base |-> b]
               /\ \A y \in Data : y # x => s[y] = sh[y]
<1> DEFINE s == unFlattenClone(sh, x, n, b)
           new == [name |-> n, referenceCounter |-> 1, sharedDataCached |-> FALSE, base |-> b]
<1>0. sh \in [Data -> SharedData \cup {Null}] /\ E \in [Data -> Nat] /\ x \notin Live(sh)
      /\ tab \in [Name -> Data \cup {Null}] /\ x # Null
  BY DataAssumption, Zenon DEF Good, Core, Live
<1>1. new \in SharedData /\ new.name = n /\ new.referenceCounter = 1 /\ ~new.sharedDataCached /\ new.base = b
  BY Zenon DEF SharedData
<1>2. s \in [Data -> SharedData \cup {Null}] /\ s[x] = new /\ \A y \in Data : y # x => s[y] = sh[y]
  BY <1>0, <1>1, Zenon DEF unFlattenClone
<1> HIDE DEF s, new
<1>3. s[x] # Null /\ Live(s) = Live(sh) \cup {x}
  BY <1>1, <1>2, SharedDataAssumption, ZenonT(40) DEF Live
<1>4. E[x] = 0 /\ b # x /\ Extensions(sh, x) = {}
  <2>1. E[x] = 0 /\ b # x
    BY <1>0, Zenon DEF Good, Core, Exact
  <2>2. \A y \in Live(sh) : sh[y].base # x
    BY <1>0, Zenon DEF Good, Core, HasBase
  <2> QED
    BY <2>1, <2>2, Zenon DEF Extensions, Live
<1>5. \A z \in Data : Extensions(s, z) = IF z = b THEN Extensions(sh, z) \cup {x} ELSE Extensions(sh, z)
  BY <1>1, <1>2, <1>3, ZenonT(40) DEF Extensions
<1>6. Exact(s, F)
  <2> SUFFICES ASSUME NEW z \in Data
               PROVE  IF s[z] = Null THEN F[z] = 0
                      ELSE s[z].referenceCounter = F[z] + Cardinality(Extensions(s, z))
    BY Zenon DEF Exact
  <2>1. CASE z = x
    <3>1. Cardinality(Extensions(s, x)) = 0
      BY <1>4, <1>5, FS_EmptySet, Zenon
    <3> QED
      BY <1>1, <1>2, <1>3, <2>1, <3>1
  <2>2. CASE z = b
    <3>1. IsFiniteSet(Extensions(sh, b)) /\ Cardinality(Extensions(sh, b)) \in Nat
      BY ExtensionsFinite, Zenon
    <3>2. x \notin Extensions(sh, b)
      BY Zenon DEF Extensions
    <3>3. Cardinality(Extensions(s, b)) = Cardinality(Extensions(sh, b)) + 1
      BY <1>5, <2>2, <3>1, <3>2, FS_AddElement
    <3>4. b # Null /\ sh[b] # Null
      BY <2>2, DataAssumption, Zenon DEF Live
    <3>5. sh[b].referenceCounter = E[b] + Cardinality(Extensions(sh, b)) /\ E[b] \in Nat
      BY <1>0, <2>2, <3>4, Zenon DEF Good, Core, Exact
    <3> QED
      BY <1>2, <1>4, <2>2, <3>1, <3>3, <3>4, <3>5
  <2>3. CASE z # x /\ z # b
    BY <1>2, <1>5, <2>3, ZenonT(40) DEF Good, Core, Exact
  <2> QED
    BY <2>1, <2>2, <2>3, Zenon
<1>7. HasBase(s)
  BY <1>0, <1>1, <1>2, <1>3, SMTT(40) DEF Good, Core, HasBase, Live
<1>8. Indexed(s, tab)
  <2>1. tab[n] # x
    BY <1>0, ZenonT(40) DEF Good, Core, Indexed
  <2> QED
    BY <1>0, <1>1, <1>2, <1>3, <2>1 DEF Good, Core, Indexed, Live
<1>9. Kept(s, {})
  BY <1>1, <1>2, <1>3 DEF Good, Kept, Live
<1> QED
  BY <1>0, <1>2, <1>3, <1>6, <1>7, <1>8, <1>9, Zenon DEF Good, Core, s, new

Added(s, sh, x, n, tab, E) ==
    /\ Good(s, tab, Plus(E, x)) /\ Live(s) = Live(sh) \cup {x}
    /\ s[x] = [name |-> n, referenceCounter |-> 1, sharedDataCached |-> FALSE, base |-> Null]
    /\ \A y \in Data : y # x => s[y] = sh[y]

\* The same without a base table.
LEMMA AddPlainGood ==
    ASSUME NEW sh, NEW tab, NEW E, Good(sh, tab, E), NEW x \in Data, sh[x] = Null, NEW n \in Name
    PROVE  Added(unFlattenClone(sh, x, n, Null), sh, x, n, tab, E)
<1> DEFINE F == Plus(E, x)
<1>1. E \in [Data -> Nat] /\ E[x] = 0
  BY Zenon DEF Good, Core, Exact
<1>2. F \in [Data -> Nat] /\ F[x] = 1 /\ \A y \in Data : y # x => F[y] = E[y]
  BY <1>1 DEF Plus
<1>3. Null \in Data \cup {Null}
  BY Zenon
<1> HIDE DEF F
<1>4. LET s == unFlattenClone(sh, x, n, Null)
      IN  /\ Good(s, tab, F) /\ Live(s) = Live(sh) \cup {x}
          /\ s[x] = [name |-> n, referenceCounter |-> 1, sharedDataCached |-> FALSE, base |-> Null]
          /\ \A y \in Data : y # x => s[y] = sh[y]
  BY <1>2, <1>3, AddGood
<1> QED
  BY <1>4, Zenon DEF Added, F

-------------------------------------------------------------------------------
(* The cache with its table, and what the loading functions return.        *)

CacheType == [sh : [Data -> SharedData \cup {Null}], tab : [Name -> Data \cup {Null}], hash : BOOLEAN]

\* The table is open when there is something in it.
GoodCache(m, E) ==
    /\ m \in CacheType
    /\ Good(m.sh, m.tab, E)
    /\ (\E n \in Name : m.tab[n] # Null) => m.hash

\* The caller of a loading function gains one reference, to what it returns.
Gains(r, E) ==
    /\ r.d \in Data \cup {Null}
    /\ r.d = Null => GoodCache(r.m, E)
    /\ r.d # Null => GoodCache(r.m, Plus(E, r.d)) /\ r.d \in Live(r.m.sh)

\* Marking x as cached, or as no longer cached, leaves its other fields alone.
LEMMA Mark ==
    ASSUME NEW sh \in [Data -> SharedData \cup {Null}], NEW x \in Data, sh[x] \in SharedData,
           NEW v \in BOOLEAN, NEW s, s = [sh EXCEPT ![x].sharedDataCached = v]
    PROVE  /\ s \in [Data -> SharedData \cup {Null}] /\ s[x] \in SharedData
           /\ s[x].name = sh[x].name /\ s[x].base = sh[x].base /\ s[x].sharedDataCached = v
           /\ s[x].referenceCounter = sh[x].referenceCounter
           /\ \A y \in Data : y # x => s[y] = sh[y]
BY Zenon DEF SharedData

\* The results r of sharing x in the cache m.
Shared(r, m, x, E) ==
    /\ GoodCache(r, E) /\ Live(r.sh) = Live(m.sh) /\ r.sh[x].name = m.sh[x].name
    /\ r.sh[x].base = m.sh[x].base
    /\ \A y \in Data : y # x => r.sh[y] = m.sh[y]
    /\ \A k \in Name : k # m.sh[x].name => r.tab[k] = m.tab[k]

\* ucnv_shareConverterData() of shared data whose name is not in the table.
LEMMA ShareGood ==
    ASSUME NEW m, NEW E, GoodCache(m, E), NEW x \in Live(m.sh),
           m.tab[m.sh[x].name] = Null, NEW r \in shareConverterData(m, x)
    PROVE  Shared(r, m, x, E)
<1> DEFINE n == m.sh[x].name
           u == [m EXCEPT !.sh[x].sharedDataCached = TRUE, !.tab[m.sh[x].name] = x, !.hash = TRUE]
<1>0. /\ m \in CacheType /\ x \in Data /\ m.sh[x] \in SharedData /\ m.sh[x] # Null
      /\ n \in Name /\ x # Null /\ m.sh \in [Data -> SharedData \cup {Null}]
      /\ m.tab \in [Name -> Data \cup {Null}] /\ E \in [Data -> Nat]
  BY LiveHasFields, DataAssumption DEF GoodCache, CacheType, Good, Core
<1>1. r = u \/ r = m
  BY Zenon DEF shareConverterData
<1>2. CASE r = m
  BY <1>2, Zenon DEF Shared
<1>3. CASE r = u
  <2>1. /\ r \in CacheType /\ r.hash
        /\ r.tab = [m.tab EXCEPT ![n] = x]
        /\ r.sh = [m.sh EXCEPT ![x].sharedDataCached = TRUE]
    BY <1>0, <1>3, Zenon DEF CacheType, SharedData
  <2>2. /\ r.sh \in [Data -> SharedData \cup {Null}] /\ r.sh[x] \in SharedData
        /\ r.sh[x].name = n /\ r.sh[x].base = m.sh[x].base /\ r.sh[x].sharedDataCached
        /\ r.sh[x].referenceCounter = m.sh[x].referenceCounter
        /\ \A y \in Data : y # x => r.sh[y] = m.sh[y]
    <3>1. TRUE \in BOOLEAN
      OBVIOUS
    <3>2. \A s : s = [m.sh EXCEPT ![x].sharedDataCached = TRUE] =>
            /\ s \in [Data -> SharedData \cup {Null}] /\ s[x] \in SharedData
            /\ s[x].name = m.sh[x].name /\ s[x].base = m.sh[x].base /\ s[x].sharedDataCached = TRUE
            /\ s[x].referenceCounter = m.sh[x].referenceCounter
            /\ \A y \in Data : y # x => s[y] = m.sh[y]
      BY <1>0, <3>1, Mark, ZenonT(40)
    <3> QED
      BY <2>1, <3>2, ZenonT(40)
  <2>3. /\ r.tab \in [Name -> Data \cup {Null}] /\ r.tab[n] = x
        /\ \A k \in Name : k # n => r.tab[k] = m.tab[k]
    BY <1>0, <2>1
  <2> HIDE DEF u, n
  <2>4. r.sh[x] # Null /\ Live(r.sh) = Live(m.sh)
    BY <1>0, <2>2, SharedDataAssumption, ZenonT(40) DEF Live
  <2>5. \A z : Extensions(r.sh, z) = Extensions(m.sh, z)
    <3>1. \A y \in Data : (r.sh[y] = Null <=> m.sh[y] = Null) /\ (m.sh[y] # Null => r.sh[y].base = m.sh[y].base)
      BY <1>0, <2>2, <2>4, ZenonT(40)
    <3> QED
      BY <3>1, SameExtensions, Zenon
  <2>6. Exact(r.sh, E)
    <3>1. Exact(m.sh, E)
      BY Zenon DEF GoodCache, Good, Core
    <3>2. \A y \in Data : (r.sh[y] = Null <=> m.sh[y] = Null)
                         /\ (m.sh[y] # Null => r.sh[y].referenceCounter = m.sh[y].referenceCounter)
      BY <1>0, <2>2, <2>4, ZenonT(40)
    <3> QED
      BY <2>4, <2>5, <3>1, <3>2, ZenonT(40) DEF Exact, Live
  <2>7. HasBase(r.sh)
    <3>1. HasBase(m.sh) /\ r.sh[x].name = m.sh[x].name
      BY <2>2, Zenon DEF GoodCache, Good, Core, n
    <3>2. \A y \in Data : r.sh[y].name = m.sh[y].name /\ r.sh[y].base = m.sh[y].base
      BY <2>2, <3>1, Zenon
    <3>3. ASSUME NEW y \in Live(m.sh), r.sh[y].base # Null
          PROVE  r.sh[y].base \in Live(m.sh) /\ r.sh[r.sh[y].base].name = Base[r.sh[y].name]
      <4>1. y \in Data /\ m.sh[y].base # Null /\ r.sh[y].base = m.sh[y].base /\ r.sh[y].name = m.sh[y].name
        BY <3>2, <3>3, Zenon DEF Live
      <4>2. m.sh[y].base \in Live(m.sh) /\ m.sh[m.sh[y].base].name = Base[m.sh[y].name]
        BY <3>1, <4>1, Zenon DEF HasBase
      <4>3. r.sh[m.sh[y].base].name = m.sh[m.sh[y].base].name
        BY <3>2, <4>2, ZenonT(40) DEF Live
      <4> QED
        BY <4>1, <4>2, <4>3, Zenon
    <3> QED
      BY <2>4, <3>3, Zenon DEF HasBase
  <2>8. Indexed(r.sh, r.tab)
    <3>1. \A k \in Name : r.tab[k] # Null => r.tab[k] \in Live(r.sh) /\ r.sh[r.tab[k]].name = k
      BY <2>2, <2>3, <2>4 DEF GoodCache, Good, Core, Indexed, n, Live
    <3>2. ASSUME NEW y \in Live(r.sh)
          PROVE  r.sh[y].sharedDataCached <=> r.tab[r.sh[y].name] = y
      <4>1. CASE y = x
        BY <2>2, <2>3, <4>1, ZenonT(40)
      <4>2. CASE y # x
        <5>1. y \in Live(m.sh) /\ r.sh[y] = m.sh[y] /\ m.sh[y].name \in Name
              /\ (m.sh[y].sharedDataCached <=> m.tab[m.sh[y].name] = y) /\ y # Null
          <6>1. y \in Live(m.sh) /\ y \in Data /\ Indexed(m.sh, m.tab)
            BY <2>4, <3>2, Zenon DEF GoodCache, Good, Core, Live
          <6>2. m.sh[y] \in SharedData
            BY <1>0, <6>1, LiveHasFields, Zenon
          <6>3. m.sh[y].name \in Name /\ y # Null
            BY <6>1, <6>2, DataAssumption, Zenon DEF SharedData
          <6> QED
            BY <2>2, <4>2, <6>1, <6>3, Zenon DEF Indexed
        <5>2. CASE m.sh[y].name = n
          BY <2>3, <4>2, <5>1, <5>2, Zenon DEF n
        <5>3. CASE m.sh[y].name # n
          BY <2>3, <5>1, <5>3, Zenon
        <5> QED
          BY <5>2, <5>3, Zenon
      <4> QED
        BY <4>1, <4>2, Zenon
    <3> QED
      BY <3>1, <3>2, ZenonT(40) DEF Indexed
  <2>9. Kept(r.sh, {})
    BY <2>2, <2>4, Zenon DEF GoodCache, Good, Kept, Live
  <2> QED
    BY <1>0, <2>1, <2>2, <2>3, <2>4, <2>6, <2>7, <2>8, <2>9, ZenonT(40) DEF GoodCache, Good, Core, n, Shared
<1> QED
  BY <1>1, <1>2, <1>3, ZenonT(40)

\* The fields of a cache with other shared data.
LEMMA WithShared ==
    ASSUME NEW m \in CacheType, NEW s \in [Data -> SharedData \cup {Null}]
    PROVE  LET u == [m EXCEPT !.sh = s]
           IN  u \in CacheType /\ u.sh = s /\ u.tab = m.tab /\ u.hash = m.hash
BY Zenon DEF CacheType

\* A reference more, or one less, in the number of references from outside.
LEMMA PlusMinus ==
    ASSUME NEW E \in [Data -> Nat], NEW x \in Data
    PROVE  /\ Plus(E, x) \in [Data -> Nat] /\ Plus(E, x)[x] = E[x] + 1
           /\ \A y \in Data : y # x => Plus(E, x)[y] = E[y]
           /\ Minus(Plus(E, x), x) = E
           /\ E[x] > 0 => /\ Minus(E, x) \in [Data -> Nat] /\ Minus(E, x)[x] = E[x] - 1
                          /\ \A y \in Data : y # x => Minus(E, x)[y] = E[y]
<1>1. /\ Plus(E, x) \in [Data -> Nat] /\ Plus(E, x)[x] = E[x] + 1
      /\ \A y \in Data : y # x => Plus(E, x)[y] = E[y]
  BY DEF Plus
<1>2. ASSUME E[x] > 0
      PROVE  /\ Minus(E, x) \in [Data -> Nat] /\ Minus(E, x)[x] = E[x] - 1
             /\ \A y \in Data : y # x => Minus(E, x)[y] = E[y]
  BY <1>2 DEF Minus
<1>3. Minus(Plus(E, x), x) = E
  <2> DEFINE P == Plus(E, x)
  <2>1. P \in [Data -> Nat] /\ P[x] - 1 = E[x] /\ \A y \in Data : y # x => P[y] = E[y]
    BY <1>1
  <2> HIDE DEF P
  <2>2. [P EXCEPT ![x] = @ - 1] = E
    BY <2>1, Zenon
  <2> QED
    BY <2>2, Zenon DEF P, Minus
<1> QED
  BY <1>1, <1>2, <1>3, Zenon

\* A cached converter is found: its caller is counted.
LEMMA HitGood ==
    ASSUME NEW m, NEW E, GoodCache(m, E), NEW n \in Name, m.tab[n] # Null,
           NEW r \in hit(m, n)
    PROVE  /\ Gains(r, E) /\ r.d # Null /\ r.m.tab = m.tab /\ r.m.hash = m.hash
           /\ r.m.sh[r.d].name = n /\ Live(r.m.sh) = Live(m.sh)
<1> DEFINE x == m.tab[n]
           s == incrementRefCount(m.sh, x)
<1>1. x \in Live(m.sh) /\ m.sh[x].name = n /\ x \in Data /\ m.sh[x] \in SharedData
      /\ m \in CacheType /\ m.sh \in [Data -> SharedData \cup {Null}] /\ x # Static /\ x # Null
  BY LiveHasFields, DataAssumption DEF GoodCache, Good, Core, Indexed, Live
<1>2. r = [m |-> [m EXCEPT !.sh = s], d |-> x]
  BY Zenon DEF hit, Loaded
<1>3. s[x].name = n
  BY <1>1, Zenon DEF incrementRefCount, SharedData
<1> HIDE DEF x
<1>4. Good(s, m.tab, Plus(E, x)) /\ Live(s) = Live(m.sh)
  BY <1>1, IncrementGood, Zenon DEF GoodCache
<1> HIDE DEF s
<1>5. r.m \in CacheType /\ r.m.sh = s /\ r.m.tab = m.tab /\ r.m.hash = m.hash /\ r.d = x
  BY <1>1, <1>2, <1>4, WithShared, Zenon DEF Good, Core
<1>6. GoodCache(r.m, Plus(E, x))
  BY <1>4, <1>5, Zenon DEF GoodCache
<1> QED
  BY <1>1, <1>3, <1>4, <1>5, <1>6, ZenonT(40) DEF Gains

\* Something is free, so what free() chooses is.
LEMMA FreeIsFree ==
    ASSUME NEW sh, NEW z \in Data, sh[z] = Null
    PROVE  free(sh) \in Data /\ sh[free(sh)] = Null
BY Zenon DEF free

\* The fields of new shared data without a base table.
LEMMA PlainFields ==
    ASSUME NEW n, NEW s, s = [name |-> n, referenceCounter |-> 1, sharedDataCached |-> FALSE, base |-> Null]
    PROVE  s.name = n /\ s.base = Null
  OBVIOUS

\* The results r of createConverterFromFile() for n in the cache m.
Created(r, m, E, n, cacheable) ==
    /\ Gains(r, E)
    /\ r.d = Null => r.m = m
    /\ r.d # Null => /\ r.d = free(m.sh) /\ r.m.sh[r.d].name = n
                     /\ r.m.sh[r.d].base = Null
                     /\ \A y \in Data : y # r.d => r.m.sh[y] = m.sh[y]
    /\ \A k \in Name : k # n => r.m.tab[k] = m.tab[k]
    /\ ~cacheable /\ r.d # Null => /\ r.m.tab = m.tab /\ r.m.hash = m.hash
                                   /\ r.m.sh[r.d].referenceCounter = 1
                                   /\ ~r.m.sh[r.d].sharedDataCached

\* A file with a base table of its own.  Nothing else changes, and without a
\* place in the cache the table does not either.
LEMMA CreateGood ==
    ASSUME NEW m, NEW E, GoodCache(m, E), NEW n \in Name, NEW cacheable,
           cacheable => m.tab[n] = Null, NEW z \in Data, m.sh[z] = Null,
           NEW r \in createFromFile(m, n, cacheable)
    PROVE  Created(r, m, E, n, cacheable)
<1> DEFINE x == free(m.sh)
           s == unFlattenClone(m.sh, x, n, Null)
           u == [m EXCEPT !.sh = s]
           F == Plus(E, x)
<1>1. x \in Data /\ m.sh[x] = Null /\ x # Null
  BY FreeIsFree, DataAssumption, ZenonT(40)
<1>2. m \in CacheType /\ Good(m.sh, m.tab, E) /\ E \in [Data -> Nat]
      /\ m.sh \in [Data -> SharedData \cup {Null}] /\ m.tab \in [Name -> Data \cup {Null}]
  BY Zenon DEF GoodCache, Good, Core
<1>3. r \in Fails("file", m) \cup {Loaded(v, x) : v \in share(u, x, cacheable)}
  BY ZenonT(40) DEF createFromFile
<1> HIDE DEF x
<1>5. /\ Good(s, m.tab, F) /\ Live(s) = Live(m.sh) \cup {x}
      /\ s[x] = [name |-> n, referenceCounter |-> 1, sharedDataCached |-> FALSE, base |-> Null]
      /\ \A y \in Data : y # x => s[y] = m.sh[y]
  <2>1. Added(s, m.sh, x, n, m.tab, E)
    BY <1>1, <1>2, AddPlainGood, Zenon
  <2> QED
    BY <2>1, Zenon DEF Added
<1> HIDE DEF s, F
<1>6. u \in CacheType /\ u.sh = s /\ u.tab = m.tab /\ u.hash = m.hash
  BY <1>2, <1>5, WithShared, Zenon DEF Good, Core
<1> HIDE DEF u
<1>7. GoodCache(u, F) /\ x \in Live(u.sh)
  BY <1>5, <1>6, Zenon DEF GoodCache
<1>8. CASE r \in Fails("file", m)
  <2>1. r = [m |-> m, d |-> Null]
    BY <1>8, SMTT(20) DEF Fails, Loaded
  <2> QED
    BY <1>2, <2>1, Zenon DEF Gains, Created
<1>9. ASSUME NEW v \in share(u, x, cacheable), r = Loaded(v, x)
      PROVE  /\ Gains(r, E)
             /\ r.d = Null => r.m = m
             /\ r.d # Null => /\ r.d = x /\ r.m.sh[r.d].name = n
                              /\ r.m.sh[r.d].base = Null
                              /\ \A y \in Data : y # r.d => r.m.sh[y] = m.sh[y]
             /\ \A k \in Name : k # n => r.m.tab[k] = m.tab[k]
             /\ ~cacheable /\ r.d # Null => /\ r.m.tab = m.tab /\ r.m.hash = m.hash
                                            /\ r.m.sh[r.d].referenceCounter = 1
                                            /\ ~r.m.sh[r.d].sharedDataCached
  <2>1. r.m = v /\ r.d = x
    BY <1>9, ZenonT(40) DEF Loaded
  <2>2. CASE cacheable
    <3>1. v \in shareConverterData(u, x) /\ u.sh[x].name = n /\ u.tab[n] = Null /\ u.sh[x].base = Null
      <4>1. s[x].name = n /\ s[x].base = Null
        BY <1>5, PlainFields, ZenonT(40)
      <4>2. v \in shareConverterData(u, x)
        BY <1>9, <2>2, Zenon DEF share
      <4>3. u.tab[n] = Null /\ u.sh = s
        BY <1>6, <2>2, Zenon
      <4> QED
        BY <4>1, <4>2, <4>3, Zenon
    <3>2. Shared(v, u, x, F)
      BY <1>7, <3>1, ShareGood, Zenon
    <3>3. /\ GoodCache(v, F) /\ x \in Live(v.sh) /\ v.sh[x].name = n /\ v.sh[x].base = Null
          /\ \A y \in Data : y # x => v.sh[y] = m.sh[y]
          /\ \A k \in Name : k # n => v.tab[k] = m.tab[k]
      BY <1>5, <1>6, <1>7, <3>1, <3>2, ZenonT(40) DEF Shared
    <3> QED
      BY <1>1, <2>1, <2>2, <3>3, ZenonT(40) DEF Gains, F
  <2>3. CASE ~cacheable
    <3>1. v = u
      BY <1>9, <2>3, Zenon DEF share
    <3> QED
      BY <1>1, <1>5, <1>6, <1>7, <2>1, <2>3, <3>1, SMTT(40) DEF Gains, F
  <2> QED
    BY <2>2, <2>3, Zenon
<1> QED
  BY <1>3, <1>8, <1>9, Zenon DEF x, Created

\* What ucnv_MBCSLoad() needs of the base table of n that it has loaded.
BaseFor(b, m, E, n) ==
    /\ Gains(b, E)
    /\ b.d # Null => /\ b.m.sh[b.d].name = Base[n] /\ b.m.tab[n] = m.tab[n]
                     /\ \E z \in Data : b.m.sh[z] = Null

\* An extension-only file: with its base table, without it when only testing,
\* or a failure that has released the base table.
LEMMA ExtensionGood ==
    ASSUME NEW m, NEW E, GoodCache(m, E), NEW n \in Name, NEW base,
           \A b \in base : BaseFor(b, m, E, n),
           NEW test, NEW cacheable, cacheable => m.tab[n] = Null,
           NEW r \in createExtension(m, n, base, test, cacheable)
    PROVE  Gains(r, E)
<1>1. CASE r \in Fails("file", m)
  BY <1>1 DEF Fails, Loaded, Gains
<1>2. ASSUME NEW b \in base, b.d = Null, r = b
      PROVE  Gains(r, E)
  BY <1>2, Zenon DEF BaseFor
<1>3. ASSUME NEW b \in base, b.d # Null,
             NEW x, x = free(b.m.sh),
             NEW u, u = [b.m EXCEPT !.sh = ucnv_unload(@, b.d)],
             \/ /\ test
                /\ r = Loaded([u EXCEPT !.sh = unFlattenClone(@, x, n, Null)], x)
             \/ \E v \in share([b.m EXCEPT !.sh = unFlattenClone(@, x, n, b.d)], x, cacheable) :
                   r = Loaded(v, x)
             \/ r \in Fails("table", u)
      PROVE  Gains(r, E)
  <2> DEFINE F == Plus(E, b.d)
             w == ucnv_unload(b.m.sh, b.d)
             G == Plus(E, x)
  <2>1. /\ E \in [Data -> Nat] /\ b.d \in Data /\ GoodCache(b.m, F) /\ b.d \in Live(b.m.sh)
        /\ b.m.sh[b.d].name = Base[n] /\ b.m.tab[n] = m.tab[n]
        /\ b.m \in CacheType /\ b.m.sh \in [Data -> SharedData \cup {Null}]
        /\ Good(b.m.sh, b.m.tab, F)
    BY <1>3, ZenonT(40) DEF BaseFor, Gains, GoodCache, Good, Core, CacheType
  <2>2. F \in [Data -> Nat] /\ F[b.d] = E[b.d] + 1 /\ F[b.d] > 0 /\ Minus(F, b.d) = E
        /\ \A y \in Data : y # b.d => F[y] = E[y]
    BY <2>1, PlusMinus
  <2>3. x \in Data /\ b.m.sh[x] = Null /\ x \notin Live(b.m.sh) /\ x # Null
    BY <1>3, FreeIsFree, DataAssumption DEF BaseFor, Live
  <2> HIDE DEF F
  <2>4. Good(w, b.m.tab, E) /\ Live(w) \subseteq Live(b.m.sh)
    BY <2>1, <2>2, UnloadGood, Zenon
  <2>5. u \in CacheType /\ u.sh = w /\ u.tab = b.m.tab /\ u.hash = b.m.hash
    BY <1>3, <2>1, <2>4, WithShared, ZenonT(40) DEF Good, Core
  <2> HIDE DEF w
  <2>6. GoodCache(u, E)
    BY <2>1, <2>4, <2>5, Zenon DEF GoodCache
  <2>7. G \in [Data -> Nat] /\ G[x] = E[x] + 1 /\ \A y \in Data : y # x => G[y] = E[y]
    BY <2>1, <2>3, PlusMinus, Zenon
  <2>8. E[x] = 0
    BY <2>1, <2>2, <2>3, Zenon DEF Good, Core, Exact
  <2> HIDE DEF G
  <2>9. CASE /\ test
             /\ r = Loaded([u EXCEPT !.sh = unFlattenClone(@, x, n, Null)], x)
    <3> DEFINE s == unFlattenClone(w, x, n, Null)
    <3>1. w[x] = Null
      BY <2>3, <2>4, Zenon DEF Live
    <3>2. Good(s, b.m.tab, G) /\ Live(s) = Live(w) \cup {x}
      <4>1. x \in Data
        BY <2>3, Zenon
      <4>2. Good(w, b.m.tab, E)
        BY <2>4, Zenon
      <4>3. ASSUME NEW v, v = w
            PROVE  /\ Good(unFlattenClone(v, x, n, Null), b.m.tab, Plus(E, x))
                   /\ Live(unFlattenClone(v, x, n, Null)) = Live(v) \cup {x}
        BY <4>1, <4>2, <4>3, <3>1, AddPlainGood, ZenonT(40) DEF Added
      <4> QED
        BY <4>3, Zenon DEF G
    <3>3. [u EXCEPT !.sh = unFlattenClone(@, x, n, Null)] = [u EXCEPT !.sh = s]
      BY <2>5, Zenon
    <3> HIDE DEF s
    <3>4. r.d = x /\ r.m \in CacheType /\ r.m.sh = s /\ r.m.tab = b.m.tab /\ r.m.hash = b.m.hash
      <4>1. r.d = x /\ r.m = [u EXCEPT !.sh = s]
        BY <2>9, <3>3, Zenon DEF Loaded
      <4>2. s \in [Data -> SharedData \cup {Null}]
        BY <3>2, Zenon DEF Good, Core
      <4> QED
        BY <2>5, <4>1, <4>2, WithShared
    <3> QED
      BY <2>1, <2>3, <3>2, <3>4, ZenonT(40) DEF Gains, GoodCache, G
  <2>10. ASSUME NEW v \in share([b.m EXCEPT !.sh = unFlattenClone(@, x, n, b.d)], x, cacheable),
                r = Loaded(v, x)
         PROVE  Gains(r, E)
    <3> DEFINE s == unFlattenClone(b.m.sh, x, n, b.d)
               q == [b.m EXCEPT !.sh = s]
    <3>0. v \in share(q, x, cacheable)
      BY <2>1, <2>10, ZenonT(40) DEF CacheType
    <3>1. /\ Good(s, b.m.tab, G) /\ Live(s) = Live(b.m.sh) \cup {x}
          /\ s[x] = [name |-> n, referenceCounter |-> 1, sharedDataCached |-> FALSE, base |-> b.d]
      <4>1. b.d \in Data \cup {Null} /\ b.d # x
        BY <2>1, <2>3, Zenon
      <4>2. G[x] = 1 /\ G[b.d] = F[b.d] - 1 /\ \A y \in Data : y # x /\ y # b.d => G[y] = F[y]
        BY <2>1, <2>2, <2>3, <2>7, <2>8, <4>1, SMTT(40)
      <4> QED
        BY <2>1, <2>2, <2>3, <2>7, <4>1, <4>2, AddGood, SMTT(40)
    <3> HIDE DEF s
    <3>2. q \in CacheType /\ q.sh = s /\ q.tab = b.m.tab /\ q.hash = b.m.hash
      BY <2>1, <3>1, WithShared, ZenonT(40) DEF Good, Core
    <3> HIDE DEF q
    <3>3. GoodCache(q, G) /\ x \in Live(q.sh) /\ q.sh[x].name = n
      BY <2>1, <3>1, <3>2 DEF GoodCache
    <3>4. GoodCache(v, G) /\ x \in Live(v.sh)
      <4>1. CASE cacheable
        <5>1. v \in shareConverterData(q, x) /\ q.tab[q.sh[x].name] = Null
          BY <2>1, <3>0, <3>2, <3>3, <4>1, ZenonT(40) DEF share
        <5> QED
          BY <3>3, <5>1, ShareGood DEF Shared
      <4>2. CASE ~cacheable
        BY <3>0, <3>3, <4>2, Zenon DEF share
      <4> QED
        BY <4>1, <4>2, Zenon
    <3>5. r.m = v /\ r.d = x
      BY <2>10, Zenon DEF Loaded
    <3> QED
      BY <2>3, <3>4, <3>5, Zenon DEF Gains, G
  <2>11. CASE r \in Fails("table", u)
    BY <2>6, <2>11 DEF Fails, Loaded, Gains
  <2> HIDE DEF G
  <2> QED
    BY <1>3, <2>9, <2>10, <2>11, Zenon
<1> DEFINE with(b) ==
           LET x == free(b.m.sh)
               u == [b.m EXCEPT !.sh = ucnv_unload(@, b.d)]
           IN  IF b.d = Null THEN {b}
               ELSE IF test
                    THEN {Loaded([u EXCEPT !.sh = unFlattenClone(@, x, n, Null)], x)}
                    ELSE {Loaded(v, x) :
                             v \in share([b.m EXCEPT !.sh = unFlattenClone(@, x, n, b.d)], x, cacheable)}
                         \cup Fails("table", u)
<1>4. r \in Fails("file", m) \/ \E b \in base : r \in with(b)
  BY Zenon DEF createExtension
<1>5. ASSUME NEW b \in base, r \in with(b)
      PROVE  Gains(r, E)
  <2>1. CASE b.d = Null
    BY <1>2, <1>5, <2>1, Zenon
  <2>2. CASE b.d # Null
    <3> DEFINE x == free(b.m.sh)
               u == [b.m EXCEPT !.sh = ucnv_unload(@, b.d)]
    <3>1. \/ /\ test
             /\ r = Loaded([u EXCEPT !.sh = unFlattenClone(@, x, n, Null)], x)
          \/ \E v \in share([b.m EXCEPT !.sh = unFlattenClone(@, x, n, b.d)], x, cacheable) :
                r = Loaded(v, x)
          \/ r \in Fails("table", u)
      BY <1>5, <2>2, Zenon
    <3> QED
      BY <1>3, <2>2, <3>1, Zenon
  <2> QED
    BY <2>1, <2>2, Zenon
<1> HIDE DEF with
<1> QED
  BY <1>1, <1>4, <1>5, ZenonT(40)

\* ucnv_load() returns a counted reference or has no effect on the counts.
LEMMA LoadGood ==
    ASSUME NEW m, NEW E, GoodCache(m, E), NEW n \in Name, NEW test,
           NEW y \in Data, NEW z \in Data, y # z, m.sh[y] = Null, m.sh[z] = Null,
           NEW r \in ucnv_load(m, n, test)
    PROVE  Gains(r, E)
<1> DEFINE plain(b) == IF m.tab[b] # Null THEN hit(m, b) ELSE createFromFile(m, b, ~test)
<1>1. CASE m.tab[n] # Null
  BY <1>1, HitGood, Zenon DEF ucnv_load
<1>2. ASSUME NEW b \in Name, NEW p \in plain(b)
      PROVE  /\ Gains(p, E)
             /\ p.d # Null => p.m.sh[p.d].name = b /\ \E x \in Data : p.m.sh[x] = Null
             /\ \A k \in Name : k # b => p.m.tab[k] = m.tab[k]
  <2>1. CASE m.tab[b] # Null
    BY <1>2, <2>1, HitGood DEF Live
  <2>2. CASE m.tab[b] = Null
    <3> DEFINE cacheable == ~test
    <3>1. p \in createFromFile(m, b, cacheable)
      BY <1>2, <2>2, ZenonT(40)
    <3> HIDE DEF cacheable
    <3>2. Created(p, m, E, b, cacheable)
      BY <2>2, <3>1, CreateGood, Zenon
    <3>3. p.d # Null => \E x \in Data : p.m.sh[x] = Null
      BY <3>2, Zenon DEF Created
    <3> QED
      BY <3>2, <3>3, Zenon DEF Created
  <2> QED
    BY <2>1, <2>2, ZenonT(40)
<1>3. CASE m.tab[n] = Null /\ Base[n] = Null
  <2>1. r \in plain(n)
    BY <1>3, Zenon DEF ucnv_load
  <2> QED
    BY <1>2, <2>1, Zenon
<1>4. CASE m.tab[n] = Null /\ Base[n] # Null
  <2>1. Base[n] \in Name /\ Base[n] # n
    BY <1>4, DataAssumption, ZenonT(40)
  <2>2. \A b \in plain(Base[n]) : BaseFor(b, m, E, n)
    BY <1>2, <2>1, SMTT(40) DEF BaseFor
  <2>3. r \in createExtension(m, n, plain(Base[n]), test, ~test)
    BY <1>4, Zenon DEF ucnv_load
  <2>4. ~test => m.tab[n] = Null
    BY <1>4, Zenon
  <2> HIDE DEF plain
  <2> QED
    BY <2>2, <2>3, <2>4, ExtensionGood, Zenon
<1> QED
  BY <1>1, <1>3, <1>4, Zenon

\* createConverterFromFile() for a package does the same.
LEMMA PackageGood ==
    ASSUME NEW m, NEW E, GoodCache(m, E), NEW n \in Name,
           NEW y \in Data, NEW z \in Data, y # z, m.sh[y] = Null, m.sh[z] = Null,
           NEW r \in loadFromPackage(m, n)
    PROVE  Gains(r, E)
<1>1. ASSUME NEW k \in Name, NEW p \in createFromFile(m, k, FALSE)
      PROVE  /\ Gains(p, E)
             /\ p.d # Null => /\ p.m.sh[p.d].name = k /\ p.m.tab = m.tab
                              /\ \E x \in Data : p.m.sh[x] = Null
  <2> DEFINE no == FALSE
  <2>0. ~no /\ p \in createFromFile(m, k, no)
    BY <1>1, Zenon
  <2> HIDE DEF no
  <2>1. /\ Gains(p, E)
        /\ p.d # Null => /\ p.m.sh[p.d].name = k /\ p.m.tab = m.tab
                         /\ \A x \in Data : x # p.d => p.m.sh[x] = m.sh[x]
    <3>1. Created(p, m, E, k, no)
      BY <2>0, CreateGood, Zenon
    <3> QED
      BY <2>0, <3>1, Zenon DEF Created
  <2> QED
    BY <2>1, Zenon
<1>2. CASE Base[n] = Null
  BY <1>1, <1>2, Zenon DEF loadFromPackage
<1>3. CASE Base[n] # Null
  <2> DEFINE bs == createFromFile(m, Base[n], FALSE)
  <2>1. Base[n] \in Name
    BY <1>3, DataAssumption, Zenon
  <2>2. \A b \in bs : BaseFor(b, m, E, n)
    BY <1>1, <2>1, Zenon DEF BaseFor
  <2> DEFINE no == FALSE
  <2>3. ~no /\ r \in createExtension(m, n, bs, no, no)
    BY <1>3, Zenon DEF loadFromPackage
  <2> HIDE DEF bs, no
  <2> QED
    BY <2>2, <2>3, ExtensionGood, Zenon
<1> QED
  BY <1>2, <1>3, Zenon

\* It leaves the table and everything that was there as it was: with a package
\* it runs without cnvCacheMutex.
LEMMA PackageKeeps ==
    ASSUME NEW m, NEW E, GoodCache(m, E), NEW n \in Name,
           NEW y \in Data, NEW z \in Data, y # z, m.sh[y] = Null, m.sh[z] = Null,
           NEW r \in loadFromPackage(m, n)
    PROVE  /\ r.m.tab = m.tab /\ r.m.hash = m.hash
           /\ \A x \in Live(m.sh) : r.m.sh[x] = m.sh[x]
<1>0. m \in CacheType /\ m.sh \in [Data -> SharedData \cup {Null}]
  BY SMTT(20) DEF GoodCache, CacheType
<1>1. ASSUME NEW k \in Name, NEW p \in createFromFile(m, k, FALSE)
      PROVE  /\ p.d = Null => p.m = m
             /\ p.d # Null => /\ p.d \in Data /\ m.sh[p.d] = Null /\ p.m \in CacheType
                              /\ p.m.sh[p.d] \in SharedData
                              /\ p.m.sh[p.d].base = Null /\ p.m.sh[p.d].referenceCounter = 1
                              /\ ~p.m.sh[p.d].sharedDataCached
                              /\ p.m.tab = m.tab /\ p.m.hash = m.hash
                              /\ \A x \in Data : x # p.d => p.m.sh[x] = m.sh[x]
                              /\ \E x \in Data : p.m.sh[x] = Null
  <2> DEFINE no == FALSE
  <2>0. ~no /\ p \in createFromFile(m, k, no)
    BY <1>1, Zenon
  <2> HIDE DEF no
  <2>1. /\ Gains(p, E)
        /\ p.d = Null => p.m = m
        /\ p.d # Null => /\ p.d = free(m.sh) /\ p.m.sh[p.d].base = Null
                         /\ p.m.tab = m.tab /\ p.m.hash = m.hash
                         /\ p.m.sh[p.d].referenceCounter = 1
                         /\ ~p.m.sh[p.d].sharedDataCached
                         /\ \A x \in Data : x # p.d => p.m.sh[x] = m.sh[x]
    <3>1. Created(p, m, E, k, no)
      BY <2>0, CreateGood, Zenon
    <3> QED
      BY <2>0, <3>1, Zenon DEF Created
  <2>2. p.d # Null => p.m \in CacheType /\ p.d \in Live(p.m.sh)
    BY <2>1, Zenon DEF Gains, GoodCache
  <2>3. p.d # Null => p.m.sh[p.d] \in SharedData
    BY <2>2, LiveHasFields, Zenon DEF CacheType
  <2> QED
    BY <2>1, <2>2, <2>3, FreeIsFree, ZenonT(40)
<1>2. CASE Base[n] = Null
  BY <1>1, <1>2, ZenonT(40) DEF loadFromPackage, Live
<1>3. CASE Base[n] # Null
  <2> DEFINE x(b) == free(b.m.sh)
             u(b) == [b.m EXCEPT !.sh = ucnv_unload(@, b.d)]
  <2>1. Base[n] \in Name
    BY <1>3, DataAssumption
  <2>2. \/ r \in Fails("file", m)
        \/ \E b \in createFromFile(m, Base[n], FALSE) :
              \/ b.d = Null /\ r = b
              \/ /\ b.d # Null
                 /\ \/ r = Loaded([b.m EXCEPT !.sh = unFlattenClone(@, x(b), n, b.d)], x(b))
                    \/ r \in Fails("table", u(b))
    BY <1>3, ZenonT(40) DEF loadFromPackage, createExtension, share
  <2>3. CASE r \in Fails("file", m)
    BY <2>3 DEF Fails, Loaded
  <2>4. ASSUME NEW b \in createFromFile(m, Base[n], FALSE), b.d = Null, r = b
        PROVE  r.m = m
    BY <1>1, <2>1, <2>4, Zenon
  <2>5. ASSUME NEW b \in createFromFile(m, Base[n], FALSE), b.d # Null,
               r = Loaded([b.m EXCEPT !.sh = unFlattenClone(@, x(b), n, b.d)], x(b))
        PROVE  /\ r.m.tab = m.tab /\ r.m.hash = m.hash
               /\ \A i \in Live(m.sh) : r.m.sh[i] = m.sh[i]
    <3>1. /\ b.m \in CacheType /\ b.m.tab = m.tab /\ b.m.hash = m.hash /\ m.sh[b.d] = Null
          /\ \A i \in Data : i # b.d => b.m.sh[i] = m.sh[i]
          /\ \E i \in Data : b.m.sh[i] = Null
      BY <1>1, <2>1, <2>5, Zenon
    <3>2. x(b) \in Data /\ b.m.sh[x(b)] = Null
      BY <3>1, FreeIsFree, Zenon
    <3>3. r.m = [b.m EXCEPT !.sh = unFlattenClone(b.m.sh, x(b), n, b.d)]
      BY <2>5, <3>1, Zenon DEF Loaded, CacheType
    <3> HIDE DEF x
    <3>4. r.m.tab = b.m.tab /\ r.m.hash = b.m.hash
          /\ \A i \in Data : i # x(b) => r.m.sh[i] = b.m.sh[i]
      BY <3>1, <3>2, <3>3, Zenon DEF CacheType, unFlattenClone
    <3> QED
      BY <3>1, <3>2, <3>4, Zenon DEF Live
  <2>6. ASSUME NEW b \in createFromFile(m, Base[n], FALSE), b.d # Null, r \in Fails("table", u(b))
        PROVE  /\ r.m.tab = m.tab /\ r.m.hash = m.hash
               /\ \A i \in Live(m.sh) : r.m.sh[i] = m.sh[i]
    <3>1. /\ b.m \in CacheType /\ b.m.tab = m.tab /\ b.m.hash = m.hash /\ m.sh[b.d] = Null
          /\ b.d \in Data /\ b.m.sh[b.d] \in SharedData /\ b.m.sh[b.d].base = Null
          /\ \A i \in Data : i # b.d => b.m.sh[i] = m.sh[i]
      BY <1>1, <2>1, <2>6, Zenon
    <3>2. r.m = [b.m EXCEPT !.sh = ucnv_unload(b.m.sh, b.d)]
      BY <2>6, <3>1 DEF Fails, Loaded, CacheType
    <3>3. \A i \in Data : i # b.d => ucnv_unload(b.m.sh, b.d)[i] = b.m.sh[i]
      <4> DEFINE s == decrement(b.m.sh, b.d)
      <4>1. s[b.d].base = Null /\ \A i \in Data : i # b.d => s[i] = b.m.sh[i]
        BY <3>1, ZenonT(40) DEF decrement, CacheType, SharedData
      <4>2. s \in [Data -> SharedData \cup {Null}]
        BY <3>1 DEF decrement, CacheType, SharedData
      <4>3. \/ ucnv_unload(b.m.sh, b.d) = deleteSharedConverterData(s, b.d)
            \/ ucnv_unload(b.m.sh, b.d) = s
        BY <3>1, DataAssumption, Zenon DEF ucnv_unload
      <4> HIDE DEF s
      <4>4. deleteSharedConverterData(s, b.d) = [s EXCEPT ![b.d] = Null]
        BY <4>1, Zenon DEF deleteSharedConverterData
      <4> QED
        BY <3>1, <4>1, <4>2, <4>3, <4>4, ZenonT(40)
    <3>4. r.m.tab = b.m.tab /\ r.m.hash = b.m.hash /\ r.m.sh = ucnv_unload(b.m.sh, b.d)
      BY <3>1, <3>2, Zenon DEF CacheType
    <3> QED
      BY <3>1, <3>3, <3>4, Zenon DEF Live
  <2> HIDE DEF x, u
  <2> QED
    BY <2>2, <2>3, <2>4, <2>5, <2>6, ZenonT(40) DEF Fails, Loaded
<1> QED
  BY <1>2, <1>3, Zenon

\* ucnv_flushCache() takes an entry that nothing refers to out of the table and
\* deletes its shared data.
LEMMA FlushGood ==
    ASSUME NEW sh, NEW tab, NEW E, Good(sh, tab, E), NEW n \in Name, tab[n] # Null,
           NEW x, x = tab[n], sh[x].referenceCounter = 0
    PROVE  Good(deleteSharedConverterData(sh, x), [tab EXCEPT ![n] = Null], E)
<1> DEFINE s == [sh EXCEPT ![x].sharedDataCached = FALSE]
           k == [tab EXCEPT ![n] = Null]
<1>0. /\ sh \in [Data -> SharedData \cup {Null}] /\ E \in [Data -> Nat]
      /\ tab \in [Name -> Data \cup {Null}] /\ HasBase(sh) /\ Exact(sh, E) /\ Kept(sh, {})
      /\ x \in Live(sh) /\ x \in Data /\ sh[x] \in SharedData /\ sh[x].name = n /\ sh[x] # Null
  BY LiveHasFields, Zenon DEF Good, Core, Indexed
<1>1. /\ s \in [Data -> SharedData \cup {Null}] /\ s[x] \in SharedData
      /\ s[x].name = n /\ s[x].base = sh[x].base /\ ~s[x].sharedDataCached
      /\ s[x].referenceCounter = 0
      /\ \A y \in Data : y # x => s[y] = sh[y]
  <2> DEFINE no == FALSE
  <2>1. no \in BOOLEAN /\ ~no /\ s = [sh EXCEPT ![x].sharedDataCached = no]
    OBVIOUS
  <2> HIDE DEF no, s
  <2> QED
    BY <1>0, <2>1, Mark
<1>2. k \in [Name -> Data \cup {Null}] /\ k[n] = Null /\ \A m \in Name : m # n => k[m] = tab[m]
  BY <1>0, Zenon
<1>3. deleteSharedConverterData(sh, x) = deleteSharedConverterData(s, x)
  <2>1. [s EXCEPT ![x] = Null] = [sh EXCEPT ![x] = Null]
    <3> HIDE DEF s
    <3> QED
      BY <1>0, <1>1, Zenon
  <2>2. s[x].base = sh[x].base
    BY <1>1, Zenon
  <2> HIDE DEF s
  <2> QED
    BY <2>1, <2>2, Zenon DEF deleteSharedConverterData
<1> HIDE DEF s, k
<1>4. s[x] # Null /\ Live(s) = Live(sh)
  BY <1>0, <1>1, SharedDataAssumption, Zenon DEF Live
<1>5. \A z : Extensions(s, z) = Extensions(sh, z)
  <2>1. \A y \in Data : (s[y] = Null <=> sh[y] = Null) /\ (sh[y] # Null => s[y].base = sh[y].base)
    BY <1>0, <1>1, <1>4, ZenonT(40)
  <2> QED
    BY <2>1, SameExtensions, Zenon
<1>6. Exact(s, E)
  <2> SUFFICES ASSUME NEW y \in Data
               PROVE  IF s[y] = Null THEN E[y] = 0
                      ELSE s[y].referenceCounter = E[y] + Cardinality(Extensions(s, y))
    BY Zenon DEF Exact
  <2>1. IF sh[y] = Null THEN E[y] = 0 ELSE sh[y].referenceCounter = E[y] + Cardinality(Extensions(sh, y))
    BY <1>0, Zenon DEF Exact
  <2>2. CASE y = x
    BY <1>0, <1>1, <1>4, <1>5, <2>1, <2>2, Zenon
  <2>3. CASE y # x
    BY <1>1, <1>5, <2>1, <2>3, Zenon
  <2> QED
    BY <2>2, <2>3, Zenon
<1>7. HasBase(s)
  BY <1>0, <1>1, <1>4 DEF HasBase, Live
<1>8. Indexed(s, k)
  <2>1. ASSUME NEW m \in Name, k[m] # Null
        PROVE  k[m] \in Live(s) /\ s[k[m]].name = m
    <3>1. m # n /\ k[m] = tab[m] /\ tab[m] \in Live(sh) /\ sh[tab[m]].name = m
      BY <1>2, <2>1, Zenon DEF Good, Core, Indexed
    <3> QED
      BY <1>0, <1>1, <1>4, <3>1, Zenon DEF Live
  <2>2. ASSUME NEW y \in Live(s)
        PROVE  s[y].sharedDataCached <=> k[s[y].name] = y
    <3>1. CASE y = x
      BY <1>1, <1>2, <1>0, <3>1, DataAssumption, ZenonT(40)
    <3>2. CASE y # x
      <4>1. y \in Live(sh) /\ s[y] = sh[y] /\ sh[y].name \in Name /\ y # Null
            /\ (sh[y].sharedDataCached <=> tab[sh[y].name] = y)
        BY <1>0, <1>1, <1>4, <3>2, LiveHasFields, DataAssumption, SMTT(40) DEF Good, Core, Indexed, Live
      <4>2. CASE sh[y].name = n
        BY <1>2, <3>2, <4>1, <4>2, Zenon
      <4>3. CASE sh[y].name # n
        BY <1>2, <4>1, <4>3, Zenon
      <4> QED
        BY <4>2, <4>3, ZenonT(40)
    <3> QED
      BY <3>1, <3>2, Zenon
  <2> QED
    BY <2>1, <2>2, Zenon DEF Indexed
<1>9. Core(s, k, E)
  BY <1>0, <1>1, <1>2, <1>6, <1>7, <1>8, Zenon DEF Core
<1>10. Kept(s, {x})
  BY <1>0, <1>1, <1>4, Zenon DEF Kept, Live
<1>11. Good(deleteSharedConverterData(s, x), k, E)
  BY <1>0, <1>1, <1>4, <1>9, <1>10, DeleteGood, Zenon
<1> QED
  BY <1>3, <1>11, Zenon DEF k

\* Deleting x changes nothing else but its base table, and that only in its
\* count when it is in the cache.
LEMMA DeleteKeeps ==
    ASSUME NEW sh \in [Data -> SharedData \cup {Null}], HasBase(sh), NEW x \in Live(sh)
    PROVE  \A y \in Live(sh) \ {x} :
              LET s == deleteSharedConverterData(sh, x)
              IN  /\ y # sh[x].base => s[y] = sh[y]
                  /\ sh[y].sharedDataCached => s[y].base = sh[y].base
<1> SUFFICES ASSUME NEW y \in Live(sh), y # x
             PROVE  LET s == deleteSharedConverterData(sh, x)
                    IN  /\ y # sh[x].base => s[y] = sh[y]
                        /\ sh[y].sharedDataCached => s[y].base = sh[y].base
  OBVIOUS
<1> DEFINE b == sh[x].base
           r == [sh EXCEPT ![x] = Null]
           s == deleteSharedConverterData(sh, x)
<1>1. /\ x \in Data /\ y \in Data /\ sh[y] \in SharedData /\ b \in Data \cup {Null}
      /\ b # Null => b \in Live(sh)
  BY LiveHasFields, Zenon DEF HasBase
<1>2. r \in [Data -> SharedData \cup {Null}] /\ r[y] = sh[y]
  BY <1>1, Zenon
<1>3. CASE b = Null
  BY <1>2, <1>3, Zenon DEF deleteSharedConverterData
<1>4. CASE b # Null
  <2> DEFINE q == decrement(r, b)
  <2>1. s = unloadBase(r, b)
    BY <1>4, Zenon DEF deleteSharedConverterData
  <2>2. s = [q EXCEPT ![b] = Null] \/ s = q
    BY <2>1, Zenon DEF unloadBase
  <2>3. unused(q, b) \/ s = q
    BY <2>1, Zenon DEF unloadBase
  <2> HIDE DEF s, r
  <2>4. y # b => q[y] = r[y]
    BY <1>1, <1>2, Zenon DEF decrement
  <2>5. y = b => q[b].base = r[b].base /\ q[b].sharedDataCached = r[b].sharedDataCached
    BY <1>1, <1>2, Zenon DEF decrement, SharedData
  <2>6. DOMAIN q = Data
    BY <1>2, Zenon DEF decrement
  <2> HIDE DEF q
  <2>7. y # b => s[y] = sh[y]
    BY <1>1, <1>2, <2>2, <2>4, <2>6, Zenon
  <2>8. y = b /\ sh[y].sharedDataCached => s[y].base = sh[y].base
    BY <1>2, <2>3, <2>5, ZenonT(40) DEF unused
  <2> QED
    BY <2>7, <2>8, Zenon DEF s
<1> QED
  BY <1>3, <1>4, Zenon

-------------------------------------------------------------------------------
(* Counting references.                                                    *)

\* How many i in S have f[i] = x.
Count(f, S, x) == Cardinality({i \in S : f[i] = x})

\* g is f with b instead of a at i.
Changed(f, g, S, i, a, b) ==
    i \in S /\ f[i] = a /\ g[i] = b /\ \A j \in S : j # i => g[j] = f[j]

\* That takes one from the count of a and adds one to the count of b.
LEMMA CountUpdate ==
    ASSUME NEW S, IsFiniteSet(S), NEW f, NEW g, NEW i, NEW a, NEW v,
           Changed(f, g, S, i, a, v), NEW x
    PROVE  /\ Count(f, S, x) \in Nat /\ Count(g, S, x) \in Nat
           /\ a = x /\ v = x => Count(g, S, x) = Count(f, S, x)
           /\ a # x /\ v # x => Count(g, S, x) = Count(f, S, x)
           /\ a # x /\ v = x => Count(g, S, x) = Count(f, S, x) + 1
           /\ a = x /\ v # x => Count(g, S, x) = Count(f, S, x) - 1 /\ Count(f, S, x) > 0
<1> DEFINE A == {j \in S : f[j] = x}
           B == {j \in S : g[j] = x}
<1>1. IsFiniteSet(A) /\ IsFiniteSet(B)
  BY FS_Subset, Zenon
<1>2. Cardinality(A) \in Nat /\ Cardinality(B) \in Nat
  BY <1>1, FS_CardinalityType, Zenon
<1>3. Count(f, S, x) = Cardinality(A) /\ Count(g, S, x) = Cardinality(B)
  BY Zenon DEF Count
<1>4. a = x /\ v = x => B = A
  BY Zenon DEF Changed
<1>5. a # x /\ v # x => B = A
  BY Zenon DEF Changed
<1>6. a # x /\ v = x => B = A \cup {i} /\ i \notin A
  BY DEF Changed
<1>7. a = x /\ v # x => B = A \ {i} /\ i \in A
  BY Zenon DEF Changed
<1> HIDE DEF A, B
<1>8. a # x /\ v = x => Cardinality(B) = Cardinality(A) + 1
  BY <1>1, <1>6, FS_AddElement, Zenon
<1>9. a = x /\ v # x => Cardinality(B) = Cardinality(A) - 1
  BY <1>1, <1>7, FS_RemoveElement, Zenon
<1>10. a = x /\ v # x => Cardinality(A) # 0
  BY <1>1, <1>7, FS_EmptySet, Zenon
<1> QED
  BY <1>2, <1>3, <1>4, <1>5, <1>8, <1>9, <1>10, SMTT(40)

\* How a count p becomes q when one of the things counted changes from a to v.
Recounted(p, q, a, v, x) ==
    /\ a # x /\ v # x => q = p
    /\ a # x /\ v = x => q = p + 1
    /\ a = x /\ v # x => q = p - 1 /\ p > 0

\* CountUpdate in those terms.
LEMMA CountMoves ==
    ASSUME NEW S, IsFiniteSet(S), NEW f, NEW g, NEW i, NEW a, NEW v,
           Changed(f, g, S, i, a, v), NEW x
    PROVE  Recounted(Count(f, S, x), Count(g, S, x), a, v, x)
  BY CountUpdate DEF Recounted

\* One reference moves from a to b, either of which may be no shared data at all.
LEMMA Shift ==
    ASSUME NEW O \in [Data -> Nat], NEW N \in [Data -> Nat], NEW a, NEW b,
           \A x \in Data : /\ a # x /\ b # x => N[x] = O[x]
                           /\ a # x /\ b = x => N[x] = O[x] + 1
                           /\ a = x /\ b # x => N[x] = O[x] - 1 /\ O[x] > 0
    PROVE  /\ a \notin Data /\ b \notin Data => N = O
           /\ a \notin Data /\ b \in Data => N = Plus(O, b)
           /\ a \in Data /\ b \notin Data => N = Minus(O, a) /\ O[a] > 0
<1>1. ASSUME a \notin Data, b \notin Data
      PROVE  N = O
  <2>1. \A x \in Data : N[x] = O[x]
    BY <1>1, Zenon
  <2> QED
    BY <2>1
<1>2. ASSUME a \notin Data, b \in Data
      PROVE  N = Plus(O, b)
  <2>1. N[b] = O[b] + 1 /\ \A x \in Data : x # b => N[x] = O[x]
    BY <1>2, Zenon
  <2> QED
    BY <1>2, <2>1, Zenon DEF Plus
<1>3. ASSUME a \in Data, b \notin Data
      PROVE  N = Minus(O, a) /\ O[a] > 0
  <2>1. N[a] = O[a] - 1 /\ O[a] > 0 /\ \A x \in Data : x # a => N[x] = O[x]
    BY <1>3, Zenon
  <2> QED
    BY <1>3, <2>1, Zenon DEF Minus
<1> QED
  BY <1>1, <1>2, <1>3, Zenon

-------------------------------------------------------------------------------
\* The references from outside: the converters, and the threads that have loaded
\* shared data and not yet made a converter of it.
Out(f, g) == [x \in Data |-> Count(f, Cnv, x) + Count(g, Thread, x)]
Outside == Out(cnv, d)

Counted == GoodCache(Cache, Outside)

IInv == TypeOK /\ Counted /\ Locals /\ Owners /\ Flushing /\ CleaningUp

\* The references from outside are natural numbers.
LEMMA OutType ==
    ASSUME NEW f, NEW g
    PROVE  /\ Out(f, g) \in [Data -> Nat]
           /\ \A x \in Data : Out(f, g)[x] = Count(f, Cnv, x) + Count(g, Thread, x)
           /\ \A x : Count(f, Cnv, x) \in Nat /\ Count(g, Thread, x) \in Nat
<1>1. ASSUME NEW x
      PROVE  Count(f, Cnv, x) \in Nat /\ Count(g, Thread, x) \in Nat
  <2>1. IsFiniteSet({i \in Cnv : f[i] = x}) /\ IsFiniteSet({i \in Thread : g[i] = x})
    BY ConverterAssumption, FS_Subset, Zenon
  <2> QED
    BY <2>1, FS_CardinalityType, Zenon DEF Count
<1> QED
  BY <1>1 DEF Out

\* The shared data of a converter, or what a thread has loaded, changes from a to b.
OneChange(f, g, h, k, i, a, b) ==
    \/ Changed(f, h, Cnv, i, a, b) /\ k = g
    \/ Changed(g, k, Thread, i, a, b) /\ h = f

\* The references from outside, E and then F, change by that.
OutChanges(E, F, a, b) ==
    /\ a \notin Data /\ b \notin Data => F = E
    /\ a \notin Data /\ b \in Data => F = Plus(E, b)
    /\ a \in Data /\ b \notin Data => F = Minus(E, a) /\ E[a] > 0

LEMMA OutChange ==
    ASSUME NEW f, NEW g, NEW h, NEW k, NEW i, NEW a, NEW b, OneChange(f, g, h, k, i, a, b)
    PROVE  OutChanges(Out(f, g), Out(h, k), a, b)
<1> DEFINE O == Out(f, g)
           N == Out(h, k)
<1>1. O \in [Data -> Nat] /\ N \in [Data -> Nat]
  BY OutType, Zenon
<1>2. \A x \in Data :
             /\ a # x /\ b # x => N[x] = O[x]
             /\ a # x /\ b = x => N[x] = O[x] + 1
             /\ a = x /\ b # x => N[x] = O[x] - 1 /\ O[x] > 0
  <2> TAKE x \in Data
  <2>1. /\ O[x] = Count(f, Cnv, x) + Count(g, Thread, x)
        /\ N[x] = Count(h, Cnv, x) + Count(k, Thread, x)
        /\ Count(f, Cnv, x) \in Nat /\ Count(g, Thread, x) \in Nat
    BY OutType, Zenon
  <2>2. IsFiniteSet(Thread) /\ IsFiniteSet(Cnv)
    BY ConverterAssumption, Zenon
  <2> HIDE DEF O, N
  <2>5. /\ (Count(f, Cnv, x) + 1) + Count(g, Thread, x) = O[x] + 1
        /\ (Count(f, Cnv, x) - 1) + Count(g, Thread, x) = O[x] - 1
        /\ Count(f, Cnv, x) + (Count(g, Thread, x) + 1) = O[x] + 1
        /\ Count(f, Cnv, x) + (Count(g, Thread, x) - 1) = O[x] - 1
        /\ Count(f, Cnv, x) > 0 \/ Count(g, Thread, x) > 0 => O[x] > 0
    BY <2>1, PartChanges, ZenonT(40)
  <2>3. CASE Changed(f, h, Cnv, i, a, b) /\ k = g
    <3>1. Recounted(Count(f, Cnv, x), Count(h, Cnv, x), a, b, x)
      BY <2>2, <2>3, CountMoves, Zenon
    <3>2. a # x /\ b # x => N[x] = O[x]
      BY <2>1, <2>3, <3>1, ZenonT(40) DEF Recounted
    <3>3. a # x /\ b = x => N[x] = O[x] + 1
      BY <2>1, <2>3, <2>5, <3>1, ZenonT(40) DEF Recounted
    <3>4. a = x /\ b # x => N[x] = O[x] - 1 /\ O[x] > 0
      BY <2>1, <2>3, <2>5, <3>1, ZenonT(40) DEF Recounted
    <3> QED
      BY <3>2, <3>3, <3>4, Zenon
  <2>4. CASE Changed(g, k, Thread, i, a, b) /\ h = f
    <3>1. Recounted(Count(g, Thread, x), Count(k, Thread, x), a, b, x)
      BY <2>2, <2>4, CountMoves, Zenon
    <3>2. a # x /\ b # x => N[x] = O[x]
      BY <2>1, <2>4, <3>1, ZenonT(40) DEF Recounted
    <3>3. a # x /\ b = x => N[x] = O[x] + 1
      BY <2>1, <2>4, <2>5, <3>1, ZenonT(40) DEF Recounted
    <3>4. a = x /\ b # x => N[x] = O[x] - 1 /\ O[x] > 0
      BY <2>1, <2>4, <2>5, <3>1, ZenonT(40) DEF Recounted
    <3> QED
      BY <3>2, <3>3, <3>4, Zenon
  <2> QED
    BY <2>3, <2>4, Zenon DEF OneChange
<1> HIDE DEF O, N
<1>3. /\ a \notin Data /\ b \notin Data => N = O
      /\ a \notin Data /\ b \in Data => N = Plus(O, b)
      /\ a \in Data /\ b \notin Data => N = Minus(O, a) /\ O[a] > 0
  <2>1. a \notin Data /\ b \notin Data => N = O
    BY <1>1, <1>2, Shift, ZenonT(40)
  <2>2. a \notin Data /\ b \in Data => N = Plus(O, b)
    BY <1>1, <1>2, Shift, SMTT(40)
  <2>3. a \in Data /\ b \notin Data => N = Minus(O, a)
    BY <1>1, <1>2, Shift
  <2>4. a \in Data /\ b \notin Data => O[a] > 0
    BY <1>2, Zenon
  <2> QED
    BY <2>1, <2>2, <2>3, <2>4, Zenon
<1> QED
  BY <1>3, Zenon DEF OutChanges, O, N

\* So it is in the state, for a thread that loads or unloads shared data.
LEMMA ThreadRefers ==
    ASSUME NEW t, NEW a, NEW b, Changed(d, d', Thread, t, a, b), cnv' = cnv
    PROVE  /\ a \notin Data /\ b \notin Data => Outside' = Outside
           /\ a \notin Data /\ b \in Data => Outside' = Plus(Outside, b)
           /\ a \in Data /\ b \notin Data => Outside' = Minus(Outside, a) /\ Outside[a] > 0
<1>1. OneChange(cnv, d, cnv', d', t, a, b)
  BY Zenon DEF OneChange
<1>2. /\ a \notin Data /\ b \notin Data => Out(cnv', d') = Out(cnv, d)
      /\ a \notin Data /\ b \in Data => Out(cnv', d') = Plus(Out(cnv, d), b)
      /\ a \in Data /\ b \notin Data => Out(cnv', d') = Minus(Out(cnv, d), a) /\ Out(cnv, d)[a] > 0
  BY <1>1, OutChange DEF OutChanges
<1> QED
  BY <1>2, Zenon DEF Outside

\* And for a converter that is opened or closed.
LEMMA ConverterRefers ==
    ASSUME NEW y, NEW a, NEW b, Changed(cnv, cnv', Cnv, y, a, b), d' = d
    PROVE  /\ a \notin Data /\ b \notin Data => Outside' = Outside
           /\ a \notin Data /\ b \in Data => Outside' = Plus(Outside, b)
           /\ a \in Data /\ b \notin Data => Outside' = Minus(Outside, a) /\ Outside[a] > 0
<1>1. OneChange(cnv, d, cnv', d', y, a, b)
  BY Zenon DEF OneChange
<1>2. /\ a \notin Data /\ b \notin Data => Out(cnv', d') = Out(cnv, d)
      /\ a \notin Data /\ b \in Data => Out(cnv', d') = Plus(Out(cnv, d), b)
      /\ a \in Data /\ b \notin Data => Out(cnv', d') = Minus(Out(cnv, d), a) /\ Out(cnv, d)[a] > 0
  BY <1>1, OutChange DEF OutChanges
<1> QED
  BY <1>2, Zenon DEF Outside

-------------------------------------------------------------------------------
(* Each conjunct of the invariant is preserved.  First the counts.         *)

\* Counted, in terms of the variables.
LEMMA CountedIs ==
    Counted <=>
      /\ shared \in [Data -> SharedData \cup {Null}] /\ table \in [Name -> Data \cup {Null}]
      /\ hashtable \in BOOLEAN
      /\ Good(shared, table, Outside)
      /\ (\E n \in Name : table[n] # Null) => hashtable
BY Zenon DEF Counted, GoodCache, CacheType, Cache

\* Steps that change no shared data, no converter and nothing that is loaded.
LEMMA CountedStays ==
    ASSUME Counted, UNCHANGED <<shared, table, hashtable, cnv, d>>
    PROVE  Counted'
BY Zenon DEF Counted, GoodCache, CacheType, Cache, Outside

\* What a thread or a converter refers to is live.
LEMMA HeldIsLive ==
    ASSUME Counted, NEW x \in Data,
           \/ \E y \in Cnv : cnv[y] = x
           \/ \E t \in Thread : d[t] = x
    PROVE  x \in Live(shared)
<1>1. Outside[x] = Count(cnv, Cnv, x) + Count(d, Thread, x)
      /\ Count(cnv, Cnv, x) \in Nat /\ Count(d, Thread, x) \in Nat
  BY OutType, Zenon DEF Outside
<1>2. Count(cnv, Cnv, x) # 0 \/ Count(d, Thread, x) # 0
  <2>1. IsFiniteSet({i \in Cnv : cnv[i] = x}) /\ IsFiniteSet({i \in Thread : d[i] = x})
    BY ConverterAssumption, FS_Subset, Zenon
  <2>2. {i \in Cnv : cnv[i] = x} # {} \/ {i \in Thread : d[i] = x} # {}
    OBVIOUS
  <2> QED
    BY <2>1, <2>2, FS_EmptySet, Zenon DEF Count
<1>3. Outside[x] # 0
  BY <1>1, <1>2
<1> QED
  BY <1>3, Zenon DEF Counted, GoodCache, Good, Core, Exact, Live, Cache

\* Loading, with whatever result, by a thread that has nothing loaded.
LEMMA LoadCounted ==
    ASSUME TypeOK, Counted, Locals, NEW t \in Thread, Load(t)
    PROVE  Counted' /\ \E x \in Data \cup {Null} : d' = [d EXCEPT ![t] = x]
<1>1. PICK r : /\ r \in {Loaded(Cache, Null)} \/ (\E n \in Name : r \in loadFromPackage(Cache, n))
                  \/ (\E n \in Name : \E test : r \in ucnv_load(Cache, n, test))
               /\ shared' = r.m.sh /\ table' = r.m.tab /\ hashtable' = r.m.hash
               /\ d' = [d EXCEPT ![t] = r.d]
  BY Zenon DEF Load
<1>2. PICK x, y \in Data : x # y /\ Cache.sh[x] = Null /\ Cache.sh[y] = Null
  BY Zenon DEF Load, Cache
<1>3. GoodCache(Cache, Outside)
  BY Zenon DEF Counted
<1>4. Gains(r, Outside)
  <2>1. CASE r \in {Loaded(Cache, Null)}
    BY <1>3, <2>1 DEF Loaded, Gains
  <2>2. CASE \E n \in Name : r \in loadFromPackage(Cache, n)
    BY <1>2, <1>3, <2>2, PackageGood, ZenonT(40)
  <2>3. CASE \E n \in Name : \E test : r \in ucnv_load(Cache, n, test)
    BY <1>2, <1>3, <2>3, LoadGood, ZenonT(40)
  <2> QED
    BY <1>1, <2>1, <2>2, <2>3, ZenonT(40)
<1>5. cnv' = cnv /\ d[t] = Null /\ Null \notin Data /\ d \in [Thread -> Data \cup {Static, Null}]
  BY DataAssumption, Zenon DEF Load, Locals, TypeOK, cnv_vars
<1>6. Changed(d, d', Thread, t, Null, r.d)
  BY <1>1, <1>5, Zenon DEF Changed
<1>7. /\ r.d = Null => Outside' = Outside
      /\ r.d # Null => Outside' = Plus(Outside, r.d)
  <2>1. r.d \in Data \cup {Null}
    BY <1>4, Zenon DEF Gains
  <2> QED
    BY <1>5, <1>6, <2>1, ThreadRefers, Zenon
<1>8. GoodCache(r.m, Outside')
  BY <1>4, <1>7, Zenon DEF Gains
<1>9. Counted'
  BY <1>1, <1>8, Zenon DEF Counted, GoodCache, CacheType, Cache
<1> QED
  BY <1>1, <1>4, <1>9, Zenon DEF Gains

\* An element of the iteration is in the table.
LEMMA FlushCounted ==
    ASSUME TypeOK, Counted, Flushing, NEW t \in Thread, NEW n \in Name, FlushElement(t, n)
    PROVE  Counted'
<1>1. table[n] # Null
  BY ConverterAssumption, Zenon DEF FlushElement, Flushing, cached
<1>2. UNCHANGED <<cnv, d, hashtable>> /\ Outside' = Outside
  BY Zenon DEF FlushElement, cnv_vars, local_vars, Outside
<1>3. CASE shared[table[n]].referenceCounter = 0
  <2>1. shared' = deleteSharedConverterData(shared, table[n]) /\ table' = [table EXCEPT ![n] = Null]
    BY <1>3, Zenon DEF FlushElement
  <2>2. Good(shared', table', Outside)
    BY <1>1, <1>3, <2>1, FlushGood, CountedIs, Zenon
  <2>3. (\E m \in Name : table'[m] # Null) => hashtable
    BY <2>1, CountedIs, Zenon DEF TypeOK
  <2> QED
    BY <1>2, <2>2, <2>3, ZenonT(40) DEF Counted, GoodCache, CacheType, Cache, Good, Core, TypeOK
<1>4. CASE shared[table[n]].referenceCounter # 0
  BY <1>2, <1>4, CountedStays, Zenon DEF FlushElement
<1> QED
  BY <1>3, <1>4, Zenon

\* Shared data of an open converter, or that a thread holds, is unloaded.
LEMMA UnloadCounted ==
    ASSUME Counted, UNCHANGED <<table, hashtable>>, NEW x \in Data \cup {Static},
           shared' = ucnv_unload(shared, x),
           x = Static => Outside' = Outside,
           x \in Data => Outside' = Minus(Outside, x) /\ Outside[x] > 0
    PROVE  Counted'
<1>1. CASE x = Static
  <2>1. shared' = shared
    BY <1>1, Zenon DEF ucnv_unload
  <2> QED
    BY <1>1, <2>1, Zenon DEF Counted, GoodCache, CacheType, Cache
<1>2. CASE x \in Data
  <2>1. x \in Live(shared)
    BY <1>2 DEF Counted, GoodCache, Good, Core, Exact, Live, Cache
  <2>2. Good(shared', table, Outside')
    BY <1>2, <2>1, UnloadGood, CountedIs, Zenon
  <2> QED
    BY <2>2, CountedIs, ZenonT(40) DEF Counted, GoodCache, CacheType, Cache, Good, Core
<1> QED
  BY <1>1, <1>2, Zenon

\* A converter takes over the reference of the thread that creates it.
LEMMA CreateCounted ==
    ASSUME TypeOK, Counted, NEW t \in Thread, Create(t)
    PROVE  Counted'
<1> DEFINE v == d[t]
           y == unusedCnv
<1>1. y \in Cnv /\ cnv[y] = Null
  BY Zenon DEF Create, unusedCnv
<1>2. /\ cnv' = [cnv EXCEPT ![y] = v] /\ d' = [d EXCEPT ![t] = Null]
      /\ UNCHANGED <<shared, table, hashtable>>
  BY Zenon DEF Create, table_vars
<1>3. v \in Data \cup {Static, Null} /\ Null \notin Data /\ Static \notin Data
  BY DataAssumption, Zenon DEF TypeOK
<1>4. OneChange(cnv, d, cnv', d, y, Null, v)
  BY <1>1, <1>2, Zenon DEF OneChange, Changed, TypeOK
<1>5. OneChange(cnv', d, cnv', d', t, v, Null)
  BY <1>2, Zenon DEF OneChange, Changed, TypeOK
<1> HIDE DEF v, y
<1>6. CASE v \notin Data
  <2>1. Out(cnv', d) = Out(cnv, d)
    <3>1. OutChanges(Out(cnv, d), Out(cnv', d), Null, v)
      BY <1>4, OutChange, Zenon
    <3> QED
      BY <1>3, <1>6, <3>1, Zenon DEF OutChanges
  <2>2. Out(cnv', d') = Out(cnv', d)
    <3>1. OutChanges(Out(cnv', d), Out(cnv', d'), v, Null)
      BY <1>5, OutChange, Zenon
    <3> QED
      BY <1>3, <1>6, <3>1, Zenon DEF OutChanges
  <2> QED
    BY <1>2, <2>1, <2>2, ZenonT(40) DEF Counted, GoodCache, CacheType, Cache, Outside
<1>7. CASE v \in Data
  <2>1. Out(cnv', d) = Plus(Out(cnv, d), v)
    <3>1. OutChanges(Out(cnv, d), Out(cnv', d), Null, v)
      BY <1>4, OutChange, Zenon
    <3> QED
      BY <1>3, <1>7, <3>1, ZenonT(40) DEF OutChanges
  <2>2. Out(cnv', d') = Minus(Out(cnv', d), v)
    <3>1. OutChanges(Out(cnv', d), Out(cnv', d'), v, Null)
      BY <1>5, OutChange, Zenon
    <3> QED
      BY <1>3, <1>7, <3>1, ZenonT(40) DEF OutChanges
  <2>3. Minus(Plus(Out(cnv, d), v), v) = Out(cnv, d)
    BY <1>7, OutType, PlusMinus, Zenon
  <2> QED
    BY <1>2, <2>1, <2>2, <2>3, ZenonT(40) DEF Counted, GoodCache, CacheType, Cache, Outside
<1> QED
  BY <1>6, <1>7, Zenon

\* Cloning counts the new converter.
LEMMA CloneCounted ==
    ASSUME TypeOK, Counted, Owners, NEW t \in Thread, NEW x \in Cnv, Clone(t, x)
    PROVE  Counted'
<1> DEFINE v == cnv[x]
           y == unusedCnv
<1>1. y \in Cnv /\ cnv[y] = Null
  BY ZenonT(40) DEF Clone, unusedCnv
<1>2. v \in Data \cup {Static} /\ Null \notin Data /\ Static \notin Data
  <2>1. x \in mine[t] /\ cnv[x] \in Data \cup {Static, Null}
    BY Zenon DEF Clone, TypeOK
  <2>2. cnv[x] # Null
    BY <2>1, Zenon DEF Owners, OwnersOf, Owned
  <2> QED
    BY <2>1, <2>2, DataAssumption, Zenon
<1>3. /\ cnv' = [cnv EXCEPT ![y] = v] /\ d' = d /\ UNCHANGED <<table, hashtable>>
      /\ shared' = incrementRefCount(shared, v)
  BY Zenon DEF Clone, table_vars
<1>4. Changed(cnv, cnv', Cnv, y, Null, v)
  BY <1>1, <1>3, Zenon DEF Changed, TypeOK
<1>5. v \in Data => v \in Live(shared)
  BY HeldIsLive, Zenon
<1> HIDE DEF v, y
<1>6. CASE v = Static
  <2>1. shared' = shared
    BY <1>3, <1>6, Zenon DEF incrementRefCount
  <2>2. Outside' = Outside
    BY <1>2, <1>3, <1>4, <1>6, ConverterRefers, ZenonT(40)
  <2> QED
    BY <1>3, <2>1, <2>2, Zenon DEF Counted, GoodCache, CacheType, Cache
<1>7. CASE v \in Data
  <2>1. Outside' = Plus(Outside, v)
    BY <1>2, <1>3, <1>4, <1>7, ConverterRefers, ZenonT(40)
  <2>2. Good(shared', table, Outside')
    BY <1>3, <1>5, <1>7, <2>1, IncrementGood, CountedIs, ZenonT(40)
  <2> QED
    BY <1>3, <2>2, CountedIs, Zenon DEF Counted, GoodCache, CacheType, Cache, Good, Core
<1> QED
  BY <1>2, <1>6, <1>7, Zenon

\* Every step keeps the counts exact.
LEMMA CountedNext ==
    ASSUME TypeOK, Counted, Locals, Owners, Flushing, [Next]_vars
    PROVE  Counted'
<1>1. ASSUME NEW t \in Thread, NEW n \in Name, Open(t, n)
      PROVE  Counted'
  BY <1>1, CountedStays, Zenon DEF Open, table_vars, cnv_vars
<1>2. ASSUME NEW t \in Thread, NEW n \in Name, FlushElement(t, n)
      PROVE  Counted'
  BY <1>2, FlushCounted, Zenon
<1>3. ASSUME NEW t \in Thread, NEW x \in Cnv, Release(t, x) \/ Close(t, x)
      PROVE  Counted'
  BY <1>3, CountedStays, Zenon DEF Release, Close, table_vars, cnv_vars
<1>4. ASSUME NEW t \in Thread, NEW x \in Cnv, Clone(t, x)
      PROVE  Counted'
  BY <1>4, CloneCounted, Zenon
<1>5. ASSUME NEW t \in Thread, OpenDefault(t) \/ GetDefault(t) \/ BeginCleanup(t)
      PROVE  Counted'
  BY <1>5, CountedStays, Zenon DEF OpenDefault, GetDefault, BeginCleanup, table_vars, cnv_vars
<1>6. ASSUME NEW t \in Thread, Take(t) \/ Put(t) \/ GetDefaultName(t) \/ InternalSetName(t)
      PROVE  Counted'
  BY <1>6, CountedStays, Zenon DEF Take, Put, GetDefaultName, InternalSetName, table_vars, cnv_vars
<1>7. ASSUME NEW t \in Thread, Algorithmic(t)
      PROVE  Counted'
  <2>1. UNCHANGED <<shared, table, hashtable, cnv>> /\ (d' = d \/ d' = [d EXCEPT ![t] = Static])
    BY <1>7, Zenon DEF Algorithmic, table_vars, cnv_vars
  <2>2. CASE d' = d
    BY <2>1, <2>2, CountedStays, Zenon
  <2>3. CASE d' = [d EXCEPT ![t] = Static]
    <3>1. Changed(d, d', Thread, t, Null, Static)
      BY <1>7, <2>3, ZenonT(40) DEF Changed, Locals, TypeOK, Algorithmic
    <3>2. Outside' = Outside
      BY <2>1, <3>1, ThreadRefers, DataAssumption, ZenonT(40)
    <3> QED
      BY <2>1, <3>2, Zenon DEF Counted, GoodCache, CacheType, Cache
  <2> QED
    BY <2>1, <2>2, <2>3, Zenon
<1>8. ASSUME NEW t \in Thread, Load(t)
      PROVE  Counted'
  BY <1>8, LoadCounted, Zenon
<1>9. ASSUME NEW t \in Thread, Create(t)
      PROVE  Counted'
  BY <1>9, CreateCounted, Zenon
<1>10. ASSUME NEW t \in Thread, Unload(t)
       PROVE  Counted'
  <2>1. d[t] \in Data \cup {Static} /\ Null \notin Data /\ Static \notin Data
    BY <1>10, DataAssumption DEF Unload, Locals, TypeOK
  <2>2. Changed(d, d', Thread, t, d[t], Null) /\ cnv' = cnv
    BY <1>10, Zenon DEF Unload, Changed, TypeOK, cnv_vars
  <2>3. /\ d[t] = Static => Outside' = Outside
        /\ d[t] \in Data => Outside' = Minus(Outside, d[t]) /\ Outside[d[t]] > 0
    BY <2>1, <2>2, ThreadRefers, Zenon
  <2> QED
    BY <1>10, <2>1, <2>3, UnloadCounted, ZenonT(40) DEF Unload, table_vars
<1>11. ASSUME NEW t \in Thread, CloseConverter(t)
       PROVE  Counted'
  <2>1. c[t] \in Cnv /\ Null \notin Data /\ Static \notin Data
    <3>1. c[t] # Null /\ c[t] \in Cnv \cup {Null}
      BY <1>11, ZenonT(40) DEF CloseConverter, Locals, TypeOK
    <3> QED
      BY <3>1, DataAssumption, Zenon
  <2>2. cnv[c[t]] \in Data \cup {Static}
    BY <2>1 DEF Owners, OwnersOf, Owned, TypeOK
  <2>3. Changed(cnv, cnv', Cnv, c[t], cnv[c[t]], Null) /\ d' = d
    BY <1>11, <2>1, Zenon DEF CloseConverter, Changed, TypeOK
  <2>4. /\ cnv[c[t]] = Static => Outside' = Outside
        /\ cnv[c[t]] \in Data => Outside' = Minus(Outside, cnv[c[t]]) /\ Outside[cnv[c[t]]] > 0
    BY <2>1, <2>2, <2>3, ConverterRefers, Zenon
  <2> QED
    BY <1>11, <2>2, <2>4, UnloadCounted, ZenonT(40) DEF CloseConverter, table_vars
<1>12. ASSUME NEW t \in Thread, CheckTable(t) \/ FlushLock(t) \/ FlushPassEnd(t)
       PROVE  Counted'
  BY <1>12, CountedStays, Zenon DEF CheckTable, FlushLock, FlushPassEnd, table_vars, cnv_vars
<1>13. ASSUME NEW t \in Thread, EndCleanup(t)
       PROVE  Counted'
  <2>1. UNCHANGED <<shared, table, cnv, d>> /\ hashtable' = (hashtable /\ cached # {})
    BY <1>13, Zenon DEF EndCleanup, cnv_vars
  <2>2. (\E n \in Name : table[n] # Null) => hashtable'
    BY <2>1, CountedIs, Zenon DEF cached
  <2>3. hashtable' \in BOOLEAN
    BY <2>1, Zenon
  <2>4. Outside' = Outside
    BY <2>1, Zenon DEF Outside
  <2> QED
    BY <2>1, <2>2, <2>3, <2>4, ZenonT(40) DEF Counted, GoodCache, CacheType, Cache
<1>14. CASE UNCHANGED vars
  BY <1>14, CountedStays, Zenon DEF vars, table_vars, cnv_vars, local_vars
<1> QED
  BY <1>1, <1>2, <1>3, <1>4, <1>5, <1>6, <1>7, <1>8, <1>9, <1>10, <1>11, <1>12, <1>13, <1>14, ZenonT(40) DEF Next

-------------------------------------------------------------------------------
(* The flush and the cleanup.                                              *)

\* The iteration of ucnv_flushCache(): one element.
LEMMA FlushingElement ==
    ASSUME TypeOK, Counted, Flushing, NEW t \in Thread, NEW n \in Name, FlushElement(t, n)
    PROVE  Flushing'
<1> DEFINE x == table[n]
<1>1. /\ cnvCacheMutex = t /\ t # Null /\ n \in cached /\ n \in pending
      /\ pending' = pending \ {n} /\ UNCHANGED <<cnvCacheMutex, pass, at>>
      /\ pending \subseteq cached
  BY ConverterAssumption, Zenon DEF FlushElement, Flushing, local_vars
<1>2. \A u \in Thread : at'[u] = "flush" <=> cnvCacheMutex' = u
  BY <1>1, Zenon DEF Flushing
<1>3. /\ shared \in [Data -> SharedData \cup {Null}] /\ table \in [Name -> Data \cup {Null}]
      /\ HasBase(shared) /\ Indexed(shared, table)
      /\ x \in Live(shared) /\ shared[x].name = n
  BY <1>1, CountedIs, Zenon DEF Good, Core, Indexed, cached
<1>4. shared[x].referenceCounter \in Nat /\ x \in Data
  BY <1>3, LiveHasFields, Zenon
<1>5. CASE shared[x].referenceCounter # 0
  <2>1. UNCHANGED <<shared, table>>
    BY <1>5, ZenonT(40) DEF FlushElement
  <2>2. \A k \in cached' :
           \/ pass' = 1 /\ (k \notin pending' \/ shared'[table'[k]].base # Null)
           \/ pass' = 0 /\ k \notin pending' /\ shared'[table'[k]].base # Null
           => shared'[table'[k]].referenceCounter > 0
    BY <1>1, <1>4, <1>5, <2>1, SMTT(40) DEF Flushing, cached
  <2> QED
    BY <1>1, <1>2, <2>1, <2>2, ZenonT(40) DEF Flushing, cached
<1>6. CASE shared[x].referenceCounter = 0
  <2>1. /\ shared' = deleteSharedConverterData(shared, x) /\ table' = [table EXCEPT ![n] = Null]
    BY <1>6, Zenon DEF FlushElement
  <2>2. cached' = cached \ {n} /\ \A k \in cached' : table'[k] = table[k] /\ k # n
    BY <1>3, <2>1, Zenon DEF cached
  <2>3. ASSUME NEW k \in cached',
               \/ pass' = 1 /\ (k \notin pending' \/ shared'[table'[k]].base # Null)
               \/ pass' = 0 /\ k \notin pending' /\ shared'[table'[k]].base # Null
        PROVE  shared'[table'[k]].referenceCounter > 0
    <3> DEFINE y == table[k]
    <3>1. k \in cached /\ k # n /\ table'[k] = y /\ k \in Name
      BY <2>2, Zenon DEF cached
    <3>2. y \in Live(shared) /\ shared[y].name = k /\ y # x /\ shared[y].sharedDataCached
      BY <1>3, <3>1, ZenonT(40) DEF Indexed, cached
    <3>3. /\ y # shared[x].base => shared'[y] = shared[y]
          /\ shared'[y].base = shared[y].base
      BY <1>3, <2>1, <3>2, DeleteKeeps
    <3>4. CASE y = shared[x].base
      <4>1. shared[x].base # Null
        BY <3>2, <3>4, DataAssumption, ZenonT(40) DEF Live
      <4>2. pass # 1
        <5>1. pass = 1 => shared[x].referenceCounter > 0
          BY <1>1, <4>1, Zenon DEF Flushing
        <5> QED
          BY <1>6, <5>1, ZeroIsLeast, Zenon
      <4>3. shared[y].base = Null
        BY <1>3, <3>4, <4>1, BaseIsPlain, SMTT(20)
      <4> QED
        BY <1>1, <2>3, <3>1, <3>3, <4>2, <4>3, ZenonT(40)
    <3>5. CASE y # shared[x].base
      BY <1>1, <2>3, <3>1, <3>3, <3>5, ZenonT(40) DEF Flushing
    <3> QED
      BY <3>4, <3>5, Zenon
  <2>4. pending' \subseteq cached'
    BY <1>1, <2>2, Zenon
  <2> QED
    BY <1>2, <2>3, <2>4, Zenon DEF Flushing
<1> QED
  BY <1>5, <1>6, ZenonT(40)


\* Loading while another thread flushes: only from a package, which leaves what
\* is in the table alone.
LEMMA FlushingLoad ==
    ASSUME TypeOK, Counted, Flushing, NEW t \in Thread, Load(t)
    PROVE  Flushing'
<1>1. /\ at[t] \in {"load", "probe"} /\ (op[t] = "package" \/ cnvCacheMutex = Null)
      /\ UNCHANGED <<cnvCacheMutex, pending, pass>>
  BY Zenon DEF Load, flush_vars
<1>2. \E p : p # "flush" /\ at' = [at EXCEPT ![t] = p]
  BY Zenon DEF Load, continue, goto
<1>3. \A u \in Thread : at'[u] = "flush" <=> cnvCacheMutex' = u
  BY <1>1, <1>2, OutsideLoop, Zenon
<1>4. CASE cnvCacheMutex = Null
  BY <1>1, <1>3, <1>4, Zenon DEF Flushing
<1>5. CASE op[t] = "package"
  <2>1. \/ UNCHANGED <<shared, table>>
        \/ \E n \in Name : \E r \in loadFromPackage(Cache, n) : shared' = r.m.sh /\ table' = r.m.tab
    BY <1>5 DEF Load, Loaded, Cache
  <2>2. PICK x, y \in Data : x # y /\ Cache.sh[x] = Null /\ Cache.sh[y] = Null
    BY DEF Load, Cache
  <2>3. GoodCache(Cache, Outside) /\ Cache.sh = shared /\ Cache.tab = table
    BY ZenonT(40) DEF Counted, Cache
  <2>4. table' = table /\ \A z \in Live(shared) : shared'[z] = shared[z]
    BY <2>1, <2>2, <2>3, PackageKeeps, SMTT(40)
  <2>5. \A n \in Name : table[n] # Null => table[n] \in Live(shared)
    BY CountedIs, Zenon DEF Good, Core, Indexed
  <2>6. cached' = cached /\ \A n \in cached : shared'[table'[n]] = shared[table[n]]
    BY <2>4, <2>5, Zenon DEF cached
  <2> QED
    BY <1>1, <1>3, <2>6, Zenon DEF Flushing
<1> QED
  BY <1>1, <1>4, <1>5, Zenon

\* What is cached being in use, everything is.
LEMMA CachedUsed ==
    ASSUME Counted, \A n \in cached : shared[table[n]].referenceCounter > 0
    PROVE  AllUsed
<1> SUFFICES ASSUME NEW x \in Live(shared)
             PROVE  shared[x].referenceCounter > 0
  BY Zenon DEF AllUsed, live, Live
<1>1. /\ shared \in [Data -> SharedData \cup {Null}] /\ Indexed(shared, table)
      /\ shared[x].referenceCounter > 0 \/ shared[x].sharedDataCached
  BY CountedIs, Zenon DEF Good, Core, Kept
<1>2. shared[x].name \in Name /\ x # Null
  BY <1>1, LiveHasFields, DataAssumption, ZenonT(40) DEF Live
<1>3. shared[x].sharedDataCached => shared[x].name \in cached /\ table[shared[x].name] = x
  BY <1>1, <1>2, Zenon DEF Indexed, cached
<1> QED
  BY <1>1, <1>3, Zenon

\* When ucnv_flushCache() leaves its loop, everything is in use.
LEMMA FlushLeavesUsed ==
    ASSUME TypeOK, Counted, Flushing, NEW t \in Thread, FlushPassEnd(t),
           ~(pass = 0 /\ cached # {})
    PROVE  AllUsed
<1>1. cnvCacheMutex # Null /\ pending = {}
  BY ConverterAssumption, Zenon DEF FlushPassEnd, Flushing
<1>2. \A n \in cached : shared[table[n]].referenceCounter > 0
  BY <1>1, Zenon DEF Flushing, TypeOK
<1> QED
  BY <1>2, CachedUsed, Zenon

-------------------------------------------------------------------------------
(* The theorems.                                                           *)

\* Nothing is loaded and nothing is open at first.
LEMMA InitIInv == Init => IInv
<1> SUFFICES ASSUME Init PROVE IInv
  OBVIOUS
<1>1. TypeOK
  <2>1. budget \in 0..MaxCalls
    BY ConverterAssumption DEF Init
  <2>2. at \in [Thread -> Pc] /\ op \in [Thread -> AllClients \cup {"none", "release", "close", "cleanup"}]
    BY Zenon DEF Init, Pc
  <2>3. mine \in [Thread -> SUBSET Cnv] /\ borrowed \in [Thread -> SUBSET Cnv]
    BY Zenon DEF Init
  <2> QED
    BY <2>1, <2>2, <2>3, ZenonT(40) DEF Init, TypeOK
<1>2. Counted
  <2>1. \A x \in Data : Count(cnv, Cnv, x) = 0 /\ Count(d, Thread, x) = 0
    <3>1. ASSUME NEW x \in Data
          PROVE  {y \in Cnv : cnv[y] = x} = {} /\ {t \in Thread : d[t] = x} = {}
      BY <3>1, DataAssumption, ZenonT(40) DEF Init
    <3> QED
      BY <3>1, FS_EmptySet, Zenon DEF Count
  <2>2. Outside \in [Data -> Nat] /\ \A x \in Data : Outside[x] = 0
    BY <2>1, OutType DEF Outside
  <2>3. Live(shared) = {}
    BY Zenon DEF Init, Live
  <2>4. Exact(shared, Outside)
    BY <2>2, Zenon DEF Exact, Init
  <2>5. HasBase(shared) /\ Kept(shared, {})
    BY <2>3, Zenon DEF HasBase, Kept
  <2>6. Indexed(shared, table)
    BY <2>3, Zenon DEF Indexed, Init
  <2>7. shared \in [Data -> SharedData \cup {Null}] /\ table \in [Name -> Data \cup {Null}]
        /\ hashtable \in BOOLEAN
    BY Zenon DEF Init
  <2> QED
    BY <2>2, <2>4, <2>5, <2>6, <2>7, CountedIs, ZenonT(40) DEF Good, Core, Init
<1>3. Locals
  BY Zenon DEF Init, Locals
<1>4. Owners
  BY ConverterAssumption, Zenon DEF Init, Owners, OwnersOf, Owned, OwnedOnce
<1>5. Flushing
  BY ConverterAssumption, Zenon DEF Init, Flushing
<1>6. CleaningUp
  BY Zenon DEF Init, CleaningUp
<1> QED
  BY <1>1, <1>2, <1>3, <1>4, <1>5, <1>6, ZenonT(40) DEF IInv

\* The inductive invariant: exact counts, where the threads hold references and
\* converters, who owns them, and how far a flush has come.
THEOREM Inductive == Spec => []IInv
<1>1. Init => IInv
  BY InitIInv, Zenon
<1>2. IInv /\ [Next]_vars => IInv'
  <2> SUFFICES ASSUME IInv, [Next]_vars PROVE IInv'
    OBVIOUS
  <2> USE DEF IInv
  <2>1. Counted'
    BY CountedNext, Zenon
  <2>2. TypeOK'
    <3>1. /\ shared' \in [Data -> SharedData \cup {Null}]
          /\ hashtable' \in BOOLEAN /\ table' \in [Name -> Data \cup {Null}]
      BY <2>1, Zenon DEF Counted, GoodCache, CacheType, Cache
    <3>2. \A t \in Thread : Load(t) => d' \in [Thread -> Data \cup {Static, Null}]
      BY LoadCounted, Zenon DEF TypeOK
    <3> QED
      BY <3>1, <3>2, TypeNext, Zenon
  <2>3. Locals'
    BY LocalsNext, Zenon
  <2>4. Owners'
    BY OwnersNext, Zenon
  <2>5. Flushing'
    <3>1. CASE \E t \in Thread, n \in Name : FlushElement(t, n)
      BY <3>1, FlushingElement, Zenon
    <3>2. CASE \E t \in Thread : Load(t)
      BY <3>2, FlushingLoad, Zenon
    <3>3. CASE /\ \A t \in Thread, n \in Name : ~FlushElement(t, n)
               /\ \A t \in Thread : ~Load(t)
      BY <3>3, FlushingNext, Zenon
    <3> QED
      BY <3>1, <3>2, <3>3, Zenon
  <2>6. CleaningUp'
    <3>1. ~hashtable => AllUsed
      BY CountedIs, CachedUsed, Zenon DEF cached
    <3>2. \A t \in Thread : FlushPassEnd(t) /\ ~(pass = 0 /\ cached # {}) => AllUsed
      BY FlushLeavesUsed, Zenon
    <3> QED
      BY <3>1, <3>2, CleaningUpNext, Zenon
  <2> QED
    BY <2>1, <2>2, <2>3, <2>4, <2>5, <2>6, ZenonT(40)
<1> QED
  BY <1>1, <1>2, PTL DEF Spec

\* However opens, clones, closes, failed loads and flushes interleave,
\* referenceCounter is the number of converters, converters being created and
\* extension tables that use the shared data.
THEOREM CountsAreExact == Spec => []RefCountsExact
<1>1. IInv => RefCountsExact
  <2> SUFFICES ASSUME Counted, NEW x \in Data, live(x)
               PROVE  shared[x].referenceCounter =
                         Cardinality({y \in Cnv : cnv[y] = x}) + Cardinality({t \in Thread : d[t] = x})
                         + Cardinality({y \in Data : live(y) /\ shared[y].base = x})
    BY Zenon DEF IInv, RefCountsExact
  <2>1. shared[x].referenceCounter = Outside[x] + Cardinality(Extensions(shared, x))
    BY CountedIs, Zenon DEF Good, Core, Exact, live
  <2>2. Outside[x] = Count(cnv, Cnv, x) + Count(d, Thread, x)
    BY OutType, Zenon DEF Outside
  <2>3. Extensions(shared, x) = {y \in Data : live(y) /\ shared[y].base = x}
    BY Zenon DEF Extensions, live
  <2> QED
    BY <2>1, <2>2, <2>3, Zenon DEF Count
<1> QED
  BY <1>1, Inductive, PTL

\* Shared data is never freed while a converter, a thread, an extension table or
\* the cache refers to it, and what nobody uses is in the cache, where a flush
\* finds it (ucnv_unload() and ucnv_deleteSharedConverterData()).
THEOREM SharedDataAlwaysLives == Spec => []SharedDataLives
<1>1. IInv => NothingDangles
  <2> SUFFICES ASSUME Counted PROVE NothingDangles
    BY Zenon DEF IInv
  <2>1. \A x \in Data : live(x) <=> x \in Live(shared)
    BY Zenon DEF live, Live
  <2>2. /\ \A y \in Cnv : cnv[y] \in Data => live(cnv[y])
        /\ \A t \in Thread : d[t] \in Data => live(d[t])
    BY <2>1, HeldIsLive, Zenon
  <2>3. HasBase(shared) /\ Indexed(shared, table)
    BY CountedIs, Zenon DEF Good, Core
  <2>4. \A x \in Data : live(x) /\ shared[x].base # Null => live(shared[x].base)
    BY <2>3, Zenon DEF HasBase, live, Live
  <2>5. \A n \in Name : table[n] # Null => live(table[n]) /\ shared[table[n]].name = n
    BY <2>3, Zenon DEF Indexed, live, Live
  <2> QED
    BY <2>2, <2>4, <2>5, Zenon DEF NothingDangles
<1>2. IInv => NothingLeaks
  <2> SUFFICES ASSUME Counted PROVE NothingLeaks
    BY DEF IInv
  <2> QED
    BY CountedIs, Zenon DEF Good, Core, Kept, Indexed, Live, live, NothingLeaks
<1>3. IInv => SharedDataLives
  BY <1>1, <1>2, ZenonT(40) DEF IInv, SharedDataLives
<1> QED
  BY <1>3, Inductive, PTL

\* No two threads ever use the same UConverter, and an open one is never lost:
\* the cached default converter goes from u_releaseDefaultConverter() to one
\* caller of u_getDefaultConverter().
THEOREM OwnedByOne == Spec => []OneOwner
<1>1. IInv => OneOwner
  <2> SUFFICES ASSUME TypeOK, Owners, NEW y \in Cnv
               PROVE  LET owners == {t \in Thread : y \in mine[t]} \cup {t \in Thread : y \in borrowed[t]}
                                    \cup {t \in Thread : c[t] = y} \cup {x \in {Null} : gDefaultConverter = y}
                      IN  /\ Cardinality(owners) = IF cnv[y] = Null THEN 0 ELSE 1
                          /\ \A t \in Thread :
                                Cardinality({k \in 1..3 : y \in <<mine[t], borrowed[t], {c[t]}>>[k]}) <= 1
    BY Zenon DEF IInv, OneOwner
  <2> DEFINE owners == {t \in Thread : y \in mine[t]} \cup {t \in Thread : y \in borrowed[t]}
                       \cup {t \in Thread : c[t] = y} \cup {x \in {Null} : gDefaultConverter = y}
  <2>1. OwnersOf(y) /\ Null \notin Thread
    BY ConverterAssumption, SMTT(20) DEF Owners
  <2>2. Cardinality(owners) = IF cnv[y] = Null THEN 0 ELSE 1
    <3>1. CASE cnv[y] = Null
      <4>1. owners = {}
        BY <2>1, <3>1, Zenon DEF OwnersOf, Owned
      <4> QED
        BY <3>1, <4>1, FS_EmptySet, Zenon
    <3>2. CASE cnv[y] # Null
      <4>1. PICK o : o \in owners
        BY <2>1, <3>2, Zenon DEF OwnersOf, Owned
      <4>2. ASSUME NEW a \in owners, NEW b \in owners
            PROVE  a = b
        BY <2>1, Zenon DEF OwnersOf, OwnedOnce
      <4>3. owners = {o}
        BY <4>1, <4>2, ZenonT(40)
      <4> QED
        BY <3>2, <4>3, FS_Singleton, Zenon
    <3> QED
      BY <3>1, <3>2, Zenon
  <2>3. ASSUME NEW t \in Thread
        PROVE  Cardinality({k \in 1..3 : y \in <<mine[t], borrowed[t], {c[t]}>>[k]}) <= 1
    <3> DEFINE K == {k \in 1..3 : y \in <<mine[t], borrowed[t], {c[t]}>>[k]}
    <3>1. ~(y \in mine[t] /\ y \in borrowed[t]) /\ ~(y \in mine[t] /\ c[t] = y)
          /\ ~(y \in borrowed[t] /\ c[t] = y)
      BY <2>1, Zenon DEF OwnersOf, OwnedOnce
    <3>2. /\ 1 \in K <=> y \in mine[t]
          /\ 2 \in K <=> y \in borrowed[t]
          /\ 3 \in K <=> c[t] = y
      OBVIOUS
    <3>3. K \subseteq {1, 2, 3}
      OBVIOUS
    <3> HIDE DEF K
    <3>4. K = {} \/ K = {1} \/ K = {2} \/ K = {3}
      BY <3>1, <3>2, <3>3, Zenon
    <3>5. Cardinality(K) = 0 \/ Cardinality(K) = 1
      BY <3>4, FS_EmptySet, FS_Singleton, Zenon
    <3> QED
      BY <3>5 DEF K
  <2> QED
    BY <2>2, <2>3, SMTT(20)
<1> QED
  BY <1>1, Inductive, PTL

\* When everything is in use, it is in use by a converter or a thread, or is the
\* base table of what is: extensions are extended by nothing.
LEMMA UsedDirectly ==
    ASSUME Counted, AllUsed, NEW x \in Data, live(x)
    PROVE  inUse(x) \/ \E y \in Data : live(y) /\ shared[y].base = x /\ inUse(y)
<1>0. shared \in [Data -> SharedData \cup {Null}] /\ HasBase(shared) /\ Exact(shared, Outside)
  BY CountedIs, Zenon DEF Good, Core
<1>1. ASSUME NEW y \in Data, live(y), Extensions(shared, y) = {}
      PROVE  inUse(y)
  <2>1. shared[y].referenceCounter > 0 /\ shared[y].referenceCounter = Outside[y] + 0
    BY <1>0, <1>1, FS_EmptySet, Zenon DEF AllUsed, Exact, live
  <2>2. Outside[y] = Count(cnv, Cnv, y) + Count(d, Thread, y)
    BY OutType, Zenon DEF Outside
  <2>3. Count(cnv, Cnv, y) # 0 \/ Count(d, Thread, y) # 0
    BY <2>1, <2>2
  <2>4. {i \in Cnv : cnv[i] = y} # {} \/ {i \in Thread : d[i] = y} # {}
    BY <2>3, FS_EmptySet, Zenon DEF Count
  <2> QED
    BY <2>4, Zenon DEF inUse
<1>2. CASE Extensions(shared, x) = {}
  BY <1>1, <1>2, Zenon
<1>3. CASE Extensions(shared, x) # {}
  <2>1. PICK y \in Data : shared[y] # Null /\ shared[y].base = x
    BY <1>3, Zenon DEF Extensions
  <2>2. y \in Live(shared) /\ shared[y].base # Null
    BY <2>1, DataAssumption, Zenon DEF Live
  <2>3. Extensions(shared, y) = {}
    BY <1>0, <2>2, ExtensionNotExtended, ZenonT(40)
  <2> QED
    BY <1>1, <2>1, <2>3, Zenon DEF live
<1> QED
  BY <1>2, <1>3, Zenon

\* ucnv_flushCache() frees everything that nothing refers to, whatever the order
\* of the hash table and whatever other threads load from packages meanwhile.
THEOREM FlushIsComplete == Spec => FlushComplete
<1> DEFINE A == cnvCacheMutex # Null /\ cnvCacheMutex' = Null =>
                   \A x \in Data : live(x)' =>
                      inUse(x)' \/ \E y \in Data : live(y)' /\ shared'[y].base = x /\ inUse(y)'
<1>1. IInv /\ [Next]_vars => [A]_vars
  <2> SUFFICES ASSUME IInv, Next, cnvCacheMutex # Null, cnvCacheMutex' = Null
               PROVE  A
    OBVIOUS
  <2>1. \E t \in Thread : FlushPassEnd(t)
    <3>1. PICK t \in Thread :
             \/ \E n \in Name : Open(t, n) \/ FlushElement(t, n)
             \/ \E x \in Cnv : Release(t, x) \/ Close(t, x) \/ Clone(t, x)
             \/ OpenDefault(t) \/ GetDefault(t) \/ BeginCleanup(t)
             \/ Take(t) \/ Put(t) \/ GetDefaultName(t) \/ InternalSetName(t) \/ Algorithmic(t)
             \/ Load(t) \/ Create(t) \/ Unload(t) \/ CloseConverter(t)
             \/ CheckTable(t) \/ FlushLock(t) \/ FlushPassEnd(t) \/ EndCleanup(t)
      BY SMTT(20) DEF Next
    <3>2. ~(\E n \in Name : Open(t, n) \/ FlushElement(t, n))
      BY Zenon DEF Open, FlushElement, table_vars
    <3>3. ~(\E x \in Cnv : Release(t, x) \/ Close(t, x) \/ Clone(t, x))
      BY Zenon DEF Release, Close, Clone, table_vars
    <3>4. ~(OpenDefault(t) \/ GetDefault(t) \/ BeginCleanup(t) \/ Take(t) \/ Put(t))
      BY Zenon DEF OpenDefault, GetDefault, BeginCleanup, Take, Put, table_vars
    <3>5. ~(GetDefaultName(t) \/ InternalSetName(t) \/ Algorithmic(t) \/ Load(t) \/ Create(t))
      BY Zenon DEF GetDefaultName, InternalSetName, Algorithmic, Load, Create, table_vars, flush_vars
    <3>6. ~(Unload(t) \/ CloseConverter(t) \/ CheckTable(t) \/ FlushLock(t) \/ EndCleanup(t))
      BY Zenon DEF Unload, CloseConverter, CheckTable, FlushLock, EndCleanup, table_vars, flush_vars
    <3> QED
      BY <3>1, <3>2, <3>3, <3>4, <3>5, <3>6, ZenonT(40)
  <2>2. PICK t \in Thread : FlushPassEnd(t)
    BY <2>1, Zenon
  <2>3. ~(pass = 0 /\ cached # {}) /\ UNCHANGED <<shared, cnv, d>>
    BY <2>2, Zenon DEF FlushPassEnd, cnv_vars
  <2>4. AllUsed
    BY <2>2, <2>3, FlushLeavesUsed, Zenon DEF IInv
  <2>5. \A x \in Data : live(x) =>
           inUse(x) \/ \E y \in Data : live(y) /\ shared[y].base = x /\ inUse(y)
    BY <2>4, UsedDirectly, Zenon DEF IInv
  <2> QED
    BY <2>3, <2>5, ZenonT(40) DEF live, inUse
<1> QED
  BY <1>1, Inductive, PTL DEF Spec, FlushComplete

\* ucnv_cleanup() frees everything when no converter is open, after any history
\* of loads, failures and flushes.
THEOREM CleanupIsComplete == Spec => CleanupFrees
<1> DEFINE A == \A t \in Thread :
                   at[t] = "cleanup" /\ at'[t] = "idle" /\ (\A y \in Cnv : cnv[y] = Null) =>
                      ~hashtable' /\ \A x \in Data : shared'[x] = Null
<1>1. IInv /\ [Next]_vars => [A]_vars
  <2> SUFFICES ASSUME IInv, Next, NEW t \in Thread, at[t] = "cleanup", at'[t] = "idle",
                      \A y \in Cnv : cnv[y] = Null
               PROVE  ~hashtable' /\ \A x \in Data : shared'[x] = Null
    OBVIOUS
  <2>1. op[t] = "cleanup" /\ AllUsed /\ \A u \in Thread : at[u] \in {"idle", "cleanup"}
    BY Zenon DEF IInv, CleaningUp
  <2>2. \A u \in Thread : d[u] = Null
    BY <2>1, Zenon DEF IInv, Locals
  <2>3. \A x \in Data : ~inUse(x)
    BY <2>2, DataAssumption, Zenon DEF inUse
  <2>4. \A x \in Data : shared[x] = Null
    BY <2>1, <2>3, UsedDirectly, Zenon DEF IInv, live
  <2>5. cached = {}
    BY <2>4, CountedIs, ZenonT(40) DEF IInv, Good, Core, Indexed, Live, cached
  <2>6. EndCleanup(t)
    <3>1. PICK u \in Thread :
             \/ \E n \in Name : Open(u, n) \/ FlushElement(u, n)
             \/ \E x \in Cnv : Release(u, x) \/ Close(u, x) \/ Clone(u, x)
             \/ OpenDefault(u) \/ GetDefault(u) \/ BeginCleanup(u)
             \/ Take(u) \/ Put(u) \/ GetDefaultName(u) \/ InternalSetName(u) \/ Algorithmic(u)
             \/ Load(u) \/ Create(u) \/ Unload(u) \/ CloseConverter(u)
             \/ CheckTable(u) \/ FlushLock(u) \/ FlushPassEnd(u) \/ EndCleanup(u)
      BY Zenon DEF Next
    <3>2. ~(\E n \in Name : Open(u, n) \/ FlushElement(u, n))
      BY <2>1, Zenon DEF Open, FlushElement, begin, Idle
    <3>3. ~(\E x \in Cnv : Release(u, x) \/ Close(u, x) \/ Clone(u, x))
      BY <2>1, Zenon DEF Release, Close, Clone, begin, Idle
    <3>4. ~(OpenDefault(u) \/ GetDefault(u) \/ BeginCleanup(u))
      BY <2>1, Zenon DEF OpenDefault, GetDefault, BeginCleanup, begin, Idle
    <3>5. ~(Take(u) \/ Put(u) \/ GetDefaultName(u) \/ InternalSetName(u) \/ Algorithmic(u))
      BY <2>1, Zenon DEF Take, Put, GetDefaultName, InternalSetName, Algorithmic
    <3>6. ~(Load(u) \/ Create(u) \/ Unload(u) \/ CloseConverter(u))
      BY <2>1, Zenon DEF Load, Create, Unload, CloseConverter
    <3>7. ~(CheckTable(u) \/ FlushLock(u) \/ FlushPassEnd(u))
      BY <2>1, Zenon DEF CheckTable, FlushLock, FlushPassEnd
    <3>8. EndCleanup(u) /\ at[u] = "cleanup"
      BY <3>1, <3>2, <3>3, <3>4, <3>5, <3>6, <3>7, ZenonT(40) DEF EndCleanup
    <3>9. u = t
      BY <2>1, <3>8, Zenon DEF IInv, CleaningUp
    <3> QED
      BY <3>8, <3>9, Zenon
  <2> QED
    BY <2>4, <2>5, <2>6, ZenonT(40) DEF EndCleanup
<1> QED
  BY <1>1, Inductive, PTL DEF Spec, CleanupFrees
===============================================================================
