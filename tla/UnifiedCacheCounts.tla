-------------------------- MODULE UnifiedCacheCounts ------------------------
(***************************************************************************)
(* The reference counts, fItemsInUseCount and eviction loops of            *)
(* UnifiedCache, for every number of threads, keys and objects, every      *)
(* alias relation and every eviction policy.                               *)
(*                                                                         *)
(* The types and what threads have in hand (Inv1) are taken as given here, *)
(* before and after a step, and Sizes for the finiteness of the sets;      *)
(* UnifiedCacheProofs shows them and puts the parts together.              *)
(***************************************************************************)
EXTENDS UnifiedCacheInv, TLAPS

LEMMA NullApart ==
    /\ Null \notin Value /\ Null \notin Key /\ Null \notin Thread /\ Null \notin Obj
    /\ NoValue \in Value /\ NoValue \notin Obj /\ Obj \subseteq Value
  BY CacheAssumption, Zenon DEF Value

(* The key of the innermost get(). *)
LEMMA JobKey ==
    ASSUME TypeOK, NEW t \in Thread, job[t] # <<>>
    PROVE  CurrentKey(t) \in Key
  BY DEF TypeOK, CurrentKey

LEMMA EntryFields ==
    ASSUME TypeOK, NEW k \in Key, table[k] # Null
    PROVE  /\ table[k].val \in Value
           /\ table[k].st \in Status
           /\ table[k].master \in BOOLEAN
  BY Zenon DEF TypeOK, Entry

(* References are counted. *)
LEMMA RefsCounted ==
    ASSUME References, NEW o \in Value
    PROVE  /\ hard[o] \in Nat /\ soft[o] \in Nat /\ total[o] \in Nat /\ total[o] >= hard[o] + soft[o]
           /\ \A t \in Thread : Holds(t, o) => hard[o] > 0
           /\ \A t \in Thread : Drops(t, o) => total[o] > hard[o] + soft[o]
           /\ \A t \in Thread, k \in Key : ptr[t][k] = o => hard[o] > 0
           /\ \A k \in Key : EntryOf(k, o) => soft[o] > 0
           /\ o = NoValue => soft[o] > 0
  BY Zenon DEF References

(* What a loop step evicts is there, and is not in progress. *)
LEMMA ElementVisited ==
    ASSUME Inv1, Elements, NEW t \in Thread, SliceStep(t) \/ FlushStep(t)
    PROVE  /\ nextElement \in Key /\ table[nextElement] # Null
           /\ visitElement(isEvictable(table[nextElement]))
           /\ table[nextElement].val \in Value
<1>1. nextElement \in Stored(table)
  BY Zenon DEF Elements, SliceStep, FlushStep
<1>2. nextElement \in Key /\ table[nextElement] # Null
  BY <1>1, Zenon DEF Stored
<1> QED
  BY <1>2, EntryFields, Zenon DEF SliceStep, FlushStep, Inv1

LEMMA OneCount ==
    ASSUME NEW counts \in [Value -> Int], NEW v \in Value
    PROVE  /\ inc(counts, v) \in [Value -> Int] /\ dec(counts, v) \in [Value -> Int]
           /\ \A o \in Value : /\ inc(counts, v)[o] = IF o = v THEN counts[o] + 1 ELSE counts[o]
                               /\ dec(counts, v)[o] = IF o = v THEN counts[o] - 1 ELSE counts[o]
  BY DEF inc, dec

Lands(counts, v, w, o) ==
    dec(inc(counts, v), w)[o] = counts[o] + (IF o = v THEN 1 ELSE 0) - (IF o = w THEN 1 ELSE 0)

LEMMA TwoCounts ==
    ASSUME NEW counts \in [Value -> Int], NEW v \in Value, NEW w \in Value, NEW o \in Value
    PROVE  Lands(counts, v, w, o)
  BY DEF Lands, inc, dec

LEMMA HardRegistered ==
    ASSUME Inv1, Inv3, References, Elements
    PROVE  /\ \A t \in Thread : val[t] \in Obj /\ pc[t] # "put" => val[t] \in cached
           /\ \A t \in Thread, k \in Key : ptr[t][k] \in Obj => ptr[t][k] \in cached
           /\ \A k \in Key, o \in Obj : EntryOf(k, o) => o \in cached
           /\ \A o \in Obj : soft[o] # 0 => o \in cached
           /\ NoValue \notin cached /\ soft[NoValue] > 0
<1>1. \A k \in Key, o \in Obj : EntryOf(k, o) => soft[o] > 0
  BY RefsCounted, NullApart, Zenon DEF Inv1, Inv3
<1>2. soft[NoValue] > 0
  BY RefsCounted, NullApart, Zenon DEF Inv1, Inv3
<1> QED
  BY <1>1, <1>2 DEF Inv3, Fresh

(* The number of elements of the hash table is a natural number. *)
LEMMA SizeType ==
    ASSUME Sizes, NEW tab PROVE count(tab) \in Nat
<1>1. Stored(tab) \in SUBSET Key
  BY Zenon DEF Stored
<1> QED
  BY <1>1, Zenon DEF Sizes, Counted, count

(* _computeCountOfItemsToEvict() yields an integer. *)
LEMMA EvictSizeType ==
    ASSUME Sizes, NEW tab, NEW inUse \in Int, policy \in Policies
    PROVE  countOfItemsToEvict(tab, inUse) \in Int
<1>1. policy.pct \in Nat /\ policy.unused \in Nat
  BY CacheAssumption, Zenon
<1>2. (inUse * policy.pct) \div 100 \in Int
  BY <1>1
<1> QED
  BY <1>1, <1>2, SizeType DEF countOfItemsToEvict

(* A set of keys has a least element. *)
LEMMA LeastKey ==
    ASSUME Sizes, NEW S \in SUBSET Key, S # {}
    PROVE  \E k \in S : \A j \in S : k <= j
  BY Zenon DEF Sizes

LEMMA FiniteSorts ==
    ASSUME Sizes PROVE Counted(Thread) /\ Counted(Key) /\ Counted(Thread \X Key) /\ Counted(Value)
  BY Zenon DEF Sizes

LEMMA Nothing ==
    ASSUME Sizes PROVE Cardinality({}) = 0
  BY Zenon DEF Sizes, Counted

LEMMA Single ==
    ASSUME NEW S, Counted(S), NEW x \in S PROVE Cardinality({x}) = 1
<1>1. Cardinality({}) = 0 /\ Cardinality({} \cup {x}) = Cardinality({}) + 1 /\ {} \cup {x} = {x}
  BY Zenon DEF Counted
<1> QED
  BY <1>1

LEMMA NoMore ==
    ASSUME NEW S, Counted(S), NEW A \in SUBSET S, NEW x \in A, NEW y \in A, x # y
    PROVE  Cardinality(A) # 1
<1>1. A \ {x} \in SUBSET S /\ x \in S \ (A \ {x}) /\ A = (A \ {x}) \cup {x} /\ A \ {x} # {}
  BY Zenon
<1>2. /\ Cardinality((A \ {x}) \cup {x}) = Cardinality(A \ {x}) + 1
      /\ Cardinality(A \ {x}) \in Nat /\ Cardinality(A \ {x}) # 0
  BY <1>1, Zenon DEF Counted
<1>3. Cardinality(A) = Cardinality(A \ {x}) + 1
  BY <1>1, <1>2, Zenon
<1> QED
  BY <1>2, <1>3

(* Two sets that differ at most in x. *)
LEMMA OneOff ==
    ASSUME NEW S, Counted(S), NEW A \in SUBSET S, NEW B \in SUBSET S, NEW x,
           \A y \in S : y # x => (y \in A <=> y \in B)
    PROVE  /\ Cardinality(A) \in Nat /\ Cardinality(B) \in Nat
           /\ Cardinality(B) + (IF x \in A THEN 1 ELSE 0) = Cardinality(A) + (IF x \in B THEN 1 ELSE 0)
           /\ Cardinality(A) = 0 <=> A = {}
<1>1. Cardinality(A) \in Nat /\ Cardinality(B) \in Nat /\ (Cardinality(A) = 0 <=> A = {})
  BY Zenon DEF Counted
<1>2. CASE x \in A /\ x \notin B
  <2>1. A = B \cup {x} /\ x \in S \ B
    BY <1>2, Zenon
  <2>2. Cardinality(A) = Cardinality(B) + 1
    BY <2>1, Zenon DEF Counted
  <2> QED
    BY <1>1, <1>2, <2>2
<1>3. CASE x \notin A /\ x \in B
  <2>1. B = A \cup {x} /\ x \in S \ A
    BY <1>3, Zenon
  <2>2. Cardinality(B) = Cardinality(A) + 1
    BY <2>1, Zenon DEF Counted
  <2> QED
    BY <1>1, <1>3, <2>2
<1>4. CASE x \in A <=> x \in B
  <2>1. B = A
    BY <1>4
  <2> QED
    BY <1>1, <1>4, <2>1, Zenon
<1> QED
  BY <1>1, <1>2, <1>3, <1>4, Zenon

(* Arithmetic of the steps below. *)
LEMMA Sums ==
    /\ \A h \in Int : h + 0 + 1 = h + 1 + 0 /\ h + 1 + 0 = h + 0 + 1 /\ (h + 1) + 0 + 0 = h + 0 + 1
    /\ \A m, a, d \in Int : (m + a - d) + d = m + a
    /\ \A m, n, a, d \in Int : (m + a - d) - (n + a - d) = m - n
    /\ \A m, n \in Int : (m + 1) - (n + 1) = m - n
  OBVIOUS

LEMMA NatInt == \A n \in Nat : n \in Int
  OBVIOUS

LEMMA Digits == 0 \in Int /\ 1 \in Int
  OBVIOUS

(* A count x of references of two kinds, c and m, becomes y as they become *)
(* d and n: h and p are given up, i and q are taken.                       *)
Follow(x, y, c, d, m, n, h, i, p, q) ==
    /\ x \in Int /\ y \in Int /\ c \in Int /\ d \in Int /\ m \in Int /\ n \in Int
    /\ h \in Int /\ i \in Int /\ p \in Int /\ q \in Int
    /\ d + p = c + q /\ n + h = m + i
    /\ x = c + m /\ y + h + p = x + i + q

Total(x, c, m) == x = c + m

LEMMA Follows ==
    ASSUME NEW x, NEW y, NEW c, NEW d, NEW m, NEW n, NEW h, NEW i, NEW p, NEW q,
           Follow(x, y, c, d, m, n, h, i, p, q)
    PROVE  Total(y, d, n)
  BY DEF Follow, Total

(* The same for a total x of y, z and what is still to be subtracted. *)
Owed(x, y, z, u, v, w, d, e, p, q) ==
    /\ x \in Int /\ y \in Int /\ z \in Int /\ u \in Int /\ v \in Int /\ w \in Int
    /\ d \in Int /\ e \in Int /\ p \in Int /\ q \in Int
    /\ x = y + z + d /\ e + p = d + q
    /\ u - v - w + p = x - y - z + q

Total3(u, v, w, e) == u = v + w + e

LEMMA Owing ==
    ASSUME NEW x, NEW y, NEW z, NEW u, NEW v, NEW w, NEW d, NEW e, NEW p, NEW q,
           Owed(x, y, z, u, v, w, d, e, p, q)
    PROVE  Total3(u, v, w, e)
  BY DEF Owed, Total3

(* The two decrements of removeRef(), of h and then of x. *)
GivesUp(h, x) ==
    /\ (h - 1) + 1 = h + 0 /\ x - (h - 1) + 0 = x - h + 1
    /\ h + 0 = h + 0 /\ (x - 1) - h + 1 = x - h + 0

LEMMA GivingUp == \A h, x \in Int : GivesUp(h, x)
  BY DEF GivesUp

(* Two counts that change alike. *)
Alike(m, n, a, d) == m \in Int /\ n \in Int /\ a \in Int /\ d \in Int

Swapped(m, n, a, d) == (m + a - d) + d = m + a /\ (n + a - d) - (m + a - d) = n - m

LEMMA Swap ==
    ASSUME NEW m, NEW n, NEW a, NEW d, Alike(m, n, a, d)
    PROVE  Swapped(m, n, a, d)
  BY DEF Alike, Swapped

LEMMA Moved ==
    \A h \in Int, x \in {0, 1} : (h + 1) + x + 0 = h + x + 1
  OBVIOUS

(* One pointer of a client is set. *)
LEMMA OnePtr ==
    ASSUME NEW S, NEW p \in [Thread -> [Key -> S]], NEW t \in Thread, NEW k \in Key, NEW v,
           NEW q, q = [p EXCEPT ![t][k] = v]
    PROVE  q[t][k] = v /\ \A w \in Thread, i \in Key : <<w, i>> # <<t, k>> => q[w][i] = p[w][i]
  OBVIOUS

(* What threads have in hand, when at most t's changes. *)
LEMMA HandCount ==
    ASSUME Sizes, NEW CONSTANT o, NEW CONSTANT P, NEW CONSTANT t \in Thread,
           \A u \in Thread \ {t} : (val'[u] = o /\ pc'[u] \in P) <=> (val[u] = o /\ pc[u] \in P)
    PROVE  /\ InHand(o, P) \in Nat /\ InHand(o, P)' \in Nat
           /\ InHand(o, P)' + (IF val[t] = o /\ pc[t] \in P THEN 1 ELSE 0)
                = InHand(o, P) + (IF val'[t] = o /\ pc'[t] \in P THEN 1 ELSE 0)
<1> DEFINE A == {u \in Thread : val[u] = o /\ pc[u] \in P}
           B == {u \in Thread : val'[u] = o /\ pc'[u] \in P}
<1>1. A \in SUBSET Thread /\ B \in SUBSET Thread /\ \A u \in Thread : u # t => (u \in A <=> u \in B)
  OBVIOUS
<1>2. /\ t \in A <=> val[t] = o /\ pc[t] \in P
      /\ t \in B <=> val'[t] = o /\ pc'[t] \in P
  OBVIOUS
<1>3. InHand(o, P) = Cardinality(A) /\ InHand(o, P)' = Cardinality(B)
  BY Zenon DEF InHand
<1> HIDE DEF A, B
<1>4. /\ Cardinality(A) \in Nat /\ Cardinality(B) \in Nat
      /\ Cardinality(B) + (IF t \in A THEN 1 ELSE 0) = Cardinality(A) + (IF t \in B THEN 1 ELSE 0)
  BY <1>1, FiniteSorts, OneOff
<1> QED
  BY <1>2, <1>3, <1>4, Zenon

(* What clients own, when at most what u owns for k changes. *)
LEMMA ClientCount ==
    ASSUME Sizes, NEW CONSTANT o, NEW CONSTANT u \in Thread, NEW CONSTANT k \in Key,
           \A v \in Thread, j \in Key : <<v, j>> # <<u, k>> => ptr'[v][j] = ptr[v][j]
    PROVE  /\ ClientRefs(o) \in Nat /\ ClientRefs(o)' \in Nat
           /\ ClientRefs(o)' + (IF ptr[u][k] = o THEN 1 ELSE 0)
                = ClientRefs(o) + (IF ptr'[u][k] = o THEN 1 ELSE 0)
<1> DEFINE A == {x \in Thread \X Key : ptr[x[1]][x[2]] = o}
           B == {x \in Thread \X Key : ptr'[x[1]][x[2]] = o}
           i == <<u, k>>
<1>1. A \in SUBSET (Thread \X Key) /\ B \in SUBSET (Thread \X Key)
  OBVIOUS
<1>2. \A x \in Thread \X Key : x # i => (x \in A <=> x \in B)
  <2> SUFFICES ASSUME NEW x \in Thread \X Key, x # i PROVE x \in A <=> x \in B
    OBVIOUS
  <2>1. x[1] \in Thread /\ x[2] \in Key /\ <<x[1], x[2]>> # <<u, k>>
    OBVIOUS
  <2> QED
    BY <2>1, Zenon
<1>3. (i \in A <=> ptr[u][k] = o) /\ (i \in B <=> ptr'[u][k] = o)
  OBVIOUS
<1>4. ClientRefs(o) = Cardinality(A) /\ ClientRefs(o)' = Cardinality(B)
  BY Zenon DEF ClientRefs
<1> HIDE DEF A, B, i
<1>5. /\ Cardinality(A) \in Nat /\ Cardinality(B) \in Nat
      /\ Cardinality(B) + (IF i \in A THEN 1 ELSE 0) = Cardinality(A) + (IF i \in B THEN 1 ELSE 0)
  BY <1>1, <1>2, FiniteSorts, OneOff
<1> QED
  BY <1>3, <1>4, <1>5, Zenon

(* The hash elements, when at most that of k changes. *)
LEMMA EntryCount ==
    ASSUME Sizes, NEW CONSTANT o, NEW CONSTANT k \in Key, \A j \in Key : j # k => table'[j] = table[j]
    PROVE  /\ TableRefs(o) \in Nat /\ TableRefs(o)' \in Nat
           /\ TableRefs(o)' + (IF EntryOf(k, o) THEN 1 ELSE 0)
                = TableRefs(o) + (IF EntryOf(k, o)' THEN 1 ELSE 0)
<1> DEFINE A == {j \in Key : table[j] # Null /\ table[j].val = o}
           B == {j \in Key : table'[j] # Null /\ table'[j].val = o}
<1>1. A \in SUBSET Key /\ B \in SUBSET Key /\ \A j \in Key : j # k => (j \in A <=> j \in B)
  OBVIOUS
<1>2. (k \in A <=> EntryOf(k, o)) /\ (k \in B <=> EntryOf(k, o)')
  BY Zenon DEF EntryOf
<1>3. /\ {j \in Stored(table) : table[j].val = o} = A
      /\ {j \in Stored(table') : table'[j].val = o} = B
  BY Zenon DEF Stored
<1>4. TableRefs(o) = Cardinality(A) /\ TableRefs(o)' = Cardinality(B)
  BY <1>3, Zenon DEF TableRefs
<1> HIDE DEF A, B
<1>5. /\ Cardinality(A) \in Nat /\ Cardinality(B) \in Nat
      /\ Cardinality(B) + (IF k \in A THEN 1 ELSE 0) = Cardinality(A) + (IF k \in B THEN 1 ELSE 0)
  BY <1>1, FiniteSorts, OneOff, ZenonT(40)
<1> QED
  BY <1>2, <1>4, <1>5, Zenon

(* Adding or removing one hash element. *)
LEMMA StoredCount ==
    ASSUME Sizes, NEW tab, NEW new, NEW k \in Key, \A j \in Key : j # k => new[j] = tab[j]
    PROVE  /\ count(tab) \in Nat /\ count(new) \in Nat
           /\ count(new) + (IF tab[k] # Null THEN 1 ELSE 0) = count(tab) + (IF new[k] # Null THEN 1 ELSE 0)
           /\ count(tab) = 0 <=> Stored(tab) = {}
<1> DEFINE A == Stored(tab)
           B == Stored(new)
<1>1. A \in SUBSET Key /\ B \in SUBSET Key /\ \A j \in Key : j # k => (j \in A <=> j \in B)
  BY Zenon DEF Stored
<1>2. (k \in A <=> tab[k] # Null) /\ (k \in B <=> new[k] # Null)
  BY Zenon DEF Stored
<1>3. count(tab) = Cardinality(A) /\ count(new) = Cardinality(B)
  BY Zenon DEF count
<1> HIDE DEF A, B
<1>4. /\ Cardinality(A) \in Nat /\ Cardinality(B) \in Nat
      /\ Cardinality(B) + (IF k \in A THEN 1 ELSE 0) = Cardinality(A) + (IF k \in B THEN 1 ELSE 0)
      /\ Cardinality(A) = 0 <=> A = {}
  BY <1>1, FiniteSorts, OneOff
<1> QED
  BY <1>2, <1>3, <1>4, Zenon DEF A

(* Exact counts say where references are. *)
LEMMA ReferencesOf ==
    ASSUME Sizes, TypeOK, RefCountsExact, NEW o \in Value
    PROVE  /\ hard[o] \in Nat /\ soft[o] \in Nat /\ total[o] \in Nat /\ total[o] >= hard[o] + soft[o]
           /\ TableRefs(o) \in Nat
           /\ \A t \in Thread : Holds(t, o) => hard[o] > 0
           /\ \A t \in Thread : Drops(t, o) => total[o] > hard[o] + soft[o]
           /\ \A t \in Thread, k \in Key : ptr[t][k] = o => hard[o] > 0
           /\ hard[o] > 0 => (\E t \in Thread : Holds(t, o)) \/ \E t \in Thread, k \in Key : ptr[t][k] = o
           /\ \A k \in Key : EntryOf(k, o) => soft[o] > 0
           /\ o = NoValue => soft[o] > 0
           /\ o \in Obj /\ soft[o] = 1 => \A j, k \in Key : EntryOf(j, o) /\ EntryOf(k, o) => j = k
<1> DEFINE H == {t \in Thread : val[t] = o /\ pc[t] \in Holding}
           D == {t \in Thread : val[t] = o /\ pc[t] \in {"decTotal"}}
           C == {x \in Thread \X Key : ptr[x[1]][x[2]] = o}
           E == {k \in Stored(table) : table[k].val = o}
<1>1. /\ hard[o] = Cardinality(C) + Cardinality(H)
      /\ soft[o] = Cardinality(E) + (IF o = NoValue THEN 1 ELSE 0)
      /\ total[o] = hard[o] + soft[o] + Cardinality(D)
      /\ TableRefs(o) = Cardinality(E)
  BY Zenon DEF RefCountsExact, ClientRefs, InHand, TableRefs, Holding
<1>2. H \in SUBSET Thread /\ D \in SUBSET Thread /\ C \in SUBSET (Thread \X Key) /\ E \in SUBSET Key
  BY Zenon DEF Stored
<1>3. /\ \A t \in Thread : (Holds(t, o) <=> t \in H) /\ (Drops(t, o) <=> t \in D)
      /\ \A t \in Thread, k \in Key : ptr[t][k] = o => <<t, k>> \in C
      /\ C # {} => \E t \in Thread, k \in Key : ptr[t][k] = o
      /\ \A k \in Key : EntryOf(k, o) => k \in E
  BY Zenon DEF Holds, Drops, EntryOf, Stored
<1> HIDE DEF H, D, C, E
<1>4. /\ Cardinality(H) \in Nat /\ (Cardinality(H) = 0 <=> H = {})
      /\ Cardinality(D) \in Nat /\ (Cardinality(D) = 0 <=> D = {})
  BY <1>2, FiniteSorts, OneOff
<1>5. Cardinality(C) \in Nat /\ (Cardinality(C) = 0 <=> C = {})
  BY <1>2, FiniteSorts, OneOff
<1>6. Cardinality(E) \in Nat /\ (Cardinality(E) = 0 <=> E = {})
  BY <1>2, FiniteSorts, OneOff, ZenonT(40)
<1>7. hard[o] \in Nat /\ soft[o] \in Nat /\ total[o] \in Nat /\ total[o] >= hard[o] + soft[o] /\ TableRefs(o) \in Nat
  BY <1>1, <1>4, <1>5, <1>6
<1>8. \A t \in Thread : Holds(t, o) => hard[o] > 0
  BY <1>1, <1>3, <1>4, <1>5
<1>9. \A t \in Thread : Drops(t, o) => total[o] > hard[o] + soft[o]
  BY <1>1, <1>3, <1>4, <1>7
<1>10. \A t \in Thread, k \in Key : ptr[t][k] = o => hard[o] > 0
  <2> SUFFICES ASSUME NEW t \in Thread, NEW k \in Key, ptr[t][k] = o PROVE hard[o] > 0
    OBVIOUS
  <2>1. C # {}
    BY <1>3, Zenon
  <2> QED
    BY <2>1, <1>1, <1>4, <1>5
<1>11. (\A k \in Key : EntryOf(k, o) => soft[o] > 0) /\ (o = NoValue => soft[o] > 0)
  BY <1>1, <1>3, <1>6
<1>12. hard[o] > 0 => (\E t \in Thread : Holds(t, o)) \/ \E t \in Thread, k \in Key : ptr[t][k] = o
  <2>1. hard[o] > 0 => H # {} \/ C # {}
    BY <1>1, <1>4, <1>5
  <2> QED
    BY <1>2, <1>3, <2>1, Zenon
<1>13. ASSUME o \in Obj, soft[o] = 1, NEW j \in Key, EntryOf(j, o), NEW k \in Key, EntryOf(k, o)
       PROVE  j = k
  <2>1. Cardinality(E) = 1
    BY <1>1, <1>6, <1>13, NullApart
  <2> QED
    BY <1>2, <1>3, <1>13, <2>1, FiniteSorts, NoMore, Zenon
<1> QED
  BY <1>7, <1>8, <1>9, <1>10, <1>11, <1>12, <1>13, Zenon

LEMMA ReferencesHold ==
    ASSUME Sizes, TypeOK, RefCountsExact PROVE References
  BY ReferencesOf, Zenon DEF References

(* What threads other than t have in hand stays. *)
OthersHold(t) ==
    \A w \in Thread \ {t}, o \in Value : (Holds(w, o)' <=> Holds(w, o)) /\ (Drops(w, o)' <=> Drops(w, o))

(* The counts change as t's hand, u's pointer of k and the entry of j do. *)
Balanced(t, u, k, j) ==
    \A o \in Value :
        /\ hard'[o] + (IF Holds(t, o) THEN 1 ELSE 0) + (IF ptr[u][k] = o THEN 1 ELSE 0)
             = hard[o] + (IF Holds(t, o)' THEN 1 ELSE 0) + (IF ptr'[u][k] = o THEN 1 ELSE 0)
        /\ soft'[o] + (IF EntryOf(j, o) THEN 1 ELSE 0) = soft[o] + (IF EntryOf(j, o)' THEN 1 ELSE 0)
        /\ total'[o] - hard'[o] - soft'[o] + (IF Drops(t, o) THEN 1 ELSE 0)
             = total[o] - hard[o] - soft[o] + (IF Drops(t, o)' THEN 1 ELSE 0)

(* A step that changes what t has in hand, what u owns for k and the entry *)
(* of j, and the counts accordingly.                                       *)
LEMMA Balance ==
    ASSUME Sizes, TypeOK, TypeOK', RefCountsExact,
           NEW CONSTANT t \in Thread, NEW CONSTANT u \in Thread,
           NEW CONSTANT k \in Key, NEW CONSTANT j \in Key,
           OthersHold(t), Balanced(t, u, k, j),
           \A v \in Thread, i \in Key : <<v, i>> # <<u, k>> => ptr'[v][i] = ptr[v][i],
           \A i \in Key : i # j => table'[i] = table[i]
    PROVE  RefCountsExact'
<1> SUFFICES ASSUME NEW CONSTANT o \in Value
             PROVE  /\ hard'[o] = ClientRefs(o)' + InHand(o, Holding)'
                    /\ soft'[o] = TableRefs(o)' + (IF o = NoValue THEN 1 ELSE 0)
                    /\ total'[o] = hard'[o] + soft'[o] + InHand(o, {"decTotal"})'
  BY Zenon DEF RefCountsExact, Holding
<1>1. /\ hard[o] = ClientRefs(o) + InHand(o, Holding)
      /\ soft[o] = TableRefs(o) + (IF o = NoValue THEN 1 ELSE 0)
      /\ total[o] = hard[o] + soft[o] + InHand(o, {"decTotal"})
  BY Zenon DEF RefCountsExact, Holding
<1>2. /\ InHand(o, Holding) \in Nat /\ InHand(o, Holding)' \in Nat
      /\ InHand(o, Holding)' + (IF Holds(t, o) THEN 1 ELSE 0)
           = InHand(o, Holding) + (IF Holds(t, o)' THEN 1 ELSE 0)
  <2>1. \A w \in Thread \ {t} : (val'[w] = o /\ pc'[w] \in Holding) <=> (val[w] = o /\ pc[w] \in Holding)
    BY Zenon DEF OthersHold, Holds
  <2>2. /\ (Holds(t, o) <=> val[t] = o /\ pc[t] \in Holding)
        /\ (Holds(t, o)' <=> val'[t] = o /\ pc'[t] \in Holding)
    BY Zenon DEF Holds
  <2> QED
    BY <2>1, <2>2, HandCount, ZenonT(40)
<1>3. /\ InHand(o, {"decTotal"}) \in Nat /\ InHand(o, {"decTotal"})' \in Nat
      /\ InHand(o, {"decTotal"})' + (IF Drops(t, o) THEN 1 ELSE 0)
           = InHand(o, {"decTotal"}) + (IF Drops(t, o)' THEN 1 ELSE 0)
  <2> DEFINE P == {"decTotal"}
  <2>1. \A w \in Thread \ {t} : (val'[w] = o /\ pc'[w] \in P) <=> (val[w] = o /\ pc[w] \in P)
    BY Zenon DEF OthersHold, Drops
  <2>2. /\ (Drops(t, o) <=> val[t] = o /\ pc[t] \in P)
        /\ (Drops(t, o)' <=> val'[t] = o /\ pc'[t] \in P)
    BY Zenon DEF Drops
  <2> HIDE DEF P
  <2>3. /\ InHand(o, P) \in Nat /\ InHand(o, P)' \in Nat
        /\ InHand(o, P)' + (IF Drops(t, o) THEN 1 ELSE 0)
             = InHand(o, P) + (IF Drops(t, o)' THEN 1 ELSE 0)
    BY <2>1, <2>2, HandCount, ZenonT(40)
  <2> QED
    BY <2>3, Zenon DEF P
<1>4. /\ ClientRefs(o) \in Nat /\ ClientRefs(o)' \in Nat
      /\ ClientRefs(o)' + (IF ptr[u][k] = o THEN 1 ELSE 0)
           = ClientRefs(o) + (IF ptr'[u][k] = o THEN 1 ELSE 0)
  BY ClientCount
<1>5. /\ TableRefs(o) \in Nat /\ TableRefs(o)' \in Nat
      /\ TableRefs(o)' + (IF EntryOf(j, o) THEN 1 ELSE 0)
           = TableRefs(o) + (IF EntryOf(j, o)' THEN 1 ELSE 0)
  BY EntryCount, Zenon
<1>6. hard[o] \in Int /\ soft[o] \in Int /\ total[o] \in Int
      /\ hard'[o] \in Int /\ soft'[o] \in Int /\ total'[o] \in Int
  BY ZenonT(40) DEF TypeOK
<1>7. /\ hard'[o] + (IF Holds(t, o) THEN 1 ELSE 0) + (IF ptr[u][k] = o THEN 1 ELSE 0)
           = hard[o] + (IF Holds(t, o)' THEN 1 ELSE 0) + (IF ptr'[u][k] = o THEN 1 ELSE 0)
      /\ soft'[o] + (IF EntryOf(j, o) THEN 1 ELSE 0) = soft[o] + (IF EntryOf(j, o)' THEN 1 ELSE 0)
      /\ total'[o] - hard'[o] - soft'[o] + (IF Drops(t, o) THEN 1 ELSE 0)
           = total[o] - hard[o] - soft[o] + (IF Drops(t, o)' THEN 1 ELSE 0)
  BY Zenon DEF Balanced
<1>8. hard'[o] = ClientRefs(o)' + InHand(o, Holding)'
  <2> DEFINE c == ClientRefs(o)
             d == ClientRefs(o)'
             m == InHand(o, Holding)
             n == InHand(o, Holding)'
             h == IF Holds(t, o) THEN 1 ELSE 0
             i == IF Holds(t, o)' THEN 1 ELSE 0
             p == IF ptr[u][k] = o THEN 1 ELSE 0
             q == IF ptr'[u][k] = o THEN 1 ELSE 0
  <2>1. c \in Int /\ d \in Int /\ m \in Int /\ n \in Int /\ d + p = c + q /\ n + h = m + i
    BY <1>2, <1>4, NatInt, Zenon
  <2>2. h \in Int /\ i \in Int /\ p \in Int /\ q \in Int
    BY Digits, Zenon
  <2>3. hard[o] = c + m /\ hard'[o] + h + p = hard[o] + i + q
    BY <1>1, <1>7, Zenon
  <2> HIDE DEF c, d, m, n, h, i, p, q
  <2>4. Follow(hard[o], hard'[o], c, d, m, n, h, i, p, q)
    BY <1>6, <2>1, <2>2, <2>3, Zenon DEF Follow
  <2>5. Total(hard'[o], d, n)
    BY <2>4, Follows, Zenon
  <2> QED
    BY <2>5, Zenon DEF Total, d, n
<1>9. soft'[o] = TableRefs(o)' + (IF o = NoValue THEN 1 ELSE 0)
  BY <1>1, <1>5, <1>6, <1>7
<1>10. total'[o] = hard'[o] + soft'[o] + InHand(o, {"decTotal"})'
  <2> DEFINE d == InHand(o, {"decTotal"})
             e == InHand(o, {"decTotal"})'
             p == IF Drops(t, o) THEN 1 ELSE 0
             q == IF Drops(t, o)' THEN 1 ELSE 0
  <2>1. d \in Nat /\ e \in Nat /\ total[o] = hard[o] + soft[o] + d /\ e + p = d + q
    BY <1>1, <1>3, Zenon
  <2>2. total'[o] - hard'[o] - soft'[o] + p = total[o] - hard[o] - soft[o] + q
    BY <1>7, Zenon
  <2>3. d \in Int /\ e \in Int /\ p \in Int /\ q \in Int
    BY <2>1, NatInt, Digits, Zenon
  <2> HIDE DEF d, e, p, q
  <2>4. Owed(total[o], hard[o], soft[o], total'[o], hard'[o], soft'[o], d, e, p, q)
    BY <1>6, <2>1, <2>2, <2>3, Zenon DEF Owed
  <2>5. Total3(total'[o], hard'[o], soft'[o], e)
    BY <2>4, Owing, Zenon
  <2> QED
    BY <2>5, Zenon DEF Total3, e
<1> QED
  BY <1>8, <1>9, <1>10, Zenon

(* A step that changes neither the entries nor what clients own. *)
LEMMA HandBalance ==
    ASSUME Sizes, TypeOK, TypeOK', RefCountsExact, UNCHANGED <<table, ptr>>,
           NEW CONSTANT t \in Thread,
           \A w \in Thread \ {t} : val'[w] = val[w] /\ pc'[w] = pc[w],
           \A o \in Value :
              /\ soft'[o] = soft[o]
              /\ hard'[o] + (IF Holds(t, o) THEN 1 ELSE 0) = hard[o] + (IF Holds(t, o)' THEN 1 ELSE 0)
              /\ total'[o] - hard'[o] + (IF Drops(t, o) THEN 1 ELSE 0)
                   = total[o] - hard[o] + (IF Drops(t, o)' THEN 1 ELSE 0)
    PROVE  RefCountsExact'
<1>1. 1 \in Key
  BY CacheAssumption DEF Key
<1>2. OthersHold(t)
  BY Zenon DEF OthersHold, Holds, Drops
<1>3. \A i \in Key, o \in Value : EntryOf(i, o)' <=> EntryOf(i, o)
  BY Zenon DEF EntryOf
<1>4. ASSUME NEW CONSTANT o \in Value
      PROVE
              /\ hard'[o] + (IF Holds(t, o) THEN 1 ELSE 0) + (IF ptr[t][1] = o THEN 1 ELSE 0)
                   = hard[o] + (IF Holds(t, o)' THEN 1 ELSE 0) + (IF ptr'[t][1] = o THEN 1 ELSE 0)
              /\ soft'[o] + (IF EntryOf(1, o) THEN 1 ELSE 0) = soft[o] + (IF EntryOf(1, o)' THEN 1 ELSE 0)
              /\ total'[o] - hard'[o] - soft'[o] + (IF Drops(t, o) THEN 1 ELSE 0)
                   = total[o] - hard[o] - soft[o] + (IF Drops(t, o)' THEN 1 ELSE 0)
  <2>1. hard[o] \in Int /\ soft[o] \in Int /\ total[o] \in Int
        /\ hard'[o] \in Int /\ soft'[o] \in Int /\ total'[o] \in Int
    BY Zenon DEF TypeOK
  <2>2. ptr'[t][1] = ptr[t][1] /\ (EntryOf(1, o)' <=> EntryOf(1, o))
    BY <1>1, <1>3, ZenonT(40)
  <2>3. /\ soft'[o] = soft[o]
        /\ hard'[o] + (IF Holds(t, o) THEN 1 ELSE 0) = hard[o] + (IF Holds(t, o)' THEN 1 ELSE 0)
        /\ total'[o] - hard'[o] + (IF Drops(t, o) THEN 1 ELSE 0)
             = total[o] - hard[o] + (IF Drops(t, o)' THEN 1 ELSE 0)
    OBVIOUS
  <2> QED
    BY <2>1, <2>2, <2>3
<1>5. Balanced(t, t, 1, 1)
  BY <1>4, Zenon DEF Balanced
<1> QED
  BY <1>1, <1>2, <1>5, Balance, Zenon

(* A thread that has nothing takes a hard reference in hand. *)
LEMMA GainBalance ==
    ASSUME Sizes, TypeOK, TypeOK', RefCountsExact, UNCHANGED <<table, ptr>>,
           NEW CONSTANT t \in Thread, NEW CONSTANT v \in Value,
           val[t] = Null, val'[t] = v, pc'[t] \in Holding,
           \A w \in Thread \ {t} : val'[w] = val[w] /\ pc'[w] = pc[w],
           \A o \in Value : /\ hard'[o] = IF o = v THEN hard[o] + 1 ELSE hard[o]
                            /\ total'[o] = IF o = v THEN total[o] + 1 ELSE total[o]
                            /\ soft'[o] = soft[o]
    PROVE  RefCountsExact'
<1>1. ASSUME NEW CONSTANT o \in Value
      PROVE  /\ soft'[o] = soft[o]
             /\ hard'[o] + (IF Holds(t, o) THEN 1 ELSE 0) = hard[o] + (IF Holds(t, o)' THEN 1 ELSE 0)
             /\ total'[o] - hard'[o] + (IF Drops(t, o) THEN 1 ELSE 0)
                  = total[o] - hard[o] + (IF Drops(t, o)' THEN 1 ELSE 0)
  <2>1. hard[o] \in Int /\ total[o] \in Int
    BY Zenon DEF TypeOK
  <2>2. ~Holds(t, o) /\ ~Drops(t, o) /\ ~Drops(t, o)' /\ (Holds(t, o)' <=> o = v)
    BY NullApart, Zenon DEF Holds, Drops, Holding
  <2>3. CASE o = v
    BY <2>1, <2>2, <2>3
  <2>4. CASE o # v
    BY <2>1, <2>2, <2>4, Zenon
  <2> QED
    BY <2>3, <2>4, Zenon
<1> QED
  BY <1>1, HandBalance, Zenon

(* The steps of get() and removeRef() outside the table. *)
LEMMA ExactHand ==
    ASSUME Sizes, Inv1, Inv1', Inv3, References, Elements, NEW CONSTANT t \in Thread,
           \/ \E k \in Key : Get(t, k)
           \/ PollFetch(t) \/ PollWait(t) \/ PollMissFails(t)
           \/ SpuriousWakeup(t)
           \/ CreateAlias(t) \/ CreateNew(t) \/ CreateFails(t) \/ ReturnToCreate(t)
           \/ DecHard(t) \/ DecTotal(t) \/ ReadCachePtr(t)
           \/ DecrementItemsInUse(t) \/ Delete(t)
           \/ Flush(t) \/ FlushPassEnd(t)
           \/ \E p \in Policies : SetEvictionPolicy(t, p)
    PROVE  RefCountsExact'
<1>1. TypeOK /\ TypeOK' /\ LocalOK(t) /\ RefCountsExact /\ NoValue \in Value
  BY NullApart, Zenon DEF Inv1, Inv3, LocalInv
<1>21. total \in [Value -> Int] /\ hard \in [Value -> Int] /\ soft \in [Value -> Int]
  BY <1>1, Zenon DEF TypeOK
<1>2. ASSUME UNCHANGED <<total, hard, soft, table, ptr>>,
             \A w \in Thread \ {t} : val'[w] = val[w] /\ pc'[w] = pc[w],
             \A o \in Value : (Holds(t, o)' <=> Holds(t, o)) /\ (Drops(t, o)' <=> Drops(t, o))
      PROVE  RefCountsExact'
  <2>1. \A o \in Value :
              /\ soft'[o] = soft[o]
              /\ hard'[o] + (IF Holds(t, o) THEN 1 ELSE 0) = hard[o] + (IF Holds(t, o)' THEN 1 ELSE 0)
              /\ total'[o] - hard'[o] + (IF Drops(t, o) THEN 1 ELSE 0)
                   = total[o] - hard[o] + (IF Drops(t, o)' THEN 1 ELSE 0)
    BY <1>2, Zenon
  <2> QED
    BY <1>1, <1>2, <2>1, HandBalance, Zenon
<1>20. ASSUME NEW CONSTANT v \in Value, val[t] = Null, val'[t] = v, pc'[t] \in Holding,
              \A w \in Thread \ {t} : val'[w] = val[w] /\ pc'[w] = pc[w],
              total' = inc(total, v), hard' = inc(hard, v), UNCHANGED <<soft, table, ptr>>
       PROVE  RefCountsExact'
  <2>1. \A o \in Value : /\ hard'[o] = IF o = v THEN hard[o] + 1 ELSE hard[o]
                         /\ total'[o] = IF o = v THEN total[o] + 1 ELSE total[o]
                         /\ soft'[o] = soft[o]
    BY <1>20, <1>21, Zenon DEF inc
  <2> QED
    BY <1>1, <1>20, <2>1, GainBalance, Zenon
<1>3. CASE \E k \in Key : Get(t, k)
  BY <1>1, <1>2, <1>3, ZenonT(40) DEF Get, TypeOK, Holds, Drops, Holding, cacheVars, objVars
<1>4. CASE PollWait(t)
  BY <1>1, <1>2, <1>4, Zenon DEF PollWait, TypeOK, Holds, Drops, Holding, cacheVars, objVars, locals, client
<1>5. CASE PollMissFails(t)
  BY <1>1, <1>2, <1>5, NullApart, ZenonT(40) DEF PollMissFails, TypeOK, LocalOK, Holds, Drops, Holding, cacheVars, objVars, client
<1>6. CASE SpuriousWakeup(t)
  BY <1>1, <1>2, <1>6, Zenon DEF SpuriousWakeup, TypeOK, Holds, Drops, Holding, cacheVars, objVars, locals, client
<1>7. CASE CreateAlias(t)
  BY <1>1, <1>2, <1>7, Zenon DEF CreateAlias, TypeOK, Holds, Drops, Holding, cacheVars, objVars, client
<1>8. CASE ReadCachePtr(t)
  BY <1>1, <1>2, <1>8, ZenonT(40) DEF ReadCachePtr, TypeOK, Holds, Drops, Holding, cacheVars, objVars, locals, client
<1>9. CASE DecrementItemsInUse(t)
  BY <1>1, <1>2, <1>9, ZenonT(40)
  DEF DecrementItemsInUse, runEvictionSlice, TypeOK, Holds, Drops, Holding, cacheVars, objVars, locals, client
<1>10. CASE Flush(t)
  BY <1>1, <1>2, <1>10, Zenon DEF Flush, TypeOK, Holds, Drops, Holding, cacheVars, objVars, locals, client
<1>11. CASE FlushPassEnd(t)
  BY <1>1, <1>2, <1>11, Zenon DEF FlushPassEnd, TypeOK, Holds, Drops, Holding, cacheVars, objVars, locals, client
<1>12. CASE \E p \in Policies : SetEvictionPolicy(t, p)
  BY <1>1, <1>2, <1>12, Zenon DEF SetEvictionPolicy, TypeOK, Holds, Drops, Holding, objVars, locals, client
<1>13. CASE Delete(t)
  <2>1. val'[t] = Null /\ pc[t] = "delete" /\ pc'[t] \in {"idle", "return"}
    BY <1>1, <1>13, Zenon DEF Delete, TypeOK
  <2>2. \A o \in Value : (Holds(t, o)' <=> Holds(t, o)) /\ (Drops(t, o)' <=> Drops(t, o))
    BY <2>1, NullApart, Zenon DEF Holds, Drops, Holding
  <2> QED
    BY <1>1, <1>2, <1>13, <2>2, Zenon DEF Delete, TypeOK, cacheVars, client
<1>14. CASE PollFetch(t)
  <2> DEFINE v == table[CurrentKey(t)].val
  <2>1. v \in Value
    BY <1>1, <1>14, JobKey, EntryFields, Zenon DEF PollFetch, LocalOK
  <2>2. /\ val[t] = Null /\ val'[t] = v /\ pc'[t] \in Holding
        /\ \A w \in Thread \ {t} : val'[w] = val[w] /\ pc'[w] = pc[w]
        /\ total' = inc(total, v) /\ hard' = inc(hard, v) /\ UNCHANGED <<soft, table, ptr>>
    BY <1>1, <1>14, ZenonT(40) DEF PollFetch, addRef, TypeOK, LocalOK, client, Holding
  <2> HIDE DEF v
  <2> QED
    BY <1>1, <1>20, <2>1, <2>2, Zenon
<1>15. CASE CreateFails(t)
  <2>1. /\ val[t] = Null /\ val'[t] = NoValue /\ pc'[t] \in Holding
        /\ \A w \in Thread \ {t} : val'[w] = val[w] /\ pc'[w] = pc[w]
        /\ total' = inc(total, NoValue) /\ hard' = inc(hard, NoValue) /\ UNCHANGED <<soft, table, ptr>>
    BY <1>1, <1>15, ZenonT(40) DEF CreateFails, addRef, TypeOK, LocalOK, client, cacheVars, Holding
  <2> QED
    BY <1>1, <1>20, <2>1, Zenon
<1>16. CASE ReturnToCreate(t)
  <2>1. CASE st[t] = "FAILURE"
    <3>1. val[t] = Null
      BY <1>1, <1>16, <2>1, NullApart, Zenon DEF Inv3, Statuses, ReturnToCreate, LocalOK, TypeOK, Value
    <3>2. /\ val'[t] = NoValue /\ pc'[t] \in Holding
          /\ \A w \in Thread \ {t} : val'[w] = val[w] /\ pc'[w] = pc[w]
          /\ total' = inc(total, NoValue) /\ hard' = inc(hard, NoValue) /\ UNCHANGED <<soft, table, ptr>>
      BY <1>1, <1>16, <2>1, Zenon DEF ReturnToCreate, addRef, TypeOK, client, cacheVars, Holding
    <3> QED
      BY <1>1, <1>20, <3>1, <3>2, Zenon
  <2>2. CASE st[t] # "FAILURE"
    <3>1. /\ val'[t] = val[t] /\ pc[t] = "return" /\ pc'[t] = "put"
          /\ \A w \in Thread \ {t} : val'[w] = val[w] /\ pc'[w] = pc[w]
          /\ UNCHANGED <<total, hard, soft, table, ptr>>
      BY <1>1, <1>16, <2>2, Zenon DEF ReturnToCreate, TypeOK, client, cacheVars, objVars
    <3> QED
      BY <3>1, <1>2, Zenon DEF Holds, Drops, Holding
  <2> QED
    BY <2>1, <2>2, Zenon
<1>17. CASE CreateNew(t)
  <2>1. PICK v \in Obj :
          /\ v \notin live /\ \A w \in Thread : val[w] # v
          /\ total' = [total EXCEPT ![v] = 1] /\ hard' = [hard EXCEPT ![v] = 1]
          /\ soft' = [soft EXCEPT ![v] = 0]
          /\ val' = [val EXCEPT ![t] = v]
    BY <1>17, Zenon DEF CreateNew
  <2>2. v \in Value
    BY NullApart, Zenon
  <2>3. total[v] = 0 /\ hard[v] = 0 /\ soft[v] = 0
    BY <1>1, <2>1, <2>2, RefsCounted DEF Inv3, Lives, LiveIffReferenced
  <2>4. pc[t] = "create" /\ pc' = [pc EXCEPT ![t] = "put"] /\ UNCHANGED <<table, ptr>>
    BY <1>17, Zenon DEF CreateNew, client, cacheVars
  <2>5. /\ val[t] = Null /\ val'[t] = v /\ pc'[t] \in Holding
        /\ \A w \in Thread \ {t} : val'[w] = val[w] /\ pc'[w] = pc[w]
    BY <1>1, <2>1, <2>4, ZenonT(40) DEF TypeOK, LocalOK, Holding
  <2>6. \A o \in Value : /\ hard'[o] = IF o = v THEN hard[o] + 1 ELSE hard[o]
                         /\ total'[o] = IF o = v THEN total[o] + 1 ELSE total[o]
                         /\ soft'[o] = soft[o]
    BY <1>21, <2>1, <2>2, <2>3
  <2> QED
    BY <1>1, <2>2, <2>4, <2>5, <2>6, GainBalance, Zenon
<1>18. CASE DecHard(t)
  <2> DEFINE v == val[t]
  <2>1. v \in Value
    BY <1>1, <1>18, Zenon DEF DecHard, LocalOK, Removing
  <2>2. /\ val' = val /\ pc[t] = "decHard" /\ pc'[t] = "decTotal"
        /\ \A w \in Thread \ {t} : val'[w] = val[w] /\ pc'[w] = pc[w]
        /\ hard' = dec(hard, v) /\ UNCHANGED <<total, soft, table, ptr>>
    BY <1>1, <1>18, Zenon DEF DecHard, TypeOK, client, cacheVars
  <2>3. \A o \in Value : /\ Holds(t, o) <=> o = v
                         /\ Drops(t, o)' <=> o = v
                         /\ ~Holds(t, o)' /\ ~Drops(t, o)
    BY <2>2, Zenon DEF Holds, Drops, Holding
  <2> HIDE DEF v
  <2>4. \A o \in Value : /\ hard'[o] = IF o = v THEN hard[o] - 1 ELSE hard[o]
                         /\ total'[o] = total[o]
                         /\ hard[o] \in Int /\ total[o] \in Int
    BY <1>21, <2>1, <2>2, Zenon DEF inc, dec
  <2>5. ASSUME NEW CONSTANT o \in Value
        PROVE  /\ soft'[o] = soft[o]
               /\ hard'[o] + (IF Holds(t, o) THEN 1 ELSE 0) = hard[o] + (IF Holds(t, o)' THEN 1 ELSE 0)
               /\ total'[o] - hard'[o] + (IF Drops(t, o) THEN 1 ELSE 0)
                    = total[o] - hard[o] + (IF Drops(t, o)' THEN 1 ELSE 0)
    <3>1. CASE o = v
      <4>1. hard'[o] = hard[o] - 1 /\ total'[o] = total[o] /\ soft'[o] = soft[o]
        BY <2>2, <2>4, <3>1, Zenon
      <4>2. Holds(t, o) /\ Drops(t, o)' /\ ~Holds(t, o)' /\ ~Drops(t, o)
        BY <2>3, <3>1, Zenon
      <4>3. GivesUp(hard[o], total[o])
        BY <2>4, GivingUp, Zenon
      <4> QED
        BY <4>1, <4>2, <4>3, Zenon DEF GivesUp
    <3>2. CASE o # v
      BY <2>2, <2>3, <2>4, <3>2, Zenon
    <3> QED
      BY <3>1, <3>2, ZenonT(40)
  <2> QED
    BY <1>1, <2>2, <2>5, HandBalance, Zenon
<1>19. CASE DecTotal(t)
  <2> DEFINE v == val[t]
  <2>1. v \in Value
    BY <1>1, <1>19, Zenon DEF DecTotal, LocalOK, Removing
  <2>2. /\ val' = val /\ pc[t] = "decTotal" /\ pc'[t] = "readCache"
        /\ \A w \in Thread \ {t} : val'[w] = val[w] /\ pc'[w] = pc[w]
        /\ total' = dec(total, v) /\ UNCHANGED <<hard, soft, table, ptr>>
    BY <1>1, <1>19, Zenon DEF DecTotal, TypeOK, client, cacheVars
  <2>3. \A o \in Value : /\ Drops(t, o) <=> o = v
                         /\ ~Holds(t, o)' /\ ~Holds(t, o) /\ ~Drops(t, o)'
    BY <2>2, Zenon DEF Holds, Drops, Holding
  <2> HIDE DEF v
  <2>4. \A o \in Value : /\ total'[o] = IF o = v THEN total[o] - 1 ELSE total[o]
                         /\ hard'[o] = hard[o]
                         /\ hard[o] \in Int /\ total[o] \in Int
    BY <1>21, <2>1, <2>2, ZenonT(40) DEF inc, dec
  <2>5. ASSUME NEW CONSTANT o \in Value
        PROVE  /\ soft'[o] = soft[o]
               /\ hard'[o] + (IF Holds(t, o) THEN 1 ELSE 0) = hard[o] + (IF Holds(t, o)' THEN 1 ELSE 0)
               /\ total'[o] - hard'[o] + (IF Drops(t, o) THEN 1 ELSE 0)
                    = total[o] - hard[o] + (IF Drops(t, o)' THEN 1 ELSE 0)
    <3>1. CASE o = v
      <4>1. total'[o] = total[o] - 1 /\ hard'[o] = hard[o] /\ soft'[o] = soft[o]
        BY <2>2, <2>4, <3>1, Zenon
      <4>2. Drops(t, o) /\ ~Holds(t, o)' /\ ~Holds(t, o) /\ ~Drops(t, o)'
        BY <2>3, <3>1, Zenon
      <4>3. GivesUp(hard[o], total[o])
        BY <2>4, GivingUp, Zenon
      <4> QED
        BY <4>1, <4>2, <4>3, Zenon DEF GivesUp
    <3>2. CASE o # v
      BY <2>2, <2>3, <2>4, <3>2, Zenon
    <3> QED
      BY <3>1, <3>2, Zenon
  <2> QED
    BY <1>1, <2>2, <2>5, HandBalance, Zenon
<1> QED
  BY <1>3, <1>4, <1>5, <1>6, <1>7, <1>8, <1>9, <1>10, <1>11, <1>12, <1>13, <1>14, <1>15, <1>16,
     <1>17, <1>18, <1>19, ZenonT(40)

(* A step that changes one entry of the table. *)
LEMMA EntryBalance ==
    ASSUME Sizes, TypeOK, TypeOK', RefCountsExact, UNCHANGED ptr,
           NEW CONSTANT j \in Key,
           \A w \in Thread, o \in Value :
              (Holds(w, o)' <=> Holds(w, o)) /\ (Drops(w, o)' <=> Drops(w, o)),
           \A i \in Key : i # j => table'[i] = table[i],
           \A o \in Value :
              /\ hard'[o] = hard[o]
              /\ soft'[o] + (IF EntryOf(j, o) THEN 1 ELSE 0) = soft[o] + (IF EntryOf(j, o)' THEN 1 ELSE 0)
              /\ total'[o] - soft'[o] = total[o] - soft[o],
           NEW CONSTANT t \in Thread
    PROVE  RefCountsExact'
<1>1. ASSUME NEW CONSTANT o \in Value
      PROVE
              /\ hard'[o] + (IF Holds(t, o) THEN 1 ELSE 0) + (IF ptr[t][j] = o THEN 1 ELSE 0)
                   = hard[o] + (IF Holds(t, o)' THEN 1 ELSE 0) + (IF ptr'[t][j] = o THEN 1 ELSE 0)
              /\ soft'[o] + (IF EntryOf(j, o) THEN 1 ELSE 0) = soft[o] + (IF EntryOf(j, o)' THEN 1 ELSE 0)
              /\ total'[o] - hard'[o] - soft'[o] + (IF Drops(t, o) THEN 1 ELSE 0)
                   = total[o] - hard[o] - soft[o] + (IF Drops(t, o)' THEN 1 ELSE 0)
  <2>1. hard[o] \in Int /\ soft[o] \in Int /\ total[o] \in Int
        /\ hard'[o] \in Int /\ soft'[o] \in Int /\ total'[o] \in Int
    BY ZenonT(40) DEF TypeOK
  <2>2. ptr'[t][j] = ptr[t][j] /\ (Holds(t, o)' <=> Holds(t, o)) /\ (Drops(t, o)' <=> Drops(t, o))
    OBVIOUS
  <2>3. /\ hard'[o] = hard[o]
        /\ soft'[o] + (IF EntryOf(j, o) THEN 1 ELSE 0) = soft[o] + (IF EntryOf(j, o)' THEN 1 ELSE 0)
        /\ total'[o] - soft'[o] = total[o] - soft[o]
    OBVIOUS
  <2> QED
    BY <2>1, <2>2, <2>3
<1>2. OthersHold(t) /\ Balanced(t, t, j, j)
  BY <1>1, Zenon DEF OthersHold, Balanced
<1> QED
  BY <1>2, Balance, ZenonT(40)

(* The steps that change the table. *)
LEMMA ExactTable ==
    ASSUME Sizes, Inv1, Inv1', Inv3, References, Elements, NEW CONSTANT t \in Thread,
           PollMiss(t) \/ PutIfAbsentAndGet(t) \/ SliceStep(t) \/ FlushStep(t)
    PROVE  RefCountsExact'
<1>1. TypeOK /\ TypeOK' /\ LocalOK(t) /\ RefCountsExact /\ NoValue \in Value
  BY NullApart, Zenon DEF Inv1, Inv3, LocalInv
<1>2. total \in [Value -> Int] /\ hard \in [Value -> Int] /\ soft \in [Value -> Int]
  BY <1>1, Zenon DEF TypeOK
<1>3. CASE PollMiss(t)
  <2>0. CurrentKey(t) \in Key
    BY <1>1, <1>3, JobKey, Zenon DEF PollMiss, LocalOK
  <2> SUFFICES ASSUME NEW CONSTANT j \in Key, j = CurrentKey(t) PROVE RefCountsExact'
    BY <2>0, Zenon
  <2>1. j \in Key
    OBVIOUS
  <2>2. /\ table[j] = Null /\ table' = [table EXCEPT ![j] = Marker]
        /\ total' = inc(total, NoValue) /\ soft' = inc(soft, NoValue) /\ UNCHANGED <<hard, ptr>>
        /\ val' = val /\ val[t] = Null /\ \A w \in Thread \ {t} : pc'[w] = pc[w]
    BY <1>1, <1>3, Zenon DEF PollMiss, addSoftRef, client, locals, LocalOK, TypeOK
  <2>3. \A w \in Thread, o \in Value :
          (Holds(w, o)' <=> Holds(w, o)) /\ (Drops(w, o)' <=> Drops(w, o))
    BY <2>2, NullApart, Zenon DEF Holds, Drops
  <2>4. /\ \A i \in Key : i # j => table'[i] = table[i]
        /\ table'[j] = Marker /\ Marker # Null /\ Marker.val = NoValue
    <3>1. Marker \in Entry /\ Marker.val = NoValue
      BY <1>1, Zenon DEF Marker, Entry, Status
    <3>2. Marker # Null
      BY <3>1, CacheAssumption, Zenon
    <3> QED
      BY <1>1, <2>1, <2>2, <3>1, <3>2, Zenon DEF TypeOK
  <2>5. \A o \in Value : ~EntryOf(j, o) /\ (EntryOf(j, o)' <=> o = NoValue)
    BY <2>1, <2>2, <2>4, Zenon DEF EntryOf
  <2>6. \A o \in Value : /\ hard'[o] = hard[o]
                         /\ soft'[o] = IF o = NoValue THEN soft[o] + 1 ELSE soft[o]
                         /\ total'[o] = IF o = NoValue THEN total[o] + 1 ELSE total[o]
                         /\ soft[o] \in Int /\ total[o] \in Int
    BY <1>1, <1>2, <2>2, Zenon DEF inc
  <2>7. ASSUME NEW CONSTANT o \in Value
        PROVE /\ hard'[o] = hard[o]
              /\ soft'[o] + (IF EntryOf(j, o) THEN 1 ELSE 0) = soft[o] + (IF EntryOf(j, o)' THEN 1 ELSE 0)
              /\ total'[o] - soft'[o] = total[o] - soft[o]
    <3>1. CASE o = NoValue
      BY <2>5, <2>6, <3>1
    <3>2. CASE o # NoValue
      BY <2>5, <2>6, <3>2, Zenon
    <3> QED
      BY <3>1, <3>2, Zenon
  <2> QED
    BY <1>1, <2>1, <2>2, <2>3, <2>4, <2>7, EntryBalance, Zenon
<1>4. ASSUME NEW CONSTANT j \in Key, NEW CONSTANT v \in Value,
             table[j] # Null, table[j].val = v,
             table' = [table EXCEPT ![j] = Null], total' = dec(total, v), soft' = dec(soft, v),
             UNCHANGED <<hard, ptr>>,
             \A w \in Thread, o \in Value :
                (Holds(w, o)' <=> Holds(w, o)) /\ (Drops(w, o)' <=> Drops(w, o))
      PROVE  RefCountsExact'
  <2>1. /\ \A i \in Key : i # j => table'[i] = table[i]
        /\ table'[j] = Null
    BY <1>1, <1>4, Zenon DEF TypeOK
  <2>2. \A o \in Value : ~EntryOf(j, o)' /\ (EntryOf(j, o) <=> o = v)
    BY <1>4, <2>1, Zenon DEF EntryOf
  <2>3. \A o \in Value : /\ hard'[o] = hard[o]
                         /\ soft'[o] = IF o = v THEN soft[o] - 1 ELSE soft[o]
                         /\ total'[o] = IF o = v THEN total[o] - 1 ELSE total[o]
                         /\ soft[o] \in Int /\ total[o] \in Int
    BY <1>1, <1>2, <1>4, Zenon DEF dec
  <2>4. ASSUME NEW CONSTANT o \in Value
        PROVE /\ hard'[o] = hard[o]
              /\ soft'[o] + (IF EntryOf(j, o) THEN 1 ELSE 0) = soft[o] + (IF EntryOf(j, o)' THEN 1 ELSE 0)
              /\ total'[o] - soft'[o] = total[o] - soft[o]
    <3>1. CASE o = v
      BY <2>2, <2>3, <3>1
    <3>2. CASE o # v
      BY <2>2, <2>3, <3>2, Zenon
    <3> QED
      BY <3>1, <3>2, Zenon
  <2> QED
    BY <1>1, <1>4, <2>1, <2>4, EntryBalance, Zenon
<1>5. CASE SliceStep(t) \/ FlushStep(t)
  <2>0. /\ nextElement \in Key /\ table[nextElement] # Null /\ table[nextElement].val \in Value
        /\ visitElement(isEvictable(table[nextElement]))
    BY <1>5, ElementVisited, Zenon
  <2> SUFFICES ASSUME NEW CONSTANT j \in Key, j = nextElement PROVE RefCountsExact'
    BY <2>0, Zenon
  <2>1. /\ j \in Key /\ table[j] # Null /\ table[j].val \in Value
        /\ visitElement(isEvictable(table[j]))
    BY <2>0, Zenon
  <2>2. \A w \in Thread, o \in Value :
          (Holds(w, o)' <=> Holds(w, o)) /\ (Drops(w, o)' <=> Drops(w, o))
    <3>1. /\ val' = val /\ \A w \in Thread \ {t} : pc'[w] = pc[w]
          /\ (pc[t] \in Holding <=> pc'[t] \in Holding)
          /\ pc[t] # "decTotal" /\ pc'[t] # "decTotal"
      BY <1>1, <1>5, ZenonT(40) DEF SliceStep, FlushStep, AfterPut, locals, TypeOK, Holding
    <3> QED
      BY <3>1, Zenon DEF Holds, Drops
  <2>3. UNCHANGED ptr
    BY <1>5, Zenon DEF SliceStep, FlushStep, client
  <2>4. CASE isEvictable(table[j])
    BY <1>4, <2>1, <2>2, <2>3, <2>4, Zenon DEF visitElement, removeSoftRef
  <2>5. CASE ~isEvictable(table[j])
    <3>1. UNCHANGED <<table, total, hard, soft>>
      BY <2>1, <2>5, Zenon DEF visitElement, objVars
    <3>2. \A o \in Value : (EntryOf(j, o)' <=> EntryOf(j, o))
      BY <3>1, Zenon DEF EntryOf
    <3> QED
      BY <1>1, <2>1, <2>2, <2>3, <3>1, <3>2, EntryBalance, Zenon
  <2> QED
    BY <2>4, <2>5, Zenon
<1>6. CASE PutIfAbsentAndGet(t)
  <2>0. CurrentKey(t) \in Key /\ val[t] \in Value
    BY <1>1, <1>6, JobKey, Zenon DEF PutIfAbsentAndGet, LocalOK
  <2> SUFFICES ASSUME NEW CONSTANT j \in Key, j = CurrentKey(t), NEW CONSTANT v \in Value, v = val[t],
                      NEW CONSTANT new, new = [val |-> v, st |-> st[t], master |-> soft[v] = 0]
               PROVE RefCountsExact'
    BY <2>0, Zenon
  <2> DEFINE drop(counts) == IF table[j] = Null THEN counts ELSE dec(counts, NoValue)
  <2>1. j \in Key /\ v \in Value
    OBVIOUS
  <2>2. /\ pc[t] = "put" /\ (table[j] = Null \/ table[j].val = NoValue)
        /\ table' = [table EXCEPT ![j] = new]
        /\ total' = drop(inc(total, v)) /\ soft' = drop(inc(soft, v)) /\ UNCHANGED <<hard, ptr, val>>
    BY <1>6, ZenonT(40) DEF PutIfAbsentAndGet, client, locals, inProgress
  <2>3. /\ \A w \in Thread \ {t} : pc'[w] = pc[w] \/ (pc[w] = "wait" /\ pc'[w] = "poll")
        /\ pc'[t] \in Holding
    <3> DEFINE woken == [w \in Thread |-> IF pc[w] = "wait" THEN "poll" ELSE pc[w]]
               pcs == IF table[CurrentKey(t)] = Null THEN pc ELSE woken
    <3>1. pc \in [Thread -> Pc]
      BY <1>1, Zenon DEF TypeOK
    <3>2. pcs \in [Thread -> Pc] /\ \A w \in Thread : pcs[w] = pc[w] \/ (pc[w] = "wait" /\ pcs[w] = "poll")
      BY <3>1, SMTT(40) DEF Pc
    <3>3. runEvictionSlice(t, table', itemsInUse', pcs, "putSlice", AfterPut(t))
      BY <1>6, Zenon DEF PutIfAbsentAndGet
    <3> HIDE DEF woken, pcs
    <3>4. PICK next \in Holding : pc' = [pcs EXCEPT ![t] = next]
      BY <3>3, Zenon DEF runEvictionSlice, AfterPut, Holding
    <3> QED
      BY <3>2, <3>4, Zenon
  <2>4. \A w \in Thread, o \in Value :
          (Holds(w, o)' <=> Holds(w, o)) /\ (Drops(w, o)' <=> Drops(w, o))
    BY <2>2, <2>3, Zenon DEF Holds, Drops, Holding
  <2>5. new # Null /\ new.val = v
    <3>1. new \in Entry /\ new.val = v
      BY <1>1, <2>1, Zenon DEF Entry, TypeOK
    <3> QED
      BY <3>1, CacheAssumption, Zenon
  <2>6. /\ \A i \in Key : i # j => table'[i] = table[i]
        /\ table'[j] = new
    BY <1>1, <2>1, <2>2, Zenon DEF TypeOK
  <2>7. \A o \in Value : /\ EntryOf(j, o) <=> table[j] # Null /\ o = NoValue
                         /\ EntryOf(j, o)' <=> o = v
    BY <2>2, <2>5, <2>6, Zenon DEF EntryOf
  <2>8. ASSUME NEW CONSTANT o \in Value
        PROVE /\ hard'[o] = hard[o]
              /\ soft'[o] + (IF EntryOf(j, o) THEN 1 ELSE 0) = soft[o] + (IF EntryOf(j, o)' THEN 1 ELSE 0)
              /\ total'[o] - soft'[o] = total[o] - soft[o]
    <3> DEFINE a == IF o = v THEN 1 ELSE 0
               d == IF table[j] # Null /\ o = NoValue THEN 1 ELSE 0
    <3>1. ASSUME NEW c \in [Value -> Int] PROVE drop(inc(c, v))[o] = c[o] + a - d
      <4>1. inc(c, v) \in [Value -> Int] /\ inc(c, v)[o] = c[o] + a /\ c[o] \in Int
        BY <2>1, OneCount, SMTT(40)
      <4>2. CASE table[j] = Null
        BY <4>1, <4>2
      <4>3. CASE table[j] # Null
        <5>1. dec(inc(c, v), NoValue)[o] = c[o] + a - (IF o = NoValue THEN 1 ELSE 0)
          <6>1. Lands(c, v, NoValue, o)
            BY <1>1, <2>1, TwoCounts, Zenon
          <6> QED
            BY <6>1, Zenon DEF Lands
        <5>2. drop(inc(c, v)) = dec(inc(c, v), NoValue) /\ d = (IF o = NoValue THEN 1 ELSE 0)
          BY <4>3, Zenon
        <5> QED
          BY <5>1, <5>2, Zenon
      <4> QED
        BY <4>2, <4>3, Zenon
    <3>2. soft'[o] = soft[o] + a - d /\ total'[o] = total[o] + a - d
      BY <1>2, <2>2, <3>1, Zenon
    <3>3. (EntryOf(j, o) <=> table[j] # Null /\ o = NoValue) /\ (EntryOf(j, o)' <=> o = v)
      BY <2>7, Zenon
    <3>4. soft[o] \in Int /\ total[o] \in Int /\ hard'[o] = hard[o]
      BY <1>2, <2>2, Zenon
    <3>5. (IF EntryOf(j, o) THEN 1 ELSE 0) = d /\ (IF EntryOf(j, o)' THEN 1 ELSE 0) = a
      BY <3>3, ZenonT(40)
    <3>6. a \in Int /\ d \in Int
      OBVIOUS
    <3> HIDE DEF a, d
    <3>7. soft'[o] + d = soft[o] + a /\ total'[o] - soft'[o] = total[o] - soft[o]
      <4>1. Alike(soft[o], total[o], a, d)
        BY <3>4, <3>6, Zenon DEF Alike
      <4>2. Swapped(soft[o], total[o], a, d)
        BY <4>1, Swap, Zenon
      <4> QED
        BY <3>2, <4>2, Zenon DEF Swapped
    <3> QED
      BY <3>4, <3>5, <3>7, Zenon
  <2> QED
    BY <1>1, <2>1, <2>2, <2>4, <2>6, <2>8, EntryBalance, Zenon
<1> QED
  BY <1>3, <1>5, <1>6, Zenon

(* The steps that change what clients own. *)
LEMMA ExactClient ==
    ASSUME Sizes, Inv1, Inv1', Inv3, References, Elements, NEW CONSTANT t \in Thread,
           \/ Return(t)
           \/ \E k \in Key : Release(t, k)
           \/ \E u \in Thread, k \in Key : Share(t, u, k)
    PROVE  RefCountsExact'
<1>1. TypeOK /\ TypeOK' /\ LocalOK(t) /\ RefCountsExact
  BY ZenonT(40) DEF Inv1, Inv3, LocalInv
<1>2. ASSUME UNCHANGED <<table, soft>>, NEW CONSTANT u \in Thread, NEW CONSTANT k \in Key,
             \A w \in Thread \ {t}, o \in Value : Holds(w, o)' <=> Holds(w, o),
             \A w \in Thread, o \in Value : Drops(w, o)' <=> Drops(w, o),
             \A v \in Thread, i \in Key : <<v, i>> # <<u, k>> => ptr'[v][i] = ptr[v][i],
             \A o \in Value :
                /\ hard'[o] + (IF Holds(t, o) THEN 1 ELSE 0) + (IF ptr[u][k] = o THEN 1 ELSE 0)
                     = hard[o] + (IF Holds(t, o)' THEN 1 ELSE 0) + (IF ptr'[u][k] = o THEN 1 ELSE 0)
                /\ total'[o] - hard'[o] = total[o] - hard[o]
      PROVE  RefCountsExact'
  <2>1. ASSUME NEW CONSTANT o \in Value
        PROVE
                /\ soft'[o] + (IF EntryOf(k, o) THEN 1 ELSE 0) = soft[o] + (IF EntryOf(k, o)' THEN 1 ELSE 0)
                /\ total'[o] - hard'[o] - soft'[o] + (IF Drops(t, o) THEN 1 ELSE 0)
                     = total[o] - hard[o] - soft[o] + (IF Drops(t, o)' THEN 1 ELSE 0)
    <3>1. soft'[o] = soft[o] /\ (EntryOf(k, o)' <=> EntryOf(k, o)) /\ (Drops(t, o)' <=> Drops(t, o))
      BY <1>2, Zenon DEF EntryOf
    <3>2. hard[o] \in Int /\ soft[o] \in Int /\ total[o] \in Int
          /\ hard'[o] \in Int /\ soft'[o] \in Int /\ total'[o] \in Int
      BY <1>1, Zenon DEF TypeOK
    <3>3. total'[o] - hard'[o] = total[o] - hard[o]
      BY <1>2, Zenon
    <3> QED
      BY <3>1, <3>2, <3>3, Zenon
  <2>2. Balanced(t, u, k, k)
    BY <1>2, <2>1, Zenon DEF Balanced
  <2>3. OthersHold(t)
    BY <1>2, Zenon DEF OthersHold
  <2>4. \A i \in Key : i # k => table'[i] = table[i]
    BY <1>2, Zenon
  <2> QED
    BY <1>1, <1>2, <2>2, <2>3, <2>4, Balance, ZenonT(40)
<1>3. CASE Return(t)
  <2>0. CurrentKey(t) \in Key
    BY <1>1, <1>3, JobKey, Zenon DEF Return, LocalOK
  <2> SUFFICES ASSUME NEW CONSTANT k \in Key, k = CurrentKey(t), NEW CONSTANT v, v = val[t]
               PROVE  RefCountsExact'
    BY <2>0, Zenon
  <2>1. ptr[t][k] = Null
    <3>1. job[t] # <<>> /\ k = job[t][1]
      BY <1>1, <1>3, Zenon DEF Return, CurrentKey, LocalOK
    <3> QED
      BY <3>1, Zenon DEF Inv3, Calls
  <2>2. /\ pc[t] = "return" /\ pc'[t] = "idle" /\ val[t] = v /\ val'[t] = Null
        /\ \A w \in Thread \ {t} : val'[w] = val[w] /\ pc'[w] = pc[w]
        /\ UNCHANGED <<table, total, hard, soft>>
    BY <1>1, <1>3, ZenonT(40) DEF Return, TypeOK, cacheVars, objVars
  <2>3. ptr'[t][k] = v /\ \A w \in Thread, i \in Key : <<w, i>> # <<t, k>> => ptr'[w][i] = ptr[w][i]
    <3>1. ptr \in [Thread -> [Key -> Obj \cup {Null}]] /\ ptr' = [ptr EXCEPT ![t][k] = v]
      BY <1>1, <1>3, Zenon DEF Return, TypeOK
    <3> QED
      BY <3>1, OnePtr, ZenonT(40)
  <2>4. \A w \in Thread \ {t}, o \in Value : Holds(w, o)' <=> Holds(w, o)
    BY <2>2, Zenon DEF Holds
  <2>5. \A w \in Thread, o \in Value : Drops(w, o)' <=> Drops(w, o)
    BY <2>2, ZenonT(40) DEF Drops
  <2>6. ASSUME NEW CONSTANT o \in Value
        PROVE
                /\ hard'[o] + (IF Holds(t, o) THEN 1 ELSE 0) + (IF ptr[t][k] = o THEN 1 ELSE 0)
                     = hard[o] + (IF Holds(t, o)' THEN 1 ELSE 0) + (IF ptr'[t][k] = o THEN 1 ELSE 0)
                /\ total'[o] - hard'[o] = total[o] - hard[o]
    <3>1. hard[o] \in Int /\ hard'[o] = hard[o] /\ total'[o] = total[o]
      BY <1>1, <2>2, Zenon DEF TypeOK
    <3>2. (Holds(t, o) <=> v = o) /\ ~Holds(t, o)' /\ ptr[t][k] # o
      BY <2>1, <2>2, NullApart, Zenon DEF Holds, Holding
    <3>3. CASE v = o
      <4>1. /\ (IF Holds(t, o) THEN 1 ELSE 0) = 1 /\ (IF Holds(t, o)' THEN 1 ELSE 0) = 0
            /\ (IF ptr[t][k] = o THEN 1 ELSE 0) = 0 /\ (IF ptr'[t][k] = o THEN 1 ELSE 0) = 1
        BY <2>3, <3>2, <3>3, Zenon
      <4> QED
        BY <3>1, <4>1, Sums, Zenon
    <3>4. CASE v # o
      BY <2>3, <3>1, <3>2, <3>4, Zenon
    <3> QED
      BY <3>3, <3>4, Zenon
  <2> QED
    BY <1>2, <2>2, <2>3, <2>4, <2>5, <2>6, ZenonT(40)
<1>4. ASSUME NEW CONSTANT k \in Key, Release(t, k) PROVE RefCountsExact'
  <2> SUFFICES ASSUME NEW CONSTANT v, v = ptr[t][k] PROVE RefCountsExact'
    OBVIOUS
  <2>1. v \in Value
    BY <1>1, <1>4, NullApart, ZenonT(40) DEF Release, TypeOK
  <2>2. /\ pc[t] = "idle" /\ pc'[t] = "decHard" /\ val'[t] = v
        /\ \A w \in Thread \ {t} : val'[w] = val[w] /\ pc'[w] = pc[w]
        /\ UNCHANGED <<table, total, hard, soft>>
    BY <1>1, <1>4, ZenonT(40) DEF Release, TypeOK, cacheVars, objVars
  <2>3. ptr'[t][k] = Null /\ \A w \in Thread, i \in Key : <<w, i>> # <<t, k>> => ptr'[w][i] = ptr[w][i]
    <3>1. ptr \in [Thread -> [Key -> Obj \cup {Null}]] /\ ptr' = [ptr EXCEPT ![t][k] = Null]
      BY <1>1, <1>4, Zenon DEF Release, TypeOK
    <3> QED
      BY <3>1, OnePtr, Zenon
  <2>4. \A w \in Thread \ {t}, o \in Value : Holds(w, o)' <=> Holds(w, o)
    BY <2>2, Zenon DEF Holds
  <2>5. \A w \in Thread, o \in Value : Drops(w, o)' <=> Drops(w, o)
    BY <2>2, Zenon DEF Drops
  <2>6. ASSUME NEW CONSTANT o \in Value
        PROVE
                /\ hard'[o] + (IF Holds(t, o) THEN 1 ELSE 0) + (IF ptr[t][k] = o THEN 1 ELSE 0)
                     = hard[o] + (IF Holds(t, o)' THEN 1 ELSE 0) + (IF ptr'[t][k] = o THEN 1 ELSE 0)
                /\ total'[o] - hard'[o] = total[o] - hard[o]
    <3>1. hard[o] \in Int /\ hard'[o] = hard[o] /\ total'[o] = total[o]
      BY <1>1, <2>2, Zenon DEF TypeOK
    <3>2. (Holds(t, o)' <=> v = o) /\ ~Holds(t, o) /\ ptr'[t][k] # o
      BY <2>2, <2>3, NullApart, Zenon DEF Holds, Holding
    <3>3. CASE v = o
      <4>1. /\ (IF Holds(t, o) THEN 1 ELSE 0) = 0 /\ (IF Holds(t, o)' THEN 1 ELSE 0) = 1
            /\ (IF ptr[t][k] = o THEN 1 ELSE 0) = 1 /\ (IF ptr'[t][k] = o THEN 1 ELSE 0) = 0
        BY <3>2, <3>3, Zenon
      <4> QED
        BY <3>1, <4>1, Sums, Zenon
    <3>4. CASE v # o
      BY <3>1, <3>2, <3>4, Zenon
    <3> QED
      BY <3>3, <3>4, Zenon
  <2> QED
    BY <1>2, <2>2, <2>3, <2>4, <2>5, <2>6, ZenonT(40)
<1>5. ASSUME NEW CONSTANT u \in Thread, NEW CONSTANT k \in Key, Share(t, u, k) PROVE RefCountsExact'
  <2> SUFFICES ASSUME NEW CONSTANT v, v = ptr[t][k] PROVE RefCountsExact'
    OBVIOUS
  <2>1. v \in Value
    <3>1. ptr \in [Thread -> [Key -> Obj \cup {Null}]] /\ ptr[t][k] # Null
      BY <1>1, <1>5, Zenon DEF Share, TypeOK
    <3> QED
      BY <3>1, NullApart, Zenon
  <2>2. /\ UNCHANGED <<table, soft, pc, val>>
        /\ total' = inc(total, v) /\ hard' = inc(hard, v)
    BY <1>5, Zenon DEF Share, addRef, cacheVars, locals
  <2>3. /\ ptr[u][k] = Null /\ ptr'[u][k] = v
        /\ \A w \in Thread, i \in Key : <<w, i>> # <<u, k>> => ptr'[w][i] = ptr[w][i]
    <3>1. /\ ptr \in [Thread -> [Key -> Obj \cup {Null}]] /\ ptr[u][k] = Null
          /\ ptr' = [ptr EXCEPT ![u][k] = v]
      BY <1>1, <1>5, Zenon DEF Share, TypeOK
    <3> QED
      BY <3>1, OnePtr, ZenonT(40)
  <2>4. \A w \in Thread, o \in Value : (Holds(w, o)' <=> Holds(w, o)) /\ (Drops(w, o)' <=> Drops(w, o))
    BY <2>2, Zenon DEF Holds, Drops
  <2>5. total \in [Value -> Int] /\ hard \in [Value -> Int]
    BY <1>1, Zenon DEF TypeOK
  <2>6. ASSUME NEW CONSTANT o \in Value
        PROVE
                /\ hard'[o] + (IF Holds(t, o) THEN 1 ELSE 0) + (IF ptr[u][k] = o THEN 1 ELSE 0)
                     = hard[o] + (IF Holds(t, o)' THEN 1 ELSE 0) + (IF ptr'[u][k] = o THEN 1 ELSE 0)
                /\ total'[o] - hard'[o] = total[o] - hard[o]
    <3>1. /\ hard'[o] = IF o = v THEN hard[o] + 1 ELSE hard[o]
          /\ total'[o] = IF o = v THEN total[o] + 1 ELSE total[o]
          /\ hard[o] \in Int /\ total[o] \in Int
      BY <2>1, <2>2, <2>5, Zenon DEF inc
    <3>2. (Holds(t, o)' <=> Holds(t, o)) /\ ptr[u][k] # o /\ ptr'[u][k] = v
      BY <2>3, <2>4, NullApart, Zenon
    <3>3. CASE o = v
      <4>1. /\ hard'[o] = hard[o] + 1 /\ total'[o] = total[o] + 1
            /\ (IF Holds(t, o)' THEN 1 ELSE 0) = (IF Holds(t, o) THEN 1 ELSE 0)
            /\ (IF ptr[u][k] = o THEN 1 ELSE 0) = 0 /\ (IF ptr'[u][k] = o THEN 1 ELSE 0) = 1
        BY <3>1, <3>2, <3>3, Zenon
      <4>2. (hard[o] + 1) + (IF Holds(t, o) THEN 1 ELSE 0) + 0 = hard[o] + (IF Holds(t, o) THEN 1 ELSE 0) + 1
        <5>1. (IF Holds(t, o) THEN 1 ELSE 0) \in {0, 1}
          BY Zenon
        <5> QED
          BY <3>1, <5>1, Moved, Zenon
      <4>3. (total[o] + 1) - (hard[o] + 1) = total[o] - hard[o]
        BY <3>1, Sums, Zenon
      <4> QED
        BY <4>1, <4>2, <4>3, Zenon
    <3>4. CASE o # v
      BY <3>1, <3>2, <3>4, Zenon
    <3> QED
      BY <3>3, <3>4, Zenon
  <2> QED
    BY <1>2, <2>2, <2>3, <2>4, <2>6, Zenon
<1> QED
  BY <1>3, <1>4, <1>5, Zenon

(* u_cleanup() and a new cacheInit(). *)
LEMMA ExactCleanup ==
    ASSUME Sizes, Inv1, Inv1', Inv3, References, Elements, Cleanup
    PROVE  RefCountsExact' /\ \A o \in Value : hard[o] = 0
<1>1. TypeOK /\ RefCountsExact /\ LocalInv
  BY ZenonT(40) DEF Inv1, Inv3
<1>2. ASSUME NEW CONSTANT o \in Value
      PROVE  /\ hard[o] = 0
             /\ hard'[o] = ClientRefs(o)' + InHand(o, Holding)'
             /\ soft'[o] = TableRefs(o)' + (IF o = NoValue THEN 1 ELSE 0)
             /\ total'[o] = hard'[o] + soft'[o] + InHand(o, {"decTotal"})'
  <2>1. /\ hard[o] = ClientRefs(o) + InHand(o, Holding)
        /\ soft[o] = TableRefs(o) + (IF o = NoValue THEN 1 ELSE 0)
        /\ total[o] = hard[o] + soft[o] + InHand(o, {"decTotal"})
    BY <1>1, Zenon DEF RefCountsExact, Holding
  <2>2. {x \in Thread \X Key : ptr[x[1]][x[2]] = o} = {}
    BY NullApart, ZenonT(40) DEF Cleanup
  <2>3. {t \in Thread : val[t] = o /\ pc[t] \in Holding} = {}
        /\ {t \in Thread : val[t] = o /\ pc[t] \in {"decTotal"}} = {}
    BY Zenon DEF Cleanup, Holding
  <2>4. ClientRefs(o) = 0 /\ InHand(o, Holding) = 0 /\ InHand(o, {"decTotal"}) = 0
    BY <2>2, <2>3, Nothing, Zenon DEF ClientRefs, InHand
  <2>5. ClientRefs(o)' = 0 /\ InHand(o, Holding)' = 0 /\ InHand(o, {"decTotal"})' = 0
    BY <2>4, Zenon DEF ClientRefs, InHand, Cleanup, client, locals
  <2>6. TableRefs(o)' = 0
    <3>1. {k \in Stored(table') : table'[k].val = o} = {}
      BY Zenon DEF Cleanup, Stored
    <3> QED
      BY <3>1, Nothing, Zenon DEF TableRefs
  <2>7. /\ total'[o] = IF o = NoValue THEN 1 ELSE total[o] - TableRefs(o)
        /\ soft'[o] = IF o = NoValue THEN 1 ELSE soft[o] - TableRefs(o)
        /\ hard' = [hard EXCEPT ![NoValue] = 0]
    BY Zenon DEF Cleanup, TableRefs
  <2>8. TableRefs(o) \in Int /\ hard'[o] = (IF o = NoValue THEN 0 ELSE hard[o])
    <3>1. soft[o] \in Int /\ hard[o] \in Int
      BY <1>1, Zenon DEF TypeOK
    <3>2. {k \in Stored(table) : table[k].val = o} \in SUBSET Key
      BY Zenon DEF Stored
    <3>3. TableRefs(o) \in Nat
      BY <3>2, FiniteSorts, OneOff DEF TableRefs
    <3> QED
      BY <1>1, <2>7, <3>3 DEF TypeOK
  <2>9. hard[o] = 0
    BY <2>1, <2>4
  <2> QED
    BY <2>1, <2>4, <2>5, <2>6, <2>7, <2>8, <2>9
<1> QED
  BY <1>2, Zenon DEF RefCountsExact, Holding

(* RefCountsExact is preserved. *)
LEMMA ExactNext ==
    ASSUME Sizes, Inv1, Inv1', Inv3, References, Elements, [Next]_vars PROVE RefCountsExact'
<1>1. CASE Cleanup
  BY <1>1, ExactCleanup, Zenon
<1>2. ASSUME NEW CONSTANT t \in Thread, ThreadStep(t) PROVE RefCountsExact'
  BY <1>2, ExactHand, ExactTable, ExactClient, Zenon DEF ThreadStep
<1>3. CASE UNCHANGED vars
  <2>1. RefCountsExact /\ UNCHANGED <<table, total, hard, soft, pc, val, ptr>>
    BY <1>3, Zenon DEF Inv3, vars, cacheVars, objVars, locals, client
  <2>2. ASSUME NEW CONSTANT o \in Value
        PROVE  /\ ClientRefs(o)' = ClientRefs(o) /\ TableRefs(o)' = TableRefs(o)
               /\ InHand(o, Holding)' = InHand(o, Holding)
               /\ InHand(o, {"decTotal"})' = InHand(o, {"decTotal"})
    BY <2>1, Zenon DEF ClientRefs, InHand, TableRefs, Stored
  <2> QED
    BY <2>1, <2>2, Zenon DEF RefCountsExact, Holding
<1> QED
  BY <1>1, <1>2, <1>3, Zenon DEF Next

LEMMA NextElementStored ==
    ASSUME Sizes, Stored(table) # {} PROVE nextElement \in Stored(table)
<1> DEFINE after == {k \in Stored(table) : k > evictPos}
           among == IF after = {} THEN Stored(table) ELSE after
           least == CHOOSE k \in among : \A j \in among : k <= j
<1>1. among \in SUBSET Stored(table) /\ among # {} /\ among \in SUBSET Key
  BY Zenon DEF Stored
<1>2. nextElement = IF among = {} THEN Null ELSE least
  BY Zenon DEF nextElement
<1> HIDE DEF among
<1>3. \E k \in among : \A j \in among : k <= j
  BY <1>1, LeastKey, Zenon
<1>4. least \in among
  BY <1>3, Zenon
<1> HIDE DEF least
<1> QED
  BY <1>1, <1>2, <1>4, Zenon

(* fItemsInUseCount is not negative. *)
LEMMA ItemsNat ==
    ASSUME Sizes, TypeOK, ItemsInUseExact PROVE itemsInUse \in Nat
<1> DEFINE inUse == {o \in live \cap cached : hard[o] > 0}
           owing == {t \in zero : /\ pc[t] \in {"decTotal", "readCache", "lockDec"}
                                  /\ val[t] \in cached}
<1>1. itemsInUse >= Cardinality(inUse) + Cardinality(owing)
  BY Zenon DEF ItemsInUseExact
<1>2. inUse \in SUBSET Value /\ owing \in SUBSET Thread /\ itemsInUse \in Int
  BY Zenon DEF TypeOK
<1> HIDE DEF inUse, owing
<1>3. Cardinality(inUse) \in Nat /\ Cardinality(owing) \in Nat
  BY <1>2, FiniteSorts, OneOff, Zenon
<1> QED
  BY <1>1, <1>2, <1>3

LEMMA LoopElement ==
    ASSUME Sizes, Inv1, Inv3 PROVE LoopHasElement
<1> SUFFICES ASSUME NEW t \in Thread,
                    pc[t] \in {"putSlice", "relSlice"} \/ (pc[t] = "flush" /\ left > 0)
             PROVE  Stored(table) # {}
  BY Zenon DEF LoopHasElement
<1>1. itemsInUse \in Nat
  BY ItemsNat, Zenon DEF Inv1, Inv3
<1>2. count(table) \in Nat /\ left \in Int
  BY SizeType, Zenon DEF Inv1, TypeOK
<1>3. policy.unused \in Nat /\ policy.pct \in Nat
  BY CacheAssumption, Zenon DEF Inv1, TypeOK
<1> DEFINE byPct == (itemsInUse * policy.pct) \div 100
<1>4. byPct \in Int
  BY <1>1, <1>3
<1>5. countOfItemsToEvict(table, itemsInUse) =
        count(table) - itemsInUse - (IF policy.unused < byPct THEN byPct ELSE policy.unused)
  BY Zenon DEF countOfItemsToEvict
<1> HIDE DEF byPct
<1>6. countOfItemsToEvict(table, itemsInUse) <= count(table)
  BY <1>1, <1>2, <1>3, <1>4, <1>5
<1>7. countOfItemsToEvict(table, itemsInUse) \in Int
  BY <1>1, EvictSizeType, Zenon DEF Inv1, TypeOK
<1>8. count(table) > 0
  BY <1>2, <1>6, <1>7 DEF Inv3, Loops
<1>9. count(table) # 0
  BY <1>2, <1>8
<1> QED
  BY <1>9, Nothing, Zenon DEF count

(* The loops have an element to go to. *)
LEMMA ElementsHold ==
    ASSUME Sizes, Inv1, Inv3 PROVE Elements
  BY LoopElement, NextElementStored, Zenon DEF LoopHasElement, Elements

InUse(o) == o \in cached /\ hard[o] > 0

Exact == Cardinality({o \in Value : InUse(o)}) + Cardinality({t \in Thread : Owes(t)})

ItemsOK == itemsInUse >= Exact /\ (~raced => itemsInUse = Exact)

(* What is referred to is live. *)
LEMMA ItemsForm ==
    ASSUME TypeOK, References, Lives
    PROVE  ItemsInUseExact <=> ItemsOK
<1>1. \A o \in Value : hard[o] > 0 => o \in live
  <2> SUFFICES ASSUME NEW o \in Value, hard[o] > 0 PROVE o \in live
    OBVIOUS
  <2>1. hard[o] \in Nat /\ soft[o] \in Nat /\ total[o] \in Nat /\ total[o] >= hard[o] + soft[o]
    BY RefsCounted, Zenon
  <2>2. total[o] > 0
    BY <2>1
  <2> QED
    BY <2>2, Zenon DEF Lives, LiveIffReferenced
<1>2. {o \in live \cap cached : hard[o] > 0} = {o \in Value : InUse(o)}
  BY <1>1, Zenon DEF InUse, TypeOK
<1>3. {t \in zero : /\ pc[t] \in {"decTotal", "readCache", "lockDec"} /\ val[t] \in cached}
        = {t \in Thread : Owes(t)}
  BY Zenon DEF Owes, TypeOK
<1> QED
  BY <1>2, <1>3, Zenon DEF ItemsInUseExact, Exact, ItemsOK

LEMMA ItemsBalance ==
    ASSUME Sizes, TypeOK, TypeOK', References, References', Lives, Lives', ItemsInUseExact,
           NEW CONSTANT v \in Value, NEW CONSTANT t \in Thread,
           NEW CONSTANT a \in {0, 1}, NEW CONSTANT b \in {0, 1},
           NEW CONSTANT c \in {0, 1}, NEW CONSTANT d \in {0, 1}
    PROVE  /\ \A o \in Value \ {v} : InUse(o)' <=> InUse(o)
           /\ \A w \in Thread \ {t} : Owes(w)' <=> Owes(w)
           /\ a = (IF InUse(v) THEN 1 ELSE 0) /\ b = (IF InUse(v)' THEN 1 ELSE 0)
           /\ c = (IF Owes(t) THEN 1 ELSE 0) /\ d = (IF Owes(t)' THEN 1 ELSE 0)
           /\ itemsInUse' + a + c >= itemsInUse + b + d
           /\ ~raced' => ~raced /\ itemsInUse' + a + c = itemsInUse + b + d
           => ItemsInUseExact'
<1>0. SUFFICES ASSUME
           /\ \A o \in Value \ {v} : InUse(o)' <=> InUse(o)
           /\ \A w \in Thread \ {t} : Owes(w)' <=> Owes(w)
           /\ a = (IF InUse(v) THEN 1 ELSE 0) /\ b = (IF InUse(v)' THEN 1 ELSE 0)
           /\ c = (IF Owes(t) THEN 1 ELSE 0) /\ d = (IF Owes(t)' THEN 1 ELSE 0)
           /\ itemsInUse' + a + c >= itemsInUse + b + d
           /\ ~raced' => ~raced /\ itemsInUse' + a + c = itemsInUse + b + d
               PROVE  ItemsInUseExact'
  OBVIOUS
<1> DEFINE U == {o \in Value : InUse(o)}
           V == {o \in Value : InUse(o)'}
           W == {w \in Thread : Owes(w)}
           X == {w \in Thread : Owes(w)'}
<1>1. /\ U \in SUBSET Value /\ V \in SUBSET Value /\ W \in SUBSET Thread /\ X \in SUBSET Thread
      /\ \A o \in Value : o # v => (o \in U <=> o \in V)
      /\ \A w \in Thread : w # t => (w \in W <=> w \in X)
      /\ (v \in U <=> InUse(v)) /\ (v \in V <=> InUse(v)') /\ (t \in W <=> Owes(t)) /\ (t \in X <=> Owes(t)')
  BY <1>0, Zenon
<1>2. Exact = Cardinality(U) + Cardinality(W) /\ Exact' = Cardinality(V) + Cardinality(X)
  BY Zenon DEF Exact
<1>3. itemsInUse >= Exact /\ (~raced => itemsInUse = Exact)
  BY ItemsForm, Zenon DEF ItemsOK
<1>4. SUFFICES ItemsOK'
  BY ItemsForm, PTL
<1>5. itemsInUse \in Int /\ itemsInUse' \in Int
  BY Zenon DEF TypeOK
<1> HIDE DEF U, V, W, X
<1>6. /\ Cardinality(U) \in Nat /\ Cardinality(V) \in Nat
      /\ Cardinality(V) + (IF InUse(v) THEN 1 ELSE 0) = Cardinality(U) + (IF InUse(v)' THEN 1 ELSE 0)
  BY <1>1, FiniteSorts, OneOff
<1>7. /\ Cardinality(W) \in Nat /\ Cardinality(X) \in Nat
      /\ Cardinality(X) + (IF Owes(t) THEN 1 ELSE 0) = Cardinality(W) + (IF Owes(t)' THEN 1 ELSE 0)
  BY <1>1, FiniteSorts, OneOff
<1>8. Cardinality(V) + a = Cardinality(U) + b /\ Cardinality(X) + c = Cardinality(W) + d
  BY <1>0, <1>6, <1>7, Zenon
<1>9. ASSUME NEW CONSTANT i \in Int, i = itemsInUse, NEW CONSTANT j \in Int, j = itemsInUse',
             NEW CONSTANT m \in Nat, m = Cardinality(U), NEW CONSTANT n \in Nat, n = Cardinality(V),
             NEW CONSTANT p \in Nat, p = Cardinality(W), NEW CONSTANT q \in Nat, q = Cardinality(X)
      PROVE  ItemsOK'
  <2>1. n + a = m + b /\ q + c = p + d /\ j + a + c >= i + b + d /\ i >= m + p
    BY <1>0, <1>2, <1>3, <1>8, <1>9, Zenon
  <2>2. j >= n + q
    BY <2>1
  <2>3. ASSUME ~raced' PROVE j = n + q
    <3>1. j + a + c = i + b + d /\ i = m + p
      BY <1>0, <1>2, <1>3, <1>9, <2>3, Zenon
    <3> QED
      BY <2>1, <3>1
  <2>4. itemsInUse' = j /\ Exact' = n + q
    BY <1>2, <1>9, Zenon
  <2> QED
    BY <2>2, <2>3, <2>4, Zenon DEF ItemsOK
<1> QED
  BY <1>5, <1>6, <1>7, <1>9, Zenon

(* A step that changes none of it. *)
LEMMA ItemsSame ==
    ASSUME TypeOK, TypeOK', References, References', Lives, Lives', ItemsInUseExact,
           UNCHANGED <<itemsInUse, raced>>,
           \A o \in Value : InUse(o)' <=> InUse(o),
           \A w \in Thread : Owes(w)' <=> Owes(w)
    PROVE  ItemsInUseExact'
<1>1. ItemsOK
  BY ItemsForm, Zenon
<1>2. Exact' = Exact
  BY Zenon DEF Exact
<1>3. ItemsOK'
  BY <1>1, <1>2, ZenonT(40) DEF ItemsOK
<1> QED
  BY <1>3, ItemsForm, PTL

(* One value goes into or out of use, or one decrement is done or lost. *)
LEMMA ItemsStep ==
    ASSUME Sizes, TypeOK, TypeOK', References, References', Lives, Lives', ItemsInUseExact,
           NEW CONSTANT v \in Value, NEW CONSTANT t \in Thread,
           \A o \in Value \ {v} : InUse(o)' <=> InUse(o),
           \A w \in Thread \ {t} : Owes(w)' <=> Owes(w),
           \/ /\ ~InUse(v) /\ InUse(v)' /\ (Owes(t)' <=> Owes(t))
              /\ itemsInUse' = itemsInUse + 1 /\ raced' = raced
           \/ /\ InUse(v) /\ ~InUse(v)' /\ ~Owes(t) /\ Owes(t)'
              /\ itemsInUse' = itemsInUse /\ raced' = raced
           \/ /\ (InUse(v)' <=> InUse(v)) /\ Owes(t) /\ ~Owes(t)'
              /\ itemsInUse' = itemsInUse - 1 /\ raced' = raced
           \/ /\ (InUse(v)' <=> InUse(v)) /\ (Owes(t)' => Owes(t))
              /\ itemsInUse' = itemsInUse /\ raced'
    PROVE  ItemsInUseExact'
<1>0. SUFFICES ASSUME NEW CONSTANT a \in {0, 1}, a = (IF InUse(v) THEN 1 ELSE 0),
                      NEW CONSTANT b \in {0, 1}, b = (IF InUse(v)' THEN 1 ELSE 0),
                      NEW CONSTANT c \in {0, 1}, c = (IF Owes(t) THEN 1 ELSE 0),
                      NEW CONSTANT d \in {0, 1}, d = (IF Owes(t)' THEN 1 ELSE 0),
                      NEW CONSTANT i \in Int, i = itemsInUse, NEW CONSTANT j \in Int, j = itemsInUse'
               PROVE  ItemsInUseExact'
  BY Zenon DEF TypeOK
<1>1. \/ a = 0 /\ b = 1 /\ c = d /\ j = i + 1 /\ raced' = raced
      \/ a = 1 /\ b = 0 /\ c = 0 /\ d = 1 /\ j = i /\ raced' = raced
      \/ a = b /\ c = 1 /\ d = 0 /\ j = i - 1 /\ raced' = raced
      \/ a = b /\ d <= c /\ j = i /\ raced'
  BY <1>0
<1>2. j + a + c >= i + b + d /\ (~raced' => ~raced /\ j + a + c = i + b + d)
  BY <1>1
<1>3. itemsInUse' + a + c >= itemsInUse + b + d /\ (~raced' => ~raced /\ itemsInUse' + a + c = itemsInUse + b + d)
  BY <1>0, <1>2, Zenon
<1>4. /\ \A o \in Value \ {v} : InUse(o)' <=> InUse(o)
      /\ \A w \in Thread \ {t} : Owes(w)' <=> Owes(w)
      /\ a = (IF InUse(v) THEN 1 ELSE 0) /\ b = (IF InUse(v)' THEN 1 ELSE 0)
      /\ c = (IF Owes(t) THEN 1 ELSE 0) /\ d = (IF Owes(t)' THEN 1 ELSE 0)
      /\ itemsInUse' + a + c >= itemsInUse + b + d
      /\ ~raced' => ~raced /\ itemsInUse' + a + c = itemsInUse + b + d
  BY <1>0, <1>3, Zenon
<1> QED
  BY <1>0, <1>4, ItemsBalance, ZenonT(40)

OwingAt == {"decTotal", "readCache", "lockDec"}

(* The steps of t that neither register an object nor change what others   *)
(* have in hand.                                                           *)
Apart(t) == \A w \in Thread \ {t} : pc'[w] = pc[w] /\ val'[w] = val[w] /\ (w \in zero' <=> w \in zero)

LEMMA OwesApart ==
    ASSUME NEW CONSTANT t \in Thread, Apart(t), cached' = cached
    PROVE  \A w \in Thread \ {t} : Owes(w)' <=> Owes(w)
  BY Zenon DEF Apart, Owes

(* A step of t that changes none of it, as seen in what it assigns. *)
LEMMA ItemsQuiet ==
    ASSUME TypeOK, TypeOK', References, References', Lives, Lives', ItemsInUseExact,
           NEW CONSTANT t \in Thread, Apart(t),
           UNCHANGED <<itemsInUse, raced, cached>>,
           \A o \in cached : hard'[o] > 0 <=> hard[o] > 0,
           \/ pc[t] \notin OwingAt /\ pc'[t] \notin OwingAt
           \/ pc[t] \in OwingAt /\ pc'[t] \in OwingAt /\ val'[t] = val[t] /\ (t \in zero' <=> t \in zero)
    PROVE  ItemsInUseExact'
<1>1. \A o \in Value : InUse(o)' <=> InUse(o)
  BY Zenon DEF InUse
<1>2. Owes(t)' <=> Owes(t)
  BY Zenon DEF Owes, OwingAt
<1>3. \A w \in Thread : Owes(w)' <=> Owes(w)
  BY <1>2, OwesApart, Zenon
<1> QED
  BY <1>1, <1>3, ItemsSame, Zenon

LEMMA ItemsNext ==
    ASSUME Sizes, Inv1, Inv1', Inv3, References, References', Elements, Lives', [Next]_vars PROVE ItemsInUseExact'
<1>1. TypeOK /\ TypeOK' /\ LocalInv /\ RefCountsExact /\ Lives /\ Fresh /\ Calls /\ Masters /\ ItemsInUseExact
  BY Zenon DEF Inv1, Inv3
<1>2. NoValue \notin Obj /\ Null \notin Value /\ Obj \subseteq Value /\ NoValue \in Value /\ Null \notin Obj
  BY NullApart, Zenon
<1>3. hard \in [Value -> Int] /\ soft \in [Value -> Int] /\ pc \in [Thread -> Pc] /\ val \in [Thread -> Value \cup {Null}]
  BY <1>1, Zenon DEF TypeOK
<1>4. cached \subseteq Obj
  BY <1>1, Zenon DEF Fresh, TypeOK, Value
<1>5. ASSUME NEW CONSTANT t \in Thread,
             \/ \E k \in Key : Get(t, k) \/ Release(t, k)
             \/ PollWait(t) \/ PollMiss(t) \/ PollMissFails(t) \/ SpuriousWakeup(t)
             \/ CreateAlias(t) \/ Return(t) \/ Delete(t) \/ Flush(t) \/ FlushPassEnd(t)
             \/ \E p \in Policies : SetEvictionPolicy(t, p)
      PROVE  ItemsInUseExact'
  <2>1. UNCHANGED <<itemsInUse, raced, cached, hard>>
    BY <1>5, Zenon DEF Get, Release, PollWait, PollMiss, PollMissFails, SpuriousWakeup, CreateAlias, Return, Delete,
                Flush, FlushPassEnd, SetEvictionPolicy, objVars, cacheVars, addSoftRef
  <2>2. Apart(t)
    BY <1>3, <1>5, Zenon DEF Apart, Get, Release, PollWait, PollMiss, PollMissFails, SpuriousWakeup, CreateAlias, Return,
                Delete, Flush, FlushPassEnd, SetEvictionPolicy, locals
  <2>3. pc[t] \notin OwingAt /\ pc'[t] \notin OwingAt
    BY <1>3, <1>5, Zenon DEF OwingAt, Get, Release, PollWait, PollMiss, PollMissFails, SpuriousWakeup, CreateAlias, Return,
                Delete, Flush, FlushPassEnd, SetEvictionPolicy
  <2> QED
    BY <1>1, <2>1, <2>2, <2>3, ItemsQuiet, Zenon
<1>6. ASSUME NEW CONSTANT t \in Thread, DecTotal(t) PROVE ItemsInUseExact'
  <2>1. UNCHANGED <<itemsInUse, raced, cached, hard, val, zero>>
    BY <1>6, Zenon DEF DecTotal, cacheVars
  <2>2. Apart(t) /\ pc[t] \in OwingAt /\ pc'[t] \in OwingAt
    BY <1>3, <1>6, <2>1, Zenon DEF Apart, DecTotal, OwingAt
  <2> QED
    BY <1>1, <2>1, <2>2, ItemsQuiet, Zenon
<1>7. ASSUME NEW CONSTANT t \in Thread, CreateFails(t) \/ ReturnToCreate(t) PROVE ItemsInUseExact'
  <2>1. UNCHANGED <<itemsInUse, raced, cached, zero>> /\ (hard' = hard \/ hard' = inc(hard, NoValue))
    BY <1>7, Zenon DEF CreateFails, ReturnToCreate, addRef, objVars, cacheVars
  <2>2. \A o \in cached : hard'[o] = hard[o]
    BY <1>2, <1>3, <1>4, <2>1, Zenon DEF inc
  <2>3. Apart(t) /\ pc[t] \notin OwingAt /\ pc'[t] \notin OwingAt
    BY <1>3, <1>7, <2>1, Zenon DEF Apart, CreateFails, ReturnToCreate, OwingAt
  <2> QED
    BY <1>1, <2>1, <2>2, <2>3, ItemsQuiet, Zenon
<1>8. ASSUME NEW CONSTANT t \in Thread, NEW CONSTANT u \in Thread, NEW CONSTANT k \in Key, Share(t, u, k)
      PROVE  ItemsInUseExact'
  <2> SUFFICES ASSUME NEW CONSTANT v, v = ptr[t][k] PROVE ItemsInUseExact'
    OBVIOUS
  <2>1. UNCHANGED <<itemsInUse, raced, cached, zero, pc, val>> /\ hard' = inc(hard, v) /\ pc[t] = "idle"
    BY <1>8, ZenonT(40) DEF Share, addRef, cacheVars, locals
  <2>2. v \in Value
    <3>1. ptr \in [Thread -> [Key -> Obj \cup {Null}]] /\ ptr[t][k] # Null
      BY <1>1, <1>8, Zenon DEF Share, TypeOK
    <3> QED
      BY <1>2, <3>1, Zenon
  <2>3. hard[v] > 0 /\ hard[v] \in Nat
    BY <1>1, <2>2, RefsCounted, Zenon
  <2>4. hard'[v] = hard[v] + 1 /\ \A o \in cached : o # v => hard'[o] = hard[o]
    BY <1>2, <1>3, <1>4, <2>1, <2>2, ZenonT(40) DEF inc
  <2>5. \A o \in cached : hard'[o] > 0 <=> hard[o] > 0
    BY <2>3, <2>4
  <2>6. Apart(t) /\ pc[t] \notin OwingAt /\ pc'[t] \notin OwingAt
    BY <2>1, Zenon DEF Apart, OwingAt
  <2> QED
    BY <1>1, <2>1, <2>5, <2>6, ItemsQuiet, Zenon
<1>9. ASSUME NEW CONSTANT t \in Thread, SliceStep(t) \/ FlushStep(t) PROVE ItemsInUseExact'
  <2>1. UNCHANGED <<itemsInUse, raced, cached, hard, val, zero>>
    BY <1>9, Zenon DEF SliceStep, FlushStep, visitElement, removeSoftRef, objVars, locals
  <2>2. \/ pc[t] \in {"putSlice", "relSlice", "flush"} /\ pc' = pc
        \/ pc[t] \in {"putSlice", "relSlice"} /\ \E next \in {"decHard", "return", "delete"} : pc' = [pc EXCEPT ![t] = next]
    BY <1>9, Zenon DEF SliceStep, FlushStep, AfterPut
  <2>3. Apart(t) /\ pc[t] \notin OwingAt /\ pc'[t] \notin OwingAt
    BY <1>3, <2>1, <2>2, Zenon DEF Apart, OwingAt
  <2> QED
    BY <1>1, <2>1, <2>3, ItemsQuiet, Zenon
<1>10. ASSUME NEW CONSTANT t \in Thread, PollFetch(t) PROVE ItemsInUseExact'
  <2>1. CurrentKey(t) \in Key
    BY <1>1, <1>10, JobKey, Zenon DEF PollFetch, LocalInv, LocalOK
  <2> SUFFICES ASSUME NEW CONSTANT v, v = table[CurrentKey(t)].val PROVE ItemsInUseExact'
    OBVIOUS
  <2>2. /\ UNCHANGED <<cached, zero, raced>> /\ hard' = inc(hard, v) /\ EntryOf(CurrentKey(t), v)
        /\ itemsInUse' = IF hard[v] = 0 /\ v \in cached THEN itemsInUse + 1 ELSE itemsInUse
        /\ val' = [val EXCEPT ![t] = v] /\ pc[t] = "poll"
        /\ \E next \in {"decHard", "return"} : pc' = [pc EXCEPT ![t] = next]
    BY <1>10, Zenon DEF PollFetch, addRef, EntryOf
  <2>3. v \in Value
    BY <1>1, <2>1, <2>2, EntryFields, Zenon DEF EntryOf
  <2>4. hard[v] \in Nat /\ hard'[v] = hard[v] + 1 /\ \A o \in Value : o # v => hard'[o] = hard[o]
    BY <1>1, <1>3, <2>2, <2>3, RefsCounted, Zenon DEF inc
  <2>5. Apart(t) /\ pc[t] \notin OwingAt /\ pc'[t] \notin OwingAt
    BY <1>3, <2>2, Zenon DEF Apart, OwingAt
  <2>6. CASE hard[v] = 0 /\ v \in cached
    <3>1. ~InUse(v) /\ InUse(v)' /\ \A o \in Value \ {v} : InUse(o)' <=> InUse(o)
      BY <2>2, <2>4, <2>6 DEF InUse
    <3>2. (Owes(t)' <=> Owes(t)) /\ \A w \in Thread \ {t} : Owes(w)' <=> Owes(w)
      BY <2>2, <2>5, OwesApart, Zenon DEF Owes, OwingAt
    <3>3. itemsInUse' = itemsInUse + 1 /\ raced' = raced
      BY <2>2, <2>6, Zenon
    <3> QED
      BY <1>1, <2>3, <3>1, <3>2, <3>3, ItemsStep, ZenonT(40)
  <2>7. CASE ~(hard[v] = 0 /\ v \in cached)
    <3>1. \A o \in cached : hard'[o] > 0 <=> hard[o] > 0
      BY <1>2, <1>4, <2>4, <2>7
    <3> QED
      BY <1>1, <2>2, <2>5, <2>7, <3>1, ItemsQuiet, ZenonT(40)
  <2> QED
    BY <2>6, <2>7, Zenon
<1>11. ASSUME NEW CONSTANT t \in Thread, CreateNew(t) PROVE ItemsInUseExact'
  <2>1. UNCHANGED <<itemsInUse, raced, zero>> /\ pc[t] = "create" /\ pc' = [pc EXCEPT ![t] = "put"]
    BY <1>11, Zenon DEF CreateNew, cacheVars
  <2>2. PICK v \in Obj :
          /\ v \notin live /\ \A u \in Thread : val[u] # v
          /\ hard' = [hard EXCEPT ![v] = 1] /\ val' = [val EXCEPT ![t] = v]
          /\ cached' = cached \ {v}
    BY <1>11, Zenon DEF CreateNew
  <2>3. hard[v] \in Nat /\ soft[v] \in Nat /\ total[v] \in Nat /\ total[v] >= hard[v] + soft[v]
    BY <1>1, <1>2, RefsCounted, Zenon
  <2>4. ~(total[v] > 0)
    BY <1>1, <1>2, <2>2, Zenon DEF Lives, LiveIffReferenced
  <2>5. hard[v] = 0
    BY <2>3, <2>4
  <2>6. \A o \in Value : InUse(o)' <=> InUse(o)
    BY <1>2, <1>3, <2>2, <2>5 DEF InUse
  <2>7. \A w \in Thread : Owes(w)' <=> Owes(w)
    BY <1>3, <2>1, <2>2, Zenon DEF Owes
  <2> QED
    BY <1>1, <2>1, <2>6, <2>7, ItemsSame, Zenon

<1>12. ASSUME NEW CONSTANT t \in Thread, PutIfAbsentAndGet(t) PROVE ItemsInUseExact'
  <2>1. val[t] \in Value
    BY <1>1, <1>12, Zenon DEF PutIfAbsentAndGet, LocalInv, LocalOK
  <2> SUFFICES ASSUME NEW CONSTANT v \in Value, v = val[t] PROVE ItemsInUseExact'
    BY <2>1, Zenon
  <2>2. /\ hard' = hard /\ UNCHANGED <<val, zero, raced>> /\ pc[t] = "put"
        /\ cached' = IF soft[v] = 0 THEN cached \cup {v} ELSE cached
        /\ itemsInUse' = IF soft[v] = 0 THEN itemsInUse + 1 ELSE itemsInUse
    BY <1>12, Zenon DEF PutIfAbsentAndGet, locals
  <2>3. /\ pc'[t] \in {"putSlice", "decHard", "return"}
        /\ \A w \in Thread \ {t} : pc'[w] = pc[w] \/ (pc[w] = "wait" /\ pc'[w] = "poll")
    BY <1>3, <1>12, Zenon DEF PutIfAbsentAndGet, runEvictionSlice, AfterPut
  <2>4. \A w \in Thread : pc'[w] \in OwingAt <=> pc[w] \in OwingAt
    BY <2>2, <2>3, Zenon DEF OwingAt
  <2>5. hard[v] > 0 /\ (v = NoValue => soft[v] > 0) /\ \A k \in Key : EntryOf(k, v) => soft[v] > 0
    BY <1>1, <2>2, RefsCounted, Zenon DEF Holds, Holding
  <2>6. CASE soft[v] = 0
    <3>1. v \in Obj /\ v \notin cached
      <4>1. v \in Obj /\ \A k \in Key : ~EntryOf(k, v)
        BY <2>5, <2>6 DEF Value
      <4> QED
        BY <1>1, <2>5, <4>1, Zenon DEF Masters
    <3>2. \A w \in Thread : val[w] = v => pc[w] = "put"
      BY <1>1, <3>1, Zenon DEF Fresh
    <3>3. \A w \in Thread : Owes(w)' <=> Owes(w)
      BY <2>2, <2>4, <2>6, <3>2, Zenon DEF Owes, OwingAt
    <3>4. ~InUse(v) /\ InUse(v)' /\ \A o \in Value \ {v} : InUse(o)' <=> InUse(o)
      BY <2>2, <2>5, <2>6, <3>1, Zenon DEF InUse
    <3>5. itemsInUse' = itemsInUse + 1 /\ raced' = raced
      BY <2>2, <2>6, Zenon
    <3> QED
      BY <1>1, <3>3, <3>4, <3>5, ItemsStep, Zenon
  <2>7. CASE soft[v] # 0
    <3>1. UNCHANGED <<itemsInUse, raced, cached, hard, val, zero>>
      BY <2>2, <2>7, Zenon
    <3>2. (\A o \in Value : InUse(o)' <=> InUse(o)) /\ \A w \in Thread : Owes(w)' <=> Owes(w)
      BY <2>4, <3>1, Zenon DEF InUse, Owes, OwingAt
    <3> QED
      BY <1>1, <3>1, <3>2, ItemsSame, Zenon
  <2> QED
    BY <2>6, <2>7, Zenon
<1>13. ASSUME NEW CONSTANT t \in Thread, DecHard(t) PROVE ItemsInUseExact'
  <2>1. val[t] \in Value /\ t \notin zero
    BY <1>1, <1>13, Zenon DEF DecHard, LocalInv, LocalOK, Removing, Calls
  <2> SUFFICES ASSUME NEW CONSTANT v \in Value, v = val[t] PROVE ItemsInUseExact'
    BY <2>1, Zenon
  <2>2. /\ UNCHANGED <<itemsInUse, raced, cached, val>> /\ hard' = dec(hard, v)
        /\ zero' = IF hard[v] = 1 THEN zero \cup {t} ELSE zero
        /\ pc[t] = "decHard" /\ pc' = [pc EXCEPT ![t] = "decTotal"]
    BY <1>13, Zenon DEF DecHard, cacheVars
  <2>3. hard[v] > 0 /\ hard[v] \in Nat
    BY <1>1, <2>2, RefsCounted, Zenon DEF Holds, Holding
  <2>4. hard'[v] = hard[v] - 1 /\ \A o \in Value : o # v => hard'[o] = hard[o]
    BY <1>3, <2>2, OneCount
  <2>5. Apart(t) /\ pc'[t] = "decTotal"
    BY <1>3, <2>2, Zenon DEF Apart
  <2>6. \A w \in Thread \ {t} : Owes(w)' <=> Owes(w)
    BY <2>2, <2>5, OwesApart, Zenon
  <2>7. \A o \in Value \ {v} : InUse(o)' <=> InUse(o)
    BY <2>2, <2>4, Zenon DEF InUse
  <2>8. CASE hard[v] = 1 /\ v \in cached
    <3>1. InUse(v) /\ ~InUse(v)'
      BY <2>4, <2>8 DEF InUse
    <3>2. ~Owes(t) /\ Owes(t)'
      BY <2>1, <2>2, <2>5, <2>8, Zenon DEF Owes
    <3>3. itemsInUse' = itemsInUse /\ raced' = raced
      BY <2>2, Zenon
    <3> QED
      BY <1>1, <2>6, <2>7, <3>1, <3>2, <3>3, ItemsStep, ZenonT(40)
  <2>9. CASE ~(hard[v] = 1 /\ v \in cached)
    <3>1. InUse(v)' <=> InUse(v)
      <4>1. CASE v \notin cached
        BY <2>2, <4>1, Zenon DEF InUse
      <4>2. CASE hard[v] # 1
        <5>1. hard'[v] > 0
          BY <2>3, <2>4, <4>2
        <5> QED
          BY <2>2, <2>3, <5>1, Zenon DEF InUse
      <4> QED
        BY <2>9, <4>1, <4>2, Zenon
    <3>2. Owes(t)' <=> Owes(t)
      BY <2>1, <2>2, <2>9, Zenon DEF Owes
    <3>3. (\A o \in Value : InUse(o)' <=> InUse(o)) /\ \A w \in Thread : Owes(w)' <=> Owes(w)
      BY <2>6, <2>7, <3>1, <3>2, Zenon
    <3> QED
      BY <1>1, <2>2, <3>3, ItemsSame, Zenon
  <2> QED
    BY <2>8, <2>9, Zenon
<1>14. ASSUME NEW CONSTANT t \in Thread, ReadCachePtr(t) PROVE ItemsInUseExact'
  <2>1. UNCHANGED <<itemsInUse, cached, hard, val, zero>> /\ pc[t] = "readCache"
    BY <1>14, Zenon DEF ReadCachePtr, cacheVars, objVars, locals
  <2>2. PICK isSet \in (IF t \in zero /\ val[t] \notin live THEN BOOLEAN ELSE {val[t] \in cached}) :
          pc' = [pc EXCEPT ![t] = IF t \in zero /\ isSet THEN "lockDec" ELSE "delete"]
    BY <1>14, Zenon DEF ReadCachePtr
  <2>3. raced' = (raced \/ (t \in zero /\ val[t] \notin live)) /\ raced \in BOOLEAN
    BY <1>1, <1>14, Zenon DEF ReadCachePtr, TypeOK
  <2>4. Apart(t) /\ pc'[t] = IF t \in zero /\ isSet THEN "lockDec" ELSE "delete"
    BY <1>3, <2>1, <2>2, Zenon DEF Apart
  <2>5. \A w \in Thread \ {t} : Owes(w)' <=> Owes(w)
    BY <2>1, <2>4, OwesApart, Zenon
  <2>6. \A o \in Value : InUse(o)' <=> InUse(o)
    BY <2>1, Zenon DEF InUse
  <2>7. CASE t \in zero /\ val[t] \notin live
    <3>1. raced'
      BY <2>3, <2>7, Zenon
    <3>2. Owes(t)' => Owes(t)
      BY <2>1, Zenon DEF Owes
    <3> QED
      BY <1>1, <1>2, <2>1, <2>5, <2>6, <3>1, <3>2, ItemsStep, ZenonT(40)
  <2>8. CASE ~(t \in zero /\ val[t] \notin live)
    <3>1. raced' = raced
      BY <2>3, <2>8, Zenon
    <3>2. Owes(t)' <=> Owes(t)
      BY <2>1, <2>2, <2>4, <2>8, Zenon DEF Owes
    <3> QED
      BY <1>1, <2>1, <2>5, <2>6, <3>1, <3>2, ItemsSame, Zenon
  <2> QED
    BY <2>7, <2>8, Zenon
<1>15. ASSUME NEW CONSTANT t \in Thread, DecrementItemsInUse(t) PROVE ItemsInUseExact'
  <2>1. /\ itemsInUse' = itemsInUse - 1 /\ UNCHANGED <<raced, cached, hard, val, zero>> /\ pc[t] = "lockDec"
        /\ \E next \in {"relSlice", "delete"} : pc' = [pc EXCEPT ![t] = next]
    BY <1>15, Zenon DEF DecrementItemsInUse, runEvictionSlice, objVars, locals
  <2>2. t \in zero /\ val[t] \in Obj
    BY <1>1, <2>1, Zenon DEF Calls, LocalInv, LocalOK, Removing, Value
  <2>3. val[t] \in cached
    BY <2>1, <2>2, HardRegistered, Zenon
  <2>4. Apart(t) /\ pc'[t] \in {"relSlice", "delete"}
    BY <1>3, <2>1, Zenon DEF Apart
  <2>5. \A w \in Thread \ {t} : Owes(w)' <=> Owes(w)
    BY <2>1, <2>4, OwesApart, Zenon
  <2>6. \A o \in Value : InUse(o)' <=> InUse(o)
    BY <2>1, Zenon DEF InUse
  <2>7. Owes(t) /\ ~Owes(t)'
    BY <2>1, <2>2, <2>3, <2>4, Zenon DEF Owes
  <2> QED
    BY <1>1, <1>2, <2>1, <2>5, <2>6, <2>7, ItemsStep, Zenon
<1>16. CASE Cleanup
  <2>1. itemsInUse' = 0 /\ cached' = cached \ {NoValue} /\ UNCHANGED <<pc, raced>> /\ \A t \in Thread : pc[t] = "idle"
    BY <1>16, Zenon DEF Cleanup, locals
  <2>2. hard' = [hard EXCEPT ![NoValue] = 0] /\ \A o \in Value : hard[o] = 0
    BY <1>16, ExactCleanup, Zenon DEF Cleanup
  <2>3. \A o \in Value : ~(hard'[o] > 0)
    BY <1>3, <2>2
  <2>4. {o \in Value : InUse(o)'} = {} /\ {t \in Thread : Owes(t)'} = {}
    BY <2>1, <2>3, Zenon DEF InUse, Owes
  <2>5. Exact' = 0
    <3>1. Cardinality({o \in Value : InUse(o)'}) = 0 /\ Cardinality({t \in Thread : Owes(t)'}) = 0
      BY <1>1, <2>4, Nothing, Zenon
    <3>2. 0 + 0 = 0
      OBVIOUS
    <3> QED
      BY <3>1, <3>2, Zenon DEF Exact
  <2>6. ItemsOK'
    BY <2>1, <2>5 DEF ItemsOK
  <2> QED
    BY <1>1, <2>6, ItemsForm, PTL
<1>17. CASE UNCHANGED vars
  <2>1. UNCHANGED <<itemsInUse, raced, cached, hard, val, zero, pc>>
    BY <1>17, Zenon DEF vars, cacheVars, objVars, locals
  <2>2. (\A o \in Value : InUse(o)' <=> InUse(o)) /\ \A w \in Thread : Owes(w)' <=> Owes(w)
    BY <2>1, Zenon DEF InUse, Owes
  <2> QED
    BY <1>1, <2>1, <2>2, ItemsSame, Zenon
<1> QED
  BY <1>5, <1>6, <1>7, <1>8, <1>9, <1>10, <1>11, <1>12, <1>13, <1>14, <1>15, <1>16, <1>17, ZenonT(40) DEF Next, ThreadStep

LoopAt == {"putSlice", "relSlice", "flush"}

Bounded(t) ==
    /\ pc[t] \in {"putSlice", "relSlice"} => left >= 1 /\ left <= countOfItemsToEvict(table, itemsInUse)
    /\ pc[t] = "flush" => left >= 0 /\ left <= count(table)

(* No loop is under way after the step. *)
LEMMA LoopsNone ==
    ASSUME mutex' \notin Thread, \A w \in Thread : pc'[w] \notin LoopAt PROVE Loops'
  BY Zenon DEF Loops, LoopAt

(* One loop is. *)
LEMMA LoopsOne ==
    ASSUME NEW CONSTANT t \in Thread, mutex' = t, pc'[t] \in LoopAt, Bounded(t)',
           \A w \in Thread \ {t} : pc'[w] \notin LoopAt
    PROVE  Loops'
  BY DEF Loops, LoopAt, Bounded

(* The step does not touch what the loops use. *)
LEMMA LoopsSame ==
    ASSUME Loops, UNCHANGED <<mutex, table, itemsInUse, policy, left>>,
           \A w \in Thread : pc'[w] = pc[w] \/ (pc[w] \notin LoopAt /\ pc'[w] \notin LoopAt)
    PROVE  Loops'
<1>1. /\ countOfItemsToEvict(table, itemsInUse)' = countOfItemsToEvict(table, itemsInUse)
      /\ count(table)' = count(table)
  BY Zenon DEF countOfItemsToEvict, count, Stored
<1>2. ASSUME NEW CONSTANT w \in Thread
      PROVE  /\ mutex' = w <=> pc'[w] \in {"putSlice", "relSlice", "flush"}
             /\ pc'[w] \in {"putSlice", "relSlice"} =>
                  left' >= 1 /\ left' <= countOfItemsToEvict(table, itemsInUse)'
             /\ pc'[w] = "flush" => left' >= 0 /\ left' <= count(table)'
  BY <1>1, Zenon DEF Loops, LoopAt
<1> QED
  BY <1>2, Zenon DEF Loops

(* Whoever finds the mutex free finds no loop under way. *)
LEMMA LockFree ==
    ASSUME Loops, Lockable PROVE mutex \notin Thread /\ \A w \in Thread : pc[w] \notin LoopAt
  BY NullApart, Zenon DEF Loops, Lockable, LoopAt

(* An element less is an element less to evict. *)
LEMMA EvictOne ==
    ASSUME Sizes, TypeOK, NEW CONSTANT j \in Key, table[j] # Null,
           table' = [table EXCEPT ![j] = Null], UNCHANGED <<itemsInUse, policy>>
    PROVE  /\ countOfItemsToEvict(table, itemsInUse) \in Int
           /\ countOfItemsToEvict(table', itemsInUse) = countOfItemsToEvict(table, itemsInUse) - 1
           /\ countOfItemsToEvict(table, itemsInUse)' = countOfItemsToEvict(table, itemsInUse) - 1
           /\ count(table) \in Nat /\ count(table)' = count(table) - 1
<1>1. table'[j] = Null /\ \A k \in Key : k # j => table'[k] = table[k]
  BY Zenon DEF TypeOK
<1>2. count(table) \in Nat /\ count(table') \in Nat /\ count(table') = count(table) - 1
  <2>1. /\ count(table) \in Nat /\ count(table') \in Nat
        /\ count(table') + (IF table[j] # Null THEN 1 ELSE 0) = count(table) + (IF table'[j] # Null THEN 1 ELSE 0)
    BY <1>1, StoredCount, ZenonT(40)
  <2>2. count(table') + 1 = count(table) + 0
    BY <1>1, <2>1, Zenon
  <2> QED
    BY <2>1, <2>2
<1>3. count(table)' = count(table')
  BY Zenon DEF count, Stored
<1> DEFINE byPct == (itemsInUse * policy.pct) \div 100
           limit == IF policy.unused < byPct THEN byPct ELSE policy.unused
<1>4. limit \in Int /\ itemsInUse \in Int
  <2>1. policy.pct \in Nat /\ policy.unused \in Nat /\ itemsInUse \in Int
    BY CacheAssumption, Zenon DEF TypeOK
  <2>2. byPct \in Int
    BY <2>1
  <2> QED
    BY <2>1, <2>2
<1>5. /\ countOfItemsToEvict(table, itemsInUse) = count(table) - itemsInUse - limit
      /\ countOfItemsToEvict(table', itemsInUse) = count(table') - itemsInUse - limit
      /\ countOfItemsToEvict(table, itemsInUse)' = count(table)' - itemsInUse - limit
  BY Zenon DEF countOfItemsToEvict
<1> HIDE DEF limit
<1>6. ASSUME NEW CONSTANT i \in Int, i = itemsInUse, NEW CONSTANT l \in Int, l = limit,
             NEW CONSTANT c \in Nat, c = count(table), NEW CONSTANT d \in Nat, d = count(table')
      PROVE  /\ countOfItemsToEvict(table, itemsInUse) \in Int
             /\ countOfItemsToEvict(table', itemsInUse) = countOfItemsToEvict(table, itemsInUse) - 1
             /\ countOfItemsToEvict(table, itemsInUse)' = countOfItemsToEvict(table, itemsInUse) - 1
  <2>1. d = c - 1
    BY <1>2, <1>6, Zenon
  <2>2. /\ countOfItemsToEvict(table, itemsInUse) = c - i - l
        /\ countOfItemsToEvict(table', itemsInUse) = d - i - l
        /\ countOfItemsToEvict(table, itemsInUse)' = d - i - l
    BY <1>3, <1>5, <1>6, Zenon
  <2> QED
    BY <2>1, <2>2
<1> QED
  BY <1>2, <1>3, <1>4, <1>6, Zenon

LEMMA LoopsNext ==
    ASSUME Sizes, Inv1, Inv1', Inv3, References, Elements, [Next]_vars PROVE Loops'
<1>1. TypeOK /\ Loops
  BY Zenon DEF Inv1, Inv3
<1>2. pc \in [Thread -> Pc] /\ left \in Int /\ Null \notin Thread
  BY <1>1, NullApart, Zenon DEF TypeOK
<1>3. ASSUME NEW CONSTANT t \in Thread,
             \/ \E k \in Key : Get(t, k) \/ Release(t, k)
             \/ \E u \in Thread, k \in Key : Share(t, u, k)
             \/ PollWait(t) \/ PollMissFails(t) \/ SpuriousWakeup(t)
             \/ CreateAlias(t) \/ CreateNew(t) \/ CreateFails(t) \/ Return(t) \/ ReturnToCreate(t)
             \/ DecHard(t) \/ DecTotal(t) \/ ReadCachePtr(t) \/ Delete(t)
      PROVE  Loops'
  <2>1. UNCHANGED <<mutex, table, itemsInUse, policy, left>>
    BY <1>3, Zenon DEF Get, Release, Share, PollWait, PollMissFails, SpuriousWakeup, CreateAlias, CreateNew, CreateFails,
                Return, ReturnToCreate, DecHard, DecTotal, ReadCachePtr, Delete, cacheVars, loop
  <2>2. \A w \in Thread : pc'[w] = pc[w] \/ (pc[w] \notin LoopAt /\ pc'[w] \notin LoopAt)
    BY <1>2, <1>3, ZenonT(40) DEF LoopAt, Get, Release, Share, PollWait, PollMissFails, SpuriousWakeup, CreateAlias, CreateNew,
                CreateFails, Return, ReturnToCreate, DecHard, DecTotal, ReadCachePtr, Delete
  <2> QED
    BY <1>1, <2>1, <2>2, LoopsSame, Zenon
<1>4. ASSUME NEW CONSTANT t \in Thread,
             PollFetch(t) \/ PollMiss(t) \/ \E p \in Policies : SetEvictionPolicy(t, p)
      PROVE  Loops'
  <2>1. Lockable /\ mutex' = mutex
    BY <1>4, Zenon DEF PollFetch, PollMiss, SetEvictionPolicy
  <2>2. mutex \notin Thread /\ \A w \in Thread : pc[w] \notin LoopAt
    BY <1>1, <2>1, LockFree, Zenon
  <2>3. \A w \in Thread : pc'[w] \notin LoopAt
    BY <1>2, <1>4, <2>2, Zenon DEF LoopAt, PollFetch, PollMiss, SetEvictionPolicy
  <2> QED
    BY <2>1, <2>2, <2>3, LoopsNone, Zenon
<1>5. ASSUME NEW CONSTANT t \in Thread, PutIfAbsentAndGet(t) \/ DecrementItemsInUse(t) PROVE Loops'
  <2>1. mutex \notin Thread /\ \A w \in Thread : pc[w] \notin LoopAt
    BY <1>1, <1>5, LockFree, Zenon DEF PutIfAbsentAndGet, DecrementItemsInUse
  <2>2. \A w \in Thread \ {t} : pc'[w] \notin LoopAt
    BY <1>2, <1>5, <2>1, Zenon DEF PutIfAbsentAndGet, DecrementItemsInUse, runEvictionSlice, LoopAt
  <2>3. policy' = policy /\ countOfItemsToEvict(table, itemsInUse)' = countOfItemsToEvict(table', itemsInUse')
    BY <1>5, Zenon DEF PutIfAbsentAndGet, DecrementItemsInUse, countOfItemsToEvict, count, Stored
  <2>4. countOfItemsToEvict(table', itemsInUse') \in Int
    <3>1. itemsInUse' \in Int /\ policy \in Policies
      BY <1>1, <2>3, Zenon DEF Inv1, TypeOK
    <3> QED
      BY <3>1, EvictSizeType, Zenon
  <2>5. \/ mutex' = Null /\ pc'[t] \in {"decHard", "return", "delete"}
        \/ /\ mutex' = t /\ pc'[t] \in {"putSlice", "relSlice"} /\ left' = countOfItemsToEvict(table', itemsInUse')
           /\ ~(countOfItemsToEvict(table', itemsInUse') <= 0)
    <3>1. CASE PutIfAbsentAndGet(t)
      BY <1>2, <3>1, Zenon DEF PutIfAbsentAndGet, runEvictionSlice, AfterPut
    <3>2. CASE DecrementItemsInUse(t)
      <4>1. table' = table
        BY <3>2, Zenon DEF DecrementItemsInUse
      <4> QED
        BY <1>2, <3>2, <4>1, Zenon DEF DecrementItemsInUse, runEvictionSlice
    <3> QED
      BY <1>5, <3>1, <3>2, Zenon
  <2>6. CASE mutex' = Null /\ pc'[t] \in {"decHard", "return", "delete"}
    <3>1. mutex' \notin Thread /\ \A w \in Thread : pc'[w] \notin LoopAt
      BY <1>2, <2>2, <2>6, Zenon DEF LoopAt
    <3> QED
      BY <3>1, LoopsNone, Zenon
  <2>7. CASE /\ mutex' = t /\ pc'[t] \in {"putSlice", "relSlice"} /\ left' = countOfItemsToEvict(table', itemsInUse')
             /\ ~(countOfItemsToEvict(table', itemsInUse') <= 0)
    <3>1. left' >= 1 /\ left' <= countOfItemsToEvict(table, itemsInUse)'
      BY <2>3, <2>4, <2>7
    <3>2. Bounded(t)' /\ pc'[t] \in LoopAt
      BY <2>7, <3>1, Zenon DEF Bounded, LoopAt
    <3> QED
      BY <2>2, <2>7, <3>2, LoopsOne, Zenon
  <2> QED
    BY <2>5, <2>6, <2>7, Zenon
<1>6. ASSUME NEW CONSTANT t \in Thread, Flush(t) PROVE Loops'
  <2>1. mutex \notin Thread /\ \A w \in Thread : pc[w] \notin LoopAt
    BY <1>1, <1>6, LockFree, Zenon DEF Flush
  <2>2. /\ mutex' = t /\ pc' = [pc EXCEPT ![t] = "flush"] /\ left' = count(table) /\ table' = table
    BY <1>6, Zenon DEF Flush, cacheVars
  <2>3. pc'[t] = "flush" /\ \A w \in Thread \ {t} : pc'[w] \notin LoopAt
    BY <1>2, <2>1, <2>2, Zenon
  <2>4. left' = count(table)' /\ count(table)' \in Nat
    BY <2>2, SizeType, Zenon DEF count, Stored
  <2>5. Bounded(t)' /\ pc'[t] \in LoopAt
    BY <2>3, <2>4 DEF Bounded, LoopAt
  <2> QED
    BY <2>2, <2>3, <2>5, LoopsOne, Zenon
<1>7. ASSUME NEW CONSTANT t \in Thread, FlushPassEnd(t) PROVE Loops'
  <2>1. pc[t] = "flush" /\ mutex = t /\ \A w \in Thread \ {t} : pc[w] \notin LoopAt
    BY <1>1, <1>7, Zenon DEF FlushPassEnd, Loops, LoopAt
  <2>2. table' = table /\ \/ mutex' = Null /\ pc' = [pc EXCEPT ![t] = "idle"]
                          \/ left' = count(table) /\ mutex' = mutex /\ pc' = pc
    BY <1>7, Zenon DEF FlushPassEnd, cacheVars
  <2>3. CASE mutex' = Null /\ pc' = [pc EXCEPT ![t] = "idle"]
    <3>1. mutex' \notin Thread /\ \A w \in Thread : pc'[w] \notin LoopAt
      BY <1>2, <2>1, <2>3, Zenon DEF LoopAt
    <3> QED
      BY <3>1, LoopsNone
  <2>4. CASE left' = count(table) /\ mutex' = mutex /\ pc' = pc
    <3>1. left' = count(table)' /\ count(table)' \in Nat
      BY <2>2, <2>4, SizeType, Zenon DEF count, Stored
    <3>2. Bounded(t)' /\ pc'[t] \in LoopAt
      BY <2>1, <2>4, <3>1 DEF Bounded, LoopAt
    <3> QED
      BY <2>1, <2>4, <3>2, LoopsOne, Zenon
  <2> QED
    BY <2>2, <2>3, <2>4, Zenon
<1>8. ASSUME NEW CONSTANT t \in Thread, SliceStep(t) \/ FlushStep(t) PROVE Loops'
  <2> SUFFICES ASSUME NEW CONSTANT j \in Key, table[j] # Null, j = nextElement,
                      visitElement(isEvictable(table[j]))
               PROVE  Loops'
    BY <1>8, ElementVisited, Zenon
  <2>1. /\ pc[t] \in LoopAt /\ mutex = t /\ \A w \in Thread \ {t} : pc[w] \notin LoopAt
        /\ Bounded(t) /\ UNCHANGED <<itemsInUse, policy>>
    BY <1>1, <1>8, Zenon DEF SliceStep, FlushStep, Loops, LoopAt, Bounded
  <2>2. \/ /\ ~isEvictable(table[j]) /\ table' = table
           /\ countOfItemsToEvict(table, itemsInUse)' = countOfItemsToEvict(table, itemsInUse)
           /\ count(table)' = count(table)
        \/ /\ isEvictable(table[j])
           /\ countOfItemsToEvict(table, itemsInUse)' = countOfItemsToEvict(table, itemsInUse) - 1
           /\ count(table)' = count(table) - 1
    <3>1. CASE isEvictable(table[j])
      <4>1. table' = [table EXCEPT ![j] = Null]
        BY <3>1, Zenon DEF visitElement
      <4> QED
        BY <1>1, <2>1, <3>1, <4>1, EvictOne, Zenon
    <3>2. CASE ~isEvictable(table[j])
      <4>1. table' = table
        BY <3>2, Zenon DEF visitElement
      <4> QED
        BY <2>1, <3>2, <4>1, Zenon DEF countOfItemsToEvict, count, Stored
    <3> QED
      BY <3>1, <3>2, Zenon
  <2>3. countOfItemsToEvict(table, itemsInUse) \in Int /\ count(table) \in Nat
    BY <1>1, SizeType, EvictSizeType, Zenon DEF TypeOK
  <2>4. CASE SliceStep(t)
    <3>1. pc[t] \in {"putSlice", "relSlice"}
      BY <2>4, Zenon DEF SliceStep
    <3>2. left >= 1 /\ left <= countOfItemsToEvict(table, itemsInUse)
      BY <2>1, <3>1, Zenon DEF Bounded
    <3>3. \/ mutex' = Null /\ \E next \in {"decHard", "return", "delete"} : pc' = [pc EXCEPT ![t] = next]
          \/ /\ UNCHANGED <<mutex, pc>> /\ left' = IF isEvictable(table[j]) THEN left - 1 ELSE left
             /\ ~(isEvictable(table[j]) /\ left = 1)
      BY <2>4, Zenon DEF SliceStep, AfterPut
    <3>4. CASE mutex' = Null /\ \E next \in {"decHard", "return", "delete"} : pc' = [pc EXCEPT ![t] = next]
      <4>1. mutex' \notin Thread /\ \A w \in Thread : pc'[w] \notin LoopAt
        BY <1>2, <2>1, <3>4, Zenon DEF LoopAt
      <4> QED
        BY <4>1, LoopsNone, Zenon
    <3>5. CASE /\ UNCHANGED <<mutex, pc>> /\ left' = IF isEvictable(table[j]) THEN left - 1 ELSE left
               /\ ~(isEvictable(table[j]) /\ left = 1)
      <4>1. left' >= 1 /\ left' <= countOfItemsToEvict(table, itemsInUse)'
        <5>1. CASE isEvictable(table[j])
          <6>1. left' = left - 1 /\ left # 1 /\ countOfItemsToEvict(table, itemsInUse)' = countOfItemsToEvict(table, itemsInUse) - 1
            BY <2>2, <3>5, <5>1, Zenon
          <6> SUFFICES ASSUME NEW CONSTANT l \in Int, l = left,
                              NEW CONSTANT c \in Int, c = countOfItemsToEvict(table, itemsInUse)
                       PROVE  left' >= 1 /\ left' <= countOfItemsToEvict(table, itemsInUse)'
            BY <1>2, <2>3, Zenon
          <6>2. l >= 1 /\ l <= c /\ l # 1 /\ left' = l - 1 /\ countOfItemsToEvict(table, itemsInUse)' = c - 1
            BY <3>2, <6>1, Zenon
          <6>3. l - 1 >= 1 /\ l - 1 <= c - 1
            BY <6>2
          <6> QED
            BY <6>2, <6>3, Zenon
        <5>2. CASE ~isEvictable(table[j])
          BY <2>2, <3>2, <3>5, <5>2, Zenon
        <5> QED
          BY <5>1, <5>2, Zenon
      <4>2. Bounded(t)' /\ pc'[t] \in LoopAt
        BY <3>1, <3>5, <4>1, Zenon DEF Bounded, LoopAt
      <4> QED
        BY <2>1, <3>5, <4>2, LoopsOne, Zenon
    <3> QED
      BY <3>3, <3>4, <3>5, Zenon
  <2>5. CASE FlushStep(t)
    <3>1. pc[t] = "flush" /\ left > 0 /\ left' = left - 1 /\ UNCHANGED <<mutex, pc>>
      BY <2>5, Zenon DEF FlushStep
    <3>2. left <= count(table)
      BY <2>1, <3>1, Zenon DEF Bounded
    <3>3. left' >= 0 /\ left' <= count(table)'
      <4> SUFFICES ASSUME NEW CONSTANT l \in Int, l = left, NEW CONSTANT c \in Nat, c = count(table)
                   PROVE  left' >= 0 /\ left' <= count(table)'
        BY <1>2, <2>3, Zenon
      <4>1. l > 0 /\ l <= c /\ left' = l - 1 /\ (count(table)' = c \/ count(table)' = c - 1)
        BY <2>2, <3>1, <3>2, Zenon
      <4>2. l - 1 >= 0 /\ l - 1 <= c /\ l - 1 <= c - 1
        BY <4>1
      <4> QED
        BY <4>1, <4>2, Zenon
    <3>4. Bounded(t)' /\ pc'[t] \in LoopAt
      BY <3>1, <3>3, Zenon DEF Bounded, LoopAt
    <3> QED
      BY <2>1, <3>1, <3>4, LoopsOne, Zenon
  <2> QED
    BY <1>8, <2>4, <2>5, Zenon
<1>9. CASE Cleanup
  <2>1. mutex' = mutex /\ pc' = pc /\ \A w \in Thread : pc[w] \notin LoopAt
    BY <1>9, Zenon DEF Cleanup, LoopAt
  <2>2. mutex \notin Thread
    BY <1>1, <2>1, Zenon DEF Loops, LoopAt
  <2> QED
    BY <2>1, <2>2, LoopsNone, Zenon
<1>10. CASE UNCHANGED vars
  <2>1. UNCHANGED <<mutex, table, itemsInUse, policy, left, pc>>
    BY <1>10, Zenon DEF vars, cacheVars, loop
  <2> QED
    BY <1>1, <2>1, LoopsSame, Zenon
<1> QED
  BY <1>3, <1>4, <1>5, <1>6, <1>7, <1>8, <1>9, <1>10, ZenonT(40) DEF Next, ThreadStep

(* The next element is the first one past fEvictPos, or the first of all. *)
LEMMA NextElementIs ==
    ASSUME Sizes, TypeOK, Stored(table) # {}
    PROVE  /\ nextElement \in Stored(table)
           /\ \/ nextElement > evictPos /\ \A i \in Stored(table) : i > evictPos => nextElement <= i
              \/ (\A i \in Stored(table) : ~(i > evictPos)) /\ \A i \in Stored(table) : nextElement <= i
<1> DEFINE after == {k \in Stored(table) : k > evictPos}
           among == IF after = {} THEN Stored(table) ELSE after
           least == CHOOSE k \in among : \A j \in among : k <= j
<1>1. among \in SUBSET Key /\ among # {} /\ among \subseteq Stored(table)
  BY Zenon DEF Stored
<1>2. \E k \in among : \A j \in among : k <= j
  BY <1>1, LeastKey, Zenon
<1>3. least \in among /\ \A j \in among : least <= j
  BY <1>2, Zenon
<1>4. nextElement = least
  BY <1>1, Zenon DEF nextElement
<1> HIDE DEF least
<1> QED
  BY <1>1, <1>3, <1>4, Zenon

(* A step of the iteration passes one element. *)
LEMMA AfterStep ==
    ASSUME Sizes, TypeOK, NEW k \in Stored(table), k # nextElement
    PROVE  Cardinality(After(k, nextElement)) = Cardinality(After(k, evictPos)) + 1
<1>1. /\ nextElement \in Stored(table)
      /\ \/ nextElement > evictPos /\ \A i \in Stored(table) : i > evictPos => nextElement <= i
         \/ (\A i \in Stored(table) : ~(i > evictPos)) /\ \A i \in Stored(table) : nextElement <= i
  BY NextElementIs, Zenon
<1>2. Stored(table) \subseteq Nat /\ Stored(table) \in SUBSET Key /\ evictPos \in Int
  BY CacheAssumption DEF TypeOK, Stored, Key
<1> SUFFICES ASSUME NEW q \in Stored(table), q = nextElement, NEW p \in Int, p = evictPos
             PROVE  Cardinality(After(k, q)) = Cardinality(After(k, p)) + 1
  BY <1>1, <1>2, Zenon
<1>3. After(k, q) = After(k, p) \cup {q} /\ q \notin After(k, p)
  <2>1. CASE q > p /\ \A i \in Stored(table) : i > p => q <= i
    <3>1. k \in Nat /\ q \in Nat
      BY <1>2, Zenon
    <3>2. CASE k <= p
      <4>1. k <= q
        BY <2>1, <3>1, <3>2
      <4>2. After(k, p) = {i \in Stored(table) : k < i /\ i <= p} /\ After(k, q) = {i \in Stored(table) : k < i /\ i <= q}
        BY <3>2, <4>1, Zenon DEF After
      <4>3. \A i \in Stored(table) : i \in Nat /\ (k < i /\ i <= q <=> (k < i /\ i <= p) \/ i = q)
        BY <1>2, <2>1, <3>1, <3>2
      <4>4. ~(q <= p)
        BY <2>1, <3>1
      <4> QED
        BY <4>2, <4>3, <4>4, Zenon
    <3>3. CASE ~(k <= p)
      <4>1. k > q /\ ~(k <= q)
        BY <2>1, <3>1, <3>3
      <4>2. After(k, p) = {i \in Stored(table) : k < i \/ i <= p} /\ After(k, q) = {i \in Stored(table) : k < i \/ i <= q}
        BY <3>3, <4>1, Zenon DEF After
      <4>3. \A i \in Stored(table) : i \in Nat /\ (k < i \/ i <= q <=> (k < i \/ i <= p) \/ i = q)
        BY <1>2, <2>1, <3>1, <3>3, <4>1, SMTT(40)
      <4>4. ~(k < q \/ q <= p)
        BY <2>1, <3>1, <4>1
      <4> QED
        BY <4>2, <4>3, <4>4, Zenon
    <3> QED
      BY <3>2, <3>3, Zenon
  <2>2. CASE (\A i \in Stored(table) : ~(i > p)) /\ \A i \in Stored(table) : q <= i
    <3>1. k \in Nat /\ q \in Nat
      BY <1>2
    <3>2. k <= p /\ k > q /\ ~(k <= q)
      BY <2>2, <3>1
    <3>3. After(k, p) = {i \in Stored(table) : k < i /\ i <= p} /\ After(k, q) = {i \in Stored(table) : k < i \/ i <= q}
      BY <3>2, Zenon DEF After
    <3>4. \A i \in Stored(table) : i \in Nat /\ (k < i \/ i <= q <=> (k < i /\ i <= p) \/ i = q)
      BY <1>2, <2>2, <3>1, <3>2
    <3>5. ~(k < q)
      BY <3>1, <3>2
    <3> QED
      BY <3>3, <3>4, <3>5, Zenon
  <2> QED
    BY <1>1, <2>1, <2>2, Zenon
<1>4. After(k, p) \in SUBSET Key
  BY <1>2, Zenon DEF After
<1>5. q \in Key \ After(k, p)
  BY <1>2, <1>3, Zenon
<1>6. Cardinality(After(k, p) \cup {q}) = Cardinality(After(k, p)) + 1
  BY <1>4, <1>5, FiniteSorts, ZenonT(40) DEF Counted
<1> QED
  BY <1>3, <1>6, Zenon

(* No element is further away than the others are many. *)
LEMMA AfterBound ==
    ASSUME Sizes, TypeOK, NEW k \in Stored(table)
    PROVE  /\ Cardinality(After(k, evictPos)) \in Nat
           /\ Cardinality(After(k, evictPos)) < count(table)
<1>1. Stored(table) \subseteq Nat /\ Stored(table) \in SUBSET Key /\ evictPos \in Int
  BY CacheAssumption DEF TypeOK, Stored, Key
<1>2. After(k, evictPos) \in SUBSET (Stored(table) \ {k}) /\ k \in Key
  BY <1>1 DEF After
<1>3. /\ Cardinality(After(k, evictPos)) \in Nat /\ Cardinality(Stored(table) \ {k}) \in Nat
      /\ Cardinality(After(k, evictPos)) <= Cardinality(Stored(table) \ {k})
  <2>1. After(k, evictPos) \in SUBSET Key /\ Stored(table) \ {k} \in SUBSET Key
    BY <1>1, <1>2, Zenon
  <2> QED
    BY <1>2, <2>1, FiniteSorts, Zenon DEF Counted
<1>4. Cardinality(Stored(table)) = Cardinality(Stored(table) \ {k}) + 1
  <2>1. /\ Stored(table) \ {k} \in SUBSET Key /\ k \in Key \ (Stored(table) \ {k})
        /\ Stored(table) = (Stored(table) \ {k}) \cup {k}
    BY <1>1, <1>2, Zenon
  <2>2. Cardinality((Stored(table) \ {k}) \cup {k}) = Cardinality(Stored(table) \ {k}) + 1
    BY <2>1, FiniteSorts, Zenon DEF Counted
  <2> QED
    BY <2>1, <2>2, Zenon
<1> QED
  BY <1>3, <1>4 DEF count

LEMMA PassesNext ==
    ASSUME Sizes, Inv1, Inv3, References, Elements, Passes, [Next]_vars,
           \A u \in Thread, k \in Key : WithoutMutex(u) /\ table' = table /\ table[k] # Null /\ Blocked(k) => Blocked(k)'
    PROVE  Passes'
<1>1. TypeOK /\ Loops
  BY Zenon DEF Inv1, Inv3
<1>2. pc \in [Thread -> Pc] /\ left \in Int /\ iter \in Int /\ Null \notin Thread
  BY <1>1, NullApart, Zenon DEF TypeOK
<1>3. ASSUME NEW CONSTANT t \in Thread, pc[t] = "flush", UNCHANGED <<table, evictPos, left, iter>>,
             \A k \in Key : table[k] # Null /\ Blocked(k) => Blocked(k)'
      PROVE  iter' >= 0 /\ (iter' = 0 => Visited')
  <2>1. /\ Stored(table)' = Stored(table) /\ count(table)' = count(table)
        /\ \A k \in Key : After(k, evictPos)' = After(k, evictPos)
    BY <1>3, Zenon DEF Stored, count, After
  <2>2. Stored(table) \subseteq Key /\ \A k \in Stored(table) : table[k] # Null
    BY Zenon DEF Stored
  <2>3. ASSUME Visited PROVE Visited'
    BY <1>3, <2>1, <2>2, <2>3, Zenon DEF Visited
  <2> QED
    BY <1>3, <2>3, Zenon DEF Passes
<1>4. ASSUME NEW CONSTANT t \in Thread, left' = count(table), table' = table, iter' = 0
      PROVE  iter' >= 0 /\ (iter' = 0 => Visited')
  <2>1. count(table)' = count(table) /\ count(table) \in Nat /\ Stored(table)' = Stored(table)
    BY <1>4, SizeType, Zenon DEF count, Stored
  <2>2. \A k \in Stored(table) : Cardinality(After(k, evictPos)') \in Nat
    <3> SUFFICES ASSUME NEW CONSTANT k, k \in Stored(table) PROVE Cardinality(After(k, evictPos)') \in Nat
      OBVIOUS
    <3>1. After(k, evictPos)' \in SUBSET Key
      BY <1>4, Zenon DEF After, Stored
    <3> QED
      BY <3>1, FiniteSorts, Zenon DEF Counted
  <2>3. Visited'
    BY <1>4, <2>1, <2>2 DEF Visited
  <2> QED
    BY <1>4, <2>3
<1>5. ASSUME NEW CONSTANT t \in Thread, FlushStep(t) PROVE iter' >= 0 /\ (iter' = 0 => Visited')
  <2>1. pc[t] = "flush" /\ left > 0 /\ left' = left - 1
    BY <1>5, Zenon DEF FlushStep
  <2>2. iter >= 0 /\ (iter = 0 => Visited)
    BY <2>1, Zenon DEF Passes
  <2> SUFFICES ASSUME NEW CONSTANT j \in Key, table[j] # Null, table[j].val \in Value, j = nextElement,
                      visitElement(isEvictable(table[j]))
               PROVE  iter' >= 0 /\ (iter' = 0 => Visited')
    BY <1>5, ElementVisited, Zenon
  <2>3. CASE isEvictable(table[j])
    <3>1. iter' = iter + 1
      BY <1>5, <2>3, Zenon DEF FlushStep
    <3> QED
      BY <1>2, <2>2, <3>1
  <2>4. CASE ~isEvictable(table[j])
    <3>1. UNCHANGED <<iter, table, soft, hard, cached, pc, val, zero>> /\ evictPos' = j
      BY <1>2, <1>5, <2>4, NullApart, ZenonT(40) DEF FlushStep, visitElement, objVars, locals
    <3>2. Blocked(j)
      <4>1. inProgress(table[j]) \/ (table[j].master /\ ~(soft[table[j].val] = 1 /\ hard[table[j].val] = 0))
        BY <2>4, Zenon DEF isEvictable
      <4>2. hard[table[j].val] \in Nat
        BY RefsCounted, Zenon DEF Inv1, Inv3
      <4> QED
        BY <4>1, <4>2 DEF Blocked
    <3>3. \A k \in Key : Blocked(k)' <=> Blocked(k)
      BY <3>1, Zenon DEF Blocked, inProgress, Owes
    <3>4. /\ Stored(table)' = Stored(table) /\ count(table)' = count(table) /\ count(table) \in Nat
          /\ \A k \in Key : After(k, evictPos)' = After(k, j)
      BY <3>1, SizeType, Zenon DEF Stored, count, After
    <3>5. ASSUME iter = 0, NEW CONSTANT k \in Key, k \in Stored(table),
                 Cardinality(After(k, j)) < count(table) - left'
          PROVE  Blocked(k)
      <4>1. CASE k = j
        BY <3>2, <4>1, Zenon
      <4>2. CASE k # j
        <5>1. Cardinality(After(k, j)) = Cardinality(After(k, evictPos)) + 1 /\ Cardinality(After(k, evictPos)) \in Nat
          BY <1>1, <3>5, <4>2, AfterStep, AfterBound, ZenonT(40)
        <5>2. Cardinality(After(k, evictPos)) < count(table) - left
          <6> SUFFICES ASSUME NEW CONSTANT c \in Nat, c = Cardinality(After(k, evictPos)),
                              NEW CONSTANT n \in Nat, n = count(table), NEW CONSTANT l \in Int, l = left
                       PROVE  c < n - l
            BY <1>2, <3>4, <5>1, Zenon
          <6>1. c + 1 < n - (l - 1)
            BY <2>1, <3>5, <5>1, Zenon
          <6> QED
            BY <6>1
        <5> QED
          BY <2>2, <3>5, <5>2, Zenon DEF Visited
      <4> QED
        BY <4>1, <4>2, Zenon
    <3>6. ASSUME iter = 0 PROVE Visited'
      <4>1. Stored(table) \subseteq Key
        BY Zenon DEF Stored
      <4> QED
        BY <3>3, <3>4, <3>5, <3>6, <4>1, Zenon DEF Visited
    <3> QED
      BY <2>2, <3>1, <3>6, Zenon
  <2> QED
    BY <2>3, <2>4, Zenon
<1>6. ASSUME NEW CONSTANT w \in Thread, pc'[w] = "flush", NEW CONSTANT u \in Thread, ThreadStep(u)
      PROVE  iter' >= 0 /\ (iter' = 0 => Visited')
  <2>1. CASE Flush(u)
    BY <1>4, <2>1, Zenon DEF Flush, cacheVars
  <2>2. CASE FlushStep(u)
    BY <1>5, <2>2, Zenon
  <2>3. CASE FlushPassEnd(u)
    <3>1. mutex = u /\ pc[u] = "flush"
      BY <1>1, <2>3, Zenon DEF FlushPassEnd, Loops
    <3>2. pc[w] = "flush" \/ w = u
      BY <1>2, <1>6, <2>3, Zenon DEF FlushPassEnd
    <3>3. w = u
      BY <1>1, <3>1, <3>2, Zenon DEF Loops
    <3>4. left' = count(table) /\ iter' = 0 /\ table' = table
      BY <1>2, <1>6, <2>3, <3>3, Zenon DEF FlushPassEnd, cacheVars
    <3> QED
      BY <1>4, <3>4, Zenon
  <2>4. ASSUME \/ PollFetch(u) \/ PollWait(u) \/ PollMiss(u) \/ PollMissFails(u)
               \/ PutIfAbsentAndGet(u) \/ DecrementItemsInUse(u)
               \/ \E p \in Policies : SetEvictionPolicy(u, p)
        PROVE  FALSE
    <3>1. Lockable
      BY <2>4, Zenon DEF PollFetch, PollWait, PollMiss, PollMissFails, PutIfAbsentAndGet, DecrementItemsInUse, SetEvictionPolicy
    <3>2. pc[w] \notin LoopAt
      BY <1>1, <3>1, LockFree, Zenon
    <3> QED
      BY <1>2, <1>6, <2>4, <3>2, ZenonT(40) DEF LoopAt, PollFetch, PollWait, PollMiss, PollMissFails, PutIfAbsentAndGet,
            DecrementItemsInUse, runEvictionSlice, AfterPut, SetEvictionPolicy
  <2>5. CASE SliceStep(u)
    <3>1. mutex = u /\ pc[u] \in {"putSlice", "relSlice"}
      BY <1>1, <2>5, Zenon DEF SliceStep, Loops
    <3>2. pc[w] = "flush" /\ w # u
      BY <1>2, <1>6, <2>5, <3>1, Zenon DEF SliceStep, AfterPut
    <3> QED
      BY <1>1, <3>1, <3>2, Zenon DEF Loops
  <2>6. ASSUME WithoutMutex(u) PROVE iter' >= 0 /\ (iter' = 0 => Visited')
    <3>1. UNCHANGED <<table, evictPos, left, iter>>
      BY <2>6, Zenon DEF WithoutMutex, Get, Release, Share, SpuriousWakeup, CreateAlias, CreateNew, CreateFails, Return, ReturnToCreate,
            DecHard, DecTotal, ReadCachePtr, Delete, cacheVars, loop
    <3>2. pc[w] = "flush"
      BY <1>2, <1>6, <2>6, ZenonT(40) DEF WithoutMutex, Get, Release, Share, SpuriousWakeup, CreateAlias, CreateNew, CreateFails, Return,
            ReturnToCreate, DecHard, DecTotal, ReadCachePtr, Delete
    <3>3. \A k \in Key : table[k] # Null /\ Blocked(k) => Blocked(k)'
      BY <2>6, <3>1, Zenon
    <3> QED
      BY <1>3, <3>1, <3>2, <3>3, Zenon
  <2> QED
    BY <1>6, <2>1, <2>2, <2>3, <2>4, <2>5, <2>6, ZenonT(40) DEF ThreadStep, WithoutMutex
<1>7. ASSUME NEW CONSTANT w \in Thread, pc'[w] = "flush", Cleanup PROVE FALSE
  BY <1>7, Zenon DEF Cleanup
<1>8. ASSUME NEW CONSTANT w \in Thread, pc'[w] = "flush", UNCHANGED vars PROVE iter' >= 0 /\ (iter' = 0 => Visited')
  <2>1. UNCHANGED <<table, evictPos, left, iter, soft, hard, cached, pc, val, zero>>
    BY <1>8, Zenon DEF vars, cacheVars, objVars, locals, loop
  <2>2. \A k \in Key : Blocked(k) => Blocked(k)'
    BY <2>1, Zenon DEF Blocked, inProgress, Owes
  <2> QED
    BY <1>3, <1>8, <2>1, <2>2, Zenon
<1> QED
  BY <1>6, <1>7, <1>8, Zenon DEF Next, Passes

(* What a finished flush() leaves. *)
LEMMA FlushEnds ==
    ASSUME Sizes, Inv1, Inv3, References, Elements, OneMaster, Passes, [Next]_vars, NEW CONSTANT t \in Thread, pc[t] = "flush", pc'[t] = "idle",
           NEW CONSTANT k \in Stored(table), ~inProgress(table[k])
    PROVE  /\ table[k].master /\ soft[table[k].val] = 1
           /\ \/ hard[table[k].val] > 0
              \/ \E u \in Thread : val[u] = table[k].val /\ pc[u] \in {"decTotal", "readCache", "lockDec"}
<1>1. TypeOK /\ Loops /\ RefCountsExact
  BY Zenon DEF Inv1, Inv3
<1>2. pc \in [Thread -> Pc]
  BY <1>1, Zenon DEF TypeOK
<1>3. left = 0 /\ iter = 0
  <2>1. PICK u \in Thread : ThreadStep(u)
    BY Zenon DEF Next, vars, Cleanup
  <2>2. FlushPassEnd(t)
    <3>1. ASSUME u # t PROVE FALSE
      <4>1. pc'[t] = pc[t] \/ pc'[t] = "poll"
        BY <1>2, <2>1, <3>1, ZenonT(40) DEF ThreadStep, Get, Release, Share, PollFetch, PollWait, PollMiss, PollMissFails,
              SpuriousWakeup, CreateAlias, CreateNew, CreateFails, PutIfAbsentAndGet, Return, ReturnToCreate, DecHard,
              DecTotal, ReadCachePtr, DecrementItemsInUse, Delete, SliceStep, Flush, FlushStep, FlushPassEnd,
              SetEvictionPolicy, runEvictionSlice
      <4> QED
        BY <4>1, Zenon
    <3>2. ThreadStep(t)
      BY <2>1, <3>1, Zenon
    <3>3. FlushStep(t) \/ FlushPassEnd(t)
      BY <3>2, Zenon DEF ThreadStep, Get, Release, Share, PollFetch, PollWait, PollMiss, PollMissFails,
              SpuriousWakeup, CreateAlias, CreateNew, CreateFails, PutIfAbsentAndGet, Return, ReturnToCreate, DecHard,
              DecTotal, ReadCachePtr, DecrementItemsInUse, Delete, SliceStep, Flush, SetEvictionPolicy
    <3> QED
      BY <3>3, Zenon DEF FlushStep
  <2> QED
    BY <2>2, Zenon DEF FlushPassEnd
<1>4. \A i \in Stored(table) : Blocked(i)
  <2>1. Visited
    BY <1>3, ZenonT(40) DEF Passes
  <2>2. \A i \in Stored(table) : Cardinality(After(i, evictPos)) < count(table) - left
    BY <1>1, <1>3, AfterBound, SizeType
  <2> QED
    BY <2>1, <2>2, Zenon DEF Visited
<1>5. k \in Key /\ table[k] # Null /\ table[k].master /\ Blocked(k)
  BY <1>4, Zenon DEF Stored, Blocked
<1>6. table[k].val \in Obj
  BY <1>5, Zenon DEF OneMaster
<1> SUFFICES ASSUME NEW CONSTANT o \in Obj, o = table[k].val
             PROVE  soft[o] = 1 /\ (hard[o] > 0 \/ \E u \in Thread : val[u] = o /\ pc[u] \in {"decTotal", "readCache", "lockDec"})
  BY <1>5, <1>6, Zenon
<1>7. o \in Value /\ o # NoValue
  BY NullApart, Zenon
<1>8. {i \in Stored(table) : table[i].val = o} = {k}
  <2> SUFFICES ASSUME NEW i \in Stored(table), table[i].val = o PROVE i = k
    OBVIOUS
  <2>1. i \in Key /\ EntryOf(i, o) /\ EntryOf(k, o)
    BY <1>5, Zenon DEF Stored, EntryOf
  <2>2. table[i].master
    BY <1>4, <1>7, Zenon DEF Blocked, inProgress
  <2> QED
    BY <1>5, <2>1, <2>2, ZenonT(40) DEF OneMaster
<1>9. soft[o] = Cardinality({k}) + 0
  BY <1>1, <1>7, <1>8, ZenonT(40) DEF RefCountsExact, TableRefs
<1>10. soft[o] = 1
  BY <1>5, <1>9, FiniteSorts, Single
<1> QED
  BY <1>5, <1>10, Zenon DEF Blocked, Owes

(* What a slice of eviction leaves. *)
LEMMA SliceEvicts ==
    ASSUME Sizes, Inv1, Inv3, References, Elements, [Next]_vars, NEW CONSTANT t \in Thread,
           pc[t] \in {"putSlice", "relSlice"}, table' # table, mutex = t
    PROVE  countOfItemsToEvict(table', itemsInUse) >= 0
<1>1. TypeOK /\ Loops
  BY Zenon DEF Inv1, Inv3
<1>2. ~Lockable /\ left >= 1 /\ left <= countOfItemsToEvict(table, itemsInUse)
  BY <1>1, NullApart, Zenon DEF Loops, Lockable
<1>3. PICK u \in Thread : ThreadStep(u)
  BY Zenon DEF Next, vars, cacheVars, Cleanup
<1>4. SliceStep(u) \/ FlushStep(u)
  BY <1>2, <1>3, ZenonT(40) DEF ThreadStep, Get, Release, Share, PollFetch, PollWait, PollMiss, PollMissFails,
        SpuriousWakeup, CreateAlias, CreateNew, CreateFails, PutIfAbsentAndGet, Return, ReturnToCreate, DecHard,
        DecTotal, ReadCachePtr, DecrementItemsInUse, Delete, Flush, FlushPassEnd, SetEvictionPolicy, cacheVars
<1> SUFFICES ASSUME NEW CONSTANT j \in Key, table[j] # Null, j = nextElement, visitElement(isEvictable(table[j]))
             PROVE  countOfItemsToEvict(table', itemsInUse) >= 0
  BY <1>4, ElementVisited, Zenon
<1>5. table' = [table EXCEPT ![j] = Null]
  BY Zenon DEF visitElement
<1>6. UNCHANGED <<itemsInUse, policy>>
  BY <1>4, Zenon DEF SliceStep, FlushStep
<1>7. /\ countOfItemsToEvict(table, itemsInUse) \in Int
      /\ countOfItemsToEvict(table', itemsInUse) = countOfItemsToEvict(table, itemsInUse) - 1
  BY <1>1, <1>5, <1>6, EvictOne, Zenon
<1>8. ASSUME NEW CONSTANT l \in Int, l = left, NEW CONSTANT n \in Int, n = countOfItemsToEvict(table, itemsInUse)
      PROVE  n - 1 >= 0
  BY <1>2, <1>8
<1>9. left \in Int
  BY <1>1, Zenon DEF TypeOK
<1> QED
  BY <1>7, <1>8, <1>9, Zenon

-----------------------------------------------------------------------------
(* The initial states. *)

LEMMA Inv3Init == Sizes /\ Init => Inv3
<1> SUFFICES ASSUME Sizes, Init PROVE Inv3
  OBVIOUS
<1>1. /\ \A t \in Thread : /\ pc[t] = "idle" /\ val[t] = Null /\ job[t] = <<>> /\ st[t] = "ZERO"
                           /\ \A k \in Key : ptr[t][k] = Null
      /\ \A k \in Key : table[k] = Null
      /\ zero = {} /\ gone = {} /\ cached = {} /\ live = {NoValue} /\ itemsInUse = 0 /\ mutex = Null
      /\ \A o \in Value : hard[o] = 0 /\ soft[o] = (IF o = NoValue THEN 1 ELSE 0) /\ total[o] = soft[o]
  BY Zenon DEF Init, initialRefs
<1>2. Stored(table) = {}
  BY <1>1, ZenonT(40) DEF Stored
<1>3. RefCountsExact
  <2> SUFFICES ASSUME NEW o \in Value
               PROVE  /\ hard[o] = ClientRefs(o) + InHand(o, {"put", "putSlice", "return", "decHard"})
                      /\ soft[o] = TableRefs(o) + (IF o = NoValue THEN 1 ELSE 0)
                      /\ total[o] = hard[o] + soft[o] + InHand(o, {"decTotal"})
    BY Zenon DEF RefCountsExact
  <2>1. TableRefs(o) = 0
    BY <1>2, Nothing, Zenon DEF TableRefs
  <2>2. ClientRefs(o) = 0
    <3>1. {tk \in Thread \X Key : ptr[tk[1]][tk[2]] = o} = {}
      BY <1>1, NullApart
    <3> QED
      BY <3>1, Nothing, ZenonT(40) DEF ClientRefs
  <2>3. InHand(o, {"put", "putSlice", "return", "decHard"}) = 0 /\ InHand(o, {"decTotal"}) = 0
    <3>1. {t \in Thread : val[t] = o /\ pc[t] \in {"put", "putSlice", "return", "decHard"}} = {}
      BY <1>1, Zenon
    <3>2. {t \in Thread : val[t] = o /\ pc[t] \in {"decTotal"}} = {}
      BY <1>1, Zenon
    <3> QED
      BY <3>1, <3>2, Nothing, Zenon DEF InHand
  <2> QED
    BY <1>1, <2>1, <2>2, <2>3
<1>4. Lives
  BY <1>1, NullApart, SMTT(40) DEF Lives, LiveIffReferenced, Deleting
<1>5. Fresh /\ Masters
  BY <1>1, NullApart DEF Fresh, Masters
<1>6. Statuses /\ Calls
  BY <1>1, Zenon DEF Statuses, Calls
<1>7. Loops
  BY <1>1, NullApart, ZenonT(40) DEF Loops
<1>8. ItemsInUseExact
  <2>1. {o \in live \cap cached : hard[o] > 0} = {}
    BY <1>1, Zenon
  <2>2. {t \in zero : pc[t] \in {"decTotal", "readCache", "lockDec"} /\ val[t] \in cached} = {}
    BY <1>1, Zenon
  <2> QED
    BY <1>1, <2>1, <2>2, Nothing DEF ItemsInUseExact
<1> QED
  BY <1>3, <1>4, <1>5, <1>6, <1>7, <1>8, Zenon DEF Inv3

LEMMA RootsInit == Init => Roots /\ OneMaster /\ Passes
<1> SUFFICES ASSUME Init PROVE Roots /\ OneMaster /\ Passes
  OBVIOUS
<1>1. /\ \A t \in Thread : /\ pc[t] = "idle" /\ val[t] = Null /\ job[t] = <<>>
                           /\ \A k \in Key : ptr[t][k] = Null
      /\ \A k \in Key : table[k] = Null
  BY ZenonT(40) DEF Init
<1>2. Owned /\ Entered /\ (\A t \in Thread : Got(t)) /\ Chains /\ Alone
  BY <1>1, NullApart DEF Owned, Entered, Got, Chains, Chain, Alone, EntryOf
<1>3. OneMaster /\ Passes
  BY <1>1, Zenon DEF OneMaster, Passes, EntryOf
<1> QED
  BY <1>2, <1>3, Zenon DEF Roots
=============================================================================
