-------------------------- MODULE TocSearchProofs --------------------------
(***************************************************************************)
(* The search of TocSearch is correct for every table and every name.      *)
(***************************************************************************)
EXTENDS TocSearch, TLAPS

-----------------------------------------------------------------------------
(* Facts about the order of strings.                                       *)

\* The order is asymmetric: strcmp() cannot say both "less" and "greater".
LEMMA LessAsymmetric ==
    ASSUME NEW a \in String, NEW b \in String, Less(a, b), Less(b, a)
    PROVE  FALSE
<1>1. PICK d \in 0 .. L : a[d] < b[d] /\ \A k \in 0 .. d - 1 : a[k] = b[k]
  BY DEF Less
<1>2. PICK e \in 0 .. L : b[e] < a[e] /\ \A k \in 0 .. e - 1 : b[k] = a[k]
  BY DEF Less
<1>3. a[d] \in Nat /\ b[d] \in Nat /\ a[e] \in Nat /\ b[e] \in Nat
  BY TocAssumption DEF String
<1>4. d < e => a[d] = b[d]
  BY <1>2, TocAssumption
<1>5. e < d => a[e] = b[e]
  BY <1>1, TocAssumption
<1> QED
  BY <1>1, <1>2, <1>3, <1>4, <1>5, TocAssumption

\* What s shares with two entries it shares with every entry between them: this
\* is why the search may skip MIN(startPrefixLength, limitPrefixLength).
LEMMA Squeeze ==
    ASSUME NEW lo \in String, NEW n \in String, NEW hi \in String, NEW t \in String,
           NEW m \in 0 .. L, Less(lo, n), Less(n, hi),
           \A k \in 0 .. m - 1 : t[k] = lo[k],
           \A k \in 0 .. m - 1 : t[k] = hi[k]
    PROVE  \A k \in 0 .. m - 1 : t[k] = n[k]
<1>1. PICK d \in 0 .. L : lo[d] < n[d] /\ \A k \in 0 .. d - 1 : lo[k] = n[k]
  BY DEF Less
<1>2. PICK e \in 0 .. L : n[e] < hi[e] /\ \A k \in 0 .. e - 1 : n[k] = hi[k]
  BY DEF Less
<1>3. \A k \in 0 .. L : lo[k] \in Nat /\ n[k] \in Nat /\ hi[k] \in Nat /\ t[k] \in Nat
  BY TocAssumption DEF String
<1>4. CASE m <= d
  BY <1>1, <1>4, TocAssumption
<1>5. CASE m <= e
  BY <1>2, <1>5, TocAssumption
<1>6. CASE d < m /\ e < m
  <2>1. lo[d] = hi[d] /\ lo[e] = hi[e]
    BY <1>6, TocAssumption
  <2>2. d < e => n[d] = hi[d]
    BY <1>2, TocAssumption
  <2>3. e < d => n[e] = lo[e]
    BY <1>1, TocAssumption
  <2> QED
    BY <2>1, <2>2, <2>3, <1>1, <1>2, <1>3, TocAssumption
<1> QED
  BY <1>4, <1>5, <1>6, TocAssumption

\* Strings that are the same up to a common terminating 0 are equal.
LEMMA SameToTheEnd ==
    ASSUME NEW a \in String, NEW b \in String, NEW p \in 0 .. L,
           \A k \in 0 .. p - 1 : a[k] = b[k], a[p] = 0, b[p] = 0
    PROVE  a = b
<1>1. \A k \in 0 .. L : p < k => a[k] = 0 /\ b[k] = 0
  BY DEF String
<1>2. \A k \in 0 .. L : a[k] = b[k]
  <2> SUFFICES ASSUME NEW k \in 0 .. L PROVE a[k] = b[k]
    OBVIOUS
  <2>1. CASE k < p
    BY <2>1, TocAssumption
  <2>2. CASE p <= k
    BY <2>2, <1>1, TocAssumption
  <2> QED
    BY <2>1, <2>2, TocAssumption
<1>3. a \in [0 .. L -> Char] /\ b \in [0 .. L -> Char]
  BY DEF String
<1>4. a = [k \in 0 .. L |-> a[k]] /\ b = [k \in 0 .. L |-> b[k]]
  BY <1>3
<1> QED
  BY <1>2, <1>4

-----------------------------------------------------------------------------
(* The inductive invariant.                                                *)

Shares(n, p) == \A k \in 0 .. p - 1 : s[k] = n[k] /\ s[k] # 0

Types ==
    /\ s \in String
    /\ count \in Nat
    /\ toc \in Tables(count)
    /\ pc \in {"first", "last", "middle", "done"}
    /\ start \in Int /\ limit \in Int /\ i \in Int
    /\ result \in Int
    /\ pl \in 0 .. L
    /\ startPrefixLength \in 0 .. L
    /\ limitPrefixLength \in 0 .. L

\* The entry that is compared, and what is known of it.
Compares ==
    pc # "done" => i \in 0 .. count - 1 /\ Shares(toc[i], pl) /\ result = -1

AtFirst == pc = "first" => start = 0 /\ limit = count /\ i = 0

\* Entry 0, and then entry start - 1, was compared and is not s.
AtLast ==
    pc = "last" => /\ start = 1 /\ limit = count - 1 /\ i = count - 1
                   /\ Shares(toc[0], startPrefixLength)
                   /\ toc[0] # s

AtMiddle ==
    pc = "middle" => /\ 1 <= start /\ start <= i /\ i < limit /\ limit <= count - 1
                     /\ Shares(toc[start - 1], startPrefixLength)
                     /\ Shares(toc[limit], limitPrefixLength)
                     /\ \A k \in 0 .. count - 1 : (k < start \/ limit <= k) => toc[k] # s

AtDone ==
    pc = "done" => \/ result \in 0 .. count - 1 /\ toc[result] = s
                   \/ result = -1 /\ \A k \in 0 .. count - 1 : toc[k] # s

IInv == Types /\ Compares /\ AtFirst /\ AtLast /\ AtMiddle /\ AtDone

\* Entries of the table are strings in order.
LEMMA TableOrder ==
    ASSUME Types, NEW j \in 0 .. count - 1
    PROVE  /\ toc[j] \in String
           /\ \A k \in 0 .. count - 1 : j < k => Less(toc[j], toc[k])
BY DEF Types, Tables

-----------------------------------------------------------------------------
(* The invariant holds.                                                    *)

\* A shorter prefix is part of a longer one.
LEMMA Shorter ==
    ASSUME NEW a \in Int, NEW b \in Int, a <= b
    PROVE  \A k \in 0 .. a - 1 : k \in 0 .. b - 1
OBVIOUS

\* The head of the loop: the new range leaves out only entries that are not s,
\* and the entry in its middle shares the shorter prefix.
LEMMA LoopHead ==
    ASSUME Types, result = -1,
           NEW from \in Int, NEW to \in Int, NEW f \in 0 .. L, NEW g \in 0 .. L,
           1 <= from, from <= count, 0 <= to, to <= count - 1,
           Shares(toc[from - 1], f), Shares(toc[to], g),
           \A k \in 0 .. count - 1 : (k < from \/ to <= k) => toc[k] # s,
           while(from, to, f, g)
    PROVE  IInv'
<1>1. /\ s' = s /\ count' = count /\ toc' = toc /\ result' = result
      /\ start' = from /\ limit' = to /\ startPrefixLength' = f /\ limitPrefixLength' = g
  BY DEF while
<1>2. CASE from < to
  <2>1. i' = (from + to) \div 2 /\ pl' = MIN(f, g) /\ pc' = "middle"
    BY <1>2 DEF while
  <2>2. i' \in Int /\ from <= i' /\ i' < to
    BY <2>1, <1>2
  <2>3. pl' \in 0 .. L /\ pl' <= f /\ pl' <= g
    BY <2>1, TocAssumption DEF MIN
  <2>4. Types'
    BY <1>1, <2>1, <2>2, <2>3 DEF Types
  <2>5. PICK m \in 0 .. L : m = pl' /\ m <= f /\ m <= g
    BY <2>3
  <2>6. Shares(toc[i'], m)
    <3>1. /\ from - 1 \in 0 .. count - 1 /\ to \in 0 .. count - 1 /\ i' \in 0 .. count - 1
          /\ from - 1 < i' /\ i' < to
      BY <2>2 DEF Types
    <3>2. PICK n \in String : n = toc[i'] /\ Less(toc[from - 1], n) /\ Less(n, toc[to])
      BY <3>1, TableOrder
    <3>3. s \in String /\ toc[from - 1] \in String /\ toc[to] \in String
      BY <3>1, TableOrder DEF Types
    <3>4. \A k \in 0 .. m - 1 : k \in 0 .. f - 1 /\ k \in 0 .. g - 1
      <4>1. f \in Int /\ g \in Int /\ m \in Int
        BY TocAssumption
      <4> QED
        BY <4>1, <2>5, Shorter
    <3>5. \A k \in 0 .. m - 1 : s[k] = toc[from - 1][k] /\ s[k] = toc[to][k] /\ s[k] # 0
      BY <3>4 DEF Shares
    <3>6. \A k \in 0 .. m - 1 : s[k] = n[k]
      <4>1. \A k \in 0 .. m - 1 : s[k] = toc[from - 1][k]
        BY <3>5
      <4>2. \A k \in 0 .. m - 1 : s[k] = toc[to][k]
        BY <3>5
      <4> QED
        <5>1. PICK lo \in String : lo = toc[from - 1]
          BY <3>3
        <5>2. PICK hi \in String : hi = toc[to]
          BY <3>3
        <5>3. PICK t \in String : t = s
          BY <3>3
        <5>4. /\ Less(lo, n) /\ Less(n, hi)
              /\ \A k \in 0 .. m - 1 : t[k] = lo[k]
              /\ \A k \in 0 .. m - 1 : t[k] = hi[k]
          BY <5>1, <5>2, <5>3, <3>2, <4>1, <4>2
        <5>5. \A k \in 0 .. m - 1 : t[k] = n[k]
          BY <5>4, Squeeze
        <5> QED
          BY <5>3, <5>5
    <3> QED
      BY <3>2, <3>5, <3>6 DEF Shares
  <2>7. Shares(toc[i], pl)'
    BY <1>1, <2>5, <2>6 DEF Shares
  <2>8. Compares'
    BY <1>1, <2>1, <2>2, <2>7 DEF Compares, Types
  <2>9. Shares(toc[start - 1], startPrefixLength)' /\ Shares(toc[limit], limitPrefixLength)'
    BY <1>1 DEF Shares
  <2>10. AtMiddle'
    BY <1>1, <2>1, <2>2, <2>9 DEF AtMiddle
  <2> QED
    BY <2>1, <2>4, <2>8, <2>10 DEF IInv, AtFirst, AtLast, AtDone
<1>3. CASE ~(from < to)
  <2>1. pc' = "done" /\ i' = i /\ pl' = pl
    BY <1>3 DEF while
  <2>2. Types'
    BY <1>1, <2>1 DEF Types
  <2>3. \A k \in 0 .. count - 1 : toc[k] # s
    BY <1>3
  <2> QED
    BY <1>1, <2>1, <2>2, <2>3 DEF IInv, Compares, AtFirst, AtLast, AtMiddle, AtDone
<1> QED
  BY <1>2, <1>3

\* A comparison that ended with a difference: s is not the entry, and comes
\* before or after it as cmp says.
LEMMA Different ==
    ASSUME IInv, pc # "done", compared
    PROVE  /\ s \in String /\ toc[i] \in String
           /\ cmp # 0 => toc[i] # s
           /\ cmp < 0 => Less(s, toc[i])
           /\ cmp > 0 => Less(toc[i], s)
           /\ cmp = 0 => toc[i] = s
<1>1. s \in String /\ toc[i] \in String /\ pl \in 0 .. L /\ Shares(toc[i], pl)
  BY TableOrder DEF IInv, Types, Compares
<1>2. s[pl] \in Nat /\ toc[i][pl] \in Nat
  BY <1>1, TocAssumption DEF String
<1>3. cmp # 0 => toc[i] # s
  BY <1>2 DEF cmp
<1>4. cmp < 0 => Less(s, toc[i])
  BY <1>1, <1>2 DEF cmp, Less, Shares
<1>5. cmp > 0 => Less(toc[i], s)
  BY <1>1, <1>2 DEF cmp, Less, Shares
<1>6. cmp = 0 => toc[i] = s
  <2> SUFFICES ASSUME cmp = 0 PROVE toc[i] = s
    OBVIOUS
  <2>1. s[pl] = 0 /\ toc[i][pl] = 0
    BY <1>2 DEF cmp, compared
  <2> QED
    BY <1>1, <2>1, SameToTheEnd DEF Shares
<1> QED
  BY <1>1, <1>3, <1>4, <1>5, <1>6

\* The invariant holds in every initial state.
LEMMA Initially == Init => IInv
<1> SUFFICES ASSUME Init PROVE IInv
  OBVIOUS
<1> USE TocAssumption
<1>1. Types
  BY DEF Init, Types
<1>2. Compares
  BY DEF Init, Compares, Shares
<1>3. AtFirst /\ AtLast /\ AtMiddle
  BY DEF Init, AtFirst, AtLast, AtMiddle
<1>4. AtDone
  BY DEF Init, AtDone
<1> QED
  BY <1>1, <1>2, <1>3, <1>4 DEF IInv

\* Every step keeps the invariant.
LEMMA Preserved == IInv /\ [Next]_vars => IInv'
<1> SUFFICES ASSUME IInv, [Next]_vars PROVE IInv'
  OBVIOUS
<1> USE TocAssumption
<1>0. Types
  BY DEF IInv
<1>1. CASE strcmpAfterPrefix
  <2>1. /\ pc # "done" /\ s[pl] = toc[i][pl] /\ s[pl] # 0 /\ pl' = pl + 1
        /\ UNCHANGED <<s, count, toc, pc, start, limit, startPrefixLength, limitPrefixLength, i, result>>
    BY <1>1 DEF strcmpAfterPrefix
  <2>2. pl \in 0 .. L /\ s[L] = 0 /\ Shares(toc[i], pl)
    BY <2>1 DEF IInv, Types, String, Compares
  <2>3. pl' \in 0 .. L
    BY <2>1, <2>2
  <2>4. Types'
    BY <2>1, <2>3, <1>0 DEF Types
  <2>5. \A k \in 0 .. pl : s[k] = toc[i][k] /\ s[k] # 0
    BY <2>1, <2>2 DEF Shares
  <2>6. Shares(toc[i], pl)'
    BY <2>1, <2>2, <2>5 DEF Shares
  <2>7. Compares'
    BY <2>1, <2>6 DEF IInv, Compares
  <2>8. AtFirst' /\ AtDone'
    BY <2>1 DEF IInv, AtFirst, AtDone
  <2>9. AtLast'
    BY <2>1 DEF IInv, AtLast, Shares
  <2>10. AtMiddle'
    BY <2>1 DEF IInv, AtMiddle, Shares
  <2> QED
    BY <2>4, <2>7, <2>8, <2>9, <2>10 DEF IInv
<1>2. CASE found
  <2>1. /\ pc # "done" /\ compared /\ cmp = 0 /\ result' = i /\ pc' = "done"
        /\ UNCHANGED <<s, count, toc, start, limit, startPrefixLength, limitPrefixLength, i, pl>>
    BY <1>2 DEF found
  <2>2. toc[i] = s /\ i \in 0 .. count - 1
    BY <2>1, Different DEF IInv, Compares
  <2>3. Types'
    BY <2>1, <1>0 DEF Types
  <2> QED
    BY <2>1, <2>2, <2>3 DEF IInv, Compares, AtFirst, AtLast, AtMiddle, AtDone
<1>3. CASE first
  <2>1. /\ pc = "first" /\ compared /\ cmp # 0
        /\ startPrefixLength' = pl /\ start' = start + 1 /\ limit' = limit - 1
        /\ i' = limit - 1 /\ pl' = 0 /\ pc' = "last"
        /\ UNCHANGED <<s, count, toc, limitPrefixLength, result>>
    BY <1>3 DEF first
  <2>2. start = 0 /\ limit = count /\ i = 0 /\ i \in 0 .. count - 1
    BY <2>1 DEF IInv, AtFirst, Compares
  <2>3. toc[0] # s /\ Shares(toc[0], pl) /\ result = -1
    BY <2>1, <2>2, Different DEF IInv, Compares
  <2>4. Types'
    BY <2>1, <2>2, <1>0 DEF Types
  <2>5. Compares'
    BY <2>1, <2>2, <2>3, <1>0 DEF Compares, Shares, Types
  <2>6. AtLast'
    BY <2>1, <2>2, <2>3 DEF AtLast, Shares
  <2> QED
    BY <2>1, <2>4, <2>5, <2>6 DEF IInv, AtFirst, AtMiddle, AtDone
<1>4. CASE last
  <2>1. pc = "last" /\ compared /\ cmp # 0 /\ while(start, limit, startPrefixLength, pl)
    BY <1>4 DEF last
  <2>2. /\ start = 1 /\ limit = count - 1 /\ i = count - 1 /\ i \in 0 .. count - 1
        /\ Shares(toc[0], startPrefixLength) /\ toc[0] # s
        /\ Shares(toc[i], pl) /\ result = -1
    BY <2>1 DEF IInv, AtLast, Compares
  <2>3. toc[i] # s
    BY <2>1, Different
  <2>4. \A k \in 0 .. count - 1 : (k < start \/ limit <= k) => toc[k] # s
    BY <2>2, <2>3, <1>0 DEF Types
  <2>5. /\ 1 <= start /\ start <= count /\ 0 <= limit /\ limit <= count - 1
        /\ start \in Int /\ limit \in Int /\ startPrefixLength \in 0 .. L /\ pl \in 0 .. L
        /\ start - 1 = 0
    BY <2>2, <1>0 DEF Types
  <2>6. Shares(toc[start - 1], startPrefixLength) /\ Shares(toc[limit], pl)
    BY <2>2, <2>5
  <2> QED
    BY <2>1, <2>2, <2>4, <2>5, <2>6, <1>0, LoopHead
<1>5. CASE lower
  <2>1. pc = "middle" /\ compared /\ cmp < 0 /\ while(start, i, startPrefixLength, pl)
    BY <1>5 DEF lower
  <2>2. /\ 1 <= start /\ start <= i /\ i < limit /\ limit <= count - 1
        /\ Shares(toc[start - 1], startPrefixLength)
        /\ \A k \in 0 .. count - 1 : (k < start \/ limit <= k) => toc[k] # s
        /\ i \in 0 .. count - 1 /\ Shares(toc[i], pl) /\ result = -1
    BY <2>1 DEF IInv, AtMiddle, Compares
  <2>3. s \in String /\ toc[i] \in String /\ Less(s, toc[i])
    BY <2>1, Different
  <2>4. \A k \in 0 .. count - 1 : (k < start \/ i <= k) => toc[k] # s
    <3> SUFFICES ASSUME NEW k \in 0 .. count - 1, k < start \/ i <= k, toc[k] = s PROVE FALSE
      OBVIOUS
    <3>1. i <= k
      BY <2>2
    <3>2. k # i
      BY <2>3, LessAsymmetric
    <3>3. Less(toc[i], toc[k])
      BY <3>1, <3>2, <2>2, <1>0, TableOrder DEF Types
    <3> QED
      BY <2>3, <3>3, LessAsymmetric
  <2>5. /\ start <= count /\ 0 <= i /\ i <= count - 1
        /\ start \in Int /\ i \in Int /\ startPrefixLength \in 0 .. L /\ pl \in 0 .. L
    BY <2>2, <1>0 DEF Types
  <2> QED
    BY <2>1, <2>2, <2>4, <2>5, <1>0, LoopHead
<1>6. CASE upper
  <2>1. pc = "middle" /\ compared /\ cmp > 0 /\ while(i + 1, limit, pl, limitPrefixLength)
    BY <1>6 DEF upper
  <2>2. /\ 1 <= start /\ start <= i /\ i < limit /\ limit <= count - 1
        /\ Shares(toc[limit], limitPrefixLength)
        /\ \A k \in 0 .. count - 1 : (k < start \/ limit <= k) => toc[k] # s
        /\ i \in 0 .. count - 1 /\ Shares(toc[i], pl) /\ result = -1
    BY <2>1 DEF IInv, AtMiddle, Compares
  <2>3. s \in String /\ toc[i] \in String /\ Less(toc[i], s)
    BY <2>1, Different
  <2>4. \A k \in 0 .. count - 1 : (k < i + 1 \/ limit <= k) => toc[k] # s
    <3> SUFFICES ASSUME NEW k \in 0 .. count - 1, k < i + 1 \/ limit <= k, toc[k] = s PROVE FALSE
      OBVIOUS
    <3>1. k <= i
      BY <2>2, <1>0 DEF Types
    <3>2. k # i
      BY <2>3, LessAsymmetric
    <3>3. Less(toc[k], toc[i])
      BY <3>1, <3>2, <2>2, <1>0, TableOrder DEF Types
    <3> QED
      BY <2>3, <3>3, LessAsymmetric
  <2>5. /\ 1 <= i + 1 /\ i + 1 <= count /\ 0 <= limit
        /\ i + 1 \in Int /\ limit \in Int /\ limitPrefixLength \in 0 .. L /\ pl \in 0 .. L
        /\ (i + 1) - 1 = i
    BY <2>2, <1>0 DEF Types
  <2>6. Shares(toc[(i + 1) - 1], pl)
    BY <2>2, <2>5
  <2> QED
    BY <2>1, <2>2, <2>4, <2>5, <2>6, <1>0, LoopHead
<1>7. CASE UNCHANGED vars
  <2>1. UNCHANGED <<s, count, toc, pc, start, limit, startPrefixLength, limitPrefixLength, i, pl, result>>
    BY <1>7 DEF vars
  <2>2. Types' /\ AtFirst' /\ AtDone'
    BY <2>1 DEF IInv, Types, AtFirst, AtDone
  <2>3. Compares' /\ AtLast'
    BY <2>1 DEF IInv, Compares, AtLast, Shares
  <2>4. AtMiddle'
    BY <2>1 DEF IInv, AtMiddle, Shares
  <2> QED
    BY <2>2, <2>3, <2>4 DEF IInv
<1> QED
  BY <1>1, <1>2, <1>3, <1>4, <1>5, <1>6, <1>7 DEF Next

\* The invariant holds in every state of the search.
THEOREM Invariance == Spec => []IInv
<1>1. Init => IInv
  BY Initially
<1>2. IInv /\ [Next]_vars => IInv'
  BY Preserved
<1> QED
  BY <1>1, <1>2, PTL DEF Spec

\* The search only reads entries of the table, and no string beyond its
\* terminating 0 (strcmpAfterPrefix, ucmndata.c:100).
THEOREM SearchInBounds == Spec => []InBounds
<1>1. IInv => InBounds
  <2> SUFFICES ASSUME IInv, pc # "done"
               PROVE  /\ i \in 0 .. count - 1 /\ pl \in 0 .. L
                      /\ \A k \in 0 .. pl - 1 : s[k] # 0 /\ toc[i][k] # 0
    BY DEF InBounds
  <2> QED
    BY DEF IInv, Types, Compares, Shares
<1> QED
  BY <1>1, Invariance, PTL

\* The characters that strcmpAfterPrefix() skips are the same (ucmndata.c:150).
THEOREM SkipsOnlyShared == Spec => []PrefixIsShared
<1>1. IInv => PrefixIsShared
  BY DEF IInv, Compares, Shares, PrefixIsShared
<1> QED
  BY <1>1, Invariance, PTL

\* When the search ends it has found the name, or the table does not have it
\* (offsetTOCPrefixBinarySearch, ucmndata.c:119).
THEOREM SearchFinds == Spec => []FindsName
<1>1. IInv => FindsName
  <2> SUFFICES ASSUME IInv, pc = "done"
               PROVE  IF \E k \in 0 .. count - 1 : toc[k] = s
                      THEN result \in 0 .. count - 1 /\ toc[result] = s
                      ELSE result = -1
    BY DEF FindsName
  <2>1. \/ result \in 0 .. count - 1 /\ toc[result] = s
        \/ result = -1 /\ \A k \in 0 .. count - 1 : toc[k] # s
    BY DEF IInv, AtDone
  <2> QED
    BY <2>1
<1> QED
  BY <1>1, Invariance, PTL
=============================================================================
