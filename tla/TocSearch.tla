----------------------------- MODULE TocSearch -----------------------------
(***************************************************************************)
(* The search for an item in the table of contents of a data package       *)
(* (common/ucmndata.c): a binary search that does not compare again the    *)
(* characters that the name shares with both ends of the range.            *)
(* offsetTOCPrefixBinarySearch() and pointerTOCPrefixBinarySearch() are    *)
(* the same code over two layouts of the table.                            *)
(*                                                                         *)
(* A step is one round of a loop, so that every character that is read is  *)
(* seen.  A string is a function on 0 .. L that is 0 from its end on.      *)
(***************************************************************************)
EXTENDS Integers

CONSTANTS Char,      \* the bytes of names, with the terminating 0
          L,         \* bound on the length of names
          MaxCount   \* bound on the number of entries

ASSUME TocAssumption ==
    /\ Char \subseteq Nat
    /\ 0 \in Char
    /\ L \in Nat
    /\ MaxCount \in Nat

String == {f \in [0 .. L -> Char] :
              f[L] = 0 /\ \A j, k \in 0 .. L : (j < k /\ f[j] = 0) => f[k] = 0}

Less(a, b) == \E d \in 0 .. L : a[d] < b[d] /\ \A k \in 0 .. d - 1 : a[k] = b[k]

\* The tools that write packages sort the entries by name, without duplicates.
Tables(n) == {f \in [0 .. n - 1 -> String] : \A j, k \in 0 .. n - 1 : j < k => Less(f[j], f[k])}

VARIABLES s,         \* the name to find
          count, toc,
          pc,        \* the entry that is compared: "first", "last", "middle"; or "done"
          start, limit,
          startPrefixLength, limitPrefixLength,
          i,         \* index of the entry that is compared
          pl,        \* how many characters of it are known to be the same
          result

vars == <<s, count, toc, pc, start, limit, startPrefixLength, limitPrefixLength, i, pl, result>>

Init ==
    /\ s \in String
    /\ count \in 0 .. MaxCount
    /\ toc \in Tables(count)
    /\ pc = IF count = 0 THEN "done" ELSE "first"
    /\ result = -1
    /\ start = 0
    /\ limit = count
    /\ startPrefixLength = 0
    /\ limitPrefixLength = 0
    /\ i = 0
    /\ pl = 0

\* strcmpAfterPrefix(): the next character is the same and not the last ...
strcmpAfterPrefix ==
    /\ pc # "done"
    /\ s[pl] = toc[i][pl] /\ s[pl] # 0
    /\ pl' = pl + 1
    /\ UNCHANGED <<s, count, toc, pc, start, limit, startPrefixLength, limitPrefixLength, i, result>>

\* ... or the strings are different, or done.
compared == s[pl] # toc[i][pl] \/ s[pl] = 0
cmp == s[pl] - toc[i][pl]

found ==
    /\ pc # "done"
    /\ compared
    /\ cmp = 0
    /\ result' = i
    /\ pc' = "done"
    /\ UNCHANGED <<s, count, toc, start, limit, startPrefixLength, limitPrefixLength, i, pl>>

\* The first entry is not the one: compare the last.
first ==
    /\ pc = "first"
    /\ compared
    /\ cmp # 0
    /\ startPrefixLength' = pl
    /\ start' = start + 1
    /\ limit' = limit - 1
    /\ i' = limit - 1
    /\ pl' = 0
    /\ pc' = "last"
    /\ UNCHANGED <<s, count, toc, limitPrefixLength, result>>

\* The longer of the two prefixes.
larger(a, b) == IF a < b THEN b ELSE a

\* MIN: what the name shares with both ends it shares with all entries between.
MIN(a, b) == IF a < b THEN a ELSE b

\* The head of the loop, with the new bounds of the range.
while(from, to, fromLength, toLength) ==
    /\ start' = from
    /\ limit' = to
    /\ startPrefixLength' = fromLength
    /\ limitPrefixLength' = toLength
    /\ IF from < to
       THEN /\ i' = (from + to) \div 2
            /\ pl' = MIN(fromLength, toLength)
            /\ pc' = "middle"
       ELSE /\ pc' = "done"
            /\ UNCHANGED <<i, pl>>
    /\ UNCHANGED <<s, count, toc, result>>

last ==
    /\ pc = "last"
    /\ compared
    /\ cmp # 0
    /\ while(start, limit, startPrefixLength, pl)

lower ==
    /\ pc = "middle"
    /\ compared
    /\ cmp < 0
    /\ while(start, i, startPrefixLength, pl)

upper ==
    /\ pc = "middle"
    /\ compared
    /\ cmp > 0
    /\ while(i + 1, limit, pl, limitPrefixLength)

Next == strcmpAfterPrefix \/ found \/ first \/ last \/ lower \/ upper

Spec == Init /\ [][Next]_vars
FairSpec == Spec /\ WF_vars(Next)

-----------------------------------------------------------------------------
(* Properties                                                              *)

\* Every access is inside the table and inside the strings: offsetTOCPrefix-
\* BinarySearch() compares only existing entries, and strcmpAfterPrefix() does
\* not read past a terminating 0, although it starts in the middle.
InBounds ==
    pc # "done" => /\ i \in 0 .. count - 1
                   /\ pl \in 0 .. L
                   /\ \A k \in 0 .. pl - 1 : s[k] # 0 /\ toc[i][k] # 0

\* The characters that are not compared again are the same: s shares pl of them
\* with the entry at i.
PrefixIsShared ==
    pc # "done" => \A k \in 0 .. pl - 1 : s[k] = toc[i][k]

\* The search finds the name if the table has it, and only then.
FindsName ==
    pc = "done" => IF \E k \in 0 .. count - 1 : toc[k] = s
                   THEN result \in 0 .. count - 1 /\ toc[result] = s
                   ELSE result = -1

\* The search ends.
Terminates == <>(pc = "done")
=============================================================================
