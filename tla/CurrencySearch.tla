--------------------------- MODULE CurrencySearch ---------------------------
(***************************************************************************)
(* The search for the longest currency name at the start of a text         *)
(* (common/ucurr.cpp, searchCurrencyName): character by character, three   *)
(* binary searches narrow the range of names that agree with the text;     *)
(* once the range is small, it is searched name by name.                   *)
(* A step is one round of a loop, so that every character that is read is  *)
(* seen. Arrays count from 0, as in the code, names from 1.                *)
(***************************************************************************)
EXTENDS Integers, Sequences

CONSTANTS Char, MaxLen,              \* names and texts of up to MaxLen characters
          MaxCount,                  \* bound on the number of names
          LINEAR_SEARCH_THRESHOLD

String(min) == UNION {[1 .. n -> Char] : n \in min .. MaxLen}
Prefix(a, b) == Len(a) <= Len(b) /\ \A k \in 1 .. Len(a) : a[k] = b[k]

(* currencyNameComparator(a, b) <= 0                                       *)
currencyNameComparator(a, b) ==
  \/ Prefix(a, b)
  \/ \E k \in 1 .. Len(a) : /\ k <= Len(b) /\ a[k] < b[k]
                            /\ \A j \in 1 .. k - 1 : a[j] = b[j]

(* Sorted by qsort; several currencies may have the same name.             *)
Tables(n) ==
  {f \in [0 .. n - 1 -> String(1)] :
     \A k \in 1 .. n - 1 : currencyNameComparator(f[k - 1], f[k])}

VARIABLES currencyNames, total, text,
          index, binarySearchBegin, binarySearchEnd,
          maxMatchLen, maxMatchIndex,
          pc,                        \* the loop: "first", "left", "right", "linear"
          lo, hi, mid,               \* its range, and the match that was found
          begin                      \* result of the search on the left side

vars == <<currencyNames, total, text, index, binarySearchBegin, binarySearchEnd,
          maxMatchLen, maxMatchIndex, pc, lo, hi, mid, begin>>
input == <<currencyNames, total, text>>
match == <<maxMatchLen, maxMatchIndex>>
range == <<binarySearchBegin, binarySearchEnd>>

Init ==
  /\ total \in 0 .. MaxCount /\ currencyNames \in Tables(total) /\ text \in String(0)
  /\ index = 0 /\ binarySearchBegin = 0 /\ binarySearchEnd = total - 1
  /\ maxMatchLen = 0 /\ maxMatchIndex = -1
  /\ pc = IF text = <<>> THEN "done" ELSE "first"
  /\ lo = 0 /\ hi = total - 1 /\ mid = 0 /\ begin = 0

key == text[index + 1]
Half == (lo + hi) \div 2
HasChar(i) == index < Len(currencyNames[i])
At(i) == currencyNames[i][index + 1]

(* while (first <= last)                                                   *)
first ==
  /\ pc = "first" /\ lo <= hi
  /\ IF HasChar(Half) /\ key = At(Half)
     THEN /\ mid' = Half /\ lo' = binarySearchBegin /\ hi' = Half /\ pc' = "left"
     ELSE /\ IF ~ HasChar(Half) \/ key > At(Half)
             THEN lo' = Half + 1 /\ UNCHANGED hi
             ELSE hi' = Half - 1 /\ UNCHANGED lo
          /\ UNCHANGED <<mid, pc>>
  /\ UNCHANGED <<input, index, range, match, begin>>

(* No name has this character: the search is over.                         *)
noRange ==
  /\ pc = "first" /\ lo > hi
  /\ binarySearchBegin' = -1 /\ binarySearchEnd' = -1
  /\ pc' = "done"
  /\ UNCHANGED <<input, index, match, lo, hi, mid, begin>>

endsBefore(i) == ~ HasChar(i)

(* The first name with this character ...                                  *)
left ==
  /\ pc = "left" /\ lo < hi
  /\ IF endsBefore(Half) \/ At(Half) < key
     THEN lo' = Half + 1 /\ UNCHANGED hi
     ELSE hi' = Half /\ UNCHANGED lo
  /\ UNCHANGED <<input, index, range, match, mid, begin, pc>>

leftFound ==
  /\ pc = "left" /\ lo >= hi
  /\ begin' = lo /\ lo' = mid /\ hi' = binarySearchEnd /\ pc' = "right"
  /\ UNCHANGED <<input, index, range, match, mid>>

(* Mutation: the search on the right does not move.                        *)
rightStays ==
  /\ pc = "right" /\ lo < hi
  /\ IF At(Half) > key
     THEN hi' = Half /\ UNCHANGED lo
     ELSE lo' = Half /\ UNCHANGED hi
  /\ UNCHANGED <<input, index, range, match, mid, begin, pc>>

(* ... and the first one after them, or the last of the range.             *)
right ==
  /\ pc = "right" /\ lo < hi
  /\ IF Len(currencyNames[Half]) >= index /\ At(Half) > key
     THEN hi' = Half /\ UNCHANGED lo
     ELSE lo' = Half + 1 /\ UNCHANGED hi
  /\ UNCHANGED <<input, index, range, match, mid, begin, pc>>

lastOf(r) == IF At(r) > key THEN r - 1 ELSE r

(* Mutation: a name that ends here is not noted.                           *)
exactNever(b) == FALSE
exact(b) == Len(currencyNames[b]) = index + 1

rightFound ==
  /\ pc = "right" /\ lo >= hi
  /\ binarySearchBegin' = begin /\ binarySearchEnd' = lastOf(hi)
  /\ IF exact(begin)
     THEN maxMatchLen' = index + 1 /\ maxMatchIndex' = begin
     ELSE UNCHANGED match
  /\ IF lastOf(hi) - begin < LINEAR_SEARCH_THRESHOLD
     THEN pc' = "linear" /\ lo' = begin /\ hi' = lastOf(hi) /\ UNCHANGED index
     ELSE /\ index' = index + 1
          /\ pc' = IF index + 1 < Len(text) THEN "first" ELSE "done"
          /\ lo' = begin /\ hi' = lastOf(hi)
  /\ UNCHANGED <<input, mid, begin>>

linearSearch ==
  /\ pc = "linear" /\ lo <= hi
  /\ IF Len(currencyNames[lo]) > maxMatchLen /\ Prefix(currencyNames[lo], text)
     THEN maxMatchLen' = Len(currencyNames[lo]) /\ maxMatchIndex' = lo
     ELSE UNCHANGED match
  /\ lo' = lo + 1
  /\ UNCHANGED <<input, index, range, pc, hi, mid, begin>>

linearDone ==
  /\ pc = "linear" /\ lo > hi
  /\ pc' = "done"
  /\ UNCHANGED <<input, index, range, match, lo, hi, mid, begin>>

Next == first \/ noRange \/ left \/ leftFound \/ right \/ rightFound \/ linearSearch \/ linearDone

Spec == Init /\ [][Next]_vars
(* One thread runs the loops and nothing else delays them.                 *)
FairSpec == Spec /\ WF_vars(Next)

-----------------------------------------------------------------------------
(* binarySearch() reads only names of the array, and in the searches for   *)
(* the ends of the range, whose tests of the length differ (>= on the left, *)
(* < on the right, none at the end), no character after a name's end.      *)
InBounds ==
  /\ pc \in {"first", "left", "right"} /\ lo <= hi => lo \in 0 .. total - 1 /\ hi \in 0 .. total - 1
  /\ pc = "left" /\ lo < hi => endsBefore(Half) \/ HasChar(Half)
  /\ pc = "right" /\ lo < hi => HasChar(Half)
  /\ pc = "right" /\ lo >= hi => hi \in 0 .. total - 1 /\ HasChar(hi)

(* "[binarySearchBegin, binarySearchEnd] saves the matching range": between *)
(* rounds it is exactly the names that begin with the text read so far.    *)
RangeIsExact ==
  pc = "first" => \A i \in 0 .. total - 1 :
    (i \in binarySearchBegin .. binarySearchEnd) <=>
      Prefix(SubSeq(text, 1, index), currencyNames[i])

(* searchCurrencyName() finds the longest name that the text begins with.  *)
FindsLongest ==
  pc = "done" =>
    /\ \A i \in 0 .. total - 1 : Prefix(currencyNames[i], text) => Len(currencyNames[i]) <= maxMatchLen
    /\ maxMatchIndex = -1 => maxMatchLen = 0
    /\ maxMatchIndex # -1 => /\ Prefix(currencyNames[maxMatchIndex], text)
                             /\ Len(currencyNames[maxMatchIndex]) = maxMatchLen

(* The loops end, also when all names of the range are the same.           *)
Terminates == <>(pc = "done")
=============================================================================
