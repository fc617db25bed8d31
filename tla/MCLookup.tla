------------------------------ MODULE MCLookup ------------------------------
(***************************************************************************)
(* Three structures that are searched, for TLC: the table of contents of a *)
(* data package (TocSearch), the sorted currency names (CurrencySearch)    *)
(* and UHashtable (UHash), the last one both with a key deleter and        *)
(* allocations that may fail and, without either, with a policy that       *)
(* shrinks the table.  They share no state: Init picks the one that a      *)
(* behaviour exercises, and the others rest.                               *)
(***************************************************************************)
EXTENDS TocSearch

CONSTANTS NameChar, MaxLen, MaxNames   \* bounds of CurrencySearch

VARIABLES component,
          currencyNames, total, text, index, binarySearchBegin, binarySearchEnd,
          maxMatchLen, maxMatchIndex, at, lo, hi, mid, begin,
          elements, length, size, primeIndex, policy, state, old, rest, call,
          owned, twice, iter

searchVars == <<currencyNames, total, text, index, binarySearchBegin, binarySearchEnd,
                maxMatchLen, maxMatchIndex, at, lo, hi, mid, begin>>
tableVars == <<elements, length, size, primeIndex, policy, state, old, rest, call,
               owned, twice, iter>>
allVars == <<component, vars, searchVars, tableVars>>

Names == INSTANCE CurrencySearch WITH
  Char <- NameChar, MaxCount <- MaxNames, LINEAR_SEARCH_THRESHOLD <- 1, pc <- at

(* Hash codes: bit 26 flipped, modulo the length, is the first slot.       *)
(* 67108864 is bit 26 itself, so that its flipped hash code is 0; the sum  *)
(* of it and 21 starts at slot 0 of the tables of 3 and 7 slots.           *)
KeyHash == <<67108864, 67108864 + 21, 67108864 + 22>>

Owning == INSTANCE UHash WITH
  Key <- 1 .. 3, Hash <- KeyHash, Copies <- {1, 2}, PRIMES <- <<3, 7>>,
  Policies <- {"grow", "fixed"}, KeyDeleter <- TRUE, ValueDeleter <- TRUE,
  MayFail <- TRUE, PutsNull <- FALSE, PutsAgain <- FALSE, Iterates <- TRUE,
  RemovesInIteration <- TRUE, count <- size, pc <- state, i <- rest

Sharing == INSTANCE UHash WITH
  Key <- 1 .. 3, Hash <- KeyHash, Copies <- {1, 2}, PRIMES <- <<5, 11>>,
  Policies <- {"grow", "grow_and_shrink"}, KeyDeleter <- FALSE, ValueDeleter <- TRUE,
  MayFail <- FALSE, PutsNull <- TRUE, PutsAgain <- TRUE, Iterates <- TRUE,
  RemovesInIteration <- FALSE, count <- size, pc <- state, i <- rest

ASSUME TableAssumption == Owning!HashAssumption /\ Sharing!HashAssumption

-----------------------------------------------------------------------------
TocRests == count = 0 /\ s = [k \in 0 .. L |-> 0]
NamesRest == total = 0 /\ text = << >>

MCInit ==
  /\ Owning!Init
  /\ \/ component = "toc" /\ NamesRest /\ Init /\ Names!Init
     \/ component = "names" /\ TocRests /\ Init /\ Names!Init
     \/ component \in {"owning", "sharing"} /\ TocRests /\ NamesRest /\ Init /\ Names!Init

Search ==
  \/ component = "toc" /\ Next /\ UNCHANGED <<component, searchVars, tableVars>>
  \/ component = "names" /\ Names!Next /\ UNCHANGED <<component, vars, tableVars>>

Table ==
  /\ \/ component = "owning" /\ Owning!Next
     \/ component = "sharing" /\ Sharing!Next
  /\ UNCHANGED <<component, vars, searchVars>>

MCNext == Search \/ Table

(* One thread runs the loops of a search, and nothing delays them.         *)
MCSpec == MCInit /\ [][MCNext]_allVars /\ WF_allVars(Search)

-----------------------------------------------------------------------------
(* searchCurrencyName() finds the longest name that the text begins with,  *)
(* and on the way reads no name and no character that does not exist.      *)
FindsLongest == Names!FindsLongest /\ Names!InBounds /\ Names!RangeIsExact

(* Both searches end, whatever they narrow their ranges to.                *)
SearchesEnd == Terminates /\ Names!Terminates

(* The slots of UHashtable implement a map: a put changes its own key when *)
(* it returns or nothing at all, a removal its own key only, and growing,  *)
(* shrinking and failing to allocate never change what clients find.       *)
TableIsMap == Owning!IsMap

(* Whatever was stored, removed and resized before, _uhash_find() finds    *)
(* every stored key, and a free slot for every other: it never returns the *)
(* NULL that its callers do not test for.  An iteration finds every        *)
(* element that stays in the table once, also when others are removed.     *)
TableFinds == Owning!FindExact /\ Owning!IterationComplete

(* The table deletes every key and value that it owns exactly once.        *)
TableOwns == /\ component = "owning" => Owning!TypeOK /\ Owning!OwnsWhatItHolds
             /\ component = "sharing" => Sharing!TypeOK /\ Sharing!OwnsWhatItHolds
=============================================================================
