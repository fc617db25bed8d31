-------------------------------- MODULE UHash --------------------------------
(***************************************************************************)
(* UHashtable (common/uhash.c): open addressing with double hashing, slots *)
(* that are empty, deleted or full, a table that grows and shrinks along a *)
(* list of primes, ownership of keys and values through deleters, and      *)
(* iteration with removal.  The table is not synchronised: one client      *)
(* calls it.  The steps are those of a call: the call itself, one          *)
(* reinserted element of _uhash_rehash() at a time, and the store of       *)
(* _uhash_put().                                                           *)
(*                                                                         *)
(* The data is abstract: a key is a member of Key with the hash code       *)
(* Hash[k] (after & 0x7FFFFFFF); the object passed for a key, and the one  *)
(* passed for a value, is a numbered copy belonging to that key.           *)
(***************************************************************************)
EXTENDS Integers, Sequences, FiniteSets

CONSTANTS
    Key,                \* keys that the key comparator tells apart
    Hash,               \* Hash[k]: the hash code of k, 0 .. 2^31-1
    Copies,             \* numbers of key and value objects, without 0
    PRIMES,             \* the table lengths, increasing
    Policies,           \* the resize policies the client selects
    KeyDeleter,         \* TRUE: the table owns its keys
    ValueDeleter,       \* TRUE: the table owns its values
    MayFail,            \* TRUE: uprv_malloc() may return NULL
    PutsNull,           \* TRUE: the client stores NULL to remove
    PutsAgain,          \* TRUE: the client stores a pointer already stored
    Iterates,           \* TRUE: the client iterates
    RemovesInIteration  \* TRUE: uhash_remove() while iterating and shrinkable

HashAssumption ==
    /\ PRIMES \in Seq(Nat) /\ PRIMES # << >>
    /\ \A p \in 1 .. Len(PRIMES) : PRIMES[p] > 2
    /\ Hash \in [Key -> Nat]
    /\ Copies \subseteq Nat \ {0}
    /\ {KeyDeleter, ValueDeleter, MayFail, PutsNull, PutsAgain, Iterates, RemovesInIteration}
           \subseteq BOOLEAN

VARIABLES
    elements,     \* the slots, a function on 0 .. length-1
    length,       \* the number of slots
    count,        \* the number of key-value pairs
    primeIndex,   \* index into PRIMES (from 1)
    policy,       \* the resize policy: decides the water marks
    pc,           \* "closed", "idle", "rehash", "store", "err", or "null"
                  \* after a NULL element was dereferenced
    old,          \* the previous slots during _uhash_rehash()
    i,            \* the slots of old below i are still to be reinserted
    call,         \* the put that is being served
    owned,        \* key and value objects the table owes a deletion
    twice,        \* an object was deleted that the table did not own
    iter          \* the client's iteration: see NoIteration

table == <<elements, length, count, primeIndex, policy>>
vars == <<elements, length, count, primeIndex, policy, pc, old, i, call,
          owned, twice, iter>>

NULL == 0
Empty   == [tag |-> "empty"]
Deleted == [tag |-> "deleted"]
Element(k, o, v) == [tag |-> "full", key |-> k, object |-> o, value |-> v]
Slot == {Empty, Deleted} \cup
        [tag : {"full"}, key : Key, object : Copies, value : Copies]

IsFull(s) == s.tag = "full"

\* RESIZE_POLICY_RATIO_TABLE, in tenths.
Ratio(pol) ==
    CASE pol = "grow"            -> [low |-> 0, high |-> 5]
      [] pol = "grow_and_shrink" -> [low |-> 1, high |-> 5]
      [] pol = "fixed"           -> [low |-> 0, high |-> 10]

\* The marks are computed from length and policy whenever either changes,
\* and an allocation that fails restores length and keeps the marks.
lowWaterMark(pol)  == (length * Ratio(pol).low) \div 10
highWaterMark(pol) == (length * Ratio(pol).high) \div 10

Least(S) == CHOOSE x \in S : \A y \in S : x <= y

\* hashcode ^ 0x4000000: bit 26 is flipped.
Flip(h) == IF (h \div 67108864) % 2 = 0 THEN h + 67108864 ELSE h - 67108864

\* The slot that the (n+1)-st probe for k looks at in a table of len slots.
Probe(k, n, len) ==
    ((Flip(Hash[k]) % len) + n * ((Hash[k] % (len - 1)) + 1)) % len

NoSlot == -1
\* _uhash_find(): probe until the key or an empty slot is met, or all slots
\* have been seen; the key's slot, or else the first deleted or the empty one.
_uhash_find(t, len, k) ==
    LET at(n)   == t[Probe(k, n, len)]
        stops   == {n \in 0 .. len - 1 :
                       at(n) = Empty \/ (IsFull(at(n)) /\ at(n).key = k)}
        deleted == {n \in 0 .. len - 1 :
                       at(n) = Deleted /\ \A m \in stops : n < m}
    IN  CASE stops # {} /\ IsFull(at(Least(stops))) -> Probe(k, Least(stops), len)
          [] (stops = {} \/ ~IsFull(at(Least(stops)))) /\ deleted # {} ->
                 Probe(k, Least(deleted), len)
          [] stops # {} /\ ~IsFull(at(Least(stops))) /\ deleted = {} ->
                 Probe(k, Least(stops), len)
          [] stops = {} /\ deleted = {} -> NoSlot

KeyObject(k, o)   == IF KeyDeleter THEN {<<"key", k, o>>} ELSE {}
ValueObject(k, v) == IF ValueDeleter /\ v # NULL THEN {<<"value", k, v>>} ELSE {}
Objects(s) == IF IsFull(s) THEN KeyObject(s.key, s.object) \cup ValueObject(s.key, s.value)
                           ELSE {}

\* The deleters called on the objects in gone, after adopting those in new.
Adopt(new, gone) ==
    /\ owned' = (owned \cup new) \ gone
    /\ twice' = (twice \/ ~(gone \subseteq owned \cup new))

\* What _uhash_setElement() deletes when new replaces what slot s holds: an
\* object that is stored again is not deleted.
Replaced(s, new) == Objects(s) \ Objects(new)

\* A bug: a removed element leaves an empty slot.
removedToEmpty(t, S) == [s \in DOMAIN t |-> IF s \in S THEN Empty ELSE t[s]]

\* The slots after _uhash_internalRemoveElement() of those in S.
_uhash_internalRemoveElement(t, S) ==
    [s \in DOMAIN t |-> IF s \in S THEN Deleted ELSE t[s]]

-----------------------------------------------------------------------------
\* The client's iteration: pos as for uhash_nextElement(), the keys returned,
\* the keys that are in the table ever since the iteration began, and what an
\* iteration got wrong: a key returned again, or one never returned.
NoIteration == [on |-> FALSE, pos |-> -1, seen |-> {}, due |-> {}, wrong |-> FALSE]

StopIteration == iter' = [iter EXCEPT !.on = FALSE, !.pos = -1, !.seen = {}, !.due = {}]
Gone(ks) == iter' = [iter EXCEPT !.due = @ \ ks]

Stored(t) == {s \in DOMAIN t : IsFull(t[s])}
Keys(t) == {t[s].key : s \in Stored(t)}

Init ==
    /\ elements = << >> /\ length = 0 /\ count = 0
    /\ primeIndex = 1 /\ policy = "grow"
    /\ pc = "closed"
    /\ old = << >> /\ i = 0
    /\ call = <<>>
    /\ owned = {} /\ twice = FALSE
    /\ iter = NoIteration

\* _uhash_allocate() that succeeds, for the prime with index p.
_uhash_allocate(p) ==
    /\ primeIndex' = p
    /\ length' = PRIMES[p]
    /\ elements' = [s \in 0 .. PRIMES[p] - 1 |-> Empty]
    /\ count' = 0

\* uhash_open(), uhash_openSize(), uhash_init() for any index; nothing is
\* left when the allocation fails.
uhash_open ==
    /\ pc = "closed"
    /\ \E p \in 1 .. Len(PRIMES) : _uhash_allocate(p)
    /\ policy' = "grow"
    /\ pc' = "idle"
    /\ UNCHANGED <<old, i, call, owned, twice, iter>>

\* _uhash_rehash() for slots t with n pairs under policy pol, up to the loop
\* that reinserts; next is where the caller goes on, fail where it goes on when
\* the allocation fails.
_uhash_rehash(t, n, pol, next, fail) ==
    LET p == IF n > highWaterMark(pol) THEN primeIndex + 1
             ELSE IF n < lowWaterMark(pol) THEN primeIndex - 1 ELSE 0
    IN  \/ /\ p \notin 1 .. Len(PRIMES)
           /\ elements' = t /\ count' = n /\ pc' = next
           /\ UNCHANGED <<length, primeIndex, old, i>>
        \/ /\ p \in 1 .. Len(PRIMES)
           /\ _uhash_allocate(p)
           /\ old' = t /\ i' = length /\ pc' = "rehash"
        \/ /\ p \in 1 .. Len(PRIMES) /\ MayFail
           /\ primeIndex' = p
           /\ elements' = t /\ count' = n /\ pc' = fail
           /\ UNCHANGED <<length, old, i>>

\* An iteration of the loop of _uhash_rehash() that finds a pair to reinsert.
reinsert ==
    /\ pc = "rehash"
    /\ \E s \in 0 .. i - 1 :
        /\ IsFull(old[s])
        /\ \A r \in s + 1 .. i - 1 : ~IsFull(old[r])
        /\ i' = s
        /\ LET e == _uhash_find(elements, length, old[s].key)
           IN  \/ /\ e # NoSlot
                  /\ elements' = [elements EXCEPT ![e] = old[s]]
                  /\ count' = count + 1
                  /\ UNCHANGED pc
               \/ /\ e = NoSlot
                  /\ pc' = "null"
                  /\ UNCHANGED <<elements, count>>
    /\ UNCHANGED <<length, primeIndex, policy, old, call, owned, twice, iter>>

\* A bug: the loop leaves out the first slot.
rehashedTooEarly ==
    /\ pc = "rehash"
    /\ \A s \in 1 .. i - 1 : ~IsFull(old[s])
    /\ old' = << >> /\ i' = 0
    /\ pc' = IF call = << >> THEN "idle" ELSE "store"
    /\ UNCHANGED <<elements, length, count, primeIndex, policy, call, owned, twice, iter>>

\* The end of the loop: uprv_free(old), and back to the caller.
rehashed ==
    /\ pc = "rehash"
    /\ \A s \in 0 .. i - 1 : ~IsFull(old[s])
    /\ old' = << >> /\ i' = 0
    /\ pc' = IF call = << >> THEN "idle" ELSE "store"
    /\ UNCHANGED <<elements, length, count, primeIndex, policy, call, owned, twice, iter>>

\* _uhash_remove() of k, which passes the objects in adopted to the table.
_uhash_remove(k, adopted) ==
    LET e == _uhash_find(elements, length, k)
    IN  \/ /\ e = NoSlot
           /\ pc' = "null"
           /\ Adopt(adopted, {})
           /\ UNCHANGED <<table, old, i, call, iter>>
        \/ /\ e # NoSlot
           /\ ~IsFull(elements[e])
           /\ Adopt(adopted, {})
           /\ UNCHANGED <<table, pc, old, i, call, iter>>
        \/ /\ e # NoSlot
           /\ IsFull(elements[e])
           /\ Adopt(adopted, Objects(elements[e]))
           /\ Gone({k})
           /\ IF count - 1 < lowWaterMark(policy)
                THEN _uhash_rehash(_uhash_internalRemoveElement(elements, {e}),
                                   count - 1, policy, "idle", "idle")
                ELSE /\ elements' = _uhash_internalRemoveElement(elements, {e})
                     /\ count' = count - 1
                     /\ UNCHANGED <<length, primeIndex, pc, old, i>>
           /\ UNCHANGED <<policy, call>>

uhash_remove(k) ==
    /\ pc = "idle"
    /\ iter.on => (RemovesInIteration \/ lowWaterMark(policy) = 0)
    /\ _uhash_remove(k, {})

\* The objects a client passes are new to the table, unless it stores again
\* what is stored.
Passes(k, o, v) ==
    \/ KeyObject(k, o) \cap owned = {} /\ ValueObject(k, v) \cap owned = {}
    \/ PutsAgain /\ \E s \in Stored(elements) : elements[s] = Element(k, o, v)

\* _uhash_put() of a NULL value: a removal.
uhash_put_NULL(k, o) ==
    /\ pc = "idle" /\ PutsNull
    /\ Passes(k, o, NULL)
    /\ iter.on => (RemovesInIteration \/ lowWaterMark(policy) = 0)
    /\ _uhash_remove(k, KeyObject(k, o))

\* _uhash_put() up to the rehash; the client gives up an iteration when it
\* stores.
uhash_put(k, o, v) ==
    /\ pc = "idle"
    /\ Passes(k, o, v)
    /\ call' = <<k, o, v>>
    /\ Adopt(KeyObject(k, o) \cup ValueObject(k, v), {})
    /\ StopIteration
    /\ IF count > highWaterMark(policy)
         THEN _uhash_rehash(elements, count, policy, "store", "err")
         ELSE pc' = "store" /\ UNCHANGED <<elements, length, count, primeIndex, old, i>>
    /\ UNCHANGED policy

\* The rest of _uhash_put(): find the slot and store, or fail if the table
\* would be full.
store ==
    /\ pc = "store"
    /\ LET k == call[1]
           new == Element(k, call[2], call[3])
           e == _uhash_find(elements, length, k)
       IN  \/ /\ e = NoSlot
              /\ pc' = "null"
              /\ UNCHANGED <<elements, count, call, owned, twice>>
           \/ /\ e # NoSlot
              /\ ~IsFull(elements[e]) /\ count + 1 = length
              /\ pc' = "err"
              /\ UNCHANGED <<elements, count, call, owned, twice>>
           \/ /\ e # NoSlot
              /\ IsFull(elements[e]) \/ count + 1 # length
              /\ count' = IF IsFull(elements[e]) THEN count ELSE count + 1
              /\ elements' = [elements EXCEPT ![e] = new]
              /\ Adopt({}, Replaced(elements[e], new))
              /\ call' = << >> /\ pc' = "idle"
    /\ UNCHANGED <<length, primeIndex, policy, old, i, iter>>

\* A bug: a put that fails deletes nothing.
putErrorKeeps ==
    /\ pc = "err"
    /\ call' = << >> /\ pc' = "idle"
    /\ UNCHANGED <<table, old, i, owned, twice, iter>>

\* err: of _uhash_put(): the adopted key and value are deleted.
putError ==
    /\ pc = "err"
    /\ Adopt({}, KeyObject(call[1], call[2]) \cup ValueObject(call[1], call[3]))
    /\ call' = << >> /\ pc' = "idle"
    /\ UNCHANGED <<table, old, i, iter>>

uhash_setResizePolicy(pol) ==
    /\ pc = "idle"
    /\ policy' = pol
    /\ StopIteration
    /\ _uhash_rehash(elements, count, pol, "idle", "idle")
    /\ UNCHANGED <<call, owned, twice>>

\* uhash_removeElement() of the slots in S: nothing is rehashed.
removeElements(S) ==
    /\ elements' = _uhash_internalRemoveElement(elements, S)
    /\ count' = count - Cardinality(S)
    /\ Adopt({}, UNION {Objects(elements[s]) : s \in S})
    /\ Gone({elements[s].key : s \in S})
    /\ UNCHANGED <<length, primeIndex, policy, pc, old, i, call>>

\* Of the element that uhash_nextElement() has just returned.
uhash_removeElement ==
    /\ pc = "idle"
    /\ iter.on /\ iter.pos \in Stored(elements)
    /\ removeElements({iter.pos})

uhash_removeAll ==
    /\ pc = "idle"
    /\ count # 0
    /\ removeElements(Stored(elements))

uhash_close ==
    /\ pc = "idle"
    /\ Adopt({}, UNION {Objects(elements[s]) : s \in Stored(elements)})
    /\ elements' = << >> /\ length' = 0 /\ count' = 0 /\ pc' = "closed"
    /\ StopIteration
    /\ UNCHANGED <<primeIndex, policy, old, i, call>>

beginIteration ==
    /\ pc = "idle" /\ Iterates /\ ~iter.on
    /\ iter' = [iter EXCEPT !.on = TRUE, !.due = Keys(elements)]
    /\ UNCHANGED <<table, pc, old, i, call, owned, twice>>

uhash_nextElement ==
    /\ pc = "idle" /\ iter.on
    /\ LET rest == {s \in Stored(elements) : s > iter.pos}
           k == elements[Least(rest)].key
       IN  \/ /\ rest # {}
              /\ iter' = [iter EXCEPT !.pos = Least(rest), !.seen = @ \cup {k},
                                      !.wrong = @ \/ k \in iter.seen]
           \/ /\ rest = {}
              /\ iter' = [NoIteration EXCEPT !.wrong = iter.wrong \/ ~(iter.due \subseteq iter.seen)]
    /\ UNCHANGED <<table, pc, old, i, call, owned, twice>>

Next ==
    \/ uhash_open
    \/ uhash_close
    \/ \E k \in Key : uhash_remove(k)
    \/ \E k \in Key, o \in Copies : uhash_put_NULL(k, o)
    \/ \E k \in Key, o \in Copies, v \in Copies : uhash_put(k, o, v)
    \/ store
    \/ putError
    \/ \E pol \in Policies : uhash_setResizePolicy(pol)
    \/ reinsert
    \/ rehashed
    \/ uhash_removeElement
    \/ uhash_removeAll
    \/ beginIteration
    \/ uhash_nextElement

Spec == Init /\ [][Next]_vars

-----------------------------------------------------------------------------
\* Variables are what the code makes them.
TypeOK ==
    /\ length \in {0} \cup {PRIMES[p] : p \in 1 .. Len(PRIMES)}
    /\ elements \in [0 .. length - 1 -> Slot]
    /\ count \in Nat
    /\ primeIndex \in 1 .. Len(PRIMES)
    /\ policy \in {"grow", "grow_and_shrink", "fixed"}
    /\ pc \in {"closed", "idle", "rehash", "store", "err", "null"}
    /\ i \in Nat
    /\ old \in [DOMAIN old -> Slot] /\ 0 .. i - 1 \subseteq DOMAIN old
    /\ call \in {<< >>} \cup (Key \X Copies \X Copies)
    /\ twice \in BOOLEAN

\* What is still to be reinserted.
Pending == {s \in 0 .. i - 1 : IsFull(old[s])}

\* Whatever was stored, removed, grown or shrunk before, the search finds every
\* stored key, and for every other key a slot it can be stored in: the count is
\* exact and the last free slot is never used, so _uhash_find() never returns
\* the NULL that its callers do not test for.
FindExact ==
    pc \in {"idle", "rehash", "store", "err"} =>
        /\ count = Cardinality(Stored(elements))
        /\ \A k \in Key :
              LET e == _uhash_find(elements, length, k)
              IN  /\ e # NoSlot
                  /\ (k \in Keys(elements)) <=> IsFull(elements[e])
                  /\ IsFull(elements[e]) => elements[e].key = k

\* A NULL element is never dereferenced: in any case, also when memory is
\* short, the arrays are valid when _uhash_rehash() returns.
ArraysValid == pc # "null"

\* The table deletes every object it was given exactly once: between calls it
\* owns just what it holds, nothing is deleted twice, nothing is lost.
OwnsWhatItHolds ==
    /\ ~twice
    /\ pc \in {"idle", "closed"} =>
           owned = UNION {Objects(elements[s]) : s \in DOMAIN elements}

\* An iteration during which elements are only removed returns every element
\* that stays in the table, and none more than once.
IterationComplete == ~iter.wrong

\* The map that the clients see: what the slots hold, and during a rehash what
\* the old slots still hold.
held(k) == {s \in Stored(elements) : elements[s].key = k}
waiting(k) == {s \in Pending : old[s].key = k}
map == [k \in Key |->
          IF held(k) # {} THEN elements[CHOOSE s \in held(k) : TRUE].value
          ELSE IF waiting(k) # {} THEN old[CHOOSE s \in waiting(k) : TRUE].value
          ELSE NULL]

UMap == INSTANCE UMap WITH Value <- Copies, NoValue <- NULL,
    busy <- pc \in {"rehash", "store", "err", "null"},
    putting <- IF call = << >> THEN << >> ELSE <<call[1], call[3]>>

\* The slots implement the map of UMap: a put changes the value of its own key
\* when it returns or nothing at all, a removal its own key only, and growing,
\* shrinking, failing to allocate and reinserting never change the map.
IsMap == UMap!Spec
=============================================================================
