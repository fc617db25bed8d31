--------------------------- MODULE MCUnifiedCache ---------------------------
(* Instances of UnifiedCache for TLC. *)
EXTENDS UnifiedCache, TLC

\* Key 1 has a value of its own, key 2 resolves to the value of key 1.
AliasPair == <<Null, 1>>
OutcomePair == <<{"ZERO", "WARNING"}, {}>>

\* One key with a value of its own.
AliasNone == <<Null>>
OutcomeOne == <<{"ZERO"}>>

Symmetric == Permutations(Thread) \cup Permutations(Obj)

PoliciesTight == {[unused |-> 0, pct |-> 0], [unused |-> 1, pct |-> 100]}
=============================================================================
