-------------------------------- MODULE UMap --------------------------------
(***************************************************************************)
(* What a UHashtable promises its clients (uhash.h): a finite map from     *)
(* keys to values in which NULL stands for "not in the table".  A call may *)
(* take a while, because it resizes the table; a removal acts when it is   *)
(* called, a put when it returns, and nothing else changes the map.        *)
(***************************************************************************)
CONSTANTS Key,        \* keys that the key comparator tells apart
          Value,      \* non-NULL values
          NoValue     \* what uhash_get() returns for an absent key (NULL)

VARIABLES map,        \* what uhash_get() returns
          busy,       \* a call is being served
          putting     \* the pair that the call in progress stores, or << >>

Nothing == [k \in Key |-> NoValue]

Init == map = Nothing /\ ~busy /\ putting = << >>

\* uhash_remove(), uhash_removeElement(), uhash_put() of NULL.
Remove(k) ==
    /\ ~busy
    /\ map' = [map EXCEPT ![k] = NoValue]
    /\ busy' \in BOOLEAN
    /\ UNCHANGED putting

\* uhash_removeAll() and uhash_close().
RemoveAll == ~busy /\ map' = Nothing /\ UNCHANGED <<busy, putting>>

\* uhash_setResizePolicy().
Resize == ~busy /\ busy' /\ UNCHANGED <<map, putting>>

\* uhash_put() begins, and returns after it has stored or has failed.
BeginPut(k, v) == ~busy /\ busy' /\ putting' = <<k, v>> /\ UNCHANGED map

EndPut ==
    /\ busy /\ putting # << >>
    /\ map' \in {map, [map EXCEPT ![putting[1]] = putting[2]]}
    /\ ~busy' /\ putting' = << >>

\* A removal or uhash_setResizePolicy() returns.
Return == busy /\ putting = << >> /\ ~busy' /\ UNCHANGED <<map, putting>>

Next ==
    \/ \E k \in Key : Remove(k)
    \/ RemoveAll
    \/ Resize
    \/ \E k \in Key, v \in Value : BeginPut(k, v)
    \/ EndPut
    \/ Return

Spec == Init /\ [][Next]_<<map, busy, putting>>
=============================================================================
