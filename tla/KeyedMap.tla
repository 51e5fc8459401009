------------------------------ MODULE KeyedMap ------------------------------
(***************************************************************************)
(* What an enumerable map promises: a finite map from keys to values, in   *)
(* which an entry is put, replaced or dropped, and reading tells a key     *)
(* with the value zero from a key that is not there.                       *)
(***************************************************************************)
CONSTANTS Keys, Vals

VARIABLES
    entries,  \* a function from the keys in the map to their values
    changed   \* what the last call returned: whether it added or removed a key

KeyedMapInit == entries = << >> /\ changed = FALSE

Put(k, v) ==
    /\ entries' = [j \in DOMAIN entries \cup {k} |-> IF j = k THEN v ELSE entries[j]]
    /\ changed' = (k \notin DOMAIN entries)

Drop(k) ==
    /\ entries' = [j \in DOMAIN entries \ {k} |-> entries[j]]
    /\ changed' = (k \in DOMAIN entries)

KeyedMapNext == \E k \in Keys : Drop(k) \/ \E v \in Vals : Put(k, v)

KeyedMapSpec == KeyedMapInit /\ [][KeyedMapNext]_<<entries, changed>>
=============================================================================
