---------------------------- MODULE EnumerableMap ----------------------------
(***************************************************************************)
(* The maps that scripts/generate/templates/EnumerableMap.js generates: a  *)
(* set of keys beside a mapping from keys to values, all of them words,    *)
(* and wrappers that convert from and to the types of one kind of map.     *)
(* Reading asks the set only where the mapping says zero, which it says    *)
(* of keys that were never set as well.                                    *)
(***************************************************************************)
EXTENDS EnumerableSet

MapType(k, v) == [keyType |-> k, valueType |-> v]
MapTypes == {MapType("uint256", "uint256"), MapType("uint256", "address"),
             MapType("address", "uint256"), MapType("bytes32", "uint256")}

EmptyMap == [keys |-> EmptySet, vals |-> [w \in Words |-> 0]]

SetEntry(map, k, v) ==
    [keys |-> AddTyped("bytes32", map.keys, k), vals |-> [map.vals EXCEPT ![k] = v]]

\* Mutant: leaves the value behind.
RemoveKeyOnly(map, k) == [map EXCEPT !.keys = RemoveTyped("bytes32", map.keys, k)]

RemoveEntry(map, k) ==
    [keys |-> RemoveTyped("bytes32", map.keys, k), vals |-> [map.vals EXCEPT ![k] = 0]]

HasEntry(map, k) == ContainsTyped("bytes32", map.keys, k)

NumberOfEntries(map) == SetLength(map.keys)

EntryAt(map, i) ==
    LET k == AtTyped("bytes32", map.keys, i) IN <<k, map.vals[k]>>

TryGet(map, k) ==
    IF map.vals[k] = 0 THEN <<HasEntry(map, k), 0>> ELSE <<TRUE, map.vals[k]>>

\* get reverts unless:
Gettable(map, k) == map.vals[k] # 0 \/ HasEntry(map, k)

-----------------------------------------------------------------------------
\* The maps for users, of keys and values of a MapType t.
SetTyped(t, map, k, v) ==
    SetEntry(map, ToBytes32(t.keyType, k), ToBytes32(t.valueType, v))

RemoveKeyTyped(t, map, k) == RemoveEntry(map, ToBytes32(t.keyType, k))

HasKeyTyped(t, map, k) == HasEntry(map, ToBytes32(t.keyType, k))

EntryAtTyped(t, map, i) ==
    LET e == EntryAt(map, i)
    IN  <<FromBytes32(t.keyType, e[1]), FromBytes32(t.valueType, e[2])>>

TryGetTyped(t, map, k) ==
    LET found == TryGet(map, ToBytes32(t.keyType, k))
    IN  <<found[1], FromBytes32(t.valueType, found[2])>>

GetTyped(t, map, k) == FromBytes32(t.valueType, map.vals[ToBytes32(t.keyType, k)])
=============================================================================
