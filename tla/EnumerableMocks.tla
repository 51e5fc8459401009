--------------------------- MODULE EnumerableMocks ---------------------------
(***************************************************************************)
(* The contracts by which OpenZeppelin tests its enumerable sets and maps: *)
(* one that holds a set, one that holds a map, of any type each.  A call   *)
(* that changes something emits what the library returned.                 *)
(***************************************************************************)
EXTENDS EnumerableMap

VARIABLES
    setType, theSet,   \* EnumerableSetMock, compiled for one type
    mapType, theMap,   \* EnumerableMapMock
    setResult, mapResult  \* what OperationResult said last

setVars == <<setType, theSet, setResult>>
mapVars == <<mapType, theMap, mapResult>>

SetInit ==
    /\ setType \in {"bytes32", "uint256", "address"}
    /\ theSet = EmptySet
    /\ setResult = FALSE

MapInit ==
    /\ mapType \in MapTypes \cup {MapType("bytes32", "bytes32")}
    /\ theMap = EmptyMap
    /\ mapResult = FALSE

\* The library returns whether the value is new, or was there.
AddToSet(v) ==
    /\ theSet' = AddTyped(setType, theSet, v)
    /\ setResult' = ~ContainsTyped(setType, theSet, v)
    /\ UNCHANGED setType

RemoveFromSet(v) ==
    /\ theSet' = RemoveTyped(setType, theSet, v)
    /\ setResult' = ContainsTyped(setType, theSet, v)
    /\ UNCHANGED setType

SetInMap(k, v) ==
    /\ theMap' = SetTyped(mapType, theMap, k, v)
    /\ mapResult' = ~HasKeyTyped(mapType, theMap, k)
    /\ UNCHANGED mapType

RemoveFromMap(k) ==
    /\ theMap' = RemoveKeyTyped(mapType, theMap, k)
    /\ mapResult' = HasKeyTyped(mapType, theMap, k)
    /\ UNCHANGED mapType

SetNext == \E v \in Values(setType) : AddToSet(v) \/ RemoveFromSet(v)

MapNext ==
    \E k \in Values(mapType.keyType) :
        \/ RemoveFromMap(k)
        \/ \E v \in Values(mapType.valueType) : SetInMap(k, v)

SetSpec == SetInit /\ [][SetNext]_setVars
MapSpec == MapInit /\ [][MapNext]_mapVars
-----------------------------------------------------------------------------
\* The map that keys and values stand for, and the set as a map to zero.
Entries ==
    [k \in {FromBytes32(mapType.keyType, w) : w \in Members(theMap.keys)} |->
        GetTyped(mapType, theMap, k)]
Elements == [v \in {FromBytes32(setType, w) : w \in Members(theSet)} |-> 0]

MapSays == INSTANCE KeyedMap WITH
    Keys <- Words, Vals <- Words, entries <- Entries, changed <- mapResult
SetSays == INSTANCE KeyedMap WITH
    Keys <- Words, Vals <- {0}, entries <- Elements, changed <- setResult

(***************************************************************************)
(* An enumerable map is a map, an enumerable set a set: a call changes one *)
(* entry, says truly whether the key was new or there, and loses no other  *)
(* when the last one takes the place of the one removed.                   *)
(***************************************************************************)
ImplementKeyedMaps == MapSays!KeyedMapSpec /\ SetSays!KeyedMapSpec

(***************************************************************************)
(* Every way of reading gives the same map, for values of zero too: tryGet *)
(* and get by key, which look at the set of keys only when the value is    *)
(* zero, and the enumeration by index, which lists each entry once.  The   *)
(* same for a set, and for values(), which hands out words unconverted.    *)
(***************************************************************************)
MapReadsAgree ==
    /\ \A k \in Values(mapType.keyType) :
          /\ TryGetTyped(mapType, theMap, k) =
                IF k \in DOMAIN Entries THEN <<TRUE, Entries[k]>> ELSE <<FALSE, 0>>
          /\ Gettable(theMap, ToBytes32(mapType.keyType, k)) <=> k \in DOMAIN Entries
          /\ HasKeyTyped(mapType, theMap, k) <=> k \in DOMAIN Entries
    /\ \A i \in 1..NumberOfEntries(theMap) :
          LET e == EntryAtTyped(mapType, theMap, i)
          IN  /\ e[1] \in DOMAIN Entries /\ e[2] = Entries[e[1]]
              /\ \A j \in 1..NumberOfEntries(theMap) :
                    EntryAtTyped(mapType, theMap, j)[1] = e[1] => i = j

SetReadsAgree ==
    /\ \A v \in Values(setType) :
          ContainsTyped(setType, theSet, v) <=> v \in DOMAIN Elements
    /\ \A i \in DOMAIN ValuesTyped(theSet) :
          /\ ValuesTyped(theSet)[i] = AtTyped(setType, theSet, i)
          /\ \A j \in DOMAIN ValuesTyped(theSet) :
                ValuesTyped(theSet)[i] = ValuesTyped(theSet)[j] => i = j

ReadsAgree == MapReadsAgree /\ SetReadsAgree
=============================================================================
