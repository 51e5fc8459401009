--------------------------- MODULE EnumerableSet ---------------------------
(***************************************************************************)
(* The sets that scripts/generate/templates/EnumerableSet.js generates:    *)
(* the values in an array, and for each value its position in the array    *)
(* plus one, where 0 says that the value is not there.  Adding appends,    *)
(* removing puts the last value in the place of the one removed.           *)
(*                                                                         *)
(* Positions are counted from 1, as the indexes kept are.                  *)
(***************************************************************************)
EXTENDS Conversion, Sequences

EmptySet == [values |-> << >>, indexes |-> [x \in Words |-> 0]]

SetContains(set, x) == set.indexes[x] # 0

SetLength(set) == Len(set.values)

SetAt(set, i) == set.values[i]

\* Mutant: values that were there before are appended again.
AddAlways(set, x) ==
    [values |-> Append(set.values, x),
     indexes |-> [set.indexes EXCEPT ![x] = Len(set.values) + 1]]

Add(set, x) ==
    IF SetContains(set, x) THEN set
    ELSE [values |-> Append(set.values, x),
          indexes |-> [set.indexes EXCEPT ![x] = Len(set.values) + 1]]

\* The last of the values takes position i.
MoveLast(set, i) ==
    LET last == set.values[Len(set.values)]
    IN  [values |-> [set.values EXCEPT ![i] = last],
         indexes |-> [set.indexes EXCEPT ![last] = i]]

\* The array without its last value, which is (now) x or a copy of another.
Pop(set, x) ==
    [values |-> SubSeq(set.values, 1, Len(set.values) - 1),
     indexes |-> [set.indexes EXCEPT ![x] = 0]]

\* Mutant: the value moved keeps its old index.
RemoveStaleIndex(set, x) ==
    LET i == set.indexes[x]
    IN  IF i = 0 THEN set
        ELSE Pop([set EXCEPT !.values = MoveLast(set, i).values], x)

Remove(set, x) ==
    LET i == set.indexes[x]
    IN  IF i = 0 THEN set
        ELSE IF i = Len(set.values) THEN Pop(set, x)
        ELSE Pop(MoveLast(set, i), x)

-----------------------------------------------------------------------------
\* The sets for users, of values of one type.
AddTyped(type, set, v) == Add(set, ToBytes32(type, v))

RemoveTyped(type, set, v) == Remove(set, ToBytes32(type, v))

ContainsTyped(type, set, v) == SetContains(set, ToBytes32(type, v))

AtTyped(type, set, i) == FromBytes32(type, SetAt(set, i))

\* values() takes the array of words for one of the type: nothing is converted.
ValuesTyped(set) == set.values

-----------------------------------------------------------------------------
\* The words in the array.
Members(set) == {set.values[i] : i \in DOMAIN set.values}

\* The array lists each member once, where its index says.
SetConsistent(set) ==
    /\ set.values \in Seq(Words)
    /\ set.indexes \in [Words -> 0..Len(set.values)]
    /\ \A i \in DOMAIN set.values : set.indexes[set.values[i]] = i
    /\ \A x \in Words : set.indexes[x] # 0 => set.values[set.indexes[x]] = x
=============================================================================
