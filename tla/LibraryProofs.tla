--------------------------- MODULE LibraryProofs ----------------------------
(***************************************************************************)
(* Proofs about OpenZeppelin's libraries: the search in the checkpoints of *)
(* votes, for every sorted history; the generated enumerable sets and      *)
(* maps, for every size of a word, every type no wider than one, and sets  *)
(* and maps of any size; the generated casts, for words of any width; and  *)
(* the generated histories, for keys and values of any width.              *)
(***************************************************************************)
EXTENDS CheckpointSearch, CheckpointTrace, CastChain, EnumerableMocks,
        NumberProofs

-----------------------------------------------------------------------------
(* The search in the checkpoints: the wanted one stays in [low - 1, high)  *)

\* The guess is inside of the array: the root is at least 1 and at most n.
LEMMA SqrtBounds == ASSUME NEW n \in Nat, n > 5
                    PROVE  Sqrt(n) \in 1..n
<1> DEFINE S == {r \in 1..n : r * r <= n}
<1>1. IsFiniteSet(1..n) /\ Cardinality(1..n) = n
  BY FS_Interval
<1>2. S \subseteq 1..n
  OBVIOUS
<1>3. IsFiniteSet(S) /\ Cardinality(S) <= n
  BY <1>1, <1>2, FS_Subset
<1>4. Cardinality(S) \in Nat
  BY <1>3, FS_CardinalityType
<1>5. 1 \in S
  OBVIOUS
<1>6. Cardinality(S) # 0
  BY <1>3, <1>5, FS_EmptySet
<1> QED
  BY <1>3, <1>4, <1>6 DEF Sqrt

LEMMA AverageBetween == ASSUME NEW a \in Nat, NEW b \in Nat, a < b
                        PROVE  Average(a, b) \in a..(b - 1)
BY DEF Average

SearchInv == SearchTypeOK /\ RangeHoldsWanted

\* Every index the search reads is inside of the array.
LEMMA MidInArray == SearchInv => ReadsInBounds
<1> SUFFICES ASSUME SearchInv,
                    \/ pc = "guess" /\ Len(ckpts) > 5
                    \/ pc = "loop" /\ low < high
             PROVE  Mid \in 0..(Len(ckpts) - 1)
  BY DEF ReadsInBounds
<1>0. /\ Len(ckpts) \in Nat
      /\ low \in 0..Len(ckpts)
      /\ high \in 0..Len(ckpts)
  BY DEF SearchInv, SearchTypeOK
<1>1. CASE pc = "guess" /\ Len(ckpts) > 5
  <2>1. Sqrt(Len(ckpts)) \in 1..Len(ckpts)
    BY <1>0, <1>1, SqrtBounds
  <2>2. Mid = Len(ckpts) - Sqrt(Len(ckpts))
    BY <1>1 DEF Mid
  <2> QED
    BY <1>0, <2>1, <2>2
<1>2. CASE pc = "loop" /\ low < high
  <2>1. Average(low, high) \in low..(high - 1)
    BY <1>0, <1>2, AverageBetween
  <2>2. Mid = Average(low, high)
    BY <1>2 DEF Mid
  <2> QED
    BY <1>0, <2>1, <2>2
<1> QED
  BY <1>1, <1>2

\* Cutting the range at an index inside of it keeps the wanted checkpoint.
LEMMA NarrowKeeps ==
    ASSUME SearchInv, Narrow, UNCHANGED <<ckpts, blockNumber>>,
           NEW m \in low..(high - 1), m = Mid
    PROVE  /\ low' \in 0..Len(ckpts)
           /\ high' \in 0..Len(ckpts)
           /\ RangeHoldsWanted'
<1>0. /\ Len(ckpts) \in Nat
      /\ low \in 0..Len(ckpts)
      /\ high \in 0..Len(ckpts)
      /\ low <= high
      /\ blockNumber \in Nat
      /\ \A i \in 1..low : ckpts[i].fromBlock <= blockNumber
      /\ \A i \in (high + 1)..Len(ckpts) : ckpts[i].fromBlock > blockNumber
  BY DEF SearchInv, SearchTypeOK, RangeHoldsWanted
<1>1. \A i \in 1..Len(ckpts) : ckpts[i].fromBlock \in Nat
  <2>1. \A i \in 1..Len(ckpts) : ckpts[i] \in Checkpoint(Nat, Nat)
    BY <1>0 DEF SearchInv, SearchTypeOK
  <2> QED
    BY <2>1 DEF Checkpoint
<1>2. \A i, j \in 1..Len(ckpts) : i < j => ckpts[i].fromBlock < ckpts[j].fromBlock
  BY DEF SearchInv, SearchTypeOK, Sorted
<1>3. m \in Nat /\ m + 1 \in 1..Len(ckpts)
  BY <1>0
<1>4. CASE ckpts[m + 1].fromBlock > blockNumber
  <2>1. high' = m /\ low' = low
    BY <1>4 DEF Narrow
  <2>2. \A i \in (m + 1)..Len(ckpts) : ckpts[i].fromBlock > blockNumber
    BY <1>0, <1>1, <1>2, <1>3, <1>4
  <2> QED
    BY <1>0, <2>1, <2>2 DEF RangeHoldsWanted
<1>5. CASE ~(ckpts[m + 1].fromBlock > blockNumber)
  <2>1. low' = m + 1 /\ high' = high
    BY <1>5 DEF Narrow
  <2>2. \A i \in 1..(m + 1) : ckpts[i].fromBlock <= blockNumber
    BY <1>0, <1>1, <1>2, <1>3, <1>5
  <2> QED
    BY <1>0, <1>3, <2>1, <2>2 DEF RangeHoldsWanted
<1> QED
  BY <1>4, <1>5

\* While the guess is pending the range is the whole array.
GuessInv == pc = "guess" => low = 0 /\ high = Len(ckpts)

LEMMA SearchInitInv == SearchInit => SearchInv /\ GuessInv
<1> SUFFICES ASSUME SearchInit PROVE SearchInv /\ GuessInv
  OBVIOUS
<1>1. ckpts \in Seq(Checkpoint(Nat, Nat)) /\ Sorted(ckpts)
  BY HistoriesAssumption DEF SearchInit
<1>2. Len(ckpts) \in Nat
  BY <1>1
<1> QED
  BY <1>1, <1>2, BlocksAssumption
  DEF SearchInit, SearchInv, SearchTypeOK, RangeHoldsWanted, GuessInv

LEMMA SearchStepInv ==
    SearchInv /\ GuessInv /\ [SearchNext]_searchVars => SearchInv' /\ GuessInv'
<1> SUFFICES ASSUME SearchInv, GuessInv, [SearchNext]_searchVars
             PROVE  SearchInv' /\ GuessInv'
  OBVIOUS
<1>0. /\ ckpts \in Seq(Checkpoint(Nat, Nat))
      /\ Len(ckpts) \in Nat
      /\ low \in 0..Len(ckpts)
      /\ high \in 0..Len(ckpts)
  BY DEF SearchInv, SearchTypeOK
<1>m. ReadsInBounds
  BY MidInArray
<1>1. CASE Guess
  <2>1. CASE Len(ckpts) > 5
    <3>1. Narrow /\ UNCHANGED <<ckpts, blockNumber, result>> /\ pc' = "loop"
      BY <1>1, <2>1 DEF Guess
    <3>2. Mid \in low..(high - 1)
      BY <1>0, <1>1, <1>m, <2>1 DEF Guess, GuessInv, ReadsInBounds
    <3>3. /\ low' \in 0..Len(ckpts)
          /\ high' \in 0..Len(ckpts)
          /\ RangeHoldsWanted'
      BY <3>1, <3>2, NarrowKeeps
    <3> QED
      BY <3>1, <3>3 DEF SearchInv, SearchTypeOK, GuessInv
  <2>2. CASE ~(Len(ckpts) > 5)
    BY <1>1, <2>2 DEF Guess, SearchInv, SearchTypeOK, RangeHoldsWanted, GuessInv
  <2> QED
    BY <2>1, <2>2
<1>2. CASE Halve
  <2>1. Narrow /\ UNCHANGED <<ckpts, blockNumber, pc, result>> /\ pc = "loop" /\ low < high
    BY <1>2 DEF Halve
  <2>2. Mid \in low..(high - 1)
    BY <1>0, <2>1, AverageBetween DEF Mid
  <2>3. /\ low' \in 0..Len(ckpts)
        /\ high' \in 0..Len(ckpts)
        /\ RangeHoldsWanted'
    BY <2>1, <2>2, NarrowKeeps
  <2> QED
    BY <2>1, <2>3 DEF SearchInv, SearchTypeOK, GuessInv
<1>3. CASE Return
  <2>1. result' = IF high = 0 THEN 0 ELSE ckpts[high].votes
    BY <1>3 DEF Return
  <2>2. high # 0 => ckpts[high] \in Checkpoint(Nat, Nat)
    BY <1>0
  <2>3. result' \in Nat
    BY <2>1, <2>2 DEF Checkpoint
  <2> QED
    BY <1>3, <2>3 DEF Return, SearchInv, SearchTypeOK, RangeHoldsWanted, GuessInv
<1>4. CASE UNCHANGED searchVars
  BY <1>4 DEF searchVars, SearchInv, SearchTypeOK, RangeHoldsWanted, GuessInv
<1> QED
  BY <1>1, <1>2, <1>3, <1>4 DEF SearchNext

(***************************************************************************)
(* Types and ranges: the comment's invariant of _checkpointsLookup holds   *)
(* in every state of every search.                                         *)
(***************************************************************************)
THEOREM RangeInvariant == SearchSpec => [](SearchInv /\ GuessInv)
<1>1. SearchInit => SearchInv /\ GuessInv
  BY SearchInitInv
<1>2. SearchInv /\ GuessInv /\ [SearchNext]_searchVars => (SearchInv /\ GuessInv)'
  BY SearchStepInv
<1> QED
  BY <1>1, <1>2, PTL DEF SearchSpec

(***************************************************************************)
(* No search reads outside of the array, whatever its length.              *)
(***************************************************************************)
THEOREM SearchReadsInBounds == SearchSpec => []ReadsInBounds
<1>1. SearchInv => ReadsInBounds
  BY MidInArray
<1> QED
  BY <1>1, RangeInvariant, PTL

(***************************************************************************)
(* Each round leaves at most half of the range, so a search reads about as *)
(* many checkpoints as their number has bits.                              *)
(***************************************************************************)
THEOREM RoundsHalveTheRange ==
    SearchSpec =>
        [][pc = "loop" /\ pc' = "loop" =>
              high' - low' \in Nat /\ 2 * (high' - low') <= high - low]_searchVars
<1> DEFINE Halved == pc = "loop" /\ pc' = "loop" =>
              high' - low' \in Nat /\ 2 * (high' - low') <= high - low
<1>1. SearchInv /\ GuessInv /\ [SearchNext]_searchVars => [Halved]_searchVars
  <2> SUFFICES ASSUME SearchInv, GuessInv, SearchNext, pc = "loop", pc' = "loop"
               PROVE  high' - low' \in Nat /\ 2 * (high' - low') <= high - low
    OBVIOUS
  <2>1. Narrow /\ low < high
    BY DEF SearchNext, Guess, Halve, Return
  <2>2. low \in Nat /\ high \in Nat
    <3>1. Len(ckpts) \in Nat /\ low \in 0..Len(ckpts) /\ high \in 0..Len(ckpts)
      BY DEF SearchInv, SearchTypeOK
    <3> QED
      BY <3>1
  <2>3. /\ Mid \in Nat /\ low <= Mid /\ Mid < high
        /\ 2 * (Mid - low) <= high - low
        /\ 2 * (high - (Mid + 1)) <= high - low
    BY <2>1, <2>2 DEF Mid, Average
  <2>4. \/ high' = Mid /\ low' = low
        \/ high' = high /\ low' = Mid + 1
    BY <2>1 DEF Narrow
  <2> HIDE DEF Mid
  <2> QED
    BY <2>2, <2>3, <2>4
<1> QED
  BY <1>1, RangeInvariant, PTL DEF SearchSpec

LEMMA CheckpointBlocks ==
    ASSUME NEW c \in Seq(Checkpoint(Nat, Nat))
    PROVE  \A i \in DOMAIN c : c[i].fromBlock \in Nat
<1>1. \A i \in DOMAIN c : c[i] \in Checkpoint(Nat, Nat)
  OBVIOUS
<1> QED
  BY <1>1 DEF Checkpoint

\* Once low meets high, the checkpoint before high is the wanted one.
LEMMA ReturnFinds ==
    SearchInv /\ FindsValue /\ [SearchNext]_searchVars => FindsValue'
<1> SUFFICES ASSUME SearchInv, FindsValue, [SearchNext]_searchVars
             PROVE  FindsValue'
  OBVIOUS
<1>0. /\ Len(ckpts) \in Nat
      /\ DOMAIN ckpts = 1..Len(ckpts)
      /\ low \in 0..Len(ckpts)
      /\ high \in 0..Len(ckpts)
      /\ low <= high
      /\ \A i \in 1..low : ckpts[i].fromBlock <= blockNumber
      /\ \A i \in (high + 1)..Len(ckpts) : ckpts[i].fromBlock > blockNumber
  BY DEF SearchInv, SearchTypeOK, RangeHoldsWanted
<1>1. CASE Guess \/ Halve
  BY <1>1 DEF Guess, Halve, FindsValue
<1>2. CASE Return
  <2>1. low = high /\ UNCHANGED <<ckpts, blockNumber>>
    BY <1>0, <1>2 DEF Return
  <2>2. CASE high = 0
    <3>1. result' = 0
      BY <1>2, <2>2 DEF Return
    <3>2. blockNumber \in Nat /\ \A i \in DOMAIN ckpts : ckpts[i].fromBlock \in Nat
      BY CheckpointBlocks DEF SearchInv, SearchTypeOK
    <3>3. NotAfter(ckpts, blockNumber) = {}
      BY <1>0, <2>1, <2>2, <3>2 DEF NotAfter
    <3> QED
      BY <2>1, <3>1, <3>3 DEF FindsValue, IsValueAt
  <2>3. CASE high # 0
    <3>1. result' = ckpts[high].votes
      BY <1>2, <2>3 DEF Return
    <3>2. high \in DOMAIN ckpts /\ ckpts[high].fromBlock <= blockNumber
      BY <1>0, <2>1, <2>3
    <3>3. \A j \in DOMAIN ckpts : j > high => ckpts[j].fromBlock > blockNumber
      BY <1>0
    <3>4. blockNumber \in Nat /\ \A i \in DOMAIN ckpts : ckpts[i].fromBlock \in Nat
      BY CheckpointBlocks DEF SearchInv, SearchTypeOK
    <3>5. /\ high \in NotAfter(ckpts, blockNumber)
          /\ \A j \in NotAfter(ckpts, blockNumber) : j <= high
      BY <1>0, <3>2, <3>3, <3>4 DEF NotAfter
    <3> QED
      BY <2>1, <3>1, <3>5 DEF FindsValue, IsValueAt
  <2> QED
    BY <2>2, <2>3
<1>3. CASE UNCHANGED searchVars
  BY <1>3 DEF searchVars, FindsValue
<1> QED
  BY <1>1, <1>2, <1>3 DEF SearchNext

(***************************************************************************)
(* What getPastVotes and getPastTotalSupply return is the value at the end *)
(* of the block asked for, for every history and every block.              *)
(***************************************************************************)
THEOREM SearchFindsValue == SearchSpec => []FindsValue
<1>1. SearchInit => FindsValue
  BY DEF SearchInit, FindsValue
<1>2. SearchInv /\ FindsValue /\ [SearchNext]_searchVars => FindsValue'
  BY ReturnFinds
<1> QED
  BY <1>1, <1>2, RangeInvariant, PTL DEF SearchSpec

\* ValueAt, which the other modules use for the search, is that value.
LEMMA ValueAtIsValue ==
    ASSUME NEW c \in Seq(Checkpoint(Nat, Nat)), NEW b \in Nat, NEW v,
           IsValueAt(c, b, v)
    PROVE  v = ValueAt(c, b)
<1> DEFINE past == NotAfter(c, b)
<1>1. past \subseteq Nat
  <2>1. DOMAIN c = 1..Len(c) /\ Len(c) \in Nat
    OBVIOUS
  <2> QED
    BY <2>1 DEF NotAfter
<1>2. v \in {0} \cup {c[i].votes : i \in past}
  BY DEF IsValueAt
<1>3. IsValueAt(c, b, ValueAt(c, b))
  BY <1>2 DEF ValueAt
<1>4. CASE past = {}
  BY <1>3, <1>4 DEF IsValueAt
<1>5. CASE past # {}
  <2>1. PICK i \in past : (\A j \in past : j <= i) /\ v = c[i].votes
    BY <1>5 DEF IsValueAt
  <2>2. PICK k \in past : (\A j \in past : j <= k) /\ ValueAt(c, b) = c[k].votes
    BY <1>3, <1>5 DEF IsValueAt
  <2>3. i = k
    BY <1>1, <2>1, <2>2
  <2> QED
    BY <2>1, <2>2, <2>3
<1> QED
  BY <1>4, <1>5

(***************************************************************************)
(* A finished search has returned ValueAt: the votes and the quorum of the *)
(* governance modules, written with ValueAt, are what the search computes. *)
(***************************************************************************)
THEOREM SearchReturnsValueAt ==
    SearchSpec => [](pc = "done" => result = ValueAt(ckpts, blockNumber))
<1>1. SearchInv /\ FindsValue => (pc = "done" => result = ValueAt(ckpts, blockNumber))
  BY ValueAtIsValue DEF SearchInv, SearchTypeOK, FindsValue
<1> QED
  BY <1>1, RangeInvariant, SearchFindsValue, PTL

-----------------------------------------------------------------------------
(* Words and types                                                         *)

\* The types there are sets and maps of.
Types == {"bytes32", "uint256", "address"}

LEMMA ModSmall ==
    ASSUME NEW n \in Nat \ {0}, NEW w \in 0..(n - 1)
    PROVE  w % n = w
OBVIOUS

\* A value of a type goes into a word and comes out of it unchanged.
LEMMA RoundTrip ==
    ASSUME NEW type \in Types, NEW v \in Values(type)
    PROVE  v \in Words /\ FromBytes32(type, v) = v
<1>1. TypeSize[type] \in Nat \ {0} /\ TypeSize[type] <= TypeSize["bytes32"]
  BY TypeSizeAssumption DEF Types
<1>2. v \in Words
  BY <1>1, TypeSizeAssumption DEF Values, Words
<1>3. v % TypeSize[type] = v
  BY <1>1, ModSmall DEF Values
<1> QED
  BY <1>2, <1>3 DEF FromBytes32

LEMMA ZeroIsValue ==
    ASSUME NEW type \in Types
    PROVE  0 \in Values(type)
BY TypeSizeAssumption DEF Types, Values

-----------------------------------------------------------------------------
(* The set: an array and an index that agree                               *)

LEMMA ContainsMeansMember ==
    ASSUME NEW set, SetConsistent(set), NEW x \in Words
    PROVE  SetContains(set, x) <=> x \in Members(set)
<1>1. ASSUME SetContains(set, x)
      PROVE  x \in Members(set)
  <2>1. set.indexes[x] \in DOMAIN set.values
    BY <1>1 DEF SetContains, SetConsistent
  <2> QED
    BY <1>1, <2>1 DEF SetContains, SetConsistent, Members
<1>2. ASSUME x \in Members(set)
      PROVE  SetContains(set, x)
  <2>1. PICK i \in DOMAIN set.values : set.values[i] = x
    BY <1>2 DEF Members
  <2>2. i \in Nat /\ i # 0
    BY DEF SetConsistent
  <2> QED
    BY <2>1, <2>2 DEF SetContains, SetConsistent
<1> QED
  BY <1>1, <1>2

LEMMA MembersAreWords ==
    ASSUME NEW set, SetConsistent(set)
    PROVE  Members(set) \subseteq Words
BY DEF SetConsistent, Members

LEMMA AddMember ==
    ASSUME NEW set, SetConsistent(set), NEW x \in Words
    PROVE  /\ SetConsistent(Add(set, x))
           /\ Members(Add(set, x)) = Members(set) \cup {x}
<1>1. CASE SetContains(set, x)
  BY <1>1, ContainsMeansMember DEF Add
<1>2. CASE ~SetContains(set, x)
  <2> DEFINE n == Len(set.values)
             vals == Append(set.values, x)
             idx == [set.indexes EXCEPT ![x] = n + 1]
             new == [values |-> vals, indexes |-> idx]
  <2>1. Add(set, x) = new
    BY <1>2 DEF Add
  <2>2. /\ set.values \in Seq(Words) /\ n \in Nat
        /\ set.indexes \in [Words -> 0..n]
        /\ \A i \in DOMAIN set.values : set.indexes[set.values[i]] = i
        /\ \A y \in Words : set.indexes[y] # 0 => set.values[set.indexes[y]] = y
        /\ set.indexes[x] = 0
    BY <1>2 DEF SetConsistent, SetContains
  <2>3. /\ vals \in Seq(Words) /\ Len(vals) = n + 1
        /\ DOMAIN set.values = 1..n /\ DOMAIN vals = 1..(n + 1)
        /\ vals[n + 1] = x
        /\ \A i \in 1..n : vals[i] = set.values[i] /\ vals[i] # x /\ vals[i] \in Words
    <3>1. \A i \in 1..n : set.values[i] # x
      BY <2>2
    <3> QED
      BY <2>2, <3>1
  <2>4. /\ idx \in [Words -> 0..(n + 1)] /\ idx[x] = n + 1
        /\ \A y \in Words : y # x => idx[y] = set.indexes[y]
    BY <2>2
  <2> HIDE DEF n, vals, idx
  <2>5. \A i \in 1..(n + 1) : idx[vals[i]] = i
    <3> SUFFICES ASSUME NEW i \in 1..(n + 1)
                 PROVE  idx[vals[i]] = i
      OBVIOUS
    <3>1. CASE i = n + 1
      BY <2>3, <2>4, <3>1
    <3>2. CASE i \in 1..n
      BY <2>2, <2>3, <2>4, <3>2
    <3> QED
      BY <2>2, <3>1, <3>2
  <2>6. \A y \in Words : idx[y] # 0 => vals[idx[y]] = y
    <3> SUFFICES ASSUME NEW y \in Words, idx[y] # 0
                 PROVE  vals[idx[y]] = y
      OBVIOUS
    <3>1. CASE y = x
      BY <2>3, <2>4, <3>1
    <3>2. CASE y # x
      <4>1. idx[y] = set.indexes[y] /\ set.indexes[y] \in 1..n
        BY <2>2, <2>4, <3>2
      <4> QED
        BY <2>2, <2>3, <4>1
    <3> QED
      BY <3>1, <3>2
  <2>7. SetConsistent(new)
    BY <2>3, <2>4, <2>5, <2>6 DEF SetConsistent
  <2>8. Members(new) = Members(set) \cup {x}
    <3>1. {vals[i] : i \in 1..(n + 1)} = {set.values[i] : i \in 1..n} \cup {x}
      <4>1. \A i \in 1..(n + 1) : i \in 1..n \/ i = n + 1
        BY <2>2
      <4>2. 1..n \subseteq 1..(n + 1) /\ n + 1 \in 1..(n + 1)
        BY <2>2
      <4> QED
        BY <2>3, <4>1, <4>2
    <3> QED
      BY <2>3, <3>1 DEF Members
  <2> QED
    BY <2>1, <2>7, <2>8
<1> QED
  BY <1>1, <1>2

\* Removing closes the gap with the last value, whose index follows.
LEMMA RemoveMember ==
    ASSUME NEW set, SetConsistent(set), NEW x \in Words
    PROVE  /\ SetConsistent(Remove(set, x))
           /\ Members(Remove(set, x)) = Members(set) \ {x}
<1> DEFINE n == Len(set.values)
           k == set.indexes[x]
           last == set.values[n]
<1>0. /\ set.values \in Seq(Words) /\ n \in Nat /\ DOMAIN set.values = 1..n
      /\ set.indexes \in [Words -> 0..n] /\ k \in 0..n
      /\ \A i \in 1..n : set.values[i] \in Words /\ set.indexes[set.values[i]] = i
      /\ \A y \in Words : set.indexes[y] # 0 =>
            set.indexes[y] \in 1..n /\ set.values[set.indexes[y]] = y
  BY DEF SetConsistent
<1>1. CASE k = 0
  <2>1. x \notin Members(set)
    BY <1>1, ContainsMeansMember DEF SetContains
  <2> QED
    BY <1>1, <2>1 DEF Remove
<1>2. CASE k # 0
  <2> DEFINE vals == [i \in 1..(n - 1) |-> IF i = k THEN last ELSE set.values[i]]
             idx == [y \in Words |-> IF y = x THEN 0
                                     ELSE IF y = last THEN k ELSE set.indexes[y]]
             new == [values |-> vals, indexes |-> idx]
  <2>1. /\ k \in 1..n /\ n \in Nat \ {0} /\ n - 1 \in Nat
        /\ set.values[k] = x /\ last \in Words /\ set.indexes[last] = n
        /\ (k = n <=> last = x)
    BY <1>0, <1>2
  <2>2. Remove(set, x) = new
    <3>1. CASE k = n
      <4>1. Remove(set, x) = Pop(set, x)
        BY <1>2, <3>1 DEF Remove
      <4>2. SubSeq(set.values, 1, n - 1) = vals
        BY <1>0, <2>1, <3>1
      <4>3. [set.indexes EXCEPT ![x] = 0] = idx
        BY <1>0, <2>1, <3>1
      <4> QED
        BY <4>1, <4>2, <4>3 DEF Pop
    <3>2. CASE k # n
      <4> DEFINE moved == [set.values EXCEPT ![k] = last]
                 placed == [set.indexes EXCEPT ![last] = k]
      <4>1. Remove(set, x) = Pop([values |-> moved, indexes |-> placed], x)
        BY <1>2, <3>2 DEF Remove, MoveLast
      <4>2. Len(moved) = n /\ moved \in Seq(Words)
        BY <1>0, <2>1
      <4>3. SubSeq(moved, 1, n - 1) = vals
        <5>1. \A i \in 1..(n - 1) :
                 moved[i] = IF i = k THEN last ELSE set.values[i]
          BY <1>0, <2>1
        <5> HIDE DEF moved
        <5> QED
          BY <2>1, <4>2, <5>1
      <4>4. [placed EXCEPT ![x] = 0] = idx
        BY <1>0, <2>1, <3>2
      <4> HIDE DEF moved, placed
      <4> QED
        BY <4>1, <4>2, <4>3, <4>4 DEF Pop
    <3> QED
      BY <3>1, <3>2
  <2>3. /\ Len(vals) = n - 1 /\ DOMAIN vals = 1..(n - 1) /\ vals \in Seq(Words)
        /\ \A i \in 1..(n - 1) : vals[i] = IF i = k THEN last ELSE set.values[i]
    BY <1>0, <2>1
  <2>4. \A y \in Words : idx[y] = IF y = x THEN 0
                                  ELSE IF y = last THEN k ELSE set.indexes[y]
    OBVIOUS
  <2>5. idx \in [Words -> 0..(n - 1)]
    <3>1. ASSUME NEW y \in Words
          PROVE  (IF y = x THEN 0 ELSE IF y = last THEN k ELSE set.indexes[y])
                   \in 0..(n - 1)
      <4>1. CASE y = x
        BY <2>1, <4>1
      <4>2. CASE y # x /\ y = last
        BY <2>1, <4>2
      <4>3. CASE y # x /\ y # last
        <5>1. set.indexes[y] # n
          BY <1>0, <2>1, <4>3
        <5> QED
          BY <1>0, <2>1, <4>3, <5>1
      <4> QED
        BY <4>1, <4>2, <4>3
    <3> QED
      BY <3>1
  <2> HIDE DEF n, k, last, vals, idx
  <2>6. \A i \in 1..(n - 1) : idx[vals[i]] = i
    <3> SUFFICES ASSUME NEW i \in 1..(n - 1)
                 PROVE  idx[vals[i]] = i
      OBVIOUS
    <3>0. i \in 1..n /\ i # n
      BY <2>1
    <3>1. CASE i = k
      <4>1. vals[i] = last /\ last # x
        BY <2>1, <2>3, <3>0, <3>1
      <4> QED
        BY <2>1, <2>4, <3>1, <4>1
    <3>2. CASE i # k
      <4>1. vals[i] = set.values[i] /\ set.indexes[set.values[i]] = i
        BY <1>0, <2>3, <3>0, <3>2
      <4>2. set.values[i] # x /\ set.values[i] # last /\ set.values[i] \in Words
        BY <1>0, <2>1, <3>0, <3>2, <4>1 DEF k
      <4> QED
        BY <2>4, <4>1, <4>2
    <3> QED
      BY <3>1, <3>2
  <2>7. \A y \in Words : idx[y] # 0 => vals[idx[y]] = y
    <3> SUFFICES ASSUME NEW y \in Words, idx[y] # 0
                 PROVE  vals[idx[y]] = y
      OBVIOUS
    <3>1. y # x /\ idx[y] \in 1..(n - 1)
      BY <2>1, <2>4, <2>5
    <3>2. CASE y = last
      BY <2>3, <2>4, <3>1, <3>2
    <3>3. CASE y # last
      <4>1. idx[y] = set.indexes[y] /\ set.values[set.indexes[y]] = y
        BY <1>0, <2>4, <3>1, <3>3
      <4>2. idx[y] # k
        BY <2>1, <3>1, <4>1
      <4> QED
        BY <2>3, <3>1, <4>1, <4>2
    <3> QED
      BY <3>2, <3>3
  <2>8. SetConsistent(new)
    BY <2>3, <2>5, <2>6, <2>7 DEF SetConsistent
  <2>9. \A y \in Words : y \in Members(new) <=> y \in Members(set) \ {x}
    <3> SUFFICES ASSUME NEW y \in Words
                 PROVE  y \in Members(new) <=> y \in Members(set) \ {x}
      OBVIOUS
    <3>1. y \in Members(new) <=> idx[y] # 0
      BY <2>8, ContainsMeansMember DEF SetContains
    <3>2. y \in Members(set) <=> set.indexes[y] # 0
      BY ContainsMeansMember DEF SetContains
    <3>3. idx[y] # 0 <=> y # x /\ set.indexes[y] # 0
      BY <2>1, <2>4
    <3> QED
      BY <3>1, <3>2, <3>3
  <2> QED
    BY <2>2, <2>8, <2>9, MembersAreWords
<1> QED
  BY <1>1, <1>2

-----------------------------------------------------------------------------
(* EnumerableSetMock                                                       *)

SetInv ==
    /\ setType \in Types
    /\ SetConsistent(theSet)
    /\ Members(theSet) \subseteq Values(setType)

\* A call changes one member, and says whether it was new or there.
LEMMA AddToSetCall ==
    ASSUME SetInv, NEW v \in Values(setType), AddToSet(v)
    PROVE  /\ SetInv'
           /\ Members(theSet') = Members(theSet) \cup {v}
           /\ setResult' = (v \notin Members(theSet))
<1>1. v \in Words /\ ToBytes32(setType, v) = v
  BY RoundTrip DEF SetInv, ToBytes32
<1>2. SetContains(theSet, v) = (v \in Members(theSet))
  BY <1>1, ContainsMeansMember DEF SetInv, SetContains
<1>3. theSet' = Add(theSet, v) /\ setType' = setType
  BY <1>1 DEF AddToSet, AddTyped
<1>4. setResult' = ~SetContains(theSet, v)
  BY <1>1 DEF AddToSet, ContainsTyped
<1>5. SetInv' /\ Members(theSet') = Members(theSet) \cup {v}
  BY <1>1, <1>3, AddMember DEF SetInv
<1>6. setResult' = (v \notin Members(theSet))
  BY <1>2, <1>4, Zenon
<1> QED
  BY <1>5, <1>6

LEMMA RemoveFromSetCall ==
    ASSUME SetInv, NEW v \in Values(setType), RemoveFromSet(v)
    PROVE  /\ SetInv'
           /\ Members(theSet') = Members(theSet) \ {v}
           /\ setResult' = (v \in Members(theSet))
<1>1. v \in Words /\ ToBytes32(setType, v) = v
  BY RoundTrip DEF SetInv, ToBytes32
<1>2. SetContains(theSet, v) = (v \in Members(theSet))
  BY <1>1, ContainsMeansMember DEF SetInv, SetContains
<1>3. theSet' = Remove(theSet, v) /\ setType' = setType
  BY <1>1 DEF RemoveFromSet, RemoveTyped
<1>4. setResult' = SetContains(theSet, v)
  BY <1>1 DEF RemoveFromSet, ContainsTyped
<1>5. SetInv' /\ Members(theSet') = Members(theSet) \ {v}
  BY <1>1, <1>3, RemoveMember DEF SetInv
<1>6. setResult' = (v \in Members(theSet))
  BY <1>2, <1>4, Zenon
<1> QED
  BY <1>5, <1>6

LEMMA EmptyConsistent == SetConsistent(EmptySet) /\ Members(EmptySet) = {}
BY DEF SetConsistent, EmptySet, Members

LEMMA SetInvariant == SetSpec => []SetInv
<1>1. SetInit => SetInv
  BY EmptyConsistent DEF SetInit, SetInv, Types
<1>2. SetInv /\ [SetNext]_setVars => SetInv'
  <2>1. SetInv /\ UNCHANGED setVars => SetInv'
    BY DEF SetInv, setVars
  <2>2. SetInv /\ SetNext => SetInv'
    BY AddToSetCall, RemoveFromSetCall DEF SetNext
  <2> QED
    BY <2>1, <2>2
<1> QED
  BY <1>1, <1>2, PTL DEF SetSpec

\* Words that are values of the type are handed out as what they are.
LEMMA ElementsAre ==
    ASSUME SetInv
    PROVE  /\ Elements = [v \in Members(theSet) |-> 0]
           /\ DOMAIN Elements = Members(theSet)
<1>1. \A w \in Members(theSet) : FromBytes32(setType, w) = w
  BY RoundTrip DEF SetInv
<1>2. {FromBytes32(setType, w) : w \in Members(theSet)} = Members(theSet)
  BY <1>1
<1> QED
  BY <1>2 DEF Elements

LEMMA SetReads == SetInv => SetReadsAgree
<1> SUFFICES ASSUME SetInv
             PROVE  SetReadsAgree
  OBVIOUS
<1>1. \A v \in Values(setType) : ContainsTyped(setType, theSet, v) <=> v \in DOMAIN Elements
  <2>1. ASSUME NEW v \in Values(setType)
        PROVE  ContainsTyped(setType, theSet, v) <=> v \in Members(theSet)
    <3>1. v \in Words /\ ToBytes32(setType, v) = v
      BY RoundTrip DEF SetInv, ToBytes32
    <3> QED
      BY <3>1, ContainsMeansMember DEF SetInv, ContainsTyped
  <2> QED
    BY <2>1, ElementsAre
<1>2. ASSUME NEW i \in DOMAIN ValuesTyped(theSet)
      PROVE  ValuesTyped(theSet)[i] = AtTyped(setType, theSet, i)
  <2>1. theSet.values[i] \in Values(setType)
    BY DEF SetInv, Members, ValuesTyped
  <2> QED
    BY <2>1, RoundTrip DEF SetInv, ValuesTyped, AtTyped, SetAt
<1>3. ASSUME NEW i \in DOMAIN ValuesTyped(theSet), NEW j \in DOMAIN ValuesTyped(theSet),
             ValuesTyped(theSet)[i] = ValuesTyped(theSet)[j]
      PROVE  i = j
  BY <1>3 DEF SetInv, SetConsistent, ValuesTyped
<1> QED
  BY <1>1, <1>2, <1>3 DEF SetReadsAgree

-----------------------------------------------------------------------------
(* EnumerableMapMock                                                       *)

\* A mapping holds a value only under the keys of the set.
MapInv ==
    /\ mapType.keyType \in Types /\ mapType.valueType \in Types
    /\ SetConsistent(theMap.keys)
    /\ Members(theMap.keys) \subseteq Values(mapType.keyType)
    /\ theMap.vals \in [Words -> Values(mapType.valueType)]
    /\ \A w \in Words : w \notin Members(theMap.keys) => theMap.vals[w] = 0

LEMMA MapInvInit == MapInit => MapInv
<1> SUFFICES ASSUME MapInit
             PROVE  MapInv
  OBVIOUS
<1>1. mapType.keyType \in Types /\ mapType.valueType \in Types
  BY DEF MapInit, MapTypes, MapType, Types
<1>2. theMap.keys = EmptySet /\ theMap.vals = [w \in Words |-> 0]
  BY DEF MapInit, EmptyMap
<1> QED
  BY <1>1, <1>2, EmptyConsistent, ZeroIsValue DEF MapInv

LEMMA PutInMap ==
    ASSUME MapInv, NEW k \in Values(mapType.keyType), NEW v \in Values(mapType.valueType),
           SetInMap(k, v)
    PROVE  /\ MapInv'
           /\ Members(theMap.keys)' = Members(theMap.keys) \cup {k}
           /\ theMap'.vals = [theMap.vals EXCEPT ![k] = v]
           /\ UNCHANGED mapType
           /\ mapResult' = (k \notin Members(theMap.keys))
<1>1. k \in Words /\ v \in Words
  BY RoundTrip DEF MapInv
<1>2. /\ theMap' = [keys |-> Add(theMap.keys, k), vals |-> [theMap.vals EXCEPT ![k] = v]]
      /\ mapType' = mapType
  BY DEF SetInMap, SetTyped, SetEntry, ToBytes32, AddTyped
<1>3. SetContains(theMap.keys, k) = (k \in Members(theMap.keys))
  BY <1>1, ContainsMeansMember DEF MapInv, SetContains
<1>4. mapResult' = (k \notin Members(theMap.keys))
  <2>1. mapResult' = ~SetContains(theMap.keys, k)
    BY DEF SetInMap, HasKeyTyped, HasEntry, ToBytes32, ContainsTyped
  <2> QED
    BY <1>3, <2>1, Zenon
<1>5. /\ SetConsistent(Add(theMap.keys, k))
      /\ Members(Add(theMap.keys, k)) = Members(theMap.keys) \cup {k}
  BY <1>1, AddMember DEF MapInv
<1>6. MapInv'
  BY <1>1, <1>2, <1>5 DEF MapInv
<1> QED
  BY <1>2, <1>4, <1>5, <1>6

LEMMA DropFromMap ==
    ASSUME MapInv, NEW k \in Values(mapType.keyType), RemoveFromMap(k)
    PROVE  /\ MapInv'
           /\ Members(theMap.keys)' = Members(theMap.keys) \ {k}
           /\ theMap'.vals = [theMap.vals EXCEPT ![k] = 0]
           /\ UNCHANGED mapType
           /\ mapResult' = (k \in Members(theMap.keys))
<1>1. k \in Words /\ 0 \in Values(mapType.valueType)
  BY RoundTrip, ZeroIsValue DEF MapInv
<1>2. /\ theMap' = [keys |-> Remove(theMap.keys, k), vals |-> [theMap.vals EXCEPT ![k] = 0]]
      /\ mapType' = mapType
  BY DEF RemoveFromMap, RemoveKeyTyped, RemoveEntry, ToBytes32, RemoveTyped
<1>3. SetContains(theMap.keys, k) = (k \in Members(theMap.keys))
  BY <1>1, ContainsMeansMember DEF MapInv, SetContains
<1>4. mapResult' = (k \in Members(theMap.keys))
  <2>1. mapResult' = SetContains(theMap.keys, k)
    BY DEF RemoveFromMap, HasKeyTyped, HasEntry, ToBytes32, ContainsTyped
  <2> QED
    BY <1>3, <2>1, Zenon
<1>5. /\ SetConsistent(Remove(theMap.keys, k))
      /\ Members(Remove(theMap.keys, k)) = Members(theMap.keys) \ {k}
  BY <1>1, RemoveMember DEF MapInv
<1>6. MapInv'
  BY <1>1, <1>2, <1>5 DEF MapInv
<1> QED
  BY <1>2, <1>4, <1>5, <1>6

LEMMA MapInvariant == MapSpec => []MapInv
<1>1. MapInv /\ UNCHANGED mapVars => MapInv'
  BY DEF MapInv, mapVars
<1>2. MapInv /\ MapNext => MapInv'
  BY PutInMap, DropFromMap DEF MapNext
<1> QED
  BY <1>1, <1>2, MapInvInit, PTL DEF MapSpec

-----------------------------------------------------------------------------
(* What both stand for                                                     *)

\* The map that keys and values stand for, read without conversions.
LEMMA EntriesAre ==
    ASSUME MapInv
    PROVE  /\ Entries = [k \in Members(theMap.keys) |-> theMap.vals[k]]
           /\ DOMAIN Entries = Members(theMap.keys)
           /\ \A k \in Members(theMap.keys) : Entries[k] = theMap.vals[k]
<1>1. \A w \in Members(theMap.keys) : FromBytes32(mapType.keyType, w) = w
  BY RoundTrip DEF MapInv
<1>2. {FromBytes32(mapType.keyType, w) : w \in Members(theMap.keys)} = Members(theMap.keys)
  BY <1>1
<1>3. ASSUME NEW k \in Members(theMap.keys)
      PROVE  GetTyped(mapType, theMap, k) = theMap.vals[k]
  <2>1. k \in Words
    BY MembersAreWords DEF MapInv
  <2>2. theMap.vals[k] \in Values(mapType.valueType)
    BY <2>1 DEF MapInv
  <2> QED
    BY <2>2, RoundTrip DEF MapInv, GetTyped, ToBytes32
<1>4. Entries = [k \in Members(theMap.keys) |-> GetTyped(mapType, theMap, k)]
  BY <1>2 DEF Entries
<1> QED
  BY <1>3, <1>4

\* The same of the next state.
ElementsReads ==
    /\ Elements = [v \in Members(theSet) |-> 0]
    /\ DOMAIN Elements = Members(theSet)
EntriesReads ==
    /\ Entries = [k \in Members(theMap.keys) |-> theMap.vals[k]]
    /\ DOMAIN Entries = Members(theMap.keys)

LEMMA ElementsNext == SetInv' => ElementsReads'
<1>1. SetInv => ElementsReads
  BY ElementsAre DEF ElementsReads
<1> QED
  BY <1>1, PTL

LEMMA EntriesNext == MapInv' => EntriesReads'
<1>1. MapInv => EntriesReads
  BY EntriesAre DEF EntriesReads
<1> QED
  BY <1>1, PTL

LEMMA SetStartsEmpty == SetInit => SetSays!KeyedMapInit
<1> SUFFICES ASSUME SetInit
             PROVE  SetSays!KeyedMapInit
  OBVIOUS
<1>1. SetInv /\ theSet = EmptySet
  BY EmptyConsistent DEF SetInit, SetInv, Types
<1>2. Elements = << >>
  BY <1>1, ElementsAre, EmptyConsistent
<1> QED
  BY <1>2 DEF SetInit, SetSays!KeyedMapInit

LEMMA MapStartsEmpty == MapInit => MapSays!KeyedMapInit
<1> SUFFICES ASSUME MapInit
             PROVE  MapSays!KeyedMapInit
  OBVIOUS
<1>1. MapInv /\ theMap.keys = EmptySet
  BY MapInvInit DEF MapInit, EmptyMap
<1>2. Entries = << >>
  BY <1>1, EntriesAre, EmptyConsistent
<1> QED
  BY <1>2 DEF MapInit, MapSays!KeyedMapInit

LEMMA AddToSetPuts ==
    ASSUME SetInv, NEW v \in Values(setType), AddToSet(v)
    PROVE  SetSays!Put(v, 0)
<1>1. /\ SetInv' /\ Members(theSet') = Members(theSet) \cup {v}
      /\ setResult' = (v \notin Members(theSet))
  BY AddToSetCall
<1>2. /\ Elements = [w \in Members(theSet) |-> 0] /\ DOMAIN Elements = Members(theSet)
      /\ Elements' = [w \in Members(theSet') |-> 0]
  BY <1>1, ElementsAre, ElementsNext DEF ElementsReads
<1>3. Elements' = [w \in DOMAIN Elements \cup {v} |-> IF w = v THEN 0 ELSE Elements[w]]
  BY <1>1, <1>2
<1>4. setResult' = (v \notin DOMAIN Elements)
  BY <1>1, <1>2, Zenon
<1> QED
  BY <1>3, <1>4 DEF SetSays!Put

LEMMA RemoveFromSetDrops ==
    ASSUME SetInv, NEW v \in Values(setType), RemoveFromSet(v)
    PROVE  SetSays!Drop(v)
<1>1. /\ SetInv' /\ Members(theSet') = Members(theSet) \ {v}
      /\ setResult' = (v \in Members(theSet))
  BY RemoveFromSetCall
<1>2. /\ Elements = [w \in Members(theSet) |-> 0] /\ DOMAIN Elements = Members(theSet)
      /\ Elements' = [w \in Members(theSet') |-> 0]
  BY <1>1, ElementsAre, ElementsNext DEF ElementsReads
<1>3. Elements' = [w \in DOMAIN Elements \ {v} |-> Elements[w]]
  BY <1>1, <1>2
<1>4. setResult' = (v \in DOMAIN Elements)
  BY <1>1, <1>2, Zenon
<1> QED
  BY <1>3, <1>4 DEF SetSays!Drop

LEMMA SetInMapPuts ==
    ASSUME MapInv, NEW k \in Values(mapType.keyType), NEW v \in Values(mapType.valueType),
           SetInMap(k, v)
    PROVE  MapSays!Put(k, v)
<1>1. /\ MapInv' /\ Members(theMap'.keys) = Members(theMap.keys) \cup {k}
      /\ theMap'.vals = [theMap.vals EXCEPT ![k] = v]
      /\ mapResult' = (k \notin Members(theMap.keys))
  BY PutInMap
<1>2. /\ DOMAIN Entries = Members(theMap.keys)
      /\ \A j \in Members(theMap.keys) : Entries[j] = theMap.vals[j]
      /\ Entries' = [j \in Members(theMap'.keys) |-> theMap'.vals[j]]
  BY <1>1, EntriesAre, EntriesNext DEF EntriesReads
<1>3. Members(theMap.keys) \subseteq Words /\ k \in Words
  BY MembersAreWords, RoundTrip DEF MapInv
<1>4. \A j \in Members(theMap'.keys) :
         theMap'.vals[j] = IF j = k THEN v ELSE Entries[j]
  BY <1>1, <1>2, <1>3 DEF MapInv
<1>5. Entries' = [j \in DOMAIN Entries \cup {k} |-> IF j = k THEN v ELSE Entries[j]]
  BY <1>1, <1>2, <1>4
<1>6. mapResult' = (k \notin DOMAIN Entries)
  BY <1>1, <1>2, Zenon
<1> QED
  BY <1>5, <1>6 DEF MapSays!Put

LEMMA RemoveFromMapDrops ==
    ASSUME MapInv, NEW k \in Values(mapType.keyType), RemoveFromMap(k)
    PROVE  MapSays!Drop(k)
<1>1. /\ MapInv' /\ Members(theMap'.keys) = Members(theMap.keys) \ {k}
      /\ theMap'.vals = [theMap.vals EXCEPT ![k] = 0]
      /\ mapResult' = (k \in Members(theMap.keys))
  BY DropFromMap
<1>2. /\ DOMAIN Entries = Members(theMap.keys)
      /\ \A j \in Members(theMap.keys) : Entries[j] = theMap.vals[j]
      /\ Entries' = [j \in Members(theMap'.keys) |-> theMap'.vals[j]]
  BY <1>1, EntriesAre, EntriesNext DEF EntriesReads
<1>3. Members(theMap.keys) \subseteq Words
  BY MembersAreWords DEF MapInv
<1>4. \A j \in Members(theMap'.keys) : theMap'.vals[j] = Entries[j]
  BY <1>1, <1>2, <1>3 DEF MapInv
<1>5. Entries' = [j \in DOMAIN Entries \ {k} |-> Entries[j]]
  BY <1>1, <1>2, <1>4
<1>6. mapResult' = (k \in DOMAIN Entries)
  BY <1>1, <1>2, Zenon
<1> QED
  BY <1>5, <1>6 DEF MapSays!Drop

\* Both implement a keyed map: a call changes one entry and says truly what it
\* did, whichever the type and however the array is permuted by removals.
THEOREM LibrariesAreMaps == SetSpec /\ MapSpec => ImplementKeyedMaps
<1>1. SetInv /\ [SetNext]_setVars => [SetSays!KeyedMapNext]_<<Elements, setResult>>
  <2>1. UNCHANGED setVars => UNCHANGED <<Elements, setResult>>
    BY DEF setVars, Elements
  <2>2. ASSUME SetInv, NEW v \in Values(setType), AddToSet(v) \/ RemoveFromSet(v)
        PROVE  SetSays!KeyedMapNext
    <3>1. v \in Words
      BY <2>2, RoundTrip DEF SetInv
    <3> QED
      BY <2>2, <3>1, AddToSetPuts, RemoveFromSetDrops DEF SetSays!KeyedMapNext
  <2> QED
    BY <2>1, <2>2 DEF SetNext
<1>2. MapInv /\ [MapNext]_mapVars => [MapSays!KeyedMapNext]_<<Entries, mapResult>>
  <2>1. UNCHANGED mapVars => UNCHANGED <<Entries, mapResult>>
    BY DEF mapVars, Entries
  <2>2. ASSUME MapInv, NEW k \in Values(mapType.keyType), RemoveFromMap(k)
        PROVE  MapSays!KeyedMapNext
    <3>1. k \in Words
      BY <2>2, RoundTrip DEF MapInv
    <3> QED
      BY <2>2, <3>1, RemoveFromMapDrops DEF MapSays!KeyedMapNext
  <2>3. ASSUME MapInv, NEW k \in Values(mapType.keyType),
               NEW v \in Values(mapType.valueType), SetInMap(k, v)
        PROVE  MapSays!KeyedMapNext
    <3>1. k \in Words /\ v \in Words
      BY <2>3, RoundTrip DEF MapInv
    <3> QED
      BY <2>3, <3>1, SetInMapPuts DEF MapSays!KeyedMapNext
  <2> QED
    BY <2>1, <2>2, <2>3 DEF MapNext
<1> QED
  BY <1>1, <1>2, SetInvariant, MapInvariant, SetStartsEmpty, MapStartsEmpty, PTL
  DEF SetSpec, MapSpec, ImplementKeyedMaps, SetSays!KeyedMapSpec, MapSays!KeyedMapSpec

-----------------------------------------------------------------------------
(* Every way of reading agrees                                             *)

LEMMA MapReads == MapInv => MapReadsAgree
<1> SUFFICES ASSUME MapInv
             PROVE  MapReadsAgree
  OBVIOUS
<1> DEFINE members == Members(theMap.keys)
<1>1. DOMAIN Entries = members /\ \A k \in members : Entries[k] = theMap.vals[k]
  BY EntriesAre
<1>2. /\ members \subseteq Values(mapType.keyType)
      /\ \A w \in Words : w \notin members => theMap.vals[w] = 0
      /\ theMap.vals \in [Words -> Values(mapType.valueType)]
      /\ \A w \in Values(mapType.keyType) :
            w \in Words /\ FromBytes32(mapType.keyType, w) = w
      /\ \A w \in Values(mapType.valueType) : FromBytes32(mapType.valueType, w) = w
  BY RoundTrip DEF MapInv
<1>3. ASSUME NEW k \in Values(mapType.keyType)
      PROVE  /\ TryGetTyped(mapType, theMap, k) =
                  IF k \in members THEN <<TRUE, theMap.vals[k]>> ELSE <<FALSE, 0>>
             /\ Gettable(theMap, ToBytes32(mapType.keyType, k)) <=> k \in members
             /\ HasKeyTyped(mapType, theMap, k) <=> k \in members
  <2>1. k \in Words
    BY <1>2
  <2>2. HasEntry(theMap, k) = (k \in members)
    BY <2>1, ContainsMeansMember
    DEF MapInv, HasEntry, ContainsTyped, ToBytes32, SetContains
  <2>3. /\ FromBytes32(mapType.valueType, theMap.vals[k]) = theMap.vals[k]
        /\ FromBytes32(mapType.valueType, 0) = 0
    BY <1>2, <2>1, ZeroIsValue DEF MapInv
  <2>4. k \notin members => theMap.vals[k] = 0
    BY <1>2, <2>1
  <2> HIDE DEF members
  <2>5. TryGetTyped(mapType, theMap, k) =
           IF k \in members THEN <<TRUE, theMap.vals[k]>> ELSE <<FALSE, 0>>
    <3>1. CASE k \in members
      <4>1. HasEntry(theMap, k) = TRUE
        BY <2>2, <3>1
      <4>2. TryGet(theMap, k) = <<TRUE, theMap.vals[k]>>
        BY <4>1 DEF TryGet
      <4>3. TryGetTyped(mapType, theMap, k) = <<TRUE, theMap.vals[k]>>
        BY <2>3, <4>2 DEF TryGetTyped, ToBytes32
      <4> QED
        BY <3>1, <4>3
    <3>2. CASE k \notin members
      <4>1. HasEntry(theMap, k) = FALSE
        <5>1. (k \in members) = FALSE
          BY <3>2
        <5> QED
          BY <2>2, <5>1, Zenon
      <4>2. TryGet(theMap, k) = <<FALSE, 0>>
        BY <2>4, <3>2, <4>1 DEF TryGet
      <4>3. TryGetTyped(mapType, theMap, k) = <<FALSE, 0>>
        BY <2>3, <4>2 DEF TryGetTyped, ToBytes32
      <4> QED
        BY <3>2, <4>3
    <3> QED
      BY <3>1, <3>2
  <2>6. Gettable(theMap, ToBytes32(mapType.keyType, k)) <=> k \in members
    BY <2>2, <2>4 DEF Gettable, ToBytes32
  <2>7. HasKeyTyped(mapType, theMap, k) <=> k \in members
    BY <2>2 DEF HasKeyTyped, ToBytes32
  <2> QED
    BY <2>5, <2>6, <2>7
<1>4. ASSUME NEW i \in 1..NumberOfEntries(theMap)
      PROVE  /\ theMap.keys.values[i] \in members
             /\ EntryAtTyped(mapType, theMap, i) =
                  <<theMap.keys.values[i], theMap.vals[theMap.keys.values[i]]>>
             /\ theMap.keys.indexes[theMap.keys.values[i]] = i
  <2> DEFINE k == theMap.keys.values[i]
  <2>1. i \in DOMAIN theMap.keys.values
    BY DEF NumberOfEntries, SetLength, MapInv, SetConsistent
  <2>2. k \in members /\ theMap.keys.indexes[k] = i
    BY <2>1 DEF MapInv, SetConsistent, Members
  <2>3. EntryAt(theMap, i) = <<k, theMap.vals[k]>>
    <3>1. AtTyped("bytes32", theMap.keys, i) = k
      BY DEF AtTyped, SetAt, FromBytes32
    <3> QED
      BY <3>1 DEF EntryAt
  <2>4. /\ FromBytes32(mapType.keyType, k) = k
        /\ FromBytes32(mapType.valueType, theMap.vals[k]) = theMap.vals[k]
    BY <1>2, <2>2
  <2> HIDE DEF k
  <2>5. EntryAtTyped(mapType, theMap, i) = <<k, theMap.vals[k]>>
    BY <2>3, <2>4 DEF EntryAtTyped
  <2> QED
    BY <2>2, <2>5 DEF k
<1>5. ASSUME NEW i \in 1..NumberOfEntries(theMap), NEW j \in 1..NumberOfEntries(theMap),
             EntryAtTyped(mapType, theMap, j)[1] = EntryAtTyped(mapType, theMap, i)[1]
      PROVE  i = j
  <2>1. theMap.keys.values[i] = theMap.keys.values[j]
    BY <1>4, <1>5
  <2> QED
    BY <1>4, <2>1
<1>6. ASSUME NEW i \in 1..NumberOfEntries(theMap)
      PROVE  /\ EntryAtTyped(mapType, theMap, i)[1] \in DOMAIN Entries
             /\ EntryAtTyped(mapType, theMap, i)[2] =
                   Entries[EntryAtTyped(mapType, theMap, i)[1]]
  BY <1>1, <1>4
<1>7. \A k \in Values(mapType.keyType) :
         /\ TryGetTyped(mapType, theMap, k) =
               IF k \in DOMAIN Entries THEN <<TRUE, Entries[k]>> ELSE <<FALSE, 0>>
         /\ Gettable(theMap, ToBytes32(mapType.keyType, k)) <=> k \in DOMAIN Entries
         /\ HasKeyTyped(mapType, theMap, k) <=> k \in DOMAIN Entries
  BY <1>1, <1>3
<1> QED
  BY <1>5, <1>6, <1>7 DEF MapReadsAgree

\* Look-ups by key and enumeration by index show the same set and the same map,
\* with values of zero and after any removals.
THEOREM EveryReadAgrees == SetSpec /\ MapSpec => []ReadsAgree
<1>1. SetInv /\ MapInv => ReadsAgree
  BY SetReads, MapReads DEF ReadsAgree
<1> QED
  BY <1>1, SetInvariant, MapInvariant, PTL

-----------------------------------------------------------------------------
(* Casts                                                                   *)

\* A number cut to the lower bits of a range of size m is itself if it is in the
\* range, and otherwise not.
LEMMA ModIsRest ==
    ASSUME NEW m \in Nat \ {0}, NEW v \in Int
    PROVE  /\ v % m \in 0..(m - 1)
           /\ v \in 0..(m - 1) => v % m = v
           /\ v \in (-m)..(-1) => v % m = v + m
OBVIOUS

\* A multiple of s that division leaves in n is between 1 and n.
LEMMA Multiples ==
    ASSUME NEW n \in Nat, NEW s \in Nat \ {0}, NEW k \in 1..(n \div s)
    PROVE  k * s \in 1..n
<1> DEFINE q == n \div s
<1>1. q \in Nat /\ q * s <= n
  OBVIOUS
<1> HIDE DEF q
<1>2. k \in Nat /\ 1 <= k /\ k <= q
  BY <1>1 DEF q
<1>3. PICK j \in Nat : q = k + j
  BY <1>1, <1>2, q - k \in Nat
<1>4. q * s = k * s + j * s /\ k * s \in Nat /\ j * s \in Nat
  BY <1>2, <1>3
<1>5. k * s >= 1
  BY <1>2
<1> QED
  BY <1>1, <1>4, <1>5

LEMMA LengthBounds ==
    /\ Width \in Nat \ {0}
    /\ \A n \in Lengths : n \in 1..Width
<1>1. Width \in Nat /\ Step \in Nat \ {0} /\ Step < Width
  BY WidthAssumption
<1>2. ASSUME NEW k \in 1..((Width - 1) \div Step)
      PROVE  k * Step \in 1..Width
  <2>1. Width - 1 \in Nat
    BY <1>1
  <2>2. k * Step \in 1..(Width - 1)
    BY <1>1, <1>2, <2>1, Multiples
  <2> QED
    BY <1>1, <2>2
<1> QED
  BY <1>1, <1>2 DEF Lengths

\* The bounds of a signed type are half of its size.
LEMMA Halves ==
    ASSUME NEW n \in Nat \ {0}
    PROVE  /\ 2^(n - 1) \in Nat \ {0}
           /\ 2^n = 2 * 2^(n - 1)
<1>1. n - 1 \in Nat /\ n = (n - 1) + 1
  OBVIOUS
<1> QED
  BY <1>1, PowerDoubles, PowerPositive

\* Casting to n bits returns a number of n bits, and the same one where it fits.
LEMMA SignedCast ==
    ASSUME NEW n \in Nat \ {0}, NEW v \in Int
    PROVE  /\ IntOf(n, v) \in MinInt(n)..MaxInt(n)
           /\ v \in MinInt(n)..MaxInt(n) => IntOf(n, v) = v
           /\ v \in 0..MaxInt(n) => IntOf(n, v) = v
<1> DEFINE h == 2^(n - 1)
           rest == v % (2 * h)
<1>1. h \in Nat \ {0} /\ 2^n = 2 * h
  BY Halves
<1>2. /\ IntOf(n, v) = IF rest > h - 1 THEN rest - 2 * h ELSE rest
      /\ MaxInt(n) = h - 1 /\ MinInt(n) = -h
  BY <1>1 DEF IntOf, MaxInt, MinInt
<1> HIDE DEF h
<1>3. /\ rest \in 0..(2 * h - 1)
      /\ v \in 0..(2 * h - 1) => rest = v
      /\ v \in (-(2 * h))..(-1) => rest = v + 2 * h
  <2>1. 2 * h \in Nat \ {0}
    BY <1>1
  <2> QED
    BY <2>1, ModIsRest
<1> HIDE DEF rest
<1> QED
  BY <1>1, <1>2, <1>3

LEMMA UnsignedCast ==
    ASSUME NEW n \in Nat, NEW v \in 0..MaxUint(n)
    PROVE  UintOf(n, v) = v
BY PowerPositive, ModIsRest DEF UintOf, MaxUint

\* What is checked on the way: the number, and that it has its place.
CastInv ==
    /\ signed \in BOOLEAN
    /\ bits \in 1..Width
    /\ number = original
    /\ number \in Int
    /\ number \in IF signed THEN MinInt(bits)..MaxInt(bits) ELSE 0..MaxUint(bits)

LEMMA CastInvInit == CastInit => CastInv
<1> SUFFICES ASSUME CastInit
             PROVE  CastInv
  OBVIOUS
<1>1. Width \in Nat \ {0}
  BY LengthBounds
<1>2. 2^Width \in Nat /\ 2^(Width - 1) \in Nat
  BY <1>1, Halves, PowerPositive
<1> QED
  BY <1>1, <1>2 DEF CastInit, CastInv, MinInt, MaxInt, MaxUint

\* Every type has room for the numbers of a shorter one of the same sign, and
\* uint256 for the naturals of int256.
LEMMA Fits ==
    ASSUME NEW n \in Nat \ {0}, NEW v \in Int
    PROVE  /\ v \in 0..MaxInt(n) => v \in 0..MaxUint(n)
           /\ MaxInt(n) \in Int /\ MinInt(n) \in Int /\ MaxUint(n) \in Int
BY Halves DEF MaxInt, MaxUint, MinInt

LEMMA Wider ==
    ASSUME NEW m \in Nat \ {0}, NEW n \in Nat \ {0}, m <= n, NEW v \in Int
    PROVE  /\ v \in 0..MaxUint(m) => v \in 0..MaxUint(n)
           /\ v \in MinInt(m)..MaxInt(m) => v \in MinInt(n)..MaxInt(n)
<1>1. 2^m <= 2^n /\ 2^(m - 1) <= 2^(n - 1)
  BY PowerGrows, m - 1 \in Nat, n - 1 \in Nat, m - 1 <= n - 1
<1>2. 2^m \in Nat /\ 2^n \in Nat /\ 2^(m - 1) \in Nat /\ 2^(n - 1) \in Nat
  BY PowerPositive, m - 1 \in Nat, n - 1 \in Nat
<1> QED
  BY <1>1, <1>2 DEF MaxUint, MinInt, MaxInt

LEMMA CastInvStep == CastInv /\ [CastNext]_castVars => CastInv'
<1> SUFFICES ASSUME CastInv, CastNext
             PROVE  CastInv'
  BY DEF CastInv, castVars
<1>0. Width \in Nat \ {0} /\ bits \in Nat \ {0}
  BY LengthBounds DEF CastInv
<1>1. ASSUME NEW n \in Lengths, ToUintN(n)
      PROVE  CastInv'
  <2>1. n \in 1..Width
    BY LengthBounds
  <2>2. number \in 0..MaxUint(n)
    BY <1>0, <1>1, <2>1, Fits DEF ToUintN, FitsUint, CastInv
  <2> QED
    BY <1>1, <2>1, <2>2, UnsignedCast DEF ToUintN, CastInv
<1>2. ASSUME NEW n \in Lengths, ToIntN(n)
      PROVE  CastInv'
  <2>1. n \in 1..Width
    BY LengthBounds
  <2>2. number \in MinInt(n)..MaxInt(n) /\ IntOf(n, number) = number
    BY <1>2, <2>1, SignedCast DEF ToIntN, FitsInt, CastInv
  <2> QED
    BY <1>2, <2>1, <2>2 DEF ToIntN, CastInv
<1>3. ASSUME ToUint256
      PROVE  CastInv'
  <2>1. number \in MinInt(Width)..MaxInt(Width)
    BY <1>0, <1>3, Wider DEF ToUint256, CastInv
  <2>2. number \in 0..MaxInt(Width)
    BY <1>0, <1>3, <2>1, Fits DEF ToUint256, IsUint, CastInv
  <2>3. number \in 0..MaxUint(Width)
    BY <1>0, <2>2, Fits DEF CastInv
  <2>4. UintOf(Width, number) = number
    BY <1>0, <2>3, UnsignedCast
  <2>5. /\ number' = number /\ original' = original
        /\ bits' = Width /\ signed' = FALSE
    BY <1>3, <2>4 DEF ToUint256
  <2>6. Width \in 1..Width /\ number \in Int /\ number = original
    BY <1>0 DEF CastInv
  <2> QED
    BY <2>3, <2>5, <2>6 DEF CastInv
<1>4. ASSUME ToInt256
      PROVE  CastInv'
  <2>1. number \in 0..MaxInt(Width)
    BY <1>0, <1>4, Fits DEF ToInt256, IsInt, CastInv
  <2>2. IntOf(Width, number) = number
    BY <1>0, <2>1, SignedCast DEF CastInv
  <2>3. number \in MinInt(Width)..MaxInt(Width)
    BY <1>0, <2>2, SignedCast DEF CastInv
  <2> QED
    BY <1>0, <1>4, <2>2, <2>3 DEF ToInt256, CastInv
<1> QED
  BY <1>1, <1>2, <1>3, <1>4 DEF CastNext

LEMMA CastInvMeans == CastInv => CastsKeepNumber
<1> SUFFICES ASSUME CastInv, NEW n \in Lengths
             PROVE  IF signed THEN FitsInt(n, number) <=> number \in MinInt(n)..MaxInt(n)
                              ELSE FitsUint(n, number) <=> number \in 0..MaxUint(n)
  BY DEF CastInv, CastsKeepNumber
<1>1. n \in Nat \ {0} /\ bits \in Nat \ {0}
  BY LengthBounds DEF CastInv
<1>2. FitsInt(n, number) <=> number \in MinInt(n)..MaxInt(n)
  BY <1>1, SignedCast DEF FitsInt, CastInv
<1>3. CASE ~signed
  BY <1>1, <1>3, Fits DEF FitsUint, CastInv
<1> QED
  BY <1>2, <1>3

\* However many casts a number goes through, in a word of any width, it stays the
\* number it was; and a cast reverts only where the number has no place.
THEOREM CastsAreExact == CastSpec => []CastsKeepNumber
<1> QED
  BY CastInvInit, CastInvStep, CastInvMeans, PTL DEF CastSpec

-----------------------------------------------------------------------------
(* A binary search is the solution of a recursive equation.  It has one,   *)
(* which is written down, and the least range rules out another.           *)

\* One round of a search over positions of which those from 1 to p are passed.
Round(n, p, f) ==
    [r \in (0..n) \X (0..n) |->
        IF r[1] >= r[2] THEN r[2]
        ELSE IF Average(r[1], r[2]) + 1 > p THEN f[<<r[1], Average(r[1], r[2])>>]
        ELSE f[<<Average(r[1], r[2]) + 1, r[2]>>]]

\* The end of those positions, or the end of the range that is nearer to it.
Nearer(p, lo, hi) ==
    IF lo >= hi THEN hi ELSE IF p < lo THEN lo ELSE IF p > hi THEN hi ELSE p

LEMMA RoundSolved ==
    ASSUME NEW n \in Nat, NEW p \in 0..n
    PROVE  LET f == [r \in (0..n) \X (0..n) |-> Nearer(p, r[1], r[2])]
           IN  f = Round(n, p, f)
<1> DEFINE f == [r \in (0..n) \X (0..n) |-> Nearer(p, r[1], r[2])]
<1>1. ASSUME NEW lo \in 0..n, NEW hi \in 0..n
      PROVE  Nearer(p, lo, hi) = Round(n, p, f)[<<lo, hi>>]
  <2> DEFINE mid == Average(lo, hi)
  <2>1. CASE lo >= hi
    BY <2>1 DEF Nearer, Round
  <2>2. CASE lo < hi
    <3>1. mid \in lo..(hi - 1)
      BY <2>2, AverageBetween
    <3> HIDE DEF mid
    <3>2. <<lo, mid>> \in (0..n) \X (0..n) /\ <<mid + 1, hi>> \in (0..n) \X (0..n)
      BY <3>1
    <3>3. /\ f[<<lo, mid>>] = Nearer(p, lo, mid)
          /\ f[<<mid + 1, hi>>] = Nearer(p, mid + 1, hi)
      BY <3>2
    <3>4. Nearer(p, lo, hi) = IF mid + 1 > p THEN Nearer(p, lo, mid)
                                 ELSE Nearer(p, mid + 1, hi)
      BY <2>2, <3>1 DEF Nearer
    <3> HIDE DEF f
    <3> QED
      BY <2>2, <3>3, <3>4 DEF Round, mid
  <2> QED
    BY <2>1, <2>2
<1>2. ASSUME NEW r \in (0..n) \X (0..n)
      PROVE  f[r] = Round(n, p, f)[r]
  <2>1. PICK lo \in 0..n, hi \in 0..n : r = <<lo, hi>>
    OBVIOUS
  <2>2. f[r] = Nearer(p, lo, hi)
    BY <2>1
  <2> HIDE DEF f
  <2> QED
    BY <1>1, <2>1, <2>2
<1> QED
  BY <1>2 DEF Round

LEMMA RoundUnique ==
    ASSUME NEW n \in Nat, NEW p \in 0..n, NEW f, f = Round(n, p, f)
    PROVE  \A lo, hi \in 0..n :
              lo <= hi => f[<<lo, hi>>] = Nearer(p, lo, hi)
<1> DEFINE Wrong(lo, hi) == f[<<lo, hi>>] # Nearer(p, lo, hi)
           T == {k \in Nat : \E lo, hi \in 0..n : hi - lo = k /\ Wrong(lo, hi)}
<1> HIDE DEF Wrong
<1>0. ASSUME NEW lo \in 0..n, NEW hi \in 0..n, lo <= hi, Wrong(lo, hi)
      PROVE  hi - lo \in T
  <2>1. hi - lo \in Nat
    BY <1>0
  <2> QED
    BY <1>0, <2>1
<1> SUFFICES ASSUME T # {}
             PROVE  FALSE
  BY <1>0 DEF Wrong
<1>1. PICK k \in T : \A m \in T : k <= m
  BY LeastNatural
<1>2. PICK lo \in 0..n, hi \in 0..n : hi - lo = k /\ Wrong(lo, hi)
  BY <1>1
<1>3. \A a, b \in 0..n : a <= b /\ b - a < k => f[<<a, b>>] = Nearer(p, a, b)
  <2> SUFFICES ASSUME NEW a \in 0..n, NEW b \in 0..n, a <= b, b - a < k,
                      Wrong(a, b)
               PROVE  FALSE
    BY DEF Wrong
  <2>1. b - a \in T
    BY <1>0
  <2>2. k \in Nat /\ k <= b - a
    BY <1>1, <2>1
  <2> QED
    BY <2>2
<1> HIDE DEF T
<1>4. f[<<lo, hi>>] = IF lo >= hi THEN hi
                         ELSE IF Average(lo, hi) + 1 > p
                              THEN f[<<lo, Average(lo, hi)>>]
                              ELSE f[<<Average(lo, hi) + 1, hi>>]
  <2>1. Round(n, p, f)[<<lo, hi>>] = IF lo >= hi THEN hi
                         ELSE IF Average(lo, hi) + 1 > p
                              THEN f[<<lo, Average(lo, hi)>>]
                              ELSE f[<<Average(lo, hi) + 1, hi>>]
    BY DEF Round
  <2> QED
    BY <2>1
<1>5. CASE lo >= hi
  BY <1>2, <1>4, <1>5 DEF Nearer, Wrong
<1>6. CASE lo < hi
  <2> DEFINE mid == Average(lo, hi)
  <2>1. mid \in lo..(hi - 1)
    BY <1>6, AverageBetween
  <2>2. f[<<lo, hi>>] = IF mid + 1 > p THEN f[<<lo, mid>>] ELSE f[<<mid + 1, hi>>]
    BY <1>4, <1>6
  <2> HIDE DEF mid
  <2>3. f[<<lo, mid>>] = Nearer(p, lo, mid)
    BY <1>2, <1>3, <2>1
  <2>4. f[<<mid + 1, hi>>] = Nearer(p, mid + 1, hi)
    BY <1>2, <1>3, <2>1
  <2>5. Nearer(p, lo, hi) = IF mid + 1 > p THEN Nearer(p, lo, mid)
                               ELSE Nearer(p, mid + 1, hi)
    BY <1>6, <2>1 DEF Nearer
  <2> QED
    BY <1>2, <2>2, <2>3, <2>4, <2>5 DEF Wrong
<1> QED
  BY <1>5, <1>6

\* A recursive search is the solution that CHOOSE takes.
LEMMA RoundChosen ==
    ASSUME NEW n \in Nat, NEW p \in 0..n, NEW lo \in 0..n, NEW hi \in 0..n,
           lo <= p, p <= hi
    PROVE  (CHOOSE f : f = Round(n, p, f))[<<lo, hi>>] = p
<1> DEFINE g == CHOOSE f : f = Round(n, p, f)
<1>1. g = Round(n, p, g)
  BY RoundSolved
<1> HIDE DEF g
<1>2. g[<<lo, hi>>] = Nearer(p, lo, hi)
  BY <1>1, RoundUnique
<1> QED
  BY <1>2 DEF Nearer, g

-----------------------------------------------------------------------------
\* The checkpoints from 1 to p have keys up to key, those after it have later ones.
Splits(p, key) ==
    /\ p \in Positions
    /\ \A i \in DOMAIN trace : trace[i].key <= key <=> i <= p

TraceOrdered ==
    /\ trace \in Seq([key : Nat, value : Nat])
    /\ \A i, j \in DOMAIN trace : i < j => trace[i].key < trace[j].key

LEMMA TraceTypes ==
    ASSUME TraceOrdered
    PROVE  /\ Len(trace) \in Nat
           /\ DOMAIN trace = 1..Len(trace)
           /\ Positions = 0..Len(trace)
           /\ \A i \in 1..Len(trace) : trace[i].key \in Nat /\ trace[i].value \in Nat
<1> DEFINE S == [key : Nat, value : Nat]
<1>1. trace \in Seq(S)
  BY DEF TraceOrdered
<1> HIDE DEF S
<1>2. Len(trace) \in Nat /\ DOMAIN trace = 1..Len(trace)
  BY <1>1
<1>3. \A i \in 1..Len(trace) : trace[i] \in S
  BY <1>1
<1> QED
  BY <1>2, <1>3 DEF Positions, S

LEMMA SomeSplit ==
    ASSUME TraceOrdered, NEW key \in Int
    PROVE  \E p : Splits(p, key)
<1> DEFINE n == Len(trace)
           S == {m \in 0..n : \A i \in (m + 1)..n : trace[i].key > key}
<1>0. /\ n \in Nat /\ DOMAIN trace = 1..n
      /\ \A i \in 1..n : trace[i].key \in Nat
  BY TraceTypes
<1>1. \A i, j \in 1..n : i < j => trace[i].key < trace[j].key
  BY <1>0 DEF TraceOrdered
<1> HIDE DEF n
<1>2. n \in S /\ S \subseteq Nat
  BY <1>0
<1>3. PICK p \in S : \A m \in S : p <= m
  BY <1>2, LeastNatural
<1>4. ASSUME NEW i \in 1..n, i <= p
      PROVE  trace[i].key <= key
  <2>1. p \in 1..n /\ p - 1 \notin S
    BY <1>0, <1>3, <1>4
  <2>2. trace[p].key <= key
    BY <1>0, <2>1, <1>3
  <2> QED
    BY <1>0, <1>1, <1>4, <2>1, <2>2
<1>5. ASSUME NEW i \in 1..n, i > p
      PROVE  trace[i].key > key
  BY <1>0, <1>3, <1>5
<1>6. Splits(p, key)
  BY <1>0, <1>3, <1>4, <1>5 DEF Splits, Positions, n
<1> QED
  BY <1>6

\* The searches find where the history splits, from any range around it.
LEMMA UpperFinds ==
    ASSUME TraceOrdered, NEW key \in Int, NEW p, Splits(p, key),
           NEW lo \in Positions, NEW hi \in Positions, lo <= p, p <= hi
    PROVE  UpperBinaryLookup(key, lo, hi) = p
<1> DEFINE n == Len(trace)
           Equation(f) == [r \in Positions \X Positions |->
                             IF r[1] >= r[2] THEN r[2]
                             ELSE IF trace[Average(r[1], r[2]) + 1].key > key
                                  THEN f[<<r[1], Average(r[1], r[2])>>]
                                  ELSE f[<<Average(r[1], r[2]) + 1, r[2]>>]]
<1>0. n \in Nat /\ DOMAIN trace = 1..n /\ Positions = 0..n /\ p \in 0..n
      /\ \A i \in 1..n : trace[i].key \in Nat
  BY TraceTypes DEF Splits
<1>1. UpperBinaryLookup(key, lo, hi) = (CHOOSE f : f = Equation(f))[<<lo, hi>>]
  BY DEF UpperBinaryLookup
<1>2. ASSUME NEW f
      PROVE  Equation(f) = Round(n, p, f)
  <2>1. ASSUME NEW a \in 0..n, NEW b \in 0..n, a < b
        PROVE  trace[Average(a, b) + 1].key > key <=> Average(a, b) + 1 > p
    <3>1. Average(a, b) + 1 \in 1..n
      <4>0. a \in Nat /\ b \in Nat
        BY <1>0
      <4>1. Average(a, b) \in a..(b - 1)
        BY <2>1, <4>0, AverageBetween
      <4> HIDE DEF n
      <4> QED
        BY <1>0, <4>1
    <3> QED
      BY <1>0, <3>1 DEF Splits
  <2> HIDE DEF n
  <2> QED
    BY <1>0, <2>1 DEF Round
<1> HIDE DEF Equation, n
<1>3. (CHOOSE f : f = Equation(f)) = (CHOOSE f : f = Round(n, p, f))
  BY <1>2
<1> QED
  BY <1>0, <1>1, <1>3, RoundChosen

LEMMA LowerFinds ==
    ASSUME TraceOrdered, NEW key \in Int, NEW p, Splits(p, key - 1)
    PROVE  LowerBinaryLookup(key, 0, Len(trace)) = p
<1> DEFINE n == Len(trace)
           Equation(f) == [r \in Positions \X Positions |->
                             IF r[1] >= r[2] THEN r[2]
                             ELSE IF trace[Average(r[1], r[2]) + 1].key < key
                                  THEN f[<<Average(r[1], r[2]) + 1, r[2]>>]
                                  ELSE f[<<r[1], Average(r[1], r[2])>>]]
<1>0. n \in Nat /\ DOMAIN trace = 1..n /\ Positions = 0..n /\ p \in 0..n
      /\ \A i \in 1..n : trace[i].key \in Nat
  BY TraceTypes DEF Splits
<1>1. LowerBinaryLookup(key, 0, n) = (CHOOSE f : f = Equation(f))[<<0, n>>]
  BY DEF LowerBinaryLookup
<1>2. ASSUME NEW f
      PROVE  Equation(f) = Round(n, p, f)
  <2>1. ASSUME NEW a \in 0..n, NEW b \in 0..n, a < b
        PROVE  trace[Average(a, b) + 1].key < key <=> ~(Average(a, b) + 1 > p)
    <3>1. Average(a, b) + 1 \in 1..n
      <4>0. a \in Nat /\ b \in Nat
        BY <1>0
      <4>1. Average(a, b) \in a..(b - 1)
        BY <2>1, <4>0, AverageBetween
      <4> HIDE DEF n
      <4> QED
        BY <1>0, <4>1
    <3> QED
      BY <1>0, <3>1 DEF Splits
  <2> HIDE DEF n
  <2> QED
    BY <1>0, <2>1 DEF Round
<1> HIDE DEF Equation
<1>3. (CHOOSE f : f = Equation(f)) = (CHOOSE f : f = Round(n, p, f))
  BY <1>2
<1>4. (CHOOSE f : f = Round(n, p, f))[<<0, n>>] = p
  <2>1. n \in Nat /\ p \in 0..n /\ 0 \in 0..n /\ n \in 0..n /\ 0 <= p /\ p <= n
    BY <1>0
  <2> HIDE DEF n
  <2> QED
    BY <2>1, RoundChosen
<1> QED
  BY <1>1, <1>3, <1>4

-----------------------------------------------------------------------------
(* What a history answers, without its search: the value where it splits.  *)

\* Lookups by key: of the last checkpoint up to it, and of the first from it on.
UpperAnswers ==
    \A key \in Int, p \in Positions :
        Splits(p, key) => UpperLookup(key) = ValueBefore(p)

LowerAnswers ==
    \A key \in Int, p \in Positions :
        Splits(p, key - 1) =>
            LowerLookup(key) = IF p = Len(trace) THEN 0 ELSE trace[p + 1].value

LEMMA LookupsAnswer == TraceOrdered => UpperAnswers /\ LowerAnswers
<1> SUFFICES ASSUME TraceOrdered
             PROVE  UpperAnswers /\ LowerAnswers
  OBVIOUS
<1>1. ASSUME NEW key \in Int, NEW p \in Positions, Splits(p, key)
      PROVE  UpperLookup(key) = ValueBefore(p)
  <2>1. /\ 0 \in Positions /\ Len(trace) \in Positions
        /\ 0 <= p /\ p <= Len(trace)
    BY TraceTypes
  <2>2. UpperBinaryLookup(key, 0, Len(trace)) = p
    BY <1>1, <2>1, UpperFinds
  <2> QED
    BY <2>2 DEF UpperLookup
<1>2. ASSUME NEW key \in Int, NEW p \in Positions, Splits(p, key - 1)
      PROVE  LowerLookup(key) = IF p = Len(trace) THEN 0 ELSE trace[p + 1].value
  BY <1>2, LowerFinds DEF LowerLookup
<1> QED
  BY <1>1, <1>2 DEF UpperAnswers, LowerAnswers

-----------------------------------------------------------------------------
(* The checkpoints are in order, and what was written under their keys     *)

TraceInv ==
    /\ flavor \in Flavors
    /\ blockHeight \in Nat
    /\ TraceOrdered
    /\ \A i \in DOMAIN trace : /\ trace[i].key \in KeysOfTrace
                               /\ flavor = "History" => trace[i].key <= blockHeight
    /\ DOMAIN written = {trace[i].key : i \in DOMAIN trace}
    /\ \A i \in DOMAIN trace : written[trace[i].key] = trace[i].value

LEMMA TraceInvInit == TraceInit => TraceInv
BY DEF TraceInit, TraceInv, TraceOrdered

LEMMA InsertKeepsInv ==
    ASSUME TraceInv, NEW key \in KeysOfTrace, NEW value \in Nat,
           flavor = "History" => key <= blockHeight, Insert(key, value)
    PROVE  TraceInv'
<1> DEFINE n == Len(trace)
           S == [key : Nat, value : Nat]
           new == [key |-> key, value |-> value]
<1>0. /\ n \in Nat /\ DOMAIN trace = 1..n
      /\ \A i \in 1..n : trace[i].key \in Nat /\ trace[i].value \in Nat
      /\ trace \in Seq(S)
      /\ \A i, j \in 1..n : i < j => trace[i].key < trace[j].key
  BY TraceTypes DEF TraceInv, TraceOrdered
<1>1. /\ \A i \in 1..n : /\ trace[i].key \in KeysOfTrace
                         /\ flavor = "History" => trace[i].key <= blockHeight
      /\ DOMAIN written = {trace[i].key : i \in 1..n}
      /\ \A i \in 1..n : written[trace[i].key] = trace[i].value
  BY <1>0 DEF TraceInv
<1>2. new \in S /\ new.key = key /\ new.value = value /\ key \in Nat
  BY DEF KeysOfTrace
<1>3. /\ flavor' = flavor /\ blockHeight' = blockHeight
      /\ written' = [k \in DOMAIN written \cup {key} |->
                        IF k = key THEN value ELSE written[k]]
  BY DEF Insert
\* What both cases come to.
<1>4. ASSUME NEW m \in {n, n + 1}, m >= 1,
             trace' \in Seq(S), Len(trace') = m,
             trace'[m].key = key, trace'[m].value = value,
             \A i \in 1..(m - 1) : trace'[i] = trace[i] /\ trace[i].key < key,
             {trace[i].key : i \in 1..n} \cup {key}
                = {trace[i].key : i \in 1..(m - 1)} \cup {key}
      PROVE  TraceInv'
  <2>1. DOMAIN trace' = 1..m /\ m \in Nat
    BY <1>0, <1>4
  <2>2. ASSUME NEW i \in 1..m
        PROVE  (i = m) \/ (i \in 1..(m - 1) /\ i \in 1..n)
    <3> HIDE DEF n
    <3>1. m \in Nat /\ i \in Nat /\ n \in Nat /\ m <= n + 1
      BY <1>0
    <3> QED
      BY <3>1
  <2>3. ASSUME NEW i \in 1..m, NEW j \in 1..m, i < j
        PROVE  trace'[i].key < trace'[j].key
    <3>1. i \in 1..(m - 1) /\ i \in 1..n
      BY <2>1, <2>2, <2>3
    <3>2. CASE j = m
      BY <1>4, <3>1, <3>2
    <3>3. CASE j \in 1..(m - 1) /\ j \in 1..n
      BY <1>0, <1>4, <2>3, <3>1, <3>3
    <3> QED
      BY <2>2, <3>2, <3>3
  <2>4. ASSUME NEW i \in 1..m
        PROVE  /\ trace'[i].key \in KeysOfTrace
               /\ flavor = "History" => trace'[i].key <= blockHeight
               /\ written'[trace'[i].key] = trace'[i].value
    <3>1. CASE i = m
      BY <1>3, <1>4, <3>1
    <3>2. CASE i \in 1..(m - 1) /\ i \in 1..n
      <4>1. trace'[i] = trace[i] /\ trace[i].key \in DOMAIN written
        BY <1>1, <1>4, <3>2
      <4>2. trace[i].key # key
        <5>1. trace[i].key \in Nat /\ trace[i].key < key
          BY <1>0, <1>4, <3>2
        <5> QED
          BY <1>2, <5>1
      <4> QED
        BY <1>1, <1>3, <3>2, <4>1, <4>2
    <3> QED
      BY <2>2, <3>1, <3>2
  <2>5. DOMAIN written' = {trace'[i].key : i \in 1..m}
    <3>1. DOMAIN written' = {trace[i].key : i \in 1..(m - 1)} \cup {key}
      BY <1>1, <1>3, <1>4
    <3>2. ASSUME NEW i \in 1..m
          PROVE  trace'[i].key \in {trace[j].key : j \in 1..(m - 1)} \cup {key}
      BY <1>4, <2>2
    <3>3. ASSUME NEW i \in 1..(m - 1)
          PROVE  i \in 1..m /\ trace[i].key = trace'[i].key
      BY <1>4, <2>1
    <3>4. m \in 1..m /\ trace'[m].key = key
      BY <1>4, <2>1
    <3> QED
      BY <3>1, <3>2, <3>3, <3>4
  <2>6. TraceOrdered'
    BY <1>4, <2>1, <2>3 DEF TraceOrdered
  <2>7. KeysOfTrace' = KeysOfTrace
    BY DEF KeysOfTrace, MaxUint
  <2> QED
    BY <1>3, <2>1, <2>4, <2>5, <2>6, <2>7 DEF TraceInv
<1>5. CASE LatestCheckpoint.exists /\ LatestCheckpoint.key = key
  <2>1. n >= 1 /\ trace[n].key = key
    BY <1>0, <1>5 DEF LatestCheckpoint
  <2>2. trace' = [trace EXCEPT ![n].value = value]
    BY <1>5 DEF Insert
  <2>3. /\ trace' \in Seq(S) /\ Len(trace') = n
        /\ trace'[n].key = key /\ trace'[n].value = value
        /\ \A i \in 1..(n - 1) : trace'[i] = trace[i]
    <3>1. trace[n] \in S
      <4> HIDE DEF S
      <4> QED
        BY <1>0, <2>1
    <3>2. [trace[n] EXCEPT !.value = value] \in S
      BY <3>1
    <3>3. /\ [trace[n] EXCEPT !.value = value].key = key
          /\ [trace[n] EXCEPT !.value = value].value = value
      BY <2>1, <3>1
    <3>4. trace' = [trace EXCEPT ![n] = [trace[n] EXCEPT !.value = value]]
      BY <2>2
    <3> HIDE DEF S, n
    <3> QED
      BY <1>0, <2>1, <3>2, <3>3, <3>4 DEF n
  <2>4. \A i \in 1..(n - 1) : trace[i].key < key
    BY <1>0, <2>1
  <2>5. {trace[i].key : i \in 1..n} \cup {key} = {trace[i].key : i \in 1..(n - 1)} \cup {key}
    <3>1. \A i \in 1..n : i \in 1..(n - 1) \/ trace[i].key = key
      BY <1>0, <2>1
    <3>2. \A i \in 1..(n - 1) : i \in 1..n
      BY <1>0
    <3> QED
      BY <3>1, <3>2
  <2> HIDE DEF n, S
  <2> QED
    BY <1>4, <2>1, <2>3, <2>4, <2>5
<1>6. CASE ~(LatestCheckpoint.exists /\ LatestCheckpoint.key = key)
  <2>1. trace' = Append(trace, new)
    BY <1>6 DEF Insert
  <2>2. n >= 1 => trace[n].key < key
    <3> SUFFICES ASSUME n >= 1
                 PROVE  trace[n].key < key
      OBVIOUS
    <3>1. LatestCheckpoint.exists /\ LatestCheckpoint.key = trace[n].key
      BY <1>0 DEF LatestCheckpoint
    <3>2. trace[n].key <= key /\ trace[n].key # key
      BY <1>6, <3>1 DEF Insert
    <3> QED
      BY <1>0, <1>2, <3>2
  <2>3. /\ trace' \in Seq(S) /\ Len(trace') = n + 1
        /\ trace'[n + 1] = new
        /\ \A i \in 1..n : trace'[i] = trace[i]
    <3> HIDE DEF S, new
    <3> QED
      BY <1>0, <1>2, <2>1
  <2>4. ASSUME NEW i \in 1..n
        PROVE  trace[i].key < key
    <3>1. i = n \/ i < n
      <4> HIDE DEF n
      <4> QED
        BY <1>0
    <3>2. n \in 1..n
      BY <1>0
    <3>3. i < n => trace[i].key < trace[n].key
      BY <1>0, <3>2
    <3>4. trace[n].key < key
      BY <1>0, <2>2, <3>2
    <3> HIDE DEF n
    <3> QED
      BY <1>0, <1>2, <3>1, <3>2, <3>3, <3>4
  <2> DEFINE m == n + 1
  <2>5. m \in {n, n + 1} /\ m >= 1 /\ m - 1 = n
    BY <1>0
  <2>6. trace'[m].key = key /\ trace'[m].value = value
    BY <1>2, <2>3
  <2> HIDE DEF n, S, new
  <2>7. /\ \A i \in 1..(m - 1) : trace'[i] = trace[i] /\ trace[i].key < key
        /\ Len(trace') = m
        /\ {trace[i].key : i \in 1..n} \cup {key} = {trace[i].key : i \in 1..(m - 1)} \cup {key}
    BY <2>3, <2>4, <2>5
  <2> HIDE DEF m
  <2> QED
    BY <1>4, <2>3, <2>5, <2>6, <2>7
<1> QED
  BY <1>5, <1>6

\* A step inserts a value under a key, or is of the chain.
LEMMA StepInserts ==
    ASSUME TraceInv, TraceNext
    PROVE  \/ \E key \in KeysOfTrace, value \in Nat :
                 /\ flavor = "History" => key = blockHeight
                 /\ Insert(key, value)
           \/ NextBlock
<1>0. /\ KeyBits \in Nat /\ ValueBits \in Nat /\ PushedValues \subseteq Nat
      /\ blockHeight \in Nat
  BY TraceAssumption DEF TraceInv
<1>1. LatestValue \in Nat
  <2>1. Len(trace) \in Nat /\ (Len(trace) # 0 => trace[Len(trace)].value \in Nat)
    BY TraceTypes DEF TraceInv
  <2> QED
    BY <2>1 DEF LatestValue, ValueBefore
<1>2. ASSUME NEW value \in Nat, PushValue(value)
      PROVE  \E key \in KeysOfTrace, v \in Nat :
                 (flavor = "History" => key = blockHeight) /\ Insert(key, v)
  <2>1. blockHeight \in 0..MaxUint(KeyBits) /\ value \in 0..MaxUint(ValueBits)
    <3>1. MaxUint(KeyBits) \in Int /\ MaxUint(ValueBits) \in Int
      BY <1>0, PowerPositive DEF MaxUint
    <3> QED
      BY <1>0, <1>2, <3>1 DEF PushValue, FitsUint
  <2>2. UintOf(KeyBits, blockHeight) = blockHeight /\ UintOf(ValueBits, value) = value
    BY <1>0, <2>1, UnsignedCast
  <2> QED
    BY <1>2, <2>1, <2>2 DEF PushValue, KeysOfTrace
<1>3. CASE \E key \in KeysOfTrace, value \in PushedValues : PushKey(key, value)
  BY <1>0, <1>3 DEF PushKey
<1>4. CASE \E value \in PushedValues : PushValue(value)
  BY <1>0, <1>2, <1>4
<1>5. CASE \E op \in Ops, delta \in PushedValues : PushOp(op, delta)
  <2>1. PICK op \in Ops, delta \in PushedValues : PushOp(op, delta)
    BY <1>5
  <2>2. \E value \in Nat : PushValue(value)
    <3>1. CASE op = "add" /\ PushValue(LatestValue + delta)
      BY <1>0, <1>1, <3>1
    <3>2. CASE delta <= LatestValue /\ PushValue(LatestValue - delta)
      BY <1>0, <1>1, <3>2
    <3> QED
      BY <2>1, <3>1, <3>2 DEF PushOp
  <2> QED
    BY <1>2, <2>2
<1> QED
  BY <1>3, <1>4, <1>5 DEF TraceNext

LEMMA TraceInvStep == TraceInv /\ [TraceNext]_traceVars => TraceInv'
<1> SUFFICES ASSUME TraceInv, [TraceNext]_traceVars
             PROVE  TraceInv'
  OBVIOUS
<1>1. CASE TraceNext
  <2>1. CASE NextBlock
    <3>1. \A i \in DOMAIN trace : trace[i].key \in Nat
      BY TraceTypes DEF TraceInv
    <3> QED
      BY <2>1, <3>1 DEF NextBlock, TraceInv, TraceOrdered, KeysOfTrace
  <2>2. ASSUME NEW key \in KeysOfTrace, NEW value \in Nat,
               flavor = "History" => key = blockHeight, Insert(key, value)
        PROVE  TraceInv'
    <3>1. flavor = "History" => key <= blockHeight
      BY <2>2 DEF TraceInv
    <3> QED
      BY <2>2, <3>1, InsertKeepsInv
  <2> QED
    BY <1>1, <2>1, <2>2, StepInserts
<1>2. CASE UNCHANGED traceVars
  BY <1>2 DEF traceVars, TraceInv, TraceOrdered, KeysOfTrace
<1> QED
  BY <1>1, <1>2

-----------------------------------------------------------------------------
(* Every answer is what was written last under the nearest key.            *)

LEMMA UpperExact ==
    ASSUME TraceInv, NEW key \in KeysOfTrace
    PROVE  IsNearest(UpperLookup(key), {k \in DOMAIN written : k <= key}, key)
<1> DEFINE n == Len(trace)
           S == {k \in DOMAIN written : k <= key}
<1>0. /\ n \in Nat /\ DOMAIN trace = 1..n /\ Positions = 0..n
      /\ \A i \in 1..n : trace[i].key \in Nat
      /\ \A i, j \in 1..n : i < j => trace[i].key < trace[j].key
  BY TraceTypes DEF TraceInv, TraceOrdered
<1>1. /\ DOMAIN written = {trace[i].key : i \in 1..n}
      /\ \A i \in 1..n : written[trace[i].key] = trace[i].value
      /\ key \in Int
  BY <1>0 DEF TraceInv, KeysOfTrace
<1>2. PICK p : Splits(p, key)
  BY <1>1, SomeSplit DEF TraceInv
<1>3. p \in 0..n /\ \A i \in 1..n : trace[i].key <= key <=> i <= p
  BY <1>0, <1>2 DEF Splits
<1>4. UpperLookup(key) = ValueBefore(p)
  BY <1>0, <1>1, <1>2, <1>3, LookupsAnswer DEF UpperAnswers, TraceInv
<1> HIDE DEF n
<1>5. CASE p = 0
  <2>1. S = {}
    BY <1>0, <1>1, <1>3, <1>5
  <2> QED
    BY <1>4, <1>5, <2>1 DEF IsNearest, ValueBefore
<1>6. CASE p # 0
  <2>1. p \in 1..n /\ trace[p].key \in S
    BY <1>0, <1>1, <1>3, <1>6
  <2>2. ASSUME NEW j \in S, j \in trace[p].key..key \/ j \in key..trace[p].key
        PROVE  j = trace[p].key
    <3>1. PICK i \in 1..n : j = trace[i].key
      BY <1>1
    <3>2. i <= p
      BY <1>0, <1>3, <3>1
    <3>3. CASE i < p
      <4>1. trace[i].key < trace[p].key /\ trace[p].key <= key
        BY <1>0, <1>3, <2>1, <3>3
      <4> QED
        BY <1>0, <1>1, <2>1, <2>2, <3>1, <4>1
    <3> QED
      BY <1>0, <2>1, <3>1, <3>2, <3>3
  <2>3. ValueBefore(p) = written[trace[p].key]
    BY <1>1, <1>6, <2>1 DEF ValueBefore
  <2> HIDE DEF S
  <2>4. IsNearest(ValueBefore(p), S, key)
    BY <2>1, <2>2, <2>3 DEF IsNearest
  <2> QED
    BY <1>4, <2>4 DEF S
<1> QED
  BY <1>5, <1>6

LEMMA LowerExact ==
    ASSUME TraceInv, NEW key \in KeysOfTrace
    PROVE  IsNearest(LowerLookup(key), {k \in DOMAIN written : k >= key}, key)
<1> DEFINE n == Len(trace)
           S == {k \in DOMAIN written : k >= key}
<1>0. /\ n \in Nat /\ DOMAIN trace = 1..n /\ Positions = 0..n
      /\ \A i \in 1..n : trace[i].key \in Nat
      /\ \A i, j \in 1..n : i < j => trace[i].key < trace[j].key
  BY TraceTypes DEF TraceInv, TraceOrdered
<1>1. /\ DOMAIN written = {trace[i].key : i \in 1..n}
      /\ \A i \in 1..n : written[trace[i].key] = trace[i].value
      /\ key \in Int
  BY <1>0 DEF TraceInv, KeysOfTrace
<1>2. PICK p : Splits(p, key - 1)
  BY <1>1, SomeSplit DEF TraceInv
<1>3. p \in 0..n /\ \A i \in 1..n : trace[i].key <= key - 1 <=> i <= p
  BY <1>0, <1>2 DEF Splits
<1>4. LowerLookup(key) = IF p = n THEN 0 ELSE trace[p + 1].value
  BY <1>0, <1>1, <1>2, <1>3, LookupsAnswer DEF LowerAnswers, TraceInv
<1> HIDE DEF n
<1>7. \A i \in 1..n : trace[i].key >= key <=> i > p
  BY <1>0, <1>1, <1>3
<1>5. CASE p = n
  <2>1. S = {}
    BY <1>0, <1>1, <1>5, <1>7
  <2> QED
    BY <1>4, <1>5, <2>1 DEF IsNearest
<1>6. CASE p # n
  <2>0. p + 1 \in 1..n
    BY <1>0, <1>3, <1>6
  <2>1. trace[p + 1].key \in S
    BY <1>0, <1>1, <1>7, <1>3, <2>0
  <2>2. ASSUME NEW j \in S, j \in trace[p + 1].key..key \/ j \in key..trace[p + 1].key
        PROVE  j = trace[p + 1].key
    <3>1. PICK i \in 1..n : j = trace[i].key
      BY <1>1
    <3>2. p + 1 <= i
      BY <1>0, <1>3, <1>7, <3>1
    <3>3. CASE p + 1 < i
      <4>1. trace[p + 1].key < trace[i].key /\ trace[p + 1].key >= key
        BY <1>0, <1>3, <1>7, <2>0, <3>3
      <4> QED
        BY <1>0, <1>1, <2>0, <2>2, <3>1, <4>1
    <3> QED
      BY <1>0, <2>0, <3>1, <3>2, <3>3
  <2>3. trace[p + 1].value = written[trace[p + 1].key]
    BY <1>1, <2>0
  <2> HIDE DEF S
  <2>4. IsNearest(trace[p + 1].value, S, key)
    BY <2>1, <2>2, <2>3 DEF IsNearest
  <2> QED
    BY <1>4, <1>6, <2>4 DEF S
<1> QED
  BY <1>5, <1>6

LEMMA ShortcutExact ==
    ASSUME TraceInv, NEW b \in Nat, Answerable(b)
    PROVE  GetAtProbablyRecentBlock(b) = GetAtBlock(b)
<1> DEFINE n == Len(trace)
           mid == n - Sqrt(n)
<1>0. /\ n \in Nat /\ DOMAIN trace = 1..n /\ Positions = 0..n
      /\ \A i \in 1..n : trace[i].key \in Nat
  BY TraceTypes DEF TraceInv
<1>1. b \in 0..MaxUint(KeyBits) /\ UintOf(KeyBits, b) = b
  <2>1. MaxUint(KeyBits) \in Int /\ KeyBits \in Nat
    BY TraceAssumption, PowerPositive DEF MaxUint
  <2>2. b \in 0..MaxUint(KeyBits)
    BY <2>1 DEF Answerable, FitsUint
  <2> QED
    BY <2>1, <2>2, UnsignedCast
<1>2. PICK p : Splits(p, b)
  BY SomeSplit DEF TraceInv
<1>3. p \in 0..n /\ \A i \in 1..n : trace[i].key <= b <=> i <= p
  BY <1>0, <1>2 DEF Splits
<1>4. GetAtBlock(b) = ValueBefore(p)
  BY <1>0, <1>1, <1>2, <1>3, LookupsAnswer DEF UpperAnswers, TraceInv, GetAtBlock
<1>5. GetAtProbablyRecentBlock(b) =
        ValueBefore(IF n <= 5 THEN UpperBinaryLookup(b, 0, n)
                    ELSE IF b < trace[mid + 1].key THEN UpperBinaryLookup(b, 0, mid)
                    ELSE UpperBinaryLookup(b, mid + 1, n))
  BY <1>1 DEF GetAtProbablyRecentBlock
<1> HIDE DEF n
<1>6. \A lo, hi \in 0..n : lo <= p /\ p <= hi => UpperBinaryLookup(b, lo, hi) = p
  BY <1>0, <1>2, UpperFinds DEF TraceInv
<1>7. CASE n <= 5
  <2>1. UpperBinaryLookup(b, 0, n) = p
    BY <1>0, <1>3, <1>6
  <2> QED
    BY <1>4, <1>5, <1>7, <2>1
<1>8. CASE ~(n <= 5)
  <2>1. Sqrt(n) \in 1..n
    BY <1>0, <1>8, SqrtBounds
  <2> HIDE DEF mid
  <2>2. mid \in 0..n /\ mid + 1 \in 1..n
    BY <1>0, <2>1 DEF mid
  <2>3. CASE b < trace[mid + 1].key
    <3>1. p <= mid
      BY <1>0, <1>3, <2>2, <2>3
    <3>2. UpperBinaryLookup(b, 0, mid) = p
      BY <1>0, <1>3, <1>6, <2>2, <3>1
    <3> QED
      BY <1>4, <1>5, <1>8, <2>3, <3>2
  <2>4. CASE ~(b < trace[mid + 1].key)
    <3>1. mid + 1 <= p
      BY <1>0, <1>3, <2>2, <2>4
    <3>2. UpperBinaryLookup(b, mid + 1, n) = p
      BY <1>0, <1>3, <1>6, <2>2, <3>1
    <3> QED
      BY <1>4, <1>5, <1>8, <2>4, <3>2
  <2> QED
    BY <2>3, <2>4
<1> QED
  BY <1>7, <1>8

LEMMA TraceInvMeans == TraceInv => LookupsExact
<1> SUFFICES ASSUME TraceInv
             PROVE  LookupsExact
  OBVIOUS
<1>1. \A b \in 0..LastBlockNumber : b \in Nat
  OBVIOUS
<1> QED
  BY <1>1, UpperExact, LowerExact, ShortcutExact DEF LookupsExact

\* Every lookup in a history of any length, with keys of any width, answers what
\* was last written at the nearest key, and the shortcut for recent blocks the same.
THEOREM LookupsAreExact == TraceSpec => []LookupsExact
<1> QED
  BY TraceInvInit, TraceInvStep, TraceInvMeans, PTL DEF TraceSpec

-----------------------------------------------------------------------------
(* What has been answered stays the answer.                                *)

\* A key splits the history before the checkpoint that a push writes.
LEMMA InsertKeepsAnswers ==
    ASSUME TraceInv, TraceInv', UpperAnswers, UpperAnswers',
           NEW key \in KeysOfTrace, NEW value \in Nat, Insert(key, value),
           NEW q \in Int, q < key
    PROVE  UpperLookup(q)' = UpperLookup(q)
<1> DEFINE n == Len(trace)
           new == [key |-> key, value |-> value]
           moved == [trace EXCEPT ![n].value = value]
<1>0. /\ n \in Nat /\ DOMAIN trace = 1..n /\ Positions = 0..n
      /\ \A i \in 1..n : trace[i].key \in Nat
      /\ \E S : trace \in Seq(S)
  BY TraceTypes DEF TraceInv, TraceOrdered
<1>1. PICK p : Splits(p, q)
  BY SomeSplit DEF TraceInv
<1>2. p \in 0..n /\ \A i \in 1..n : trace[i].key <= q <=> i <= p
  BY <1>0, <1>1 DEF Splits
<1>3. UpperLookup(q) = ValueBefore(p)
  BY <1>0, <1>1, <1>2 DEF UpperAnswers
<1>4. key \in Int
  BY DEF KeysOfTrace
<1>5. CASE LatestCheckpoint.exists /\ LatestCheckpoint.key = key
  <2>1. n >= 1 /\ trace[n].key = key
    BY <1>0, <1>5 DEF LatestCheckpoint
  <2>2. trace' = moved
    BY <1>5 DEF Insert
  <2>3. p < n
    BY <1>0, <1>2, <1>4, <2>1
  <2>4. /\ DOMAIN trace' = 1..n /\ Len(trace') = n
        /\ \A i \in 1..n : trace'[i].key = trace[i].key
        /\ \A i \in 1..(n - 1) : trace'[i] = trace[i]
    <3>1. DOMAIN moved = 1..n /\ Len(moved) = n
      BY <1>0
    <3>2. ASSUME NEW i \in 1..n
          PROVE  /\ moved[i].key = trace[i].key
                 /\ i # n => moved[i] = trace[i]
      BY <1>0
    <3> HIDE DEF moved, n
    <3> QED
      BY <1>0, <2>1, <2>2, <3>1, <3>2
  <2>5. Splits(p, q)'
    BY <1>0, <1>2, <2>4 DEF Splits, Positions
  <2>6. UpperLookup(q)' = ValueBefore(p)'
    BY <1>0, <1>2, <2>4, <2>5 DEF UpperAnswers, Positions
  <2>7. ValueBefore(p)' = ValueBefore(p)
    BY <1>0, <1>2, <2>3, <2>4 DEF ValueBefore
  <2> QED
    BY <1>3, <2>6, <2>7
<1>6. CASE ~(LatestCheckpoint.exists /\ LatestCheckpoint.key = key)
  <2>1. trace' = Append(trace, new)
    BY <1>6 DEF Insert
  <2>2. /\ DOMAIN trace' = 1..(n + 1) /\ Len(trace') = n + 1
        /\ trace'[n + 1].key = key
        /\ \A i \in 1..n : trace'[i] = trace[i]
    <3>1. trace'[n + 1] = new
      BY <1>0, <2>1
    <3>2. new.key = key
      OBVIOUS
    <3> HIDE DEF new
    <3> QED
      BY <1>0, <2>1, <3>1, <3>2
  <2> HIDE DEF n
  <2>3. ASSUME NEW i \in 1..(n + 1)
        PROVE  trace'[i].key <= q <=> i <= p
    <3>1. CASE i = n + 1
      BY <1>0, <1>2, <1>4, <2>2, <3>1
    <3>2. CASE i # n + 1
      BY <1>0, <1>2, <2>2, <3>2
    <3> QED
      BY <3>1, <3>2
  <2>4. p \in Positions'
    BY <1>0, <1>2, <2>2 DEF Positions
  <2>5. Splits(p, q)'
    BY <2>2, <2>3, <2>4 DEF Splits
  <2>6. UpperLookup(q)' = ValueBefore(p)'
    BY <2>4, <2>5 DEF UpperAnswers
  <2>7. ValueBefore(p)' = ValueBefore(p)
    BY <1>0, <1>2, <2>2 DEF ValueBefore
  <2> QED
    BY <1>3, <2>6, <2>7
<1> QED
  BY <1>5, <1>6

\* Where the checkpoints stay, so do the answers.
LEMMA SameTraceSameAnswers ==
    ASSUME TraceInv, UpperAnswers, UpperAnswers', trace' = trace, NEW q \in Int
    PROVE  UpperLookup(q)' = UpperLookup(q)
<1>1. PICK p : Splits(p, q)
  BY SomeSplit DEF TraceInv
<1>2. Splits(p, q)' /\ p \in Positions /\ p \in Positions'
  BY <1>1 DEF Splits, Positions
<1>3. UpperLookup(q) = ValueBefore(p) /\ UpperLookup(q)' = ValueBefore(p)'
  BY <1>1, <1>2 DEF UpperAnswers
<1> QED
  BY <1>3 DEF ValueBefore

\* A push returns the value it replaces and the one it writes.
LEMMA InsertReturns ==
    ASSUME TraceInv, NEW key \in KeysOfTrace, NEW value \in Nat, Insert(key, value)
    PROVE  returned' = <<LatestValue, LatestValue'>>
<1> DEFINE n == Len(trace)
           new == [key |-> key, value |-> value]
<1>0. /\ n \in Nat /\ DOMAIN trace = 1..n /\ \E S : trace \in Seq(S)
      /\ trace \in Seq([key : Nat, value : Nat])
  BY TraceTypes DEF TraceInv, TraceOrdered
<1>1. LatestValue' = value
  <2>1. CASE LatestCheckpoint.exists /\ LatestCheckpoint.key = key
    <3>1. n >= 1
      BY <1>0, <2>1 DEF LatestCheckpoint
    <3>2. trace' = [trace EXCEPT ![n].value = value]
      BY <2>1 DEF Insert
    <3>3. trace[n] \in [key : Nat, value : Nat]
      <4> DEFINE S == [key : Nat, value : Nat]
      <4>0. trace \in Seq(S)
        BY <1>0
      <4> HIDE DEF S
      <4>1. trace[n] \in S
        BY <1>0, <3>1, <4>0
      <4> QED
        BY <4>1 DEF S
    <3>4. Len(trace') = n /\ trace'[n].value = value
      BY <1>0, <3>1, <3>2, <3>3
    <3> QED
      BY <3>1, <3>4 DEF LatestValue, ValueBefore
  <2>2. CASE ~(LatestCheckpoint.exists /\ LatestCheckpoint.key = key)
    <3>1. trace' = Append(trace, new)
      BY <2>2 DEF Insert
    <3>2. Len(trace') = n + 1 /\ trace'[n + 1] = new
      <4> HIDE DEF new
      <4> QED
        BY <1>0, <3>1
    <3> QED
      BY <1>0, <3>2 DEF LatestValue, ValueBefore
  <2> QED
    BY <2>1, <2>2
<1> QED
  BY <1>1 DEF Insert

\* What AnswersStay says of one step.
StepKeepsAnswers ==
    /\ \A b \in 0..LastBlockNumber :
          Answerable(b) /\ flavor = "History" => GetAtBlock(b)' = GetAtBlock(b)
    /\ \A key \in KeysOfTrace :
          LatestCheckpoint.exists /\ key < LatestCheckpoint.key
              => UpperLookup(key)' = UpperLookup(key)
    /\ trace' # trace => returned' = <<LatestValue, LatestValue'>>

LEMMA AnswersStayStep ==
    TraceInv /\ TraceInv' /\ UpperAnswers /\ UpperAnswers' /\ [TraceNext]_traceVars
        => [StepKeepsAnswers]_traceVars
<1> SUFFICES ASSUME TraceInv, TraceInv', UpperAnswers, UpperAnswers', TraceNext
             PROVE  StepKeepsAnswers
  OBVIOUS
<1>0. \A q \in KeysOfTrace : q \in Int
  BY DEF KeysOfTrace
<1>1. ASSUME NEW b \in 0..LastBlockNumber, Answerable(b)
      PROVE  UintOf(KeyBits, b) = b /\ UintOf(KeyBits, b)' = b /\ b < blockHeight
  <2>1. MaxUint(KeyBits) \in Int /\ KeyBits \in Nat
    BY TraceAssumption, PowerPositive DEF MaxUint
  <2>2. b \in 0..MaxUint(KeyBits)
    BY <1>1, <2>1 DEF Answerable, FitsUint
  <2> QED
    BY <1>1, <2>1, <2>2, UnsignedCast DEF Answerable
<1>2. CASE trace' = trace
  <2>1. \A q \in Int : UpperLookup(q)' = UpperLookup(q)
    BY <1>2, SameTraceSameAnswers
  <2> QED
    BY <1>0, <1>1, <1>2, <2>1 DEF StepKeepsAnswers, GetAtBlock
<1>3. ASSUME NEW key \in KeysOfTrace, NEW value \in Nat,
             flavor = "History" => key = blockHeight, Insert(key, value)
      PROVE  StepKeepsAnswers
  <2>1. \A q \in Int : q < key => UpperLookup(q)' = UpperLookup(q)
    BY <1>3, InsertKeepsAnswers
  <2>2. ASSUME NEW b \in 0..LastBlockNumber, Answerable(b), flavor = "History"
        PROVE  GetAtBlock(b)' = GetAtBlock(b)
    <3>1. b \in Int /\ b < key
      BY <1>1, <1>3, <2>2
    <3> QED
      BY <1>1, <2>1, <2>2, <3>1 DEF GetAtBlock
  <2>3. ASSUME NEW q \in KeysOfTrace, LatestCheckpoint.exists, q < LatestCheckpoint.key
        PROVE  UpperLookup(q)' = UpperLookup(q)
    <3>1. LatestCheckpoint.key <= key
      BY <1>3, <2>3 DEF Insert
    <3>2. LatestCheckpoint.key \in Int
      BY <2>3, TraceTypes DEF LatestCheckpoint, TraceInv
    <3> QED
      BY <1>0, <2>1, <2>3, <3>1, <3>2
  <2>4. returned' = <<LatestValue, LatestValue'>>
    BY <1>3, InsertReturns
  <2> QED
    BY <2>2, <2>3, <2>4 DEF StepKeepsAnswers
<1> QED
  BY <1>2, <1>3, StepInserts DEF NextBlock

\* No push, in any number of them and in whatever order, changes what was answered
\* for a past block or for a key before the latest; it returns what it replaces.
THEOREM AnswersNeverChange == TraceSpec => AnswersStay
<1>1. TraceSpec => []TraceInv
  BY TraceInvInit, TraceInvStep, PTL DEF TraceSpec
<1>2. TraceInv => UpperAnswers
  BY LookupsAnswer DEF TraceInv
<1>3. [StepKeepsAnswers]_traceVars =>
      [/\ \A b \in 0..LastBlockNumber :
             Answerable(b) /\ flavor = "History" => GetAtBlock(b)' = GetAtBlock(b)
       /\ \A key \in KeysOfTrace :
             LatestCheckpoint.exists /\ key < LatestCheckpoint.key
                 => UpperLookup(key)' = UpperLookup(key)
       /\ trace' # trace => returned' = <<LatestValue, LatestValue'>>]_traceVars
  BY DEF StepKeepsAnswers
<1> QED
  BY <1>1, <1>2, <1>3, AnswersStayStep, PTL DEF TraceSpec, AnswersStay
=============================================================================
