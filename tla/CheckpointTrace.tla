-------------------------- MODULE CheckpointTrace --------------------------
(***************************************************************************)
(* The histories that scripts/generate/templates/Checkpoints.js generates. *)
(* A Trace gets its keys from its user; a History, the older flavor, takes *)
(* the block's number for key, and both key and value go through SafeCast. *)
(* Indices are the code's: from 0, trace[i + 1] being the checkpoint i.    *)
(***************************************************************************)
EXTENDS SafeCast, Sequences, MathLib

CONSTANTS
    KeyBits, ValueBits,  \* the widths of _key and _value
    PushedValues,        \* bound: the values and differences pushed
    LastBlockNumber      \* bound

ASSUME TraceAssumption ==
    /\ KeyBits \in Nat /\ ValueBits \in Nat /\ LastBlockNumber \in Nat
    /\ PushedValues \subseteq Nat

Flavors == {"History", "Trace"}
Ops == {"add", "subtract"}  \* the functions that Votes passes to push

VARIABLES
    flavor,       \* one of Flavors, chosen when a contract is compiled
    trace,        \* _checkpoints
    blockHeight,  \* external: block.number
    returned,     \* what the last push returned
    written       \* history: for each key the last value pushed with it

traceVars == <<flavor, trace, blockHeight, returned, written>>

TraceInit ==
    /\ flavor \in Flavors
    /\ trace = << >>
    /\ blockHeight = 0
    /\ returned = <<0, 0>>
    /\ written = << >>

KeysOfTrace == 0..MaxUint(KeyBits)

\* The value of the checkpoint before position pos.
ValueBefore(pos) == IF pos = 0 THEN 0 ELSE trace[pos].value

LatestValue == ValueBefore(Len(trace))

LatestCheckpoint ==
    IF trace = << >> THEN [exists |-> FALSE, key |-> 0, value |-> 0]
    ELSE [exists |-> TRUE, key |-> trace[Len(trace)].key, value |-> LatestValue]

\* Mutant: takes older keys as well.
InsertAnyKey(key, value) ==
    /\ trace' = IF LatestCheckpoint.exists /\ LatestCheckpoint.key = key
                THEN [trace EXCEPT ![Len(trace)].value = value]
                ELSE Append(trace, [key |-> key, value |-> value])
    /\ returned' = <<LatestValue, value>>
    /\ written' = [k \in DOMAIN written \cup {key} |->
                      IF k = key THEN value ELSE written[k]]
    /\ UNCHANGED <<flavor, blockHeight>>

\* Keys must not decrease; the value of an equal one is replaced.
Insert(key, value) ==
    /\ LatestCheckpoint.exists => LatestCheckpoint.key <= key
    /\ trace' = IF LatestCheckpoint.exists /\ LatestCheckpoint.key = key
                THEN [trace EXCEPT ![Len(trace)].value = value]
                ELSE Append(trace, [key |-> key, value |-> value])
    /\ returned' = <<LatestValue, value>>
    /\ written' = [k \in DOMAIN written \cup {key} |->
                      IF k = key THEN value ELSE written[k]]
    /\ UNCHANGED <<flavor, blockHeight>>

PushKey(key, value) ==
    /\ flavor = "Trace"
    /\ Insert(key, value)

PushValue(value) ==
    /\ flavor = "History"
    /\ FitsUint(KeyBits, blockHeight)
    /\ FitsUint(ValueBits, value)
    /\ Insert(UintOf(KeyBits, blockHeight), UintOf(ValueBits, value))

\* The subtraction reverts when there is less than delta.
PushOp(op, delta) ==
    \/ op = "add" /\ PushValue(LatestValue + delta)
    \/ op = "subtract" /\ delta <= LatestValue /\ PushValue(LatestValue - delta)

NextBlock ==
    /\ flavor = "History"
    /\ blockHeight < LastBlockNumber
    /\ blockHeight' = blockHeight + 1
    /\ UNCHANGED <<flavor, trace, returned, written>>

TraceNext ==
    \/ \E key \in KeysOfTrace, value \in PushedValues : PushKey(key, value)
    \/ \E value \in PushedValues : PushValue(value)
    \/ \E op \in Ops, delta \in PushedValues : PushOp(op, delta)
    \/ NextBlock

TraceSpec == TraceInit /\ [][TraceNext]_traceVars
-----------------------------------------------------------------------------
Positions == 0..Len(trace)

\* The first position in low..high whose checkpoint has a greater key.
UpperBinaryLookup(key, low, high) ==
    LET within[r \in Positions \X Positions] ==
            LET mid == Average(r[1], r[2])
            IN  IF r[1] >= r[2] THEN r[2]
                ELSE IF trace[mid + 1].key > key THEN within[<<r[1], mid>>]
                ELSE within[<<mid + 1, r[2]>>]
    IN  within[<<low, high>>]

\* Mutant: like the other search, passes over checkpoints of the key itself.
LowerBinaryLookupStrict(key, low, high) == UpperBinaryLookup(key, low, high)

\* The first position in low..high whose checkpoint has no smaller key.
LowerBinaryLookup(key, low, high) ==
    LET within[r \in Positions \X Positions] ==
            LET mid == Average(r[1], r[2])
            IN  IF r[1] >= r[2] THEN r[2]
                ELSE IF trace[mid + 1].key < key THEN within[<<mid + 1, r[2]>>]
                ELSE within[<<r[1], mid>>]
    IN  within[<<low, high>>]

LowerLookup(key) ==
    LET pos == LowerBinaryLookup(key, 0, Len(trace))
    IN  IF pos = Len(trace) THEN 0 ELSE trace[pos + 1].value

UpperLookup(key) == ValueBefore(UpperBinaryLookup(key, 0, Len(trace)))

\* getAtBlock, and getAtProbablyRecentBlock, revert unless:
Answerable(b) == b < blockHeight /\ FitsUint(KeyBits, b)

GetAtBlock(b) == UpperLookup(UintOf(KeyBits, b))

GetAtProbablyRecentBlock(b) ==
    LET key == UintOf(KeyBits, b)
        len == Len(trace)
        mid == len - Sqrt(len)
    IN  ValueBefore(IF len <= 5 THEN UpperBinaryLookup(key, 0, len)
                    ELSE IF key < trace[mid + 1].key THEN UpperBinaryLookup(key, 0, mid)
                    ELSE UpperBinaryLookup(key, mid + 1, len))

-----------------------------------------------------------------------------
\* v is what was written last under the keys of S, those nearest to key first.
IsNearest(v, S, key) ==
    \/ S = {} /\ v = 0
    \/ \E k \in S : /\ v = written[k]
                    /\ \A j \in S : j \in k..key \/ j \in key..k => j = k

(***************************************************************************)
(* Every way of reading a history answers what was last written at the     *)
(* nearest key, from below or from above, whatever was pushed in whatever  *)
(* order and however many checkpoints there are; the shortcut for recent   *)
(* blocks answers the same.                                                *)
(***************************************************************************)
LookupsExact ==
    /\ \A key \in KeysOfTrace :
          /\ IsNearest(UpperLookup(key), {k \in DOMAIN written : k <= key}, key)
          /\ IsNearest(LowerLookup(key), {k \in DOMAIN written : k >= key}, key)
    /\ \A b \in 0..LastBlockNumber :
          Answerable(b) => GetAtProbablyRecentBlock(b) = GetAtBlock(b)

(***************************************************************************)
(* What has been answered stays the answer: no push changes the value of a *)
(* past block, or of a key before the latest; and a push returns the value *)
(* it replaces, although it may have overwritten it.                       *)
(***************************************************************************)
AnswersStay ==
    [][/\ \A b \in 0..LastBlockNumber :
             Answerable(b) /\ flavor = "History" => GetAtBlock(b)' = GetAtBlock(b)
       /\ \A key \in KeysOfTrace :
             LatestCheckpoint.exists /\ key < LatestCheckpoint.key
                 => UpperLookup(key)' = UpperLookup(key)
       /\ trace' # trace => returned' = <<LatestValue, LatestValue'>>]_traceVars
=============================================================================
