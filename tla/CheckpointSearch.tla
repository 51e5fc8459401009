-------------------------- MODULE CheckpointSearch --------------------------
(***************************************************************************)
(* ERC20Votes reads a past value with a binary search that first guesses   *)
(* that the block is a recent one.  The array is read without a bounds     *)
(* check (_unsafeAccess), so the indices must be right by themselves.      *)
(* Indices are the code's: from 0, ckpts[i + 1] being the checkpoint i.    *)
(***************************************************************************)
EXTENDS Checkpoints, MathLib

CONSTANTS
    Histories,  \* the checkpoint histories searched in
    Blocks      \* the blocks asked for

ASSUME HistoriesAssumption ==
    \A h \in Histories : /\ h \in Seq(Checkpoint(Nat, Nat))
                         /\ Sorted(h)
ASSUME BlocksAssumption == Blocks \subseteq Nat

VARIABLES
    ckpts, blockNumber,  \* the arguments
    low, high,           \* the wanted checkpoint is in [low - 1, high)
    pc,
    result
searchVars == <<ckpts, blockNumber, low, high, pc, result>>

SearchInit ==
    /\ ckpts \in Histories
    /\ blockNumber \in Blocks
    /\ low = 0
    /\ high = Len(ckpts)
    /\ pc = "guess"
    /\ result = 0

\* The array index the next step reads.
Mid == IF pc = "guess" THEN Len(ckpts) - Sqrt(Len(ckpts)) ELSE Average(low, high)

\* Mutant: forgets that mid itself is ruled out.
NarrowToMid ==
    IF ckpts[Mid + 1].fromBlock > blockNumber
    THEN high' = Mid /\ low' = low
    ELSE low' = Mid /\ high' = high

\* Mutant: takes a checkpoint of the block itself for a later one.
NarrowStrict ==
    IF ckpts[Mid + 1].fromBlock >= blockNumber
    THEN high' = Mid /\ low' = low
    ELSE low' = Mid + 1 /\ high' = high

\* Keep the part of the range that mid leaves possible.
Narrow ==
    IF ckpts[Mid + 1].fromBlock > blockNumber
    THEN high' = Mid /\ low' = low
    ELSE low' = Mid + 1 /\ high' = high

\* Histories of more than five checkpoints are first cut near their end.
Guess ==
    /\ pc = "guess"
    /\ pc' = "loop"
    /\ IF Len(ckpts) > 5 THEN Narrow ELSE UNCHANGED <<low, high>>
    /\ UNCHANGED <<ckpts, blockNumber, result>>

Halve ==
    /\ pc = "loop"
    /\ low < high
    /\ Narrow
    /\ UNCHANGED <<ckpts, blockNumber, pc, result>>

\* Mutant: returns the checkpoint at low, the successor of the wanted one.
ReturnLow ==
    /\ pc = "loop"
    /\ low >= high
    /\ pc' = "done"
    /\ result' = IF low >= Len(ckpts) THEN Latest(ckpts) ELSE ckpts[low + 1].votes
    /\ UNCHANGED <<ckpts, blockNumber, low, high>>

Return ==
    /\ pc = "loop"
    /\ low >= high
    /\ pc' = "done"
    /\ result' = IF high = 0 THEN 0 ELSE ckpts[high].votes
    /\ UNCHANGED <<ckpts, blockNumber, low, high>>

SearchNext == Guess \/ Halve \/ Return

\* A call runs to its end: nothing else executes in its transaction.
SearchSpec == SearchInit /\ [][SearchNext]_searchVars /\ WF_searchVars(SearchNext)
-----------------------------------------------------------------------------
(***************************************************************************)
(* The types.                                                              *)
(***************************************************************************)
SearchTypeOK ==
    /\ ckpts \in Seq(Checkpoint(Nat, Nat)) /\ Sorted(ckpts)
    /\ blockNumber \in Nat
    /\ low \in 0..Len(ckpts)
    /\ high \in 0..Len(ckpts)
    /\ pc \in {"guess", "loop", "done"}
    /\ result \in Nat

(***************************************************************************)
(* No step reads outside of the array, which nothing else would catch: the *)
(* hazard of _unsafeAccess in _checkpointsLookup.                          *)
(***************************************************************************)
ReadsInBounds ==
    (\/ pc = "guess" /\ Len(ckpts) > 5
     \/ pc = "loop" /\ low < high) => Mid \in 0..(Len(ckpts) - 1)

(***************************************************************************)
(* The invariant the source states: the wanted checkpoint stays in         *)
(* [low - 1, high).  All before low are at or before the block, all from   *)
(* high on are after it.                                                   *)
(***************************************************************************)
RangeHoldsWanted ==
    /\ low <= high
    /\ \A i \in 1..low : ckpts[i].fromBlock <= blockNumber
    /\ \A i \in (high + 1)..Len(ckpts) : ckpts[i].fromBlock > blockNumber

(***************************************************************************)
(* _checkpointsLookup returns the value at the end of the block asked for, *)
(* from histories of every length, on both sides of the guess.             *)
(***************************************************************************)
FindsValue == pc = "done" => IsValueAt(ckpts, blockNumber, result)

(***************************************************************************)
(* The search ends: each round makes the range smaller.                    *)
(***************************************************************************)
SearchEnds == <>(pc = "done")
=============================================================================
