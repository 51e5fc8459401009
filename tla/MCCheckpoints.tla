--------------------------- MODULE MCCheckpoints ---------------------------
(***************************************************************************)
(* Every history over the blocks 1..LastCheckpoint, asked for every block  *)
(* up to the one after them.  The i-th checkpoint holds the value i, so    *)
(* that the value found tells which one it is.                             *)
(***************************************************************************)
EXTENDS CheckpointSearch

CONSTANT LastCheckpoint

Nth(S, i) == CHOOSE x \in S : Cardinality({y \in S : y <= x}) = i

MCHistories ==
    {[i \in 1..Cardinality(S) |-> [fromBlock |-> Nth(S, i), votes |-> i]] :
        S \in SUBSET (1..LastCheckpoint)}
MCBlocks == 0..(LastCheckpoint + 1)
=============================================================================
