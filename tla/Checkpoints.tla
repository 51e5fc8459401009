---------------------------- MODULE Checkpoints ----------------------------
(***************************************************************************)
(* The checkpoint histories of ERC20Votes and of the governor's quorum: a  *)
(* value with the block from which it holds, oldest first.                 *)
(***************************************************************************)
EXTENDS Integers, Sequences

Checkpoint(B, V) == [fromBlock : B, votes : V]

\* Blocks are strictly increasing: one checkpoint per block at most.
Sorted(ckpts) ==
    \A i, j \in DOMAIN ckpts :
        i < j => ckpts[i].fromBlock < ckpts[j].fromBlock

\* getVotes: the value now.
Latest(ckpts) == IF ckpts = << >> THEN 0 ELSE ckpts[Len(ckpts)].votes

\* Mutant: a new checkpoint for every change.
AppendCheckpoint(ckpts, block, value) ==
    Append(ckpts, [fromBlock |-> block, votes |-> value])

\* A second value in the same block replaces the first.
WriteCheckpoint(ckpts, block, value) ==
    IF ckpts # << >> /\ ckpts[Len(ckpts)].fromBlock = block
    THEN [ckpts EXCEPT ![Len(ckpts)].votes = value]
    ELSE Append(ckpts, [fromBlock |-> block, votes |-> value])

(***************************************************************************)
(* v is the value the history gives for a block: that of the last          *)
(* checkpoint not after it, and 0 when all checkpoints are.                *)
(***************************************************************************)
NotAfter(ckpts, block) == {i \in DOMAIN ckpts : ckpts[i].fromBlock <= block}

IsValueAt(ckpts, block, v) ==
    LET past == NotAfter(ckpts, block)
    IN  \/ past = {} /\ v = 0
        \/ \E i \in past : (\A j \in past : j <= i) /\ v = ckpts[i].votes

\* What _checkpointsLookup returns: CheckpointSearch shows that it does.
ValueAt(ckpts, block) ==
    CHOOSE v \in {0} \cup {ckpts[i].votes : i \in NotAfter(ckpts, block)} :
        IsValueAt(ckpts, block, v)
=============================================================================
