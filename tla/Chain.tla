------------------------------- MODULE Chain -------------------------------
(***************************************************************************)
(* The chain the contracts run on: its block number, by which votes are    *)
(* counted, and its block timestamp, by which the timelock waits.          *)
(***************************************************************************)
EXTENDS Naturals

CONSTANTS
    BlockTimes,             \* bound: the seconds from one block to the next
    FirstBlock, FirstTime,  \* when the contracts are deployed
    LastBlock               \* bound: no block after it, unless one is awaited

ASSUME ChainAssumption ==
    /\ BlockTimes \subseteq Nat \ {0}
    /\ {FirstBlock, LastBlock} \subseteq Nat \ {0}
    /\ FirstTime \in Nat \ {0, 1}

VARIABLES blockNumber, timestamp
clockVars == <<blockNumber, timestamp>>

ChainInit ==
    /\ blockNumber = FirstBlock
    /\ timestamp = FirstTime

Mine(seconds) ==
    /\ blockNumber' = blockNumber + 1
    /\ timestamp' = timestamp + seconds
=============================================================================
