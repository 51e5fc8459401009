---------------------------- MODULE VotingToken ----------------------------
(***************************************************************************)
(* FundiToken, an ERC20Votes: balances, delegations, and the history of    *)
(* every delegate's votes and of the supply, by block.  An operation is a  *)
(* transaction of one block; a call that reverts is no step.  Allowances   *)
(* are left out: TransferTokens and Burn stand for the calls of the owner  *)
(* and of a spender alike.                                                 *)
(***************************************************************************)
EXTENDS Chain, Checkpoints, Sums

CONSTANTS
    Holders,        \* the accounts that hold tokens and votes
    NoDelegate,     \* the zero address: not a holder
    InitialHolder,  \* setOwner, who gets all tokens at deployment
    Supply,         \* how many
    Amounts,        \* bound: the amounts transferred and burnt
    Signatures      \* the delegations that holders have signed

ASSUME HoldersAssumption ==
    /\ NoDelegate \notin Holders
    /\ InitialHolder \in Holders
    /\ IsFiniteSet(Holders)
    /\ Supply \in Nat
    /\ Amounts \subseteq Nat \ {0}
ASSUME SignaturesAssumption ==
    Signatures \subseteq [signer : Holders, delegatee : Holders \cup {NoDelegate},
                          nonce : Nat, expiry : Nat]

VARIABLES
    balances, delegates,
    checkpoints, supplyCheckpoints,
    nonces                \* how many signatures of a holder were used
tokenVars == <<balances, delegates, checkpoints, supplyCheckpoints, nonces>>

\* The constructor mints everything; nobody has delegated, so nobody votes.
TokenInit ==
    /\ balances = [a \in Holders |-> IF a = InitialHolder THEN Supply ELSE 0]
    /\ delegates = [a \in Holders |-> NoDelegate]
    /\ checkpoints = [a \in Holders |-> << >>]
    /\ supplyCheckpoints = WriteCheckpoint(<< >>, FirstBlock, Supply)
    /\ nonces = [a \in Holders |-> 0]

\* Mutant: a second change in a block is lost.
AddVotesOnce(ckpts, a, delta) ==
    IF ckpts[a] # << >> /\ ckpts[a][Len(ckpts[a])].fromBlock = blockNumber THEN ckpts
    ELSE [ckpts EXCEPT ![a] = WriteCheckpoint(@, blockNumber, Latest(@) + delta)]

\* Mutant: changes the newest checkpoint whatever its block is.
AddVotesInPlace(ckpts, a, delta) ==
    [ckpts EXCEPT ![a] = WriteCheckpoint(@, IF @ = << >> THEN blockNumber ELSE @[Len(@)].fromBlock,
                                         Latest(@) + delta)]

\* The votes of an account with delta more (or less) from this block on.
AddVotes(ckpts, a, delta) ==
    [ckpts EXCEPT ![a] = WriteCheckpoint(@, blockNumber, Latest(@) + delta)]

\* Mutant: tokens that get no delegate leave their votes behind.
MoveVotingPowerKept(src, dst, amount) ==
    IF src = dst \/ amount = 0 \/ dst = NoDelegate THEN checkpoints
    ELSE LET taken == IF src = NoDelegate THEN checkpoints
                      ELSE AddVotes(checkpoints, src, -amount)
         IN  AddVotes(taken, dst, amount)

\* Votes move from one delegate to another; the zero address keeps none.
MoveVotingPower(src, dst, amount) ==
    IF src = dst \/ amount = 0 THEN checkpoints
    ELSE LET taken == IF src = NoDelegate THEN checkpoints
                      ELSE AddVotes(checkpoints, src, -amount)
         IN  IF dst = NoDelegate THEN taken ELSE AddVotes(taken, dst, amount)

TransferTokens(from, to, amount) ==
    /\ balances[from] >= amount
    /\ balances' = [[balances EXCEPT ![from] = @ - amount] EXCEPT ![to] = @ + amount]
    /\ checkpoints' = MoveVotingPower(delegates[from], delegates[to], amount)
    /\ UNCHANGED <<delegates, supplyCheckpoints, nonces, clockVars>>

\* Mutant: burns tokens and leaves the supply's history alone.
BurnUnrecorded(from, amount) ==
    /\ balances[from] >= amount
    /\ balances' = [balances EXCEPT ![from] = @ - amount]
    /\ checkpoints' = MoveVotingPower(delegates[from], NoDelegate, amount)
    /\ UNCHANGED <<delegates, supplyCheckpoints, nonces, clockVars>>

Burn(from, amount) ==
    /\ balances[from] >= amount
    /\ balances' = [balances EXCEPT ![from] = @ - amount]
    /\ checkpoints' = MoveVotingPower(delegates[from], NoDelegate, amount)
    /\ supplyCheckpoints' = WriteCheckpoint(supplyCheckpoints, blockNumber,
                                            Latest(supplyCheckpoints) - amount)
    /\ UNCHANGED <<delegates, nonces, clockVars>>

SetDelegate(delegator, delegatee) ==
    /\ delegates' = [delegates EXCEPT ![delegator] = delegatee]
    /\ checkpoints' = MoveVotingPower(delegates[delegator], delegatee, balances[delegator])
    /\ UNCHANGED <<balances, supplyCheckpoints, clockVars>>

Delegate(delegator, delegatee) ==
    /\ SetDelegate(delegator, delegatee)
    /\ UNCHANGED nonces

\* Anyone may hand in a signed delegation, once, until it expires.
DelegateBySig(s) ==
    /\ timestamp <= s.expiry
    /\ s.nonce = nonces[s.signer]
    /\ nonces' = [nonces EXCEPT ![s.signer] = @ + 1]
    /\ SetDelegate(s.signer, s.delegatee)

TokenOperation ==
    \/ \E from, to \in Holders, amount \in Amounts : TransferTokens(from, to, amount)
    \/ \E from \in Holders, amount \in Amounts : Burn(from, amount)
    \/ \E a \in Holders, d \in Holders \cup {NoDelegate} : Delegate(a, d)
    \/ \E s \in Signatures : DelegateBySig(s)

\* The token by itself on the chain.
TokenNext ==
    \/ TokenOperation
    \/ /\ blockNumber < LastBlock
       /\ \E seconds \in BlockTimes : Mine(seconds)
       /\ UNCHANGED tokenVars

TokenDeployed == ChainInit /\ TokenInit
TokenSpec == TokenDeployed /\ [][TokenNext]_<<tokenVars, clockVars>>

\* getPastVotes and getPastTotalSupply, asked only of blocks already mined.
PastVotes(a, block) == ValueAt(checkpoints[a], block)
PastTotalSupply(block) == ValueAt(supplyCheckpoints, block)
-----------------------------------------------------------------------------
(***************************************************************************)
(* The types: histories are sorted by block, none of them in the future,   *)
(* and no votes are negative (an underflow would revert every transfer of  *)
(* the delegator).                                                         *)
(***************************************************************************)
History == Seq(Checkpoint(Nat, Nat))

TokenTypeOK ==
    /\ balances \in [Holders -> Nat]
    /\ delegates \in [Holders -> Holders \cup {NoDelegate}]
    /\ checkpoints \in [Holders -> History]
    /\ supplyCheckpoints \in History
    /\ nonces \in [Holders -> Nat]
    /\ blockNumber \in Nat
    /\ timestamp \in Nat
    /\ \A h \in {checkpoints[a] : a \in Holders} \cup {supplyCheckpoints} :
          /\ Sorted(h)
          /\ \A i \in DOMAIN h : h[i].fromBlock \in FirstBlock..blockNumber

\* The holders whose delegate a is.
Delegators(a) == {h \in Holders : delegates[h] = a}

(***************************************************************************)
(* getVotes is the sum of the balances delegated to the account, after any *)
(* order of transfers, burns and delegations (_moveVotingPower).           *)
(***************************************************************************)
VotesAreDelegated ==
    \A a \in Holders :
        Latest(checkpoints[a]) = SumOver(balances, Delegators(a))

(***************************************************************************)
(* The last supply checkpoint is the sum of the balances (_mint, _burn).   *)
(***************************************************************************)
SupplyIsSum ==
    Latest(supplyCheckpoints) = SumOver(balances, Holders)

(***************************************************************************)
(* At the end of every block the votes of all delegates are covered by the *)
(* supply of that block, so no vote is counted that has no token.          *)
(***************************************************************************)
PastVotesCovered ==
    \A b \in 0..(blockNumber - 1) :
        SumOver([a \in Holders |-> PastVotes(a, b)], Holders) <= PastTotalSupply(b)

(***************************************************************************)
(* The past is fixed: no operation changes what getPastVotes or            *)
(* getPastTotalSupply say of a mined block, and when a block is mined they *)
(* say of it what was true at its end (_writeCheckpoint).                  *)
(***************************************************************************)
PastStep(ckpts, later) ==
    \A b \in 0..(blockNumber' - 1) :
        ValueAt(later, b) = IF b < blockNumber THEN ValueAt(ckpts, b) ELSE Latest(ckpts)
PastIsFixed ==
    [][\/ UNCHANGED <<checkpoints, supplyCheckpoints, blockNumber>>
       \/ /\ \A a \in Holders : PastStep(checkpoints[a], checkpoints'[a])
          /\ PastStep(supplyCheckpoints, supplyCheckpoints')]_<<tokenVars, clockVars>>
=============================================================================
