---------------------------- MODULE VotingProofs ----------------------------
(***************************************************************************)
(* The vote of FundiToken and the governance it decides, for every set of  *)
(* holders and proposals, supply and length of histories.                  *)
(*                                                                         *)
(* The token: what a block's votes and supply were never changes; votes    *)
(* are the balances delegated, and the supply is the sum of the balances,  *)
(* now; and at no block of the past do the votes exceed the supply.  The   *)
(* first argument does not need that votes are not negative, which only    *)
(* the second shows: it takes values in checkpoints to be integers.        *)
(*                                                                         *)
(* Governor, timelock and token: governor and timelock agree about every   *)
(* operation, nothing is cancelled without a role that governance granted, *)
(* the outcome of a vote is fixed when the vote is over, and the whole     *)
(* implements ProposalLife.                                                *)
(***************************************************************************)
EXTENDS FactoryGovernor, NumberProofs

-----------------------------------------------------------------------------
(* Histories                                                               *)

\* A history as of a block: sorted, and with nothing after the block.
GoodHistory(c, b) ==
    /\ c \in Seq(Checkpoint(Nat, Int))
    /\ Sorted(c)
    /\ \A i \in DOMAIN c : c[i].fromBlock <= b

\* d says of the blocks before b what c says.
SamePast(c, d, b) == \A k \in 0..(b - 1) : ValueAt(d, k) = ValueAt(c, k)

Continues(c, d, b) == GoodHistory(d, b) /\ SamePast(c, d, b)

LEMMA HistoryFacts ==
    ASSUME NEW c, NEW b, GoodHistory(c, b)
    PROVE  /\ Len(c) \in Nat
           /\ DOMAIN c = 1..Len(c)
           /\ \A i \in DOMAIN c : /\ c[i] \in Checkpoint(Nat, Int)
                                  /\ c[i].fromBlock \in Nat
                                  /\ c[i].votes \in Int
<1>1. /\ Len(c) \in Nat
      /\ DOMAIN c = 1..Len(c)
      /\ \A i \in DOMAIN c : c[i] \in Checkpoint(Nat, Int)
  BY DEF GoodHistory
<1> QED
  BY <1>1 DEF Checkpoint

LEMMA LatestInt ==
    ASSUME NEW c, NEW b, GoodHistory(c, b)
    PROVE  Latest(c) \in Int
<1>1. CASE c = << >>
  BY <1>1 DEF Latest
<1>2. CASE c # << >>
  <2>1. Len(c) \in DOMAIN c
    BY <1>2, HistoryFacts DEF GoodHistory
  <2> QED
    BY <1>2, <2>1, HistoryFacts DEF Latest
<1> QED
  BY <1>1, <1>2

\* The value at a block depends on the checkpoints not after it alone.
LEMMA SameCheckpoints ==
    ASSUME NEW c, NEW d, NEW k,
           NotAfter(d, k) = NotAfter(c, k),
           \A i \in NotAfter(c, k) : d[i] = c[i]
    PROVE  ValueAt(d, k) = ValueAt(c, k)
<1>1. {d[i].votes : i \in NotAfter(d, k)} = {c[i].votes : i \in NotAfter(c, k)}
  OBVIOUS
<1>2. \A v : IsValueAt(d, k, v) <=> IsValueAt(c, k, v)
  BY DEF IsValueAt
<1> QED
  BY <1>1, <1>2 DEF ValueAt

\* With nothing after a block, the value now is the value at the block.
LEMMA LatestIsValue ==
    ASSUME NEW c, NEW b \in Nat, GoodHistory(c, b)
    PROVE  ValueAt(c, b) = Latest(c)
<1>1. Len(c) \in Nat /\ DOMAIN c = 1..Len(c)
  BY HistoryFacts
<1>2. NotAfter(c, b) = 1..Len(c)
  BY <1>1 DEF GoodHistory, NotAfter
<1>3. CASE c = << >>
  <2>1. NotAfter(c, b) = {}
    BY <1>1, <1>2, <1>3
  <2>2. \A v : IsValueAt(c, b, v) <=> v = 0
    BY <2>1 DEF IsValueAt
  <2> QED
    BY <1>3, <2>1, <2>2 DEF ValueAt, Latest
<1>4. CASE c # << >>
  <2>1. Len(c) \in 1..Len(c)
    BY <1>1, <1>4 DEF GoodHistory
  <2>2. \A v : IsValueAt(c, b, v) <=> v = c[Len(c)].votes
    BY <1>1, <1>2, <2>1 DEF IsValueAt
  <2> QED
    BY <1>2, <1>4, <2>1, <2>2 DEF ValueAt, Latest
<1> QED
  BY <1>3, <1>4

\* Arithmetic of lengths.
LEMMA Successor == \A m \in Nat : m + 1 \in Nat \ {0} /\ m = (m + 1) - 1 /\ m # m + 1
OBVIOUS

LEMMA UpTo == \A m, n \in Nat : (m = n \/ m = n - 1) => 1..(n - 1) \subseteq 1..m
OBVIOUS

\* d is c with the checkpoint n written, whether it is a new one or the last.
Written(c, d, n, new) ==
    /\ n \in Nat \ {0}
    /\ Len(c) = n \/ Len(c) = n - 1
    /\ d \in Seq(Checkpoint(Nat, Int))
    /\ Len(d) = n
    /\ d[n] = new
    /\ \A i \in 1..(n - 1) : d[i] = c[i] /\ c[i].fromBlock < new.fromBlock
    /\ Len(c) = n => c[n].fromBlock = new.fromBlock

\* Writing a checkpoint of the block leaves the blocks before it as they were.
LEMMA WriteContinues ==
    ASSUME NEW c, NEW b \in Nat, NEW v \in Int, GoodHistory(c, b)
    PROVE  Continues(c, WriteCheckpoint(c, b, v), b)
<1> DEFINE d == WriteCheckpoint(c, b, v)
           new == [fromBlock |-> b, votes |-> v]
<1>1. /\ Len(c) \in Nat
      /\ DOMAIN c = 1..Len(c)
      /\ c \in Seq(Checkpoint(Nat, Int))
      /\ Sorted(c)
      /\ \A i \in DOMAIN c : /\ c[i] \in Checkpoint(Nat, Int)
                             /\ c[i].fromBlock \in Nat
                             /\ c[i].fromBlock <= b
  BY HistoryFacts DEF GoodHistory
<1>0. Len(c) \in Nat /\ DOMAIN c = 1..Len(c)
  BY <1>1
<1>2. new \in Checkpoint(Nat, Int) /\ new.fromBlock = b
  BY DEF Checkpoint
<1>3. \E n \in Nat : Written(c, d, n, new)
  <2>1. CASE c # << >> /\ c[Len(c)].fromBlock = b
    <3>1. Len(c) \in DOMAIN c
      BY <1>1, <2>1
    <3>2. d = [c EXCEPT ![Len(c)].votes = v]
      BY <2>1 DEF WriteCheckpoint
    <3>3. [c[Len(c)] EXCEPT !.votes = v] = new
      BY <1>1, <2>1, <3>1 DEF Checkpoint
    <3>4. d = [c EXCEPT ![Len(c)] = new]
      BY <3>2, <3>3
    <3>5. d \in Seq(Checkpoint(Nat, Int)) /\ Len(d) = Len(c) /\ d[Len(c)] = new
      BY <1>1, <1>2, <3>1, <3>4
    <3>6. \A i \in 1..(Len(c) - 1) : d[i] = c[i]
      <4> SUFFICES ASSUME NEW i \in 1..(Len(c) - 1) PROVE d[i] = c[i]
        OBVIOUS
      <4>1. i \in DOMAIN c /\ i # Len(c)
        <5>1. \A n \in Nat : \A j \in 1..(n - 1) : j \in 1..n /\ j # n
          OBVIOUS
        <5> QED
          BY <1>0, <5>1, Zenon
      <4> HIDE DEF d
      <4> QED
        BY <3>4, <4>1
    <3>7. \A i \in 1..(Len(c) - 1) : c[i].fromBlock < b
      BY <1>1, <2>1, <3>1 DEF Sorted
    <3>8. Written(c, d, Len(c), new)
      BY <1>1, <1>2, <2>1, <3>1, <3>5, <3>6, <3>7 DEF Written
    <3> QED
      BY <1>1, <3>8
  <2>2. CASE ~(c # << >> /\ c[Len(c)].fromBlock = b)
    <3>1. d = Append(c, new)
      BY <2>2 DEF WriteCheckpoint
    <3>2. /\ d \in Seq(Checkpoint(Nat, Int))
          /\ Len(d) = Len(c) + 1
          /\ d[Len(c) + 1] = new
          /\ \A i \in 1..Len(c) : d[i] = c[i]
      BY <1>1, <1>2, <3>1
    <3>3. \A i \in 1..Len(c) : c[i].fromBlock < b
      <4> SUFFICES ASSUME NEW i \in 1..Len(c) PROVE c[i].fromBlock < b
        OBVIOUS
      <4>1. Len(c) \in DOMAIN c /\ c # << >>
        BY <1>1
      <4>2. c[Len(c)].fromBlock < b
        BY <1>1, <2>2, <4>1
      <4>3. i < Len(c) => c[i].fromBlock < c[Len(c)].fromBlock
        BY <1>1, <4>1 DEF Sorted
      <4> QED
        BY <1>1, <4>1, <4>2, <4>3
    <3>4. Written(c, d, Len(c) + 1, new)
      <4> HIDE DEF d, new
      <4>1. /\ Len(c) + 1 \in Nat \ {0}
            /\ Len(c) = (Len(c) + 1) - 1
            /\ Len(c) # Len(c) + 1
        BY <1>0, Successor
      <4>2. \A i \in 1..((Len(c) + 1) - 1) : d[i] = c[i] /\ c[i].fromBlock < new.fromBlock
        BY <1>2, <3>2, <3>3, <4>1
      <4> QED
        BY <3>2, <4>1, <4>2 DEF Written
    <3> QED
      BY <1>1, <3>4
  <2> QED
    BY <2>1, <2>2
<1> HIDE DEF d, new
<1> PICK n \in Nat : Written(c, d, n, new)
  BY <1>3
<1>w. /\ n \in Nat \ {0}
      /\ Len(c) = n \/ Len(c) = n - 1
      /\ d \in Seq(Checkpoint(Nat, Int))
      /\ Len(d) = n
      /\ d[n] = new
      /\ \A i \in 1..(n - 1) : d[i] = c[i] /\ c[i].fromBlock < b
      /\ Len(c) = n => c[n].fromBlock = b
  BY <1>2 DEF Written
<1>4. DOMAIN d = 1..n
  BY <1>w
<1>c. \A i \in 1..(n - 1) : i \in DOMAIN c
  <2>1. n \in Nat /\ (Len(c) = n \/ Len(c) = n - 1)
    BY <1>w
  <2> QED
    BY <1>0, <2>1, UpTo
<1>b. d[n].fromBlock = b
  BY <1>2, <1>w
<1>n. \A i \in 1..n : i = n \/ i \in 1..(n - 1)
  BY <1>w
<1>5. GoodHistory(d, b)
  <2>1. \A i \in 1..n : d[i].fromBlock \in Nat /\ d[i].fromBlock <= b
    <3> SUFFICES ASSUME NEW i \in 1..n PROVE d[i].fromBlock \in Nat /\ d[i].fromBlock <= b
      OBVIOUS
    <3>1. CASE i = n
      BY <1>b, <3>1
    <3>2. CASE i # n
      <4>1. d[i] = c[i] /\ i \in DOMAIN c
        BY <1>n, <1>w, <1>c, <3>2
      <4> QED
        BY <1>1, <4>1
    <3> QED
      BY <3>1, <3>2
  <2>2. \A i, j \in 1..n : i < j => d[i].fromBlock < d[j].fromBlock
    <3> SUFFICES ASSUME NEW i \in 1..n, NEW j \in 1..n, i < j
                 PROVE  d[i].fromBlock < d[j].fromBlock
      OBVIOUS
    <3>1. i \in 1..(n - 1)
      BY <1>w
    <3>2. CASE j = n
      BY <1>1, <1>2, <1>w, <3>1, <3>2
    <3>3. CASE j # n
      <4>1. j \in 1..(n - 1)
        BY <1>w, <3>3
      <4> QED
        BY <1>1, <1>w, <1>c, <3>1, <4>1 DEF Sorted
    <3> QED
      BY <3>2, <3>3
  <2> QED
    BY <1>w, <1>4, <2>1, <2>2 DEF GoodHistory, Sorted
<1>6. SamePast(c, d, b)
  <2> SUFFICES ASSUME NEW k \in 0..(b - 1)
               PROVE  ValueAt(d, k) = ValueAt(c, k)
    BY DEF SamePast
  <2>1. NotAfter(d, k) = {i \in 1..(n - 1) : c[i].fromBlock <= k}
    <3>1. ~(d[n].fromBlock <= k)
      BY <1>b
    <3>2. \A i \in 1..(n - 1) : i \in 1..n
      BY <1>w
    <3> QED
      BY <1>n, <1>w, <1>4, <3>1, <3>2 DEF NotAfter
  <2>2. NotAfter(c, k) = {i \in 1..(n - 1) : c[i].fromBlock <= k}
    BY <1>1, <1>w, <1>c DEF NotAfter
  <2> QED
    BY <1>w, <2>1, <2>2, SameCheckpoints
<1> QED
  BY <1>5, <1>6 DEF Continues, d

LEMMA ContinuesItself ==
    ASSUME NEW c, NEW b, GoodHistory(c, b) PROVE Continues(c, c, b)
BY DEF Continues, SamePast

LEMMA ContinuesOn ==
    ASSUME NEW c, NEW d, NEW e, NEW b, Continues(c, d, b), Continues(d, e, b)
    PROVE  Continues(c, e, b)
BY DEF Continues, SamePast

-----------------------------------------------------------------------------
\* All histories of k, as of the current block.
Histories(k) ==
    /\ k \in [Holders -> Seq(Checkpoint(Nat, Int))]
    /\ \A a \in Holders : GoodHistory(k[a], blockNumber)

AllContinue(k, l) ==
    /\ Histories(l)
    /\ \A a \in Holders : Continues(k[a], l[a], blockNumber)

PastInv ==
    /\ blockNumber \in Nat
    /\ balances \in [Holders -> Int]
    /\ delegates \in [Holders -> Holders \cup {NoDelegate}]
    /\ Histories(checkpoints)
    /\ GoodHistory(supplyCheckpoints, blockNumber)

LEMMA AllContinueItself == ASSUME NEW k, Histories(k) PROVE AllContinue(k, k)
BY ContinuesItself DEF AllContinue, Histories

LEMMA AllContinueOn ==
    ASSUME NEW k, NEW l, NEW m, AllContinue(k, l), AllContinue(l, m)
    PROVE  AllContinue(k, m)
BY ContinuesOn DEF AllContinue

LEMMA AddVotesContinues ==
    ASSUME NEW k, Histories(k), blockNumber \in Nat, NEW a \in Holders, NEW delta \in Int
    PROVE  AllContinue(k, AddVotes(k, a, delta))
<1> DEFINE l == AddVotes(k, a, delta)
           h == WriteCheckpoint(k[a], blockNumber, Latest(k[a]) + delta)
<1>1. k \in [Holders -> Seq(Checkpoint(Nat, Int))] /\ GoodHistory(k[a], blockNumber)
  BY DEF Histories
<1>2. Latest(k[a]) + delta \in Int
  BY <1>1, LatestInt
<1>3. Continues(k[a], h, blockNumber)
  BY <1>1, <1>2, WriteContinues
<1>4. h \in Seq(Checkpoint(Nat, Int))
  BY <1>3 DEF Continues, GoodHistory
<1>5. l = [k EXCEPT ![a] = h]
  BY DEF AddVotes
<1> HIDE DEF l, h
<1>6. l \in [Holders -> Seq(Checkpoint(Nat, Int))]
  BY <1>1, <1>4, <1>5
<1>7. \A x \in Holders : Continues(k[x], l[x], blockNumber)
  <2> SUFFICES ASSUME NEW x \in Holders PROVE Continues(k[x], l[x], blockNumber)
    OBVIOUS
  <2>1. CASE x = a
    BY <1>1, <1>3, <1>5, <2>1
  <2>2. CASE x # a
    <3>1. l[x] = k[x]
      BY <1>1, <1>5, <2>2
    <3>2. GoodHistory(k[x], blockNumber)
      BY DEF Histories
    <3> QED
      BY <3>1, <3>2, ContinuesItself
  <2> QED
    BY <2>1, <2>2
<1>8. AllContinue(k, l)
  BY <1>6, <1>7 DEF AllContinue, Histories, Continues
<1> QED
  BY <1>8 DEF l

LEMMA MoveContinues ==
    ASSUME PastInv, NEW src \in Holders \cup {NoDelegate},
           NEW dst \in Holders \cup {NoDelegate}, NEW amount \in Int
    PROVE  AllContinue(checkpoints, MoveVotingPower(src, dst, amount))
<1> DEFINE taken == IF src = NoDelegate THEN checkpoints
                    ELSE AddVotes(checkpoints, src, -amount)
<1>1. Histories(checkpoints) /\ blockNumber \in Nat
  BY DEF PastInv
<1>2. AllContinue(checkpoints, checkpoints)
  BY <1>1, AllContinueItself
<1>3. AllContinue(checkpoints, taken)
  <2>1. CASE src = NoDelegate
    BY <1>2, <2>1
  <2>2. CASE src # NoDelegate
    <3>1. -amount \in Int /\ src \in Holders
      BY <2>2
    <3> QED
      BY <1>1, <2>2, <3>1, AddVotesContinues
  <2> QED
    BY <2>1, <2>2
<1> HIDE DEF taken
<1>4. Histories(taken)
  BY <1>3 DEF AllContinue
<1>5. CASE src = dst \/ amount = 0
  BY <1>2, <1>5 DEF MoveVotingPower
<1>6. CASE ~(src = dst \/ amount = 0) /\ dst = NoDelegate
  <2>1. MoveVotingPower(src, dst, amount) = taken
    BY <1>6 DEF MoveVotingPower, taken
  <2> QED
    BY <1>3, <2>1
<1>7. CASE ~(src = dst \/ amount = 0) /\ dst # NoDelegate
  <2>1. MoveVotingPower(src, dst, amount) = AddVotes(taken, dst, amount)
    BY <1>7 DEF MoveVotingPower, taken
  <2>2. AllContinue(taken, AddVotes(taken, dst, amount))
    BY <1>1, <1>4, <1>7, AddVotesContinues
  <2> QED
    BY <1>3, <2>1, <2>2, AllContinueOn
<1> QED
  BY <1>5, <1>6, <1>7

\* What an operation of the token does to the past: nothing.
TokenContinues ==
    /\ blockNumber' = blockNumber
    /\ AllContinue(checkpoints, checkpoints')
    /\ Continues(supplyCheckpoints, supplyCheckpoints', blockNumber)

OperationKeeps ==
    /\ balances' \in [Holders -> Int]
    /\ delegates' \in [Holders -> Holders \cup {NoDelegate}]
    /\ TokenContinues

LEMMA OperationContinues ==
    PastInv /\ TokenOperation => PastInv' /\ TokenContinues
<1> SUFFICES ASSUME PastInv, TokenOperation PROVE PastInv' /\ TokenContinues
  OBVIOUS
<1>1. /\ balances \in [Holders -> Int]
      /\ delegates \in [Holders -> Holders \cup {NoDelegate}]
      /\ blockNumber \in Nat
      /\ GoodHistory(supplyCheckpoints, blockNumber)
      /\ Amounts \subseteq Int
  BY HoldersAssumption DEF PastInv
<1>2. Continues(supplyCheckpoints, supplyCheckpoints, blockNumber)
  BY <1>1, ContinuesItself
<1>3. SUFFICES OperationKeeps
  BY <1>1 DEF OperationKeeps, PastInv, TokenContinues, AllContinue, Continues, Histories
<1>4. ASSUME NEW from \in Holders, NEW to \in Holders, NEW amount \in Amounts,
             TransferTokens(from, to, amount)
      PROVE  OperationKeeps
  <2>1. balances' \in [Holders -> Int]
    BY <1>1, <1>4 DEF TransferTokens
  <2>2. AllContinue(checkpoints, checkpoints')
    BY <1>1, <1>4, MoveContinues DEF TransferTokens
  <2> QED
    BY <1>1, <1>2, <1>4, <2>1, <2>2
    DEF TransferTokens, clockVars, OperationKeeps, TokenContinues
<1>5. ASSUME NEW from \in Holders, NEW amount \in Amounts, Burn(from, amount)
      PROVE  OperationKeeps
  <2>1. balances' \in [Holders -> Int]
    BY <1>1, <1>5 DEF Burn
  <2>2. AllContinue(checkpoints, checkpoints')
    BY <1>1, <1>5, MoveContinues DEF Burn
  <2>3. Latest(supplyCheckpoints) - amount \in Int
    BY <1>1, LatestInt
  <2>4. Continues(supplyCheckpoints, supplyCheckpoints', blockNumber)
    BY <1>1, <1>5, <2>3, WriteContinues DEF Burn
  <2> QED
    BY <1>1, <1>5, <2>1, <2>2, <2>4 DEF Burn, clockVars, OperationKeeps, TokenContinues
<1>6. ASSUME NEW a \in Holders, NEW b \in Holders \cup {NoDelegate}, SetDelegate(a, b)
      PROVE  OperationKeeps
  <2>1. delegates' \in [Holders -> Holders \cup {NoDelegate}]
    BY <1>1, <1>6 DEF SetDelegate
  <2>2. AllContinue(checkpoints, checkpoints')
    BY <1>1, <1>6, MoveContinues DEF SetDelegate
  <2> QED
    BY <1>1, <1>2, <1>6, <2>1, <2>2
    DEF SetDelegate, clockVars, OperationKeeps, TokenContinues
<1>7. ASSUME NEW s \in Signatures, DelegateBySig(s)
      PROVE  OperationKeeps
  <2>1. s.signer \in Holders /\ s.delegatee \in Holders \cup {NoDelegate}
    BY SignaturesAssumption
  <2> QED
    BY <1>6, <1>7, <2>1 DEF DelegateBySig
<1> QED
  BY <1>4, <1>5, <1>6, <1>7 DEF TokenOperation, Delegate

\* A later block keeps the histories good.
LEMMA GoodLater ==
    ASSUME NEW c, NEW b \in Nat, GoodHistory(c, b)
    PROVE  GoodHistory(c, b + 1)
<1>1. \A i \in DOMAIN c : c[i].fromBlock \in Nat /\ c[i].fromBlock <= b
  BY HistoryFacts DEF GoodHistory
<1> QED
  BY <1>1 DEF GoodHistory

LEMMA MineKeepsPast ==
    ASSUME PastInv, NEW seconds, Mine(seconds), UNCHANGED tokenVars
    PROVE  PastInv'
<1>1. blockNumber \in Nat /\ blockNumber' = blockNumber + 1
  BY DEF PastInv, Mine
<1>2. UNCHANGED <<balances, delegates, checkpoints, supplyCheckpoints>>
  BY DEF tokenVars
<1>3. \A a \in Holders : GoodHistory(checkpoints[a], blockNumber + 1)
  BY <1>1, GoodLater DEF PastInv, Histories
<1>4. GoodHistory(supplyCheckpoints, blockNumber + 1)
  BY <1>1, GoodLater DEF PastInv
<1> QED
  BY <1>1, <1>2, <1>3, <1>4 DEF PastInv, Histories

LEMMA PastInit == ChainInit /\ TokenInit => PastInv
<1> SUFFICES ASSUME ChainInit, TokenInit PROVE PastInv
  OBVIOUS
<1>1. blockNumber \in Nat /\ FirstBlock = blockNumber
  BY ChainAssumption DEF ChainInit
<1>2. GoodHistory(<< >>, blockNumber)
  BY DEF GoodHistory, Sorted
<1>3. GoodHistory(supplyCheckpoints, blockNumber)
  <2>1. Continues(<< >>, WriteCheckpoint(<< >>, blockNumber, Supply), blockNumber)
    BY <1>1, <1>2, WriteContinues, HoldersAssumption
  <2> QED
    BY <1>1, <2>1 DEF TokenInit, Continues
<1>4. Histories(checkpoints)
  BY <1>2 DEF TokenInit, Histories
<1>5. balances \in [Holders -> Int] /\ delegates \in [Holders -> Holders \cup {NoDelegate}]
  BY HoldersAssumption DEF TokenInit
<1> QED
  BY <1>1, <1>3, <1>4, <1>5 DEF PastInv

\* One step of one history, in an operation and when a block is mined.
LEMMA OperationPastStep ==
    ASSUME NEW c, NEW d, blockNumber \in Nat, blockNumber' = blockNumber,
           Continues(c, d, blockNumber)
    PROVE  PastStep(c, d)
BY DEF PastStep, Continues, SamePast

LEMMA MinePastStep ==
    ASSUME NEW c, blockNumber \in Nat, blockNumber' = blockNumber + 1,
           GoodHistory(c, blockNumber)
    PROVE  PastStep(c, c)
<1>1. ValueAt(c, blockNumber) = Latest(c)
  BY LatestIsValue
<1>2. \A b \in 0..((blockNumber + 1) - 1) : b < blockNumber \/ b = blockNumber
  OBVIOUS
<1> QED
  BY <1>1, <1>2 DEF PastStep

\* A step of the token, or a block mined, within a bound or not.
TokenOrBlock ==
    \/ TokenOperation
    \/ /\ \E seconds \in BlockTimes : Mine(seconds)
       /\ UNCHANGED tokenVars

LEMMA TokenNextIsOne ==
    [TokenNext]_<<tokenVars, clockVars>> => [TokenOrBlock]_<<tokenVars, clockVars>>
BY DEF TokenNext, TokenOrBlock

LEMMA TokenStep ==
    ASSUME PastInv, [TokenOrBlock]_<<tokenVars, clockVars>>
    PROVE  /\ PastInv'
           /\ \A a \in Holders : PastStep(checkpoints[a], checkpoints'[a])
           /\ PastStep(supplyCheckpoints, supplyCheckpoints')
<1>0. /\ blockNumber \in Nat
      /\ \A a \in Holders : GoodHistory(checkpoints[a], blockNumber)
      /\ GoodHistory(supplyCheckpoints, blockNumber)
  BY DEF PastInv, Histories
<1>1. CASE TokenOperation
  <2>1. PastInv' /\ TokenContinues
    BY <1>1, OperationContinues
  <2> QED
    BY <1>0, <2>1, OperationPastStep DEF TokenContinues, AllContinue
<1>2. ASSUME NEW seconds \in BlockTimes, Mine(seconds), UNCHANGED tokenVars
      PROVE  /\ PastInv'
             /\ \A a \in Holders : PastStep(checkpoints[a], checkpoints'[a])
             /\ PastStep(supplyCheckpoints, supplyCheckpoints')
  <2>1. PastInv'
    BY <1>2, MineKeepsPast
  <2>2. /\ blockNumber' = blockNumber + 1
        /\ checkpoints' = checkpoints
        /\ supplyCheckpoints' = supplyCheckpoints
    BY <1>2 DEF Mine, tokenVars
  <2> QED
    BY <1>0, <2>1, <2>2, MinePastStep
<1>3. CASE UNCHANGED <<tokenVars, clockVars>>
  <2>1. UNCHANGED <<balances, delegates, checkpoints, supplyCheckpoints, blockNumber>>
    BY <1>3 DEF tokenVars, clockVars
  <2>2. PastInv'
    BY <2>1 DEF PastInv, Histories
  <2> QED
    BY <1>0, <2>1, <2>2, ContinuesItself, OperationPastStep
<1> QED
  BY <1>1, <1>2, <1>3 DEF TokenOrBlock

(***************************************************************************)
(* What getPastVotes and getPastTotalSupply say of a mined block is what   *)
(* was true at its end, and stays so, whatever the token is asked to do.   *)
(***************************************************************************)
THEOREM PastStaysFixed == TokenSpec => PastIsFixed
<1>1. TokenDeployed => PastInv
  BY PastInit DEF TokenDeployed
<1>2. PastInv /\ [TokenNext]_<<tokenVars, clockVars>> =>
         /\ PastInv'
         /\ [/\ \A a \in Holders : PastStep(checkpoints[a], checkpoints'[a])
             /\ PastStep(supplyCheckpoints, supplyCheckpoints')]_<<tokenVars, clockVars>>
  BY TokenStep, TokenNextIsOne
<1> QED
  BY <1>1, <1>2, PTL DEF TokenSpec, PastIsFixed

-----------------------------------------------------------------------------
(* Votes and supply as sums of balances                                    *)

LEMMA LatestWritten ==
    ASSUME NEW c, NEW b \in Nat, NEW v \in Int, GoodHistory(c, b)
    PROVE  Latest(WriteCheckpoint(c, b, v)) = v
<1> DEFINE d == WriteCheckpoint(c, b, v)
           new == [fromBlock |-> b, votes |-> v]
<1>1. c \in Seq(Checkpoint(Nat, Int)) /\ Len(c) \in Nat /\ DOMAIN c = 1..Len(c)
  BY HistoryFacts DEF GoodHistory
<1>2. CASE c # << >> /\ c[Len(c)].fromBlock = b
  <2>1. d = [c EXCEPT ![Len(c)].votes = v]
    BY <1>2 DEF WriteCheckpoint
  <2>2. Len(c) \in DOMAIN c /\ c[Len(c)] \in Checkpoint(Nat, Int)
    BY <1>1, <1>2
  <2>3. Len(d) = Len(c) /\ d # << >> /\ d[Len(c)].votes = v
    BY <1>1, <2>1, <2>2 DEF Checkpoint
  <2> QED
    BY <2>3 DEF Latest
<1>3. CASE ~(c # << >> /\ c[Len(c)].fromBlock = b)
  <2>1. d = Append(c, new)
    BY <1>3 DEF WriteCheckpoint
  <2>2. Len(d) = Len(c) + 1 /\ d # << >> /\ d[Len(c) + 1] = new
    BY <1>1, <2>1
  <2> QED
    BY <2>2 DEF Latest
<1> QED
  BY <1>2, <1>3

LEMMA LatestInHistories ==
    ASSUME NEW k, Histories(k), NEW a \in Holders
    PROVE  Latest(k[a]) \in Int
BY LatestInt DEF Histories

LEMMA AddVotesLatest ==
    ASSUME NEW k, Histories(k), blockNumber \in Nat, NEW a \in Holders, NEW delta \in Int,
           NEW x \in Holders
    PROVE  Latest(AddVotes(k, a, delta)[x]) = Latest(k[x]) + (IF x = a THEN delta ELSE 0)
<1> DEFINE h == WriteCheckpoint(k[a], blockNumber, Latest(k[a]) + delta)
<1>1. k \in [Holders -> Seq(Checkpoint(Nat, Int))] /\ GoodHistory(k[a], blockNumber)
  BY DEF Histories
<1>2. Latest(k[a]) \in Int /\ Latest(k[x]) \in Int
  BY LatestInHistories
<1>3. Latest(k[a]) + delta \in Int
  BY <1>2
<1>4. Latest(h) = Latest(k[a]) + delta
  BY <1>1, <1>3, LatestWritten
<1>5. AddVotes(k, a, delta) = [k EXCEPT ![a] = h]
  BY DEF AddVotes
<1> HIDE DEF h
<1>6. CASE x = a
  BY <1>1, <1>4, <1>5, <1>6
<1>7. CASE x # a
  BY <1>1, <1>2, <1>5, <1>7
<1> QED
  BY <1>6, <1>7

\* What account a gains when votes move from src to dst.
Gain(src, dst, amount, a) ==
    (IF a = dst THEN amount ELSE 0) - (IF a = src THEN amount ELSE 0)

LEMMA MoveLatest ==
    ASSUME PastInv, NEW src \in Holders \cup {NoDelegate},
           NEW dst \in Holders \cup {NoDelegate}, NEW amount \in Int, NEW a \in Holders
    PROVE  /\ Latest(checkpoints[a]) \in Int
           /\ Latest(MoveVotingPower(src, dst, amount)[a]) =
                 Latest(checkpoints[a]) + Gain(src, dst, amount, a)
<1> DEFINE taken == IF src = NoDelegate THEN checkpoints
                    ELSE AddVotes(checkpoints, src, -amount)
<1>1. Histories(checkpoints) /\ blockNumber \in Nat /\ a # NoDelegate
  BY HoldersAssumption DEF PastInv
<1>2. Latest(checkpoints[a]) \in Int
  BY <1>1, LatestInHistories
<1>3. /\ Histories(taken)
      /\ Latest(taken[a]) = Latest(checkpoints[a]) + (IF a = src THEN -amount ELSE 0)
  <2>1. CASE src = NoDelegate
    BY <1>1, <1>2, <2>1
  <2>2. CASE src # NoDelegate
    <3>1. -amount \in Int /\ src \in Holders
      BY <2>2
    <3>2. AllContinue(checkpoints, AddVotes(checkpoints, src, -amount))
      BY <1>1, <3>1, AddVotesContinues
    <3> QED
      BY <1>1, <2>2, <3>1, <3>2, AddVotesLatest DEF AllContinue
  <2> QED
    BY <2>1, <2>2
<1> HIDE DEF taken
<1>4. CASE src = dst \/ amount = 0
  BY <1>2, <1>4 DEF MoveVotingPower, Gain
<1>5. CASE ~(src = dst \/ amount = 0) /\ dst = NoDelegate
  <2>1. MoveVotingPower(src, dst, amount) = taken
    BY <1>5 DEF MoveVotingPower, taken
  <2> QED
    BY <1>1, <1>2, <1>3, <1>5, <2>1 DEF Gain
<1>6. CASE ~(src = dst \/ amount = 0) /\ dst # NoDelegate
  <2>1. MoveVotingPower(src, dst, amount) = AddVotes(taken, dst, amount)
    BY <1>6 DEF MoveVotingPower, taken
  <2>2. Latest(AddVotes(taken, dst, amount)[a]) =
           Latest(taken[a]) + (IF a = dst THEN amount ELSE 0)
    BY <1>1, <1>3, <1>6, AddVotesLatest
  <2> QED
    BY <1>2, <1>3, <2>1, <2>2 DEF Gain
<1> QED
  BY <1>2, <1>4, <1>5, <1>6

\* c is b with holder h's balance made n.
OneBalance(b, h, n, c) ==
    /\ b \in [Holders -> Nat] /\ h \in Holders /\ n \in Nat
    /\ c = [b EXCEPT ![h] = n]

\* The sum over some holders when the balance of one changes.
LEMMA BalanceChange ==
    ASSUME NEW b, NEW h, NEW n, NEW c, OneBalance(b, h, n, c),
           NEW S, S \subseteq Holders
    PROVE  /\ SumOver(b, S) \in Nat /\ SumOver(c, S) \in Nat
           /\ SumOver(c, S) = SumOver(b, S) + (IF h \in S THEN n - b[h] ELSE 0)
<1>1. /\ b \in [Holders -> Nat] /\ h \in Holders /\ n \in Nat
      /\ c \in [Holders -> Nat] /\ c[h] = n /\ b[h] \in Nat
      /\ \A y \in Holders \ {h} : c[y] = b[y]
  BY DEF OneBalance
<1>2. Amounting(b, S) /\ Amounting(c, S)
  BY <1>1, HoldersAssumption, FS_Subset DEF Amounting
<1>3. SumOver(b, S) \in Nat /\ SumOver(c, S) \in Nat
  BY <1>2, SumFinite
<1>4. CASE h \in S
  <2>1. c[h] \in Nat /\ \A y \in S \ {h} : c[y] = b[y]
    BY <1>1
  <2>2. ASSUME NEW e, e = c
        PROVE  SumOver(e, S) + b[h] = SumOver(b, S) + e[h]
    <3>1. e[h] \in Nat /\ \A y \in S \ {h} : e[y] = b[y]
      BY <2>1, <2>2
    <3> QED
      BY <1>2, <1>4, <3>1, SumChange
  <2>3. SumOver(c, S) + b[h] = SumOver(b, S) + n
    BY <1>1, <2>2
  <2>4. \A k, l, q, r \in Nat : k + q = l + r => k = l + (r - q)
    OBVIOUS
  <2>5. n \in Nat /\ b[h] \in Nat
    BY <1>1
  <2>6. SumOver(c, S) = SumOver(b, S) + (n - b[h])
    BY <1>3, <2>3, <2>4, <2>5
  <2> QED
    BY <1>3, <1>4, <2>6
<1>5. CASE h \notin S
  <2>1. \A x \in S : b[x] = c[x]
    BY <1>1, <1>5
  <2>2. SumOver(b, S) = SumOver(c, S)
    BY <2>1, SumSame
  <2> QED
    BY <1>3, <1>5, <2>2
<1> QED
  BY <1>4, <1>5

DelegatorsIn(d, a) == {x \in Holders : d[x] = a}

\* e is d with dst made the delegate of h.
Redelegates(d, h, dst, e) ==
    /\ d \in [Holders -> Holders \cup {NoDelegate}]
    /\ h \in Holders
    /\ e = [d EXCEPT ![h] = dst]

\* The sum over the delegators when one of the holders delegates anew.
LEMMA DelegatorsChange ==
    ASSUME NEW b \in [Holders -> Nat], NEW d, NEW h, NEW dst, NEW e,
           Redelegates(d, h, dst, e), NEW a \in Holders
    PROVE  /\ SumOver(b, DelegatorsIn(d, a)) \in Nat
           /\ SumOver(b, DelegatorsIn(e, a)) =
                 SumOver(b, DelegatorsIn(d, a)) + Gain(d[h], dst, b[h], a)
<1> DEFINE S == {x \in Holders : d[x] = a}
           T == {x \in Holders : e[x] = a}
<1>0. /\ S = DelegatorsIn(d, a) /\ T = DelegatorsIn(e, a)
      /\ d \in [Holders -> Holders \cup {NoDelegate}]
      /\ h \in Holders /\ e = [d EXCEPT ![h] = dst]
  BY DEF DelegatorsIn, Redelegates
<1>1. Amounting(b, S) /\ Amounting(b, T)
  BY HoldersAssumption, FS_Subset DEF Amounting
<1>2. SumOver(b, S) \in Nat /\ SumOver(b, T) \in Nat /\ b[h] \in Nat
  BY <1>0, <1>1, SumFinite
<1>3. ASSUME d[h] = a <=> dst = a
      PROVE  SumOver(b, T) = SumOver(b, S) + Gain(d[h], dst, b[h], a)
  <2>1. S = T
    BY <1>0, <1>3
  <2> HIDE DEF S, T
  <2>2. Gain(d[h], dst, b[h], a) = 0
    BY <1>2, <1>3 DEF Gain
  <2> QED
    BY <1>2, <2>1, <2>2
<1>4. ASSUME d[h] # a /\ dst = a
      PROVE  SumOver(b, T) = SumOver(b, S) + Gain(d[h], dst, b[h], a)
  <2>1. h \in T /\ T \ {h} = S
    BY <1>0, <1>4
  <2> HIDE DEF S, T
  <2>2. SumOver(b, T) = SumOver(b, S) + b[h]
    BY <1>1, <2>1, SumSplit
  <2>3. Gain(d[h], dst, b[h], a) = b[h]
    BY <1>2, <1>4 DEF Gain
  <2> QED
    BY <1>2, <2>2, <2>3
<1>5. ASSUME d[h] = a /\ dst # a
      PROVE  SumOver(b, T) = SumOver(b, S) + Gain(d[h], dst, b[h], a)
  <2>1. h \in S /\ S \ {h} = T
    BY <1>0, <1>5
  <2> HIDE DEF S, T
  <2>2. SumOver(b, S) = SumOver(b, T) + b[h]
    BY <1>1, <2>1, SumSplit
  <2>3. Gain(d[h], dst, b[h], a) = -b[h]
    BY <1>2, <1>5 DEF Gain
  <2>4. \A m, n, k \in Nat : m = n + k => n = m + (-k)
    OBVIOUS
  <2> QED
    BY <1>2, <2>2, <2>3, <2>4
<1> HIDE DEF S, T
<1> QED
  BY <1>0, <1>2, <1>3, <1>4, <1>5

SumsInv ==
    /\ PastInv
    /\ balances \in [Holders -> Nat]
    /\ VotesAreDelegated
    /\ SupplyIsSum

LEMMA SumsInit == ChainInit /\ TokenInit => SumsInv
<1> SUFFICES ASSUME ChainInit, TokenInit PROVE SumsInv
  OBVIOUS
<1>1. PastInv /\ balances \in [Holders -> Nat]
  BY PastInit, HoldersAssumption DEF TokenInit
<1>2. ASSUME NEW a \in Holders
      PROVE  Latest(checkpoints[a]) = SumOver(balances, Delegators(a))
  <2>1. Delegators(a) = {}
    BY HoldersAssumption DEF TokenInit, Delegators
  <2>2. Latest(checkpoints[a]) = 0
    BY DEF TokenInit, Latest
  <2> QED
    BY <2>1, <2>2, SumEmpty
<1>3. SupplyIsSum
  <2> DEFINE none == [a \in Holders |-> 0]
  <2>1. none \in [Holders -> Nat] /\ none[InitialHolder] = 0 /\ InitialHolder \in Holders
    BY HoldersAssumption
  <2>2. balances = [none EXCEPT ![InitialHolder] = Supply]
    BY HoldersAssumption DEF TokenInit
  <2>3. SumOver(none, Holders) = 0
    BY SumZero
  <2> HIDE DEF none
  <2>4. SumOver(balances, Holders) = 0 + (Supply - 0)
    <3>1. OneBalance(none, InitialHolder, Supply, balances)
      BY <2>1, <2>2, HoldersAssumption DEF OneBalance
    <3> QED
      BY <2>1, <2>3, <3>1, BalanceChange
  <2>5. Latest(supplyCheckpoints) = Supply
    <3>1. GoodHistory(<< >>, FirstBlock)
      BY DEF GoodHistory, Sorted
    <3> QED
      BY <3>1, LatestWritten, ChainAssumption, HoldersAssumption DEF TokenInit
  <2> QED
    BY <2>4, <2>5, HoldersAssumption DEF SupplyIsSum
<1> QED
  BY <1>1, <1>2, <1>3 DEF SumsInv, VotesAreDelegated

\* When the sums over the delegators gain what the votes gain, they stay equal.
LEMMA VotesFollow ==
    ASSUME SumsInv, NEW src \in Holders \cup {NoDelegate},
           NEW dst \in Holders \cup {NoDelegate}, NEW amount \in Int,
           checkpoints' = MoveVotingPower(src, dst, amount),
           \A a \in Holders :
              SumOver(balances', DelegatorsIn(delegates', a)) =
                 SumOver(balances, DelegatorsIn(delegates, a))
                   + Gain(src, dst, amount, a)
    PROVE  VotesAreDelegated'
<1> SUFFICES ASSUME NEW a \in Holders
             PROVE  Latest(checkpoints'[a]) =
                       SumOver(balances', DelegatorsIn(delegates', a))
  BY DEF VotesAreDelegated, Delegators, DelegatorsIn
<1>1. Latest(checkpoints'[a]) = Latest(checkpoints[a]) + Gain(src, dst, amount, a)
  BY MoveLatest DEF SumsInv
<1>2. Latest(checkpoints[a]) = SumOver(balances, DelegatorsIn(delegates, a))
  BY DEF SumsInv, VotesAreDelegated, Delegators, DelegatorsIn
<1> QED
  BY <1>1, <1>2

LEMMA TransferSums ==
    ASSUME SumsInv, NEW from \in Holders, NEW to \in Holders, NEW amount \in Amounts,
           TransferTokens(from, to, amount)
    PROVE  balances' \in [Holders -> Nat] /\ VotesAreDelegated' /\ SupplyIsSum'
<1> DEFINE mid == [balances EXCEPT ![from] = balances[from] - amount]
<1>1. /\ balances \in [Holders -> Nat] /\ amount \in Nat /\ amount \in Int
      /\ balances[from] \in Nat /\ balances[from] >= amount
      /\ delegates \in [Holders -> Holders \cup {NoDelegate}]
      /\ delegates' = delegates /\ supplyCheckpoints' = supplyCheckpoints
      /\ checkpoints' = MoveVotingPower(delegates[from], delegates[to], amount)
  BY HoldersAssumption DEF SumsInv, PastInv, TransferTokens
<1>2. balances[from] - amount \in Nat
  BY <1>1
<1>3. mid \in [Holders -> Nat] /\ mid[to] \in Nat /\ mid[to] + amount \in Nat
  BY <1>1, <1>2
<1>4. balances' = [mid EXCEPT ![to] = mid[to] + amount]
  BY DEF TransferTokens
<1>5. balances' \in [Holders -> Nat]
  BY <1>3, <1>4
<1>6. \A k \in Nat, n \in Nat : (k + n) - k = n /\ (k - n) - k = -n
  OBVIOUS
<1>7. (balances[from] - amount) - balances[from] = -amount
      /\ (mid[to] + amount) - mid[to] = amount
  BY <1>1, <1>3, <1>6
<1>8. ASSUME NEW S, S \subseteq Holders
      PROVE  /\ SumOver(balances, S) \in Nat
             /\ SumOver(balances', S) =
                   SumOver(balances, S) + (IF to \in S THEN amount ELSE 0)
                                        - (IF from \in S THEN amount ELSE 0)
  <2>1. /\ SumOver(balances, S) \in Nat /\ SumOver(mid, S) \in Nat
        /\ SumOver(mid, S) = SumOver(balances, S)
              + (IF from \in S THEN (balances[from] - amount) - balances[from] ELSE 0)
    <3>1. OneBalance(balances, from, balances[from] - amount, mid)
      BY <1>1, <1>2 DEF OneBalance
    <3> HIDE DEF mid
    <3> QED
      BY <1>8, <3>1, BalanceChange
  <2> HIDE DEF mid
  <2>2. SumOver(balances', S) = SumOver(mid, S)
              + (IF to \in S THEN (mid[to] + amount) - mid[to] ELSE 0)
    <3>1. OneBalance(mid, to, mid[to] + amount, balances')
      BY <1>3, <1>4 DEF OneBalance
    <3> QED
      BY <1>8, <3>1, BalanceChange
  <2> QED
    BY <1>1, <1>7, <2>1, <2>2
<1> HIDE DEF mid
<1>9. ASSUME NEW a \in Holders
      PROVE  SumOver(balances', DelegatorsIn(delegates', a)) =
                SumOver(balances, DelegatorsIn(delegates, a))
                  + Gain(delegates[from], delegates[to], amount, a)
  <2> DEFINE S == DelegatorsIn(delegates, a)
  <2>1. /\ SumOver(balances, S) \in Nat
        /\ SumOver(balances', S) =
              SumOver(balances, S) + (IF to \in S THEN amount ELSE 0)
                                   - (IF from \in S THEN amount ELSE 0)
    BY <1>8 DEF DelegatorsIn
  <2>2. (to \in S <=> a = delegates[to]) /\ (from \in S <=> a = delegates[from])
    BY DEF DelegatorsIn
  <2>3. DelegatorsIn(delegates', a) = S
    BY <1>1
  <2> HIDE DEF S
  <2>4. SumOver(balances', S) =
           SumOver(balances, S) + Gain(delegates[from], delegates[to], amount, a)
    BY <1>1, <2>1, <2>2 DEF Gain
  <2> QED
    BY <2>3, <2>4 DEF S
<1>10. VotesAreDelegated'
  BY <1>1, <1>9, VotesFollow
<1>11. SupplyIsSum'
  <2>1. /\ SumOver(balances, Holders) \in Nat
        /\ SumOver(balances', Holders) = SumOver(balances, Holders) + amount - amount
    BY <1>8
  <2>2. SumOver(balances', Holders) = SumOver(balances, Holders)
    BY <1>1, <2>1
  <2> QED
    BY <1>1, <2>2 DEF SupplyIsSum, SumsInv
<1> QED
  BY <1>5, <1>10, <1>11

LEMMA BurnSums ==
    ASSUME SumsInv, NEW from \in Holders, NEW amount \in Amounts, Burn(from, amount)
    PROVE  balances' \in [Holders -> Nat] /\ VotesAreDelegated' /\ SupplyIsSum'
<1>1. /\ balances \in [Holders -> Nat] /\ amount \in Nat /\ amount \in Int
      /\ balances[from] \in Nat /\ balances[from] >= amount
      /\ delegates \in [Holders -> Holders \cup {NoDelegate}]
      /\ delegates' = delegates
      /\ checkpoints' = MoveVotingPower(delegates[from], NoDelegate, amount)
      /\ blockNumber \in Nat /\ GoodHistory(supplyCheckpoints, blockNumber)
      /\ Latest(supplyCheckpoints) = SumOver(balances, Holders)
  BY HoldersAssumption DEF SumsInv, PastInv, Burn, SupplyIsSum
<1>2. balances[from] - amount \in Nat /\ (balances[from] - amount) - balances[from] = -amount
  BY <1>1
<1>3. balances' = [balances EXCEPT ![from] = balances[from] - amount]
  BY DEF Burn
<1>4. balances' \in [Holders -> Nat]
  BY <1>1, <1>2, <1>3
<1>5. ASSUME NEW S, S \subseteq Holders
      PROVE  /\ SumOver(balances, S) \in Nat
             /\ SumOver(balances', S) =
                   SumOver(balances, S) + (IF from \in S THEN -amount ELSE 0)
  <2>1. /\ SumOver(balances, S) \in Nat
        /\ SumOver(balances', S) = SumOver(balances, S)
              + (IF from \in S THEN (balances[from] - amount) - balances[from] ELSE 0)
    <3>1. OneBalance(balances, from, balances[from] - amount, balances')
      BY <1>1, <1>2, <1>3 DEF OneBalance
    <3> QED
      BY <1>5, <3>1, BalanceChange
  <2> QED
    BY <1>2, <2>1
<1>6. ASSUME NEW a \in Holders
      PROVE  SumOver(balances', DelegatorsIn(delegates', a)) =
                SumOver(balances, DelegatorsIn(delegates, a))
                  + Gain(delegates[from], NoDelegate, amount, a)
  <2> DEFINE S == DelegatorsIn(delegates, a)
  <2>1. /\ SumOver(balances, S) \in Nat
        /\ SumOver(balances', S) =
              SumOver(balances, S) + (IF from \in S THEN -amount ELSE 0)
    BY <1>5 DEF DelegatorsIn
  <2>2. (from \in S <=> a = delegates[from]) /\ a # NoDelegate
    BY HoldersAssumption DEF DelegatorsIn
  <2>3. DelegatorsIn(delegates', a) = S
    BY <1>1
  <2> HIDE DEF S
  <2>4. SumOver(balances', S) =
           SumOver(balances, S) + Gain(delegates[from], NoDelegate, amount, a)
    BY <1>1, <2>1, <2>2 DEF Gain
  <2> QED
    BY <2>3, <2>4 DEF S
<1>7. VotesAreDelegated'
  BY <1>1, <1>6, VotesFollow
<1>8. SupplyIsSum'
  <2>1. /\ SumOver(balances, Holders) \in Nat
        /\ SumOver(balances', Holders) = SumOver(balances, Holders) + (-amount)
    BY <1>5
  <2>2. Latest(supplyCheckpoints) - amount \in Int
    BY <1>1, <2>1
  <2>3. Latest(supplyCheckpoints') = Latest(supplyCheckpoints) - amount
    BY <1>1, <2>2, LatestWritten DEF Burn
  <2>4. Latest(supplyCheckpoints') = SumOver(balances', Holders)
    BY <1>1, <2>1, <2>3
  <2> QED
    BY <2>4 DEF SupplyIsSum
<1> QED
  BY <1>4, <1>7, <1>8

LEMMA SetDelegateSums ==
    ASSUME SumsInv, NEW h \in Holders, NEW dst \in Holders \cup {NoDelegate},
           SetDelegate(h, dst)
    PROVE  balances' \in [Holders -> Nat] /\ VotesAreDelegated' /\ SupplyIsSum'
<1>1. /\ balances \in [Holders -> Nat] /\ balances[h] \in Int
      /\ delegates \in [Holders -> Holders \cup {NoDelegate}]
      /\ delegates' = [delegates EXCEPT ![h] = dst]
      /\ balances' = balances /\ supplyCheckpoints' = supplyCheckpoints
      /\ checkpoints' = MoveVotingPower(delegates[h], dst, balances[h])
  BY DEF SumsInv, PastInv, SetDelegate
<1>2. \A a \in Holders :
         SumOver(balances', DelegatorsIn(delegates', a)) =
            SumOver(balances, DelegatorsIn(delegates, a))
              + Gain(delegates[h], dst, balances[h], a)
  <2>1. Redelegates(delegates, h, dst, delegates')
    BY <1>1 DEF Redelegates
  <2> QED
    BY <1>1, <2>1, DelegatorsChange
<1>3. VotesAreDelegated'
  BY <1>1, <1>2, VotesFollow
<1> QED
  BY <1>1, <1>3 DEF SumsInv, SupplyIsSum

LEMMA OperationSums == SumsInv /\ TokenOperation => SumsInv'
<1> SUFFICES ASSUME SumsInv, TokenOperation
             PROVE  SumsInv'
  OBVIOUS
<1>1. PastInv'
  BY OperationContinues DEF SumsInv
<1>2. SUFFICES balances' \in [Holders -> Nat] /\ VotesAreDelegated' /\ SupplyIsSum'
  BY <1>1 DEF SumsInv
<1>3. ASSUME NEW s \in Signatures, DelegateBySig(s)
      PROVE  balances' \in [Holders -> Nat] /\ VotesAreDelegated' /\ SupplyIsSum'
  <2>1. s.signer \in Holders /\ s.delegatee \in Holders \cup {NoDelegate}
    BY SignaturesAssumption
  <2> QED
    BY <1>3, <2>1, SetDelegateSums DEF DelegateBySig
<1> QED
  BY <1>3, TransferSums, BurnSums, SetDelegateSums DEF TokenOperation, Delegate

\* Mining a block and stuttering leave the token alone.
LEMMA IdleSums ==
    ASSUME SumsInv, UNCHANGED tokenVars, PastInv'
    PROVE  SumsInv'
<1>1. UNCHANGED <<balances, delegates, checkpoints, supplyCheckpoints>>
  BY DEF tokenVars
<1> QED
  BY <1>1 DEF SumsInv, VotesAreDelegated, SupplyIsSum, Delegators

LEMMA SumsStep == SumsInv /\ [TokenOrBlock]_<<tokenVars, clockVars>> => SumsInv'
<1> SUFFICES ASSUME SumsInv, [TokenOrBlock]_<<tokenVars, clockVars>>
             PROVE  SumsInv'
  OBVIOUS
<1>1. PastInv'
  BY TokenStep DEF SumsInv
<1> QED
  BY <1>1, OperationSums, IdleSums DEF TokenOrBlock

LEMMA SumsInvariant == TokenSpec => []SumsInv
<1>1. TokenDeployed => SumsInv
  BY SumsInit DEF TokenDeployed
<1> QED
  BY <1>1, SumsStep, TokenNextIsOne, PTL DEF TokenSpec

\* getVotes is the sum of the balances delegated, for any number of holders and
\* tokens: votes are never negative, and no transfer underflows in them.
THEOREM VotesStayDelegated == TokenSpec => []VotesAreDelegated
<1>1. SumsInv => VotesAreDelegated
  BY DEF SumsInv
<1> QED
  BY <1>1, SumsInvariant, PTL

\* The last supply checkpoint is the sum of the balances.
THEOREM SupplyStaysSum == TokenSpec => []SupplyIsSum
<1>1. SumsInv => SupplyIsSum
  BY DEF SumsInv
<1> QED
  BY <1>1, SumsInvariant, PTL

-----------------------------------------------------------------------------
(* The votes of a mined block and its supply                               *)

CoveredAt(votes, supply) ==
    /\ \A a \in Holders : votes[a] \in Nat
    /\ supply \in Nat
    /\ SumOver(votes, Holders) <= supply

VotesNow == [a \in Holders |-> Latest(checkpoints[a])]

VotesIn(ckpts, b) == [a \in Holders |-> ValueAt(ckpts[a], b)]

CoveredInv ==
    /\ SumsInv
    /\ \A b \in 0..(blockNumber - 1) : CoveredAt(VotesIn(checkpoints, b), PastTotalSupply(b))

\* Holders delegate to one account at a time, so no balance is counted twice.
LEMMA NowCovered == SumsInv => CoveredAt(VotesNow, Latest(supplyCheckpoints))
<1> SUFFICES ASSUME SumsInv
             PROVE  CoveredAt(VotesNow, Latest(supplyCheckpoints))
  OBVIOUS
<1> DEFINE part == [a \in Holders |-> Delegators(a)]
<1>1. Amounting(balances, Holders) /\ IsFiniteSet(Holders)
  BY HoldersAssumption DEF Amounting, SumsInv
<1>2. part \in [Holders -> SUBSET Holders]
  BY DEF Delegators
<1>3. \A a, b \in Holders : a # b => part[a] \cap part[b] = {}
  BY DEF Delegators
<1>4. \A a \in Holders : VotesNow[a] = SumOver(balances, part[a])
  BY DEF SumsInv, VotesAreDelegated, VotesNow
<1>5. \A a \in Holders : Amounting(balances, part[a])
  BY <1>1, <1>2, AmountingSubset
<1> HIDE DEF part
<1>6. \A a \in Holders : VotesNow[a] \in Nat
  BY <1>4, <1>5, SumFinite
<1>7. SumOver(VotesNow, Holders) <= SumOver(balances, Holders)
  BY <1>1, <1>2, <1>3, <1>4, SumOfParts
<1>8. SumOver(balances, Holders) \in Nat
  BY <1>1, SumFinite
<1> QED
  BY <1>6, <1>7, <1>8 DEF CoveredAt, SumsInv, SupplyIsSum

LEMMA NothingBefore == \A k : ValueAt(<< >>, k) = 0
<1> SUFFICES ASSUME NEW k PROVE ValueAt(<< >>, k) = 0
  OBVIOUS
<1>1. NotAfter(<< >>, k) = {}
  BY DEF NotAfter
<1>2. \A v : IsValueAt(<< >>, k, v) <=> v = 0
  BY <1>1 DEF IsValueAt
<1> QED
  BY <1>1, <1>2 DEF ValueAt

LEMMA CoveredInit == ChainInit /\ TokenInit => CoveredInv
<1> SUFFICES ASSUME ChainInit, TokenInit PROVE CoveredInv
  OBVIOUS
<1>1. SumsInv /\ blockNumber \in Nat /\ FirstBlock = blockNumber
  BY SumsInit, ChainAssumption DEF ChainInit
<1>2. SamePast(<< >>, supplyCheckpoints, blockNumber)
  <2>1. GoodHistory(<< >>, blockNumber)
    BY DEF GoodHistory, Sorted
  <2> QED
    BY <1>1, <2>1, WriteContinues, HoldersAssumption DEF TokenInit, Continues
<1>3. ASSUME NEW b \in 0..(blockNumber - 1)
      PROVE  CoveredAt(VotesIn(checkpoints, b), PastTotalSupply(b))
  <2>1. PastTotalSupply(b) = 0
    BY <1>2, NothingBefore DEF PastTotalSupply, SamePast
  <2>2. \A a \in Holders : VotesIn(checkpoints, b)[a] = 0
    BY NothingBefore DEF VotesIn, PastVotes, TokenInit
  <2>3. SumOver(VotesIn(checkpoints, b), Holders) = 0
    BY <2>2, SumZero
  <2> QED
    BY <2>1, <2>2, <2>3 DEF CoveredAt
<1> QED
  BY <1>1, <1>3 DEF CoveredInv

LEMMA CoveredNext ==
    ASSUME CoveredInv, SumsInv',
           \A a \in Holders : PastStep(checkpoints[a], checkpoints'[a]),
           PastStep(supplyCheckpoints, supplyCheckpoints')
    PROVE  CoveredInv'
<1>1. blockNumber \in Nat /\ blockNumber' \in Nat
  BY DEF CoveredInv, SumsInv, PastInv
<1>2. ASSUME NEW b \in 0..(blockNumber' - 1)
      PROVE  CoveredAt(VotesIn(checkpoints', b), PastTotalSupply(b)')
  <2>1. PastTotalSupply(b)' =
           IF b < blockNumber THEN PastTotalSupply(b) ELSE Latest(supplyCheckpoints)
    BY DEF PastStep, PastTotalSupply
  <2>2. \A a \in Holders :
           ValueAt(checkpoints'[a], b) =
              IF b < blockNumber THEN ValueAt(checkpoints[a], b) ELSE Latest(checkpoints[a])
    BY DEF PastStep
  <2>3. CASE b < blockNumber
    <3>1. VotesIn(checkpoints', b) = VotesIn(checkpoints, b)
      BY <2>2, <2>3 DEF VotesIn, PastVotes
    <3>2. b \in 0..(blockNumber - 1)
      BY <1>1, <2>3
    <3> QED
      BY <2>1, <2>3, <3>1, <3>2 DEF CoveredInv
  <2>4. CASE ~(b < blockNumber)
    <3>1. VotesIn(checkpoints', b) = VotesNow
      BY <2>2, <2>4 DEF VotesIn, PastVotes, VotesNow
    <3> QED
      BY <2>1, <2>4, <3>1, NowCovered DEF CoveredInv
  <2> QED
    BY <2>3, <2>4
<1> QED
  BY <1>2 DEF CoveredInv, CoveredAt

LEMMA CoveredStep == CoveredInv /\ [TokenOrBlock]_<<tokenVars, clockVars>> => CoveredInv'
BY SumsStep, TokenStep, CoveredNext DEF CoveredInv, SumsInv

LEMMA CoveredIsCovered == CoveredInv => PastVotesCovered
BY DEF CoveredInv, CoveredAt, VotesIn, PastVotes, PastVotesCovered

\* At the end of every block the delegates have no more votes than the supply
\* has tokens, whoever delegated, transferred or burnt in it.
THEOREM PastStaysCovered == TokenSpec => []PastVotesCovered
<1>1. TokenDeployed => CoveredInv
  BY CoveredInit DEF TokenDeployed
<1> QED
  BY <1>1, CoveredStep, TokenNextIsOne, CoveredIsCovered, PTL DEF TokenSpec

-----------------------------------------------------------------------------
(* The records of governor and timelock                                    *)

\* What the argument knows of the state.
TimelockTypeOK ==
    /\ timestamps \in [Proposals -> Nat]
    /\ minDelay \in Nat
    /\ timestamp \in Nat \ {0, 1}
    /\ DOMAIN proposals = Proposals

\* A role that cancels comes from an operation that is done; an operation
\* that was queued and is unset again was cancelled.
RoleInv ==
    /\ cancellers # {} =>
          \E q \in Proposals : IsOperationDone(q) /\ "grantCanceller" \in Calls[q]
    /\ \A p \in Proposals :
          p \in timelockIds /\ ~IsOperation(p) => cancellers # {}

GovernanceInv == TimelockTypeOK /\ GovernorAndTimelockAgree /\ RoleInv

LEMMA GovernanceInit == Init => GovernanceInv
BY TimelockAssumption, ChainAssumption
DEF Init, ChainInit, TimelockInit, GovernorInit, GovernanceInv, TimelockTypeOK,
    GovernorAndTimelockAgree, RoleInv, IsOperation, IsOperationDone, DoneTimestamp

\* The stages that queueing and execution start from.
LEMMA SucceededState ==
    ASSUME NEW p \in Proposals, State(p) = "Succeeded"
    PROVE  ~proposals[p].executed /\ p \notin timelockIds
BY DEF State

LEMMA CanceledState ==
    ASSUME NEW p \in Proposals, TimelockTypeOK, State(p) = "Canceled"
    PROVE  p \in timelockIds /\ ~IsOperation(p)
BY DEF State, TimelockTypeOK, IsOperation, IsOperationDone, IsOperationPending, DoneTimestamp

\* An operation becomes done when its batch is executed, and stays in the ids.
LEMMA BatchDone ==
    ASSUME GovernanceInv, NEW p \in Proposals, ExecuteBatch(p),
           UNCHANGED <<timelockIds, timestamp>>
    PROVE  /\ p \in timelockIds
           /\ timestamps' = [timestamps EXCEPT ![p] = 1]
           /\ timestamps' \in [Proposals -> Nat]
           /\ minDelay' \in Nat
           /\ RoleInv'
<1>1. /\ timestamps \in [Proposals -> Nat]
      /\ timestamps' = [timestamps EXCEPT ![p] = 1]
      /\ timestamps[p] > 1
  BY DEF ExecuteBatch, IsOperationReady, IsOperationPending, DoneTimestamp,
         GovernanceInv, TimelockTypeOK
<1>2. p \in timelockIds
  BY <1>1 DEF GovernanceInv, GovernorAndTimelockAgree, IsOperation
<1>3. minDelay' \in Nat
  BY TimelockAssumption DEF ExecuteBatch, GovernanceInv, TimelockTypeOK
<1>4. cancellers' # {} =>
         \E q \in Proposals : IsOperationDone(q)' /\ "grantCanceller" \in Calls[q]
  <2> SUFFICES ASSUME cancellers' # {}
               PROVE  \E q \in Proposals : IsOperationDone(q)' /\ "grantCanceller" \in Calls[q]
    OBVIOUS
  <2>1. CASE "grantCanceller" \in Calls[p]
    BY <1>1, <2>1 DEF IsOperationDone, DoneTimestamp
  <2>2. CASE "grantCanceller" \notin Calls[p]
    <3>1. cancellers # {}
      BY <2>2 DEF ExecuteBatch
    <3>2. PICK q \in Proposals : IsOperationDone(q) /\ "grantCanceller" \in Calls[q]
      BY <3>1 DEF GovernanceInv, RoleInv
    <3>3. IsOperationDone(q)'
      BY <1>1, <3>2 DEF IsOperationDone, DoneTimestamp
    <3> QED
      BY <3>2, <3>3
  <2> QED
    BY <2>1, <2>2
<1>5. \A q \in Proposals : q \in timelockIds' /\ ~IsOperation(q)' => cancellers' # {}
  <2> SUFFICES ASSUME NEW q \in Proposals, q \in timelockIds, ~IsOperation(q)'
               PROVE  cancellers' # {}
    OBVIOUS
  <2>1. ~IsOperation(q)
    BY <1>1 DEF IsOperation
  <2>2. cancellers # {}
    BY <2>1 DEF GovernanceInv, RoleInv
  <2> QED
    BY <2>2 DEF ExecuteBatch
<1> QED
  BY <1>1, <1>2, <1>3, <1>4, <1>5 DEF RoleInv

LEMMA GovernanceStep == GovernanceInv /\ [Next]_vars => GovernanceInv'
<1> SUFFICES ASSUME GovernanceInv, [Next]_vars
             PROVE  GovernanceInv'
  OBVIOUS
<1>t. /\ timestamps \in [Proposals -> Nat]
      /\ minDelay \in Nat
      /\ timestamp \in Nat \ {0, 1}
      /\ DOMAIN proposals = Proposals
  BY DEF GovernanceInv, TimelockTypeOK
<1>1. ASSUME NEW p \in Proposals, NEW a \in Holders, Propose(a, p)
      PROVE  GovernanceInv'
  <2>1. /\ UNCHANGED <<timelockVars, timelockIds, clockVars>>
        /\ DOMAIN proposals' = Proposals
        /\ \A q \in Proposals : proposals'[q].executed = proposals[q].executed
    BY <1>1, <1>t DEF Propose
  <2> QED
    BY <2>1 DEF timelockVars, clockVars, GovernanceInv, TimelockTypeOK, RoleInv,
       GovernorAndTimelockAgree, IsOperation, IsOperationDone
<1>2. ASSUME NEW p \in Proposals, NEW a \in Holders, NEW s \in VoteType, CastVote(a, p, s)
      PROVE  GovernanceInv'
  BY <1>2 DEF CastVote, timelockVars, clockVars, GovernanceInv, TimelockTypeOK, RoleInv,
     GovernorAndTimelockAgree, IsOperation, IsOperationDone
<1>3. ASSUME NEW p \in Proposals, Queue(p)
      PROVE  GovernanceInv'
  <2>1. /\ ~proposals[p].executed
        /\ timelockIds' = timelockIds \cup {p}
        /\ timestamps[p] = 0
        /\ timestamps' = [timestamps EXCEPT ![p] = timestamp + minDelay]
        /\ UNCHANGED <<minDelay, cancellers, proposals, timestamp>>
    BY <1>3, <1>t, SucceededState DEF Queue, Schedule, IsOperation, clockVars
  <2>2. timestamp + minDelay \in Nat /\ timestamp + minDelay > 1
    BY <1>t
  <2>3. TimelockTypeOK'
    BY <1>t, <2>1, <2>2 DEF TimelockTypeOK
  <2>4. \A q \in Proposals : /\ q # p => timestamps'[q] = timestamps[q]
                             /\ q = p => timestamps'[q] > 1
    BY <1>t, <2>1, <2>2
  <2>5. GovernorAndTimelockAgree'
    BY <1>t, <2>1, <2>2, <2>4
    DEF GovernanceInv, GovernorAndTimelockAgree, IsOperation, IsOperationDone, DoneTimestamp
  <2>6. RoleInv'
    BY <1>t, <2>1, <2>2, <2>4
    DEF GovernanceInv, RoleInv, IsOperation, IsOperationDone, DoneTimestamp
  <2> QED
    BY <2>3, <2>5, <2>6 DEF GovernanceInv
<1>4. ASSUME NEW p \in Proposals, ExecuteProposal(p)
      PROVE  GovernanceInv'
  <2>1. /\ ExecuteBatch(p)
        /\ UNCHANGED <<timelockIds, timestamp>>
        /\ proposals' = [proposals EXCEPT ![p].executed = TRUE]
    BY <1>4 DEF ExecuteProposal, clockVars
  <2>2. /\ p \in timelockIds
        /\ timestamps' = [timestamps EXCEPT ![p] = 1]
        /\ timestamps' \in [Proposals -> Nat]
        /\ minDelay' \in Nat
        /\ RoleInv'
    BY <2>1, BatchDone
  <2>3. TimelockTypeOK'
    BY <1>t, <2>1, <2>2 DEF TimelockTypeOK
  <2>4. GovernorAndTimelockAgree'
    BY <1>t, <2>1, <2>2
    DEF GovernanceInv, GovernorAndTimelockAgree, IsOperation, IsOperationDone, DoneTimestamp
  <2> QED
    BY <2>2, <2>3, <2>4 DEF GovernanceInv
<1>5. ASSUME NEW p \in Proposals, ExecuteOperation(p)
      PROVE  GovernanceInv'
  <2>1. /\ ExecuteBatch(p)
        /\ UNCHANGED <<timelockIds, timestamp, proposals>>
        /\ Calls[p] \cap ToGovernor = {}
    BY <1>5 DEF ExecuteOperation, clockVars, governorVars
  <2>2. /\ p \in timelockIds
        /\ timestamps' = [timestamps EXCEPT ![p] = 1]
        /\ timestamps' \in [Proposals -> Nat]
        /\ minDelay' \in Nat
        /\ RoleInv'
    BY <2>1, BatchDone
  <2>3. TimelockTypeOK'
    BY <1>t, <2>1, <2>2 DEF TimelockTypeOK
  <2>4. GovernorAndTimelockAgree'
    BY <1>t, <2>1, <2>2
    DEF GovernanceInv, GovernorAndTimelockAgree, IsOperation, IsOperationDone, DoneTimestamp
  <2> QED
    BY <2>2, <2>3, <2>4 DEF GovernanceInv
<1>6. ASSUME NEW p \in Proposals, CancelByRole(p)
      PROVE  GovernanceInv'
  <2>1. /\ cancellers # {}
        /\ timestamps[p] > 1
        /\ timestamps' = [timestamps EXCEPT ![p] = 0]
        /\ UNCHANGED <<minDelay, cancellers, proposals, timelockIds, timestamp>>
    BY <1>6 DEF CancelByRole, CancelOperation, IsOperationPending, DoneTimestamp,
       governorVars, clockVars
  <2>2. TimelockTypeOK'
    BY <1>t, <2>1 DEF TimelockTypeOK
  <2>3. \A q \in Proposals : IsOperationDone(q)' <=> IsOperationDone(q)
    BY <1>t, <2>1 DEF IsOperationDone, DoneTimestamp
  <2>4. GovernorAndTimelockAgree'
    BY <1>t, <2>1, <2>3
    DEF GovernanceInv, GovernorAndTimelockAgree, IsOperation
  <2>5. RoleInv'
    BY <2>1, <2>3 DEF GovernanceInv, RoleInv
  <2> QED
    BY <2>2, <2>4, <2>5 DEF GovernanceInv
<1>7. ASSUME TokenOperation, UNCHANGED <<timelockVars, governorVars>>
      PROVE  GovernanceInv'
  <2>1. UNCHANGED clockVars
    BY <1>7 DEF TokenOperation, TransferTokens, Burn, Delegate, DelegateBySig, SetDelegate
  <2> QED
    BY <1>7, <2>1 DEF timelockVars, governorVars, clockVars, GovernanceInv, TimelockTypeOK,
       RoleInv, GovernorAndTimelockAgree, IsOperation, IsOperationDone
<1>8. ASSUME MineBlock
      PROVE  GovernanceInv'
  <2>1. timestamp' \in Nat \ {0, 1}
    BY <1>8, <1>t, ChainAssumption DEF MineBlock, Mine
  <2> QED
    BY <1>8, <2>1 DEF MineBlock, timelockVars, governorVars, GovernanceInv, TimelockTypeOK,
       RoleInv, GovernorAndTimelockAgree, IsOperation, IsOperationDone
<1>9. CASE UNCHANGED vars
  BY <1>9 DEF vars, timelockVars, governorVars, clockVars, GovernanceInv, TimelockTypeOK,
     RoleInv, GovernorAndTimelockAgree, IsOperation, IsOperationDone
<1> QED
  BY <1>1, <1>2, <1>3, <1>4, <1>5, <1>6, <1>7, <1>8, <1>9 DEF Next

LEMMA GovernanceInvariant == Spec => []GovernanceInv
<1> QED
  BY GovernanceInit, GovernanceStep, PTL DEF Spec

(***************************************************************************)
(* Governor and timelock agree on what was queued and executed, and no     *)
(* batch that calls the governor is done past the governor.                *)
(***************************************************************************)
THEOREM GovernorTimelockAgreement == Spec => []GovernorAndTimelockAgree
<1>1. GovernanceInv => GovernorAndTimelockAgree
  BY DEF GovernanceInv
<1> QED
  BY <1>1, GovernanceInvariant, PTL

(***************************************************************************)
(* With the roles of the deployment no proposal is cancelled before an     *)
(* executed proposal has granted the role to do so.                        *)
(***************************************************************************)
THEOREM NoCancelWithoutGrant == Spec => []CanceledByGrantedRole
<1>1. GovernanceInv => CanceledByGrantedRole
  BY CanceledState DEF GovernanceInv, RoleInv, CanceledByGrantedRole
<1> QED
  BY <1>1, GovernanceInvariant, PTL

-----------------------------------------------------------------------------
(* A proposal's life: its outcome, which rests on the token's past, and stages*)

Over(p) == proposals[p].voteStart # 0 /\ proposals[p].voteEnd < blockNumber

\* Only a proposal that has passed is ever queued.
QueuedPassed == \A p \in Proposals : p \in timelockIds => Over(p) /\ Passed(p)

ProposalsOK ==
    /\ proposals \in [Proposals -> [voteStart : Nat, voteEnd : Nat, executed : BOOLEAN]]
    /\ \A p \in Proposals :
          proposals[p].voteStart # 0 => proposals[p].voteStart < proposals[p].voteEnd
    /\ settings \in {InitialSettings, NewSettings}
    /\ minDelay \in {InitialDelay, NewDelay}

OutcomeInv ==
    /\ GovernanceInv
    /\ PastInv
    /\ blockNumber # 0
    /\ GoodHistory(quorumHistory, blockNumber)
    /\ ProposalsOK
    /\ QueuedPassed

LEMMA OutcomeInit == Init => OutcomeInv
<1> SUFFICES ASSUME Init PROVE OutcomeInv
  OBVIOUS
<1>1. GovernanceInv
  BY GovernanceInit
<1>2. PastInv /\ blockNumber \in Nat /\ blockNumber # 0 /\ FirstBlock = blockNumber
  BY PastInit, ChainAssumption DEF Init, PastInv, ChainInit
<1>3. GoodHistory(quorumHistory, blockNumber)
  <2>1. GoodHistory(<< >>, blockNumber)
    BY DEF GoodHistory, Sorted
  <2>2. InitialQuorum \in Int
    BY GovernorAssumption
  <2>3. Continues(<< >>, WriteCheckpoint(<< >>, blockNumber, InitialQuorum), blockNumber)
    BY <1>2, <2>1, <2>2, WriteContinues
  <2> QED
    BY <1>2, <2>3 DEF Init, GovernorInit, Continues
<1>4. ProposalsOK
  BY DEF Init, GovernorInit, TimelockInit, ProposalsOK
<1>5. QueuedPassed
  BY DEF Init, GovernorInit, QueuedPassed
<1> QED
  BY <1>1, <1>2, <1>3, <1>4, <1>5 DEF OutcomeInv

-----------------------------------------------------------------------------
\* No step changes the supply or the quorum of a block before this one.
PastKept ==
    /\ PastInv'
    /\ GoodHistory(quorumHistory, blockNumber)'
    /\ SamePast(supplyCheckpoints, supplyCheckpoints', blockNumber)
    /\ SamePast(quorumHistory, quorumHistory', blockNumber)
    /\ blockNumber' \in {blockNumber, blockNumber + 1}

LEMMA UnchangedPast ==
    ASSUME OutcomeInv, UNCHANGED <<clockVars, tokenVars, quorumHistory>>
    PROVE  PastKept
BY DEF OutcomeInv, clockVars, tokenVars, PastInv, Histories, PastKept, SamePast

LEMMA NextKeepsPast == OutcomeInv /\ [Next]_vars => PastKept
<1> SUFFICES ASSUME OutcomeInv, [Next]_vars PROVE PastKept
  OBVIOUS
<1>0. PastInv /\ blockNumber \in Nat /\ GoodHistory(quorumHistory, blockNumber)
  BY DEF OutcomeInv, PastInv
<1>1. ASSUME NEW p \in Proposals, NEW a \in Holders, Propose(a, p) PROVE PastKept
  BY <1>1, UnchangedPast DEF Propose
<1>2. ASSUME NEW p \in Proposals, NEW a \in Holders, NEW s \in VoteType, CastVote(a, p, s)
      PROVE  PastKept
  BY <1>2, UnchangedPast DEF CastVote
<1>3. ASSUME NEW p \in Proposals, Queue(p) PROVE PastKept
  BY <1>3, UnchangedPast DEF Queue
<1>4. ASSUME NEW p \in Proposals, ExecuteProposal(p) PROVE PastKept
  <2>1. CASE "setQuorum" \notin Calls[p]
    BY <1>4, <2>1, UnchangedPast DEF ExecuteProposal
  <2>2. CASE "setQuorum" \in Calls[p]
    <3>1. NewQuorum \in Int
      BY GovernorAssumption
    <3>2. Continues(quorumHistory, quorumHistory', blockNumber)
      BY <1>0, <1>4, <2>2, <3>1, WriteContinues DEF ExecuteProposal
    <3>3. UNCHANGED <<clockVars, tokenVars>>
      BY <1>4 DEF ExecuteProposal
    <3>4. /\ UNCHANGED <<balances, delegates, checkpoints, supplyCheckpoints, blockNumber>>
          /\ PastInv'
      BY <1>0, <3>3 DEF clockVars, tokenVars, PastInv, Histories
    <3> QED
      BY <3>2, <3>4 DEF PastKept, Continues, SamePast
  <2> QED
    BY <2>1, <2>2
<1>5. ASSUME NEW p \in Proposals, ExecuteOperation(p) PROVE PastKept
  BY <1>5, UnchangedPast DEF ExecuteOperation, governorVars
<1>6. ASSUME NEW p \in Proposals, CancelByRole(p) PROVE PastKept
  BY <1>6, UnchangedPast DEF CancelByRole, governorVars
<1>7. ASSUME TokenOperation, UNCHANGED <<timelockVars, governorVars>> PROVE PastKept
  <2>1. PastInv' /\ TokenContinues
    BY <1>0, <1>7, OperationContinues
  <2>2. quorumHistory' = quorumHistory
    BY <1>7 DEF governorVars
  <2> QED
    BY <1>0, <2>1, <2>2 DEF PastKept, TokenContinues, Continues, SamePast
<1>8. ASSUME MineBlock PROVE PastKept
  <2>1. PICK seconds \in BlockTimes : Mine(seconds) /\ UNCHANGED <<tokenVars, governorVars>>
    BY <1>8 DEF MineBlock
  <2>2. PastInv'
    BY <1>0, <2>1, MineKeepsPast
  <2>3. /\ blockNumber' = blockNumber + 1
        /\ supplyCheckpoints' = supplyCheckpoints
        /\ quorumHistory' = quorumHistory
    BY <2>1 DEF Mine, tokenVars, governorVars
  <2>4. GoodHistory(quorumHistory, blockNumber)'
    BY <1>0, <2>3, GoodLater
  <2> QED
    BY <2>2, <2>3, <2>4 DEF PastKept, SamePast
<1>9. CASE UNCHANGED vars
  BY <1>9, UnchangedPast DEF vars, governorVars
<1> QED
  BY <1>1, <1>2, <1>3, <1>4, <1>5, <1>6, <1>7, <1>8, <1>9 DEF Next

\* A proposal that is or was active has not been proposed again, and its
\* vote, once over, gets no more votes.
LEMMA ActiveState ==
    ASSUME NEW p \in Proposals, State(p) = "Active"
    PROVE  proposals[p].voteEnd >= blockNumber
BY DEF State

OverKept ==
    \A p \in Proposals : Over(p) =>
        /\ proposals'[p].voteStart = proposals[p].voteStart
        /\ proposals'[p].voteEnd = proposals[p].voteEnd
        /\ proposalVotes'[p] = proposalVotes[p]

LEMMA NextKeepsOver == OutcomeInv /\ [Next]_vars => OverKept
<1> SUFFICES ASSUME OutcomeInv, [Next]_vars PROVE OverKept
  OBVIOUS
<1>0. /\ proposals \in [Proposals -> [voteStart : Nat, voteEnd : Nat, executed : BOOLEAN]]
      /\ blockNumber \in Nat
  BY DEF OutcomeInv, ProposalsOK, PastInv
<1>1. ASSUME NEW p \in Proposals, NEW a \in Holders, Propose(a, p) PROVE OverKept
  BY <1>0, <1>1 DEF Propose, ballotVars, OverKept, Over
<1>2. ASSUME NEW p \in Proposals, NEW a \in Holders, NEW s \in VoteType, CastVote(a, p, s)
      PROVE  OverKept
  <2>1. ~Over(p) /\ proposals' = proposals
    BY <1>0, <1>2, ActiveState DEF CastVote, Over
  <2>2. \A q \in Proposals : q # p => proposalVotes'[q] = proposalVotes[q]
    BY <1>2 DEF CastVote
  <2> QED
    BY <2>1, <2>2 DEF OverKept
<1>3. ASSUME NEW p \in Proposals, Queue(p) PROVE OverKept
  BY <1>3 DEF Queue, ballotVars, OverKept
<1>4. ASSUME NEW p \in Proposals, ExecuteProposal(p) PROVE OverKept
  BY <1>0, <1>4 DEF ExecuteProposal, ballotVars, OverKept
<1>5. ASSUME UNCHANGED <<proposals, proposalVotes>> PROVE OverKept
  BY <1>5 DEF OverKept
<1>6. ASSUME NEW p \in Proposals, ExecuteOperation(p) \/ CancelByRole(p) PROVE OverKept
  BY <1>5, <1>6 DEF ExecuteOperation, CancelByRole, governorVars
<1>7. CASE \/ TokenOperation /\ UNCHANGED <<timelockVars, governorVars>>
           \/ MineBlock
           \/ UNCHANGED vars
  BY <1>5, <1>7 DEF MineBlock, vars, governorVars
<1> QED
  BY <1>1, <1>2, <1>3, <1>4, <1>6, <1>7 DEF Next

\* Hence the outcome: quorum and votes of a vote that is over do not change.
OutcomeKept == \A p \in Proposals : Over(p) => Over(p)' /\ Passed(p)' = Passed(p)

LEMMA NextKeepsOutcome ==
    OutcomeInv /\ PastKept /\ OverKept => OutcomeKept
<1> SUFFICES ASSUME OutcomeInv, PastKept, OverKept, NEW p \in Proposals, Over(p)
             PROVE  Over(p)' /\ Passed(p)' = Passed(p)
  BY DEF OutcomeKept
<1>0. /\ blockNumber \in Nat
      /\ proposals[p].voteStart \in Nat
      /\ proposals[p].voteEnd \in Nat
      /\ proposals[p].voteStart < proposals[p].voteEnd
      /\ proposals[p].voteEnd < blockNumber
      /\ proposals[p].voteStart # 0
  BY DEF OutcomeInv, ProposalsOK, PastInv, Over
<1>1. /\ proposals'[p].voteStart = proposals[p].voteStart
      /\ proposals'[p].voteEnd = proposals[p].voteEnd
      /\ proposalVotes'[p] = proposalVotes[p]
  BY DEF OverKept
<1>2. proposals[p].voteStart \in 0..(blockNumber - 1)
  BY <1>0
<1>3. /\ ValueAt(supplyCheckpoints', proposals[p].voteStart)
            = ValueAt(supplyCheckpoints, proposals[p].voteStart)
      /\ ValueAt(quorumHistory', proposals[p].voteStart)
            = ValueAt(quorumHistory, proposals[p].voteStart)
  BY <1>2 DEF PastKept, SamePast
<1>4. Quorum(proposals[p].voteStart)' = Quorum(proposals[p].voteStart)
  BY <1>1, <1>3 DEF Quorum, PastTotalSupply
<1>5. Passed(p)' = Passed(p)
  BY <1>1, <1>4 DEF Passed
<1>6. Over(p)'
  BY <1>0, <1>1 DEF PastKept, Over
<1> QED
  BY <1>5, <1>6

-----------------------------------------------------------------------------
\* What a proposal's stage says of its vote.
LEMMA SucceededOver ==
    ASSUME OutcomeInv, NEW p \in Proposals, State(p) = "Succeeded"
    PROVE  Over(p) /\ Passed(p)
<1>1. /\ proposals[p].voteEnd \in Nat
      /\ blockNumber \in Nat
  BY DEF OutcomeInv, ProposalsOK, PastInv
<1>2. /\ proposals[p].voteStart # 0
      /\ ~(proposals[p].voteEnd >= blockNumber)
      /\ Passed(p)
  BY DEF State
<1> QED
  BY <1>1, <1>2 DEF Over

LEMMA BatchTypes ==
    ASSUME ProposalsOK, NEW p \in Proposals, ExecuteBatch(p)
    PROVE  minDelay' \in {InitialDelay, NewDelay}
BY DEF ProposalsOK, ExecuteBatch

LEMMA ProposalsKept == OutcomeInv /\ [Next]_vars => ProposalsOK'
<1> SUFFICES ASSUME OutcomeInv, [Next]_vars PROVE ProposalsOK'
  OBVIOUS
<1>0. ProposalsOK /\ blockNumber \in Nat
  BY DEF OutcomeInv, PastInv
<1>1. ASSUME NEW p \in Proposals, NEW a \in Holders, Propose(a, p) PROVE ProposalsOK'
  <2> DEFINE snapshot == blockNumber + settings.votingDelay
             end == snapshot + settings.votingPeriod
  <2>1. settings \in [votingDelay : Nat, votingPeriod : Nat \ {0}, proposalThreshold : Nat]
    BY <1>0, GovernorAssumption DEF ProposalsOK
  <2>2. snapshot \in Nat /\ end \in Nat /\ snapshot < end
    BY <1>0, <2>1
  <2>3. /\ proposals' = [proposals EXCEPT ![p].voteStart = snapshot, ![p].voteEnd = end]
        /\ UNCHANGED <<settings, minDelay>>
    BY <1>1 DEF Propose, timelockVars
  <2> HIDE DEF snapshot, end
  <2> QED
    BY <1>0, <2>2, <2>3 DEF ProposalsOK
<1>2. ASSUME NEW p \in Proposals, ExecuteProposal(p) PROVE ProposalsOK'
  <2>1. minDelay' \in {InitialDelay, NewDelay}
    BY <1>0, <1>2, BatchTypes DEF ExecuteProposal
  <2>2. /\ proposals' = [proposals EXCEPT ![p].executed = TRUE]
        /\ settings' \in {settings, NewSettings}
    BY <1>2 DEF ExecuteProposal
  <2> QED
    BY <1>0, <2>1, <2>2 DEF ProposalsOK
<1>3. ASSUME NEW p \in Proposals, ExecuteOperation(p) PROVE ProposalsOK'
  <2>1. minDelay' \in {InitialDelay, NewDelay}
    BY <1>0, <1>3, BatchTypes DEF ExecuteOperation
  <2> QED
    BY <1>0, <1>3, <2>1 DEF ExecuteOperation, governorVars, ProposalsOK
<1>4. ASSUME UNCHANGED <<proposals, settings, minDelay>> PROVE ProposalsOK'
  BY <1>0, <1>4 DEF ProposalsOK
<1>5. ASSUME NEW p \in Proposals,
             \/ \E a \in Holders, s \in VoteType : CastVote(a, p, s)
             \/ Queue(p)
             \/ CancelByRole(p)
      PROVE  ProposalsOK'
  BY <1>4, <1>5 DEF CastVote, Queue, Schedule, CancelByRole, CancelOperation,
                    timelockVars, governorVars
<1>6. CASE \/ TokenOperation /\ UNCHANGED <<timelockVars, governorVars>>
           \/ MineBlock
           \/ UNCHANGED vars
  BY <1>4, <1>6 DEF MineBlock, vars, timelockVars, governorVars
<1> QED
  BY <1>1, <1>2, <1>3, <1>5, <1>6 DEF Next

LEMMA QueuedStayPassed == OutcomeInv /\ OutcomeKept /\ [Next]_vars => QueuedPassed'
<1> SUFFICES ASSUME OutcomeInv, OutcomeKept, [Next]_vars PROVE QueuedPassed'
  OBVIOUS
<1>1. \A p \in Proposals : p \in timelockIds => Over(p)' /\ Passed(p)'
  BY DEF OutcomeInv, QueuedPassed, OutcomeKept
<1>2. ASSUME NEW p \in Proposals, Queue(p) PROVE QueuedPassed'
  <2>1. Over(p)' /\ Passed(p)'
    BY <1>2, SucceededOver DEF Queue, OutcomeKept
  <2>2. timelockIds' = timelockIds \cup {p}
    BY <1>2 DEF Queue
  <2> QED
    BY <1>1, <2>1, <2>2 DEF QueuedPassed
<1>3. ASSUME timelockIds' = timelockIds PROVE QueuedPassed'
  BY <1>1, <1>3 DEF QueuedPassed
<1>4. ASSUME NEW p \in Proposals,
             \/ \E a \in Holders : Propose(a, p)
             \/ \E a \in Holders, s \in VoteType : CastVote(a, p, s)
             \/ ExecuteProposal(p)
             \/ ExecuteOperation(p)
             \/ CancelByRole(p)
      PROVE  QueuedPassed'
  BY <1>3, <1>4 DEF Propose, CastVote, ExecuteProposal, ExecuteOperation, CancelByRole,
                    governorVars
<1>5. CASE \/ TokenOperation /\ UNCHANGED <<timelockVars, governorVars>>
           \/ MineBlock
           \/ UNCHANGED vars
  BY <1>3, <1>5 DEF MineBlock, vars, governorVars
<1> QED
  BY <1>2, <1>4, <1>5 DEF Next

LEMMA OutcomeStep == OutcomeInv /\ [Next]_vars => OutcomeInv' /\ OutcomeKept
<1> SUFFICES ASSUME OutcomeInv, [Next]_vars PROVE OutcomeInv' /\ OutcomeKept
  OBVIOUS
<1>1. GovernanceInv'
  BY GovernanceStep DEF OutcomeInv
<1>2. PastKept /\ OutcomeKept
  BY NextKeepsPast, NextKeepsOver, NextKeepsOutcome
<1>3. ProposalsOK' /\ QueuedPassed'
  BY <1>2, ProposalsKept, QueuedStayPassed
<1>4. blockNumber' # 0
  BY <1>2 DEF OutcomeInv, PastInv, PastKept
<1> QED
  BY <1>1, <1>2, <1>3, <1>4 DEF OutcomeInv, PastKept

LEMMA OutcomeInvariant == Spec => []OutcomeInv
<1> QED
  BY OutcomeInit, OutcomeStep, PTL DEF Spec

(***************************************************************************)
(* The outcome of a vote that is over never changes: quorum and votes are  *)
(* those of blocks that lie in the past, and no vote is cast any more.     *)
(***************************************************************************)
THEOREM OutcomeStaysFixed == Spec => OutcomeFixed
<1>1. OutcomeInv /\ [Next]_vars =>
         [\A p \in Proposals :
             proposals[p].voteStart # 0 /\ proposals[p].voteEnd < blockNumber
                => Passed(p)' = Passed(p)]_vars
  BY OutcomeStep DEF OutcomeKept, Over
<1> QED
  BY <1>1, OutcomeInvariant, PTL DEF Spec, OutcomeFixed

-----------------------------------------------------------------------------
(***************************************************************************)
(* The refinement: each step moves every proposal along its life, or not   *)
(* at all.                                                                 *)
(***************************************************************************)
Eta(p) == IF IsOperationPending(p) THEN timestamps[p] ELSE 0
Moves(p) == Life!Advance(p) \/ Life!Queue(p) \/ Life!Execute(p) \/ Life!Cancel(p)

LEMMA Facts ==
    ASSUME OutcomeInv, NEW p \in Proposals
    PROVE  /\ blockNumber \in Nat \ {0}
           /\ proposals[p] \in [voteStart : Nat, voteEnd : Nat, executed : BOOLEAN]
           /\ proposals[p].voteStart \in Nat
           /\ proposals[p].voteEnd \in Nat
           /\ proposals[p].voteStart # 0 => proposals[p].voteStart < proposals[p].voteEnd
           /\ timestamps[p] \in Nat
           /\ proposals[p].executed => p \in timelockIds /\ timestamps[p] = 1
           /\ timestamps[p] # 0 => p \in timelockIds
           /\ p \in timelockIds => Over(p) /\ Passed(p)
BY DEF OutcomeInv, PastInv, ProposalsOK, QueuedPassed, GovernanceInv, TimelockTypeOK,
       GovernorAndTimelockAgree, IsOperation, IsOperationDone, DoneTimestamp

\* A queued proposal is at the stage that the timelock says.
StagesQueued ==
    \A p \in Proposals :
        /\ timestamps[p] = 1 => State(p) = "Executed"
        /\ timestamps[p] > 1 => State(p) = "Queued"
        /\ timestamps[p] = 0 /\ p \in timelockIds => State(p) = "Canceled"

LEMMA QueuedState == OutcomeInv => StagesQueued
<1> SUFFICES ASSUME OutcomeInv, NEW p \in Proposals, timestamps[p] # 0 \/ p \in timelockIds
             PROVE  /\ timestamps[p] = 1 => State(p) = "Executed"
                    /\ timestamps[p] > 1 => State(p) = "Queued"
                    /\ timestamps[p] = 0 => State(p) = "Canceled"
  BY DEF StagesQueued, OutcomeInv, GovernanceInv, TimelockTypeOK
<1>1. /\ timestamps[p] \in Nat
      /\ proposals[p].executed => timestamps[p] = 1
      /\ p \in timelockIds
      /\ Over(p)
      /\ Passed(p)
      /\ blockNumber \in Nat
      /\ proposals[p].voteStart < proposals[p].voteEnd
      /\ proposals[p].voteStart \in Nat
      /\ proposals[p].voteEnd \in Nat
  BY Facts DEF Over
<1> QED
  BY <1>1 DEF State, Over, IsOperationDone, IsOperationPending, DoneTimestamp

LEMMA QueuedStateNext == OutcomeInv' => StagesQueued'
BY QueuedState, PTL

\* A proposal of which nothing changes stays at its stage.
LEMMA StageSame ==
    ASSUME OutcomeInv, OutcomeKept, NEW p \in Proposals,
           blockNumber' = blockNumber, proposals'[p] = proposals[p],
           timestamps'[p] = timestamps[p], (p \in timelockIds)' = (p \in timelockIds)
    PROVE  Moves(p)
<1>1. Over(p) => Passed(p)' = Passed(p)
  BY DEF OutcomeKept
<1>2. /\ IsOperationDone(p)' = IsOperationDone(p)
      /\ IsOperationPending(p)' = IsOperationPending(p)
      /\ Eta(p)' = Eta(p)
  BY DEF IsOperationDone, IsOperationPending, Eta
<1>3. State(p)' = State(p)
  <2>1. CASE Over(p)
    BY <1>1, <1>2, <2>1 DEF State
  <2>2. CASE ~Over(p)
    BY <1>2, <2>2, Facts DEF State, Over
  <2> QED
    BY <2>1, <2>2
<1> QED
  BY <1>2, <1>3 DEF Moves, Life!Advance, Eta

LEMMA ProposeMoves ==
    ASSUME OutcomeInv, OutcomeKept, NEW p \in Proposals, NEW a \in Holders, Propose(a, p),
           NEW q \in Proposals
    PROVE  Moves(q)
<1>1. /\ proposals[p].voteStart = 0
      /\ proposals' = [proposals EXCEPT ![p].voteStart = blockNumber + settings.votingDelay,
             ![p].voteEnd = blockNumber + settings.votingDelay + settings.votingPeriod]
      /\ UNCHANGED <<blockNumber, timestamps, timelockIds>>
  BY DEF Propose, clockVars, timelockVars
<1>2. CASE q # p
  <2>1. proposals'[q] = proposals[q]
    BY <1>1, <1>2 DEF OutcomeInv, ProposalsOK
  <2> QED
    BY <1>1, <2>1, StageSame
<1>3. CASE q = p
  <2>1. ~proposals[p].executed
    BY <1>1, Facts DEF Over
  <2>2. State(p) = "Unknown"
    BY <1>1, <2>1 DEF State
  <2>3. settings.votingDelay \in Nat
    BY GovernorAssumption DEF OutcomeInv, ProposalsOK
  <2>4. proposals'[p].voteStart = blockNumber + settings.votingDelay /\ ~proposals'[p].executed
    BY <1>1, <2>1 DEF OutcomeInv, ProposalsOK
  <2>5. State(p)' = "Pending"
    BY <1>1, <2>3, <2>4, Facts DEF State
  <2> QED
    BY <1>1, <1>3, <2>2, <2>5 DEF Moves, Life!Advance, Life!Move, IsOperationPending
<1> QED
  BY <1>2, <1>3

LEMMA QueueMoves ==
    ASSUME OutcomeInv, OutcomeInv', OutcomeKept, NEW p \in Proposals, Queue(p),
           NEW q \in Proposals
    PROVE  Moves(q)
<1>1. /\ State(p) = "Succeeded"
      /\ timelockIds' = timelockIds \cup {p}
      /\ timestamps' = [timestamps EXCEPT ![p] = timestamp + minDelay]
      /\ UNCHANGED <<blockNumber, timestamp, proposals>>
  BY DEF Queue, Schedule, clockVars
<1>2. /\ timestamps \in [Proposals -> Nat]
      /\ timestamp \in Nat \ {0, 1}
      /\ minDelay \in {InitialDelay, NewDelay}
      /\ minDelay \in Nat
  BY TimelockAssumption DEF OutcomeInv, GovernanceInv, TimelockTypeOK, ProposalsOK
<1>3. CASE q # p
  <2>1. timestamps'[q] = timestamps[q] /\ (q \in timelockIds)' = (q \in timelockIds)
    BY <1>1, <1>2, <1>3
  <2> QED
    BY <1>1, <2>1, StageSame
<1>4. CASE q = p
  <2>1. timestamps'[p] = timestamp + minDelay /\ timestamps'[p] > 1
    BY <1>1, <1>2
  <2>2. State(p)' = "Queued"
    BY <2>1, QueuedStateNext DEF StagesQueued
  <2>3. timestamps'[p] >= timestamp + (IF NewDelay < InitialDelay THEN NewDelay ELSE InitialDelay)
    BY <1>2, <2>1, TimelockAssumption
  <2>4. IsOperationPending(p)'
    BY <2>1 DEF IsOperationPending, DoneTimestamp
  <2> QED
    BY <1>1, <1>4, <2>2, <2>3, <2>4 DEF Moves, Life!Queue, Life!Move
<1> QED
  BY <1>3, <1>4

\* Whoever has the timelock execute.
LEMMA ExecuteMoves ==
    ASSUME OutcomeInv, OutcomeInv', OutcomeKept, NEW p \in Proposals, ExecuteBatch(p),
           UNCHANGED <<clockVars, timelockIds>>,
           \A q \in Proposals : q # p => proposals'[q] = proposals[q],
           NEW q \in Proposals
    PROVE  Moves(q)
<1>1. /\ timestamps[p] > 1
      /\ timestamps[p] <= timestamp
      /\ timestamps' = [timestamps EXCEPT ![p] = 1]
      /\ timestamps \in [Proposals -> Nat]
      /\ blockNumber' = blockNumber
  BY DEF ExecuteBatch, IsOperationReady, IsOperationPending, DoneTimestamp, clockVars,
         OutcomeInv, GovernanceInv, TimelockTypeOK
<1>2. CASE q # p
  BY <1>1, <1>2, StageSame
<1>3. CASE q = p
  <2>1. State(p) = "Queued"
    BY <1>1, QueuedState DEF StagesQueued
  <2>2. timestamps'[p] = 1
    BY <1>1
  <2>3. State(p)' = "Executed"
    BY <2>2, QueuedStateNext DEF StagesQueued
  <2>4. IsOperationPending(p) /\ ~IsOperationPending(p)'
    BY <1>1, <2>2 DEF IsOperationPending, DoneTimestamp
  <2> QED
    BY <1>1, <1>3, <2>1, <2>3, <2>4 DEF Moves, Life!Execute, Life!Move
<1> QED
  BY <1>2, <1>3

LEMMA CancelMoves ==
    ASSUME OutcomeInv, OutcomeInv', OutcomeKept, NEW p \in Proposals, CancelByRole(p),
           NEW q \in Proposals
    PROVE  Moves(q)
<1>1. /\ timestamps[p] > 1
      /\ timestamps' = [timestamps EXCEPT ![p] = 0]
      /\ timestamps \in [Proposals -> Nat]
      /\ UNCHANGED <<blockNumber, timelockIds, proposals>>
  BY DEF CancelByRole, CancelOperation, IsOperationPending, DoneTimestamp, clockVars,
         governorVars, OutcomeInv, GovernanceInv, TimelockTypeOK
<1>2. CASE q # p
  BY <1>1, <1>2, StageSame
<1>3. CASE q = p
  <2>1. State(p) = "Queued"
    BY <1>1, QueuedState DEF StagesQueued
  <2>2. /\ timestamps'[p] = 0
        /\ p \in timelockIds'
    BY <1>1, Facts
  <2>4. State(p)' = "Canceled"
    BY <2>2, QueuedStateNext DEF StagesQueued
  <2>3. ~IsOperationPending(p)'
    BY <2>2 DEF IsOperationPending, DoneTimestamp
  <2> QED
    BY <1>3, <2>1, <2>3, <2>4 DEF Moves, Life!Cancel, Life!Move
<1> QED
  BY <1>2, <1>3

LEMMA MineMoves ==
    ASSUME OutcomeInv, OutcomeKept, MineBlock, NEW q \in Proposals
    PROVE  Moves(q)
<1>1. /\ blockNumber' = blockNumber + 1
      /\ UNCHANGED <<proposals, timestamps, timelockIds>>
  BY DEF MineBlock, Mine, timelockVars, governorVars
<1>2. /\ IsOperationDone(q)' = IsOperationDone(q)
      /\ IsOperationPending(q)' = IsOperationPending(q)
      /\ (q \in timelockIds)' = (q \in timelockIds)
  BY <1>1 DEF IsOperationDone, IsOperationPending
<1>3. \/ State(q)' = State(q)
      \/ State(q) = "Pending" /\ State(q)' = "Active"
      \/ State(q) = "Active" /\ State(q)' \in {"Defeated", "Succeeded"}
  <2>1. CASE Over(q)
    <3>1. Over(q)' /\ Passed(q)' = Passed(q)
      BY <2>1 DEF OutcomeKept
    <3> QED
      BY <1>1, <1>2, <2>1, <3>1, Facts DEF State, Over
  <2>2. CASE ~Over(q)
    <3>1. q \notin timelockIds /\ ~proposals[q].executed
      BY <2>2, Facts
    <3> QED
      BY <1>1, <1>2, <2>2, <3>1, Facts DEF State, Over
  <2> QED
    BY <2>1, <2>2
<1>4. Eta(q)' = Eta(q)
  BY <1>1, <1>2 DEF Eta
<1> QED
  BY <1>3, <1>4 DEF Moves, Life!Advance, Life!Move, Eta

LEMMA LifeStep ==
    OutcomeInv /\ [Next]_vars => (\A q \in Proposals : Moves(q)) /\ timestamp' >= timestamp
<1> SUFFICES ASSUME OutcomeInv, [Next]_vars
             PROVE  (\A q \in Proposals : Moves(q)) /\ timestamp' >= timestamp
  OBVIOUS
<1>0. OutcomeInv' /\ OutcomeKept /\ timestamp \in Nat
  BY OutcomeStep DEF OutcomeInv, GovernanceInv, TimelockTypeOK
<1>1. ASSUME NEW p \in Proposals, NEW a \in Holders, Propose(a, p)
      PROVE  (\A q \in Proposals : Moves(q)) /\ timestamp' >= timestamp
  <2>1. timestamp' = timestamp
    BY <1>1 DEF Propose, clockVars
  <2> QED
    BY <1>0, <1>1, <2>1, ProposeMoves
<1>2. ASSUME NEW p \in Proposals, Queue(p)
      PROVE  (\A q \in Proposals : Moves(q)) /\ timestamp' >= timestamp
  <2>1. timestamp' = timestamp
    BY <1>2 DEF Queue, clockVars
  <2> QED
    BY <1>0, <1>2, <2>1, QueueMoves
<1>3. ASSUME NEW p \in Proposals, ExecuteProposal(p) \/ ExecuteOperation(p)
      PROVE  (\A q \in Proposals : Moves(q)) /\ timestamp' >= timestamp
  <2>1. /\ ExecuteBatch(p)
        /\ UNCHANGED <<clockVars, timelockIds>>
    BY <1>3 DEF ExecuteProposal, ExecuteOperation, governorVars
  <2>2. proposals' \in {proposals, [proposals EXCEPT ![p].executed = TRUE]}
    BY <1>3 DEF ExecuteProposal, ExecuteOperation, governorVars
  <2>3. \A q \in Proposals : q # p => proposals'[q] = proposals[q]
    BY <2>2 DEF OutcomeInv, ProposalsOK
  <2>4. timestamp' = timestamp
    BY <2>1 DEF clockVars
  <2> QED
    BY <1>0, <2>1, <2>3, <2>4, ExecuteMoves
<1>4. ASSUME NEW p \in Proposals, CancelByRole(p)
      PROVE  (\A q \in Proposals : Moves(q)) /\ timestamp' >= timestamp
  <2>1. timestamp' = timestamp
    BY <1>4 DEF CancelByRole, clockVars
  <2> QED
    BY <1>0, <1>4, <2>1, CancelMoves
<1>5. ASSUME MineBlock
      PROVE  (\A q \in Proposals : Moves(q)) /\ timestamp' >= timestamp
  <2>1. timestamp' >= timestamp
    BY <1>0, <1>5, ChainAssumption DEF MineBlock, Mine
  <2> QED
    BY <1>0, <1>5, <2>1, MineMoves
<1>6. ASSUME UNCHANGED <<clockVars, proposals, timelockVars, timelockIds>>
      PROVE  (\A q \in Proposals : Moves(q)) /\ timestamp' >= timestamp
  BY <1>0, <1>6, StageSame DEF clockVars, timelockVars
<1>7. ASSUME NEW p \in Proposals, NEW a \in Holders, NEW s \in VoteType, CastVote(a, p, s)
      PROVE  (\A q \in Proposals : Moves(q)) /\ timestamp' >= timestamp
  BY <1>6, <1>7 DEF CastVote
<1>8. CASE TokenOperation /\ UNCHANGED <<timelockVars, governorVars>>
  <2>1. UNCHANGED clockVars
    BY <1>8 DEF TokenOperation, TransferTokens, Burn, Delegate, DelegateBySig, SetDelegate
  <2> QED
    BY <1>6, <1>8, <2>1 DEF governorVars
<1>9. CASE UNCHANGED vars
  BY <1>6, <1>9 DEF vars, governorVars
<1> QED
  BY <1>1, <1>2, <1>3, <1>4, <1>5, <1>7, <1>8, <1>9 DEF Next

LEMMA LifeStart == Init => Life!LifeInit
<1> SUFFICES ASSUME Init PROVE Life!LifeInit
  OBVIOUS
<1>1. \A p \in Proposals : State(p) = "Unknown" /\ ~IsOperationPending(p)
  BY DEF Init, GovernorInit, TimelockInit, State, IsOperationPending, DoneTimestamp
<1>2. timestamp \in Nat
  BY ChainAssumption DEF Init, ChainInit
<1> QED
  BY <1>1, <1>2 DEF Life!LifeInit

(***************************************************************************)
(* Governor, token and timelock together implement ProposalLife: no        *)
(* proposal skips a stage or goes back, and none is executed without a     *)
(* vote that passed, a queueing and the notice.                            *)
(***************************************************************************)
THEOREM GovernanceImplementsLife == Spec => ImplementsProposalLife
<1>1. OutcomeInv /\ [Next]_vars => [Life!LifeNext]_(Life!lifeVars)
  BY LifeStep DEF Moves, Life!LifeNext
<1> QED
  BY <1>1, LifeStart, OutcomeInvariant, PTL DEF Spec, ImplementsProposalLife, Life!LifeSpec

-----------------------------------------------------------------------------
(***************************************************************************)
(* Votes and supply: the votes cast on a proposal are those that its       *)
(* voters had when the vote began, and these were covered by the supply.   *)
(***************************************************************************)
Cast(votes) == votes["Against"] + votes["For"] + votes["Abstain"]

BallotTypeOK ==
    /\ proposalVotes \in [Proposals -> [VoteType -> Nat]]
    /\ hasVoted \in [Proposals -> SUBSET Holders]

\* Votes are cast after the vote began.
Begun(p) == hasVoted[p] # {} => proposals[p].voteStart # 0 /\ proposals[p].voteStart < blockNumber

\* What was cast is what the voters had.
CastExactly(votes, voters, had) == Cast(votes) = SumOver(had, voters)

BallotsExact ==
    \A p \in Proposals :
        CastExactly(proposalVotes[p], hasVoted[p],
                    VotesIn(checkpoints, proposals[p].voteStart))

BallotInv ==
    /\ OutcomeInv
    /\ CoveredInv
    /\ BallotTypeOK
    /\ \A p \in Proposals : Begun(p)
    /\ BallotsExact

LEMMA BallotInit == Init => BallotInv
<1> SUFFICES ASSUME Init PROVE BallotInv
  OBVIOUS
<1>1. OutcomeInv /\ CoveredInv
  BY OutcomeInit, CoveredInit DEF Init
<1>2. BallotTypeOK /\ \A p \in Proposals : Begun(p)
  BY DEF Init, GovernorInit, BallotTypeOK, Begun
<1>3. ASSUME NEW p \in Proposals, NEW had
      PROVE  CastExactly(proposalVotes[p], hasVoted[p], had)
  <2>1. Cast(proposalVotes[p]) = 0 /\ hasVoted[p] = {}
    BY DEF Init, GovernorInit, VoteType, Cast
  <2> QED
    BY <2>1, SumEmpty DEF CastExactly
<1> QED
  BY <1>1, <1>2, <1>3 DEF BallotInv, BallotsExact

LEMMA NextIsTokenOrBlock == [Next]_vars => [TokenOrBlock]_<<tokenVars, clockVars>>
BY DEF Next, vars, TokenOrBlock, Propose, CastVote, Queue, ExecuteProposal,
       ExecuteOperation, CancelByRole, MineBlock

\* The votes of blocks before this one.
VotesKept ==
    /\ blockNumber \in Nat
    /\ blockNumber' >= blockNumber /\ blockNumber' \in Nat
    /\ \A b \in 0..(blockNumber - 1) :
          VotesIn(checkpoints', b) = VotesIn(checkpoints, b)

LEMMA NextKeepsVotes == BallotInv /\ [Next]_vars => VotesKept
<1> SUFFICES ASSUME BallotInv, [Next]_vars PROVE VotesKept
  OBVIOUS
<1>1. /\ blockNumber \in Nat
      /\ blockNumber' \in {blockNumber, blockNumber + 1}
  BY NextKeepsPast DEF BallotInv, OutcomeInv, PastInv, PastKept
<1>2. \A a \in Holders : PastStep(checkpoints[a], checkpoints'[a])
  BY NextIsTokenOrBlock, TokenStep DEF BallotInv, OutcomeInv
<1>3. ASSUME NEW b \in 0..(blockNumber - 1)
      PROVE  VotesIn(checkpoints', b) = VotesIn(checkpoints, b)
  <2>0. \A m \in Nat : \A n \in {m, m + 1} : \A k \in 0..(m - 1) :
           k \in 0..(n - 1) /\ k < m
    OBVIOUS
  <2>1. b \in 0..(blockNumber' - 1) /\ b < blockNumber
    BY <1>1, <2>0
  <2>2. \A a \in Holders : ValueAt(checkpoints'[a], b) = ValueAt(checkpoints[a], b)
    BY <1>2, <2>1 DEF PastStep
  <2> QED
    BY <2>2 DEF VotesIn
<1> QED
  BY <1>1, <1>3 DEF VotesKept

\* A proposal that was made is not made again.
StartsKept ==
    \A p \in Proposals :
        proposals[p].voteStart # 0 => proposals'[p].voteStart = proposals[p].voteStart

LEMMA NextKeepsStarts == OutcomeInv /\ [Next]_vars => StartsKept
<1> SUFFICES ASSUME OutcomeInv, [Next]_vars PROVE StartsKept
  OBVIOUS
<1>0. proposals \in [Proposals -> [voteStart : Nat, voteEnd : Nat, executed : BOOLEAN]]
  BY DEF OutcomeInv, ProposalsOK
<1>1. ASSUME NEW p \in Proposals, NEW a \in Holders, Propose(a, p) PROVE StartsKept
  BY <1>0, <1>1 DEF Propose, StartsKept
<1>2. ASSUME NEW p \in Proposals, ExecuteProposal(p) PROVE StartsKept
  BY <1>0, <1>2 DEF ExecuteProposal, StartsKept
<1>3. ASSUME UNCHANGED proposals PROVE StartsKept
  BY <1>3 DEF StartsKept
<1>4. ASSUME NEW p \in Proposals,
             \/ \E a \in Holders, s \in VoteType : CastVote(a, p, s)
             \/ Queue(p)
             \/ ExecuteOperation(p)
             \/ CancelByRole(p)
      PROVE  StartsKept
  BY <1>3, <1>4 DEF CastVote, Queue, ExecuteOperation, CancelByRole, governorVars
<1>5. CASE \/ TokenOperation /\ UNCHANGED <<timelockVars, governorVars>>
           \/ MineBlock
           \/ UNCHANGED vars
  BY <1>3, <1>5 DEF MineBlock, vars, governorVars
<1> QED
  BY <1>1, <1>2, <1>4, <1>5 DEF Next

\* What holds of one proposal's ballot after a step.
BallotAfter(p) ==
    /\ hasVoted'[p] # {} => proposals'[p].voteStart # 0 /\ proposals'[p].voteStart < blockNumber'
    /\ CastExactly(proposalVotes'[p], hasVoted'[p],
                   VotesIn(checkpoints', proposals'[p].voteStart))

LEMMA BallotSame ==
    ASSUME BallotInv, VotesKept, StartsKept, NEW p \in Proposals,
           proposalVotes'[p] = proposalVotes[p], hasVoted'[p] = hasVoted[p]
    PROVE  BallotAfter(p)
<1>1. /\ Begun(p)
      /\ CastExactly(proposalVotes[p], hasVoted[p],
                     VotesIn(checkpoints, proposals[p].voteStart))
      /\ proposals[p].voteStart \in Nat
  BY DEF BallotInv, BallotsExact, OutcomeInv, ProposalsOK
<1>2. CASE hasVoted[p] = {}
  <2>1. Cast(proposalVotes[p]) = 0
    BY <1>1, <1>2, SumEmpty DEF CastExactly
  <2> QED
    BY <1>2, <2>1, SumEmpty DEF BallotAfter, CastExactly
<1>3. CASE hasVoted[p] # {}
  <2>1. /\ proposals[p].voteStart # 0
        /\ proposals[p].voteStart < blockNumber
        /\ proposals'[p].voteStart = proposals[p].voteStart
    BY <1>1, <1>3 DEF Begun, StartsKept
  <2>2. proposals[p].voteStart \in 0..(blockNumber - 1)
    BY <1>1, <2>1 DEF VotesKept
  <2>3. VotesIn(checkpoints', proposals'[p].voteStart) = VotesIn(checkpoints, proposals[p].voteStart)
    BY <2>1, <2>2 DEF VotesKept
  <2>4. proposals'[p].voteStart < blockNumber'
    BY <1>1, <2>1 DEF VotesKept
  <2> QED
    BY <1>1, <2>1, <2>3, <2>4 DEF BallotAfter
<1> QED
  BY <1>2, <1>3

\* One more vote, of whatever kind.
Gained(before, after, s, n) ==
    /\ before \in [VoteType -> Nat] /\ s \in VoteType /\ n \in Nat
    /\ after = [before EXCEPT ![s] = before[s] + n]

LEMMA CastGained ==
    ASSUME NEW before, NEW after, NEW s, NEW n, Gained(before, after, s, n)
    PROVE  /\ after \in [VoteType -> Nat]
           /\ Cast(after) = Cast(before) + n
BY DEF Gained, VoteType, Cast

LEMMA VoteCounted ==
    ASSUME BallotInv, VotesKept, StartsKept, NEW p \in Proposals, NEW a \in Holders,
           NEW s \in VoteType, CastVote(a, p, s)
    PROVE  BallotAfter(p) /\ BallotTypeOK'
<1> DEFINE start == proposals[p].voteStart
           had == VotesIn(checkpoints, start)
           voters == hasVoted[p] \cup {a}
<1>1. /\ start # 0 /\ start < blockNumber /\ a \notin hasVoted[p]
      /\ start \in 0..(blockNumber - 1)
      /\ hasVoted[p] \subseteq Holders
      /\ proposalVotes[p] \in [VoteType -> Nat]
      /\ blockNumber' = blockNumber
  <2>1. start \in Nat /\ blockNumber \in Nat
    BY DEF BallotInv, OutcomeInv, ProposalsOK, VotesKept
  <2>2. start # 0 /\ ~(start >= blockNumber)
    BY DEF CastVote, State
  <2>3. start < blockNumber /\ start \in 0..(blockNumber - 1)
    BY <2>1, <2>2
  <2> QED
    BY <2>2, <2>3 DEF CastVote, clockVars, BallotInv, BallotTypeOK
<1>2. \A x \in Holders : had[x] \in Nat
  BY <1>1 DEF BallotInv, CoveredInv, CoveredAt
<1>3. /\ hasVoted' = [hasVoted EXCEPT ![p] = voters]
      /\ proposalVotes' = [proposalVotes EXCEPT ![p] =
                              [proposalVotes[p] EXCEPT ![s] = proposalVotes[p][s] + had[a]]]
      /\ proposals' = proposals /\ checkpoints' = checkpoints
  BY DEF CastVote, PastVotes, VotesIn, tokenVars
<1>4. CastExactly(proposalVotes[p], hasVoted[p], had)
  BY DEF BallotInv, BallotsExact
<1>5. Amounting(had, voters) /\ voters \ {a} = hasVoted[p] /\ a \in voters
      /\ voters \subseteq Holders
  BY <1>1, <1>2, HoldersAssumption, FS_Subset DEF Amounting
<1> HIDE DEF had, voters, start
<1>6. SumOver(had, voters) = SumOver(had, hasVoted[p]) + had[a]
  BY <1>5, SumSplit
<1>7. proposalVotes'[p] = [proposalVotes[p] EXCEPT ![s] = proposalVotes[p][s] + had[a]]
      /\ hasVoted'[p] = voters
  BY <1>3 DEF BallotInv, BallotTypeOK
<1>8. Gained(proposalVotes[p], proposalVotes'[p], s, had[a])
  BY <1>1, <1>2, <1>7 DEF Gained
<1>9. /\ proposalVotes'[p] \in [VoteType -> Nat]
      /\ Cast(proposalVotes'[p]) = Cast(proposalVotes[p]) + had[a]
  BY <1>8, CastGained
<1>10. CastExactly(proposalVotes'[p], hasVoted'[p], had)
  BY <1>4, <1>6, <1>7, <1>9 DEF CastExactly
<1>11. VotesIn(checkpoints', proposals'[p].voteStart) = had
  BY <1>3 DEF had, start
<1>12. BallotAfter(p)
  BY <1>1, <1>3, <1>10, <1>11 DEF BallotAfter, start
<1>13. BallotTypeOK'
  <2>1. proposalVotes' \in [Proposals -> [VoteType -> Nat]]
    BY <1>3, <1>7, <1>9 DEF BallotInv, BallotTypeOK
  <2>2. hasVoted' \in [Proposals -> SUBSET Holders]
    BY <1>3, <1>5 DEF BallotInv, BallotTypeOK
  <2> QED
    BY <2>1, <2>2 DEF BallotTypeOK
<1> QED
  BY <1>12, <1>13

LEMMA BallotStep == BallotInv /\ [Next]_vars => BallotInv'
<1> SUFFICES ASSUME BallotInv, [Next]_vars PROVE BallotInv'
  OBVIOUS
<1>0. OutcomeInv' /\ CoveredInv' /\ VotesKept /\ StartsKept
  BY OutcomeStep, CoveredStep, NextIsTokenOrBlock, NextKeepsVotes, NextKeepsStarts
  DEF BallotInv
<1>1. SUFFICES BallotTypeOK' /\ \A p \in Proposals : BallotAfter(p)
  BY <1>0 DEF BallotInv, Begun, BallotsExact, BallotAfter
<1>2. ASSUME UNCHANGED ballotVars
      PROVE  BallotTypeOK' /\ \A p \in Proposals : BallotAfter(p)
  <2>1. UNCHANGED <<proposalVotes, hasVoted>>
    BY <1>2 DEF ballotVars
  <2>2. BallotTypeOK'
    BY <2>1 DEF BallotInv, BallotTypeOK
  <2> QED
    BY <1>0, <2>1, <2>2, BallotSame
<1>3. ASSUME NEW p \in Proposals, NEW a \in Holders, NEW s \in VoteType, CastVote(a, p, s)
      PROVE  BallotTypeOK' /\ \A q \in Proposals : BallotAfter(q)
  <2>1. BallotAfter(p) /\ BallotTypeOK'
    BY <1>0, <1>3, VoteCounted
  <2>2. \A q \in Proposals : q # p =>
           proposalVotes'[q] = proposalVotes[q] /\ hasVoted'[q] = hasVoted[q]
    BY <1>3 DEF CastVote
  <2> QED
    BY <1>0, <2>1, <2>2, BallotSame
<1>4. ASSUME NEW p \in Proposals,
             \/ \E a \in Holders : Propose(a, p)
             \/ Queue(p)
             \/ ExecuteProposal(p)
             \/ ExecuteOperation(p)
             \/ CancelByRole(p)
      PROVE  UNCHANGED ballotVars
  BY <1>4 DEF Propose, Queue, ExecuteProposal, ExecuteOperation, CancelByRole,
              governorVars, ballotVars
<1>5. CASE \/ TokenOperation /\ UNCHANGED <<timelockVars, governorVars>>
           \/ MineBlock
           \/ UNCHANGED vars
  BY <1>2, <1>5 DEF MineBlock, vars, governorVars, ballotVars
<1> QED
  BY <1>2, <1>3, <1>4, <1>5 DEF Next

LEMMA BallotsBacked == BallotInv => VotesBackedBySupply
<1> SUFFICES ASSUME BallotInv, NEW p \in Proposals, hasVoted[p] # {}
             PROVE  Cast(proposalVotes[p]) <= PastTotalSupply(proposals[p].voteStart)
  BY DEF VotesBackedBySupply, Cast
<1> DEFINE start == proposals[p].voteStart
           had == VotesIn(checkpoints, start)
<1>1. start \in 0..(blockNumber - 1)
  <2>1. start \in Nat /\ blockNumber \in Nat /\ start < blockNumber
    BY DEF BallotInv, Begun, OutcomeInv, PastInv, ProposalsOK
  <2> QED
    BY <2>1
<1>2. CoveredAt(had, PastTotalSupply(start))
  BY <1>1 DEF BallotInv, CoveredInv
<1>3. CastExactly(proposalVotes[p], hasVoted[p], had) /\ hasVoted[p] \subseteq Holders
  BY DEF BallotInv, BallotsExact, BallotTypeOK
<1> HIDE DEF had, start
<1>4. Amounting(had, Holders)
  BY <1>2, HoldersAssumption DEF CoveredAt, Amounting
<1>5. SumOver(had, hasVoted[p]) <= SumOver(had, Holders)
      /\ SumOver(had, hasVoted[p]) \in Nat /\ SumOver(had, Holders) \in Nat
  BY <1>3, <1>4, SumMonotone, SumFinite, AmountingSubset
<1> QED
  BY <1>2, <1>3, <1>5 DEF CoveredAt, CastExactly, start

(***************************************************************************)
(* For any number of voters, tokens and proposals: no vote is counted that *)
(* the supply did not cover when the vote began.                           *)
(***************************************************************************)
THEOREM VotesAreBacked == Spec => []VotesBackedBySupply
<1> QED
  BY BallotInit, BallotStep, BallotsBacked, PTL DEF Spec
=============================================================================
