---------------------------- MODULE MoneyProofs ----------------------------
(***************************************************************************)
(* Proofs about the money of FundiAssetFactoryProtocol: what it holds of   *)
(* each token, what it owes, and what the owners of a factory have had.    *)
(***************************************************************************)
EXTENDS ProtocolProofs, NumberProofs

-----------------------------------------------------------------------------
(* Adding up amounts                                                       *)

\* new is m with d more for factory f.
Gains(m, f, d, new) ==
    /\ m \in [Factories -> Nat]
    /\ new \in [Factories -> Nat]
    /\ f \in Factories
    /\ d \in Nat
    /\ \A g \in Factories : new[g] = IF g = f THEN m[g] + d ELSE m[g]

LEMMA TotalFinite ==
    ASSUME NEW m, m \in [Factories -> Nat]
    PROVE  Amounting(m, Factories) /\ Total(m) \in Nat
BY ProtocolAssumption, SumFinite DEF Amounting, Total

\* More for one factory makes the total as much more.
LEMMA TotalGains ==
    ASSUME NEW m, NEW f, NEW d, NEW new, Gains(m, f, d, new)
    PROVE  /\ Total(m) \in Nat
           /\ Total(new) = Total(m) + d
<1>1. /\ m \in [Factories -> Nat] /\ f \in Factories /\ d \in Nat
      /\ new[f] = m[f] + d /\ m[f] \in Nat
      /\ \A g \in Factories \ {f} : new[g] = m[g]
  BY DEF Gains
<1>2. /\ Total(m) \in Nat /\ Total(new) \in Nat
      /\ Total(new) + m[f] = Total(m) + new[f]
  BY <1>1, TotalFinite, SumChange DEF Total
<1> QED
  BY <1>1, <1>2

\* A factory's share of a mint is no more than the fee and lies between that of
\* a flagged factory and that of a verified one.
LEMMA ShareRange ==
    ASSUME NEW minter
    PROVE  /\ PercentPayment(FundiMintFee, 1000) \in Nat
           /\ PercentPayment(FundiMintFee, 7000) \in Nat
           /\ FactoryShare(minter) \in Nat
           /\ PercentPayment(FundiMintFee, 1000) <= FactoryShare(minter)
           /\ FactoryShare(minter) <= PercentPayment(FundiMintFee, 7000)
           /\ FactoryShare(minter) <= FundiMintFee
           /\ PercentPayment(FundiMintFee, 3000) \in Nat
           /\ FactoryShare(minter) + PercentPayment(FundiMintFee, 3000) <= FundiMintFee
<1>1. \A pts \in {1000, 3000, 6000, 7000} :
         /\ (FundiMintFee * pts) \div 10000 \in Nat
         /\ (FundiMintFee * 1000) \div 10000 <= (FundiMintFee * pts) \div 10000
         /\ (FundiMintFee * pts) \div 10000 <= (FundiMintFee * 7000) \div 10000
         /\ (FundiMintFee * pts) \div 10000 + (FundiMintFee * 3000) \div 10000
               <= FundiMintFee
  BY ProtocolAssumption
<1>2. PICK pts \in {1000, 3000, 6000, 7000} :
         FactoryShare(minter) = (FundiMintFee * pts) \div 10000
  BY DEF FactoryShare, PercentPayment
<1>3. /\ (FundiMintFee * 1000) \div 10000 \in Nat
      /\ (FundiMintFee * 3000) \div 10000 \in Nat
      /\ (FundiMintFee * 7000) \div 10000 \in Nat
  BY <1>1
<1>4. FactoryShare(minter) + (FundiMintFee * 3000) \div 10000 <= FundiMintFee
  BY <1>1, <1>2
<1>5. /\ FactoryShare(minter) \in Nat
      /\ (FundiMintFee * 1000) \div 10000 <= FactoryShare(minter)
      /\ FactoryShare(minter) <= (FundiMintFee * 7000) \div 10000
  BY <1>1, <1>2
<1>6. ASSUME NEW a \in Nat, NEW b \in Nat, a + b <= FundiMintFee
      PROVE  a <= FundiMintFee
  BY <1>6, ProtocolAssumption
<1>7. FactoryShare(minter) <= FundiMintFee
  BY <1>3, <1>4, <1>5, <1>6
<1> QED
  BY <1>3, <1>4, <1>5, <1>7 DEF PercentPayment

-----------------------------------------------------------------------------
(* What is owed                                                            *)

\* The books from which Owed is added up, now and after the step.
Books == [info |-> s_assetMinterInfo, fees |-> s_factoryFeeProceeds,
          proceeds |-> s_factoryProceeds]
BooksNext == [info |-> s_assetMinterInfo', fees |-> s_factoryFeeProceeds',
              proceeds |-> s_factoryProceeds']

FeesOf(b, k) ==
    [f \in Factories |-> IF b.info[f].tokenAddress = k THEN b.fees[f] ELSE 0]
OwedOf(b, k) ==
    Total(FeesOf(b, k)) + (IF k = FundiToken THEN Total(b.proceeds) ELSE 0)

\* b is a with fee and share booked for factory f.
Credits(a, b, f, fee, share) ==
    /\ a.fees \in [Factories -> Nat] /\ a.proceeds \in [Factories -> Nat]
    /\ b.fees \in [Factories -> Nat] /\ b.proceeds \in [Factories -> Nat]
    /\ f \in Factories /\ fee \in Nat /\ share \in Nat
    /\ \A g \in Factories :
          /\ a.info[g].tokenAddress = b.info[g].tokenAddress
          /\ b.fees[g] = IF g = f THEN a.fees[g] + fee ELSE a.fees[g]
          /\ b.proceeds[g] = IF g = f THEN a.proceeds[g] + share ELSE a.proceeds[g]

LEMMA OwedIs ==
    ASSUME NEW k
    PROVE  Owed(k) = OwedOf(Books, k) /\ Owed(k)' = OwedOf(BooksNext, k)
<1>1. Owed(k) = OwedOf(Books, k)
  BY DEF Books, OwedOf, Owed, FeesIn, FeesOf
<1>2. Owed(k)' = OwedOf(BooksNext, k)
  BY DEF BooksNext, OwedOf, Owed, FeesIn, FeesOf, Total, SumOver, Units
<1> QED
  BY <1>1, <1>2

\* An amount of one token, as an amount of token k.
AsToken(k, token, amount) == IF token = k THEN amount ELSE 0

\* Booking a fee in token k and a share raises what is owed by as much.
LEMMA OwedCredits ==
    ASSUME NEW a, NEW b, NEW f, NEW fee, NEW share, NEW k,
           Credits(a, b, f, fee, share)
    PROVE  /\ OwedOf(a, k) \in Nat
           /\ OwedOf(b, k) = OwedOf(a, k) + AsToken(k, a.info[f].tokenAddress, fee)
                                          + AsToken(k, FundiToken, share)
<1> DEFINE d == AsToken(k, a.info[f].tokenAddress, fee)
<1>1. d \in Nat /\ share \in Nat
  BY DEF Credits, AsToken
<1>2. Gains(FeesOf(a, k), f, d, FeesOf(b, k))
  BY DEF Gains, Credits, FeesOf, AsToken
<1>3. Gains(a.proceeds, f, share, b.proceeds)
  BY DEF Gains, Credits
<1>4. /\ Total(FeesOf(a, k)) \in Nat
      /\ Total(FeesOf(b, k)) = Total(FeesOf(a, k)) + d
  <2> HIDE DEF d
  <2> QED
    BY <1>2, TotalGains
<1>5. /\ Total(a.proceeds) \in Nat
      /\ Total(b.proceeds) = Total(a.proceeds) + share
  BY <1>3, TotalGains
<1>6. /\ OwedOf(a, k) \in Nat
      /\ OwedOf(b, k) = OwedOf(a, k) + d
                          + AsToken(k, FundiToken, share)
  <2> HIDE DEF d
  <2> QED
    BY <1>1, <1>4, <1>5 DEF OwedOf, AsToken
<1> QED
  BY <1>6

\* What is owed stays the same when proceeds and fees do and no factory that is
\* owed fees changes the token of its fee.
LEMMA OwedSame ==
    ASSUME NEW k, TypeOK,
           UNCHANGED <<s_factoryProceeds, s_factoryFeeProceeds>>,
           \A f \in Factories :
              \/ s_factoryFeeProceeds[f] = 0
              \/ s_assetMinterInfo'[f].tokenAddress = s_assetMinterInfo[f].tokenAddress
    PROVE  OwedOf(Books, k) \in Nat /\ OwedOf(BooksNext, k) = OwedOf(Books, k)
<1>1. FeesOf(BooksNext, k) = FeesOf(Books, k)
  BY DEF FeesOf, Books, BooksNext
<1>2. OwedOf(BooksNext, k) = OwedOf(Books, k)
  BY <1>1 DEF OwedOf, Books, BooksNext
<1>3. /\ FeesOf(Books, k) \in [Factories -> Nat]
      /\ Books.proceeds \in [Factories -> Nat]
  BY DEF TypeOK, FeesOf, Books
<1>4. Total(FeesOf(Books, k)) \in Nat /\ Total(Books.proceeds) \in Nat
  BY <1>3, TotalFinite
<1> QED
  BY <1>2, <1>4 DEF OwedOf

-----------------------------------------------------------------------------
(* The protocol can pay                                                    *)

SolvencyInv == StructInv /\ Solvent

\* What the step earns the protocol of token k, after the factory's share.
Income(k) ==
    IF k # FundiToken \/ frame # NoFrame \/ frame' = NoFrame THEN 0
    ELSE IF frame'.kind = "factory" THEN FactoryFee
         ELSE PercentPayment(FundiMintFee, 3000)

\* A step that leaves the books, the suspended call and what is held alone.
LEMMA SolventSame ==
    ASSUME TypeOK, TypeOK', NEW k \in FeeTokens, NEW r \in Nat,
           Owed(k) + Taken(k) + r <= held[k],
           UNCHANGED <<frame, s_factoryProceeds, s_factoryFeeProceeds, held>>,
           \A f \in Factories :
              s_assetMinterInfo'[f].tokenAddress = s_assetMinterInfo[f].tokenAddress
    PROVE  Owed(k)' + Taken(k)' + r <= held'[k]
<1>1. Taken(k)' = Taken(k)
  BY DEF Taken, FactoryShare
<1>2. Owed(k)' = Owed(k)
  BY OwedIs, OwedSame
<1> QED
  BY <1>1, <1>2

\* Before a mint nothing is taken in, and after it neither.
LEMMA TakenNothing ==
    ASSUME NEW k
    PROVE  /\ frame = NoFrame => Taken(k) = 0
           /\ frame' = NoFrame => Taken(k)' = 0
           /\ frame.kind # "asset" => Taken(k) = 0
           /\ frame'.kind # "asset" => Taken(k)' = 0
BY DEF Taken

LEMMA SolventMint ==
    ASSUME StructInv, MintStep, NEW k \in FeeTokens, NEW r \in Nat,
           Owed(k) + Taken(k) + r <= held[k]
    PROVE  Owed(k)' + Taken(k)' + r + Income(k) <= held'[k]
<1>0. /\ TypeOK /\ StructInv /\ TypeOK'
      /\ SuspendedCopyCurrent /\ UnregisteredHasNoHistory
  BY StructInvMint DEF StructInv, TypeInv
<1>1. /\ Owed(k) = OwedOf(Books, k)
      /\ Owed(k)' = OwedOf(BooksNext, k)
      /\ held \in [FeeTokens -> Nat] /\ held[k] \in Nat
      /\ Owed(k) + Taken(k) + r <= held[k]
  BY <1>0, OwedIs DEF TypeOK
<1>2. ASSUME NEW sender \in Accounts, NEW f \in Factories,
             NEW token \in FeeTokens, NEW fee \in MintFees,
             MintFactoryKey(sender, f, token, fee)
      PROVE  Owed(k)' + Taken(k)' + r + Income(k) <= held'[k]
  <2>1. Owed(k) \in Nat /\ Owed(k)' = Owed(k)
    <3>1. UNCHANGED <<s_assetMinterInfo, s_factoryProceeds, s_factoryFeeProceeds>>
      BY <1>2 DEF MintFactoryKey
    <3> QED
      BY <1>0, <1>1, <3>1, OwedSame
  <2>2. Taken(k) = 0 /\ Taken(k)' = 0
    BY <1>2, TakenNothing DEF MintFactoryKey, NonReentrant
  <2>3. Income(k) = (IF k = FundiToken THEN FactoryFee ELSE 0)
    BY <1>2 DEF Income, MintFactoryKey, NonReentrant, NoFrame
  <2>4. held'[k] = held[k] + Income(k)
    BY <1>1, <1>2, <2>3, ProtocolAssumption DEF MintFactoryKey
  <2>5. Income(k) \in Nat
    BY <2>3, ProtocolAssumption
  <2> QED
    BY <1>1, <2>1, <2>2, <2>4, <2>5
<1>3. ASSUME EndMintFactoryKey
      PROVE  Owed(k)' + Taken(k)' + r + Income(k) <= held'[k]
  <2>1. frame \in Frame /\ frame # NoFrame
    BY <1>0, <1>3, FrameIsCall DEF EndMintFactoryKey, NoFrame
  <2>2. frame.factory \in Factories /\ s_factoryFeeProceeds[frame.factory] = 0
    BY <1>0, <1>3, <2>1
    DEF EndMintFactoryKey, SuspendedCopyCurrent, UnregisteredHasNoHistory, Frame
  <2>3. ASSUME NEW f \in Factories, f # frame.factory
        PROVE  s_assetMinterInfo'[f] = s_assetMinterInfo[f]
    BY <1>0, <1>3, <2>3 DEF EndMintFactoryKey, TypeOK
  <2>4. UNCHANGED <<s_factoryProceeds, s_factoryFeeProceeds, held>>
    BY <1>3 DEF EndMintFactoryKey, moneyVars
  <2>5. Owed(k) \in Nat /\ Owed(k)' = Owed(k)
    BY <1>0, <1>1, <2>2, <2>3, <2>4, OwedSame
  <2>6. Taken(k) = 0 /\ Taken(k)' = 0
    BY <1>3, TakenNothing DEF EndMintFactoryKey
  <2>7. Income(k) = 0
    BY <2>1 DEF Income
  <2> QED
    BY <1>1, <2>4, <2>5, <2>6, <2>7
<1>4. ASSUME NEW sender \in Accounts, NEW f \in Factories,
             NEW transferable \in BOOLEAN, NEW mintTo \in AccountsOrZero,
             MintAssetKey(sender, f, transferable, mintTo)
      PROVE  Owed(k)' + Taken(k)' + r + Income(k) <= held'[k]
  <2> DEFINE minter == s_assetMinterInfo[f]
             fee == minter.tokenMintFee
             feeIn == IF k = minter.tokenAddress THEN fee ELSE 0
             shareIn == IF k = FundiToken THEN FactoryShare(minter) ELSE 0
             fundiIn == IF k = FundiToken THEN FundiMintFee ELSE 0
             withFundi == [held EXCEPT ![FundiToken] = @ + FundiMintFee]
  <2>1. Owed(k) \in Nat /\ Owed(k)' = Owed(k)
    <3>1. UNCHANGED <<s_assetMinterInfo, s_factoryProceeds, s_factoryFeeProceeds>>
      BY <1>4 DEF MintAssetKey
    <3> QED
      BY <1>0, <1>1, <3>1, OwedSame
  <2>2. Taken(k) = 0 /\ Taken(k)' = feeIn + shareIn
    <3>1. frame = NoFrame /\ frame' # NoFrame /\ frame'.kind = "asset"
          /\ frame'.minter = minter
      BY <1>4 DEF MintAssetKey, NonReentrant, NoFrame
    <3>2. Taken(k) = 0
      BY <3>1, TakenNothing
    <3>3. Taken(k)' = feeIn + shareIn
      BY <3>1 DEF Taken, FactoryShare
    <3> QED
      BY <3>2, <3>3
  <2>3. fee \in Nat
    BY <1>0 DEF TypeOK, MinterInfo
  <2>4. /\ shareIn \in Nat /\ fundiIn \in Nat /\ Income(k) \in Nat
        /\ shareIn + Income(k) <= fundiIn
    <3>1. Income(k) = (IF k = FundiToken THEN PercentPayment(FundiMintFee, 3000) ELSE 0)
      BY <1>4 DEF Income, MintAssetKey, NonReentrant, NoFrame
    <3> QED
      BY <3>1, ShareRange, ProtocolAssumption
  <2>5. withFundi \in [FeeTokens -> Nat] /\ withFundi[k] = held[k] + fundiIn
    BY <1>1, ProtocolAssumption
  <2>6. \/ fee = 0 /\ held' = withFundi
        \/ /\ Delivered(minter.tokenAddress, fee) = fee
           /\ held' = [withFundi EXCEPT ![minter.tokenAddress] = @ + fee]
    BY <1>4 DEF MintAssetKey, TakeMintFees
  <2> HIDE DEF withFundi
  <2>7. held'[k] = held[k] + fundiIn + feeIn
    <3> HIDE DEF fundiIn
    <3> QED
      BY <1>1, <2>3, <2>4, <2>5, <2>6
  <2>8. feeIn \in Nat
    BY <2>3
  <2> HIDE DEF minter, fee, feeIn, shareIn, fundiIn
  <2> QED
    BY <1>1, <2>1, <2>2, <2>4, <2>7, <2>8
<1>5. ASSUME EndMintAssetKey
      PROVE  Owed(k)' + Taken(k)' + r + Income(k) <= held'[k]
  <2> DEFINE f == frame.factory
             fee == frame.minter.tokenMintFee
             share == FactoryShare(frame.minter)
  <2>1. frame \in Frame /\ frame # NoFrame
    BY <1>0, <1>5, FrameIsCall DEF EndMintAssetKey, NoFrame
  <2>2. f \in Factories /\ fee \in Nat /\ share \in Nat
    BY <2>1, ShareRange DEF Frame, MinterInfo
  <2>3. frame.minter.tokenAddress = s_assetMinterInfo[f].tokenAddress
    BY <1>0, <1>5, <2>1 DEF EndMintAssetKey, SuspendedCopyCurrent
  <2>4. \A g \in Factories :
           s_assetMinterInfo'[g].tokenAddress = s_assetMinterInfo[g].tokenAddress
    BY <1>0, <1>5, <2>1, <2>3 DEF EndMintAssetKey, TypeOK, Frame, MinterInfo
  <2>5. /\ s_factoryProceeds' = [s_factoryProceeds EXCEPT ![f] = @ + share]
        /\ s_factoryFeeProceeds' = [s_factoryFeeProceeds EXCEPT ![f] = @ + fee]
        /\ held' = held /\ frame' = NoFrame
    BY <1>5 DEF EndMintAssetKey, UpdateProceeds
  <2>6. Taken(k) = (IF s_assetMinterInfo[f].tokenAddress = k THEN fee ELSE 0)
                   + (IF k = FundiToken THEN share ELSE 0)
    BY <1>5, <2>1, <2>3 DEF EndMintAssetKey, Taken
  <2> HIDE DEF f, fee, share
  <2>7. Credits(Books, BooksNext, f, fee, share)
    BY <1>0, <2>2, <2>4, <2>5 DEF Credits, Books, BooksNext, TypeOK
  <2>8. /\ Owed(k) \in Nat
        /\ Owed(k)' = Owed(k)
              + (IF s_assetMinterInfo[f].tokenAddress = k THEN fee ELSE 0)
              + (IF k = FundiToken THEN share ELSE 0)
    <3>1. /\ OwedOf(Books, k) \in Nat
          /\ OwedOf(BooksNext, k) = OwedOf(Books, k)
                + AsToken(k, Books.info[f].tokenAddress, fee)
                + AsToken(k, FundiToken, share)
      BY <2>7, OwedCredits
    <3>2. Books.info[f] = s_assetMinterInfo[f]
      BY DEF Books
    <3> QED
      BY <1>1, <3>1, <3>2 DEF AsToken
  <2>9. Taken(k)' = 0 /\ Income(k) = 0
    BY <2>1, <2>5, TakenNothing DEF Income
  <2> QED
    BY <1>1, <2>2, <2>5, <2>6, <2>8, <2>9
<1> QED
  BY <1>2, <1>3, <1>4, <1>5 DEF MintStep

LEMMA SolventWithdraw ==
    ASSUME StructInv, WithdrawStep, NEW k \in FeeTokens, NEW r \in Nat,
           Owed(k) + Taken(k) + r <= held[k]
    PROVE  Owed(k)' + Taken(k)' + r <= held'[k]
<1>0. TypeOK /\ StructInv /\ TypeOK'
  BY StructInvWithdraw DEF StructInv, TypeInv
<1>1. /\ Owed(k) = OwedOf(Books, k)
      /\ Owed(k)' = OwedOf(BooksNext, k)
      /\ held \in [FeeTokens -> Nat] /\ held[k] \in Nat
      /\ Owed(k) + Taken(k) + r <= held[k]
  BY <1>0, OwedIs DEF TypeOK
<1>2. frame = NoFrame /\ frame' = NoFrame
  BY DEF WithdrawStep, WithdrawFundiProceeds, WithdrawMintFeeProceeds, NonReentrant
<1>3. Taken(k) = 0 /\ Taken(k)' = 0
  BY <1>2, TakenNothing
<1>4. ASSUME NEW sender \in Accounts, NEW f \in Factories,
             NEW amount \in Amounts, WithdrawFundiProceeds(sender, f, amount)
      PROVE  Owed(k)' + Taken(k)' + r <= held'[k]
  <2>1. amount \in Nat
    BY ProtocolAssumption
  <2>2. Credits(BooksNext, Books, f, 0, amount)
    BY <1>0, <1>4, <2>1
    DEF WithdrawFundiProceeds, Credits, Books, BooksNext, TypeOK
  <2>3. /\ Owed(k)' \in Nat
        /\ Owed(k) = Owed(k)' + (IF k = FundiToken THEN amount ELSE 0)
    <3>1. /\ OwedOf(BooksNext, k) \in Nat
          /\ OwedOf(Books, k) = OwedOf(BooksNext, k)
                + AsToken(k, BooksNext.info[f].tokenAddress, 0)
                + AsToken(k, FundiToken, amount)
      BY <2>2, OwedCredits
    <3> QED
      BY <1>1, <2>1, <3>1 DEF AsToken
  <2>4. held'[k] = held[k] - (IF k = FundiToken THEN amount ELSE 0)
    BY <1>1, <1>4, <2>1, ProtocolAssumption DEF WithdrawFundiProceeds
  <2> QED
    BY <1>1, <1>3, <2>1, <2>3, <2>4
<1>5. ASSUME NEW sender \in Accounts, NEW f \in Factories,
             NEW amount \in Amounts, NEW paid \in BOOLEAN,
             WithdrawMintFeeProceeds(sender, f, amount, paid)
      PROVE  Owed(k)' + Taken(k)' + r <= held'[k]
  <2> DEFINE token == s_assetMinterInfo[f].tokenAddress
             moved == IF paid THEN amount ELSE 0
  <2>1. amount \in Nat /\ moved \in Nat /\ moved <= amount
    BY ProtocolAssumption
  <2>2. Credits(BooksNext, Books, f, amount, 0)
    BY <1>0, <1>5, <2>1
    DEF WithdrawMintFeeProceeds, Credits, Books, BooksNext, TypeOK
  <2>3. /\ Owed(k)' \in Nat
        /\ Owed(k) = Owed(k)' + (IF token = k THEN amount ELSE 0)
    <3>1. /\ OwedOf(BooksNext, k) \in Nat
          /\ OwedOf(Books, k) = OwedOf(BooksNext, k)
                + AsToken(k, BooksNext.info[f].tokenAddress, amount)
                + AsToken(k, FundiToken, 0)
      BY <2>2, OwedCredits
    <3>2. BooksNext.info[f].tokenAddress = token
      BY <1>5 DEF BooksNext, WithdrawMintFeeProceeds
    <3> HIDE DEF token
    <3> QED
      BY <1>1, <2>1, <3>1, <3>2 DEF AsToken
  <2>4. held' = [held EXCEPT ![token] = @ - moved]
    BY <1>5 DEF WithdrawMintFeeProceeds
  <2> HIDE DEF token, moved
  <2>5. held'[k] = held[k] - (IF token = k THEN moved ELSE 0)
    BY <1>1, <2>1, <2>4
  <2> QED
    BY <1>1, <1>3, <2>1, <2>3, <2>5
<1> QED
  BY <1>4, <1>5 DEF WithdrawStep

LEMMA SolvencyInvInit == Init => SolvencyInv
<1> SUFFICES ASSUME Init
             PROVE  SolvencyInv
  OBVIOUS
<1>1. StructInv /\ TypeOK
  BY StructInvInit DEF StructInv, TypeInv
<1>2. ASSUME NEW m, \A f \in Factories : m[f] = 0
      PROVE  Total(m) = 0
  BY <1>2, SumZero DEF Total
<1>3. ASSUME NEW k \in FeeTokens
      PROVE  Owed(k) + Taken(k) <= held[k]
  <2>1. \A f \in Factories : FeesIn(k)[f] = 0 /\ s_factoryProceeds[f] = 0
    BY DEF FeesIn, Init
  <2>2. Total(FeesIn(k)) = 0 /\ Total(s_factoryProceeds) = 0
    BY <1>2, <2>1
  <2>3. Taken(k) = 0 /\ held[k] = 0
    BY TakenNothing DEF Init
  <2> QED
    BY <2>2, <2>3 DEF Owed
<1> QED
  BY <1>1, <1>3 DEF SolvencyInv, Solvent

\* Whatever is reserved of token k besides what is owed stays reserved.
LEMMA ReserveKept ==
    ASSUME StructInv, [Next]_vars, NEW k \in FeeTokens, NEW r \in Nat,
           Owed(k) + Taken(k) + r <= held[k]
    PROVE  \/ MintStep /\ Owed(k)' + Taken(k)' + r + Income(k) <= held'[k]
           \/ ~MintStep /\ Owed(k)' + Taken(k)' + r <= held'[k]
<1>0. StructInv' /\ TypeInv /\ TypeOK /\ TypeOK'
  BY StructInvStep DEF StructInv, TypeInv
<1>1. CASE MintStep
  BY <1>1, SolventMint
<1>2. CASE StatusStep
  <2>1. UNCHANGED <<frame, s_factoryProceeds, s_factoryFeeProceeds, held>>
    BY <1>0, <1>2, StatusSteps DEF moneyVars
  <2>2. \A f \in Factories :
          s_assetMinterInfo'[f].tokenAddress = s_assetMinterInfo[f].tokenAddress
    BY <1>0, <1>2, StatusSteps
  <2>3. Owed(k)' + Taken(k)' + r <= held'[k]
    BY <1>0, <2>1, <2>2, SolventSame
  <2> QED
    BY <1>1, <2>3
<1>3. CASE LedgerStep \/ FactoryStep \/ UNCHANGED vars
  <2>1. UNCHANGED <<s_assetMinterInfo, frame, s_factoryProceeds,
                    s_factoryFeeProceeds, held>>
    BY <1>3, OtherSteps DEF moneyVars
  <2>2. Owed(k)' + Taken(k)' + r <= held'[k]
    BY <1>0, <2>1, SolventSame
  <2> QED
    BY <1>1, <2>2
<1>4. CASE WithdrawStep
  BY <1>1, <1>4, SolventWithdraw
<1> QED
  BY <1>1, <1>2, <1>3, <1>4 DEF Next

BooksAreNat == \A k \in FeeTokens : Owed(k) \in Nat /\ Taken(k) \in Nat

LEMMA BooksNat == TypeOK => BooksAreNat
<1> SUFFICES ASSUME TypeOK, NEW k \in FeeTokens
             PROVE  Owed(k) \in Nat /\ Taken(k) \in Nat
  BY DEF BooksAreNat
<1>1. /\ FeesIn(k) \in [Factories -> Nat] /\ s_factoryProceeds \in [Factories -> Nat]
  BY DEF TypeOK, FeesIn
<1>2. Owed(k) \in Nat
  BY <1>1, TotalFinite DEF Owed
<1>3. frame # NoFrame => frame.minter.tokenMintFee \in Nat
  BY FrameIsCall DEF Frame, MinterInfo
<1>4. FactoryShare(frame.minter) \in Nat
  BY ShareRange
<1> QED
  BY <1>2, <1>3, <1>4 DEF Taken

LEMMA BooksNatNext == TypeOK' => BooksAreNat'
BY BooksNat, PTL

LEMMA IncomeNat == ASSUME NEW k PROVE Income(k) \in Nat
BY ShareRange, ProtocolAssumption DEF Income

LEMMA SolvencyInvStep == SolvencyInv /\ [Next]_vars => SolvencyInv'
<1> SUFFICES ASSUME SolvencyInv, [Next]_vars
             PROVE  SolvencyInv'
  OBVIOUS
<1>0. StructInv /\ StructInv' /\ TypeOK /\ TypeOK' /\ Solvent
  BY StructInvStep DEF SolvencyInv, StructInv, TypeInv
<1>1. ASSUME NEW k \in FeeTokens
      PROVE  Owed(k)' + Taken(k)' <= held'[k]
  <2>1. /\ Owed(k) + Taken(k) + 0 <= held[k]
        /\ Owed(k)' \in Nat /\ Taken(k)' \in Nat /\ held'[k] \in Nat
    <3>1. Owed(k) + Taken(k) <= held[k] /\ Owed(k) \in Nat /\ Taken(k) \in Nat
      BY <1>0, BooksNat DEF Solvent, BooksAreNat
    <3>2. Owed(k)' \in Nat /\ Taken(k)' \in Nat
      BY <1>0, BooksNatNext DEF BooksAreNat
    <3> QED
      BY <1>0, <3>1, <3>2 DEF TypeOK
  <2>2. \/ Owed(k)' + Taken(k)' + 0 + Income(k) <= held'[k]
        \/ Owed(k)' + Taken(k)' + 0 <= held'[k]
    BY <1>0, <2>1, ReserveKept
  <2> QED
    BY <2>1, <2>2, IncomeNat
<1> QED
  BY <1>0, <1>1 DEF SolvencyInv, Solvent

\* In each token the protocol holds what it owes and what it has taken in for
\* the key being minted, for any number of factories, tokens that tax their
\* transfers and tokens whose transfers fail without saying so.
THEOREM ProtocolSolvent == Spec => []Solvent
<1>1. SolvencyInv => Solvent
  BY DEF SolvencyInv
<1> QED
  BY <1>1, SolvencyInvInit, SolvencyInvStep, PTL DEF Spec

-----------------------------------------------------------------------------
(* No withdrawal within the books is refused for lack of funds             *)

\* Registered factories, and the one being registered, have a token for fees.
TokensNamed ==
    /\ \A f \in Factories :
          Registered(f) => s_assetMinterInfo[f].tokenAddress \in FeeTokens
    /\ frame # NoFrame => frame.minter.tokenAddress \in FeeTokens

LEMMA TokensNamedInit == Init => TokensNamed
BY DEF Init, TokensNamed, Registered, NoMinter

LEMMA TokensNamedStep == ASSUME StructInv, TokensNamed, [Next]_vars PROVE TokensNamed'
<1>0. /\ TypeInv /\ TypeOK /\ s_assetMinterInfo \in [Factories -> MinterInfo]
      /\ SuspendedCopyCurrent
  BY DEF StructInv, TypeInv, TypeOK
<1>1. CASE MintStep
  <2>1. ASSUME NEW sender \in Accounts, NEW f \in Factories,
               NEW k \in FeeTokens, NEW fee \in MintFees,
               MintFactoryKey(sender, f, k, fee)
        PROVE  TokensNamed'
    BY <2>1 DEF MintFactoryKey, TokensNamed, Registered, NoMinter
  <2>2. ASSUME NEW sender \in Accounts, NEW f \in Factories,
               NEW transferable \in BOOLEAN, NEW mintTo \in AccountsOrZero,
               MintAssetKey(sender, f, transferable, mintTo)
        PROVE  TokensNamed'
    BY <2>2 DEF MintAssetKey, FactoryAcceptsMints, TokensNamed, Registered
  <2>3. ASSUME EndMintFactoryKey \/ EndMintAssetKey
        PROVE  TokensNamed'
    <3>1. /\ frame \in Frame /\ frame # NoFrame /\ frame' = NoFrame
          /\ frame.minter \in MinterInfo
      BY <1>0, <2>3, FrameIsCall
      DEF EndMintFactoryKey, EndMintAssetKey, NoFrame, Frame
    <3>2. PICK new :
             /\ s_assetMinterInfo' = [s_assetMinterInfo EXCEPT ![frame.factory] = new]
             /\ new.tokenAddress = frame.minter.tokenAddress
      BY <2>3, <3>1 DEF EndMintFactoryKey, EndMintAssetKey, MinterInfo
    <3>3. ASSUME NEW f \in Factories
          PROVE  \/ s_assetMinterInfo'[f] = s_assetMinterInfo[f]
                 \/ s_assetMinterInfo'[f].tokenAddress = frame.minter.tokenAddress
      BY <1>0, <3>2
    <3> QED
      BY <3>1, <3>3 DEF TokensNamed, Registered
  <2> QED
    BY <1>1, <2>1, <2>2, <2>3 DEF MintStep
<1>2. CASE WithdrawStep
  BY <1>2 DEF WithdrawStep, WithdrawFundiProceeds, WithdrawMintFeeProceeds,
              TokensNamed, Registered
<1>3. CASE StatusStep
  BY <1>0, <1>3, StatusSteps DEF TokensNamed, Registered
<1>4. CASE LedgerStep \/ FactoryStep \/ UNCHANGED vars
  BY <1>4, OtherSteps DEF TokensNamed, Registered
<1> QED
  BY <1>1, <1>2, <1>3, <1>4 DEF Next

\* What checkMinter lets a factory's owner withdraw, the protocol holds.
WithdrawalsCovered ==
    \A f \in Factories, amount \in Nat :
        /\ ProceedsAvailable(s_factoryProceeds[f], amount) =>
              amount <= held[FundiToken]
        /\ ProceedsAvailable(s_factoryFeeProceeds[f], amount) =>
              amount <= held[s_assetMinterInfo[f].tokenAddress]

LEMMA SolventCovers ==
    ASSUME SolvencyInv, TokensNamed
    PROVE  WithdrawalsCovered
<1>0. /\ TypeOK /\ StructInv /\ Solvent /\ UnregisteredHasNoHistory
      /\ FundiToken \in FeeTokens
      /\ s_factoryProceeds \in [Factories -> Nat]
      /\ s_factoryFeeProceeds \in [Factories -> Nat]
  BY ProtocolAssumption DEF SolvencyInv, StructInv, TypeInv, TypeOK
<1>1. ASSUME NEW k \in FeeTokens
      PROVE  /\ Total(FeesIn(k)) \in Nat /\ Total(s_factoryProceeds) \in Nat
             /\ held[k] \in Nat
             /\ Total(FeesIn(k)) <= held[k]
             /\ k = FundiToken => Total(s_factoryProceeds) <= held[k]
  <2>1. Total(FeesIn(k)) \in Nat /\ Total(s_factoryProceeds) \in Nat
    <3>1. FeesIn(k) \in [Factories -> Nat]
      BY <1>0 DEF FeesIn
    <3> QED
      BY <1>0, <3>1, TotalFinite
  <2>2. /\ Owed(k) + Taken(k) <= held[k]
        /\ Owed(k) \in Nat /\ Taken(k) \in Nat /\ held[k] \in Nat
    BY <1>0, BooksNat DEF Solvent, BooksAreNat, TypeOK
  <2>3. Owed(k) = Total(FeesIn(k))
                  + (IF k = FundiToken THEN Total(s_factoryProceeds) ELSE 0)
    BY DEF Owed
  <2> QED
    BY <2>1, <2>2, <2>3
<1>2. ASSUME NEW m, m \in [Factories -> Nat], NEW f \in Factories
      PROVE  m[f] <= Total(m)
  <2>1. Amounting(m, Factories) /\ m[f] \in Nat
    BY <1>2, TotalFinite
  <2>2. /\ SumOver(m, Factories \ {f}) \in Nat
        /\ SumOver(m, Factories) = SumOver(m, Factories \ {f}) + m[f]
    BY <2>1, SumSplit
  <2> QED
    BY <2>1, <2>2 DEF Total
<1>3. ASSUME NEW f \in Factories
      PROVE  s_factoryProceeds[f] <= held[FundiToken]
  <2>1. s_factoryProceeds[f] <= Total(s_factoryProceeds) /\ s_factoryProceeds[f] \in Nat
    BY <1>0, <1>2
  <2>2. Total(s_factoryProceeds) <= held[FundiToken]
        /\ Total(s_factoryProceeds) \in Nat /\ held[FundiToken] \in Nat
    BY <1>0, <1>1
  <2> QED
    BY <2>1, <2>2
<1>4. ASSUME NEW f \in Factories, s_factoryFeeProceeds[f] > 0
      PROVE  s_factoryFeeProceeds[f] <= held[s_assetMinterInfo[f].tokenAddress]
  <2>1. Registered(f)
    BY <1>0, <1>4 DEF UnregisteredHasNoHistory
  <2>2. PICK k \in FeeTokens : k = s_assetMinterInfo[f].tokenAddress
    BY <2>1 DEF TokensNamed
  <2>3. FeesIn(k) \in [Factories -> Nat] /\ FeesIn(k)[f] = s_factoryFeeProceeds[f]
    BY <1>0, <2>2 DEF FeesIn
  <2>4. s_factoryFeeProceeds[f] <= Total(FeesIn(k)) /\ s_factoryFeeProceeds[f] \in Nat
    BY <1>0, <1>2, <2>3
  <2>5. Total(FeesIn(k)) <= held[k] /\ Total(FeesIn(k)) \in Nat /\ held[k] \in Nat
    BY <1>1
  <2> QED
    BY <2>2, <2>4, <2>5
<1>5. ASSUME NEW f \in Factories, NEW amount \in Nat,
             ProceedsAvailable(s_factoryProceeds[f], amount)
      PROVE  amount <= held[FundiToken]
  <2>1. /\ amount <= s_factoryProceeds[f] /\ s_factoryProceeds[f] \in Nat
        /\ held[FundiToken] \in Nat
    BY <1>0, <1>1, <1>5 DEF ProceedsAvailable
  <2> QED
    BY <1>3, <2>1
<1>6. ASSUME NEW f \in Factories, NEW amount \in Nat,
             ProceedsAvailable(s_factoryFeeProceeds[f], amount)
      PROVE  amount <= held[s_assetMinterInfo[f].tokenAddress]
  <2>1. /\ s_factoryFeeProceeds[f] > 0
        /\ amount <= s_factoryFeeProceeds[f] /\ s_factoryFeeProceeds[f] \in Nat
    BY <1>0, <1>6 DEF ProceedsAvailable
  <2>2. Registered(f)
    BY <1>0, <2>1 DEF UnregisteredHasNoHistory
  <2>3. held[s_assetMinterInfo[f].tokenAddress] \in Nat
    BY <1>1, <2>2 DEF TokensNamed
  <2> QED
    BY <1>4, <2>1, <2>3
<1> QED
  BY <1>5, <1>6 DEF WithdrawalsCovered

\* A withdrawal that the books allow never fails because the protocol has paid
\* out, of that token, what another factory's owner has a right to.
THEOREM WithdrawalsAreCovered == Spec => []WithdrawalsCovered
<1>1. SolvencyInv /\ TokensNamed => WithdrawalsCovered
  BY SolventCovers
<1>2. SolvencyInv => StructInv
  BY DEF SolvencyInv
<1> QED
  BY <1>1, <1>2, SolvencyInvInit, SolvencyInvStep, TokensNamedInit, TokensNamedStep, PTL
  DEF Spec

-----------------------------------------------------------------------------
(* What the protocol keeps                                                 *)

LeastShare == PercentPayment(FundiMintFee, 3000)

\* What the protocol keeps of the mints that are done, and of the one that is
\* under way.
Kept == FactoryFee * s_assetMinterCounter + LeastShare * Total(MintCounts)
Pending ==
    IF frame = NoFrame THEN 0
    ELSE IF frame.kind = "factory" THEN FactoryFee ELSE LeastShare

ShareInv ==
    /\ StructInv
    /\ Owed(FundiToken) + Taken(FundiToken) + (Kept + Pending) <= held[FundiToken]

LEMMA PendingNat == Pending \in Nat
BY ShareRange, ProtocolAssumption DEF Pending, LeastShare

LEMMA KeptIs ==
    ASSUME TypeOK
    PROVE  /\ MintCounts \in [Factories -> Nat]
           /\ Total(MintCounts) \in Nat
           /\ Kept \in Nat
           /\ Kept' = FactoryFee * s_assetMinterCounter' + LeastShare * Total(MintCounts')
<1>1. MintCounts \in [Factories -> Nat]
  BY DEF TypeOK, MinterInfo, MintCounts
<1>2. Total(MintCounts) \in Nat
  BY <1>1, TotalFinite
<1>3. s_assetMinterCounter \in Nat /\ LeastShare \in Nat /\ FactoryFee \in Nat
  BY ShareRange, ProtocolAssumption DEF TypeOK, LeastShare
<1>4. \A a \in Nat, b \in Nat : a * b \in Nat
  OBVIOUS
<1>5. Kept \in Nat
  BY <1>2, <1>3, <1>4 DEF Kept
<1>6. Kept' = FactoryFee * s_assetMinterCounter' + LeastShare * Total(MintCounts')
  BY DEF Kept, Total, SumOver, Units
<1> QED
  BY <1>1, <1>2, <1>5, <1>6

CountsAreNat == MintCounts \in [Factories -> Nat]

LEMMA KeptTypes == TypeOK => CountsAreNat
BY KeptIs DEF CountsAreNat

LEMMA KeptTypesNext == TypeOK' => CountsAreNat'
BY KeptTypes, PTL

LEMMA OneMoreTimes ==
    ASSUME NEW c \in Nat, NEW n \in Nat
    PROVE  c * (n + 1) = c * n + c /\ c * n \in Nat
OBVIOUS

\* The end of a mint turns what was pending into what is kept; its begin makes
\* the protocol's part of the fee pending.
LEMMA KeptMint ==
    ASSUME StructInv, MintStep
    PROVE  Kept' + Pending' = Kept + Pending + Income(FundiToken)
<1>0. /\ StructInv /\ StructInv' /\ TypeOK /\ TypeOK'
      /\ SuspendedCopyCurrent /\ UnregisteredHasNoHistory
      /\ s_assetMinterCounter \in Nat /\ LeastShare \in Nat /\ FactoryFee \in Nat
      /\ s_assetMinterInfo \in [Factories -> MinterInfo]
  <2>1. /\ StructInv /\ StructInv' /\ TypeOK /\ TypeOK'
        /\ SuspendedCopyCurrent /\ UnregisteredHasNoHistory
    BY StructInvMint DEF StructInv, TypeInv
  <2>2. /\ s_assetMinterCounter \in Nat
        /\ s_assetMinterInfo \in [Factories -> MinterInfo]
    BY <2>1 DEF TypeOK
  <2>3. LeastShare \in Nat /\ FactoryFee \in Nat
    BY ShareRange, ProtocolAssumption DEF LeastShare
  <2> QED
    BY <2>1, <2>2, <2>3
<1>1. /\ MintCounts \in [Factories -> Nat] /\ Total(MintCounts) \in Nat
      /\ Kept \in Nat
      /\ Kept = FactoryFee * s_assetMinterCounter + LeastShare * Total(MintCounts)
      /\ Kept' = FactoryFee * s_assetMinterCounter' + LeastShare * Total(MintCounts')
  BY <1>0, KeptIs DEF Kept
<1>2. ASSUME UNCHANGED <<s_assetMinterCounter, s_assetMinterInfo>>, frame = NoFrame,
             frame' # NoFrame
      PROVE  Kept' + Pending' = Kept + Pending + Income(FundiToken)
  <2>1. Kept' = Kept
    BY <1>1, <1>2 DEF MintCounts
  <2>2. Pending = 0 /\ Pending' = Income(FundiToken)
    BY <1>2 DEF Pending, Income, LeastShare, PercentPayment
  <2>3. Income(FundiToken) \in Nat
    BY IncomeNat
  <2> QED
    BY <1>1, <2>1, <2>2, <2>3
<1>3. ASSUME NEW sender \in Accounts, NEW f \in Factories, NEW k \in FeeTokens,
             NEW fee \in MintFees, MintFactoryKey(sender, f, k, fee)
      PROVE  Kept' + Pending' = Kept + Pending + Income(FundiToken)
  BY <1>2, <1>3 DEF MintFactoryKey, NonReentrant, NoFrame, keyVars
<1>4. ASSUME NEW sender \in Accounts, NEW f \in Factories,
             NEW transferable \in BOOLEAN, NEW mintTo \in AccountsOrZero,
             MintAssetKey(sender, f, transferable, mintTo)
      PROVE  Kept' + Pending' = Kept + Pending + Income(FundiToken)
  BY <1>2, <1>4 DEF MintAssetKey, NonReentrant, NoFrame
<1>5. ASSUME EndMintFactoryKey
      PROVE  Kept' + Pending' = Kept + Pending + Income(FundiToken)
  <2> DEFINE struct == [frame.minter EXCEPT !.factoryNum = s_assetMinterCounter]
  <2>1. /\ frame \in Frame /\ frame # NoFrame /\ frame.kind = "factory"
        /\ frame' = NoFrame /\ frame.factory \in Factories
        /\ s_assetMinterInfo' = [s_assetMinterInfo EXCEPT ![frame.factory] = struct]
        /\ s_assetMinterCounter' = s_assetMinterCounter + 1
    BY <1>0, <1>5, FrameIsCall DEF EndMintFactoryKey, NoFrame, Frame
  <2>2. /\ frame.minter.mintCount = 0
        /\ s_assetMinterInfo[frame.factory].mintCount = 0
    BY <1>0, <2>1 DEF SuspendedCopyCurrent, UnregisteredHasNoHistory
  <2>3. struct.mintCount = 0
    BY <2>1, <2>2 DEF Frame, MinterInfo
  <2> HIDE DEF struct
  <2>4. MintCounts' = MintCounts
    BY <1>0, <2>1, <2>2, <2>3 DEF MintCounts
  <2>5. Pending = FactoryFee /\ Pending' = 0 /\ Income(FundiToken) = 0
    BY <2>1 DEF Pending, Income
  <2>6. FactoryFee * s_assetMinterCounter' = FactoryFee * s_assetMinterCounter + FactoryFee
    BY <1>0, <2>1, OneMoreTimes
  <2>7. /\ FactoryFee * s_assetMinterCounter \in Nat
        /\ LeastShare * Total(MintCounts) \in Nat
    BY <1>0, <1>1, OneMoreTimes
  <2> QED
    BY <1>0, <1>1, <2>4, <2>5, <2>6, <2>7
<1>6. ASSUME EndMintAssetKey
      PROVE  Kept' + Pending' = Kept + Pending + Income(FundiToken)
  <2> DEFINE f == frame.factory
             struct == [frame.minter EXCEPT !.mintCount = @ + 1]
  <2>1. /\ frame \in Frame /\ frame # NoFrame /\ frame.kind = "asset"
        /\ frame' = NoFrame /\ f \in Factories
        /\ s_assetMinterInfo' = [s_assetMinterInfo EXCEPT ![f] = struct]
        /\ UNCHANGED s_assetMinterCounter
    BY <1>0, <1>6, FrameIsCall DEF EndMintAssetKey, NoFrame, Frame
  <2>2. frame.minter.mintCount = s_assetMinterInfo[f].mintCount
    BY <1>0, <2>1 DEF SuspendedCopyCurrent
  <2>3. struct.mintCount = s_assetMinterInfo[f].mintCount + 1
    BY <2>1, <2>2 DEF Frame, MinterInfo
  <2> HIDE DEF struct, f
  <2>4. Gains(MintCounts, f, 1, MintCounts')
    <3>1. \A g \in Factories :
             MintCounts'[g] = IF g = f THEN MintCounts[g] + 1 ELSE MintCounts[g]
      BY <1>0, <2>1, <2>3 DEF MintCounts
    <3>2. MintCounts' \in [Factories -> Nat]
      BY <1>0, KeptTypesNext DEF CountsAreNat
    <3> QED
      BY <1>1, <2>1, <3>1, <3>2 DEF Gains
  <2>5. Total(MintCounts') = Total(MintCounts) + 1
    BY <2>4, TotalGains
  <2>6. Pending = LeastShare /\ Pending' = 0 /\ Income(FundiToken) = 0
    BY <2>1 DEF Pending, Income
  <2>7. LeastShare * Total(MintCounts') = LeastShare * Total(MintCounts) + LeastShare
    BY <1>0, <1>1, <2>5, OneMoreTimes
  <2>8. /\ FactoryFee * s_assetMinterCounter \in Nat
        /\ LeastShare * Total(MintCounts) \in Nat
    BY <1>0, <1>1, OneMoreTimes
  <2> QED
    BY <1>0, <1>1, <2>1, <2>6, <2>7, <2>8
<1> QED
  BY <1>3, <1>4, <1>5, <1>6 DEF MintStep

LEMMA KeptStays ==
    ASSUME TypeInv, [Next]_vars, ~MintStep
    PROVE  Kept' + Pending' = Kept + Pending
<1>0. TypeOK
  BY DEF TypeInv
<1>1. /\ UNCHANGED <<frame, s_assetMinterCounter>>
      /\ \A f \in Factories :
            s_assetMinterInfo'[f].mintCount = s_assetMinterInfo[f].mintCount
  <2>1. CASE WithdrawStep
    BY <2>1 DEF WithdrawStep, WithdrawFundiProceeds, WithdrawMintFeeProceeds, keyVars
  <2>2. CASE StatusStep
    <3>1. UNCHANGED s_assetMinterCounter
      BY <2>2 DEF StatusStep, SetAssetFactoryStatus, VerifyContract, UpdateFlag, keyVars
    <3> QED
      BY <2>2, <3>1, StatusSteps
  <2>3. CASE LedgerStep \/ FactoryStep \/ UNCHANGED vars
    <3>1. UNCHANGED keyVars
      BY <2>3
      DEF LedgerStep, TransferFrom, Approve, SetApprovalForAll, FactoryStep,
          MintFactoryAsset, SetFactoryURI, AuditFactory, vars
    <3> QED
      BY <2>3, <3>1, OtherSteps DEF keyVars
  <2> QED
    BY <2>1, <2>2, <2>3 DEF Next
<1>2. MintCounts' = MintCounts
  BY <1>1 DEF MintCounts
<1>3. Kept' = Kept
  BY <1>0, <1>1, <1>2, KeptIs DEF Kept
<1> QED
  BY <1>1, <1>3 DEF Pending, LeastShare, PercentPayment

LEMMA ShareInvInit == Init => ShareInv
<1> SUFFICES ASSUME Init
             PROVE  ShareInv
  OBVIOUS
<1>1. SolvencyInv /\ TypeOK
  BY SolvencyInvInit DEF SolvencyInv, StructInv, TypeInv
<1>2. Total(MintCounts) = 0
  <2>1. \A f \in Factories : MintCounts[f] = 0
    BY DEF Init, MintCounts, NoMinter
  <2> QED
    BY <2>1, SumZero DEF Total
<1>3. Kept = 0 /\ Pending = 0
  <2>1. FactoryFee \in Nat /\ LeastShare \in Nat
    BY ShareRange, ProtocolAssumption DEF LeastShare
  <2> QED
    BY <1>2, <2>1 DEF Init, Kept, Pending
<1>4. /\ Owed(FundiToken) + Taken(FundiToken) <= held[FundiToken]
      /\ Owed(FundiToken) \in Nat /\ Taken(FundiToken) \in Nat
  BY <1>1, BooksNat, ProtocolAssumption DEF SolvencyInv, Solvent, BooksAreNat
<1> QED
  BY <1>1, <1>3, <1>4 DEF ShareInv, SolvencyInv

LEMMA ShareInvStep == ShareInv /\ [Next]_vars => ShareInv'
<1> SUFFICES ASSUME ShareInv, [Next]_vars
             PROVE  ShareInv'
  OBVIOUS
<1> DEFINE r == Kept + Pending
<1>0. /\ StructInv /\ StructInv' /\ TypeInv /\ TypeOK /\ TypeOK'
      /\ FundiToken \in FeeTokens
  BY StructInvStep, ProtocolAssumption DEF ShareInv, StructInv, TypeInv
<1>1. /\ r \in Nat
      /\ Owed(FundiToken) + Taken(FundiToken) + r <= held[FundiToken]
      /\ Income(FundiToken) \in Nat
  BY <1>0, KeptIs, PendingNat, IncomeNat DEF ShareInv
<1>2. /\ Owed(FundiToken)' \in Nat /\ Taken(FundiToken)' \in Nat
      /\ held'[FundiToken] \in Nat
  BY <1>0, BooksNatNext DEF BooksAreNat, TypeOK
<1>3. r' = Kept' + Pending'
  OBVIOUS
<1>4. CASE MintStep
  <2>1. r' = r + Income(FundiToken)
    BY <1>0, <1>3, <1>4, KeptMint
  <2> HIDE DEF r
  <2>2. Owed(FundiToken)' + Taken(FundiToken)' + r + Income(FundiToken)
           <= held'[FundiToken]
    BY <1>0, <1>1, <1>4, ReserveKept
  <2>3. Owed(FundiToken)' + Taken(FundiToken)' + r' <= held'[FundiToken]
    BY <1>1, <1>2, <2>1, <2>2
  <2> QED
    BY <1>0, <2>3 DEF ShareInv, r
<1>5. CASE ~MintStep
  <2>1. r' = r
    BY <1>0, <1>3, <1>5, KeptStays
  <2> HIDE DEF r
  <2>2. Owed(FundiToken)' + Taken(FundiToken)' + r <= held'[FundiToken]
    BY <1>0, <1>1, <1>5, ReserveKept
  <2> QED
    BY <1>0, <2>1, <2>2 DEF ShareInv, r
<1> QED
  BY <1>4, <1>5

\* Beyond what it owes, the protocol keeps every registration fee and, of every
\* mint, at least the least percentage: no withdrawal by a factory's owner
\* touches it.
THEOREM ShareKept == Spec => []ProtocolShareKept
<1>1. ShareInv => ProtocolShareKept
  <2> SUFFICES ASSUME ShareInv
               PROVE  ProtocolShareKept
    OBVIOUS
  <2>1. TypeOK /\ FundiToken \in FeeTokens
    BY ProtocolAssumption DEF ShareInv, StructInv, TypeInv
  <2>2. /\ Owed(FundiToken) \in Nat /\ Taken(FundiToken) \in Nat
        /\ Kept \in Nat /\ Pending \in Nat /\ held[FundiToken] \in Nat
    BY <2>1, BooksNat, KeptIs, PendingNat DEF BooksAreNat, TypeOK
  <2>3. Owed(FundiToken) + Kept <= held[FundiToken]
    BY <2>2 DEF ShareInv
  <2>4. /\ FactoryFee * s_assetMinterCounter \in Nat
        /\ LeastShare * Total(MintCounts) \in Nat
    <3>1. /\ FactoryFee \in Nat /\ s_assetMinterCounter \in Nat
          /\ LeastShare \in Nat /\ Total(MintCounts) \in Nat
      BY <2>1, KeptIs, ShareRange, ProtocolAssumption DEF TypeOK, LeastShare
    <3> QED
      BY <3>1, OneMoreTimes
  <2> QED
    BY <2>2, <2>3, <2>4 DEF ProtocolShareKept, Kept, LeastShare
<1> QED
  BY <1>1, ShareInvInit, ShareInvStep, PTL DEF Spec

-----------------------------------------------------------------------------
(* What a factory earns                                                    *)

EarningsInv ==
    /\ StructInv
    /\ ShareBounded
    /\ FeesConserved

\* What ShareBounded and FeesConserved say of one factory, of the numbers alone.
BoundedBy(proceeds, received, minted) ==
    /\ PercentPayment(FundiMintFee, 1000) * minted <= proceeds + received
    /\ proceeds + received <= PercentPayment(FundiMintFee, 7000) * minted

Settles(owed, received, info) ==
    /\ owed + received <= info.tokenMintFee * info.mintCount
    /\ info.tokenAddress \notin SilentTokens =>
          owed + received = info.tokenMintFee * info.mintCount

LEMMA FeesAre ==
    /\ FeesConserved <=>
         \A f \in Factories : Settles(s_factoryFeeProceeds[f], feesReceived[f],
                                      s_assetMinterInfo[f])
    /\ FeesConserved' <=>
         \A f \in Factories : Settles(s_factoryFeeProceeds'[f], feesReceived'[f],
                                      s_assetMinterInfo'[f])
BY DEF FeesConserved, Settles

LEMMA EarningsAre ==
    /\ ShareBounded <=>
         \A f \in Factories : BoundedBy(s_factoryProceeds[f], fundiReceived[f],
                                        s_assetMinterInfo[f].mintCount)
    /\ ShareBounded' <=>
         \A f \in Factories : BoundedBy(s_factoryProceeds'[f], fundiReceived'[f],
                                        s_assetMinterInfo'[f].mintCount)
<1>1. ShareBounded <=>
         \A f \in Factories : BoundedBy(s_factoryProceeds[f], fundiReceived[f],
                                        s_assetMinterInfo[f].mintCount)
  BY DEF ShareBounded, BoundedBy
<1>2. ShareBounded' <=>
         \A f \in Factories : BoundedBy(s_factoryProceeds'[f], fundiReceived'[f],
                                        s_assetMinterInfo'[f].mintCount)
  BY DEF ShareBounded, BoundedBy, PercentPayment
<1> QED
  BY <1>1, <1>2

\* The bounds and the products grow with one more mint as they should.
LEMMA OneMoreMint ==
    ASSUME NEW proceeds \in Nat, NEW received \in Nat, NEW minted \in Nat,
           NEW share \in Nat,
           PercentPayment(FundiMintFee, 1000) \in Nat,
           PercentPayment(FundiMintFee, 7000) \in Nat,
           PercentPayment(FundiMintFee, 1000) <= share,
           share <= PercentPayment(FundiMintFee, 7000),
           BoundedBy(proceeds, received, minted)
    PROVE  BoundedBy(proceeds + share, received, minted + 1)
<1> DEFINE lo == PercentPayment(FundiMintFee, 1000)
           hi == PercentPayment(FundiMintFee, 7000)
<1>0. lo \in Nat /\ hi \in Nat
  OBVIOUS
<1> HIDE DEF lo, hi
<1>1. lo * (minted + 1) = lo * minted + lo /\ hi * (minted + 1) = hi * minted + hi
  BY <1>0
<1>2. lo * minted \in Nat /\ hi * minted \in Nat
  BY <1>0
<1>3. lo * minted <= proceeds + received /\ proceeds + received <= hi * minted
  BY DEF BoundedBy, lo, hi
<1>4. lo <= share /\ share <= hi
  BY DEF lo, hi
<1>5. /\ lo * (minted + 1) <= proceeds + share + received
      /\ proceeds + share + received <= hi * (minted + 1)
  BY <1>0, <1>1, <1>2, <1>3, <1>4
<1> QED
  BY <1>5 DEF BoundedBy, lo, hi

\* A step that moves no money and no count.
LEMMA EarningsSame ==
    ASSUME EarningsInv, StructInv', UNCHANGED moneyVars,
           \A f \in Factories :
              /\ s_assetMinterInfo'[f].mintCount = s_assetMinterInfo[f].mintCount
              /\ s_assetMinterInfo'[f].tokenMintFee = s_assetMinterInfo[f].tokenMintFee
              /\ s_assetMinterInfo'[f].tokenAddress = s_assetMinterInfo[f].tokenAddress
    PROVE  EarningsInv'
<1>1. ShareBounded'
  BY EarningsAre DEF EarningsInv, moneyVars
<1>2. FeesConserved'
  BY FeesAre DEF EarningsInv, Settles, moneyVars
<1> QED
  BY <1>1, <1>2 DEF EarningsInv

LEMMA EarningsMint == ASSUME EarningsInv, MintStep PROVE EarningsInv'
<1>0. /\ TypeOK /\ StructInv /\ StructInv' /\ SuspendedCopyCurrent
      /\ UnregisteredHasNoHistory /\ ShareBounded
      /\ FeesConserved
  BY StructInvMint DEF EarningsInv, StructInv, TypeInv
<1>1. ASSUME NEW sender \in Accounts, NEW f \in Factories,
             NEW k \in FeeTokens, NEW fee \in MintFees,
             MintFactoryKey(sender, f, k, fee)
      PROVE  EarningsInv'
  <2>1. UNCHANGED <<s_assetMinterInfo, s_factoryProceeds, s_factoryFeeProceeds,
                    fundiReceived, feesReceived>>
    BY <1>1 DEF MintFactoryKey
  <2>2. ShareBounded'
    BY <1>0, <2>1, EarningsAre
  <2>3. FeesConserved'
    BY <1>0, <2>1, FeesAre
  <2> QED
    BY <1>0, <2>2, <2>3 DEF EarningsInv
<1>2. ASSUME EndMintFactoryKey
      PROVE  EarningsInv'
  <2> DEFINE f == frame.factory
             new == [frame.minter EXCEPT !.factoryNum = s_assetMinterCounter]
  <2>1. frame \in Frame /\ frame # NoFrame
    BY <1>0, <1>2, FrameIsCall DEF EndMintFactoryKey, NoFrame
  <2>2. f \in Factories /\ new.mintCount = 0 /\ new.tokenMintFee \in Nat
    BY <1>0, <1>2, <2>1
    DEF EndMintFactoryKey, SuspendedCopyCurrent, Frame, MinterInfo
  <2>3. s_assetMinterInfo[f].mintCount = 0 /\ s_factoryFeeProceeds[f] = 0
    BY <1>0, <1>2, <2>1, <2>2
    DEF EndMintFactoryKey, SuspendedCopyCurrent, UnregisteredHasNoHistory
  <2>4. /\ s_assetMinterInfo' = [s_assetMinterInfo EXCEPT ![f] = new]
        /\ UNCHANGED moneyVars
    BY <1>2 DEF EndMintFactoryKey
  <2> HIDE DEF f, new
  <2>5. ShareBounded'
    BY <1>0, <2>2, <2>3, <2>4, EarningsAre DEF moneyVars, TypeOK
  <2>6. ASSUME NEW g \in Factories
        PROVE  Settles(s_factoryFeeProceeds'[g], feesReceived'[g], s_assetMinterInfo'[g])
    <3>1. Settles(s_factoryFeeProceeds[g], feesReceived[g], s_assetMinterInfo[g])
      BY <1>0, FeesAre
    <3>2. CASE g # f
      BY <1>0, <2>4, <3>1, <3>2 DEF moneyVars, TypeOK
    <3>3. CASE g = f
      <4>1. /\ s_assetMinterInfo[g].tokenMintFee \in Nat
            /\ s_factoryFeeProceeds[g] \in Nat /\ feesReceived[g] \in Nat
        BY <1>0 DEF TypeOK, MinterInfo
      <4>2. s_factoryFeeProceeds[g] + feesReceived[g] = 0
        <5>1. s_assetMinterInfo[g].tokenMintFee * s_assetMinterInfo[g].mintCount = 0
          BY <2>3, <3>3, <4>1
        <5> QED
          BY <3>1, <4>1, <5>1 DEF Settles
      <4>3. s_assetMinterInfo'[g] = new
        BY <1>0, <2>4, <3>3 DEF TypeOK
      <4>4. new.tokenMintFee * new.mintCount = 0
        BY <2>2
      <4>5. s_factoryFeeProceeds'[g] + feesReceived'[g] = 0
        BY <2>4, <4>2 DEF moneyVars
      <4> QED
        BY <4>3, <4>4, <4>5 DEF Settles
    <3> QED
      BY <3>2, <3>3
  <2> QED
    BY <1>0, <2>5, <2>6, FeesAre DEF EarningsInv
<1>3. ASSUME NEW sender \in Accounts, NEW f \in Factories,
             NEW transferable \in BOOLEAN, NEW mintTo \in AccountsOrZero,
             MintAssetKey(sender, f, transferable, mintTo)
      PROVE  EarningsInv'
  <2>1. UNCHANGED <<s_assetMinterInfo, s_factoryProceeds, s_factoryFeeProceeds,
                    fundiReceived, feesReceived>>
    BY <1>3 DEF MintAssetKey
  <2>2. ShareBounded'
    BY <1>0, <2>1, EarningsAre
  <2>3. FeesConserved'
    BY <1>0, <2>1, FeesAre
  <2> QED
    BY <1>0, <2>2, <2>3 DEF EarningsInv
<1>4. ASSUME EndMintAssetKey
      PROVE  EarningsInv'
  <2> DEFINE f == frame.factory
             new == [frame.minter EXCEPT !.mintCount = @ + 1]
             fee == frame.minter.tokenMintFee
             share == FactoryShare(frame.minter)
  <2>1. frame \in Frame /\ frame # NoFrame
    BY <1>0, <1>4, FrameIsCall DEF EndMintAssetKey, NoFrame
  <2>2. f \in Factories /\ frame.minter \in MinterInfo
    BY <2>1 DEF Frame
  <2>3. /\ new.mintCount = s_assetMinterInfo[f].mintCount + 1
        /\ new.tokenMintFee = s_assetMinterInfo[f].tokenMintFee
        /\ new.tokenAddress = s_assetMinterInfo[f].tokenAddress
        /\ fee = s_assetMinterInfo[f].tokenMintFee
    BY <1>0, <1>4, <2>1, <2>2 DEF EndMintAssetKey, SuspendedCopyCurrent, MinterInfo
  <2>4. /\ s_factoryProceeds' = [s_factoryProceeds EXCEPT ![f] = @ + share]
        /\ s_factoryFeeProceeds' = [s_factoryFeeProceeds EXCEPT ![f] = @ + fee]
        /\ s_assetMinterInfo' = [s_assetMinterInfo EXCEPT ![f] = new]
        /\ UNCHANGED <<fundiReceived, feesReceived>>
    BY <1>4 DEF EndMintAssetKey, UpdateProceeds
  <2>5. /\ PercentPayment(FundiMintFee, 1000) \in Nat
        /\ PercentPayment(FundiMintFee, 7000) \in Nat
        /\ share \in Nat
        /\ PercentPayment(FundiMintFee, 1000) <= share
        /\ share <= PercentPayment(FundiMintFee, 7000)
    BY ShareRange
  <2> HIDE DEF f, new, fee, share
  <2>6. /\ s_factoryProceeds[f] \in Nat /\ fundiReceived[f] \in Nat
        /\ s_assetMinterInfo[f].mintCount \in Nat
        /\ s_assetMinterInfo[f].tokenMintFee \in Nat
        /\ s_factoryFeeProceeds[f] \in Nat /\ feesReceived[f] \in Nat
    BY <1>0, <2>2 DEF TypeOK, MinterInfo
  <2>7. BoundedBy(s_factoryProceeds[f] + share, fundiReceived[f],
                  s_assetMinterInfo[f].mintCount + 1)
    <3>1. BoundedBy(s_factoryProceeds[f], fundiReceived[f],
                    s_assetMinterInfo[f].mintCount)
      BY <1>0, <2>2, EarningsAre
    <3> QED
      BY <2>5, <2>6, <3>1, OneMoreMint
  <2>8. ASSUME NEW g \in Factories
        PROVE  BoundedBy(s_factoryProceeds'[g], fundiReceived'[g],
                         s_assetMinterInfo'[g].mintCount)
    <3>1. CASE g = f
      <4>1. /\ s_factoryProceeds'[g] = s_factoryProceeds[f] + share
            /\ fundiReceived'[g] = fundiReceived[f]
            /\ s_assetMinterInfo'[g].mintCount = s_assetMinterInfo[f].mintCount + 1
        BY <1>0, <2>3, <2>4, <3>1 DEF TypeOK
      <4> QED
        BY <2>7, <4>1
    <3>2. CASE g # f
      <4>1. /\ s_factoryProceeds'[g] = s_factoryProceeds[g]
            /\ fundiReceived'[g] = fundiReceived[g]
            /\ s_assetMinterInfo'[g] = s_assetMinterInfo[g]
        BY <1>0, <2>4, <3>2 DEF TypeOK
      <4> QED
        BY <1>0, <4>1, EarningsAre
    <3> QED
      BY <3>1, <3>2
  <2>9. ASSUME NEW g \in Factories
        PROVE  Settles(s_factoryFeeProceeds'[g], feesReceived'[g], s_assetMinterInfo'[g])
    <3>1. Settles(s_factoryFeeProceeds[g], feesReceived[g], s_assetMinterInfo[g])
      BY <1>0, FeesAre
    <3>2. CASE g # f
      BY <1>0, <2>4, <3>1, <3>2 DEF TypeOK
    <3>3. CASE g = f
      <4>1. /\ s_factoryFeeProceeds'[g] = s_factoryFeeProceeds[f] + fee
            /\ feesReceived'[g] = feesReceived[f]
            /\ s_assetMinterInfo'[g].mintCount = s_assetMinterInfo[f].mintCount + 1
            /\ s_assetMinterInfo'[g].tokenMintFee = fee
            /\ s_assetMinterInfo'[g].tokenAddress = s_assetMinterInfo[f].tokenAddress
        BY <1>0, <2>3, <2>4, <3>3 DEF TypeOK
      <4>2. /\ fee * (s_assetMinterInfo[f].mintCount + 1) =
                 fee * s_assetMinterInfo[f].mintCount + fee
            /\ fee * s_assetMinterInfo[f].mintCount \in Nat
        BY <2>3, <2>6
      <4>3. /\ s_factoryFeeProceeds[f] + feesReceived[f]
                 <= fee * s_assetMinterInfo[f].mintCount
            /\ s_assetMinterInfo[f].tokenAddress \notin SilentTokens =>
                  s_factoryFeeProceeds[f] + feesReceived[f] =
                     fee * s_assetMinterInfo[f].mintCount
        BY <2>3, <3>1, <3>3 DEF Settles
      <4>4. /\ s_factoryFeeProceeds[f] + fee + feesReceived[f]
                 <= fee * (s_assetMinterInfo[f].mintCount + 1)
            /\ s_assetMinterInfo[f].tokenAddress \notin SilentTokens =>
                  s_factoryFeeProceeds[f] + fee + feesReceived[f] =
                     fee * (s_assetMinterInfo[f].mintCount + 1)
        BY <2>3, <2>6, <4>2, <4>3
      <4> QED
        BY <4>1, <4>4 DEF Settles
    <3> QED
      BY <3>2, <3>3
  <2>10. ShareBounded'
    BY <2>8, EarningsAre
  <2> QED
    BY <1>0, <2>9, <2>10, FeesAre DEF EarningsInv
<1> QED
  BY <1>1, <1>2, <1>3, <1>4 DEF MintStep

LEMMA EarningsWithdraw == ASSUME EarningsInv, WithdrawStep PROVE EarningsInv'
<1>0. /\ TypeOK /\ StructInv' /\ ShareBounded
      /\ FeesConserved
  BY StructInvWithdraw DEF EarningsInv, StructInv, TypeInv
<1>1. \A f \in Factories :
         /\ s_factoryProceeds[f] \in Nat /\ fundiReceived[f] \in Nat
         /\ s_factoryFeeProceeds[f] \in Nat /\ feesReceived[f] \in Nat
  BY <1>0 DEF TypeOK
<1>2. ASSUME NEW sender \in Accounts, NEW f \in Factories,
             NEW amount \in Amounts, WithdrawFundiProceeds(sender, f, amount)
      PROVE  EarningsInv'
  <2>1. amount \in Nat
    BY ProtocolAssumption
  <2>2. \A g \in Factories : s_factoryProceeds'[g] + fundiReceived'[g] =
                               s_factoryProceeds[g] + fundiReceived[g]
    BY <1>0, <1>1, <1>2, <2>1 DEF WithdrawFundiProceeds, TypeOK
  <2>3. UNCHANGED <<s_assetMinterInfo, s_factoryFeeProceeds, feesReceived>>
    BY <1>2 DEF WithdrawFundiProceeds
  <2>4. ShareBounded'
    BY <1>0, <2>2, <2>3, EarningsAre DEF BoundedBy
  <2>5. FeesConserved'
    BY <1>0, <2>3, FeesAre
  <2> QED
    BY <1>0, <2>4, <2>5 DEF EarningsInv
<1>3. ASSUME NEW sender \in Accounts, NEW f \in Factories,
             NEW amount \in Amounts, NEW paid \in BOOLEAN,
             WithdrawMintFeeProceeds(sender, f, amount, paid)
      PROVE  EarningsInv'
  <2>1. amount \in Nat
    BY ProtocolAssumption
  <2>2. UNCHANGED <<s_assetMinterInfo, s_factoryProceeds, fundiReceived>>
    BY <1>3 DEF WithdrawMintFeeProceeds
  <2>3. ShareBounded'
    BY <1>0, <2>2, EarningsAre
  <2>4. /\ s_factoryFeeProceeds' = [s_factoryFeeProceeds EXCEPT ![f] = @ - amount]
        /\ amount <= s_factoryFeeProceeds[f]
        /\ \/ feesReceived' = [feesReceived EXCEPT ![f] = @ + amount]
           \/ /\ feesReceived' = [feesReceived EXCEPT ![f] = @ + 0]
              /\ s_assetMinterInfo[f].tokenAddress \in SilentTokens
    BY <1>3 DEF WithdrawMintFeeProceeds, ProceedsAvailable
  <2>5. ASSUME NEW g \in Factories
        PROVE  LET before == s_factoryFeeProceeds[g] + feesReceived[g]
                   after == s_factoryFeeProceeds'[g] + feesReceived'[g]
               IN  /\ after <= before
                   /\ s_assetMinterInfo[g].tokenAddress \notin SilentTokens =>
                         after = before
    BY <1>0, <1>1, <2>1, <2>4 DEF TypeOK
  <2>6. ASSUME NEW g \in Factories
        PROVE  Settles(s_factoryFeeProceeds'[g], feesReceived'[g], s_assetMinterInfo'[g])
    <3> DEFINE charged == s_assetMinterInfo[g].tokenMintFee * s_assetMinterInfo[g].mintCount
               before == s_factoryFeeProceeds[g] + feesReceived[g]
               after == s_factoryFeeProceeds'[g] + feesReceived'[g]
    <3>1. /\ before <= charged
          /\ s_assetMinterInfo[g].tokenAddress \notin SilentTokens => before = charged
      BY <1>0, FeesAre DEF Settles
    <3>2. /\ after <= before
          /\ s_assetMinterInfo[g].tokenAddress \notin SilentTokens => after = before
      BY <2>5
    <3>3. charged \in Nat /\ before \in Nat /\ after \in Nat
      <4>1. /\ s_assetMinterInfo[g].tokenMintFee \in Nat
            /\ s_assetMinterInfo[g].mintCount \in Nat
            /\ s_factoryFeeProceeds'[g] \in Nat /\ feesReceived'[g] \in Nat
        BY <1>0 DEF TypeOK, StructInv, TypeInv, MinterInfo
      <4> QED
        BY <1>1, <4>1
    <3> HIDE DEF charged, before, after
    <3>4. /\ after <= charged
          /\ s_assetMinterInfo[g].tokenAddress \notin SilentTokens => after = charged
      BY <3>1, <3>2, <3>3
    <3> QED
      BY <2>2, <3>4 DEF Settles, charged, after
  <2>7. FeesConserved'
    BY <2>6, FeesAre
  <2> QED
    BY <1>0, <2>3, <2>7 DEF EarningsInv
<1> QED
  BY <1>2, <1>3 DEF WithdrawStep

LEMMA EarningsInit == Init => EarningsInv
<1> SUFFICES ASSUME Init
             PROVE  EarningsInv
  OBVIOUS
<1>1. StructInv
  BY StructInvInit
<1>2. ShareBounded
  <2>1. /\ PercentPayment(FundiMintFee, 1000) \in Nat
        /\ PercentPayment(FundiMintFee, 7000) \in Nat
    BY ShareRange
  <2>2. BoundedBy(0, 0, 0)
    BY <2>1 DEF BoundedBy
  <2> QED
    BY <2>2, EarningsAre DEF Init, NoMinter
<1>3. FeesConserved
  BY DEF Init, NoMinter, FeesConserved
<1> QED
  BY <1>1, <1>2, <1>3 DEF EarningsInv

LEMMA EarningsStep == EarningsInv /\ [Next]_vars => EarningsInv'
<1> SUFFICES ASSUME EarningsInv, [Next]_vars
             PROVE  EarningsInv'
  OBVIOUS
<1>0. StructInv' /\ TypeInv
  BY StructInvStep DEF EarningsInv, StructInv
<1>1. CASE StatusStep
  BY <1>0, <1>1, StatusSteps, EarningsSame
<1>2. CASE LedgerStep \/ FactoryStep \/ UNCHANGED vars
  BY <1>0, <1>2, OtherSteps, EarningsSame
<1> QED
  BY <1>1, <1>2, EarningsMint, EarningsWithdraw DEF Next

\* Per key minted a factory's owners earn between the share of a flagged factory
\* and that of a verified one, however the status changed and whatever was
\* withdrawn in between.
THEOREM EarnedShareBounded == Spec => []ShareBounded
<1>1. EarningsInv => ShareBounded
  BY DEF EarningsInv
<1> QED
  BY <1>1, EarningsInit, EarningsStep, PTL DEF Spec

\* Every mint fee charged is owed to an owner of the factory or was received by
\* one, and none twice, whatever reads and writes the struct in between; where
\* the token's transfer may fail silently, at most that much.
THEOREM MintFeesConserved == Spec => []FeesConserved
<1>1. EarningsInv => FeesConserved
  BY DEF EarningsInv
<1> QED
  BY <1>1, EarningsInit, EarningsStep, PTL DEF Spec
=============================================================================
