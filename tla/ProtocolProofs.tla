--------------------------- MODULE ProtocolProofs ---------------------------
(***************************************************************************)
(* Proofs about FundiAssetFactoryProtocol, for every number of accounts,   *)
(* factories, tokens and keys.                                             *)
(***************************************************************************)
EXTENDS ProtocolProperties, FiniteSetTheorems, TLAPS

-----------------------------------------------------------------------------
(* How many keys an account holds                                          *)

Holdings(own, a) == {t \in TokenIds : own[t] = a}

\* new is own with key t given to account to.
Reassigns(own, t, to, new) ==
    /\ own \in [TokenIds -> AccountsOrZero]
    /\ t \in TokenIds
    /\ to \in Accounts
    /\ new = [own EXCEPT ![t] = to]

\* An account's holdings are finite: there are finitely many keys.
LEMMA HoldingsFinite ==
    ASSUME NEW own, NEW a
    PROVE  /\ IsFiniteSet(Holdings(own, a))
           /\ Cardinality(Holdings(own, a)) \in Nat
<1>1. MaxTokens - 1 \in Int /\ 0 \in Int
  BY AccountsAssumption
<1>2. IsFiniteSet(TokenIds)
  BY <1>1, FS_Interval DEF TokenIds
<1>3. Holdings(own, a) \subseteq TokenIds
  BY DEF Holdings
<1> QED
  BY <1>2, <1>3, FS_Subset, FS_CardinalityType

\* Giving one key a new owner takes it out of the holdings of the old owner
\* and puts it into those of the new one.
LEMMA HoldingsMove ==
    ASSUME NEW own, NEW t, NEW to, NEW new, Reassigns(own, t, to, new),
           NEW a \in Accounts
    PROVE  Cardinality(Holdings(new, a)) =
             IF own[t] = to THEN Cardinality(Holdings(own, a))
             ELSE IF a = to THEN Cardinality(Holdings(own, a)) + 1
             ELSE IF a = own[t] THEN Cardinality(Holdings(own, a)) - 1
             ELSE Cardinality(Holdings(own, a))
<1> DEFINE H == Holdings(own, a)
           HN == Holdings(new, a)
<1>0. IsFiniteSet(H)
  BY HoldingsFinite
<1>1. CASE own[t] = to
  <2>1. new = own
    BY <1>1 DEF Reassigns
  <2> QED
    BY <1>1, <2>1
<1>2. CASE own[t] # to /\ a = to
  <2>1. HN = H \cup {t} /\ t \notin H
    BY <1>2 DEF Holdings, Reassigns
  <2>2. Cardinality(H \cup {t}) = Cardinality(H) + 1
    BY <1>0, <2>1, FS_AddElement
  <2> QED
    BY <1>2, <2>1, <2>2
<1>3. CASE own[t] # to /\ a # to /\ a = own[t]
  <2>1. HN = H \ {t} /\ t \in H
    BY <1>3 DEF Holdings, Reassigns
  <2>2. Cardinality(H \ {t}) = Cardinality(H) - 1
    BY <1>0, <2>1, FS_RemoveElement
  <2> QED
    BY <1>3, <2>1, <2>2
<1>4. CASE own[t] # to /\ a # to /\ a # own[t]
  <2>1. HN = H
    BY <1>4 DEF Holdings, Reassigns
  <2> QED
    BY <1>4, <2>1
<1> QED
  BY <1>1, <1>2, <1>3, <1>4

-----------------------------------------------------------------------------
(* Types, and what the ledger counts                                       *)

\* Types alone are not inductive: a transfer takes one from a balance, which
\* stays a natural number because the balance counts the keys held.
TypeInv == TypeOK /\ BalancesCountKeys

LEMMA MintLedger ==
    ASSUME ERC721TypeOK, BalancesCountKeys, NEW to \in Accounts,
           NEW t \in TokenIds, Mint(to, t)
    PROVE  ERC721TypeOK' /\ BalancesCountKeys'
<1>1. ERC721TypeOK'
  BY DEF ERC721TypeOK, Mint, AccountsOrZero
<1>2. ASSUME NEW a \in Accounts
      PROVE  balances'[a] = Cardinality(Holdings(owners', a))
  <2>1. owners[t] = ZeroAddress /\ ZeroAddress \notin Accounts
    BY AccountsAssumption DEF Mint, Exists
  <2>2. /\ owners \in [TokenIds -> AccountsOrZero]
        /\ owners' = [owners EXCEPT ![t] = to]
        /\ balances[a] = Cardinality(Holdings(owners, a))
        /\ balances \in [Accounts -> Nat]
        /\ balances' = [balances EXCEPT ![to] = @ + 1]
    BY DEF ERC721TypeOK, BalancesCountKeys, Mint, Holdings
  <2>3. Cardinality(Holdings(owners', a)) =
          IF a = to THEN balances[a] + 1 ELSE balances[a]
    <3>1. Reassigns(owners, t, to, owners')
      BY <2>2 DEF Reassigns
    <3> QED
      BY <3>1, <2>1, <2>2, HoldingsMove
  <2>4. balances'[a] = IF a = to THEN balances[a] + 1 ELSE balances[a]
    BY <2>2
  <2> QED
    BY <2>3, <2>4
<1> QED
  BY <1>1, <1>2 DEF BalancesCountKeys, Holdings

LEMMA TransferLedger ==
    ASSUME ERC721TypeOK, BalancesCountKeys, NEW to \in Accounts,
           NEW t \in TokenIds, Exists(t), Transfer(to, t)
    PROVE  ERC721TypeOK' /\ BalancesCountKeys'
<1> DEFINE from == owners[t]
<1>1. /\ owners \in [TokenIds -> AccountsOrZero]
      /\ owners' = [owners EXCEPT ![t] = to]
      /\ balances \in [Accounts -> Nat]
      /\ \A a \in Accounts : balances[a] = Cardinality(Holdings(owners, a))
      /\ from \in Accounts
  BY DEF ERC721TypeOK, BalancesCountKeys, Transfer, Exists, AccountsOrZero,
         Holdings
<1>2. \A a \in Accounts :
         Cardinality(Holdings(owners', a)) =
            IF from = to THEN balances[a]
            ELSE IF a = to THEN balances[a] + 1
            ELSE IF a = from THEN balances[a] - 1 ELSE balances[a]
  <2>1. Reassigns(owners, t, to, owners')
    BY <1>1 DEF Reassigns
  <2> QED
    BY <1>1, <2>1, HoldingsMove
<1>3. \A a \in Accounts : balances'[a] = Cardinality(Holdings(owners', a))
  <2> DEFINE debited == [balances EXCEPT ![from] = @ - 1]
  <2>1. balances' = [debited EXCEPT ![to] = @ + 1]
    BY DEF Transfer
  <2>2. debited \in [Accounts -> Int]
    BY <1>1
  <2>3. \A a \in Accounts :
           debited[a] = IF a = from THEN balances[a] - 1 ELSE balances[a]
    BY <1>1
  <2> HIDE DEF debited
  <2>4. \A a \in Accounts :
           balances'[a] = IF a = to THEN debited[a] + 1 ELSE debited[a]
    BY <2>1, <2>2
  <2>5. \A a \in Accounts : balances[a] \in Nat
    BY <1>1
  <2> SUFFICES ASSUME NEW a \in Accounts
               PROVE  balances'[a] = Cardinality(Holdings(owners', a))
    OBVIOUS
  <2>6. balances'[a] = IF from = to THEN balances[a]
                       ELSE IF a = to THEN balances[a] + 1
                       ELSE IF a = from THEN balances[a] - 1 ELSE balances[a]
    BY <2>3, <2>4, <2>5
  <2> QED
    BY <1>2, <2>6
<1>4. balances' \in [Accounts -> Nat]
  <2>1. DOMAIN balances' = Accounts /\ balances' = [a \in Accounts |-> balances'[a]]
    BY <1>1 DEF Transfer
  <2>2. \A a \in Accounts : balances'[a] \in Nat
    BY <1>3, HoldingsFinite
  <2> QED
    BY <2>1, <2>2
<1>5. ERC721TypeOK'
  BY <1>1, <1>4 DEF ERC721TypeOK, Transfer, AccountsOrZero
<1> QED
  BY <1>3, <1>5 DEF BalancesCountKeys, Holdings

\* The rest of the ledger's steps leave owners and balances alone.
LEMMA ApprovalLedger ==
    ASSUME ERC721TypeOK, BalancesCountKeys, NEW sender \in Accounts,
           \/ \E to \in Delegates \cup {ZeroAddress}, t \in TokenIds :
                 ApproveKey(sender, to, t)
           \/ \E operator \in Delegates, approved \in BOOLEAN :
                 ApproveOperator(sender, operator, approved)
    PROVE  ERC721TypeOK' /\ BalancesCountKeys'
<1>1. CASE \E to \in Delegates \cup {ZeroAddress}, t \in TokenIds :
              ApproveKey(sender, to, t)
  BY <1>1, AccountsAssumption
  DEF ERC721TypeOK, BalancesCountKeys, ApproveKey, AccountsOrZero
<1>2. CASE \E operator \in Delegates, approved \in BOOLEAN :
              ApproveOperator(sender, operator, approved)
  BY <1>2 DEF ERC721TypeOK, BalancesCountKeys, ApproveOperator
<1> QED
  BY <1>1, <1>2

\* The types of what the factories keep.
LEMMA FactoryStepTypes ==
    ASSUME FactoryTypeOK, NEW f \in Factories,
           \/ \E t \in TokenIds : SetFundiTokenId(f, t)
           \/ \E t \in TokenIds : MintFundiFactoryAsset(f, t)
           \/ \E sender \in Accounts, uri \in URIs :
                 SetContractURI(sender, f, uri)
           \/ \E sender \in Accounts : AddContractAudit(sender, f)
    PROVE  FactoryTypeOK'
<1>1. CASE \E t \in TokenIds : SetFundiTokenId(f, t)
  BY <1>1 DEF FactoryTypeOK, SetFundiTokenId
<1>2. CASE \E t \in TokenIds : MintFundiFactoryAsset(f, t)
  <2> PICK t \in TokenIds : MintFundiFactoryAsset(f, t)
    BY <1>2
  <2> DEFINE slot == [fundiTokenId |-> t, assetAddress |-> 0]
             slots == [s_assetInfo[f] EXCEPT ![s_assetCounter[f]] = slot]
  <2>1. slot \in Slot
    BY AccountsAssumption DEF TokenIds, Slot
  <2>2. slots \in [TokenIds -> Slot]
    BY <2>1 DEF FactoryTypeOK
  <2>3. s_assetInfo' = [s_assetInfo EXCEPT ![f] = slots]
    BY DEF MintFundiFactoryAsset
  <2>4. s_assetInfo' \in [Factories -> [TokenIds -> Slot]]
    BY <2>2, <2>3 DEF FactoryTypeOK
  <2>5. s_assetCounter' \in [Factories -> Nat]
    BY DEF FactoryTypeOK, MintFundiFactoryAsset
  <2> QED
    BY <2>4, <2>5 DEF FactoryTypeOK, MintFundiFactoryAsset
<1>3. CASE \E sender \in Accounts, uri \in URIs : SetContractURI(sender, f, uri)
  BY <1>3 DEF FactoryTypeOK, SetContractURI
<1>4. CASE \E sender \in Accounts : AddContractAudit(sender, f)
  BY <1>4 DEF FactoryTypeOK, AddContractAudit
<1> QED
  BY <1>1, <1>2, <1>3, <1>4

LEMMA MintAssetTypes ==
    ASSUME FactoryTypeOK, NEW f \in Factories, NEW sender \in Accounts,
           NEW protocol \in Protocols, NEW t \in TokenIds, NEW info,
           NEW named \in AssetInfo, MintAsset(sender, f, protocol, t, info, named)
    PROVE  FactoryTypeOK'
<1> DEFINE n == named.factoryTokenId
           asset == [fundiProtocol |-> protocol, fundiTokenId |-> t,
                     factoryTokenId |-> n,
                     contractFactory |-> named.factoryAddress]
<1>1. s_assets[f] \in Seq(Asset)
  BY DEF FactoryTypeOK
<1>2. Len(s_assets[f]) + 1 \in Nat
  BY <1>1
<1>3. s_assetInfo' \in [Factories -> [TokenIds -> Slot]]
  <2> DEFINE slot == [s_assetInfo[f][n] EXCEPT !.assetAddress =
                        Len(s_assets[f]) + 1]
             slots == [s_assetInfo[f] EXCEPT ![n] = slot]
  <2>1. s_assetInfo' = [s_assetInfo EXCEPT ![f] = slots]
    BY DEF MintAsset
  <2>2. ASSUME n \in TokenIds
        PROVE  slot \in Slot
    <3>1. s_assetInfo[f][n] \in [fundiTokenId : Nat, assetAddress : Nat]
      BY <2>2 DEF FactoryTypeOK, Slot
    <3> QED
      BY <3>1, <1>2 DEF Slot
  <2>3. slots \in [TokenIds -> Slot]
    <3>1. s_assetInfo[f] \in [TokenIds -> Slot]
      BY DEF FactoryTypeOK
    <3> HIDE DEF slot, n
    <3> QED
      BY <3>1, <2>2
  <2> QED
    BY <2>1, <2>3 DEF FactoryTypeOK
<1>4. s_assets' \in [Factories -> Seq(Asset)]
  <2>1. asset \in Asset
    BY DEF Asset, AssetInfo
  <2>2. Append(s_assets[f], asset) \in Seq(Asset)
    BY <1>1, <2>1
  <2> QED
    BY <2>2 DEF FactoryTypeOK, MintAsset
<1> QED
  BY <1>3, <1>4 DEF FactoryTypeOK, MintAsset

\* A percentage of a natural number is one, and so is every factory's share.
LEMMA ShareType ==
    ASSUME NEW minter
    PROVE  FactoryShare(minter) \in Nat
<1>1. \A pts \in {1000, 3000, 6000, 7000} :
         (FundiMintFee * pts) \div 10000 \in Nat
  BY ProtocolAssumption
<1>2. FactoryShare(minter) \in
         {(FundiMintFee * pts) \div 10000 : pts \in {1000, 3000, 6000, 7000}}
  BY DEF FactoryShare, PercentPayment
<1> QED
  BY <1>1, <1>2

\* Only a suspended call has a kind other than "none".
LEMMA FrameIsCall ==
    ASSUME TypeOK, frame # NoFrame
    PROVE  frame \in Frame
BY DEF TypeOK

LEMMA NextTokenId ==
    ASSUME TypeOK, s_tokenCounter < MaxTokens
    PROVE  s_tokenCounter \in TokenIds
BY AccountsAssumption DEF TypeOK, TokenIds

\* What a step that leaves the ledger or the factories alone keeps of them.
LEMMA LedgerUnchanged ==
    ASSUME ERC721TypeOK, BalancesCountKeys, UNCHANGED erc721Vars
    PROVE  ERC721TypeOK' /\ BalancesCountKeys'
BY DEF ERC721TypeOK, BalancesCountKeys, erc721Vars

LEMMA FactoriesUnchanged ==
    ASSUME FactoryTypeOK, UNCHANGED factoryVars
    PROVE  FactoryTypeOK'
BY DEF FactoryTypeOK, factoryVars

LEMMA TypeInvInit == Init => TypeInv
<1> SUFFICES ASSUME Init
             PROVE  TypeInv
  OBVIOUS
<1>1. 0 \in TokenIds
  BY AccountsAssumption DEF TokenIds
<1>2. ERC721TypeOK
  BY DEF Init, ERC721Init, ERC721TypeOK, AccountsOrZero
<1>3. FactoryTypeOK
  BY <1>1, FactoriesAssumption
  DEF Init, FactoryInit, FactoryTypeOK, EmptySlot, Slot
<1>4. NoMinter \in MinterInfo /\ NoAssetInfo \in AssetInfo
  BY <1>1 DEF NoMinter, MinterInfo, NoAssetInfo, AssetInfo
<1>5. TypeOK
  BY <1>2, <1>3, <1>4 DEF Init, TypeOK
<1>6. BalancesCountKeys
  <2> SUFFICES ASSUME NEW a \in Accounts
               PROVE  balances[a] = Cardinality({t \in TokenIds : owners[t] = a})
    BY DEF BalancesCountKeys
  <2>1. {t \in TokenIds : owners[t] = a} = {}
    BY AccountsAssumption DEF Init, ERC721Init
  <2> QED
    BY <2>1, FS_EmptySet DEF Init, ERC721Init
<1> QED
  BY <1>5, <1>6 DEF TypeInv

LEMMA TypeInvMint == ASSUME TypeInv, MintStep PROVE TypeInv'
<1>0. TypeOK /\ ERC721TypeOK /\ FactoryTypeOK /\ BalancesCountKeys
  BY DEF TypeInv, TypeOK
<1>1. ASSUME NEW sender \in Accounts, NEW f \in Factories,
             NEW k \in FeeTokens, NEW fee \in MintFees,
             MintFactoryKey(sender, f, k, fee)
      PROVE  TypeInv'
  <2>1. s_tokenCounter \in TokenIds
    BY <1>0, <1>1, NextTokenId DEF MintFactoryKey
  <2>2. ERC721TypeOK' /\ BalancesCountKeys'
    BY <1>0, <1>1, <2>1, MintLedger DEF MintFactoryKey
  <2>3. FactoryTypeOK'
    BY <1>0, <1>1, <2>1, FactoryStepTypes DEF MintFactoryKey
  <2>4. held' \in [FeeTokens -> Nat]
    BY <1>0, <1>1, ProtocolAssumption DEF TypeOK, MintFactoryKey
  <2>5. frame' \in Frame
    BY <1>1, <2>1, ProtocolAssumption
    DEF MintFactoryKey, Frame, MinterInfo, NoMinter
  <2> QED
    BY <1>0, <1>1, <2>2, <2>3, <2>4, <2>5
    DEF TypeInv, TypeOK, MintFactoryKey, keyVars
<1>2. ASSUME EndMintFactoryKey
      PROVE  TypeInv'
  <2>1. frame \in Frame
    BY <1>0, <1>2, FrameIsCall DEF EndMintFactoryKey, NoFrame
  <2>2. frame.tokenId + 1 \in Nat
    BY <2>1, AccountsAssumption DEF Frame, TokenIds
  <2>3. s_assetMinterInfo' \in [Factories -> MinterInfo]
    BY <1>0, <1>2, <2>1 DEF TypeOK, EndMintFactoryKey, Frame, MinterInfo
  <2>4. s_tokenIdToFactory' \in [TokenIds -> Factories \cup {ZeroAddress}]
    BY <1>0, <1>2, <2>1 DEF TypeOK, EndMintFactoryKey, Frame
  <2>5. ERC721TypeOK' /\ BalancesCountKeys' /\ FactoryTypeOK'
    BY <1>0, <1>2, LedgerUnchanged, FactoriesUnchanged DEF EndMintFactoryKey
  <2> QED
    BY <1>0, <1>2, <2>2, <2>3, <2>4, <2>5
    DEF TypeInv, TypeOK, EndMintFactoryKey, moneyVars
<1>3. ASSUME NEW sender \in Accounts, NEW f \in Factories,
             NEW transferable \in BOOLEAN, NEW mintTo \in AccountsOrZero,
             MintAssetKey(sender, f, transferable, mintTo)
      PROVE  TypeInv'
  <2> DEFINE to == IF mintTo = ZeroAddress THEN sender ELSE mintTo
             minter == s_assetMinterInfo[f]
  <2>1. s_tokenCounter \in TokenIds /\ to \in Accounts
    BY <1>0, <1>3, NextTokenId DEF MintAssetKey, AccountsOrZero
  <2>2. ERC721TypeOK' /\ BalancesCountKeys'
    BY <1>0, <1>3, <2>1, MintLedger DEF MintAssetKey
  <2>3. FactoryTypeOK'
    BY <1>0, <1>3, <2>1, FactoryStepTypes DEF MintAssetKey
  <2>4. minter \in MinterInfo /\ minter.tokenMintFee \in Nat
    BY <1>0 DEF TypeOK, MinterInfo
  <2>5. held' \in [FeeTokens -> Nat]
    <3> DEFINE withFundi == [held EXCEPT ![FundiToken] = @ + FundiMintFee]
    <3>1. withFundi \in [FeeTokens -> Nat]
      BY <1>0, ProtocolAssumption DEF TypeOK
    <3>2. \/ held' = withFundi
          \/ held' = [withFundi EXCEPT ![minter.tokenAddress] =
                                         @ + minter.tokenMintFee]
      BY <1>3 DEF MintAssetKey, TakeMintFees
    <3> HIDE DEF withFundi, minter
    <3> QED
      BY <3>1, <3>2, <2>4
  <2>6. frame' \in Frame
    BY <1>3, <2>1, <2>4 DEF MintAssetKey, Frame
  <2>7. s_tokenIdToAsset' \in [TokenIds -> AssetInfo]
    <3>1. s_assetCounter[f] \in Nat
      BY <1>0 DEF FactoryTypeOK
    <3>2. [factoryAddress |-> f, factoryTokenId |-> s_assetCounter[f],
           transferable |-> transferable] \in AssetInfo
      BY <3>1 DEF AssetInfo
    <3> QED
      BY <1>0, <1>3, <3>2 DEF TypeOK, MintAssetKey
  <2> QED
    BY <1>0, <1>3, <2>2, <2>3, <2>5, <2>6, <2>7
    DEF TypeInv, TypeOK, MintAssetKey
<1>4. ASSUME EndMintAssetKey
      PROVE  TypeInv'
  <2>1. frame \in Frame
    BY <1>0, <1>4, FrameIsCall DEF EndMintAssetKey, NoFrame
  <2>2. frame.tokenId + 1 \in Nat
    BY <2>1, AccountsAssumption DEF Frame, TokenIds
  <2>3. frame.minter \in MinterInfo /\ frame.factory \in Factories
    BY <2>1 DEF Frame
  <2>4. s_assetMinterInfo' \in [Factories -> MinterInfo]
    BY <1>0, <1>4, <2>3 DEF TypeOK, EndMintAssetKey, MinterInfo
  <2>5. s_factoryProceeds' \in [Factories -> Nat]
    <3> DEFINE share == FactoryShare(frame.minter)
    <3>1. s_factoryProceeds' =
             [s_factoryProceeds EXCEPT ![frame.factory] = @ + share]
      BY <1>4 DEF EndMintAssetKey, UpdateProceeds
    <3>2. share \in Nat
      BY ShareType
    <3> HIDE DEF share
    <3> QED
      BY <1>0, <2>3, <3>1, <3>2 DEF TypeOK
  <2>6. s_factoryFeeProceeds' \in [Factories -> Nat]
    <3> DEFINE fee == frame.minter.tokenMintFee
    <3>1. s_factoryFeeProceeds' =
             [s_factoryFeeProceeds EXCEPT ![frame.factory] = @ + fee]
      BY <1>4 DEF EndMintAssetKey, UpdateProceeds
    <3>2. fee \in Nat
      BY <2>3 DEF MinterInfo
    <3> HIDE DEF fee
    <3> QED
      BY <1>0, <2>3, <3>1, <3>2 DEF TypeOK
  <2>7. ERC721TypeOK' /\ BalancesCountKeys' /\ FactoryTypeOK'
    BY <1>0, <1>4, LedgerUnchanged, FactoriesUnchanged DEF EndMintAssetKey
  <2> QED
    BY <1>0, <1>4, <2>2, <2>4, <2>5, <2>6, <2>7
    DEF TypeInv, TypeOK, EndMintAssetKey
<1> QED
  BY <1>1, <1>2, <1>3, <1>4 DEF MintStep

LEMMA TypeInvWithdraw == ASSUME TypeInv, WithdrawStep PROVE TypeInv'
<1>0. TypeOK /\ ERC721TypeOK /\ FactoryTypeOK /\ BalancesCountKeys
  BY DEF TypeInv, TypeOK
<1>1. ASSUME NEW sender \in Accounts, NEW f \in Factories,
             NEW amount \in Amounts, WithdrawFundiProceeds(sender, f, amount)
      PROVE  TypeInv'
  <2>1. /\ s_factoryProceeds' \in [Factories -> Nat]
        /\ held' \in [FeeTokens -> Nat]
        /\ fundiReceived' \in [Factories -> Nat]
    BY <1>0, <1>1, ProtocolAssumption
    DEF TypeOK, WithdrawFundiProceeds, ProceedsAvailable
  <2>2. ERC721TypeOK' /\ BalancesCountKeys' /\ FactoryTypeOK'
    BY <1>0, <1>1, LedgerUnchanged, FactoriesUnchanged
    DEF WithdrawFundiProceeds
  <2> QED
    BY <1>0, <1>1, <2>1, <2>2
    DEF TypeInv, TypeOK, WithdrawFundiProceeds, keyVars
<1>2. ASSUME NEW sender \in Accounts, NEW f \in Factories,
             NEW amount \in Amounts, NEW paid \in BOOLEAN,
             WithdrawMintFeeProceeds(sender, f, amount, paid)
      PROVE  TypeInv'
  <2> DEFINE moved == IF paid THEN amount ELSE 0
  <2>0. moved \in Nat /\ moved <= amount /\ amount \in Nat
    BY ProtocolAssumption
  <2>1. s_factoryFeeProceeds' \in [Factories -> Nat]
    BY <1>0, <1>2, <2>0 DEF TypeOK, WithdrawMintFeeProceeds, ProceedsAvailable
  <2>2. held' \in [FeeTokens -> Nat]
    <3> DEFINE k == s_assetMinterInfo[f].tokenAddress
    <3>1. held' = [held EXCEPT ![k] = @ - moved] /\ held[k] >= amount
      BY <1>2 DEF WithdrawMintFeeProceeds
    <3>2. held \in [FeeTokens -> Nat]
      BY <1>0 DEF TypeOK
    <3> HIDE DEF k, moved
    <3>3. CASE k \in FeeTokens
      <4>1. held[k] - moved \in Nat
        BY <2>0, <3>1, <3>2, <3>3
      <4> QED
        BY <3>1, <3>2, <4>1
    <3>4. CASE k \notin FeeTokens
      BY <3>1, <3>2, <3>4
    <3> QED
      BY <3>3, <3>4
  <2>3. feesReceived' \in [Factories -> Nat]
    <3>1. feesReceived' = [feesReceived EXCEPT ![f] = @ + moved]
      BY <1>2 DEF WithdrawMintFeeProceeds
    <3> HIDE DEF moved
    <3> QED
      BY <1>0, <2>0, <3>1 DEF TypeOK
  <2>4. ERC721TypeOK' /\ BalancesCountKeys' /\ FactoryTypeOK'
    BY <1>0, <1>2, LedgerUnchanged, FactoriesUnchanged
    DEF WithdrawMintFeeProceeds
  <2> HIDE DEF moved
  <2> QED
    BY <1>0, <1>2, <2>1, <2>2, <2>3, <2>4
    DEF TypeInv, TypeOK, WithdrawMintFeeProceeds, keyVars
<1> QED
  BY <1>1, <1>2 DEF WithdrawStep

LEMMA TypeInvStatus == ASSUME TypeInv, StatusStep PROVE TypeInv'
<1>1. s_assetMinterInfo' \in [Factories -> MinterInfo]
  <2>0. s_assetMinterInfo \in [Factories -> MinterInfo]
    BY DEF TypeInv, TypeOK
  <2>1. PICK f \in Factories, b \in BOOLEAN :
           \/ s_assetMinterInfo' = [s_assetMinterInfo EXCEPT ![f].active = b]
           \/ s_assetMinterInfo' = [s_assetMinterInfo EXCEPT ![f].verified = TRUE]
           \/ s_assetMinterInfo' =
                [s_assetMinterInfo EXCEPT ![f].flagged = b,
                                          ![f].verified = @ /\ ~b]
    BY DEF StatusStep, SetAssetFactoryStatus, VerifyContract, UpdateFlag
  <2>2. s_assetMinterInfo[f] \in MinterInfo
    BY <2>0
  <2>3. /\ [s_assetMinterInfo[f] EXCEPT !.active = b] \in MinterInfo
        /\ [s_assetMinterInfo[f] EXCEPT !.verified = TRUE] \in MinterInfo
        /\ [s_assetMinterInfo[f] EXCEPT !.flagged = b,
                                        !.verified = @ /\ ~b] \in MinterInfo
    BY <2>2 DEF MinterInfo
  <2> QED
    BY <2>0, <2>1, <2>3
<1>2. UNCHANGED <<erc721Vars, factoryVars, keyVars, frame, moneyVars>>
  BY DEF StatusStep, SetAssetFactoryStatus, VerifyContract, UpdateFlag
<1> QED
  BY <1>1, <1>2
  DEF TypeInv, TypeOK, ERC721TypeOK, FactoryTypeOK, BalancesCountKeys,
      erc721Vars, factoryVars, keyVars, moneyVars

LEMMA TypeInvLedger == ASSUME TypeInv, LedgerStep PROVE TypeInv'
<1>0. TypeOK /\ ERC721TypeOK /\ FactoryTypeOK /\ BalancesCountKeys
  BY DEF TypeInv, TypeOK
<1>1. ERC721TypeOK' /\ BalancesCountKeys'
  <2>1. ASSUME NEW sender \in Accounts, NEW to \in Accounts,
               NEW t \in TokenIds, TransferFrom(sender, to, t)
        PROVE  ERC721TypeOK' /\ BalancesCountKeys'
    BY <1>0, <2>1, TransferLedger DEF TransferFrom, IsApprovedOrOwner
  <2>2. ASSUME NEW sender \in Accounts, NEW to \in Delegates \cup {ZeroAddress},
               NEW t \in TokenIds, Approve(sender, to, t)
        PROVE  ERC721TypeOK' /\ BalancesCountKeys'
    BY <1>0, <2>2, ApprovalLedger DEF Approve
  <2>3. ASSUME NEW sender \in Accounts, NEW operator \in Delegates,
               NEW approved \in BOOLEAN,
               SetApprovalForAll(sender, operator, approved)
        PROVE  ERC721TypeOK' /\ BalancesCountKeys'
    BY <1>0, <2>3, ApprovalLedger DEF SetApprovalForAll
  <2> QED
    BY <2>1, <2>2, <2>3 DEF LedgerStep
<1>2. UNCHANGED <<factoryVars, keyVars, s_assetMinterInfo, frame, moneyVars>>
  BY DEF LedgerStep, TransferFrom, Approve, SetApprovalForAll
<1> QED
  BY <1>0, <1>1, <1>2
  DEF TypeInv, TypeOK, FactoryTypeOK, factoryVars, keyVars, moneyVars

LEMMA TypeInvFactory == ASSUME TypeInv, FactoryStep PROVE TypeInv'
<1>0. TypeOK /\ ERC721TypeOK /\ FactoryTypeOK /\ BalancesCountKeys
  BY DEF TypeInv, TypeOK
<1>1. FactoryTypeOK'
  <2>1. ASSUME NEW sender \in Accounts, NEW f \in Factories,
               NEW protocol \in Protocols, NEW t \in TokenIds,
               MintFactoryAsset(sender, f, protocol, t)
        PROVE  FactoryTypeOK'
    <3>1. PICK named \in NamedInfos(protocol, t) :
             MintAsset(sender, f, protocol, t, s_tokenIdToAsset[t], named)
      BY <2>1 DEF MintFactoryAsset
    <3>2. named \in AssetInfo
      <4>1. s_tokenIdToAsset[t] \in AssetInfo
        BY <1>0 DEF TypeOK
      <4>2. TokenIds \subseteq Nat
        BY AccountsAssumption DEF TokenIds
      <4> QED
        BY <4>1, <4>2 DEF NamedInfos, AssetInfo
    <3> QED
      BY <1>0, <3>1, <3>2, MintAssetTypes
  <2>2. ASSUME NEW sender \in Accounts, NEW f \in Factories, NEW uri \in URIs,
               SetFactoryURI(sender, f, uri)
        PROVE  FactoryTypeOK'
    BY <1>0, <2>2, FactoryStepTypes DEF SetFactoryURI
  <2>3. ASSUME NEW sender \in Accounts, NEW f \in Factories,
               AuditFactory(sender, f)
        PROVE  FactoryTypeOK'
    BY <1>0, <2>3, FactoryStepTypes DEF AuditFactory
  <2> QED
    BY <2>1, <2>2, <2>3 DEF FactoryStep
<1>2. UNCHANGED <<erc721Vars, keyVars, s_assetMinterInfo, frame, moneyVars>>
  BY DEF FactoryStep, MintFactoryAsset, SetFactoryURI, AuditFactory
<1> QED
  BY <1>0, <1>1, <1>2
  DEF TypeInv, TypeOK, ERC721TypeOK, BalancesCountKeys, erc721Vars, keyVars,
      moneyVars

LEMMA TypeInvStep == TypeInv /\ [Next]_vars => TypeInv'
<1> SUFFICES ASSUME TypeInv, [Next]_vars
             PROVE  TypeInv'
  OBVIOUS
<1>1. CASE UNCHANGED vars
  BY <1>1
  DEF TypeInv, TypeOK, ERC721TypeOK, FactoryTypeOK, BalancesCountKeys, vars,
      erc721Vars, factoryVars, keyVars, moneyVars
<1> QED
  BY <1>1, TypeInvMint, TypeInvWithdraw, TypeInvStatus, TypeInvLedger,
     TypeInvFactory DEF Next

\* The state stays within its types: no subtraction of the contracts goes
\* below zero and no key id, factory or token comes from nowhere.
THEOREM TypeCorrect == Spec => []TypeOK
<1>1. TypeInv => TypeOK
  BY DEF TypeInv
<1> QED
  BY <1>1, TypeInvInit, TypeInvStep, PTL DEF Spec

\* Every account's balance is the number of keys it owns, at every moment,
\* also while the recipient of a new key runs its code.
THEOREM BalancesExact == Spec => []BalancesCountKeys
<1>1. TypeInv => BalancesCountKeys
  BY DEF TypeInv
<1> QED
  BY <1>1, TypeInvInit, TypeInvStep, PTL DEF Spec

-----------------------------------------------------------------------------
(* Approvals                                                               *)

\* Only keys that have an owner are approved: a key that is minted meets no
\* approval left from before.
ApprovalInv ==
    /\ TypeInv
    /\ \A t \in TokenIds : tokenApprovals[t] # ZeroAddress => Exists(t)

ApprovalKept ==
    \A t \in TokenIds :
       tokenApprovals'[t] # ZeroAddress => Exists(t) /\ owners'[t] = owners[t]

LEMMA ApprovalSteps ==
    ASSUME ApprovalInv, Next
    PROVE  ApprovalKept
<1>0. ERC721TypeOK /\ AccountsOrZero = Accounts \cup {ZeroAddress}
  BY DEF ApprovalInv, TypeInv, TypeOK, AccountsOrZero
<1>1. ASSUME UNCHANGED erc721Vars
      PROVE  ApprovalKept
  BY <1>1 DEF ApprovalKept, ApprovalInv, erc721Vars
<1>2. ASSUME NEW to, NEW t0, Mint(to, t0)
      PROVE  ApprovalKept
  <2>1. /\ ~Exists(t0) /\ UNCHANGED tokenApprovals
        /\ \A t \in TokenIds : t # t0 => owners'[t] = owners[t]
    BY <1>0, <1>2 DEF Mint, ERC721TypeOK
  <2> QED
    BY <2>1 DEF ApprovalKept, ApprovalInv
<1>3. CASE MintStep
  <2>1. ASSUME NEW sender \in Accounts, NEW f \in Factories, NEW k \in FeeTokens,
               NEW fee \in MintFees, MintFactoryKey(sender, f, k, fee)
        PROVE  ApprovalKept
    BY <1>2, <2>1 DEF MintFactoryKey
  <2>2. ASSUME NEW sender \in Accounts, NEW f \in Factories,
               NEW transferable \in BOOLEAN, NEW mintTo \in AccountsOrZero,
               MintAssetKey(sender, f, transferable, mintTo)
        PROVE  ApprovalKept
    BY <1>2, <2>2 DEF MintAssetKey
  <2>3. ASSUME EndMintFactoryKey \/ EndMintAssetKey
        PROVE  ApprovalKept
    BY <1>1, <2>3 DEF EndMintFactoryKey, EndMintAssetKey
  <2> QED
    BY <1>3, <2>1, <2>2, <2>3 DEF MintStep
<1>4. CASE WithdrawStep
  BY <1>1, <1>4 DEF WithdrawStep, WithdrawFundiProceeds, WithdrawMintFeeProceeds
<1>5. CASE StatusStep
  BY <1>1, <1>5 DEF StatusStep, SetAssetFactoryStatus, VerifyContract, UpdateFlag
<1>6. CASE FactoryStep
  BY <1>1, <1>6 DEF FactoryStep, MintFactoryAsset, SetFactoryURI, AuditFactory
<1>7. CASE LedgerStep
  <2>1. ASSUME NEW sender \in Accounts, NEW to \in Accounts, NEW t0 \in TokenIds,
               TransferFrom(sender, to, t0)
        PROVE  ApprovalKept
    <3>1. /\ tokenApprovals'[t0] = ZeroAddress
          /\ \A t \in TokenIds : t # t0 => /\ tokenApprovals'[t] = tokenApprovals[t]
                                           /\ owners'[t] = owners[t]
      BY <1>0, <2>1 DEF TransferFrom, Transfer, ERC721TypeOK
    <3> QED
      BY <3>1 DEF ApprovalKept, ApprovalInv
  <2>2. ASSUME NEW sender \in Accounts, NEW to \in Delegates \cup {ZeroAddress},
               NEW t0 \in TokenIds, Approve(sender, to, t0)
        PROVE  ApprovalKept
    <3>1. /\ owners[t0] \in Accounts /\ UNCHANGED owners
          /\ \A t \in TokenIds : t # t0 => tokenApprovals'[t] = tokenApprovals[t]
      BY <1>0, <2>2 DEF Approve, ApproveKey, ERC721TypeOK
    <3>2. Exists(t0)
      BY <3>1, AccountsAssumption DEF Exists
    <3> QED
      BY <3>1, <3>2 DEF ApprovalKept, ApprovalInv
  <2>3. ASSUME NEW sender \in Accounts, NEW operator \in Delegates,
               NEW approved \in BOOLEAN, SetApprovalForAll(sender, operator, approved)
        PROVE  ApprovalKept
    BY <2>3 DEF SetApprovalForAll, ApproveOperator, ApprovalKept, ApprovalInv
  <2> QED
    BY <1>7, <2>1, <2>2, <2>3 DEF LedgerStep
<1> QED
  BY <1>3, <1>4, <1>5, <1>6, <1>7 DEF Next

LEMMA ApprovalInvStep == ApprovalInv /\ [Next]_vars => ApprovalInv'
<1> SUFFICES ASSUME ApprovalInv, [Next]_vars
             PROVE  ApprovalInv'
  OBVIOUS
<1>0. TypeInv'
  BY TypeInvStep DEF ApprovalInv
<1>1. CASE UNCHANGED vars
  BY <1>0, <1>1 DEF ApprovalInv, Exists, vars, erc721Vars
<1>2. CASE Next
  BY <1>0, <1>2, ApprovalSteps DEF ApprovalInv, ApprovalKept, Exists
<1> QED
  BY <1>1, <1>2

\* No approval outlives the ownership it was given under, and no key comes into
\* the world approved, also where the recipient's code runs inside the mint.
THEOREM ApprovalsEnd == Spec => ApprovalsEndWithOwnership
<1>1. Init => ApprovalInv
  BY TypeInvInit DEF Init, ERC721Init, ApprovalInv
<1>2. ApprovalInv /\ [Next]_vars => [ApprovalKept]_vars
  BY ApprovalSteps
<1> QED
  BY <1>1, <1>2, ApprovalInvStep, PTL
  DEF Spec, ApprovalsEndWithOwnership, ApprovalKept

-----------------------------------------------------------------------------
(* The struct kept for each factory: what a suspended mint can overwrite   *)

\* The ledger's and the factories' own steps, and stuttering, do not touch the
\* structs, the suspended call or the money.
LEMMA OtherSteps ==
    ASSUME LedgerStep \/ FactoryStep \/ UNCHANGED vars
    PROVE  UNCHANGED <<s_assetMinterInfo, frame, moneyVars>>
<1>1. CASE LedgerStep
  BY <1>1 DEF LedgerStep, TransferFrom, Approve, SetApprovalForAll
<1>2. CASE FactoryStep
  BY <1>2 DEF FactoryStep, MintFactoryAsset, SetFactoryURI, AuditFactory
<1>3. CASE UNCHANGED vars
  BY <1>3 DEF vars
<1> QED
  BY <1>1, <1>2, <1>3

\* A step of status changes nothing of a struct but active, flagged, verified.
LEMMA StatusSteps ==
    ASSUME TypeInv, StatusStep
    PROVE  /\ UNCHANGED <<frame, moneyVars>>
           /\ \A f \in Factories :
                 LET old == s_assetMinterInfo[f]
                     new == s_assetMinterInfo'[f]
                 IN  /\ new.contractAddress = old.contractAddress
                     /\ new.tokenId = old.tokenId
                     /\ new.factoryNum = old.factoryNum
                     /\ new.tokenAddress = old.tokenAddress
                     /\ new.tokenMintFee = old.tokenMintFee
                     /\ new.mintCount = old.mintCount
                     /\ \/ new.flagged = old.flagged /\ new.verified = old.verified
                        \/ /\ new.flagged = old.flagged /\ ~old.flagged
                           /\ new.verified
                           /\ old.mintCount >= MinMintCount
                        \/ /\ new.verified => old.verified /\ ~new.flagged
                           /\ Registered(f)
<1>0. s_assetMinterInfo \in [Factories -> MinterInfo]
  BY DEF TypeInv, TypeOK
<1>1. UNCHANGED <<frame, moneyVars>>
  BY DEF StatusStep, SetAssetFactoryStatus, VerifyContract, UpdateFlag
<1>2. PICK g \in Factories, b \in BOOLEAN :
         \/ s_assetMinterInfo' = [s_assetMinterInfo EXCEPT ![g].active = b]
         \/ /\ s_assetMinterInfo' = [s_assetMinterInfo EXCEPT ![g].verified = TRUE]
            /\ ~s_assetMinterInfo[g].flagged
            /\ s_assetMinterInfo[g].mintCount >= MinMintCount
         \/ /\ s_assetMinterInfo' =
                 [s_assetMinterInfo EXCEPT ![g].flagged = b,
                                           ![g].verified = @ /\ ~b]
            /\ Registered(g)
  BY DEF StatusStep, SetAssetFactoryStatus, VerifyContract, UpdateFlag
<1>3. ASSUME NEW f \in Factories
      PROVE  s_assetMinterInfo[f] \in MinterInfo
  BY <1>0
<1> QED
  BY <1>0, <1>1, <1>2, <1>3 DEF MinterInfo

-----------------------------------------------------------------------------
(* The copy and the stored struct                                          *)

StructInv == TypeInv /\ SuspendedCopyCurrent /\ UnregisteredHasNoHistory

LEMMA StructInvInit == Init => StructInv
<1> SUFFICES ASSUME Init
             PROVE  StructInv
  OBVIOUS
<1>1. SuspendedCopyCurrent
  BY DEF Init, SuspendedCopyCurrent
<1>2. UnregisteredHasNoHistory
  BY DEF Init, UnregisteredHasNoHistory, NoMinter
<1> QED
  BY <1>1, <1>2, TypeInvInit DEF StructInv

LEMMA StructInvMint == ASSUME StructInv, MintStep PROVE StructInv'
<1>0. /\ TypeInv /\ TypeInv' /\ TypeOK /\ SuspendedCopyCurrent
      /\ UnregisteredHasNoHistory
  BY TypeInvMint DEF StructInv, TypeInv
<1>1. ASSUME NEW sender \in Accounts, NEW f \in Factories,
             NEW k \in FeeTokens, NEW fee \in MintFees,
             MintFactoryKey(sender, f, k, fee)
      PROVE  StructInv'
  <2>1. SuspendedCopyCurrent'
    BY <1>1 DEF MintFactoryKey, SuspendedCopyCurrent, NoMinter, Registered
  <2>2. UnregisteredHasNoHistory'
    BY <1>0, <1>1 DEF MintFactoryKey, UnregisteredHasNoHistory, Registered
  <2> QED
    BY <1>0, <2>1, <2>2 DEF StructInv
<1>2. ASSUME EndMintFactoryKey
      PROVE  StructInv'
  <2>1. frame \in Frame /\ frame # NoFrame
    BY <1>0, <1>2, FrameIsCall DEF EndMintFactoryKey, NoFrame
  <2>2. SuspendedCopyCurrent'
    BY <1>2 DEF EndMintFactoryKey, SuspendedCopyCurrent
  <2>3. /\ frame.minter.contractAddress = frame.factory
        /\ frame.factory # ZeroAddress
        /\ frame.factory \in Factories
    BY <1>0, <1>2, <2>1, FactoriesAssumption
    DEF EndMintFactoryKey, SuspendedCopyCurrent, Frame
  <2>4. ASSUME NEW f \in Factories, ~Registered(f)'
        PROVE  f # frame.factory /\ s_assetMinterInfo'[f] = s_assetMinterInfo[f]
    BY <1>0, <1>2, <2>1, <2>3, <2>4
    DEF EndMintFactoryKey, Registered, TypeOK, Frame, MinterInfo
  <2>5. UnregisteredHasNoHistory'
    BY <1>0, <1>2, <2>4
    DEF EndMintFactoryKey, UnregisteredHasNoHistory, Registered, moneyVars
  <2> QED
    BY <1>0, <2>2, <2>5 DEF StructInv
<1>3. ASSUME NEW sender \in Accounts, NEW f \in Factories,
             NEW transferable \in BOOLEAN, NEW mintTo \in AccountsOrZero,
             MintAssetKey(sender, f, transferable, mintTo)
      PROVE  StructInv'
  <2>1. SuspendedCopyCurrent'
    BY <1>3
    DEF MintAssetKey, SuspendedCopyCurrent, FactoryAcceptsMints, Registered
  <2>2. UnregisteredHasNoHistory'
    BY <1>0, <1>3 DEF MintAssetKey, UnregisteredHasNoHistory, Registered
  <2> QED
    BY <1>0, <2>1, <2>2 DEF StructInv
<1>4. ASSUME EndMintAssetKey
      PROVE  StructInv'
  <2>1. frame \in Frame /\ frame # NoFrame
    BY <1>0, <1>4, FrameIsCall DEF EndMintAssetKey, NoFrame
  <2>2. SuspendedCopyCurrent'
    BY <1>4 DEF EndMintAssetKey, SuspendedCopyCurrent
  <2>3. frame.minter.contractAddress # ZeroAddress /\ frame.factory \in Factories
    BY <1>0, <1>4, <2>1
    DEF EndMintAssetKey, SuspendedCopyCurrent, Registered, Frame
  <2>4. ASSUME NEW f \in Factories, ~Registered(f)'
        PROVE  f # frame.factory /\ s_assetMinterInfo'[f] = s_assetMinterInfo[f]
    BY <1>0, <1>4, <2>1, <2>3, <2>4
    DEF EndMintAssetKey, Registered, TypeOK, Frame, MinterInfo
  <2>5. UnregisteredHasNoHistory'
    BY <1>0, <1>4, <2>4
    DEF EndMintAssetKey, UpdateProceeds, UnregisteredHasNoHistory, Registered,
        TypeOK
  <2> QED
    BY <1>0, <2>2, <2>5 DEF StructInv
<1> QED
  BY <1>1, <1>2, <1>3, <1>4 DEF MintStep

LEMMA StructInvWithdraw == ASSUME StructInv, WithdrawStep PROVE StructInv'
<1>0. /\ TypeInv /\ TypeInv' /\ TypeOK /\ SuspendedCopyCurrent
      /\ UnregisteredHasNoHistory
  BY TypeInvWithdraw DEF StructInv, TypeInv
<1>1. ASSUME NEW sender \in Accounts, NEW f \in Factories,
             NEW amount \in Amounts, WithdrawFundiProceeds(sender, f, amount)
      PROVE  StructInv'
  <2>1. SuspendedCopyCurrent'
    BY <1>0, <1>1
    DEF WithdrawFundiProceeds, SuspendedCopyCurrent, Registered
  <2>2. UnregisteredHasNoHistory'
    BY <1>0, <1>1
    DEF WithdrawFundiProceeds, ProceedsAvailable, UnregisteredHasNoHistory,
        Registered, TypeOK
  <2> QED
    BY <1>0, <2>1, <2>2 DEF StructInv
<1>2. ASSUME NEW sender \in Accounts, NEW f \in Factories,
             NEW amount \in Amounts, NEW paid \in BOOLEAN,
             WithdrawMintFeeProceeds(sender, f, amount, paid)
      PROVE  StructInv'
  <2>1. SuspendedCopyCurrent'
    BY <1>0, <1>2
    DEF WithdrawMintFeeProceeds, SuspendedCopyCurrent, Registered
  <2>2. UnregisteredHasNoHistory'
    BY <1>0, <1>2
    DEF WithdrawMintFeeProceeds, ProceedsAvailable, UnregisteredHasNoHistory,
        Registered, TypeOK
  <2> QED
    BY <1>0, <2>1, <2>2 DEF StructInv
<1> QED
  BY <1>1, <1>2 DEF WithdrawStep

LEMMA StructInvStatus == ASSUME StructInv, StatusStep PROVE StructInv'
<1>0. /\ TypeInv /\ TypeInv' /\ TypeOK /\ SuspendedCopyCurrent
      /\ UnregisteredHasNoHistory
  BY TypeInvStatus DEF StructInv, TypeInv
<1>1. SuspendedCopyCurrent'
  <2> SUFFICES ASSUME frame # NoFrame
               PROVE  SuspendedCopyCurrent'
    BY StatusSteps, <1>0 DEF SuspendedCopyCurrent
  <2>1. frame.factory \in Factories /\ frame' = frame
    BY <1>0, FrameIsCall, StatusSteps DEF Frame
  <2> QED
    BY <1>0, <2>1, StatusSteps DEF SuspendedCopyCurrent, Registered
<1>2. UnregisteredHasNoHistory'
  <2> SUFFICES ASSUME NEW f \in Factories, ~Registered(f)'
               PROVE  LET info == s_assetMinterInfo'[f]
                      IN  /\ info.mintCount = 0
                          /\ ~info.flagged
                          /\ ~info.verified
                          /\ s_factoryProceeds'[f] = 0
                          /\ s_factoryFeeProceeds'[f] = 0
    BY DEF UnregisteredHasNoHistory
  <2>1. ~Registered(f)
    BY <1>0, StatusSteps DEF Registered
  <2>2. /\ s_assetMinterInfo[f].mintCount = 0
        /\ ~s_assetMinterInfo[f].flagged
        /\ ~s_assetMinterInfo[f].verified
        /\ s_factoryProceeds[f] = 0
        /\ s_factoryFeeProceeds[f] = 0
    BY <1>0, <2>1 DEF UnregisteredHasNoHistory
  <2>3. ~(s_assetMinterInfo[f].mintCount >= MinMintCount)
    BY <2>2, ProtocolAssumption
  <2>4. s_assetMinterInfo'[f].mintCount = 0
    BY <1>0, <2>2, StatusSteps
  <2>5. ~s_assetMinterInfo'[f].flagged /\ ~s_assetMinterInfo'[f].verified
    BY <1>0, <2>1, <2>2, <2>3, StatusSteps
  <2>6. s_factoryProceeds'[f] = 0 /\ s_factoryFeeProceeds'[f] = 0
    BY <1>0, <2>2, StatusSteps DEF moneyVars
  <2> QED
    BY <2>4, <2>5, <2>6
<1> QED
  BY <1>0, <1>1, <1>2 DEF StructInv

LEMMA StructInvStep == StructInv /\ [Next]_vars => StructInv'
<1> SUFFICES ASSUME StructInv, [Next]_vars
             PROVE  StructInv'
  OBVIOUS
<1>1. CASE LedgerStep \/ FactoryStep \/ UNCHANGED vars
  <2>1. TypeInv'
    BY <1>1, TypeInvStep DEF StructInv
  <2> QED
    BY <1>1, <2>1, OtherSteps
    DEF StructInv, SuspendedCopyCurrent, UnregisteredHasNoHistory, Registered,
        moneyVars
<1> QED
  BY <1>1, StructInvMint, StructInvWithdraw, StructInvStatus DEF Next

\* Whatever runs inside a mint, its copy of the struct can overwrite nothing
\* but the status: counts, fees and registration are what storage holds.
THEOREM CopyCurrent == Spec => []SuspendedCopyCurrent
<1>1. StructInv => SuspendedCopyCurrent
  BY DEF StructInv
<1> QED
  BY <1>1, StructInvInit, StructInvStep, PTL DEF Spec

\* A factory that is not registered has no mints, no money and no status.
THEOREM NoHistoryBeforeRegistration == Spec => []UnregisteredHasNoHistory
<1>1. StructInv => UnregisteredHasNoHistory
  BY DEF StructInv
<1> QED
  BY <1>1, StructInvInit, StructInvStep, PTL DEF Spec

-----------------------------------------------------------------------------
(* The rules of status                                                     *)

\* A struct that is verified has earned it and is not flagged.
RulesKept(info) == info.verified => ~info.flagged /\ info.mintCount >= MinMintCount

\* The rules must hold of the copy as well: the end of the mint stores it.
StatusInv ==
    /\ TypeInv
    /\ \A f \in Factories : RulesKept(s_assetMinterInfo[f])
    /\ frame # NoFrame => RulesKept(frame.minter)

LEMMA StatusInvInit == Init => StatusInv
<1> SUFFICES ASSUME Init
             PROVE  StatusInv
  OBVIOUS
<1>1. RulesKept(NoMinter)
  BY DEF RulesKept, NoMinter
<1> QED
  BY <1>1, TypeInvInit DEF Init, StatusInv

LEMMA StatusInvMint == ASSUME StatusInv, MintStep PROVE StatusInv'
<1>0. TypeInv /\ TypeInv' /\ TypeOK /\ s_assetMinterInfo \in [Factories -> MinterInfo]
  BY TypeInvMint DEF StatusInv, TypeInv, TypeOK
<1>1. ASSUME NEW sender \in Accounts, NEW f \in Factories,
             NEW k \in FeeTokens, NEW fee \in MintFees,
             MintFactoryKey(sender, f, k, fee)
      PROVE  StatusInv'
  <2>1. UNCHANGED s_assetMinterInfo /\ ~frame'.minter.verified
    BY <1>1 DEF MintFactoryKey, NoMinter
  <2> QED
    BY <1>0, <2>1 DEF StatusInv, RulesKept
<1>2. ASSUME EndMintFactoryKey
      PROVE  StatusInv'
  <2>1. frame \in Frame /\ RulesKept(frame.minter)
    BY <1>0, <1>2, FrameIsCall DEF StatusInv, EndMintFactoryKey, NoFrame
  <2> DEFINE written == [frame.minter EXCEPT !.factoryNum = s_assetMinterCounter]
  <2>2. RulesKept(written)
    BY <2>1 DEF Frame, MinterInfo, RulesKept
  <2>3. /\ s_assetMinterInfo' = [s_assetMinterInfo EXCEPT ![frame.factory] = written]
        /\ frame' = NoFrame
    BY <1>2 DEF EndMintFactoryKey
  <2> HIDE DEF written
  <2> QED
    BY <1>0, <2>2, <2>3 DEF StatusInv
<1>3. ASSUME NEW sender \in Accounts, NEW f \in Factories,
             NEW transferable \in BOOLEAN, NEW mintTo \in AccountsOrZero,
             MintAssetKey(sender, f, transferable, mintTo)
      PROVE  StatusInv'
  <2>1. UNCHANGED s_assetMinterInfo /\ frame'.minter = s_assetMinterInfo[f]
    BY <1>3 DEF MintAssetKey
  <2> QED
    BY <1>0, <2>1 DEF StatusInv
<1>4. ASSUME EndMintAssetKey
      PROVE  StatusInv'
  <2>1. frame \in Frame /\ RulesKept(frame.minter)
    BY <1>0, <1>4, FrameIsCall DEF StatusInv, EndMintAssetKey, NoFrame
  <2> DEFINE written == [frame.minter EXCEPT !.mintCount = @ + 1]
  <2>2. RulesKept(written)
    <3>1. /\ frame.minter.mintCount \in Nat
          /\ written.mintCount = frame.minter.mintCount + 1
          /\ written.verified = frame.minter.verified
          /\ written.flagged = frame.minter.flagged
      BY <2>1 DEF Frame, MinterInfo
    <3>2. frame.minter.mintCount >= MinMintCount =>
             written.mintCount >= MinMintCount
      BY <3>1, ProtocolAssumption
    <3> HIDE DEF written
    <3> QED
      BY <2>1, <3>1, <3>2 DEF RulesKept
  <2>3. /\ s_assetMinterInfo' = [s_assetMinterInfo EXCEPT ![frame.factory] = written]
        /\ frame' = NoFrame
    BY <1>4 DEF EndMintAssetKey
  <2> HIDE DEF written
  <2> QED
    BY <1>0, <2>2, <2>3 DEF StatusInv
<1> QED
  BY <1>1, <1>2, <1>3, <1>4 DEF MintStep

LEMMA StatusInvStatus == ASSUME StatusInv, StatusStep PROVE StatusInv'
<1>0. TypeInv /\ TypeInv'
  BY TypeInvStatus DEF StatusInv
<1>1. ASSUME NEW f \in Factories
      PROVE  RulesKept(s_assetMinterInfo'[f])
  <2>1. RulesKept(s_assetMinterInfo[f])
    BY DEF StatusInv
  <2>2. s_assetMinterInfo'[f].mintCount = s_assetMinterInfo[f].mintCount
    BY <1>0, StatusSteps
  <2>3. s_assetMinterInfo'[f].verified =>
           \/ /\ s_assetMinterInfo[f].verified
              /\ s_assetMinterInfo'[f].flagged => s_assetMinterInfo[f].flagged
           \/ /\ ~s_assetMinterInfo'[f].flagged
              /\ s_assetMinterInfo[f].mintCount >= MinMintCount
    BY <1>0, StatusSteps
  <2> QED
    BY <2>1, <2>2, <2>3 DEF RulesKept
<1>2. UNCHANGED frame
  BY <1>0, StatusSteps
<1> QED
  BY <1>0, <1>1, <1>2 DEF StatusInv

LEMMA StatusInvStep == StatusInv /\ [Next]_vars => StatusInv'
<1> SUFFICES ASSUME StatusInv, [Next]_vars
             PROVE  StatusInv'
  OBVIOUS
<1>1. CASE UNCHANGED <<s_assetMinterInfo, frame>>
  BY <1>1, TypeInvStep DEF StatusInv
<1>2. CASE WithdrawStep
  BY <1>1, <1>2
  DEF WithdrawStep, WithdrawFundiProceeds, WithdrawMintFeeProceeds
<1>3. CASE LedgerStep \/ FactoryStep \/ UNCHANGED vars
  BY <1>1, <1>3, OtherSteps
<1> QED
  BY <1>2, <1>3, StatusInvMint, StatusInvStatus DEF Next

\* A verified factory is not flagged and has minted the minimum number of keys,
\* although a mint that ends after a flag was set writes the status back as it
\* was when the mint began.
THEOREM VerificationEarned == Spec => []VerificationStands
<1>1. StatusInv => VerificationStands
  BY DEF StatusInv, RulesKept, VerificationStands
<1> QED
  BY <1>1, StatusInvInit, StatusInvStep, PTL DEF Spec

-----------------------------------------------------------------------------
(* Who changes a status                                                    *)

\* While no code of a recipient runs, the copy of the suspended mint is the
\* stored struct; that of a factory's own key has no status to write.
SuspendedStatus ==
    frame # NoFrame =>
        /\ frame.kind = "asset" /\ frame.to \notin Contracts =>
              frame.minter = s_assetMinterInfo[frame.factory]
        /\ frame.kind = "factory" => ~frame.minter.flagged /\ ~frame.minter.verified

SameStatus(new, old) == /\ new.flagged <=> old.flagged
                        /\ new.verified <=> old.verified

LEMMA StatusDiffers ==
    ASSUME TypeInv, TypeInv', NEW f \in Factories,
           StatusOf(s_assetMinterInfo'[f]) # StatusOf(s_assetMinterInfo[f])
    PROVE  ~SameStatus(s_assetMinterInfo'[f], s_assetMinterInfo[f])
<1>1. s_assetMinterInfo[f] \in MinterInfo /\ s_assetMinterInfo'[f] \in MinterInfo
  BY DEF TypeInv, TypeOK
<1>2. /\ s_assetMinterInfo[f].flagged \in BOOLEAN
      /\ s_assetMinterInfo[f].verified \in BOOLEAN
      /\ s_assetMinterInfo'[f].flagged \in BOOLEAN
      /\ s_assetMinterInfo'[f].verified \in BOOLEAN
  BY <1>1 DEF MinterInfo
<1>3. \/ s_assetMinterInfo'[f].flagged # s_assetMinterInfo[f].flagged
      \/ s_assetMinterInfo'[f].verified # s_assetMinterInfo[f].verified
  BY DEF StatusOf
<1> QED
  BY <1>2, <1>3 DEF SameStatus

LEMMA SuspendedStatusStep ==
    ASSUME StructInv, SuspendedStatus, [Next]_vars
    PROVE  SuspendedStatus'
<1>1. CASE MintStep
  <2>1. ASSUME NEW sender \in Accounts, NEW f \in Factories,
               NEW k \in FeeTokens, NEW fee \in MintFees,
               MintFactoryKey(sender, f, k, fee)
        PROVE  SuspendedStatus'
    BY <2>1 DEF MintFactoryKey, SuspendedStatus, NoMinter
  <2>2. ASSUME NEW sender \in Accounts, NEW f \in Factories,
               NEW transferable \in BOOLEAN, NEW mintTo \in AccountsOrZero,
               MintAssetKey(sender, f, transferable, mintTo)
        PROVE  SuspendedStatus'
    BY <2>2 DEF MintAssetKey, SuspendedStatus
  <2>3. ASSUME EndMintFactoryKey \/ EndMintAssetKey
        PROVE  SuspendedStatus'
    BY <2>3 DEF EndMintFactoryKey, EndMintAssetKey, SuspendedStatus
  <2> QED
    BY <1>1, <2>1, <2>2, <2>3 DEF MintStep
<1>2. CASE WithdrawStep
  BY <1>2 DEF WithdrawStep, WithdrawFundiProceeds, WithdrawMintFeeProceeds,
              SuspendedStatus
<1>3. CASE StatusStep
  <2>1. frame' = frame /\ (frame # NoFrame => frame.to \in Contracts)
    BY <1>3 DEF StatusStep, SetAssetFactoryStatus, VerifyContract, UpdateFlag,
                MayCall
  <2> QED
    BY <2>1 DEF SuspendedStatus
<1>4. CASE LedgerStep \/ FactoryStep \/ UNCHANGED vars
  BY <1>4, OtherSteps DEF SuspendedStatus
<1> QED
  BY <1>1, <1>2, <1>3, <1>4 DEF Next

\* The steps after which the status of a factory is another.
LEMMA StatusWrites ==
    ASSUME StructInv, SuspendedStatus, [Next]_vars, NEW f \in Factories,
           StatusOf(s_assetMinterInfo'[f]) # StatusOf(s_assetMinterInfo[f])
    PROVE  \/ DAOWritesStatus(f)
           \/ InFlight("asset", f) /\ frame.to \in Contracts /\ EndMintAssetKey
<1> DEFINE old == s_assetMinterInfo[f]
           new == s_assetMinterInfo'[f]
<1>0. /\ TypeInv /\ TypeInv' /\ TypeOK
      /\ SuspendedCopyCurrent /\ UnregisteredHasNoHistory
      /\ s_assetMinterInfo \in [Factories -> MinterInfo]
  BY StructInvStep, TypeInvStep DEF StructInv, TypeInv, TypeOK
<1>1. ~SameStatus(new, old)
  BY <1>0, StatusDiffers
<1>2. CASE StatusStep
  <2>1. PICK g \in Factories, b \in BOOLEAN :
           \/ \E sender \in Accounts \cup Factories :
                 SetAssetFactoryStatus(sender, g, b)
           \/ VerifyContract(g)
           \/ UpdateFlag(g, b)
    BY <1>2 DEF StatusStep
  <2>2. CASE \E sender \in Accounts \cup Factories :
                SetAssetFactoryStatus(sender, g, b)
    <3>1. s_assetMinterInfo' = [s_assetMinterInfo EXCEPT ![g].active = b]
      BY <2>2 DEF SetAssetFactoryStatus
    <3>2. SameStatus(new, old)
      BY <1>0, <3>1 DEF SameStatus, MinterInfo
    <3> QED
      BY <1>1, <3>2
  <2>3. CASE VerifyContract(g)
    <3>1. s_assetMinterInfo' = [s_assetMinterInfo EXCEPT ![g].verified = TRUE]
      BY <2>3 DEF VerifyContract
    <3>2. CASE g # f
      BY <1>0, <1>1, <3>1, <3>2 DEF SameStatus
    <3> QED
      BY <2>3, <3>2 DEF DAOWritesStatus
  <2>4. CASE UpdateFlag(g, b)
    <3>1. s_assetMinterInfo' =
             [s_assetMinterInfo EXCEPT ![g].flagged = b, ![g].verified = @ /\ ~b]
      BY <2>4 DEF UpdateFlag
    <3>2. CASE g # f
      BY <1>0, <1>1, <3>1, <3>2 DEF SameStatus
    <3> QED
      BY <2>4, <3>2 DEF DAOWritesStatus
  <2> QED
    BY <2>1, <2>2, <2>3, <2>4
<1>3. CASE MintStep
  <2>1. \/ EndMintFactoryKey \/ EndMintAssetKey
        \/ UNCHANGED s_assetMinterInfo
    BY <1>3 DEF MintStep, MintFactoryKey, MintAssetKey
  <2>2. CASE EndMintFactoryKey
    <3>1. /\ frame \in Frame /\ frame # NoFrame
          /\ frame.factory \in Factories /\ frame.kind = "factory"
          /\ frame.minter \in MinterInfo
      BY <1>0, <2>2, FrameIsCall DEF EndMintFactoryKey, NoFrame, Frame
    <3>2. s_assetMinterInfo' =
            [s_assetMinterInfo EXCEPT ![frame.factory] =
               [frame.minter EXCEPT !.factoryNum = s_assetMinterCounter]]
      BY <2>2 DEF EndMintFactoryKey
    <3>3. /\ ~frame.minter.flagged /\ ~frame.minter.verified
          /\ ~s_assetMinterInfo[frame.factory].flagged
          /\ ~s_assetMinterInfo[frame.factory].verified
      BY <1>0, <3>1
      DEF SuspendedStatus, SuspendedCopyCurrent, UnregisteredHasNoHistory
    <3>4. SameStatus(new, old)
      BY <1>0, <3>1, <3>2, <3>3 DEF SameStatus, MinterInfo
    <3> QED
      BY <1>1, <3>4
  <2>3. CASE EndMintAssetKey
    <3>1. /\ frame \in Frame /\ frame # NoFrame
          /\ frame.factory \in Factories /\ frame.kind = "asset"
          /\ frame.minter \in MinterInfo
      BY <1>0, <2>3, FrameIsCall DEF EndMintAssetKey, NoFrame, Frame
    <3>2. s_assetMinterInfo' =
            [s_assetMinterInfo EXCEPT ![frame.factory] =
               [frame.minter EXCEPT !.mintCount = @ + 1]]
      BY <2>3 DEF EndMintAssetKey
    <3>3. f = frame.factory
      BY <1>0, <1>1, <3>2 DEF SameStatus
    <3>4. CASE frame.to \notin Contracts
      <4>1. frame.minter = old
        BY <3>1, <3>3, <3>4 DEF SuspendedStatus
      <4>2. SameStatus(new, old)
        BY <1>0, <3>1, <3>2, <3>3, <4>1 DEF SameStatus, MinterInfo
      <4> QED
        BY <1>1, <4>2
    <3> QED
      BY <2>3, <3>1, <3>3, <3>4 DEF InFlight
  <2>4. CASE UNCHANGED s_assetMinterInfo
    BY <1>1, <2>4 DEF SameStatus
  <2> QED
    BY <2>1, <2>2, <2>3, <2>4
<1>4. CASE WithdrawStep
  <2>1. UNCHANGED s_assetMinterInfo
    BY <1>4 DEF WithdrawStep, WithdrawFundiProceeds, WithdrawMintFeeProceeds
  <2> QED
    BY <1>1, <2>1 DEF SameStatus
<1>5. CASE LedgerStep \/ FactoryStep \/ UNCHANGED vars
  BY <1>1, <1>5, OtherSteps DEF SameStatus
<1> QED
  BY <1>2, <1>3, <1>4, <1>5 DEF Next

LEMMA SuspendedStatusInit == Init => SuspendedStatus
BY DEF Init, SuspendedStatus

\* A decision of the DAO about a factory is undone by the DAO, or by the end of
\* a mint in which code of the recipient ran.
THEOREM StatusKeptOutsideCallbacks == Spec => StatusLostOnlyInCallback
<1> DEFINE Kept ==
             \A f \in Factories :
                StatusOf(s_assetMinterInfo'[f]) # StatusOf(s_assetMinterInfo[f]) =>
                   \/ DAOWritesStatus(f)
                   \/ InFlight("asset", f) /\ frame.to \in Contracts /\ EndMintAssetKey
<1>1. StructInv /\ SuspendedStatus /\ [Next]_vars => [Kept]_vars
  BY StatusWrites
<1>2. StructInv /\ SuspendedStatus /\ [Next]_vars => SuspendedStatus'
  BY SuspendedStatusStep
<1> QED
  BY <1>1, <1>2, StructInvInit, StructInvStep, SuspendedStatusInit, PTL
  DEF Spec, StatusLostOnlyInCallback

\* Where no recipient has code, the status of a factory is the DAO's alone.
THEOREM StatusIsOfDAO ==
    ASSUME Contracts = {}
    PROVE  Spec => StatusChangedByDAO
<1> DEFINE ByDAO ==
             \A f \in Factories :
                StatusOf(s_assetMinterInfo'[f]) # StatusOf(s_assetMinterInfo[f]) =>
                   DAOWritesStatus(f)
<1>1. StructInv /\ SuspendedStatus /\ [Next]_vars => [ByDAO]_vars
  BY StatusWrites
<1>2. StructInv /\ SuspendedStatus /\ [Next]_vars => SuspendedStatus'
  BY SuspendedStatusStep
<1> QED
  BY <1>1, <1>2, StructInvInit, StructInvStep, SuspendedStatusInit, PTL
  DEF Spec, StatusChangedByDAO
=============================================================================
