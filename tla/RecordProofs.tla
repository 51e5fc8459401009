---------------------------- MODULE RecordProofs ----------------------------
(***************************************************************************)
(* Proofs about what protocol, factories and asset contracts record of one *)
(* another: the numbering and the kinds of keys, registrations, slots and  *)
(* deployments.                                                            *)
(***************************************************************************)
EXTENDS ProtocolProofs, SequenceTheorems

RegisteredFactories == {f \in Factories : Registered(f)}

-----------------------------------------------------------------------------
(* The numbering of keys                                                   *)

\* The suspended mint holds the key that is next in number; a factory is told
\* of no more keys than there are, so that its slots never run out.
Numbering ==
    /\ frame # NoFrame => frame.tokenId = s_tokenCounter
    /\ frame # NoFrame /\ frame.kind = "factory" =>
          frame.minter.tokenId = frame.tokenId
    /\ \A f \in Factories : s_assetCounter[f] <= Issued
    /\ Issued <= MaxTokens

NumberingInv == StructInv /\ Numbering /\ KeysConsecutive

LEMMA NumberingInit == Init => NumberingInv
<1> SUFFICES ASSUME Init
             PROVE  NumberingInv
  OBVIOUS
<1>1. Issued = 0
  BY DEF Init, Issued
<1>2. Numbering
  BY <1>1, AccountsAssumption DEF Init, FactoryInit, Numbering
<1>3. KeysConsecutive
  <2>1. \A t \in TokenIds : ~(t < 0)
    BY DEF TokenIds
  <2> QED
    BY <1>1, <2>1 DEF Init, ERC721Init, KeysConsecutive, Exists
<1> QED
  BY <1>2, <1>3, StructInvInit DEF NumberingInv

\* A mint begins: the next key gets an owner.
LEMMA NumberingBegins ==
    ASSUME NumberingInv, frame = NoFrame, frame' # NoFrame,
           s_tokenCounter \in TokenIds, UNCHANGED s_tokenCounter,
           NEW to \in Accounts, Mint(to, s_tokenCounter)
    PROVE  /\ Issued = s_tokenCounter /\ Issued' = s_tokenCounter + 1
           /\ Issued' <= MaxTokens /\ KeysConsecutive'
<1>0. TypeOK /\ KeysConsecutive /\ s_tokenCounter \in Nat
  BY DEF NumberingInv, StructInv, TypeInv, TypeOK
<1>1. Issued = s_tokenCounter /\ Issued' = s_tokenCounter + 1
  BY DEF Issued
<1>2. ASSUME NEW t \in TokenIds
      PROVE  Exists(t)' <=> t < s_tokenCounter + 1
  <2>1. Exists(t) <=> t < s_tokenCounter
    BY <1>0, <1>1 DEF KeysConsecutive
  <2>2. Exists(t)' <=> Exists(t) \/ t = s_tokenCounter
    BY <1>0, AccountsAssumption DEF Mint, Exists, TypeOK, ERC721TypeOK
  <2>3. t \in Int
    BY DEF TokenIds
  <2> QED
    BY <1>0, <2>1, <2>2, <2>3
<1>3. s_tokenCounter + 1 <= MaxTokens
  BY AccountsAssumption DEF TokenIds
<1> QED
  BY <1>1, <1>2, <1>3 DEF KeysConsecutive

\* A mint ends: the counter counts its key.
LEMMA NumberingEnds ==
    ASSUME NumberingInv, frame # NoFrame, frame' = NoFrame, UNCHANGED owners,
           s_tokenCounter' = frame.tokenId + 1
    PROVE  Issued' = Issued /\ KeysConsecutive'
BY DEF NumberingInv, Numbering, Issued, KeysConsecutive, Exists

LEMMA NumberingMint == ASSUME NumberingInv, MintStep PROVE NumberingInv'
<1>0. /\ StructInv /\ StructInv' /\ TypeOK /\ Numbering /\ KeysConsecutive
      /\ s_tokenCounter \in Nat /\ s_assetCounter \in [Factories -> Nat]
  BY StructInvMint DEF NumberingInv, StructInv, TypeInv, TypeOK, FactoryTypeOK
<1>1. ASSUME NEW sender \in Accounts, NEW f \in Factories,
             NEW k \in FeeTokens, NEW fee \in MintFees,
             MintFactoryKey(sender, f, k, fee)
      PROVE  NumberingInv'
  <2>1. /\ frame = NoFrame /\ s_tokenCounter \in TokenIds
        /\ frame'.tokenId = s_tokenCounter /\ frame'.minter.tokenId = s_tokenCounter
        /\ UNCHANGED <<s_tokenCounter, s_assetCounter>>
        /\ Mint(sender, s_tokenCounter)
    BY <1>0, <1>1, NextTokenId
    DEF MintFactoryKey, NonReentrant, NoMinter, keyVars, SetFundiTokenId
  <2>2. frame' # NoFrame
    BY <1>1 DEF MintFactoryKey, NoFrame
  <2>3. /\ Issued = s_tokenCounter /\ Issued' = s_tokenCounter + 1
        /\ Issued' <= MaxTokens /\ KeysConsecutive'
    BY <2>1, <2>2, NumberingBegins
  <2>4. \A g \in Factories : s_assetCounter'[g] <= Issued'
    BY <1>0, <2>1, <2>3 DEF Numbering
  <2> QED
    BY <1>0, <2>1, <2>3, <2>4 DEF NumberingInv, Numbering
<1>2. ASSUME EndMintFactoryKey
      PROVE  NumberingInv'
  <2>1. /\ frame # NoFrame /\ frame' = NoFrame
        /\ s_tokenCounter' = frame.tokenId + 1
        /\ UNCHANGED <<owners, s_assetCounter>>
    BY <1>2 DEF EndMintFactoryKey, NoFrame, erc721Vars, factoryVars
  <2>2. Issued' = Issued /\ KeysConsecutive'
    BY <2>1, NumberingEnds
  <2> QED
    BY <1>0, <2>1, <2>2 DEF NumberingInv, Numbering
<1>3. ASSUME NEW sender \in Accounts, NEW f \in Factories,
             NEW transferable \in BOOLEAN, NEW mintTo \in AccountsOrZero,
             MintAssetKey(sender, f, transferable, mintTo)
      PROVE  NumberingInv'
  <2> DEFINE to == IF mintTo = ZeroAddress THEN sender ELSE mintTo
  <2>1. /\ frame = NoFrame /\ s_tokenCounter \in TokenIds /\ to \in Accounts
        /\ frame'.tokenId = s_tokenCounter /\ frame'.kind = "asset"
        /\ UNCHANGED s_tokenCounter
        /\ s_assetCounter' = [s_assetCounter EXCEPT ![f] = @ + 1]
        /\ Mint(to, s_tokenCounter)
    BY <1>0, <1>3, NextTokenId
    DEF MintAssetKey, NonReentrant, AccountsOrZero, MintFundiFactoryAsset
  <2>2. frame' # NoFrame
    BY <1>3 DEF MintAssetKey, NoFrame
  <2>3. /\ Issued = s_tokenCounter /\ Issued' = s_tokenCounter + 1
        /\ Issued' <= MaxTokens /\ KeysConsecutive'
    BY <2>1, <2>2, NumberingBegins
  <2>4. \A g \in Factories : s_assetCounter'[g] <= Issued'
    BY <1>0, <2>1, <2>3 DEF Numbering
  <2> QED
    BY <1>0, <2>1, <2>3, <2>4 DEF NumberingInv, Numbering
<1>4. ASSUME EndMintAssetKey
      PROVE  NumberingInv'
  <2>1. /\ frame # NoFrame /\ frame' = NoFrame
        /\ s_tokenCounter' = frame.tokenId + 1
        /\ UNCHANGED <<owners, s_assetCounter>>
    BY <1>4 DEF EndMintAssetKey, NoFrame, erc721Vars, factoryVars
  <2>2. Issued' = Issued /\ KeysConsecutive'
    BY <2>1, NumberingEnds
  <2> QED
    BY <1>0, <2>1, <2>2 DEF NumberingInv, Numbering
<1> QED
  BY <1>1, <1>2, <1>3, <1>4 DEF MintStep

-----------------------------------------------------------------------------
(* What the steps that are no mints leave alone                            *)

\* What the struct of factory f keeps until the factory's next mint.
Identity(f) ==
    LET info == s_assetMinterInfo[f]
    IN  <<info.contractAddress, info.tokenId, info.factoryNum, info.mintCount>>

\* Between mints nothing happens to keys, registrations and their numbers.
Quiet ==
    /\ UNCHANGED <<keyVars, frame, i_fundiTokenId, isFundiFactory, s_assetCounter>>
    /\ \A t \in TokenIds : Exists(t)' <=> Exists(t)
    /\ \A f \in Factories : UNCHANGED Identity(f)

LEMMA QuietSteps ==
    ASSUME TypeInv, [Next]_vars, ~MintStep
    PROVE  Quiet
<1>0. TypeOK
  BY DEF TypeInv
<1>1. CASE WithdrawStep \/ UNCHANGED vars
  <2>1. UNCHANGED <<erc721Vars, factoryVars, keyVars, frame, s_assetMinterInfo>>
    BY <1>1
    DEF WithdrawStep, WithdrawFundiProceeds, WithdrawMintFeeProceeds, vars
  <2> QED
    BY <2>1 DEF Quiet, erc721Vars, factoryVars, Exists, Identity
<1>2. CASE StatusStep
  <2>1. UNCHANGED <<erc721Vars, factoryVars, keyVars, frame>>
    BY <1>2 DEF StatusStep, SetAssetFactoryStatus, VerifyContract, UpdateFlag
  <2>2. \A f \in Factories : UNCHANGED Identity(f)
    BY <1>2, StatusSteps DEF Identity
  <2> QED
    BY <2>1, <2>2 DEF Quiet, erc721Vars, factoryVars, Exists
<1>3. CASE FactoryStep
  <2>1. UNCHANGED <<frame, s_assetMinterInfo>>
    BY <1>3, OtherSteps
  <2>2. UNCHANGED <<erc721Vars, keyVars>>
    BY <1>3 DEF FactoryStep, MintFactoryAsset, SetFactoryURI, AuditFactory
  <2>3. UNCHANGED <<i_fundiTokenId, isFundiFactory, s_assetCounter>>
    <3>1. PICK sender \in Accounts, f \in Factories :
             \/ \E protocol \in Protocols, t \in TokenIds :
                   MintFactoryAsset(sender, f, protocol, t)
             \/ \E uri \in URIs : SetFactoryURI(sender, f, uri)
             \/ AuditFactory(sender, f)
      BY <1>3 DEF FactoryStep
    <3>2. ASSUME NEW protocol \in Protocols, NEW t \in TokenIds,
                 MintFactoryAsset(sender, f, protocol, t)
          PROVE  UNCHANGED <<i_fundiTokenId, isFundiFactory, s_assetCounter>>
      BY <3>2 DEF MintFactoryAsset, MintAsset
    <3>3. ASSUME NEW uri \in URIs, SetFactoryURI(sender, f, uri)
          PROVE  UNCHANGED <<i_fundiTokenId, isFundiFactory, s_assetCounter>>
      BY <3>3 DEF SetFactoryURI, SetContractURI
    <3>4. ASSUME AuditFactory(sender, f)
          PROVE  UNCHANGED <<i_fundiTokenId, isFundiFactory, s_assetCounter>>
      BY <3>4 DEF AuditFactory, AddContractAudit
    <3> QED
      BY <3>1, <3>2, <3>3, <3>4
  <2> QED
    BY <2>1, <2>2, <2>3 DEF Quiet, erc721Vars, Exists, Identity
<1>4. CASE LedgerStep
  <2>1. UNCHANGED <<factoryVars, keyVars, frame, s_assetMinterInfo>>
    BY <1>4 DEF LedgerStep, TransferFrom, Approve, SetApprovalForAll
  <2>2. \A t \in TokenIds : Exists(t)' <=> Exists(t)
    BY <1>0, <1>4
    DEF LedgerStep, TransferFrom, Approve, SetApprovalForAll, Transfer, ApproveKey,
        ApproveOperator, IsApprovedOrOwner, Exists, TypeOK, ERC721TypeOK
  <2> QED
    BY <2>1, <2>2 DEF Quiet, factoryVars, Identity
<1> QED
  BY <1>1, <1>2, <1>3, <1>4 DEF Next

LEMMA NumberingStep == NumberingInv /\ [Next]_vars => NumberingInv'
<1> SUFFICES ASSUME NumberingInv, [Next]_vars
             PROVE  NumberingInv'
  OBVIOUS
<1>1. CASE ~MintStep
  <2>1. StructInv' /\ Numbering /\ KeysConsecutive /\ Quiet
    BY <1>1, StructInvStep, QuietSteps DEF NumberingInv, StructInv
  <2> QED
    BY <2>1 DEF NumberingInv, Numbering, Issued, KeysConsecutive, Quiet, keyVars
<1> QED
  BY <1>1, NumberingMint

-----------------------------------------------------------------------------
(* The kinds of keys                                                       *)

IsAssetKey(t) == s_tokenIdToAsset[t].factoryAddress # ZeroAddress
IsFactoryKey(t) ==
    \/ s_tokenIdToFactory[t] # ZeroAddress
    \/ \E f \in Factories : InFlight("factory", f) /\ i_fundiTokenId[f] = t
KindOK(t) ==
    /\ Exists(t) <=> IsAssetKey(t) \/ IsFactoryKey(t)
    /\ ~(IsAssetKey(t) /\ IsFactoryKey(t))

LEMMA KindsByKey == KeyKindsDisjoint <=> \A t \in TokenIds : KindOK(t)
BY DEF KeyKindsDisjoint, KindOK, IsAssetKey, IsFactoryKey

\* A factory knows the key it is being registered under, and that key is not
\* the key of a registered factory.
KindsInv ==
    /\ NumberingInv
    /\ \A t \in TokenIds : KindOK(t)
    /\ \A f \in Factories :
          InFlight("factory", f) => i_fundiTokenId[f] = frame.tokenId
    /\ frame # NoFrame => s_tokenIdToFactory[frame.tokenId] = ZeroAddress

LEMMA KindsInit == Init => KindsInv
<1> SUFFICES ASSUME Init
             PROVE  KindsInv
  OBVIOUS
<1>1. frame = NoFrame
  BY DEF Init
<1>2. \A f \in Factories : ~InFlight("factory", f)
  BY <1>1 DEF InFlight
<1>3. \A t \in TokenIds : KindOK(t)
  BY <1>2 DEF Init, ERC721Init, NoAssetInfo, KindOK, IsAssetKey, IsFactoryKey, Exists
<1> QED
  BY <1>1, <1>2, <1>3, NumberingInit DEF KindsInv

LEMMA KindsMint == ASSUME KindsInv, MintStep PROVE KindsInv'
<1>0. /\ NumberingInv /\ NumberingInv' /\ Numbering /\ TypeOK
      /\ ERC721TypeOK /\ FactoryTypeOK
      /\ \A t \in TokenIds : KindOK(t)
  BY NumberingMint DEF KindsInv, NumberingInv, StructInv, TypeInv, TypeOK
<1>1. ASSUME NEW sender \in Accounts, NEW f \in Factories,
             NEW k \in FeeTokens, NEW fee \in MintFees,
             MintFactoryKey(sender, f, k, fee)
      PROVE  KindsInv'
  <2>1. /\ frame = NoFrame /\ s_tokenCounter \in TokenIds
        /\ frame'.kind = "factory" /\ frame'.factory = f
        /\ frame'.tokenId = s_tokenCounter
        /\ i_fundiTokenId' = [i_fundiTokenId EXCEPT ![f] = s_tokenCounter]
        /\ UNCHANGED <<s_tokenIdToAsset, s_tokenIdToFactory>>
        /\ Mint(sender, s_tokenCounter)
    BY <1>0, <1>1, NextTokenId
    DEF MintFactoryKey, NonReentrant, SetFundiTokenId, keyVars
  <2>2. frame' # NoFrame
    BY <2>1 DEF NoFrame
  <2>3. \A g \in Factories : /\ ~InFlight("factory", g)
                             /\ InFlight("factory", g)' <=> g = f
    BY <2>1, <2>2 DEF InFlight
  <2>4. i_fundiTokenId'[f] = s_tokenCounter
    BY <1>0, <2>1 DEF FactoryTypeOK
  <2>5. ~Exists(s_tokenCounter) /\ KindOK(s_tokenCounter)
    BY <1>0, <2>1 DEF Mint
  <2>6. s_tokenIdToFactory[s_tokenCounter] = ZeroAddress
    BY <2>5 DEF KindOK, IsFactoryKey
  <2>7. ASSUME NEW t \in TokenIds
        PROVE  KindOK(t)'
    <3>1. Exists(t)' <=> Exists(t) \/ t = s_tokenCounter
      BY <1>0, <2>1, AccountsAssumption DEF Mint, Exists, ERC721TypeOK
    <3>2. IsAssetKey(t)' <=> IsAssetKey(t)
      BY <2>1 DEF IsAssetKey
    <3>3. IsFactoryKey(t)' <=> IsFactoryKey(t) \/ t = s_tokenCounter
      BY <2>1, <2>3, <2>4 DEF IsFactoryKey
    <3>4. KindOK(t)
      BY <1>0
    <3> QED
      BY <2>5, <3>1, <3>2, <3>3, <3>4 DEF KindOK
  <2> QED
    BY <1>0, <2>1, <2>3, <2>4, <2>6, <2>7 DEF KindsInv
<1>2. ASSUME EndMintFactoryKey
      PROVE  KindsInv'
  <2> DEFINE new == frame.factory
  <2>1. /\ frame # NoFrame /\ frame.kind = "factory" /\ new \in Factories
        /\ new # ZeroAddress /\ frame.tokenId \in TokenIds /\ frame' = NoFrame
        /\ s_tokenIdToFactory' = [s_tokenIdToFactory EXCEPT ![frame.tokenId] = new]
        /\ UNCHANGED <<owners, s_tokenIdToAsset>>
    BY <1>0, <1>2, FrameIsCall, FactoriesAssumption
    DEF EndMintFactoryKey, NoFrame, Frame, erc721Vars
  <2>2. /\ InFlight("factory", new) /\ i_fundiTokenId[new] = frame.tokenId
        /\ \A g \in Factories : InFlight("factory", g) => g = new
    BY <2>1 DEF InFlight, KindsInv
  <2>3. \A g \in Factories : ~InFlight("factory", g)'
    BY <2>1 DEF InFlight
  <2>4. ASSUME NEW t \in TokenIds
        PROVE  KindOK(t)'
    <3>1. s_tokenIdToFactory'[t] = IF t = frame.tokenId THEN new
                                   ELSE s_tokenIdToFactory[t]
      BY <1>0, <2>1 DEF TypeOK
    <3>2. IsFactoryKey(t)' <=> IsFactoryKey(t)
      BY <2>1, <2>2, <2>3, <3>1 DEF IsFactoryKey
    <3>3. KindOK(t)
      BY <1>0
    <3> QED
      BY <2>1, <3>2, <3>3 DEF KindOK, IsAssetKey, Exists
  <2> QED
    BY <1>0, <2>1, <2>3, <2>4 DEF KindsInv
<1>3. ASSUME NEW sender \in Accounts, NEW f \in Factories,
             NEW transferable \in BOOLEAN, NEW mintTo \in AccountsOrZero,
             MintAssetKey(sender, f, transferable, mintTo)
      PROVE  KindsInv'
  <2> DEFINE to == IF mintTo = ZeroAddress THEN sender ELSE mintTo
             info == [factoryAddress |-> f, factoryTokenId |-> s_assetCounter[f],
                      transferable |-> transferable]
  <2>1. /\ frame = NoFrame /\ s_tokenCounter \in TokenIds /\ to \in Accounts
        /\ frame'.kind = "asset" /\ frame'.tokenId = s_tokenCounter
        /\ s_tokenIdToAsset' = [s_tokenIdToAsset EXCEPT ![s_tokenCounter] = info]
        /\ UNCHANGED <<i_fundiTokenId, s_tokenIdToFactory>>
        /\ Mint(to, s_tokenCounter)
    BY <1>0, <1>3, NextTokenId
    DEF MintAssetKey, NonReentrant, MintFundiFactoryAsset, AccountsOrZero
  <2>2. info.factoryAddress # ZeroAddress
    BY FactoriesAssumption
  <2> HIDE DEF info, to
  <2>3. \A g \in Factories : ~InFlight("factory", g) /\ ~InFlight("factory", g)'
    BY <2>1 DEF InFlight
  <2>4. ~Exists(s_tokenCounter) /\ KindOK(s_tokenCounter)
    BY <1>0, <2>1 DEF Mint
  <2>5. s_tokenIdToFactory[s_tokenCounter] = ZeroAddress
    BY <2>4 DEF KindOK, IsFactoryKey
  <2>6. ASSUME NEW t \in TokenIds
        PROVE  KindOK(t)'
    <3>1. Exists(t)' <=> Exists(t) \/ t = s_tokenCounter
      BY <1>0, <2>1, AccountsAssumption DEF Mint, Exists, ERC721TypeOK
    <3>2. IsAssetKey(t)' <=> IsAssetKey(t) \/ t = s_tokenCounter
      BY <1>0, <2>1, <2>2 DEF IsAssetKey, TypeOK
    <3>3. IsFactoryKey(t)' <=> IsFactoryKey(t)
      BY <2>1, <2>3 DEF IsFactoryKey
    <3>4. KindOK(t)
      BY <1>0
    <3> QED
      BY <2>4, <3>1, <3>2, <3>3, <3>4 DEF KindOK
  <2> QED
    BY <1>0, <2>1, <2>3, <2>5, <2>6 DEF KindsInv
<1>4. ASSUME EndMintAssetKey
      PROVE  KindsInv'
  <2>1. /\ frame.kind = "asset" /\ frame' = NoFrame
        /\ UNCHANGED <<owners, i_fundiTokenId, s_tokenIdToAsset, s_tokenIdToFactory>>
    BY <1>4 DEF EndMintAssetKey, erc721Vars, factoryVars
  <2>2. \A g \in Factories : ~InFlight("factory", g) /\ ~InFlight("factory", g)'
    BY <2>1 DEF InFlight
  <2>3. \A t \in TokenIds : KindOK(t)'
    BY <1>0, <2>1, <2>2 DEF KindOK, IsAssetKey, IsFactoryKey, Exists
  <2> QED
    BY <1>0, <2>1, <2>2, <2>3 DEF KindsInv
<1> QED
  BY <1>1, <1>2, <1>3, <1>4 DEF MintStep

LEMMA KindsStep == KindsInv /\ [Next]_vars => KindsInv'
<1> SUFFICES ASSUME KindsInv, [Next]_vars
             PROVE  KindsInv'
  OBVIOUS
<1>1. CASE ~MintStep
  <2>1. NumberingInv' /\ Quiet
    BY <1>1, NumberingStep, QuietSteps DEF KindsInv, NumberingInv, StructInv
  <2>2. \A f \in Factories : InFlight("factory", f)' <=> InFlight("factory", f)
    BY <2>1 DEF InFlight, Quiet
  <2>3. ASSUME NEW t \in TokenIds
        PROVE  KindOK(t)'
    <3>1. /\ IsAssetKey(t)' <=> IsAssetKey(t)
          /\ IsFactoryKey(t)' <=> IsFactoryKey(t)
          /\ Exists(t)' <=> Exists(t)
      BY <2>1, <2>2 DEF Quiet, keyVars, IsAssetKey, IsFactoryKey
    <3>2. KindOK(t)
      BY DEF KindsInv
    <3> QED
      BY <3>1, <3>2 DEF KindOK
  <2> QED
    BY <2>1, <2>2, <2>3 DEF KindsInv, Quiet, keyVars
<1> QED
  BY <1>1, KindsMint

-----------------------------------------------------------------------------
(* Counts                                                                  *)

Numbers == {s_assetMinterInfo[f].factoryNum : f \in RegisteredFactories}

CountsInv ==
    /\ StructInv
    /\ MintCountExact
    /\ Numbers = 0 .. s_assetMinterCounter - 1
    /\ IsFiniteSet(RegisteredFactories)
    /\ Cardinality(RegisteredFactories) = s_assetMinterCounter

LEMMA CountsExact == CountsInv => FactoryNumbersExact
BY DEF CountsInv, FactoryNumbersExact, Numbers, RegisteredFactories

LEMMA CountsInit == Init => CountsInv
<1> SUFFICES ASSUME Init
             PROVE  CountsInv
  OBVIOUS
<1>1. RegisteredFactories = {}
  BY DEF Init, RegisteredFactories, Registered, NoMinter
<1>2. \A f \in Factories : ~InFlight("asset", f)
  BY DEF Init, InFlight
<1>3. MintCountExact
  BY <1>2 DEF Init, FactoryInit, NoMinter, MintCountExact
<1>4. s_assetMinterCounter = 0
  BY DEF Init
<1>5. Numbers = 0 .. s_assetMinterCounter - 1
  BY <1>1, <1>4 DEF Numbers
<1> QED
  BY <1>1, <1>3, <1>4, <1>5, StructInvInit, FS_EmptySet DEF CountsInv

\* Where registrations and their numbers stay, the counts of them stay.
LEMMA CountsKept ==
    ASSUME CountsInv, UNCHANGED s_assetMinterCounter,
           \A f \in Factories :
              /\ Registered(f)' <=> Registered(f)
              /\ s_assetMinterInfo'[f].factoryNum = s_assetMinterInfo[f].factoryNum
    PROVE  /\ Numbers' = 0 .. s_assetMinterCounter' - 1
           /\ IsFiniteSet(RegisteredFactories)'
           /\ Cardinality(RegisteredFactories)' = s_assetMinterCounter'
<1>1. RegisteredFactories' = RegisteredFactories
  BY DEF RegisteredFactories
<1>2. Numbers' = Numbers
  BY <1>1 DEF Numbers, RegisteredFactories
<1> QED
  BY <1>1, <1>2 DEF CountsInv

LEMMA CountsMint == ASSUME CountsInv, MintStep PROVE CountsInv'
<1>0. /\ StructInv /\ StructInv' /\ TypeOK /\ FactoryTypeOK /\ MintCountExact
      /\ SuspendedCopyCurrent /\ UnregisteredHasNoHistory
      /\ s_assetMinterCounter \in Nat
      /\ s_assetMinterInfo \in [Factories -> MinterInfo]
      /\ s_assetCounter \in [Factories -> Nat]
      /\ \A f \in Factories : s_assetMinterInfo[f].mintCount \in Nat
  BY StructInvMint DEF CountsInv, StructInv, TypeInv, TypeOK, FactoryTypeOK, MinterInfo
<1>1. ASSUME NEW sender \in Accounts, NEW f \in Factories,
             NEW k \in FeeTokens, NEW fee \in MintFees,
             MintFactoryKey(sender, f, k, fee)
      PROVE  CountsInv'
  <2>1. /\ frame = NoFrame /\ frame'.kind = "factory"
        /\ UNCHANGED <<s_assetCounter, s_assetMinterCounter, s_assetMinterInfo>>
    BY <1>1 DEF MintFactoryKey, NonReentrant, SetFundiTokenId, keyVars
  <2>2. \A g \in Factories : ~InFlight("asset", g) /\ ~InFlight("asset", g)'
    BY <2>1 DEF InFlight
  <2>3. MintCountExact'
    BY <1>0, <2>1, <2>2 DEF MintCountExact
  <2> QED
    BY <1>0, <2>1, <2>3, CountsKept DEF CountsInv, Registered
<1>2. ASSUME EndMintFactoryKey
      PROVE  CountsInv'
  <2> DEFINE new == frame.factory
             struct == [frame.minter EXCEPT !.factoryNum = s_assetMinterCounter]
  <2>1. /\ frame \in Frame /\ frame # NoFrame /\ frame.kind = "factory"
        /\ new \in Factories /\ new # ZeroAddress /\ frame' = NoFrame
        /\ s_assetMinterInfo' = [s_assetMinterInfo EXCEPT ![new] = struct]
        /\ s_assetMinterCounter' = s_assetMinterCounter + 1
        /\ UNCHANGED s_assetCounter
    BY <1>0, <1>2, FrameIsCall, FactoriesAssumption
    DEF EndMintFactoryKey, NoFrame, Frame, factoryVars
  <2>2. /\ ~Registered(new) /\ frame.minter.contractAddress = new
        /\ frame.minter.mintCount = 0 /\ s_assetMinterInfo[new].mintCount = 0
    BY <1>0, <2>1 DEF SuspendedCopyCurrent, UnregisteredHasNoHistory
  <2>3. /\ struct.contractAddress = new /\ struct.factoryNum = s_assetMinterCounter
        /\ struct.mintCount = 0
    BY <2>1, <2>2 DEF Frame, MinterInfo
  <2> HIDE DEF struct
  <2>4. /\ s_assetMinterInfo'[new] = struct
        /\ \A g \in Factories : g # new => s_assetMinterInfo'[g] = s_assetMinterInfo[g]
    BY <1>0, <2>1
  <2>5. \A g \in Factories : ~InFlight("asset", g) /\ ~InFlight("asset", g)'
    BY <2>1 DEF InFlight
  <2>6. MintCountExact'
    BY <1>0, <2>1, <2>2, <2>3, <2>4, <2>5 DEF MintCountExact
  <2>7. RegisteredFactories' = RegisteredFactories \cup {new}
    BY <2>1, <2>3, <2>4 DEF RegisteredFactories, Registered
  <2>8. new \notin RegisteredFactories
    BY <2>2 DEF RegisteredFactories
  <2>9. /\ IsFiniteSet(RegisteredFactories)'
        /\ Cardinality(RegisteredFactories)' = s_assetMinterCounter'
    BY <2>1, <2>7, <2>8, FS_AddElement DEF CountsInv
  <2>10. Numbers' = 0 .. s_assetMinterCounter' - 1
    <3>1. Numbers' = Numbers \cup {s_assetMinterCounter}
      BY <2>3, <2>4, <2>7, <2>8 DEF Numbers, RegisteredFactories
    <3>2. Numbers = 0 .. s_assetMinterCounter - 1
      BY DEF CountsInv
    <3>3. (0 .. s_assetMinterCounter - 1) \cup {s_assetMinterCounter}
             = 0 .. (s_assetMinterCounter + 1) - 1
      BY <1>0
    <3> QED
      BY <2>1, <3>1, <3>2, <3>3
  <2> QED
    BY <1>0, <2>6, <2>9, <2>10 DEF CountsInv
<1>3. ASSUME NEW sender \in Accounts, NEW f \in Factories,
             NEW transferable \in BOOLEAN, NEW mintTo \in AccountsOrZero,
             MintAssetKey(sender, f, transferable, mintTo)
      PROVE  CountsInv'
  <2>1. /\ frame = NoFrame /\ frame'.kind = "asset" /\ frame'.factory = f
        /\ s_assetCounter' = [s_assetCounter EXCEPT ![f] = @ + 1]
        /\ UNCHANGED <<s_assetMinterCounter, s_assetMinterInfo>>
    BY <1>3 DEF MintAssetKey, NonReentrant, MintFundiFactoryAsset
  <2>2. frame' # NoFrame
    BY <2>1 DEF NoFrame
  <2>3. \A g \in Factories : /\ ~InFlight("asset", g)
                             /\ InFlight("asset", g)' <=> g = f
    BY <2>1, <2>2 DEF InFlight
  <2>4. MintCountExact'
    BY <1>0, <2>1, <2>3 DEF MintCountExact
  <2> QED
    BY <1>0, <2>1, <2>4, CountsKept DEF CountsInv, Registered
<1>4. ASSUME EndMintAssetKey
      PROVE  CountsInv'
  <2> DEFINE minter == frame.factory
             struct == [frame.minter EXCEPT !.mintCount = @ + 1]
  <2>1. /\ frame \in Frame /\ frame # NoFrame /\ frame.kind = "asset"
        /\ minter \in Factories /\ frame' = NoFrame
        /\ s_assetMinterInfo' = [s_assetMinterInfo EXCEPT ![minter] = struct]
        /\ UNCHANGED <<s_assetMinterCounter, s_assetCounter>>
    BY <1>0, <1>4, FrameIsCall DEF EndMintAssetKey, NoFrame, Frame, factoryVars
  <2>2. LET kept == frame.minter
            stored == s_assetMinterInfo[minter]
        IN  /\ kept.contractAddress = stored.contractAddress
            /\ kept.factoryNum = stored.factoryNum
            /\ kept.mintCount = stored.mintCount
    BY <1>0, <2>1 DEF SuspendedCopyCurrent
  <2>3. /\ struct.contractAddress = s_assetMinterInfo[minter].contractAddress
        /\ struct.factoryNum = s_assetMinterInfo[minter].factoryNum
        /\ struct.mintCount = s_assetMinterInfo[minter].mintCount + 1
    BY <2>1, <2>2 DEF Frame, MinterInfo
  <2> HIDE DEF struct
  <2>4. /\ s_assetMinterInfo'[minter] = struct
        /\ \A g \in Factories :
              g # minter => s_assetMinterInfo'[g] = s_assetMinterInfo[g]
    BY <1>0, <2>1
  <2>5. \A g \in Factories : /\ InFlight("asset", g) <=> g = minter
                             /\ ~InFlight("asset", g)'
    BY <2>1 DEF InFlight
  <2>6. MintCountExact'
    BY <1>0, <2>1, <2>3, <2>4, <2>5 DEF MintCountExact
  <2>7. \A g \in Factories :
           /\ Registered(g)' <=> Registered(g)
           /\ s_assetMinterInfo'[g].factoryNum = s_assetMinterInfo[g].factoryNum
    BY <2>3, <2>4 DEF Registered
  <2> QED
    BY <1>0, <2>1, <2>6, <2>7, CountsKept DEF CountsInv
<1> QED
  BY <1>1, <1>2, <1>3, <1>4 DEF MintStep

LEMMA CountsStep == CountsInv /\ [Next]_vars => CountsInv'
<1> SUFFICES ASSUME CountsInv, [Next]_vars
             PROVE  CountsInv'
  OBVIOUS
<1>1. CASE ~MintStep
  <2>1. StructInv' /\ Quiet
    BY <1>1, StructInvStep, QuietSteps DEF CountsInv, StructInv
  <2>2. \A g \in Factories :
           /\ Registered(g)' <=> Registered(g)
           /\ s_assetMinterInfo'[g].factoryNum = s_assetMinterInfo[g].factoryNum
           /\ s_assetMinterInfo'[g].mintCount = s_assetMinterInfo[g].mintCount
           /\ InFlight("asset", g)' <=> InFlight("asset", g)
    BY <2>1 DEF Quiet, Identity, Registered, InFlight
  <2>3. MintCountExact'
    BY <2>1, <2>2 DEF CountsInv, MintCountExact, Quiet
  <2> QED
    BY <2>1, <2>2, <2>3, CountsKept DEF CountsInv, Quiet, keyVars
<1> QED
  BY <1>1, CountsMint

\* Every key ever minted has its number, its kind and its place in the counts
\* of the factory it belongs to, whatever ran in the callbacks of the mints.
THEOREM EveryKeyAccounted == Spec => []KeysAccounted
<1>1. KindsInv => KeysConsecutive /\ KeyKindsDisjoint
  BY KindsByKey DEF KindsInv, NumberingInv
<1>2. CountsInv => MintCountExact /\ FactoryNumbersExact
  BY CountsExact DEF CountsInv
<1>3. Spec => []KindsInv
  BY KindsInit, KindsStep, PTL DEF Spec
<1>4. Spec => []CountsInv
  BY CountsInit, CountsStep, PTL DEF Spec
<1>5. KindsInv /\ CountsInv => KeysAccounted
  BY <1>1, <1>2 DEF KeysAccounted
<1> QED
  BY <1>3, <1>4, <1>5, PTL

-----------------------------------------------------------------------------
(* Registrations                                                           *)

\* RegistryMutual, seen from a factory and from a key.
FactoryAgrees(f) ==
    LET info == s_assetMinterInfo[f]
    IN  /\ isFundiFactory[f] <=> Registered(f) \/ InFlight("factory", f)
        /\ Registered(f) => /\ info.contractAddress = f
                            /\ info.tokenId = i_fundiTokenId[f]
                            /\ s_tokenIdToFactory[info.tokenId] = f
        /\ InFlight("factory", f) => i_fundiTokenId[f] = frame.tokenId
KeyAgrees(t) ==
    LET f == s_tokenIdToFactory[t]
    IN  f # ZeroAddress => Registered(f) /\ s_assetMinterInfo[f].tokenId = t

LEMMA RegistryParts ==
    RegistryMutual <=> /\ \A f \in Factories : FactoryAgrees(f)
                       /\ \A t \in TokenIds : KeyAgrees(t)
BY DEF RegistryMutual, FactoryAgrees, KeyAgrees

RegistryInv ==
    /\ KindsInv
    /\ \A f \in Factories : FactoryAgrees(f)
    /\ \A t \in TokenIds : KeyAgrees(t)

LEMMA RegistryInit == Init => RegistryInv
<1> SUFFICES ASSUME Init
             PROVE  RegistryInv
  OBVIOUS
<1>1. \A f \in Factories : ~Registered(f) /\ ~InFlight("factory", f)
  BY DEF Init, Registered, InFlight, NoMinter
<1> QED
  BY <1>1, KindsInit DEF Init, FactoryInit, RegistryInv, FactoryAgrees, KeyAgrees

\* Where neither registrations nor the mint of a factory's key begin or end,
\* protocol and factories agree as before.
LEMMA RegistryKept ==
    ASSUME RegistryInv, KindsInv',
           UNCHANGED <<i_fundiTokenId, isFundiFactory, s_tokenIdToFactory>>,
           \A f \in Factories :
              /\ s_assetMinterInfo'[f].contractAddress =
                    s_assetMinterInfo[f].contractAddress
              /\ s_assetMinterInfo'[f].tokenId = s_assetMinterInfo[f].tokenId
              /\ InFlight("factory", f)' <=> InFlight("factory", f)
              /\ InFlight("factory", f) => UNCHANGED frame
    PROVE  RegistryInv'
<1>1. \A f \in Factories : Registered(f)' <=> Registered(f)
  BY DEF Registered
<1>2. ASSUME NEW f \in Factories
      PROVE  FactoryAgrees(f)'
  BY <1>1 DEF RegistryInv, FactoryAgrees
<1>3. ASSUME NEW t \in TokenIds
      PROVE  KeyAgrees(t)'
  <2>1. KeyAgrees(t) /\ s_tokenIdToFactory[t] \in Factories \cup {ZeroAddress}
    BY DEF RegistryInv, KindsInv, NumberingInv, StructInv, TypeInv, TypeOK
  <2> QED
    BY <1>1, <2>1 DEF KeyAgrees
<1> QED
  BY <1>2, <1>3 DEF RegistryInv

LEMMA RegistryMint == ASSUME RegistryInv, MintStep PROVE RegistryInv'
<1>0. /\ KindsInv /\ KindsInv' /\ Numbering /\ TypeOK /\ FactoryTypeOK
      /\ SuspendedCopyCurrent
      /\ s_assetMinterInfo \in [Factories -> MinterInfo]
      /\ \A f \in Factories : FactoryAgrees(f)
      /\ \A t \in TokenIds : KeyAgrees(t)
  BY KindsMint
  DEF RegistryInv, KindsInv, NumberingInv, StructInv, TypeInv, TypeOK
<1>1. ASSUME NEW sender \in Accounts, NEW f \in Factories,
             NEW k \in FeeTokens, NEW fee \in MintFees,
             MintFactoryKey(sender, f, k, fee)
      PROVE  RegistryInv'
  <2>1. /\ frame = NoFrame /\ ~isFundiFactory[f]
        /\ frame'.kind = "factory" /\ frame'.factory = f
        /\ i_fundiTokenId' = [i_fundiTokenId EXCEPT ![f] = s_tokenCounter]
        /\ isFundiFactory' = [isFundiFactory EXCEPT ![f] = TRUE]
        /\ frame'.tokenId = s_tokenCounter
        /\ UNCHANGED <<s_tokenIdToFactory, s_assetMinterInfo>>
    BY <1>1 DEF MintFactoryKey, NonReentrant, SetFundiTokenId, keyVars
  <2>2. frame' # NoFrame
    BY <2>1 DEF NoFrame
  <2>3. \A g \in Factories :
           /\ Registered(g)' <=> Registered(g)
           /\ ~InFlight("factory", g)
           /\ InFlight("factory", g)' <=> g = f
    BY <2>1, <2>2 DEF Registered, InFlight
  <2>4. ASSUME NEW g \in Factories
        PROVE  FactoryAgrees(g)'
    <3>1. FactoryAgrees(g)
      BY <1>0
    <3>2. CASE g = f
      BY <1>0, <2>1, <2>3, <3>1, <3>2 DEF FactoryAgrees, FactoryTypeOK
    <3>3. CASE g # f
      BY <1>0, <2>1, <2>3, <3>1, <3>3 DEF FactoryAgrees, FactoryTypeOK
    <3> QED
      BY <3>2, <3>3
  <2>5. \A t \in TokenIds : KeyAgrees(t)'
    BY <1>0, <2>1 DEF KeyAgrees, Registered
  <2> QED
    BY <1>0, <2>4, <2>5 DEF RegistryInv
<1>2. ASSUME EndMintFactoryKey
      PROVE  RegistryInv'
  <2> DEFINE new == frame.factory
             struct == [frame.minter EXCEPT !.factoryNum = s_assetMinterCounter]
  <2>1. /\ frame \in Frame /\ frame # NoFrame /\ frame.kind = "factory"
        /\ new \in Factories /\ new # ZeroAddress /\ frame.tokenId \in TokenIds
        /\ frame' = NoFrame
        /\ s_tokenIdToFactory' = [s_tokenIdToFactory EXCEPT ![frame.tokenId] = new]
        /\ s_assetMinterInfo' = [s_assetMinterInfo EXCEPT ![new] = struct]
        /\ UNCHANGED <<i_fundiTokenId, isFundiFactory>>
    BY <1>0, <1>2, FrameIsCall, FactoriesAssumption
    DEF EndMintFactoryKey, NoFrame, Frame, factoryVars
  <2>2. /\ ~Registered(new) /\ frame.minter.contractAddress = new
        /\ frame.minter.tokenId = frame.tokenId
        /\ InFlight("factory", new) /\ i_fundiTokenId[new] = frame.tokenId
        /\ isFundiFactory[new]
        /\ s_tokenIdToFactory[frame.tokenId] = ZeroAddress
    BY <1>0, <2>1
    DEF SuspendedCopyCurrent, Numbering, FactoryAgrees, InFlight, KindsInv
  <2>3. struct.contractAddress = new /\ struct.tokenId = frame.tokenId
    BY <2>1, <2>2 DEF Frame, MinterInfo
  <2> HIDE DEF struct
  <2>4. /\ s_assetMinterInfo'[new] = struct
        /\ \A g \in Factories : g # new => s_assetMinterInfo'[g] = s_assetMinterInfo[g]
        /\ s_tokenIdToFactory'[frame.tokenId] = new
        /\ \A t \in TokenIds : t # frame.tokenId =>
              s_tokenIdToFactory'[t] = s_tokenIdToFactory[t]
    BY <1>0, <2>1 DEF TypeOK
  <2>5. \A g \in Factories : /\ Registered(g)' <=> Registered(g) \/ g = new
                             /\ ~InFlight("factory", g)'
                             /\ InFlight("factory", g) <=> g = new
    BY <2>1, <2>3, <2>4 DEF Registered, InFlight
  <2>6. ASSUME NEW g \in Factories
        PROVE  FactoryAgrees(g)'
    <3>1. CASE g = new
      BY <2>1, <2>2, <2>3, <2>4, <2>5, <3>1 DEF FactoryAgrees
    <3>2. CASE g # new
      <4>1. FactoryAgrees(g)
        BY <1>0
      <4>2. s_assetMinterInfo[g].tokenId \in TokenIds
        BY <1>0 DEF MinterInfo
      <4>3. Registered(g) => s_assetMinterInfo[g].tokenId # frame.tokenId
        BY <2>2, <3>2, <4>1, FactoriesAssumption DEF FactoryAgrees
      <4> QED
        BY <2>1, <2>4, <2>5, <3>2, <4>1, <4>2, <4>3 DEF FactoryAgrees
    <3> QED
      BY <3>1, <3>2
  <2>7. ASSUME NEW t \in TokenIds
        PROVE  KeyAgrees(t)'
    <3>1. CASE t = frame.tokenId
      BY <2>1, <2>3, <2>4, <2>5, <3>1 DEF KeyAgrees
    <3>2. CASE t # frame.tokenId
      <4>1. KeyAgrees(t) /\ s_tokenIdToFactory[t] \in Factories \cup {ZeroAddress}
        BY <1>0 DEF TypeOK
      <4>2. s_tokenIdToFactory[t] # new
        BY <2>1, <2>2, <4>1 DEF KeyAgrees
      <4> QED
        BY <2>4, <2>5, <3>2, <4>1, <4>2 DEF KeyAgrees
    <3> QED
      BY <3>1, <3>2
  <2> QED
    BY <1>0, <2>6, <2>7 DEF RegistryInv
<1>3. ASSUME NEW sender \in Accounts, NEW f \in Factories,
             NEW transferable \in BOOLEAN, NEW mintTo \in AccountsOrZero,
             MintAssetKey(sender, f, transferable, mintTo)
      PROVE  RegistryInv'
  <2>1. /\ frame = NoFrame /\ frame'.kind = "asset"
        /\ UNCHANGED <<i_fundiTokenId, isFundiFactory, s_tokenIdToFactory,
                       s_assetMinterInfo>>
    BY <1>3 DEF MintAssetKey, NonReentrant, MintFundiFactoryAsset
  <2>2. \A g \in Factories : ~InFlight("factory", g) /\ ~InFlight("factory", g)'
    BY <2>1 DEF InFlight
  <2> QED
    BY <1>0, <2>1, <2>2, RegistryKept
<1>4. ASSUME EndMintAssetKey
      PROVE  RegistryInv'
  <2> DEFINE minter == frame.factory
             struct == [frame.minter EXCEPT !.mintCount = @ + 1]
  <2>1. /\ frame \in Frame /\ frame # NoFrame /\ frame.kind = "asset"
        /\ minter \in Factories /\ frame' = NoFrame
        /\ s_assetMinterInfo' = [s_assetMinterInfo EXCEPT ![minter] = struct]
        /\ UNCHANGED <<i_fundiTokenId, isFundiFactory, s_tokenIdToFactory>>
    BY <1>0, <1>4, FrameIsCall DEF EndMintAssetKey, NoFrame, Frame, factoryVars
  <2>2. LET kept == frame.minter
            stored == s_assetMinterInfo[minter]
        IN  /\ kept.contractAddress = stored.contractAddress
            /\ kept.tokenId = stored.tokenId
    BY <1>0, <2>1 DEF SuspendedCopyCurrent
  <2>3. /\ struct.contractAddress = s_assetMinterInfo[minter].contractAddress
        /\ struct.tokenId = s_assetMinterInfo[minter].tokenId
    BY <2>1, <2>2 DEF Frame, MinterInfo
  <2> HIDE DEF struct
  <2>4. \A g \in Factories :
           /\ s_assetMinterInfo'[g].contractAddress =
                 s_assetMinterInfo[g].contractAddress
           /\ s_assetMinterInfo'[g].tokenId = s_assetMinterInfo[g].tokenId
    BY <1>0, <2>1, <2>3
  <2>5. \A g \in Factories : ~InFlight("factory", g) /\ ~InFlight("factory", g)'
    BY <2>1 DEF InFlight
  <2> QED
    BY <1>0, <2>1, <2>4, <2>5, RegistryKept
<1> QED
  BY <1>1, <1>2, <1>3, <1>4 DEF MintStep

LEMMA RegistryStep == RegistryInv /\ [Next]_vars => RegistryInv'
<1> SUFFICES ASSUME RegistryInv, [Next]_vars
             PROVE  RegistryInv'
  OBVIOUS
<1>1. CASE ~MintStep
  <2>1. KindsInv' /\ Quiet
    BY <1>1, KindsStep, QuietSteps DEF RegistryInv, KindsInv, NumberingInv, StructInv
  <2>2. UNCHANGED <<frame, i_fundiTokenId, isFundiFactory, s_tokenIdToFactory>>
    BY <2>1 DEF Quiet, keyVars
  <2>3. \A f \in Factories :
           /\ s_assetMinterInfo'[f].contractAddress =
                 s_assetMinterInfo[f].contractAddress
           /\ s_assetMinterInfo'[f].tokenId = s_assetMinterInfo[f].tokenId
    BY <2>1 DEF Quiet, Identity
  <2>4. \A f \in Factories : InFlight("factory", f)' <=> InFlight("factory", f)
    BY <2>2 DEF InFlight
  <2> QED
    BY <2>1, <2>2, <2>3, <2>4, RegistryKept
<1> QED
  BY <1>1, RegistryMint

\* The protocol and each factory agree on the factory's registration and key,
\* whatever ran in the callbacks of the mints.
THEOREM RegistrationsAgree == Spec => []RegistryMutual
<1>1. RegistryInv => RegistryMutual
  BY RegistryParts DEF RegistryInv
<1> QED
  BY <1>1, RegistryInit, RegistryStep, PTL DEF Spec

-----------------------------------------------------------------------------
(* Slots and keys                                                          *)

\* The steps that write slots, contracts or what the protocol keeps of a key.
LEMMA SlotSteps ==
    ASSUME [Next]_vars
    PROVE  \/ UNCHANGED <<s_assetCounter, s_assetInfo, s_assets, s_tokenIdToAsset>>
           \/ \E sender \in Accounts, f \in Factories, transferable \in BOOLEAN,
                 mintTo \in AccountsOrZero : MintAssetKey(sender, f, transferable, mintTo)
           \/ \E sender \in Accounts, f \in Factories, protocol \in Protocols,
                 t \in TokenIds : MintFactoryAsset(sender, f, protocol, t)
<1> DEFINE same == UNCHANGED <<s_assetCounter, s_assetInfo, s_assets, s_tokenIdToAsset>>
<1>1. ASSUME NEW sender \in Accounts, NEW f \in Factories, NEW k \in FeeTokens,
             NEW fee \in MintFees, MintFactoryKey(sender, f, k, fee)
      PROVE  same
  BY <1>1 DEF MintFactoryKey, SetFundiTokenId, keyVars
<1>2. ASSUME EndMintFactoryKey \/ EndMintAssetKey
      PROVE  same
  BY <1>2 DEF EndMintFactoryKey, EndMintAssetKey, factoryVars
<1>3. ASSUME WithdrawStep \/ UNCHANGED vars
      PROVE  same
  BY <1>3
  DEF WithdrawStep, WithdrawFundiProceeds, WithdrawMintFeeProceeds, vars, factoryVars,
      keyVars
<1>4. ASSUME StatusStep
      PROVE  same
  BY <1>4
  DEF StatusStep, SetAssetFactoryStatus, VerifyContract, UpdateFlag, factoryVars, keyVars
<1>5. ASSUME LedgerStep
      PROVE  same
  BY <1>5 DEF LedgerStep, TransferFrom, Approve, SetApprovalForAll, factoryVars, keyVars
<1>6. ASSUME NEW sender \in Accounts, NEW f \in Factories,
             \/ \E uri \in URIs : SetFactoryURI(sender, f, uri)
             \/ AuditFactory(sender, f)
      PROVE  same
  BY <1>6 DEF SetFactoryURI, AuditFactory, SetContractURI, AddContractAudit, keyVars
<1> HIDE DEF same
<1>7. \/ same
      \/ \E sender \in Accounts, f \in Factories, transferable \in BOOLEAN,
            mintTo \in AccountsOrZero : MintAssetKey(sender, f, transferable, mintTo)
      \/ \E sender \in Accounts, f \in Factories, protocol \in Protocols,
            t \in TokenIds : MintFactoryAsset(sender, f, protocol, t)
  BY <1>1, <1>2, <1>3, <1>4, <1>5, <1>6 DEF Next, MintStep, FactoryStep
<1> QED
  BY <1>7 DEF same

\* SlotsMatchKeys, seen from a key and from a slot.
KeyNamesSlot(f, t) ==
    LET info == s_tokenIdToAsset[t]
    IN  info.factoryAddress = f =>
           /\ info.factoryTokenId < s_assetCounter[f]
           /\ s_assetInfo[f][info.factoryTokenId].fundiTokenId = t
SlotNamesKey(f, n) ==
    LET key == s_assetInfo[f][n].fundiTokenId
    IN  n < s_assetCounter[f] => /\ key \in TokenIds
                                 /\ s_tokenIdToAsset[key].factoryAddress = f
                                 /\ s_tokenIdToAsset[key].factoryTokenId = n

SlotsInv ==
    /\ KindsInv
    /\ \A t \in TokenIds : s_tokenIdToAsset[t].factoryTokenId \in TokenIds
    /\ \A f \in Factories, t \in TokenIds : KeyNamesSlot(f, t) /\ SlotNamesKey(f, t)

LEMMA SlotsMatch == SlotsInv => SlotsMatchKeys
BY DEF SlotsInv, SlotsMatchKeys, KeyNamesSlot, SlotNamesKey

LEMMA SlotsInit == Init => SlotsInv
<1> SUFFICES ASSUME Init
             PROVE  SlotsInv
  OBVIOUS
<1>1. 0 \in TokenIds /\ \A n \in TokenIds : ~(n < 0)
  BY AccountsAssumption DEF TokenIds
<1> QED
  BY <1>1, KindsInit, FactoriesAssumption
  DEF Init, FactoryInit, NoAssetInfo, SlotsInv, KeyNamesSlot, SlotNamesKey

\* What the announcement of key t0 to factory f0 writes.
LEMMA SlotsMintAsset ==
    ASSUME SlotsInv, NEW sender \in Accounts, NEW f0 \in Factories,
           NEW transferable \in BOOLEAN, NEW mintTo \in AccountsOrZero,
           MintAssetKey(sender, f0, transferable, mintTo)
    PROVE  LET t0 == s_tokenCounter
               n0 == s_assetCounter[f0]
           IN  /\ t0 \in TokenIds /\ ~Exists(t0) /\ n0 \in TokenIds
               /\ s_tokenIdToAsset[t0].factoryAddress = ZeroAddress
               /\ s_tokenIdToAsset'[t0].factoryAddress = f0
               /\ s_tokenIdToAsset'[t0].factoryTokenId = n0
               /\ \A t \in TokenIds : t # t0 => s_tokenIdToAsset'[t] = s_tokenIdToAsset[t]
               /\ s_assetInfo'[f0][n0] = [fundiTokenId |-> t0, assetAddress |-> 0]
               /\ \A f \in Factories, n \in TokenIds :
                     f # f0 \/ n # n0 => s_assetInfo'[f][n] = s_assetInfo[f][n]
               /\ s_assetCounter'[f0] = n0 + 1
               /\ \A f \in Factories :
                     f # f0 => s_assetCounter'[f] = s_assetCounter[f]
               /\ UNCHANGED s_assets
<1> DEFINE t0 == s_tokenCounter
           n0 == s_assetCounter[f0]
           info == [factoryAddress |-> f0, factoryTokenId |-> n0,
                    transferable |-> transferable]
           slot == [fundiTokenId |-> t0, assetAddress |-> 0]
<1>0. TypeOK /\ FactoryTypeOK /\ Numbering /\ KindsInv
  BY DEF SlotsInv, KindsInv, NumberingInv, StructInv, TypeInv, TypeOK
<1>1. /\ frame = NoFrame /\ t0 < MaxTokens /\ ~Exists(t0)
      /\ s_tokenIdToAsset' = [s_tokenIdToAsset EXCEPT ![t0] = info]
      /\ s_assetInfo' = [s_assetInfo EXCEPT ![f0][n0] = slot]
      /\ s_assetCounter' = [s_assetCounter EXCEPT ![f0] = @ + 1]
      /\ UNCHANGED s_assets
  BY DEF MintAssetKey, NonReentrant, MintFundiFactoryAsset, Mint
<1>2. t0 \in TokenIds
  BY <1>0, <1>1, NextTokenId
<1>3. n0 \in TokenIds
  <2>1. n0 \in Nat /\ n0 <= s_tokenCounter
    BY <1>0, <1>1 DEF Numbering, Issued, FactoryTypeOK
  <2> QED
    BY <1>0, <1>1, <2>1, AccountsAssumption DEF TokenIds, TypeOK
<1>4. s_tokenIdToAsset[t0].factoryAddress = ZeroAddress
  BY <1>0, <1>1, <1>2 DEF KindsInv, KindOK, IsAssetKey
<1>5. info.factoryAddress = f0 /\ info.factoryTokenId = n0
  OBVIOUS
<1> HIDE DEF info, slot
<1>6. /\ s_tokenIdToAsset'[t0] = info
      /\ \A t \in TokenIds : t # t0 => s_tokenIdToAsset'[t] = s_tokenIdToAsset[t]
  BY <1>0, <1>1, <1>2 DEF TypeOK
<1>7. /\ s_assetInfo'[f0][n0] = slot
      /\ \A f \in Factories, n \in TokenIds :
            f # f0 \/ n # n0 => s_assetInfo'[f][n] = s_assetInfo[f][n]
  BY <1>0, <1>1, <1>3 DEF FactoryTypeOK
<1>8. /\ s_assetCounter'[f0] = n0 + 1
      /\ \A f \in Factories : f # f0 => s_assetCounter'[f] = s_assetCounter[f]
  BY <1>0, <1>1 DEF FactoryTypeOK
<1> QED
  BY <1>1, <1>2, <1>3, <1>4, <1>5, <1>6, <1>7, <1>8 DEF slot

\* What the deployment of a contract by factory f0 writes: no slot but one, and
\* of that the address only.
LEMMA SlotsDeploy ==
    ASSUME SlotsInv, NEW sender \in Accounts, NEW f0 \in Factories,
           NEW protocol \in Protocols, NEW t0 \in TokenIds,
           MintFactoryAsset(sender, f0, protocol, t0)
    PROVE  /\ UNCHANGED <<s_assetCounter, s_tokenIdToAsset>>
           /\ \A f \in Factories, n \in TokenIds :
                 s_assetInfo'[f][n].fundiTokenId = s_assetInfo[f][n].fundiTokenId
<1>0. FactoryTypeOK
  BY DEF SlotsInv, KindsInv, NumberingInv, StructInv, TypeInv, TypeOK
<1>1. UNCHANGED <<s_assetCounter, s_tokenIdToAsset>>
  BY DEF MintFactoryAsset, MintAsset, keyVars
<1>2. PICK m, v : s_assetInfo' = [s_assetInfo EXCEPT ![f0][m].assetAddress = v]
  BY DEF MintFactoryAsset, MintAsset
<1>3. ASSUME NEW f \in Factories, NEW n \in TokenIds
      PROVE  s_assetInfo'[f][n].fundiTokenId = s_assetInfo[f][n].fundiTokenId
  <2>1. s_assetInfo[f] \in [TokenIds -> Slot] /\ s_assetInfo[f][n] \in Slot
    BY <1>0 DEF FactoryTypeOK
  <2> QED
    BY <1>0, <1>2, <2>1 DEF FactoryTypeOK, Slot
<1> QED
  BY <1>1, <1>3

LEMMA SlotsStep == SlotsInv /\ [Next]_vars => SlotsInv'
<1> SUFFICES ASSUME SlotsInv, [Next]_vars
             PROVE  SlotsInv'
  OBVIOUS
<1>0. /\ KindsInv' /\ FactoryTypeOK
      /\ \A f \in Factories, t \in TokenIds : KeyNamesSlot(f, t) /\ SlotNamesKey(f, t)
      /\ \A t \in TokenIds : s_tokenIdToAsset[t].factoryTokenId \in TokenIds
  BY KindsStep DEF SlotsInv, KindsInv, NumberingInv, StructInv, TypeInv, TypeOK
<1>1. CASE UNCHANGED <<s_assetCounter, s_assetInfo, s_assets, s_tokenIdToAsset>>
  BY <1>0, <1>1 DEF SlotsInv, KeyNamesSlot, SlotNamesKey
<1>2. ASSUME NEW sender \in Accounts, NEW f0 \in Factories,
             NEW transferable \in BOOLEAN, NEW mintTo \in AccountsOrZero,
             MintAssetKey(sender, f0, transferable, mintTo)
      PROVE  SlotsInv'
  <2> DEFINE t0 == s_tokenCounter
             n0 == s_assetCounter[f0]
  <2>1. /\ t0 \in TokenIds /\ n0 \in TokenIds
        /\ s_tokenIdToAsset[t0].factoryAddress = ZeroAddress
        /\ s_tokenIdToAsset'[t0].factoryAddress = f0
        /\ s_tokenIdToAsset'[t0].factoryTokenId = n0
        /\ \A t \in TokenIds : t # t0 => s_tokenIdToAsset'[t] = s_tokenIdToAsset[t]
        /\ s_assetInfo'[f0][n0].fundiTokenId = t0
        /\ \A f \in Factories, n \in TokenIds :
              f # f0 \/ n # n0 => s_assetInfo'[f][n] = s_assetInfo[f][n]
        /\ s_assetCounter'[f0] = n0 + 1
        /\ \A f \in Factories : f # f0 => s_assetCounter'[f] = s_assetCounter[f]
    BY <1>2, SlotsMintAsset
  <2>2. n0 \in Int /\ n0 < n0 + 1 /\ \A n \in TokenIds : n < n0 + 1 <=> n < n0 \/ n = n0
    BY <2>1 DEF TokenIds
  <2> HIDE DEF t0, n0
  <2>3. \A t \in TokenIds : s_tokenIdToAsset'[t].factoryTokenId \in TokenIds
    BY <1>0, <2>1
  <2>4. ASSUME NEW f \in Factories, NEW t \in TokenIds
        PROVE  KeyNamesSlot(f, t)'
    <3>1. CASE t = t0
      BY <2>1, <2>2, <3>1 DEF KeyNamesSlot
    <3>2. CASE t # t0 /\ f # f0
      BY <1>0, <2>1, <3>2 DEF KeyNamesSlot
    <3>3. CASE t # t0 /\ f = f0
      <4>1. KeyNamesSlot(f, t) /\ s_tokenIdToAsset[t].factoryTokenId \in TokenIds
        BY <1>0
      <4>2. s_assetCounter[f] = n0
        BY <3>3 DEF n0
      <4>3. ASSUME s_tokenIdToAsset[t].factoryAddress = f
            PROVE  /\ s_tokenIdToAsset[t].factoryTokenId < n0 + 1
                   /\ s_tokenIdToAsset[t].factoryTokenId # n0
        BY <2>2, <4>1, <4>2, <4>3 DEF KeyNamesSlot
      <4> QED
        BY <2>1, <3>3, <4>1, <4>3 DEF KeyNamesSlot
    <3> QED
      BY <3>1, <3>2, <3>3
  <2>5. ASSUME NEW f \in Factories, NEW n \in TokenIds
        PROVE  SlotNamesKey(f, n)'
    <3>1. SlotNamesKey(f, n)
      BY <1>0
    <3>2. CASE f = f0 /\ n = n0
      BY <2>1, <3>2 DEF SlotNamesKey
    <3>3. CASE f # f0
      BY <2>1, <3>1, <3>3, FactoriesAssumption DEF SlotNamesKey
    <3>4. CASE f = f0 /\ n # n0
      <4>1. n < s_assetCounter'[f] => n < s_assetCounter[f]
        BY <2>1, <2>2, <3>4 DEF n0
      <4> QED
        BY <2>1, <3>1, <3>4, <4>1, FactoriesAssumption DEF SlotNamesKey
    <3> QED
      BY <3>2, <3>3, <3>4
  <2> QED
    BY <1>0, <2>3, <2>4, <2>5 DEF SlotsInv
<1>3. ASSUME NEW sender \in Accounts, NEW f0 \in Factories,
             NEW protocol \in Protocols, NEW t0 \in TokenIds,
             MintFactoryAsset(sender, f0, protocol, t0)
      PROVE  SlotsInv'
  <2>1. /\ UNCHANGED <<s_assetCounter, s_tokenIdToAsset>>
        /\ \A f \in Factories, n \in TokenIds :
              s_assetInfo'[f][n].fundiTokenId = s_assetInfo[f][n].fundiTokenId
    BY <1>3, SlotsDeploy
  <2> QED
    BY <1>0, <2>1 DEF SlotsInv, KeyNamesSlot, SlotNamesKey
<1> QED
  BY <1>1, <1>2, <1>3, SlotSteps

-----------------------------------------------------------------------------
(* The contracts deployed                                                  *)

\* mintAsset is called with the factory's own protocol.  With another one,
\* whose answer decides which slot is written, the properties below fail.
OwnProtocolOnly == OtherProtocols = {}

SlotNamesContract(f, n) ==
    LET slot == s_assetInfo[f][n]
    IN  slot.assetAddress # 0 =>
           /\ slot.assetAddress \in DOMAIN s_assets[f]
           /\ s_assets[f][slot.assetAddress].fundiTokenId = slot.fundiTokenId

\* A key whose contract exists cannot pass the guard of mintAsset again: its
\* slot is taken, or announces another key.
Spent(f, t) ==
    LET slot == s_assetInfo[f][s_tokenIdToAsset[t].factoryTokenId]
    IN  Exists(t) /\ ~(slot.fundiTokenId = t /\ slot.assetAddress = 0)

DeployedInv ==
    /\ OwnProtocolOnly
    /\ SlotsInv
    /\ \A f \in Factories, n \in TokenIds : SlotNamesContract(f, n)
    /\ \A f \in Factories : \A i \in DOMAIN s_assets[f] :
          Spent(f, s_assets[f][i].fundiTokenId)
    /\ OneContractPerKey

LEMMA DeployedInit == OwnProtocolOnly /\ Init => DeployedInv
<1> SUFFICES ASSUME OwnProtocolOnly, Init
             PROVE  DeployedInv
  OBVIOUS
<1>1. \A f \in Factories : DOMAIN s_assets[f] = {}
  BY DEF Init, FactoryInit
<1>2. \A f \in Factories, n \in TokenIds : SlotNamesContract(f, n)
  BY DEF Init, FactoryInit, EmptySlot, SlotNamesContract
<1> QED
  BY <1>1, <1>2, SlotsInit DEF DeployedInv, OneContractPerKey

\* An owned key stays owned.
LEMMA ExistsStays ==
    ASSUME TypeInv, [Next]_vars, NEW t \in TokenIds, Exists(t)
    PROVE  Exists(t)'
<1>0. ERC721TypeOK
  BY DEF TypeInv, TypeOK
<1>1. CASE ~MintStep
  BY <1>1, QuietSteps DEF Quiet
<1>2. ASSUME NEW to \in Accounts, Mint(to, s_tokenCounter)
      PROVE  Exists(t)'
  BY <1>0, <1>2 DEF Mint, Exists, ERC721TypeOK
<1>3. CASE MintStep
  <2>1. ASSUME NEW sender \in Accounts, NEW f \in Factories, NEW k \in FeeTokens,
               NEW fee \in MintFees, MintFactoryKey(sender, f, k, fee)
        PROVE  Exists(t)'
    BY <1>2, <2>1 DEF MintFactoryKey
  <2>2. ASSUME NEW sender \in Accounts, NEW f \in Factories,
               NEW transferable \in BOOLEAN, NEW mintTo \in AccountsOrZero,
               MintAssetKey(sender, f, transferable, mintTo)
        PROVE  Exists(t)'
    BY <1>2, <2>2 DEF MintAssetKey, AccountsOrZero
  <2>3. ASSUME EndMintFactoryKey \/ EndMintAssetKey
        PROVE  Exists(t)'
    BY <2>3 DEF EndMintFactoryKey, EndMintAssetKey, erc721Vars, Exists
  <2> QED
    BY <1>3, <2>1, <2>2, <2>3 DEF MintStep
<1> QED
  BY <1>1, <1>3

\* What the deployment of a contract writes where the protocol is the factory's
\* own: the contract is named in the slot that announced its key.
LEMMA DeployWrites ==
    ASSUME OwnProtocolOnly, SlotsInv, NEW sender \in Accounts, NEW f0 \in Factories,
           NEW protocol \in Protocols, NEW t0 \in TokenIds,
           MintFactoryAsset(sender, f0, protocol, t0)
    PROVE  LET n0 == s_tokenIdToAsset[t0].factoryTokenId
               last == Len(s_assets[f0]) + 1
           IN  /\ n0 \in TokenIds /\ Exists(t0)
               /\ s_assetInfo[f0][n0].assetAddress = 0
               /\ s_assetInfo[f0][n0].fundiTokenId = t0
               /\ s_assetInfo'[f0][n0].assetAddress = last
               /\ s_assetInfo'[f0][n0].fundiTokenId = t0
               /\ \A f \in Factories, n \in TokenIds :
                     f # f0 \/ n # n0 => s_assetInfo'[f][n] = s_assetInfo[f][n]
               /\ last \in Nat /\ last # 0 /\ last \notin DOMAIN s_assets[f0]
               /\ DOMAIN s_assets'[f0] = DOMAIN s_assets[f0] \cup {last}
               /\ s_assets'[f0][last].fundiTokenId = t0
               /\ \A i \in DOMAIN s_assets[f0] : s_assets'[f0][i] = s_assets[f0][i]
               /\ \A f \in Factories : f # f0 => s_assets'[f] = s_assets[f]
<1> DEFINE n0 == s_tokenIdToAsset[t0].factoryTokenId
           last == Len(s_assets[f0]) + 1
<1>0. FactoryTypeOK /\ n0 \in TokenIds
  BY DEF SlotsInv, KindsInv, NumberingInv, StructInv, TypeInv, TypeOK
<1>1. protocol = OwnProtocol
  BY DEF OwnProtocolOnly, Protocols
<1>2. MintAsset(sender, f0, protocol, t0, s_tokenIdToAsset[t0], s_tokenIdToAsset[t0])
  BY <1>1 DEF MintFactoryAsset, NamedInfos
<1>3. PICK asset :
         /\ asset.fundiTokenId = t0
         /\ s_assets' = [s_assets EXCEPT ![f0] = Append(@, asset)]
  BY <1>2 DEF MintAsset
<1>4. /\ Exists(t0)
      /\ s_assetInfo[f0][n0].assetAddress = 0 /\ s_assetInfo[f0][n0].fundiTokenId = t0
      /\ s_assetInfo' = [s_assetInfo EXCEPT ![f0][n0].assetAddress = last]
  BY <1>2 DEF MintAsset, AssetMintable
<1>5. s_assets[f0] \in Seq(Asset) /\ s_assets \in [Factories -> Seq(Asset)]
  BY <1>0 DEF FactoryTypeOK
<1>6. /\ last \in Nat /\ last # 0 /\ last \notin DOMAIN s_assets[f0]
      /\ DOMAIN Append(s_assets[f0], asset) = DOMAIN s_assets[f0] \cup {last}
      /\ Append(s_assets[f0], asset)[last] = asset
      /\ \A i \in DOMAIN s_assets[f0] :
            Append(s_assets[f0], asset)[i] = s_assets[f0][i]
  BY <1>5
<1>7. /\ s_assets'[f0] = Append(s_assets[f0], asset)
      /\ \A f \in Factories : f # f0 => s_assets'[f] = s_assets[f]
  BY <1>3, <1>5
<1>8. /\ s_assetInfo[f0] \in [TokenIds -> Slot] /\ s_assetInfo[f0][n0] \in Slot
      /\ s_assetInfo \in [Factories -> [TokenIds -> Slot]]
  BY <1>0 DEF FactoryTypeOK
<1> HIDE DEF n0, last
<1>9. /\ s_assetInfo'[f0][n0].assetAddress = last
      /\ s_assetInfo'[f0][n0].fundiTokenId = t0
      /\ \A f \in Factories, n \in TokenIds :
            f # f0 \/ n # n0 => s_assetInfo'[f][n] = s_assetInfo[f][n]
  BY <1>0, <1>4, <1>8 DEF Slot
<1> QED
  BY <1>0, <1>3, <1>4, <1>6, <1>7, <1>9 DEF n0, last

LEMMA DeployedStep == DeployedInv /\ [Next]_vars => DeployedInv'
<1> SUFFICES ASSUME DeployedInv, [Next]_vars
             PROVE  DeployedInv'
  OBVIOUS
<1>0. /\ OwnProtocolOnly /\ SlotsInv /\ SlotsInv' /\ FactoryTypeOK /\ TypeInv
      /\ \A t \in TokenIds : s_tokenIdToAsset[t].factoryTokenId \in TokenIds
      /\ \A f \in Factories, n \in TokenIds : SlotNamesContract(f, n)
      /\ OneContractPerKey
  BY SlotsStep
  DEF DeployedInv, SlotsInv, KindsInv, NumberingInv, StructInv, TypeInv, TypeOK
<1>1. ASSUME NEW f \in Factories, NEW i \in DOMAIN s_assets[f],
             NEW t, t = s_assets[f][i].fundiTokenId
      PROVE  t \in TokenIds /\ Exists(t)' /\ Spent(f, t)
  <2>1. s_assets[f] \in Seq(Asset)
    BY <1>0 DEF FactoryTypeOK
  <2>2. s_assets[f][i] \in Asset
    BY <2>1
  <2>3. t \in TokenIds
    BY <1>1, <2>2 DEF Asset
  <2>4. Spent(f, t)
    BY <1>1 DEF DeployedInv
  <2> QED
    BY <1>0, <2>3, <2>4, ExistsStays DEF Spent
<1>2. CASE UNCHANGED <<s_assetCounter, s_assetInfo, s_assets, s_tokenIdToAsset>>
  <2>1. \A f \in Factories, n \in TokenIds : SlotNamesContract(f, n)'
    BY <1>0, <1>2 DEF SlotNamesContract
  <2>2. \A f \in Factories : \A i \in DOMAIN s_assets'[f] :
           Spent(f, s_assets[f][i].fundiTokenId)'
    BY <1>1, <1>2 DEF Spent
  <2>3. OneContractPerKey'
    BY <1>0, <1>2 DEF OneContractPerKey
  <2> QED
    BY <1>0, <2>1, <2>2, <2>3 DEF DeployedInv
<1>3. ASSUME NEW sender \in Accounts, NEW f0 \in Factories,
             NEW transferable \in BOOLEAN, NEW mintTo \in AccountsOrZero,
             MintAssetKey(sender, f0, transferable, mintTo)
      PROVE  DeployedInv'
  <2> DEFINE t0 == s_tokenCounter
             n0 == s_assetCounter[f0]
  <2>1. /\ t0 \in TokenIds /\ ~Exists(t0) /\ n0 \in TokenIds
        /\ \A t \in TokenIds : t # t0 => s_tokenIdToAsset'[t] = s_tokenIdToAsset[t]
        /\ s_assetInfo'[f0][n0].fundiTokenId = t0
        /\ s_assetInfo'[f0][n0].assetAddress = 0
        /\ \A f \in Factories, n \in TokenIds :
              f # f0 \/ n # n0 => s_assetInfo'[f][n] = s_assetInfo[f][n]
        /\ UNCHANGED s_assets
    BY <1>0, <1>3, SlotsMintAsset
  <2> HIDE DEF t0, n0
  <2>2. ASSUME NEW f \in Factories, NEW n \in TokenIds
        PROVE  SlotNamesContract(f, n)'
    <3>1. SlotNamesContract(f, n)
      BY <1>0
    <3>2. CASE f = f0 /\ n = n0
      BY <2>1, <3>2 DEF SlotNamesContract
    <3>3. CASE f # f0 \/ n # n0
      BY <2>1, <3>1, <3>3 DEF SlotNamesContract
    <3> QED
      BY <3>2, <3>3
  <2>3. ASSUME NEW f \in Factories, NEW i \in DOMAIN s_assets'[f]
        PROVE  Spent(f, s_assets[f][i].fundiTokenId)'
    <3>0. PICK t : t = s_assets[f][i].fundiTokenId
      OBVIOUS
    <3> DEFINE n == s_tokenIdToAsset[t].factoryTokenId
    <3>1. /\ t \in TokenIds /\ Exists(t)' /\ Spent(f, t)
          /\ s_assets'[f][i].fundiTokenId = t
      BY <1>1, <2>1, <3>0
    <3>2. t # t0 /\ n \in TokenIds
      BY <1>0, <2>1, <3>1 DEF Spent
    <3>3. UNCHANGED n
      BY <2>1, <3>1, <3>2
    <3>4. CASE f = f0 /\ n = n0
      BY <2>1, <3>1, <3>2, <3>3, <3>4 DEF Spent
    <3>5. CASE f # f0 \/ n # n0
      <4>1. s_assetInfo'[f][n] = s_assetInfo[f][n]
        BY <2>1, <3>2, <3>5
      <4> QED
        BY <3>1, <3>3, <4>1 DEF Spent
    <3> QED
      BY <3>4, <3>5
  <2>4. OneContractPerKey'
    BY <1>0, <2>1 DEF OneContractPerKey
  <2> QED
    BY <1>0, <2>2, <2>3, <2>4 DEF DeployedInv
<1>4. ASSUME NEW sender \in Accounts, NEW f0 \in Factories,
             NEW protocol \in Protocols, NEW t0 \in TokenIds,
             MintFactoryAsset(sender, f0, protocol, t0)
      PROVE  DeployedInv'
  <2> DEFINE n0 == s_tokenIdToAsset[t0].factoryTokenId
             last == Len(s_assets[f0]) + 1
  <2>1. /\ n0 \in TokenIds /\ Exists(t0)
        /\ s_assetInfo[f0][n0].assetAddress = 0 /\ s_assetInfo[f0][n0].fundiTokenId = t0
        /\ s_assetInfo'[f0][n0].assetAddress = last
        /\ s_assetInfo'[f0][n0].fundiTokenId = t0
        /\ \A f \in Factories, n \in TokenIds :
              f # f0 \/ n # n0 => s_assetInfo'[f][n] = s_assetInfo[f][n]
        /\ last # 0 /\ last \notin DOMAIN s_assets[f0]
        /\ DOMAIN s_assets'[f0] = DOMAIN s_assets[f0] \cup {last}
        /\ s_assets'[f0][last].fundiTokenId = t0
        /\ \A i \in DOMAIN s_assets[f0] : s_assets'[f0][i] = s_assets[f0][i]
        /\ \A f \in Factories : f # f0 => s_assets'[f] = s_assets[f]
    BY <1>0, <1>4, DeployWrites
  <2>2. UNCHANGED s_tokenIdToAsset /\ Exists(t0)'
    BY <1>0, <1>4, <2>1, SlotsDeploy, ExistsStays
  <2>3. \A i \in DOMAIN s_assets[f0] : s_assets[f0][i].fundiTokenId # t0
    BY <1>1, <2>1 DEF Spent
  <2> HIDE DEF n0, last
  <2>4. ASSUME NEW f \in Factories, NEW n \in TokenIds
        PROVE  SlotNamesContract(f, n)'
    <3>1. SlotNamesContract(f, n)
      BY <1>0
    <3>2. CASE f = f0 /\ n = n0
      BY <2>1, <3>2 DEF SlotNamesContract
    <3>3. CASE f = f0 /\ n # n0
      BY <2>1, <3>1, <3>3 DEF SlotNamesContract
    <3>4. CASE f # f0
      BY <2>1, <3>1, <3>4 DEF SlotNamesContract
    <3> QED
      BY <3>2, <3>3, <3>4
  <2>5. ASSUME NEW f \in Factories, NEW i \in DOMAIN s_assets'[f]
        PROVE  Spent(f, s_assets[f][i].fundiTokenId)'
    <3>1. CASE f = f0 /\ i = last
      BY <2>1, <2>2, <3>1 DEF Spent, n0
    <3>2. CASE f # f0 \/ i # last
      <4>0. PICK t : t = s_assets[f][i].fundiTokenId
        OBVIOUS
      <4> DEFINE n == s_tokenIdToAsset[t].factoryTokenId
      <4>1. i \in DOMAIN s_assets[f] /\ s_assets'[f][i] = s_assets[f][i]
        BY <2>1, <3>2
      <4>2. /\ t \in TokenIds /\ Exists(t)' /\ Spent(f, t)
            /\ s_assets'[f][i].fundiTokenId = t /\ UNCHANGED n
        BY <1>1, <2>2, <4>0, <4>1
      <4>3. n \in TokenIds
        BY <1>0, <4>2
      <4>4. CASE f = f0 /\ n = n0
        BY <2>1, <4>2, <4>4 DEF Spent
      <4>5. CASE f # f0 \/ n # n0
        <5>1. s_assetInfo'[f][n] = s_assetInfo[f][n]
          BY <2>1, <4>3, <4>5
        <5> QED
          BY <4>2, <5>1 DEF Spent
      <4> QED
        BY <4>4, <4>5
    <3> QED
      BY <3>1, <3>2
  <2>6. OneContractPerKey'
    <3> SUFFICES ASSUME NEW f \in Factories,
                        NEW i \in DOMAIN s_assets'[f], NEW j \in DOMAIN s_assets'[f],
                        s_assets'[f][i].fundiTokenId = s_assets'[f][j].fundiTokenId
                 PROVE  i = j
      BY DEF OneContractPerKey
    <3>1. CASE f # f0
      BY <1>0, <2>1, <3>1 DEF OneContractPerKey
    <3>2. CASE f = f0
      BY <1>0, <2>1, <2>3, <3>2 DEF OneContractPerKey
    <3> QED
      BY <3>1, <3>2
  <2> QED
    BY <1>0, <2>4, <2>5, <2>6 DEF DeployedInv
<1> QED
  BY <1>2, <1>3, <1>4, <1>0, SlotSteps

\* A slot that no key was announced for names key 0, so the guard of mintAsset
\* takes key 0 for the key of such a slot, and no other key.
SlotUnwritten(f, n) ==
    s_assetCounter[f] <= n => s_assetInfo[f][n].fundiTokenId = 0

ContractForOwnKey(f, i) ==
    LET key == s_assets[f][i].fundiTokenId
    IN  key # 0 => s_tokenIdToAsset[key].factoryAddress = f

OwnKeysInv ==
    /\ DeployedInv
    /\ \A f \in Factories, n \in TokenIds : SlotUnwritten(f, n)
    /\ \A f \in Factories : \A i \in DOMAIN s_assets[f] : ContractForOwnKey(f, i)

LEMMA OwnKeysInit == OwnProtocolOnly /\ Init => OwnKeysInv
<1> SUFFICES ASSUME OwnProtocolOnly, Init
             PROVE  OwnKeysInv
  OBVIOUS
<1>1. \A f \in Factories : DOMAIN s_assets[f] = {}
  BY DEF Init, FactoryInit
<1>2. \A f \in Factories, n \in TokenIds : SlotUnwritten(f, n)
  BY DEF Init, FactoryInit, EmptySlot, SlotUnwritten
<1> QED
  BY <1>1, <1>2, DeployedInit DEF OwnKeysInv

LEMMA OwnKeysStep == OwnKeysInv /\ [Next]_vars => OwnKeysInv'
<1> SUFFICES ASSUME OwnKeysInv, [Next]_vars
             PROVE  OwnKeysInv'
  OBVIOUS
<1>0. /\ OwnProtocolOnly /\ SlotsInv /\ DeployedInv /\ DeployedInv' /\ FactoryTypeOK
      /\ \A f \in Factories, n \in TokenIds : SlotUnwritten(f, n) /\ SlotNamesKey(f, n)
  BY DeployedStep
  DEF OwnKeysInv, DeployedInv, SlotsInv, KindsInv, NumberingInv, StructInv, TypeInv,
      TypeOK
<1>1. ASSUME NEW f \in Factories, NEW i \in DOMAIN s_assets[f],
             NEW t, t = s_assets[f][i].fundiTokenId
      PROVE  /\ t \in TokenIds /\ Exists(t)
             /\ t # 0 => s_tokenIdToAsset[t].factoryAddress = f
  <2>1. s_assets[f] \in Seq(Asset)
    BY <1>0 DEF FactoryTypeOK
  <2>2. s_assets[f][i] \in Asset
    BY <2>1
  <2>3. t \in TokenIds
    BY <1>1, <2>2 DEF Asset
  <2>4. Spent(f, t) /\ ContractForOwnKey(f, i)
    BY <1>1 DEF OwnKeysInv, DeployedInv
  <2> QED
    BY <1>1, <2>3, <2>4 DEF Spent, ContractForOwnKey
<1>2. CASE UNCHANGED <<s_assetCounter, s_assetInfo, s_assets, s_tokenIdToAsset>>
  BY <1>0, <1>2 DEF OwnKeysInv, SlotUnwritten, ContractForOwnKey
<1>3. ASSUME NEW sender \in Accounts, NEW f0 \in Factories,
             NEW transferable \in BOOLEAN, NEW mintTo \in AccountsOrZero,
             MintAssetKey(sender, f0, transferable, mintTo)
      PROVE  OwnKeysInv'
  <2> DEFINE t0 == s_tokenCounter
             n0 == s_assetCounter[f0]
  <2>1. /\ t0 \in TokenIds /\ ~Exists(t0) /\ n0 \in TokenIds
        /\ \A t \in TokenIds : t # t0 => s_tokenIdToAsset'[t] = s_tokenIdToAsset[t]
        /\ \A f \in Factories, n \in TokenIds :
              f # f0 \/ n # n0 => s_assetInfo'[f][n] = s_assetInfo[f][n]
        /\ s_assetCounter'[f0] = n0 + 1
        /\ \A f \in Factories : f # f0 => s_assetCounter'[f] = s_assetCounter[f]
        /\ UNCHANGED s_assets
    BY <1>0, <1>3, SlotsMintAsset
  <2>2. n0 \in Int /\ \A n \in TokenIds : n0 + 1 <= n => n0 <= n /\ n # n0
    BY <2>1 DEF TokenIds
  <2>3. ASSUME NEW f \in Factories, NEW n \in TokenIds
        PROVE  SlotUnwritten(f, n)'
    <3>1. SlotUnwritten(f, n)
      BY <1>0
    <3>2. CASE f = f0
      BY <2>1, <2>2, <3>1, <3>2 DEF SlotUnwritten
    <3>3. CASE f # f0
      BY <2>1, <3>1, <3>3 DEF SlotUnwritten
    <3> QED
      BY <3>2, <3>3
  <2> HIDE DEF t0, n0
  <2>4. ASSUME NEW f \in Factories, NEW i \in DOMAIN s_assets'[f]
        PROVE  ContractForOwnKey(f, i)'
    <3>1. PICK t : t = s_assets[f][i].fundiTokenId
      OBVIOUS
    <3>2. /\ t \in TokenIds /\ Exists(t)
          /\ t # 0 => s_tokenIdToAsset[t].factoryAddress = f
          /\ s_assets'[f][i].fundiTokenId = t
      BY <1>1, <2>1, <3>1
    <3>3. s_tokenIdToAsset'[t] = s_tokenIdToAsset[t]
      BY <2>1, <3>2
    <3> QED
      BY <3>2, <3>3 DEF ContractForOwnKey
  <2> QED
    BY <1>0, <2>3, <2>4 DEF OwnKeysInv
<1>4. ASSUME NEW sender \in Accounts, NEW f0 \in Factories,
             NEW protocol \in Protocols, NEW t0 \in TokenIds,
             MintFactoryAsset(sender, f0, protocol, t0)
      PROVE  OwnKeysInv'
  <2> DEFINE n0 == s_tokenIdToAsset[t0].factoryTokenId
             last == Len(s_assets[f0]) + 1
  <2>1. /\ n0 \in TokenIds /\ s_assetInfo[f0][n0].fundiTokenId = t0
        /\ DOMAIN s_assets'[f0] = DOMAIN s_assets[f0] \cup {last}
        /\ s_assets'[f0][last].fundiTokenId = t0
        /\ \A i \in DOMAIN s_assets[f0] : s_assets'[f0][i] = s_assets[f0][i]
        /\ \A f \in Factories : f # f0 => s_assets'[f] = s_assets[f]
    BY <1>0, <1>4, DeployWrites
  <2>2. /\ UNCHANGED <<s_assetCounter, s_tokenIdToAsset>>
        /\ \A f \in Factories, n \in TokenIds :
              s_assetInfo'[f][n].fundiTokenId = s_assetInfo[f][n].fundiTokenId
    BY <1>0, <1>4, SlotsDeploy
  <2> HIDE DEF n0, last
  <2>3. \A f \in Factories, n \in TokenIds : SlotUnwritten(f, n)'
    BY <1>0, <2>2 DEF SlotUnwritten
  <2>4. t0 # 0 => s_tokenIdToAsset[t0].factoryAddress = f0
    <3>1. n0 \in Int /\ s_assetCounter[f0] \in Int
      BY <1>0, <2>1 DEF TokenIds, FactoryTypeOK
    <3>2. CASE s_assetCounter[f0] <= n0
      BY <1>0, <2>1, <3>2 DEF SlotUnwritten
    <3>3. CASE n0 < s_assetCounter[f0]
      BY <1>0, <2>1, <3>3 DEF SlotNamesKey
    <3> QED
      BY <3>1, <3>2, <3>3
  <2>5. ASSUME NEW f \in Factories, NEW i \in DOMAIN s_assets'[f]
        PROVE  ContractForOwnKey(f, i)'
    <3>1. CASE f = f0 /\ i = last
      BY <2>1, <2>2, <2>4, <3>1 DEF ContractForOwnKey
    <3>2. CASE f # f0 \/ i # last
      <4>1. i \in DOMAIN s_assets[f] /\ s_assets'[f][i] = s_assets[f][i]
        BY <2>1, <3>2
      <4> QED
        BY <1>1, <2>2, <4>1 DEF ContractForOwnKey
    <3> QED
      BY <3>1, <3>2
  <2> QED
    BY <1>0, <2>3, <2>5 DEF OwnKeysInv
<1> QED
  BY <1>2, <1>3, <1>4, <1>0, SlotSteps

\* A key opens one contract of a factory, and what the protocol, the factories
\* and the contracts record of one another agrees, as long as mintAsset is
\* called with the factory's own protocol.
THEOREM OneContractForAKey == OwnProtocolOnly /\ Spec => []OneContractPerKey
<1>1. DeployedInv => OneContractPerKey
  BY DEF DeployedInv
<1> QED
  BY <1>1, DeployedInit, DeployedStep, PTL DEF Spec

THEOREM RecordsKept == OwnProtocolOnly /\ Spec => []RecordsAgree
<1>1. DeployedInv => SlotsMatchKeys /\ SlotsNameTheirContract
  BY SlotsMatch DEF DeployedInv, SlotNamesContract, SlotsNameTheirContract
<1>2. OwnKeysInv => ContractsForOwnKeys /\ DeployedInv
  BY DEF OwnKeysInv, ContractsForOwnKeys, ContractForOwnKey
<1>3. OwnProtocolOnly /\ Spec => []OwnKeysInv
  BY OwnKeysInit, OwnKeysStep, PTL DEF Spec
<1>4. RegistryMutual /\ OwnKeysInv => RecordsAgree
  BY <1>1, <1>2 DEF RecordsAgree
<1> QED
  BY <1>3, <1>4, RegistrationsAgree, PTL

-----------------------------------------------------------------------------
(* The protocol implements the ledger of keys                              *)

\* The i-th key of the ledger: IssuedKeys is the sequence of these.
IssuedKey(t) ==
    LET info == s_tokenIdToAsset[t]
        isAsset == IsAssetKey(t)
    IN  [holder |-> owners[t],
         kind |-> IF isAsset THEN "asset" ELSE "factory",
         of |-> IF isAsset THEN info.factoryAddress
                ELSE IF s_tokenIdToFactory[t] # ZeroAddress
                     THEN s_tokenIdToFactory[t]
                     ELSE frame.factory,
         locked |-> isAsset /\ ~info.transferable]

LEMMA IssuedIs == IssuedKeys = [i \in 1 .. Issued |-> IssuedKey(i - 1)]
BY DEF IssuedKeys, IssuedKey, IsAssetKey

\* Every position of the sequence is a key that has an owner.
LEMMA Positions ==
    ASSUME KindsInv
    PROVE  /\ Issued \in Nat
           /\ \A i \in 1 .. Issued : i - 1 \in TokenIds /\ Exists(i - 1)
           /\ \A t \in TokenIds : Exists(t) => t + 1 \in 1 .. Issued
<1>0. TypeOK /\ KeysConsecutive /\ Numbering
  BY DEF KindsInv, NumberingInv, StructInv, TypeInv
<1>1. Issued \in Nat
  BY <1>0 DEF Issued, TypeOK
<1>2. ASSUME NEW t \in TokenIds, Exists(t)
      PROVE  t + 1 \in 1 .. Issued
  BY <1>0, <1>1, <1>2 DEF KeysConsecutive, TokenIds
<1>3. Issued <= MaxTokens
  BY <1>0 DEF Numbering
<1>4. ASSUME NEW i \in 1 .. Issued
      PROVE  i - 1 \in TokenIds /\ i - 1 < Issued
  BY <1>1, <1>3, AccountsAssumption DEF TokenIds
<1> QED
  BY <1>0, <1>1, <1>2, <1>4 DEF KeysConsecutive

\* A sequence that has one element more and else the same.
LEMMA OneMore ==
    ASSUME NEW n \in Nat, NEW a, NEW b,
           a = [i \in 1 .. n |-> a[i]], b = [i \in 1 .. n + 1 |-> b[i]],
           \A i \in 1 .. n : b[i] = a[i]
    PROVE  b = Append(a, b[n + 1])
<1> DEFINE S == {b[i] : i \in 1 .. n + 1}
           c == Append(a, b[n + 1])
<1>1. a \in [1 .. n -> S] /\ b[n + 1] \in S /\ b \in [1 .. n + 1 -> S]
  <2>1. n + 1 \in 1 .. n + 1 /\ \A i \in 1 .. n : i \in 1 .. n + 1
    OBVIOUS
  <2> QED
    BY <2>1
<1> HIDE DEF S
<1>2. a \in Seq(S) /\ Len(a) = n /\ b \in Seq(S) /\ Len(b) = n + 1
  BY <1>1
<1>3. /\ c \in Seq(S) /\ Len(c) = n + 1
      /\ \A i \in 1 .. n : c[i] = a[i]
      /\ c[n + 1] = b[n + 1]
  BY <1>1, <1>2, AppendProperties
<1> HIDE DEF c
<1>4. ASSUME NEW i \in 1 .. n + 1
      PROVE  b[i] = c[i]
  <2>1. i \in 1 .. n \/ i = n + 1
    OBVIOUS
  <2> QED
    BY <1>3, <2>1
<1>5. b = c
  BY <1>2, <1>3, <1>4, SeqEqual
<1> QED
  BY <1>5 DEF c

LEMMA SameKeys ==
    ASSUME KindsInv, UNCHANGED Issued,
           \A t \in TokenIds : Exists(t) => UNCHANGED IssuedKey(t)
    PROVE  UNCHANGED IssuedKeys
<1>1. IssuedKeys' = [i \in 1 .. Issued' |-> IssuedKey(i - 1)']
  BY DEF IssuedKeys, IssuedKey, IsAssetKey
<1> QED
  BY <1>1, IssuedIs, Positions

LEMMA OneMoreKey ==
    ASSUME KindsInv, Issued' = Issued + 1,
           \A t \in TokenIds : Exists(t) => UNCHANGED IssuedKey(t),
           NEW t0, t0 = Issued
    PROVE  IssuedKeys' = Append(IssuedKeys, IssuedKey(t0)')
<1>1. IssuedKeys' = [i \in 1 .. Issued + 1 |-> IssuedKey(i - 1)']
  BY DEF IssuedKeys, IssuedKey, IsAssetKey
<1>2. IssuedKeys = [i \in 1 .. Issued |-> IssuedKey(i - 1)] /\ Issued \in Nat
  BY IssuedIs, Positions
<1>3. \A i \in 1 .. Issued : IssuedKeys'[i] = IssuedKeys[i]
  <2> SUFFICES ASSUME NEW i \in 1 .. Issued
               PROVE  IssuedKeys'[i] = IssuedKeys[i]
    OBVIOUS
  <2>1. i \in 1 .. Issued + 1 /\ i - 1 \in TokenIds /\ Exists(i - 1)
    BY <1>2, Positions
  <2>2. IssuedKey(i - 1)' = IssuedKey(i - 1)
    BY <2>1
  <2> QED
    BY <1>1, <1>2, <2>1, <2>2
<1>4. IssuedKeys' = Append(IssuedKeys, IssuedKeys'[Issued + 1])
  <2>1. IssuedKeys = [i \in 1 .. Issued |-> IssuedKeys[i]]
    BY <1>2
  <2>2. IssuedKeys' = [i \in 1 .. Issued + 1 |-> IssuedKeys'[i]]
    BY <1>1
  <2> HIDE DEF IssuedKeys
  <2> QED
    BY <1>2, <1>3, <2>1, <2>2, OneMore
<1>5. IssuedKeys'[Issued + 1] = IssuedKey(t0)'
  <2>1. Issued + 1 \in 1 .. Issued + 1 /\ (Issued + 1) - 1 = t0
    BY <1>2
  <2>2. IssuedKeys' = [i \in 1 .. Issued + 1 |->
                         LET t == i - 1 IN IssuedKey(t)']
    BY <1>1
  <2> QED
    BY <2>1, <2>2
<1> QED
  BY <1>4, <1>5

\* What the ledger shows of a key does not change with what is no part of it.
LEMMA SameKey ==
    ASSUME NEW t \in TokenIds,
           UNCHANGED <<owners[t], s_tokenIdToAsset[t], s_tokenIdToFactory[t]>>,
           \/ IsAssetKey(t)
           \/ s_tokenIdToFactory[t] # ZeroAddress
           \/ UNCHANGED frame
    PROVE  UNCHANGED IssuedKey(t)
BY DEF IssuedKey, IsAssetKey

\* Between mints every key but the one being minted has its mapping.
LEMMA SettledKeys ==
    ASSUME KindsInv, NEW t \in TokenIds, Exists(t),
           \A f \in Factories : ~InFlight("factory", f)
    PROVE  IsAssetKey(t) \/ s_tokenIdToFactory[t] # ZeroAddress
BY DEF KindsInv, KindOK, IsFactoryKey

\* The ledger has a factory's own key exactly when the factory is registered
\* or its registration is under way.
LEMMA HasKeyIff ==
    ASSUME RegistryInv, NEW f \in Factories, frame = NoFrame
    PROVE  Ledger!HasKey(f) <=> Registered(f)
<1>0. KindsInv /\ TypeOK
  BY DEF RegistryInv, KindsInv, NumberingInv, StructInv, TypeInv
<1>1. \A g \in Factories : ~InFlight("factory", g)
  BY DEF InFlight
<1>2. /\ IssuedKeys = [i \in 1 .. Issued |-> IssuedKey(i - 1)]
      /\ DOMAIN IssuedKeys = 1 .. Issued
  BY IssuedIs
<1>3. ASSUME NEW i \in 1 .. Issued, IssuedKeys[i].kind = "factory",
             IssuedKeys[i].of = f
      PROVE  Registered(f)
  <2>1. PICK t \in TokenIds : t = i - 1 /\ Exists(t)
    BY <1>0, <1>3, Positions
  <2>2. IssuedKeys[i] = IssuedKey(t)
    BY <1>2, <1>3, <2>1
  <2>3. ~IsAssetKey(t)
    BY <1>3, <2>2 DEF IssuedKey
  <2>4. s_tokenIdToFactory[t] = f /\ f # ZeroAddress
    BY <1>0, <1>1, <1>3, <2>1, <2>2, <2>3, SettledKeys, FactoriesAssumption DEF IssuedKey
  <2> QED
    BY <2>4 DEF RegistryInv, KeyAgrees
<1>4. ASSUME Registered(f)
      PROVE  \E i \in 1 .. Issued : IssuedKeys[i].kind = "factory" /\ IssuedKeys[i].of = f
  <2> DEFINE t == s_assetMinterInfo[f].tokenId
  <2>1. t \in TokenIds /\ s_tokenIdToFactory[t] = f /\ f # ZeroAddress
    BY <1>0, <1>4, FactoriesAssumption
    DEF RegistryInv, FactoryAgrees, TypeOK, MinterInfo
  <2> HIDE DEF t
  <2>2. Exists(t) /\ ~IsAssetKey(t)
    BY <1>0, <2>1 DEF KindsInv, KindOK, IsFactoryKey
  <2>3. t + 1 \in 1 .. Issued /\ t \in Int
    BY <1>0, <2>1, <2>2, Positions DEF TokenIds
  <2>4. IssuedKeys[t + 1] = IssuedKey(t)
    <3>1. IssuedKeys[t + 1] = IssuedKey((t + 1) - 1) /\ (t + 1) - 1 = t
      BY <1>2, <2>3
    <3> QED
      BY <3>1
  <2>5. IssuedKey(t).kind = "factory" /\ IssuedKey(t).of = f
    BY <2>1, <2>2 DEF IssuedKey
  <2> QED
    BY <2>3, <2>4, <2>5
<1> QED
  BY <1>2, <1>3, <1>4 DEF Ledger!HasKey

LEMMA LedgerMint ==
    ASSUME RegistryInv, MintStep
    PROVE  \/ \E to \in Accounts, kind \in Ledger!Kinds, f \in Factories,
                 locked \in BOOLEAN : Ledger!Issue(to, kind, f, locked)
           \/ UNCHANGED IssuedKeys
<1>0. /\ KindsInv /\ Numbering /\ NumberingInv /\ TypeOK /\ ERC721TypeOK
      /\ s_tokenIdToAsset \in [TokenIds -> AssetInfo]
      /\ s_tokenIdToFactory \in [TokenIds -> Factories \cup {ZeroAddress}]
  BY DEF RegistryInv, KindsInv, NumberingInv, StructInv, TypeInv, TypeOK
<1>1. ASSUME NEW sender \in Accounts, NEW f \in Factories,
             NEW k \in FeeTokens, NEW fee \in MintFees,
             MintFactoryKey(sender, f, k, fee)
      PROVE  Ledger!Issue(sender, "factory", f, FALSE)
  <2>1. /\ frame = NoFrame /\ frame' # NoFrame /\ s_tokenCounter \in TokenIds
        /\ frame'.factory = f /\ ~Registered(f)
        /\ UNCHANGED <<s_tokenCounter, s_tokenIdToAsset, s_tokenIdToFactory>>
        /\ Mint(sender, s_tokenCounter)
    BY <1>0, <1>1, NextTokenId DEF MintFactoryKey, NonReentrant, NoFrame, keyVars
  <2>2. PICK t0 \in TokenIds : t0 = s_tokenCounter
    BY <2>1
  <2>3. t0 = Issued /\ Issued' = Issued + 1
    BY <2>1, <2>2 DEF Issued
  <2>4. /\ ~Exists(t0) /\ owners'[t0] = sender
        /\ \A t \in TokenIds : t # t0 => UNCHANGED owners[t]
    BY <1>0, <2>1, <2>2 DEF Mint, ERC721TypeOK
  <2>5. \A g \in Factories : ~InFlight("factory", g)
    BY <2>1 DEF InFlight
  <2>6. ASSUME NEW t \in TokenIds, Exists(t)
        PROVE  UNCHANGED IssuedKey(t)
    <3>1. t # t0
      BY <2>4, <2>6
    <3> QED
      BY <1>0, <2>1, <2>4, <2>5, <2>6, <3>1, SettledKeys, SameKey
  <2>7. IssuedKeys' = Append(IssuedKeys, IssuedKey(t0)')
    BY <1>0, <2>3, <2>6, OneMoreKey
  <2>8. ~IsAssetKey(t0) /\ s_tokenIdToFactory[t0] = ZeroAddress
    BY <1>0, <2>4 DEF KindsInv, KindOK, IsFactoryKey
  <2>9. IssuedKey(t0)' = [holder |-> sender, kind |-> "factory", of |-> f,
                          locked |-> FALSE]
    BY <2>1, <2>4, <2>8 DEF IssuedKey, IsAssetKey
  <2> QED
    BY <2>1, <2>7, <2>9, HasKeyIff DEF Ledger!Issue
<1>2. ASSUME EndMintFactoryKey
      PROVE  UNCHANGED IssuedKeys
  <2>1. /\ frame # NoFrame /\ frame.kind = "factory" /\ frame' = NoFrame
        /\ frame.factory \in Factories /\ frame.factory # ZeroAddress
        /\ frame.tokenId \in TokenIds
        /\ s_tokenCounter' = frame.tokenId + 1
        /\ s_tokenIdToFactory' =
              [s_tokenIdToFactory EXCEPT ![frame.tokenId] = frame.factory]
        /\ UNCHANGED <<owners, s_tokenIdToAsset>>
    BY <1>0, <1>2, FrameIsCall, FactoriesAssumption
    DEF EndMintFactoryKey, NoFrame, Frame, erc721Vars
  <2>2. UNCHANGED Issued
    BY <1>0, <2>1, NumberingEnds
  <2>3. ASSUME NEW t \in TokenIds, Exists(t)
        PROVE  UNCHANGED IssuedKey(t)
    <3>1. CASE t = frame.tokenId
      <4>1. /\ s_tokenIdToFactory[t] = ZeroAddress
            /\ s_tokenIdToFactory'[t] = frame.factory
        BY <1>0, <2>1, <3>1 DEF KindsInv
      <4> QED
        BY <2>1, <4>1 DEF IssuedKey, IsAssetKey
    <3>2. CASE t # frame.tokenId
      <4>1. UNCHANGED s_tokenIdToFactory[t]
        BY <1>0, <2>1, <3>2
      <4>2. IsAssetKey(t) \/ s_tokenIdToFactory[t] # ZeroAddress
        BY <1>0, <2>3, <3>2 DEF KindsInv, KindOK, IsFactoryKey
      <4> QED
        BY <2>1, <4>1, <4>2, SameKey
    <3> QED
      BY <3>1, <3>2
  <2> QED
    BY <1>0, <2>2, <2>3, SameKeys
<1>3. ASSUME NEW sender \in Accounts, NEW f \in Factories,
             NEW transferable \in BOOLEAN, NEW mintTo \in AccountsOrZero,
             MintAssetKey(sender, f, transferable, mintTo)
      PROVE  \E to \in Accounts, locked \in BOOLEAN :
                Ledger!Issue(to, "asset", f, locked)
  <2> DEFINE to == IF mintTo = ZeroAddress THEN sender ELSE mintTo
             info == [factoryAddress |-> f, factoryTokenId |-> s_assetCounter[f],
                      transferable |-> transferable]
  <2>1. /\ frame = NoFrame /\ frame' # NoFrame /\ s_tokenCounter \in TokenIds
        /\ to \in Accounts /\ Registered(f)
        /\ s_tokenIdToAsset' = [s_tokenIdToAsset EXCEPT ![s_tokenCounter] = info]
        /\ UNCHANGED <<s_tokenCounter, s_tokenIdToFactory>>
        /\ Mint(to, s_tokenCounter)
    BY <1>0, <1>3, NextTokenId
    DEF MintAssetKey, NonReentrant, NoFrame, FactoryAcceptsMints, AccountsOrZero
  <2>2. info.factoryAddress = f /\ info.transferable = transferable /\ f # ZeroAddress
    BY FactoriesAssumption
  <2> HIDE DEF to, info
  <2>3. PICK t0 \in TokenIds : t0 = s_tokenCounter
    BY <2>1
  <2>4. t0 = Issued /\ Issued' = Issued + 1
    BY <2>1, <2>3 DEF Issued
  <2>5. /\ ~Exists(t0) /\ owners'[t0] = to
        /\ \A t \in TokenIds : t # t0 => UNCHANGED owners[t]
    BY <1>0, <2>1, <2>3 DEF Mint, ERC721TypeOK
  <2>6. /\ s_tokenIdToAsset'[t0] = info
        /\ \A t \in TokenIds : t # t0 => UNCHANGED s_tokenIdToAsset[t]
    BY <1>0, <2>1, <2>3
  <2>7. \A g \in Factories : ~InFlight("factory", g)
    BY <2>1 DEF InFlight
  <2>8. ASSUME NEW t \in TokenIds, Exists(t)
        PROVE  UNCHANGED IssuedKey(t)
    <3>1. t # t0
      BY <2>5, <2>8
    <3> QED
      BY <1>0, <2>1, <2>5, <2>6, <2>7, <2>8, <3>1, SettledKeys, SameKey
  <2>9. IssuedKeys' = Append(IssuedKeys, IssuedKey(t0)')
    BY <1>0, <2>4, <2>8, OneMoreKey
  <2>10. PICK locked \in BOOLEAN :
            IssuedKey(t0)' = [holder |-> to, kind |-> "asset", of |-> f,
                              locked |-> locked]
    <3>1. CASE transferable
      BY <2>2, <2>5, <2>6, <3>1 DEF IssuedKey, IsAssetKey
    <3>2. CASE ~transferable
      BY <2>2, <2>5, <2>6, <3>2 DEF IssuedKey, IsAssetKey
    <3> QED
      BY <3>1, <3>2
  <2>11. Ledger!Issue(to, "asset", f, locked)
    BY <2>1, <2>9, <2>10, HasKeyIff DEF Ledger!Issue
  <2> QED
    BY <2>1, <2>11
<1>4. ASSUME EndMintAssetKey
      PROVE  UNCHANGED IssuedKeys
  <2>1. /\ frame # NoFrame /\ frame.kind = "asset" /\ frame' = NoFrame
        /\ s_tokenCounter' = frame.tokenId + 1
        /\ UNCHANGED <<owners, s_tokenIdToAsset, s_tokenIdToFactory>>
    BY <1>4 DEF EndMintAssetKey, NoFrame, erc721Vars
  <2>2. UNCHANGED Issued
    BY <1>0, <2>1, NumberingEnds
  <2>3. \A g \in Factories : ~InFlight("factory", g)
    BY <2>1 DEF InFlight
  <2>4. \A t \in TokenIds : Exists(t) => UNCHANGED IssuedKey(t)
    BY <1>0, <2>1, <2>3, SettledKeys, SameKey
  <2> QED
    BY <1>0, <2>2, <2>4, SameKeys
<1> DEFINE issued(kind) == \E to \in Accounts, f \in Factories, locked \in BOOLEAN :
                              Ledger!Issue(to, kind, f, locked)
<1>5. issued("factory") \/ issued("asset") \/ UNCHANGED IssuedKeys
  BY <1>1, <1>2, <1>3, <1>4 DEF MintStep
<1>6. "factory" \in Ledger!Kinds /\ "asset" \in Ledger!Kinds
  BY DEF Ledger!Kinds
<1> QED
  BY <1>5, <1>6

\* A transfer moves the key in the ledger, and no locked one.
LEMMA LedgerTransfer ==
    ASSUME RegistryInv, NEW sender \in Accounts, NEW to \in Accounts,
           NEW t0 \in TokenIds, TransferFrom(sender, to, t0)
    PROVE  \E i \in DOMAIN IssuedKeys : Ledger!Move(i, to)
<1>0. KindsInv /\ KindOK(t0) /\ TypeOK /\ ERC721TypeOK
  BY DEF RegistryInv, KindsInv, NumberingInv, StructInv, TypeInv, TypeOK
<1>1. /\ Exists(t0) /\ Movable(t0)
      /\ owners' = [owners EXCEPT ![t0] = to]
      /\ UNCHANGED <<keyVars, frame>>
  BY DEF TransferFrom, Transfer, IsApprovedOrOwner
<1>2. UNCHANGED <<Issued, s_tokenIdToAsset, s_tokenIdToFactory, frame>>
  BY <1>1 DEF Issued, keyVars
<1>3. /\ IssuedKeys = [i \in 1 .. Issued |-> IssuedKey(i - 1)]
      /\ Issued \in Nat
      /\ t0 + 1 \in 1 .. Issued /\ (t0 + 1) - 1 = t0
  <2>1. t0 \in Int
    BY DEF TokenIds
  <2> QED
    BY <1>0, <1>1, <2>1, IssuedIs, Positions
<1>4. ~IssuedKeys[t0 + 1].locked
  <2>1. IssuedKeys[t0 + 1] = IssuedKey((t0 + 1) - 1)
    BY <1>3
  <2>2. IssuedKeys[t0 + 1] = IssuedKey(t0)
    BY <1>3, <2>1
  <2>3. ~IssuedKey(t0).locked
    BY <1>0, <1>1 DEF Movable, KindOK, IsFactoryKey, IssuedKey
  <2> QED
    BY <2>2, <2>3
<1>5. IssuedKeys' = [IssuedKeys EXCEPT ![t0 + 1].holder = to]
  <2>1. IssuedKeys' = [i \in 1 .. Issued |-> IssuedKey(i - 1)']
    BY <1>2 DEF IssuedKeys, IssuedKey, IsAssetKey
  <2>2. ASSUME NEW i \in 1 .. Issued, NEW t \in TokenIds, t = i - 1
        PROVE  IssuedKey(t)' = IF i = t0 + 1 THEN [IssuedKey(t) EXCEPT !.holder = to]
                               ELSE IssuedKey(t)
    <3>1. CASE t = t0
      <4>1. owners'[t] = to
        BY <1>0, <1>1, <3>1 DEF ERC721TypeOK
      <4>2. i = t0 + 1
        BY <2>2, <3>1
      <4> QED
        BY <1>2, <4>1, <4>2 DEF IssuedKey, IsAssetKey
    <3>2. CASE t # t0
      <4>1. UNCHANGED owners[t]
        BY <1>0, <1>1, <3>2 DEF ERC721TypeOK
      <4>2. i # t0 + 1
        BY <2>2, <3>2, <1>3
      <4> QED
        BY <1>2, <4>1, <4>2 DEF IssuedKey, IsAssetKey
    <3> QED
      BY <3>1, <3>2
  <2>3. ASSUME NEW i \in 1 .. Issued
        PROVE  IssuedKeys'[i] = [IssuedKeys EXCEPT ![t0 + 1].holder = to][i]
    <3>1. PICK t \in TokenIds : t = i - 1
      BY <1>0, Positions
    <3>2. IssuedKeys[i] = IssuedKey(t) /\ IssuedKeys'[i] = IssuedKey(t)'
      BY <1>3, <2>1, <3>1
    <3> HIDE DEF IssuedKeys
    <3> QED
      BY <1>3, <2>2, <3>1, <3>2
  <2> HIDE DEF IssuedKeys
  <2> QED
    BY <1>3, <2>1, <2>3
<1>6. t0 + 1 \in DOMAIN IssuedKeys
  BY <1>3
<1> QED
  BY <1>4, <1>5, <1>6 DEF Ledger!Move

LEMMA LedgerStays ==
    ASSUME RegistryInv, UNCHANGED <<owners, keyVars, frame>>
    PROVE  UNCHANGED IssuedKeys
<1>1. UNCHANGED Issued
  BY DEF Issued, keyVars
<1>2. \A t \in TokenIds : UNCHANGED IssuedKey(t)
  BY SameKey DEF keyVars
<1> QED
  BY <1>1, <1>2, SameKeys DEF RegistryInv

LEMMA LedgerRefined ==
    ASSUME RegistryInv, [Next]_vars
    PROVE  [Ledger!KeyLedgerNext]_IssuedKeys
<1>1. CASE MintStep
  BY <1>1, LedgerMint DEF Ledger!KeyLedgerNext
<1>2. CASE WithdrawStep \/ StatusStep \/ UNCHANGED vars
  <2>1. UNCHANGED <<erc721Vars, keyVars, frame>>
    BY <1>2
    DEF WithdrawStep, StatusStep, WithdrawFundiProceeds, WithdrawMintFeeProceeds,
        SetAssetFactoryStatus, VerifyContract, UpdateFlag, vars
  <2> QED
    BY <2>1, LedgerStays DEF erc721Vars
<1>3. CASE FactoryStep
  <2>1. UNCHANGED <<erc721Vars, keyVars, frame>>
    BY <1>3 DEF FactoryStep, MintFactoryAsset, SetFactoryURI, AuditFactory
  <2> QED
    BY <2>1, LedgerStays DEF erc721Vars
<1>4. CASE LedgerStep
  <2>1. ASSUME NEW sender \in Accounts,
               \/ \E to \in Delegates \cup {ZeroAddress}, t \in TokenIds :
                     Approve(sender, to, t)
               \/ \E operator \in Delegates, approved \in BOOLEAN :
                     SetApprovalForAll(sender, operator, approved)
        PROVE  UNCHANGED <<owners, keyVars, frame>>
    BY <2>1 DEF Approve, SetApprovalForAll, ApproveKey, ApproveOperator
  <2> QED
    BY <1>4, <2>1, LedgerTransfer, LedgerStays DEF LedgerStep, Ledger!KeyLedgerNext
<1> QED
  BY <1>1, <1>2, <1>3, <1>4 DEF Next

LEMMA LedgerStarts == Init => Ledger!KeyLedgerInit
<1> SUFFICES ASSUME Init
             PROVE  IssuedKeys = << >>
  BY DEF Ledger!KeyLedgerInit
<1>1. Issued = 0
  BY DEF Init, Issued
<1> QED
  BY <1>1, IssuedIs

\* The protocol with its factories implements KeyLedger: ids in order, kind and
\* factory of a key fixed for ever, a factory's own key before the keys of its
\* assets, locked keys never move; and this holds of the keys as they are seen
\* from inside the callbacks, too.
THEOREM ProtocolImplementsLedger == Spec => ImplementsKeyLedger
<1>1. RegistryInv /\ [Next]_vars => [Ledger!KeyLedgerNext]_IssuedKeys
  BY LedgerRefined
<1>2. Spec => []RegistryInv
  BY RegistryInit, RegistryStep, PTL DEF Spec
<1> QED
  BY <1>1, <1>2, LedgerStarts, PTL DEF Spec, ImplementsKeyLedger, Ledger!KeyLedgerSpec
=============================================================================
