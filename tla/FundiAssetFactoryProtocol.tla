--------------------- MODULE FundiAssetFactoryProtocol ---------------------
(***************************************************************************)
(* The Fundi protocol, FundiAssetFactoryProtocol, composed with the        *)
(* factories it registers and with the ERC721 ledger it is.                *)
(*                                                                         *)
(* A call is one step, since a transaction runs alone and undoes all it    *)
(* did when it reverts.  The two mint functions are the exception: they    *)
(* hand control to the recipient of the key (_safeMint calls               *)
(* onERC721Received) before they have written all they write.  Each is two *)
(* steps, up to the callback and after it, and while the variable frame    *)
(* holds the suspended call the recipient's code may make any call that    *)
(* nonReentrant does not stop.                                             *)
(*                                                                         *)
(* The ERC20 tokens are external: what counts of them is how much of each  *)
(* the protocol holds, and whether transfer does what it is asked to do.   *)
(***************************************************************************)
EXTENDS FundiFactory, FiniteSets

CONSTANTS
    Contracts,     \* the accounts with code, whose onERC721Received runs
    DAO,           \* i_fundiProtocolGovernor: the timelock
    FundiToken,    \* i_fundiToken
    FeeTokens,     \* ERC20 tokens a factory may charge its mint fee in
    TaxedTokens,   \* those that deliver less than the amount transferred
    SilentTokens,  \* those whose transfer may return false, moving nothing
    MintFees,      \* values of tokenMintFee a creator may choose
    FundiMintFee,  \* s_fundiMintFee, in units that a percentage divides
    FactoryFee,    \* s_assetFactoryFee
    MinMintCount,  \* mints before a factory can be verified: 5 in the source
    Amounts        \* BOUND: amounts requested in a withdrawal

ASSUME ProtocolAssumption ==
    /\ Contracts \subseteq Accounts
    /\ IsFiniteSet(Factories)
    /\ FundiToken \in FeeTokens \ (TaxedTokens \cup SilentTokens)
    /\ ZeroAddress \notin FeeTokens
    /\ MintFees \subseteq Nat
    /\ FundiMintFee \in Nat
    /\ FactoryFee \in Nat
    /\ MinMintCount \in Nat \ {0}
    /\ Amounts \subseteq Nat

VARIABLES
    s_tokenCounter,
    s_assetMinterCounter,
    s_tokenIdToAsset,
    s_tokenIdToFactory,
    s_assetMinterInfo,
    s_factoryProceeds,     \* share of the Fundi mint fees owed to a factory
    s_factoryFeeProceeds,  \* custom mint fees owed to a factory
    frame,                 \* the mint call suspended in its callback, if any
    held,                  \* what the protocol holds of each ERC20 token
    fundiReceived,         \* HISTORY: Fundi tokens a factory's owners received
    feesReceived           \* HISTORY: mint fees a factory's owners received

keyVars == <<s_tokenCounter, s_assetMinterCounter, s_tokenIdToAsset,
             s_tokenIdToFactory>>
moneyVars == <<s_factoryProceeds, s_factoryFeeProceeds, held, fundiReceived,
               feesReceived>>
vars == <<erc721Vars, factoryVars, keyVars, s_assetMinterInfo, frame,
          moneyVars>>

\* struct AssetFactory, without its names and texts.
MinterInfo ==
    [contractAddress : Factories \cup {ZeroAddress}, tokenId : TokenIds,
     factoryNum : Nat, tokenAddress : FeeTokens \cup {ZeroAddress},
     tokenMintFee : Nat, active : BOOLEAN, flagged : BOOLEAN,
     verified : BOOLEAN, mintCount : Nat]

NoMinter ==
    [contractAddress |-> ZeroAddress, tokenId |-> 0, factoryNum |-> 0,
     tokenAddress |-> ZeroAddress, tokenMintFee |-> 0, active |-> FALSE,
     flagged |-> FALSE, verified |-> FALSE, mintCount |-> 0]

\* A suspended call: the factory and key it mints for, the recipient whose
\* code runs, and the struct it holds in memory and will write to storage.
Frame == [kind : {"asset", "factory"}, factory : Factories, tokenId : TokenIds,
          to : Accounts, minter : MinterInfo]

NoFrame == [kind |-> "none"]

TypeOK ==
    /\ ERC721TypeOK
    /\ FactoryTypeOK
    /\ s_tokenCounter \in Nat
    /\ s_assetMinterCounter \in Nat
    /\ s_tokenIdToAsset \in [TokenIds -> AssetInfo]
    /\ s_tokenIdToFactory \in [TokenIds -> Factories \cup {ZeroAddress}]
    /\ s_assetMinterInfo \in [Factories -> MinterInfo]
    /\ s_factoryProceeds \in [Factories -> Nat]
    /\ s_factoryFeeProceeds \in [Factories -> Nat]
    /\ frame \in Frame \cup {NoFrame}
    /\ held \in [FeeTokens -> Nat]
    /\ fundiReceived \in [Factories -> Nat]
    /\ feesReceived \in [Factories -> Nat]

Init ==
    /\ ERC721Init
    /\ FactoryInit
    /\ s_tokenCounter = 0
    /\ s_assetMinterCounter = 0
    /\ s_tokenIdToAsset = [t \in TokenIds |-> NoAssetInfo]
    /\ s_tokenIdToFactory = [t \in TokenIds |-> ZeroAddress]
    /\ s_assetMinterInfo = [f \in Factories |-> NoMinter]
    /\ s_factoryProceeds = [f \in Factories |-> 0]
    /\ s_factoryFeeProceeds = [f \in Factories |-> 0]
    /\ frame = NoFrame
    /\ held = [k \in FeeTokens |-> 0]
    /\ fundiReceived = [f \in Factories |-> 0]
    /\ feesReceived = [f \in Factories |-> 0]

-----------------------------------------------------------------------------
(* Who may call                                                            *)

Registered(f) == s_assetMinterInfo[f].contractAddress # ZeroAddress

\* nonReentrant: no mint is suspended.
NonReentrant == frame = NoFrame

\* Between transactions anyone may call.  Inside the callback only code runs:
\* the recipient's, which may go through other contracts, among them the
\* timelock, whose executor role is open.
MayCall(sender) ==
    frame # NoFrame => /\ frame.to \in Contracts
                       /\ sender \in Contracts \cup Factories \cup {DAO}

\* _isAuthorizedOrOwner; owner() reverts when the factory's key does not exist.
IsAuthorizedOrOwner(sender, f) ==
    /\ Exists(i_fundiTokenId[f])
    /\ sender \in {FactoryOwner(f), f}

\* Mutant: an unregistered factory may have been set active.
FactoryAcceptsMintsIfActive(f) == s_assetMinterInfo[f].active

\* _assetMintable of the protocol
FactoryAcceptsMints(f) == Registered(f) /\ s_assetMinterInfo[f].active

-----------------------------------------------------------------------------
(* Fees and proceeds                                                       *)

PercentPayment(amount, basisPoints) == (amount * basisPoints) \div 10000

\* Mutants: the protocol's percentage paid to the factory, and one not scaled
\* to basis points.
FactoryShareSwapped(minter) ==
    PercentPayment(FundiMintFee, IF minter.verified THEN 3000
                                 ELSE IF minter.flagged THEN 9000 ELSE 7000)
FactoryShareUnscaled(minter) ==
    PercentPayment(FundiMintFee, 10000 - (IF minter.verified THEN 30
                                          ELSE IF minter.flagged THEN 90 ELSE 70))

\* What the factory gets of the Fundi mint fee: 100% less the protocol's
\* percentage (i_fundiBasisPts, times NUM_BASIS) for the factory's status.
FactoryShare(minter) ==
    LET protocolPts ==
            IF minter.verified
            THEN IF minter.tokenMintFee = 0 \/ minter.tokenAddress = FundiToken
                 THEN 30
                 ELSE 40
            ELSE IF minter.flagged THEN 90 ELSE 70
    IN  PercentPayment(FundiMintFee, 10000 - protocolPts * 100)

\* _updateProceeds
UpdateProceeds(f, minter) ==
    /\ s_factoryProceeds' =
         [s_factoryProceeds EXCEPT ![f] = @ + FactoryShare(minter)]
    /\ s_factoryFeeProceeds' =
         [s_factoryFeeProceeds EXCEPT ![f] = @ + minter.tokenMintFee]

\* Mutant: fees are credited whether or not they arrive in full.
TakeMintFeesUnchecked(minter) ==
    LET withFundi == [held EXCEPT ![FundiToken] = @ + FundiMintFee]
    IN  held' = [withFundi EXCEPT ![minter.tokenAddress] = @ +
                   IF minter.tokenAddress \in TaxedTokens
                   THEN minter.tokenMintFee - 1 ELSE minter.tokenMintFee]

\* What arrives of an amount taken with safeTransferFrom.
Delivered(k, amount) == IF k \in TaxedTokens THEN amount - 1 ELSE amount

\* The fees of mintAssetKey: the custom fee must arrive in full.
TakeMintFees(minter) ==
    LET withFundi == [held EXCEPT ![FundiToken] = @ + FundiMintFee]
        k == minter.tokenAddress
        fee == minter.tokenMintFee
    IN  IF fee = 0
        THEN held' = withFundi
        ELSE /\ Delivered(k, fee) = fee
             /\ held' = [withFundi EXCEPT ![k] = @ + Delivered(k, fee)]

\* checkMinter
ProceedsAvailable(proceeds, amount) == proceeds > 0 /\ amount <= proceeds

-----------------------------------------------------------------------------
(* Minting a factory's key                                                 *)

\* mintFactoryKey up to the callback of _safeMint.  The struct it will write
\* is all arguments and defaults: factoryNum is read after the callback.
MintFactoryKey(sender, f, tokenAddress, tokenMintFee) ==
    /\ NonReentrant
    /\ sender = Creator[f]
    /\ ~Registered(f)
    /\ s_tokenCounter < MaxTokens
    /\ held' = [held EXCEPT ![FundiToken] = @ + FactoryFee]
    /\ SetFundiTokenId(f, s_tokenCounter)
    /\ Mint(sender, s_tokenCounter)
    /\ frame' = [kind |-> "factory", factory |-> f, tokenId |-> s_tokenCounter,
                 to |-> sender,
                 minter |-> [NoMinter EXCEPT !.contractAddress = f,
                                             !.tokenId = s_tokenCounter,
                                             !.tokenAddress = tokenAddress,
                                             !.tokenMintFee = tokenMintFee,
                                             !.active = TRUE]]
    /\ UNCHANGED <<keyVars, s_assetMinterInfo, s_factoryProceeds,
                   s_factoryFeeProceeds, fundiReceived, feesReceived>>

\* Mutants: the counters are not moved; the key is not recorded.
EndMintFactoryKeyUncounted ==
    /\ frame.kind = "factory"
    /\ s_tokenIdToFactory' =
         [s_tokenIdToFactory EXCEPT ![frame.tokenId] = frame.factory]
    /\ s_assetMinterInfo' =
         [s_assetMinterInfo EXCEPT ![frame.factory] = frame.minter]
    /\ frame' = NoFrame
    /\ UNCHANGED <<erc721Vars, factoryVars, s_tokenIdToAsset, s_tokenCounter,
                   s_assetMinterCounter, moneyVars>>
EndMintFactoryKeyUnrecorded ==
    /\ frame.kind = "factory"
    /\ s_assetMinterInfo' =
         [s_assetMinterInfo EXCEPT ![frame.factory] = frame.minter]
    /\ s_assetMinterCounter' = s_assetMinterCounter + 1
    /\ s_tokenCounter' = frame.tokenId + 1
    /\ frame' = NoFrame
    /\ UNCHANGED <<erc721Vars, factoryVars, s_tokenIdToAsset,
                   s_tokenIdToFactory, moneyVars>>

\* mintFactoryKey after the callback
EndMintFactoryKey ==
    /\ frame.kind = "factory"
    /\ s_tokenIdToFactory' =
         [s_tokenIdToFactory EXCEPT ![frame.tokenId] = frame.factory]
    /\ s_assetMinterInfo' =
         [s_assetMinterInfo EXCEPT ![frame.factory] =
            [frame.minter EXCEPT !.factoryNum = s_assetMinterCounter]]
    /\ s_assetMinterCounter' = s_assetMinterCounter + 1
    /\ s_tokenCounter' = frame.tokenId + 1
    /\ frame' = NoFrame
    /\ UNCHANGED <<erc721Vars, factoryVars, s_tokenIdToAsset, moneyVars>>

-----------------------------------------------------------------------------
(* Minting an asset's key                                                  *)

\* mintAssetKey up to the callback of _safeMint.  The call keeps the copy of
\* the factory's struct it read at its start.
MintAssetKey(sender, f, transferable, mintTo) ==
    LET minter == s_assetMinterInfo[f]
        assetId == s_tokenCounter
        to == IF mintTo = ZeroAddress THEN sender ELSE mintTo
    IN  /\ NonReentrant
        /\ FactoryAcceptsMints(f)
        /\ assetId < MaxTokens
        /\ TakeMintFees(minter)
        /\ MintFundiFactoryAsset(f, assetId)
        /\ s_tokenIdToAsset' = [s_tokenIdToAsset EXCEPT ![assetId] =
                                  [factoryAddress |-> f,
                                   factoryTokenId |-> s_assetCounter[f],
                                   transferable |-> transferable]]
        /\ Mint(to, assetId)
        /\ frame' = [kind |-> "asset", factory |-> f, tokenId |-> assetId,
                     to |-> to, minter |-> minter]
        /\ UNCHANGED <<s_tokenCounter, s_assetMinterCounter,
                       s_tokenIdToFactory, s_assetMinterInfo,
                       s_factoryProceeds, s_factoryFeeProceeds, fundiReceived,
                       feesReceived>>

\* mintAssetKey after the callback: the proceeds of the mint, the counters,
\* and the copy of the struct written back whole.
EndMintAssetKey ==
    /\ frame.kind = "asset"
    /\ UpdateProceeds(frame.factory, frame.minter)
    /\ s_tokenCounter' = frame.tokenId + 1
    /\ s_assetMinterInfo' =
         [s_assetMinterInfo EXCEPT ![frame.factory] =
            [frame.minter EXCEPT !.mintCount = @ + 1]]
    /\ frame' = NoFrame
    /\ UNCHANGED <<erc721Vars, factoryVars, s_assetMinterCounter,
                   s_tokenIdToAsset, s_tokenIdToFactory, held, fundiReceived,
                   feesReceived>>

-----------------------------------------------------------------------------
(* Withdrawals                                                             *)

WithdrawFundiProceeds(sender, f, amount) ==
    /\ NonReentrant
    /\ sender = FactoryOwner(f)
    /\ ProceedsAvailable(s_factoryProceeds[f], amount)
    /\ held[FundiToken] >= amount
    /\ s_factoryProceeds' = [s_factoryProceeds EXCEPT ![f] = @ - amount]
    /\ held' = [held EXCEPT ![FundiToken] = @ - amount]
    /\ fundiReceived' = [fundiReceived EXCEPT ![f] = @ + amount]
    /\ UNCHANGED <<erc721Vars, factoryVars, keyVars, s_assetMinterInfo, frame,
                   s_factoryFeeProceeds, feesReceived>>

\* Mutant: the fees withdrawn stay on the books.
WithdrawMintFeeProceedsUnbooked(sender, f, amount, paid) ==
    /\ NonReentrant
    /\ sender = FactoryOwner(f)
    /\ ProceedsAvailable(s_factoryFeeProceeds[f], amount)
    /\ held[s_assetMinterInfo[f].tokenAddress] >= amount
    /\ paid
    /\ held' = [held EXCEPT ![s_assetMinterInfo[f].tokenAddress] = @ - amount]
    /\ feesReceived' = [feesReceived EXCEPT ![f] = @ + amount]
    /\ UNCHANGED <<erc721Vars, factoryVars, keyVars, s_assetMinterInfo, frame,
                   s_factoryProceeds, s_factoryFeeProceeds, fundiReceived>>

\* paid is the Boolean that transfer returns, which the code does not look at.
WithdrawMintFeeProceeds(sender, f, amount, paid) ==
    LET k == s_assetMinterInfo[f].tokenAddress
        moved == IF paid THEN amount ELSE 0
    IN  /\ NonReentrant
        /\ sender = FactoryOwner(f)
        /\ ProceedsAvailable(s_factoryFeeProceeds[f], amount)
        /\ held[k] >= amount
        /\ paid \/ k \in SilentTokens
        /\ s_factoryFeeProceeds' =
             [s_factoryFeeProceeds EXCEPT ![f] = @ - amount]
        /\ held' = [held EXCEPT ![k] = @ - moved]
        /\ feesReceived' = [feesReceived EXCEPT ![f] = @ + moved]
        /\ UNCHANGED <<erc721Vars, factoryVars, keyVars, s_assetMinterInfo,
                       frame, s_factoryProceeds, fundiReceived>>

-----------------------------------------------------------------------------
(* The status of a factory.  None of these is nonReentrant.                *)

\* Mutant: activating a factory takes its flag away.
SetAssetFactoryStatusUnflags(sender, f, active) ==
    /\ MayCall(sender)
    /\ IsAuthorizedOrOwner(sender, f)
    /\ s_assetMinterInfo' = [s_assetMinterInfo EXCEPT ![f].active = active,
                                                     ![f].flagged = @ /\ ~active]
    /\ UNCHANGED <<erc721Vars, factoryVars, keyVars, frame, moneyVars>>

SetAssetFactoryStatus(sender, f, active) ==
    /\ MayCall(sender)
    /\ IsAuthorizedOrOwner(sender, f)
    /\ s_assetMinterInfo' = [s_assetMinterInfo EXCEPT ![f].active = active]
    /\ UNCHANGED <<erc721Vars, factoryVars, keyVars, frame, moneyVars>>

\* Mutant: without MinimumMintCountRequired.
VerifyContractUntested(f) ==
    /\ MayCall(DAO)
    /\ ~s_assetMinterInfo[f].flagged
    /\ s_assetMinterInfo' = [s_assetMinterInfo EXCEPT ![f].verified = TRUE]
    /\ UNCHANGED <<erc721Vars, factoryVars, keyVars, frame, moneyVars>>

\* verifyContract, onlyDAO
VerifyContract(f) ==
    /\ MayCall(DAO)
    /\ s_assetMinterInfo[f].mintCount >= MinMintCount
    /\ ~s_assetMinterInfo[f].flagged
    /\ s_assetMinterInfo' = [s_assetMinterInfo EXCEPT ![f].verified = TRUE]
    /\ UNCHANGED <<erc721Vars, factoryVars, keyVars, frame, moneyVars>>

\* Mutant: a flag starts the struct anew.
UpdateFlagResets(f, flagStatus) ==
    /\ MayCall(DAO)
    /\ Registered(f)
    /\ s_assetMinterInfo' =
         [s_assetMinterInfo EXCEPT ![f].flagged = flagStatus,
                                   ![f].verified = @ /\ ~flagStatus,
                                   ![f].mintCount = 0]
    /\ UNCHANGED <<erc721Vars, factoryVars, keyVars, frame, moneyVars>>

\* updateFlag, onlyDAO: a flag takes the verification away.
UpdateFlag(f, flagStatus) ==
    /\ MayCall(DAO)
    /\ Registered(f)
    /\ s_assetMinterInfo' =
         [s_assetMinterInfo EXCEPT ![f].flagged = flagStatus,
                                   ![f].verified = @ /\ ~flagStatus]
    /\ UNCHANGED <<erc721Vars, factoryVars, keyVars, frame, moneyVars>>

-----------------------------------------------------------------------------
(* The ledger of keys                                                      *)

\* "This asset is untransferable" unless it was minted transferable or is the
\* key of a factory.
MovableAlways(t) == TRUE  \* mutant: the check is missing
Movable(t) ==
    \/ s_tokenIdToAsset[t].transferable
    \/ s_tokenIdToFactory[t] # ZeroAddress

\* transferFrom and safeTransferFrom.  safeTransferFrom's callback comes when
\* the call has nothing left to write: what the recipient does in it is what
\* it may do in later steps.
TransferFrom(sender, to, t) ==
    /\ MayCall(sender)
    /\ IsApprovedOrOwner(sender, t)
    /\ Movable(t)
    /\ Transfer(to, t)
    /\ UNCHANGED <<factoryVars, keyVars, s_assetMinterInfo, frame, moneyVars>>

Approve(sender, to, t) ==
    /\ MayCall(sender)
    /\ ApproveKey(sender, to, t)
    /\ UNCHANGED <<factoryVars, keyVars, s_assetMinterInfo, frame, moneyVars>>

SetApprovalForAll(sender, operator, approved) ==
    /\ MayCall(sender)
    /\ ApproveOperator(sender, operator, approved)
    /\ UNCHANGED <<factoryVars, keyVars, s_assetMinterInfo, frame, moneyVars>>

-----------------------------------------------------------------------------
(* Calls on a factory                                                      *)

\* What getAssetInfo of the protocol named by the caller returns.
NamedInfos(protocol, t) ==
    IF protocol = OwnProtocol
    THEN {s_tokenIdToAsset[t]}
    ELSE [factoryAddress : Factories \cup {ZeroAddress},
          factoryTokenId : TokenIds, transferable : BOOLEAN]

MintFactoryAsset(sender, f, protocol, t) ==
    /\ MayCall(sender)
    /\ \E named \in NamedInfos(protocol, t) :
          MintAsset(sender, f, protocol, t, s_tokenIdToAsset[t], named)
    /\ UNCHANGED <<erc721Vars, keyVars, s_assetMinterInfo, frame, moneyVars>>

SetFactoryURI(sender, f, uri) ==
    /\ MayCall(sender)
    /\ SetContractURI(sender, f, uri)
    /\ UNCHANGED <<erc721Vars, keyVars, s_assetMinterInfo, frame, moneyVars>>

AuditFactory(sender, f) ==
    /\ MayCall(sender)
    /\ AddContractAudit(sender, f)
    /\ UNCHANGED <<erc721Vars, keyVars, s_assetMinterInfo, frame, moneyVars>>

-----------------------------------------------------------------------------

MintStep ==
    \/ \E sender \in Accounts, f \in Factories, k \in FeeTokens,
          fee \in MintFees : MintFactoryKey(sender, f, k, fee)
    \/ EndMintFactoryKey
    \/ \E sender \in Accounts, f \in Factories, transferable \in BOOLEAN,
          mintTo \in AccountsOrZero :
             MintAssetKey(sender, f, transferable, mintTo)
    \/ EndMintAssetKey

WithdrawStep ==
    \E sender \in Accounts, f \in Factories, amount \in Amounts :
        \/ WithdrawFundiProceeds(sender, f, amount)
        \/ \E paid \in BOOLEAN :
              WithdrawMintFeeProceeds(sender, f, amount, paid)

StatusStep ==
    \E f \in Factories, b \in BOOLEAN :
        \/ \E sender \in Accounts \cup Factories :
              SetAssetFactoryStatus(sender, f, b)
        \/ VerifyContract(f)
        \/ UpdateFlag(f, b)

LedgerStep ==
    \E sender \in Accounts :
        \/ \E to \in Accounts, t \in TokenIds : TransferFrom(sender, to, t)
        \/ \E to \in Delegates \cup {ZeroAddress}, t \in TokenIds :
              Approve(sender, to, t)
        \/ \E operator \in Delegates, approved \in BOOLEAN :
              SetApprovalForAll(sender, operator, approved)

FactoryStep ==
    \E sender \in Accounts, f \in Factories :
        \/ \E protocol \in Protocols, t \in TokenIds :
              MintFactoryAsset(sender, f, protocol, t)
        \/ \E uri \in URIs : SetFactoryURI(sender, f, uri)
        \/ AuditFactory(sender, f)

Next == MintStep \/ WithdrawStep \/ StatusStep \/ LedgerStep \/ FactoryStep

Spec == Init /\ [][Next]_vars
=============================================================================
