------------------------- MODULE ProtocolProperties -------------------------
(***************************************************************************)
(* What FundiAssetFactoryProtocol and its factories keep true, between     *)
(* transactions and also while a recipient's code runs inside a mint.      *)
(***************************************************************************)
EXTENDS FundiAssetFactoryProtocol, Sums

\* The mint that is suspended is one of this kind, for this factory.
InFlight(kind, f) == frame # NoFrame /\ frame.kind = kind /\ frame.factory = f

\* The keys that have an owner: s_tokenCounter counts a key only after the
\* callback.
Issued == IF frame = NoFrame THEN s_tokenCounter ELSE s_tokenCounter + 1

\* The amounts of all factories.
Total(m) == SumOver(m, Factories)

-----------------------------------------------------------------------------
(* Keys and registrations                                                  *)

\* Keys are numbered without gap or reuse: the keys that have an owner are
\* those below the counter, and the one being minted.  mintAssetKey and
\* mintFactoryKey share s_tokenCounter and move it after the callback.
KeysConsecutive == \A t \in TokenIds : Exists(t) <=> t < Issued

\* The balance of an account is the number of keys it owns, through mints,
\* transfers and transfers to oneself.
BalancesCountKeys ==
    \A a \in Accounts :
        balances[a] = Cardinality({t \in TokenIds : owners[t] = a})

\* The protocol and the factory agree on the registration: a factory believes
\* it is registered under a key exactly when the protocol has it under that
\* key, or is in the middle of mintFactoryKey for it.
RegistryMutual ==
    /\ \A f \in Factories :
          LET info == s_assetMinterInfo[f]
          IN  /\ isFundiFactory[f] <=> Registered(f) \/ InFlight("factory", f)
              /\ Registered(f) => /\ info.contractAddress = f
                                  /\ info.tokenId = i_fundiTokenId[f]
                                  /\ s_tokenIdToFactory[info.tokenId] = f
              /\ InFlight("factory", f) => i_fundiTokenId[f] = frame.tokenId
    /\ \A t \in TokenIds :
          LET f == s_tokenIdToFactory[t]
          IN  f # ZeroAddress => Registered(f) /\ s_assetMinterInfo[f].tokenId = t

\* Every key is a factory's or an asset's and never both, so transferFrom,
\* which looks into both mappings, decides by one of them.
KeyKindsDisjoint ==
    \A t \in TokenIds :
        LET isAsset == s_tokenIdToAsset[t].factoryAddress # ZeroAddress
            isFactory == \/ s_tokenIdToFactory[t] # ZeroAddress
                         \/ \E f \in Factories :
                               InFlight("factory", f) /\ i_fundiTokenId[f] = t
        IN  /\ Exists(t) <=> isAsset \/ isFactory
            /\ ~(isAsset /\ isFactory)

\* The slots of a factory and its asset keys are two views of one list: slot n
\* names the key that names slot n, although the two contracts write them in
\* separate calls of one transaction.
SlotsMatchKeys ==
    \A f \in Factories, t \in TokenIds :
        LET info == s_tokenIdToAsset[t]
        IN  /\ info.factoryAddress = f =>
                 /\ info.factoryTokenId < s_assetCounter[f]
                 /\ s_assetInfo[f][info.factoryTokenId].fundiTokenId = t
            /\ t < s_assetCounter[f] =>
                 LET key == s_assetInfo[f][t].fundiTokenId
                 IN  /\ s_tokenIdToAsset[key].factoryAddress = f
                     /\ s_tokenIdToAsset[key].factoryTokenId = t

\* The protocol's mintCount is the factory's s_assetCounter, less the key
\* being minted: it survives every write-back of the whole struct.
MintCountExact ==
    \A f \in Factories :
        s_assetCounter[f] = s_assetMinterInfo[f].mintCount
                            + (IF InFlight("asset", f) THEN 1 ELSE 0)

\* Factories are numbered in the order of their registration, each once.
FactoryNumbersExact ==
    LET registered == {f \in Factories : Registered(f)}
    IN  {s_assetMinterInfo[f].factoryNum : f \in registered}
            = 0 .. s_assetMinterCounter - 1
        /\ Cardinality(registered) = s_assetMinterCounter

\* Keys and registrations are accounted for: numbered without gap, of one kind
\* each, and counted by the factory they belong to, although one counter serves
\* both mints and moves after the callback that may interleave anything with them.
KeysAccounted ==
    /\ KeysConsecutive
    /\ KeyKindsDisjoint
    /\ MintCountExact
    /\ FactoryNumbersExact

\* The copy of a factory's struct that a suspended mint will write back differs
\* from the stored one in the status at most: what the write-back destroys is
\* never a count, a fee or a registration.
SuspendedCopyCurrent ==
    frame # NoFrame =>
        LET kept == frame.minter
            stored == s_assetMinterInfo[frame.factory]
        IN  IF frame.kind = "asset"
            THEN /\ Registered(frame.factory)
                 /\ kept.contractAddress = stored.contractAddress
                 /\ kept.tokenId = stored.tokenId
                 /\ kept.factoryNum = stored.factoryNum
                 /\ kept.tokenAddress = stored.tokenAddress
                 /\ kept.tokenMintFee = stored.tokenMintFee
                 /\ kept.mintCount = stored.mintCount
            ELSE /\ ~Registered(frame.factory)
                 /\ kept.contractAddress = frame.factory
                 /\ kept.mintCount = 0

\* A factory that is not registered has no mints, no money and no status, though
\* setAssetFactoryStatus may write its struct.
UnregisteredHasNoHistory ==
    \A f \in Factories :
        LET info == s_assetMinterInfo[f]
        IN  ~Registered(f) => /\ info.mintCount = 0
                              /\ ~info.flagged
                              /\ ~info.verified
                              /\ s_factoryProceeds[f] = 0
                              /\ s_factoryFeeProceeds[f] = 0

\* The ledger the protocol's state stands for, and the promise about it.
IssuedKeys ==
    [i \in 1 .. Issued |->
        LET t == i - 1
            info == s_tokenIdToAsset[t]
            isAsset == info.factoryAddress # ZeroAddress
        IN  [holder |-> owners[t],
             kind |-> IF isAsset THEN "asset" ELSE "factory",
             of |-> IF isAsset THEN info.factoryAddress
                    ELSE IF s_tokenIdToFactory[t] # ZeroAddress
                         THEN s_tokenIdToFactory[t]
                         ELSE frame.factory,
             locked |-> isAsset /\ ~info.transferable]]

Ledger == INSTANCE KeyLedger WITH keys <- IssuedKeys, Holders <- Accounts

\* The protocol implements KeyLedger: ids in order, kind and factory of a key
\* fixed for ever, one key per factory, untransferable keys never move.
ImplementsKeyLedger == Ledger!KeyLedgerSpec

\* An approval for one key does not outlive the ownership it was given under,
\* and no key comes into the world approved.
ApprovalsEndWithOwnership ==
    [][\A t \in TokenIds :
          tokenApprovals'[t] # ZeroAddress => Exists(t) /\ owners'[t] = owners[t]
      ]_vars

-----------------------------------------------------------------------------
(* The status of a factory                                                 *)

\* A verified factory is not flagged, whatever was in flight when the flag was
\* set ("test this heavily" in updateFlag), and has minted the minimum number of
\* keys ("required to avoid broken untested minters from being verified").
VerificationStands ==
    \A f \in Factories :
        s_assetMinterInfo[f].verified =>
            /\ ~s_assetMinterInfo[f].flagged
            /\ s_assetMinterInfo[f].mintCount >= MinMintCount

\* The DAO writes the status of a factory.
DAOWritesStatus(f) == VerifyContract(f) \/ \E b \in BOOLEAN : UpdateFlag(f, b)

StatusOf(info) == <<info.flagged, info.verified>>

\* What is onlyDAO changes in the DAO's calls alone: a factory's flag in
\* updateFlag, and a verification in updateFlag or verifyContract.
StatusChangedByDAO ==
    [][\A f \in Factories :
          StatusOf(s_assetMinterInfo'[f]) # StatusOf(s_assetMinterInfo[f]) =>
             DAOWritesStatus(f)]_vars

\* What else may change it is the end of a mint to an account with code, which
\* writes back the copy it read before that code ran: a mint to an ordinary
\* account loses no decision of the DAO.
StatusLostOnlyInCallback ==
    [][\A f \in Factories :
          StatusOf(s_assetMinterInfo'[f]) # StatusOf(s_assetMinterInfo[f]) =>
             \/ DAOWritesStatus(f)
             \/ InFlight("asset", f) /\ frame.to \in Contracts /\ EndMintAssetKey
      ]_vars

-----------------------------------------------------------------------------
(* Money                                                                   *)

\* What the protocol owes in a token: the factories' mint fees in it and, in
\* Fundi tokens, their proceeds.
FeesIn(k) ==
    [f \in Factories |-> IF s_assetMinterInfo[f].tokenAddress = k
                         THEN s_factoryFeeProceeds[f] ELSE 0]
Owed(k) ==
    Total(FeesIn(k)) + (IF k = FundiToken THEN Total(s_factoryProceeds) ELSE 0)

\* What the suspended mint has taken in and its end will book as owed.
Taken(k) ==
    IF frame # NoFrame /\ frame.kind = "asset"
    THEN (IF k = frame.minter.tokenAddress THEN frame.minter.tokenMintFee ELSE 0)
         + (IF k = FundiToken THEN FactoryShare(frame.minter) ELSE 0)
    ELSE 0

\* The protocol holds what it owes, in each token, and what it will owe for
\* the key being minted: no withdrawal of one factory is paid from what is owed
\* to another.
Solvent == \A k \in FeeTokens : Owed(k) + Taken(k) <= held[k]

\* What the protocol keeps of the fees: the fee of every registration and, of
\* every mint, the least percentage it takes (30%).
MintCounts == [f \in Factories |-> s_assetMinterInfo[f].mintCount]
ProtocolShareKept ==
    Owed(FundiToken) + FactoryFee * s_assetMinterCounter
        + PercentPayment(FundiMintFee, 3000) * Total(MintCounts)
    <= held[FundiToken]

\* Every mint fee a factory has charged is either still owed to its owner or
\* was received by an owner, and none is paid twice, whichever token the factory
\* charges in; only a token whose transfer fails silently can make a fee vanish.
FeesConserved ==
    \A f \in Factories :
        LET charged == s_assetMinterInfo[f].tokenMintFee * s_assetMinterInfo[f].mintCount
            settled == s_factoryFeeProceeds[f] + feesReceived[f]
        IN  /\ settled <= charged
            /\ s_assetMinterInfo[f].tokenAddress \notin SilentTokens => settled = charged

\* What a factory has earned in Fundi tokens is, per key minted, at least the
\* share of a flagged factory (10%) and at most that of a verified one (70%).
ShareBounded ==
    \A f \in Factories :
        LET earned == s_factoryProceeds[f] + fundiReceived[f]
            minted == s_assetMinterInfo[f].mintCount
        IN  /\ PercentPayment(FundiMintFee, 1000) * minted <= earned
            /\ earned <= PercentPayment(FundiMintFee, 7000) * minted

-----------------------------------------------------------------------------
(* Asset contracts                                                         *)

\* A factory deploys at most one contract for a key.
OneContractPerKey ==
    \A f \in Factories : \A i, j \in DOMAIN s_assets[f] :
        s_assets[f][i].fundiTokenId = s_assets[f][j].fundiTokenId => i = j

\* A slot that names a contract names the one deployed for the slot's key.
SlotsNameTheirContract ==
    \A f \in Factories, n \in TokenIds :
        LET slot == s_assetInfo[f][n]
        IN  slot.assetAddress # 0 =>
               /\ slot.assetAddress \in DOMAIN s_assets[f]
               /\ s_assets[f][slot.assetAddress].fundiTokenId = slot.fundiTokenId

\* A factory deploys contracts for the keys that the protocol announced to it,
\* and for no other ("revert NotFundi()"), but for key 0, which a slot not
\* written yet seems to name.
ContractsForOwnKeys ==
    \A f \in Factories : \A i \in DOMAIN s_assets[f] :
        LET key == s_assets[f][i].fundiTokenId
        IN  key # 0 => s_tokenIdToAsset[key].factoryAddress = f

\* What protocol, factories and asset contracts record of one another agrees:
\* registrations, slots and deployments, which are written in separate calls to
\* separate contracts.  A contract deployed for key 0 through a slot not written
\* yet leaves all of it intact.
RecordsAgree ==
    /\ RegistryMutual
    /\ SlotsMatchKeys
    /\ SlotsNameTheirContract
    /\ ContractsForOwnKeys

\* A factory's URI changes only once the factory is registered, and then in a
\* call of the holder of its own key.
UriChangedByFactoryOwner ==
    [][\A f \in Factories :
          s_contractURI'[f] # s_contractURI[f] =>
             /\ isFundiFactory[f]
             /\ \E uri \in URIs : SetFactoryURI(owners[i_fundiTokenId[f]], f, uri)
      ]_vars
=============================================================================
