---------------------------- MODULE FundiFactory ----------------------------
(***************************************************************************)
(* The factory contracts of the kit: FundiFactory with the mintAsset that  *)
(* ExampleFundiFactory gives it.  One set of storage variables per factory *)
(* contract, as functions over Factories.                                  *)
(*                                                                         *)
(* What a factory asks of the protocol (ownerOf, getAssetInfo) comes in as *)
(* a parameter: the composition in FundiAssetFactoryProtocol supplies it.  *)
(* An asset contract is named by the position in which its factory         *)
(* deployed it, 1 for the first: 0 plays address(0).                       *)
(***************************************************************************)
EXTENDS ERC721, Sequences

CONSTANTS
    Factories,       \* deployed FundiFactory contracts
    Creator,         \* creator: the account that deployed each factory
    OwnProtocol,     \* i_fundiProtocol of every factory: the protocol modelled
    OtherProtocols,  \* other Fundi protocols a caller of mintAsset may name
    URIs,            \* values of a contract URI
    InitialURI,      \* "FactoryContractURI", what the constructor stores
    MaxAssets,       \* BOUND: asset contracts per factory
    MaxAudits        \* BOUND: audit reports per factory

Protocols == {OwnProtocol} \cup OtherProtocols

ASSUME FactoriesAssumption ==
    /\ ZeroAddress \notin Factories
    /\ Creator \in [Factories -> Accounts]
    /\ OwnProtocol \notin OtherProtocols
    /\ InitialURI \in URIs
    /\ MaxAssets \in Nat
    /\ MaxAudits \in Nat

VARIABLES
    i_fundiTokenId,  \* the factory's own key, 0 until setFundiTokenId
    isFundiFactory,  \* setFundiTokenId has been called
    s_assetCounter,  \* asset keys the protocol has announced to the factory
    s_assetInfo,     \* slot of each announced key: its token and its contract
    s_assets,        \* s_assets and numberOfAssets: the contracts deployed
    s_contractURI,
    s_auditInfo      \* s_auditInfo and s_publicAudits: the auditors, in order

factoryVars == <<i_fundiTokenId, isFundiFactory, s_assetCounter, s_assetInfo,
                 s_assets, s_contractURI, s_auditInfo>>

\* FundiAssetInfo as the protocol keeps it for a key, and its default value.
AssetInfo == [factoryAddress : Factories \cup {ZeroAddress},
              factoryTokenId : Nat,
              transferable   : BOOLEAN]

NoAssetInfo == [factoryAddress |-> ZeroAddress, factoryTokenId |-> 0,
                transferable |-> FALSE]

Slot == [fundiTokenId : Nat, assetAddress : Nat]

EmptySlot == [fundiTokenId |-> 0, assetAddress |-> 0]

\* A deployed asset contract: what its constructor stored in its immutables.
Asset == [fundiProtocol : Protocols, fundiTokenId : TokenIds,
          factoryTokenId : Nat, contractFactory : Factories \cup {ZeroAddress}]

FactoryTypeOK ==
    /\ i_fundiTokenId \in [Factories -> TokenIds]
    /\ isFundiFactory \in [Factories -> BOOLEAN]
    /\ s_assetCounter \in [Factories -> Nat]
    /\ s_assetInfo \in [Factories -> [TokenIds -> Slot]]
    /\ s_assets \in [Factories -> Seq(Asset)]
    /\ s_contractURI \in [Factories -> URIs]
    /\ s_auditInfo \in [Factories -> Seq(Accounts)]

FactoryInit ==
    /\ i_fundiTokenId = [f \in Factories |-> 0]
    /\ isFundiFactory = [f \in Factories |-> FALSE]
    /\ s_assetCounter = [f \in Factories |-> 0]
    /\ s_assetInfo = [f \in Factories |-> [s \in TokenIds |-> EmptySlot]]
    /\ s_assets = [f \in Factories |-> << >>]
    /\ s_contractURI = [f \in Factories |-> InitialURI]
    /\ s_auditInfo = [f \in Factories |-> << >>]

-----------------------------------------------------------------------------

\* Mutant: the creator owns a factory that has no key yet.
FactoryOwnerOrCreator(f) ==
    IF isFundiFactory[f] THEN owners[i_fundiTokenId[f]] ELSE Creator[f]

\* owner(): whoever holds the key named by i_fundiTokenId.  Before the factory
\* is registered that field is 0, and key 0 is the key of another factory.
FactoryOwner(f) == owners[i_fundiTokenId[f]]

\* Mutant: the factory does not note that it is registered.
SetFundiTokenIdAgain(f, t) ==
    /\ i_fundiTokenId' = [i_fundiTokenId EXCEPT ![f] = t]
    /\ UNCHANGED <<isFundiFactory, s_assetCounter, s_assetInfo, s_assets,
                   s_contractURI, s_auditInfo>>

\* setFundiTokenId, on the path where it returns true; where it returns false
\* the protocol reverts.
SetFundiTokenId(f, t) ==
    /\ ~isFundiFactory[f]
    /\ i_fundiTokenId' = [i_fundiTokenId EXCEPT ![f] = t]
    /\ isFundiFactory' = [isFundiFactory EXCEPT ![f] = TRUE]
    /\ UNCHANGED <<s_assetCounter, s_assetInfo, s_assets, s_contractURI,
                   s_auditInfo>>

\* Mutants: counted before written; a slot that is not cleared.
MintFundiFactoryAssetOffByOne(f, t) ==
    /\ s_assetInfo' = [s_assetInfo EXCEPT ![f][s_assetCounter[f] + 1] =
                         [fundiTokenId |-> t, assetAddress |-> 0]]
    /\ s_assetCounter' = [s_assetCounter EXCEPT ![f] = @ + 1]
    /\ UNCHANGED <<i_fundiTokenId, isFundiFactory, s_assets, s_contractURI,
                   s_auditInfo>>
MintFundiFactoryAssetUncleared(f, t) ==
    /\ s_assetInfo' = [s_assetInfo EXCEPT ![f][s_assetCounter[f]].fundiTokenId = t]
    /\ s_assetCounter' = [s_assetCounter EXCEPT ![f] = @ + 1]
    /\ UNCHANGED <<i_fundiTokenId, isFundiFactory, s_assets, s_contractURI,
                   s_auditInfo>>

\* mintFundiFactoryAsset: a fresh slot for the key the protocol is minting.
MintFundiFactoryAsset(f, t) ==
    /\ s_assetInfo' = [s_assetInfo EXCEPT ![f][s_assetCounter[f]] =
                         [fundiTokenId |-> t, assetAddress |-> 0]]
    /\ s_assetCounter' = [s_assetCounter EXCEPT ![f] = @ + 1]
    /\ UNCHANGED <<i_fundiTokenId, isFundiFactory, s_assets, s_contractURI,
                   s_auditInfo>>

\* Mutant: without AlreadyCreated.
AssetMintableAgain(sender, f, t, info) ==
    /\ Exists(t)
    /\ sender = owners[t]
    /\ s_assetInfo[f][info.factoryTokenId].fundiTokenId = t

\* _assetMintable: the slot the protocol records for the key has no contract
\* yet and was announced for this very key.
AssetMintable(sender, f, t, info) ==
    /\ Exists(t)
    /\ sender = owners[t]
    /\ s_assetInfo[f][info.factoryTokenId].assetAddress = 0
    /\ s_assetInfo[f][info.factoryTokenId].fundiTokenId = t

\* mintAsset: the guard reads the key's slot at i_fundiProtocol (info), the
\* write goes to the slot that the protocol named by the caller gives (named).
MintAsset(sender, f, protocol, t, info, named) ==
    /\ AssetMintable(sender, f, t, info)
    /\ Len(s_assets[f]) < MaxAssets
    /\ s_assetInfo' = [s_assetInfo EXCEPT
                         ![f][named.factoryTokenId].assetAddress =
                            Len(s_assets[f]) + 1]
    /\ s_assets' = [s_assets EXCEPT ![f] =
                      Append(@, [fundiProtocol |-> protocol,
                                 fundiTokenId |-> t,
                                 factoryTokenId |-> named.factoryTokenId,
                                 contractFactory |-> named.factoryAddress])]
    /\ UNCHANGED <<i_fundiTokenId, isFundiFactory, s_assetCounter,
                   s_contractURI, s_auditInfo>>

\* setContractURI, onlyOwner
SetContractURI(sender, f, uri) ==
    /\ sender = FactoryOwner(f)
    /\ s_contractURI' = [s_contractURI EXCEPT ![f] = uri]
    /\ UNCHANGED <<i_fundiTokenId, isFundiFactory, s_assetCounter, s_assetInfo,
                   s_assets, s_auditInfo>>

\* addContractAudit: open to anyone, kept under the next audit id.
AddContractAudit(sender, f) ==
    /\ Len(s_auditInfo[f]) < MaxAudits
    /\ s_auditInfo' = [s_auditInfo EXCEPT ![f] = Append(@, sender)]
    /\ UNCHANGED <<i_fundiTokenId, isFundiFactory, s_assetCounter, s_assetInfo,
                   s_assets, s_contractURI>>
=============================================================================
