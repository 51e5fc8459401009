----------------------- MODULE FundiProtocolOwnership -----------------------
(***************************************************************************)
(* FundiProtocol, the base contract of every protocol: who owns it.  Until *)
(* a validator has given the protocol a key, an account owns it; then      *)
(* whoever holds the key does.  The validator is some ERC721 registry      *)
(* outside of the repository, or an account that is no registry at all.    *)
(*                                                                         *)
(* transferOwnership of a key calls the new owner back; frame holds the    *)
(* suspended call, and until it returns only code can act.                 *)
(***************************************************************************)
EXTENDS Naturals, Sequences

CONSTANTS
    Users,       \* the accounts that own, hold and call
    CodeUsers,   \* those of them that have code, and so can act in a callback
    Deployer,    \* msg.sender of the constructor
    Registries,  \* the ERC721 contracts that may be a validator
    Impostors,   \* the other addresses that may be named validator
    NoUser,      \* address(0), also for "nobody"
    This,        \* the protocol's own address
    Keys,        \* bound: the keys in the registries, as <<registry, id>>
    Operators,   \* the users that a holder may let move a key, or all keys
    Addresses,   \* the URIs of the protocol
    MaxReports   \* bound: how many audits are added

ASSUME UsersAssumption ==
    /\ Deployer \in Users
    /\ CodeUsers \subseteq Users
    /\ NoUser \notin Users \cup Registries \cup Impostors
    /\ This \notin Users \cup {NoUser}
    /\ Registries \cap Impostors = {}
    /\ Keys \subseteq Registries \X Nat
    /\ Operators \subseteq Users
    /\ Addresses # {}
    /\ MaxReports \in Nat

VARIABLES
    i_fundiValidator, i_protocolTokenId, protocolMinted,
    premintOwner,
    s_contractURI,
    s_auditInfo,   \* the auditors, in the order of s_publicAudits
    frame,         \* the new owner whose code transferOwnership waits for
    keyHolder,     \* external: ownerOf, for each registry and id
    keyApproved,   \* external: getApproved, for each registry and id
    keyOperators,  \* external: isApprovedForAll, as <<registry, holder, operator>>
    actor          \* history: whose call the last step was

ownVars == <<i_fundiValidator, i_protocolTokenId, protocolMinted, premintOwner,
             s_contractURI, s_auditInfo, frame, keyHolder, keyApproved,
             keyOperators, actor>>
keyState == <<keyHolder, keyApproved, keyOperators>>
identity == <<i_fundiValidator, i_protocolTokenId, protocolMinted>>

Validators == Registries \cup Impostors \cup {NoUser}

ProtocolIds == {k[2] : k \in Keys}

Spenders == Operators \cup {This}

OwnInit ==
    /\ i_fundiValidator \in Validators
    /\ i_protocolTokenId = 0
    /\ protocolMinted = FALSE
    /\ premintOwner = Deployer
    /\ s_contractURI \in Addresses
    /\ s_auditInfo = << >>
    /\ frame = NoUser
    /\ keyHolder = [k \in Keys |-> NoUser]
    /\ keyApproved = [k \in Keys |-> NoUser]
    /\ keyOperators = {}
    /\ actor = Deployer

ProtocolKey == <<i_fundiValidator, i_protocolTokenId>>

\* owner(), or nobody where the call to the validator reverts.
Owner ==
    IF i_protocolTokenId = 0 THEN premintOwner
    ELSE IF ProtocolKey \in Keys THEN keyHolder[ProtocolKey] ELSE NoUser

\* Mutant: lets anyone act as the owner.
AnyUser(sender) == sender \in Users

\* onlyOwner.  No transaction comes from the zero address.
OnlyOwner(sender) == sender = Owner /\ Owner # NoUser

\* Inside the callback only code can call, and only if the new owner has any.
MayAct(sender) ==
    /\ frame # NoUser => frame \in CodeUsers /\ sender \in CodeUsers \cup Registries
    /\ actor' = sender

-----------------------------------------------------------------------------
\* Mutant: the token id may be set again.
SetProtocolTokenIDAgain(sender, id) ==
    /\ MayAct(sender)
    /\ sender = i_fundiValidator
    /\ i_protocolTokenId' = id
    /\ protocolMinted' = TRUE
    /\ UNCHANGED <<i_fundiValidator, premintOwner, s_contractURI, s_auditInfo,
                   frame, keyState>>

\* Returns false, and does nothing, once the protocol is minted.
SetProtocolTokenID(sender, id) ==
    /\ MayAct(sender)
    /\ sender = i_fundiValidator
    /\ ~protocolMinted
    /\ i_protocolTokenId' = id
    /\ protocolMinted' = TRUE
    /\ UNCHANGED <<i_fundiValidator, premintOwner, s_contractURI, s_auditInfo,
                   frame, keyState>>

\* Does nothing, without a word, once the protocol is minted.
SetValidator(sender, validator) ==
    /\ MayAct(sender)
    /\ OnlyOwner(sender)
    /\ ~protocolMinted
    /\ i_fundiValidator' = validator
    /\ UNCHANGED <<i_protocolTokenId, protocolMinted, premintOwner, s_contractURI,
                   s_auditInfo, frame, keyState>>

SetProtocolURI(sender, uri) ==
    /\ MayAct(sender)
    /\ OnlyOwner(sender)
    /\ s_contractURI' = uri
    /\ UNCHANGED <<identity, premintOwner, s_auditInfo, frame, keyState>>

AddProtocolAudit(sender) ==
    /\ MayAct(sender)
    /\ Len(s_auditInfo) < MaxReports
    /\ s_auditInfo' = Append(s_auditInfo, sender)
    /\ UNCHANGED <<identity, premintOwner, s_contractURI, frame, keyState>>

\* transferOwnership while the token id is 0: to any address, the zero address
\* included.
TransferPremint(sender, newOwner) ==
    /\ frame = NoUser
    /\ MayAct(sender)
    /\ OnlyOwner(sender)
    /\ i_protocolTokenId = 0
    /\ premintOwner' = newOwner
    /\ UNCHANGED <<identity, s_contractURI, s_auditInfo, frame, keyState>>

\* The registry gives a key to another account, and clears its approval.
MoveKey(k, to) ==
    /\ keyHolder' = [keyHolder EXCEPT ![k] = to]
    /\ keyApproved' = [keyApproved EXCEPT ![k] = NoUser]
    /\ UNCHANGED keyOperators

\* transferOwnership of the key, which its owner must have approved the protocol
\* for, up to the callback of safeTransferFrom.
TransferMinted(sender, newOwner) ==
    /\ frame = NoUser
    /\ MayAct(sender)
    /\ OnlyOwner(sender)
    /\ i_protocolTokenId # 0
    /\ keyApproved[ProtocolKey] = This
    /\ newOwner # NoUser
    /\ MoveKey(ProtocolKey, newOwner)
    /\ frame' = newOwner
    /\ UNCHANGED <<identity, premintOwner, s_contractURI, s_auditInfo>>

\* The callback is over and transferOwnership returns.
EndTransfer ==
    /\ frame # NoUser
    /\ frame' = NoUser
    /\ UNCHANGED <<identity, premintOwner, s_contractURI, s_auditInfo, keyState, actor>>

\* The registries are ERC721 contracts.  A key is minted once, and moved by its
\* holder, by the account approved for it or by an operator of the holder.
RegistryMint(k, to) ==
    /\ MayAct(k[1])
    /\ keyHolder[k] = NoUser
    /\ keyHolder' = [keyHolder EXCEPT ![k] = to]
    /\ UNCHANGED <<identity, premintOwner, s_contractURI, s_auditInfo, frame,
                   keyApproved, keyOperators>>

IsOperator(sender, k) == <<k[1], keyHolder[k], sender>> \in keyOperators

MayMoveKey(sender, k) ==
    /\ keyHolder[k] # NoUser
    /\ sender \in {keyHolder[k], keyApproved[k]} \/ IsOperator(sender, k)

RegistryTransfer(sender, k, to) ==
    /\ MayAct(sender)
    /\ MayMoveKey(sender, k)
    /\ MoveKey(k, to)
    /\ UNCHANGED <<identity, premintOwner, s_contractURI, s_auditInfo, frame>>

RegistryApprove(sender, k, spender) ==
    /\ MayAct(sender)
    /\ keyHolder[k] \notin {NoUser, spender}
    /\ sender = keyHolder[k] \/ IsOperator(sender, k)
    /\ keyApproved' = [keyApproved EXCEPT ![k] = spender]
    /\ UNCHANGED <<identity, premintOwner, s_contractURI, s_auditInfo, frame,
                   keyHolder, keyOperators>>

\* setApprovalForAll of a registry.  The protocol is never named: it asks for
\* the approval of its key whether or not it is an operator.
RegistryAppoint(sender, registry, operator, approved) ==
    /\ MayAct(sender)
    /\ sender # operator
    /\ keyOperators' =
         IF approved THEN keyOperators \cup {<<registry, sender, operator>>}
                     ELSE keyOperators \ {<<registry, sender, operator>>}
    /\ UNCHANGED <<identity, premintOwner, s_contractURI, s_auditInfo, frame,
                   keyHolder, keyApproved>>

OwnNext ==
    \/ \E v \in Validators \ {NoUser}, id \in ProtocolIds : SetProtocolTokenID(v, id)
    \/ \E a \in Users, v \in Validators : SetValidator(a, v)
    \/ \E a \in Users, uri \in Addresses : SetProtocolURI(a, uri)
    \/ \E a \in Users : AddProtocolAudit(a)
    \/ \E a \in Users, to \in Users \cup {NoUser} : TransferPremint(a, to)
    \/ \E a \in Users, to \in Users : TransferMinted(a, to)
    \/ EndTransfer
    \/ \E k \in Keys, to \in Users : RegistryMint(k, to)
    \/ \E a \in Users, k \in Keys, to \in Users : RegistryTransfer(a, k, to)
    \/ \E a \in Users, k \in Keys, to \in Spenders \cup {NoUser} : RegistryApprove(a, k, to)
    \/ \E a \in Users, r \in Registries, o \in Operators, approved \in BOOLEAN :
          RegistryAppoint(a, r, o, approved)

OwnSpec == OwnInit /\ [][OwnNext]_ownVars
-----------------------------------------------------------------------------
OwnTypeOK ==
    /\ i_fundiValidator \in Validators
    /\ i_protocolTokenId \in ProtocolIds \cup {0}
    /\ protocolMinted \in BOOLEAN
    /\ premintOwner \in Users \cup {NoUser}
    /\ s_contractURI \in Addresses
    /\ s_auditInfo \in Seq(Users)
    /\ frame \in Users \cup {NoUser}
    /\ keyHolder \in [Keys -> Users \cup {NoUser}]
    /\ keyApproved \in [Keys -> Spenders \cup {NoUser}]
    /\ keyOperators \subseteq (Registries \X Users \X Operators)
    /\ actor \in Users \cup Registries \cup Impostors

(***************************************************************************)
(* What identifies the protocol is set once: validator and token id never  *)
(* change after setProtocolTokenID has run ("can only be updated once"),   *)
(* and no id is set before.                                                *)
(***************************************************************************)
IdentitySetOnce ==
    [][/\ protocolMinted => UNCHANGED identity
       /\ i_protocolTokenId' # i_protocolTokenId => protocolMinted']_ownVars

(***************************************************************************)
(* Nobody takes the protocol without a right to it: the owner changes by   *)
(* the call of its owner or of the validator that the protocol names, or,  *)
(* at the registry, of who may move the key at that moment.  To use the    *)
(* protocol's own approval for its key, or its right to name an owner      *)
(* before there is a key, one must be the owner: an operator, an account   *)
(* that was owner or will be, or code in a callback cannot.  And only the  *)
(* owner changes the URI or names another validator.                       *)
(***************************************************************************)
ControlledByOwner ==
    [][/\ Owner' # Owner =>
             \/ actor' \in {Owner, i_fundiValidator}
             \/ ProtocolKey \in Keys /\ MayMoveKey(actor', ProtocolKey)
       /\ \/ premintOwner' # premintOwner
          \/ frame' \notin {frame, NoUser}
          \/ s_contractURI' # s_contractURI
          \/ i_fundiValidator' # i_fundiValidator
          => actor' = Owner]_ownVars

(***************************************************************************)
(* Once the protocol's key is minted, its holder is the owner, and         *)
(* premintOwner, "Owner before protocol token is minted", is not.          *)
(***************************************************************************)
HolderOwnsOnceMinted ==
    protocolMinted /\ ProtocolKey \in Keys =>
        keyHolder[ProtocolKey] \in {NoUser, Owner}
=============================================================================
