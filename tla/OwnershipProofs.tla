--------------------------- MODULE OwnershipProofs ---------------------------
(***************************************************************************)
(* Proofs about the contracts that ask a registry who their owner is: the  *)
(* protocol, for any set of registries, of token ids and of users with     *)
(* code, and the asset contracts, for any number of them, of keys and of   *)
(* currencies.                                                             *)
(***************************************************************************)
EXTENDS FundiProtocolOwnership, AssetVault, NumberProofs

-----------------------------------------------------------------------------
(* Who owns the protocol                                                   *)

LEMMA OwnTypeInit == OwnInit => OwnTypeOK
<1> SUFFICES ASSUME OwnInit
             PROVE  OwnTypeOK
  OBVIOUS
<1>1. s_auditInfo \in Seq(Users)
  BY DEF OwnInit
<1>2. /\ keyHolder \in [Keys -> Users \cup {NoUser}]
      /\ keyApproved \in [Keys -> Spenders \cup {NoUser}]
  BY DEF OwnInit
<1> QED
  BY <1>1, <1>2, UsersAssumption DEF OwnInit, OwnTypeOK

LEMMA OwnTypeStep == OwnTypeOK /\ [OwnNext]_ownVars => OwnTypeOK'
<1> SUFFICES ASSUME OwnTypeOK, [OwnNext]_ownVars
             PROVE  OwnTypeOK'
  OBVIOUS
<1> USE DEF OwnTypeOK, MayAct, identity, keyState, MoveKey
<1>1. ASSUME NEW v \in Validators \ {NoUser}, NEW id \in ProtocolIds,
             SetProtocolTokenID(v, id)
      PROVE  OwnTypeOK'
  BY <1>1 DEF SetProtocolTokenID, Validators
<1>2. ASSUME NEW a \in Users, NEW v \in Validators, SetValidator(a, v)
      PROVE  OwnTypeOK'
  BY <1>2 DEF SetValidator
<1>3. ASSUME NEW a \in Users, NEW uri \in Addresses, SetProtocolURI(a, uri)
      PROVE  OwnTypeOK'
  BY <1>3 DEF SetProtocolURI
<1>4. ASSUME NEW a \in Users, AddProtocolAudit(a)
      PROVE  OwnTypeOK'
  BY <1>4 DEF AddProtocolAudit
<1>5. ASSUME NEW a \in Users, NEW to \in Users \cup {NoUser}, TransferPremint(a, to)
      PROVE  OwnTypeOK'
  BY <1>5 DEF TransferPremint
<1>6. ASSUME NEW a \in Users, NEW to \in Users, TransferMinted(a, to)
      PROVE  OwnTypeOK'
  BY <1>6 DEF TransferMinted
<1>7. ASSUME EndTransfer
      PROVE  OwnTypeOK'
  BY <1>7 DEF EndTransfer
<1>8. ASSUME NEW k \in Keys, NEW to \in Users, RegistryMint(k, to)
      PROVE  OwnTypeOK'
  BY <1>8, UsersAssumption DEF RegistryMint
<1>9. ASSUME NEW a \in Users, NEW k \in Keys, NEW to \in Users,
             RegistryTransfer(a, k, to)
      PROVE  OwnTypeOK'
  BY <1>9 DEF RegistryTransfer
<1>10. ASSUME NEW a \in Users, NEW k \in Keys, NEW to \in Spenders \cup {NoUser},
              RegistryApprove(a, k, to)
       PROVE  OwnTypeOK'
  BY <1>10 DEF RegistryApprove
<1>11. ASSUME NEW a \in Users, NEW r \in Registries, NEW o \in Operators,
              NEW approved \in BOOLEAN, RegistryAppoint(a, r, o, approved)
       PROVE  OwnTypeOK'
  <2>1. keyOperators' \subseteq (Registries \X Users \X Operators)
    BY <1>11 DEF RegistryAppoint
  <2> QED
    BY <1>11, <2>1 DEF RegistryAppoint
<1>12. CASE UNCHANGED ownVars
  BY <1>12 DEF ownVars
<1> QED
  BY <1>1, <1>2, <1>3, <1>4, <1>5, <1>6, <1>7, <1>8, <1>9, <1>10, <1>11, <1>12
  DEF OwnNext

LEMMA OwnTypes == OwnSpec => []OwnTypeOK
BY OwnTypeInit, OwnTypeStep, PTL DEF OwnSpec

IdentityRule ==
    /\ protocolMinted => UNCHANGED identity
    /\ i_protocolTokenId' # i_protocolTokenId => protocolMinted'

\* Validator and token id never change after setProtocolTokenID has run,
\* whichever registries call it and whoever owns the protocol meanwhile.
THEOREM IdentityStays == OwnSpec => IdentitySetOnce
<1>1. [OwnNext]_ownVars => [IdentityRule]_ownVars
  <2> SUFFICES ASSUME OwnNext
               PROVE  IdentityRule
    OBVIOUS
  <2> QED
    BY DEF OwnNext, IdentityRule, identity, SetProtocolTokenID, SetValidator,
           SetProtocolURI, AddProtocolAudit, TransferPremint, TransferMinted,
           EndTransfer, RegistryMint, RegistryTransfer, RegistryApprove,
           RegistryAppoint
<1> QED
  BY <1>1, PTL DEF OwnSpec, IdentitySetOnce, IdentityRule

ControlRule ==
    /\ Owner' # Owner =>
          \/ actor' \in {Owner, i_fundiValidator}
          \/ ProtocolKey \in Keys /\ MayMoveKey(actor', ProtocolKey)
    /\ \/ premintOwner' # premintOwner
       \/ frame' \notin {frame, NoUser}
       \/ s_contractURI' # s_contractURI
       \/ i_fundiValidator' # i_fundiValidator
       => actor' = Owner

\* What a registry does to one of its keys changes the owner of the protocol
\* only if the key is the protocol's.
LEMMA OwnerFollowsKey ==
    ASSUME OwnTypeOK, UNCHANGED identity, UNCHANGED premintOwner,
           NEW k \in Keys, NEW to, keyHolder' = [keyHolder EXCEPT ![k] = to],
           Owner' # Owner
    PROVE  k = ProtocolKey
<1>1. ProtocolKey' = ProtocolKey
  BY DEF ProtocolKey, identity
<1>2. i_protocolTokenId # 0 /\ ProtocolKey \in Keys
  BY <1>1 DEF Owner, identity
<1>3. Owner = keyHolder[ProtocolKey] /\ Owner' = keyHolder'[ProtocolKey]
  BY <1>1, <1>2 DEF Owner, identity
<1> QED
  BY <1>2, <1>3 DEF OwnTypeOK

LEMMA ControlStep == OwnTypeOK /\ [OwnNext]_ownVars => [ControlRule]_ownVars
<1> SUFFICES ASSUME OwnTypeOK, OwnNext
             PROVE  ControlRule
  OBVIOUS
<1> USE DEF MayAct, OnlyOwner
<1>1. ASSUME NEW v \in Validators \ {NoUser}, NEW id \in ProtocolIds,
             SetProtocolTokenID(v, id)
      PROVE  ControlRule
  BY <1>1 DEF SetProtocolTokenID, ControlRule
<1>2. ASSUME NEW a \in Users, NEW v \in Validators, SetValidator(a, v)
      PROVE  ControlRule
  BY <1>2 DEF SetValidator, ControlRule
<1>3. ASSUME NEW a \in Users, NEW uri \in Addresses, SetProtocolURI(a, uri)
      PROVE  ControlRule
  BY <1>3 DEF SetProtocolURI, ControlRule
<1>4. ASSUME UNCHANGED <<identity, premintOwner, keyHolder, s_contractURI>>,
             frame' \in {frame, NoUser}
      PROVE  ControlRule
  BY <1>4 DEF ControlRule, Owner, ProtocolKey, identity
<1>5. ASSUME NEW a \in Users, AddProtocolAudit(a)
      PROVE  ControlRule
  BY <1>4, <1>5 DEF AddProtocolAudit, keyState
<1>6. ASSUME NEW a \in Users, NEW to \in Users \cup {NoUser}, TransferPremint(a, to)
      PROVE  ControlRule
  BY <1>6 DEF TransferPremint, ControlRule, identity
<1>7. ASSUME NEW a \in Users, NEW to \in Users, TransferMinted(a, to)
      PROVE  ControlRule
  BY <1>7 DEF TransferMinted, ControlRule, identity
<1>8. ASSUME EndTransfer
      PROVE  ControlRule
  BY <1>4, <1>8 DEF EndTransfer, keyState
<1>9. ASSUME NEW k \in Keys, NEW to \in Users, RegistryMint(k, to)
      PROVE  ControlRule
  <2>1. Owner' # Owner => k = ProtocolKey
    BY <1>9, OwnerFollowsKey DEF RegistryMint
  <2>2. k = ProtocolKey => actor' = i_fundiValidator
    BY <1>9 DEF RegistryMint, ProtocolKey
  <2> QED
    BY <1>9, <2>1, <2>2 DEF RegistryMint, ControlRule, identity
<1>10. ASSUME NEW a \in Users, NEW k \in Keys, NEW to \in Users,
              RegistryTransfer(a, k, to)
       PROVE  ControlRule
  <2>1. Owner' # Owner => k = ProtocolKey
    BY <1>10, OwnerFollowsKey DEF RegistryTransfer, MoveKey
  <2>2. actor' = a /\ MayMoveKey(a, k)
    BY <1>10 DEF RegistryTransfer
  <2> QED
    BY <1>10, <2>1, <2>2 DEF RegistryTransfer, ControlRule, identity
<1>11. ASSUME NEW a \in Users, NEW k \in Keys, NEW to \in Spenders \cup {NoUser},
              RegistryApprove(a, k, to)
       PROVE  ControlRule
  BY <1>4, <1>11 DEF RegistryApprove
<1>12. ASSUME NEW a \in Users, NEW r \in Registries, NEW o \in Operators,
              NEW approved \in BOOLEAN, RegistryAppoint(a, r, o, approved)
       PROVE  ControlRule
  BY <1>4, <1>12 DEF RegistryAppoint
<1> QED
  BY <1>1, <1>2, <1>3, <1>5, <1>6, <1>7, <1>8, <1>9, <1>10, <1>11, <1>12 DEF OwnNext

\* The owner changes by a call of the owner, of the validator named, or of who
\* may move the key at its registry; and only the owner makes use of what the
\* protocol may do, also while transferOwnership calls the new owner back.
THEOREM OwnerControls == OwnSpec => ControlledByOwner
BY OwnTypes, ControlStep, PTL DEF OwnSpec, ControlledByOwner, ControlRule

MintedInv == protocolMinted => i_protocolTokenId \in ProtocolIds

LEMMA MintedStep == MintedInv /\ [OwnNext]_ownVars => MintedInv'
<1> SUFFICES ASSUME MintedInv, [OwnNext]_ownVars
             PROVE  MintedInv'
  OBVIOUS
<1>1. ASSUME NEW v \in Validators \ {NoUser}, NEW id \in ProtocolIds,
             SetProtocolTokenID(v, id)
      PROVE  MintedInv'
  BY <1>1 DEF SetProtocolTokenID, MintedInv
<1>2. CASE UNCHANGED <<i_protocolTokenId, protocolMinted>>
  BY <1>2 DEF MintedInv
<1> QED
  BY <1>1, <1>2
  DEF OwnNext, ownVars, identity, SetValidator, SetProtocolURI, AddProtocolAudit,
      TransferPremint, TransferMinted, EndTransfer, RegistryMint, RegistryTransfer,
      RegistryApprove, RegistryAppoint

\* Where no registry has a key with the id 0, the holder of the protocol's key
\* is its owner from the moment it is minted.
THEOREM HolderIsOwner ==
    ASSUME 0 \notin ProtocolIds
    PROVE  OwnSpec => []HolderOwnsOnceMinted
<1>1. OwnInit => MintedInv
  BY DEF OwnInit, MintedInv
<1>2. MintedInv => HolderOwnsOnceMinted
  BY DEF MintedInv, HolderOwnsOnceMinted, Owner
<1> QED
  BY <1>1, <1>2, MintedStep, PTL DEF OwnSpec

-----------------------------------------------------------------------------
(* What asset contracts pay out                                            *)

Key == [holder : Holders, kind : Kinds, of : Factories, locked : BOOLEAN]

VaultTypeOK ==
    /\ keys \in Seq(Key)
    /\ i_fundiTokenId \in Seq(Nat)
    /\ vaultBalance \in Seq([Currencies -> Nat])
    /\ Len(vaultBalance) = Len(i_fundiTokenId)
    /\ walletBalance \in [Holders -> [Currencies -> Nat]]

LEMMA VaultTypeInit == VaultInit => VaultTypeOK
BY VaultAssumption DEF VaultInit, KeyLedgerInit, VaultTypeOK

\* Sequences of one length, and one that grew.
LEMMA SameLength ==
    ASSUME NEW S, NEW q \in Seq(S), NEW T, NEW r \in Seq(T), Len(q) = Len(r)
    PROVE  DOMAIN q = DOMAIN r
OBVIOUS

LEMMA AppendKeeps ==
    ASSUME NEW S, NEW q \in Seq(S), NEW x \in S
    PROVE  \A i \in DOMAIN q : Append(q, x)[i] = q[i]
OBVIOUS

\* Changing one balance, in a sequence or in a function of balances.
LEMMA OneBalanceSeq ==
    ASSUME NEW q \in Seq([Currencies -> Nat]), NEW v \in DOMAIN q,
           NEW c \in Currencies, NEW n \in Nat, NEW r, r = [q EXCEPT ![v][c] = n]
    PROVE  /\ r \in Seq([Currencies -> Nat])
           /\ Len(r) = Len(q)
           /\ \A w \in DOMAIN q, d \in Currencies :
                 r[w][d] = IF w = v /\ d = c THEN n ELSE q[w][d]
<1> DEFINE row == [q[v] EXCEPT ![c] = n]
<1>1. q[v] \in [Currencies -> Nat]
  OBVIOUS
<1>2. row \in [Currencies -> Nat] /\ \A d \in Currencies : row[d] = IF d = c THEN n ELSE q[v][d]
  BY <1>1
<1>3. r = [q EXCEPT ![v] = row]
  OBVIOUS
<1> HIDE DEF row
<1>4. r \in Seq([Currencies -> Nat]) /\ Len(r) = Len(q)
  BY <1>2, <1>3
<1>5. \A w \in DOMAIN q : r[w] = IF w = v THEN row ELSE q[w]
  BY <1>3
<1> QED
  BY <1>2, <1>4, <1>5

LEMMA OneBalance ==
    ASSUME NEW S, NEW q \in [S -> [Currencies -> Nat]], NEW v \in S,
           NEW c \in Currencies, NEW n \in Nat, NEW r, r = [q EXCEPT ![v][c] = n]
    PROVE  /\ r \in [S -> [Currencies -> Nat]]
           /\ r[v][c] = n
<1> DEFINE row == [q[v] EXCEPT ![c] = n]
<1>1. q[v] \in [Currencies -> Nat]
  OBVIOUS
<1>2. row \in [Currencies -> Nat] /\ row[c] = n
  BY <1>1
<1>3. r = [q EXCEPT ![v] = row]
  OBVIOUS
<1> HIDE DEF row
<1> QED
  BY <1>2, <1>3

\* A payment adds to one balance of one contract.
LEMMA PayInAdds ==
    ASSUME VaultTypeOK,
           NEW a \in Holders, NEW v \in Vaults, NEW c \in Currencies, NEW amount \in Nat,
           PayIn(a, v, c, amount)
    PROVE  /\ vaultBalance' \in Seq([Currencies -> Nat])
           /\ Len(vaultBalance') = Len(vaultBalance)
           /\ walletBalance' \in [Holders -> [Currencies -> Nat]]
           /\ \A w \in Vaults, d \in Currencies : vaultBalance'[w][d] >= vaultBalance[w][d]
<1>1. /\ v \in DOMAIN vaultBalance /\ DOMAIN vaultBalance = Vaults
      /\ vaultBalance \in Seq([Currencies -> Nat])
      /\ walletBalance \in [Holders -> [Currencies -> Nat]]
  BY DEF VaultTypeOK, Vaults
<1>2. /\ vaultBalance[v][c] \in Nat /\ vaultBalance[v][c] + amount \in Nat
      /\ \A w \in Vaults, d \in Currencies : vaultBalance[w][d] \in Nat
  BY <1>1
<1>3. walletBalance[a][c] \in Nat /\ walletBalance[a][c] - amount \in Nat
  BY <1>1 DEF PayIn
<1>4. /\ vaultBalance' = [vaultBalance EXCEPT ![v][c] = vaultBalance[v][c] + amount]
      /\ walletBalance' = [walletBalance EXCEPT ![a][c] = walletBalance[a][c] - amount]
  BY DEF PayIn
<1>5. walletBalance' \in [Holders -> [Currencies -> Nat]]
  BY <1>1, <1>3, <1>4, OneBalance
<1>6. /\ vaultBalance' \in Seq([Currencies -> Nat])
      /\ Len(vaultBalance') = Len(vaultBalance)
      /\ \A w \in Vaults, d \in Currencies :
            vaultBalance'[w][d] = IF w = v /\ d = c THEN vaultBalance[v][c] + amount
                                  ELSE vaultBalance[w][d]
  <2> DEFINE q == vaultBalance
             r == vaultBalance'
             n == vaultBalance[v][c] + amount
  <2>1. /\ q \in Seq([Currencies -> Nat]) /\ v \in DOMAIN q
        /\ n \in Nat /\ r = [q EXCEPT ![v][c] = n]
    BY <1>1, <1>2, <1>4
  <2>2. DOMAIN q = Vaults
    BY <1>1
  <2> HIDE DEF q, r, n
  <2>3. /\ r \in Seq([Currencies -> Nat])
        /\ Len(r) = Len(q)
        /\ \A w \in Vaults, d \in Currencies :
              r[w][d] = IF w = v /\ d = c THEN n ELSE q[w][d]
    BY <2>1, <2>2, OneBalanceSeq
  <2> QED
    BY <2>3 DEF q, r, n
<1>7. ASSUME NEW w \in Vaults, NEW d \in Currencies
      PROVE  vaultBalance'[w][d] >= vaultBalance[w][d]
  <2>1. vaultBalance[w][d] \in Nat
    BY <1>2
  <2>2. CASE w = v /\ d = c
    <3>1. vaultBalance'[w][d] = vaultBalance[w][d] + amount
      BY <1>6, <2>2
    <3> QED
      BY <2>1, <3>1
  <2>3. CASE ~(w = v /\ d = c)
    <3>1. vaultBalance'[w][d] = vaultBalance[w][d]
      BY <1>6, <2>3
    <3> QED
      BY <2>1, <3>1
  <2> QED
    BY <2>2, <2>3
<1> QED
  BY <1>5, <1>6, <1>7

PaidRule(v, c) ==
    vaultBalance[v][c] - vaultBalance'[v][c] > 0 =>
        walletBalance'[VaultOwner(v)][c] =
            walletBalance[VaultOwner(v)][c] + (vaultBalance[v][c] - vaultBalance'[v][c])

VaultStep ==
    /\ VaultTypeOK'
    /\ \A v \in Vaults, c \in Currencies : PaidRule(v, c)

\* Nothing leaves when no balance falls.
LEMMA NothingLeaves ==
    ASSUME VaultTypeOK, VaultTypeOK', Vaults \subseteq Vaults',
           \A v \in Vaults, c \in Currencies : vaultBalance'[v][c] >= vaultBalance[v][c]
    PROVE  VaultStep
<1>1. ASSUME NEW v \in Vaults, NEW c \in Currencies
      PROVE  ~(vaultBalance[v][c] - vaultBalance'[v][c] > 0)
  <2>1. v \in DOMAIN vaultBalance /\ v \in DOMAIN vaultBalance'
    <3>1. /\ vaultBalance \in Seq([Currencies -> Nat])
          /\ vaultBalance' \in Seq([Currencies -> Nat])
          /\ i_fundiTokenId \in Seq(Nat) /\ i_fundiTokenId' \in Seq(Nat)
          /\ Len(vaultBalance) = Len(i_fundiTokenId)
          /\ Len(vaultBalance') = Len(i_fundiTokenId')
      BY DEF VaultTypeOK
    <3>2. DOMAIN vaultBalance = Vaults
      BY <3>1, SameLength DEF Vaults
    <3>3. DOMAIN vaultBalance' = Vaults'
      BY <3>1, SameLength DEF Vaults
    <3> QED
      BY <3>2, <3>3
  <2>2. vaultBalance[v][c] \in Nat /\ vaultBalance'[v][c] \in Nat
    <3>1. /\ vaultBalance \in Seq([Currencies -> Nat])
          /\ vaultBalance' \in Seq([Currencies -> Nat])
      BY DEF VaultTypeOK
    <3>2. vaultBalance[v] \in [Currencies -> Nat]
      BY <2>1, <3>1
    <3>3. vaultBalance'[v] \in [Currencies -> Nat]
      BY <2>1, <3>1
    <3> QED
      BY <3>2, <3>3
  <2>3. vaultBalance'[v][c] >= vaultBalance[v][c]
    OBVIOUS
  <2> QED
    BY <2>2, <2>3
<1> QED
  BY <1>1 DEF VaultStep, PaidRule

LEMMA WithdrawPays ==
    ASSUME VaultTypeOK,
           NEW a \in Holders, NEW v \in Vaults, NEW c \in Currencies, NEW amount \in Nat,
           OwnerWithdraw(a, v, c, amount)
    PROVE  VaultStep
<1>1. /\ v \in DOMAIN vaultBalance /\ DOMAIN vaultBalance = Vaults
      /\ vaultBalance \in Seq([Currencies -> Nat])
      /\ walletBalance \in [Holders -> [Currencies -> Nat]]
  BY DEF VaultTypeOK, Vaults
<1>2. /\ vaultBalance[v][c] \in Nat /\ vaultBalance[v][c] - amount \in Nat
      /\ vaultBalance[v][c] - (vaultBalance[v][c] - amount) = amount
      /\ \A w \in Vaults, d \in Currencies : vaultBalance[w][d] \in Nat
  <2>1. \A w \in Vaults, d \in Currencies : vaultBalance[w][d] \in Nat
    BY <1>1
  <2>2. vaultBalance[v][c] \in Nat /\ vaultBalance[v][c] >= amount
    BY <2>1 DEF OwnerWithdraw
  <2> QED
    BY <2>1, <2>2
<1>3. walletBalance[a][c] \in Nat /\ walletBalance[a][c] + amount \in Nat
  BY <1>1
<1>4. /\ vaultBalance' = [vaultBalance EXCEPT ![v][c] = vaultBalance[v][c] - amount]
      /\ walletBalance' = [walletBalance EXCEPT ![a][c] = walletBalance[a][c] + amount]
      /\ a = VaultOwner(v)
  BY DEF OwnerWithdraw, OnlyVaultOwner
<1>5. /\ walletBalance' \in [Holders -> [Currencies -> Nat]]
      /\ walletBalance'[a][c] = walletBalance[a][c] + amount
  BY <1>1, <1>3, <1>4, OneBalance
<1>6. /\ vaultBalance' \in Seq([Currencies -> Nat])
      /\ Len(vaultBalance') = Len(vaultBalance)
      /\ \A w \in Vaults, d \in Currencies :
            vaultBalance'[w][d] = IF w = v /\ d = c THEN vaultBalance[v][c] - amount
                                  ELSE vaultBalance[w][d]
  <2> DEFINE q == vaultBalance
             r == vaultBalance'
             n == vaultBalance[v][c] - amount
  <2>1. /\ q \in Seq([Currencies -> Nat]) /\ v \in DOMAIN q
        /\ n \in Nat /\ r = [q EXCEPT ![v][c] = n]
    BY <1>1, <1>2, <1>4
  <2>2. DOMAIN q = Vaults
    BY <1>1
  <2> HIDE DEF q, r, n
  <2>3. /\ r \in Seq([Currencies -> Nat])
        /\ Len(r) = Len(q)
        /\ \A w \in Vaults, d \in Currencies :
              r[w][d] = IF w = v /\ d = c THEN n ELSE q[w][d]
    BY <2>1, <2>2, OneBalanceSeq
  <2> QED
    BY <2>3 DEF q, r, n
<1>7. VaultTypeOK'
  BY <1>5, <1>6 DEF OwnerWithdraw, VaultTypeOK
<1>8. ASSUME NEW w \in Vaults, NEW d \in Currencies
      PROVE  PaidRule(w, d)
  <2>1. CASE w = v /\ d = c
    <3>1. vaultBalance[w][d] - vaultBalance'[w][d] = amount
      BY <1>2, <1>6, <2>1
    <3> QED
      BY <1>4, <1>5, <2>1, <3>1 DEF PaidRule
  <2>2. CASE ~(w = v /\ d = c)
    <3>1. vaultBalance'[w][d] = vaultBalance[w][d] /\ vaultBalance[w][d] \in Nat
      BY <1>2, <1>6, <2>2
    <3>2. ~(vaultBalance[w][d] - vaultBalance'[w][d] > 0)
      BY <3>1
    <3> QED
      BY <3>2 DEF PaidRule
  <2> QED
    BY <2>1, <2>2
<1> QED
  BY <1>7, <1>8 DEF VaultStep

LEMMA KeyStepTypes ==
    ASSUME VaultTypeOK, KeyLedgerNext
    PROVE  keys' \in Seq(Key)
<1>1. ASSUME NEW to \in Holders, NEW kind \in Kinds, NEW f \in Factories,
             NEW locked \in BOOLEAN, Issue(to, kind, f, locked)
      PROVE  keys' \in Seq(Key)
  BY <1>1 DEF Issue, VaultTypeOK, Key
<1>2. ASSUME NEW i \in DOMAIN keys, NEW to \in Holders, Move(i, to)
      PROVE  keys' \in Seq(Key)
  <2> DEFINE moved == [keys[i] EXCEPT !.holder = to]
  <2>1. keys[i] \in Key /\ keys \in Seq(Key)
    BY DEF VaultTypeOK
  <2>2. moved \in Key
    BY <2>1 DEF Key
  <2>3. keys' = [keys EXCEPT ![i] = moved]
    BY <1>2 DEF Move
  <2> HIDE DEF moved
  <2> QED
    BY <2>1, <2>2, <2>3
<1> QED
  BY <1>1, <1>2 DEF KeyLedgerNext

LEMMA VaultStepHolds == VaultTypeOK /\ VaultNext => VaultStep
<1> SUFFICES ASSUME VaultTypeOK, VaultNext
             PROVE  VaultStep
  OBVIOUS
<1>1. Payments \subseteq Nat /\ "native" \in Currencies
  BY VaultAssumption
<1>2. /\ DOMAIN vaultBalance = Vaults
      /\ \A v \in Vaults, c \in Currencies :
            vaultBalance[v][c] \in Nat /\ vaultBalance[v][c] >= vaultBalance[v][c]
  <2>1. DOMAIN vaultBalance = Vaults /\ vaultBalance \in Seq([Currencies -> Nat])
    BY DEF VaultTypeOK, Vaults
  <2>2. \A v \in Vaults, c \in Currencies : vaultBalance[v][c] \in Nat
    BY <2>1
  <2> QED
    BY <2>1, <2>2
<1>3. ASSUME KeyStep
      PROVE  VaultStep
  <2>1. keys' \in Seq(Key)
    BY <1>3, KeyStepTypes DEF KeyStep
  <2>2. VaultTypeOK' /\ Vaults \subseteq Vaults'
    BY <1>3, <2>1 DEF KeyStep, VaultTypeOK, Vaults, moneyState
  <2>3. vaultBalance' = vaultBalance
    BY <1>3 DEF KeyStep, moneyState
  <2> QED
    BY <1>2, <2>2, <2>3, NothingLeaves
<1>4. ASSUME NEW key \in DOMAIN keys, NEW uri \in VaultURIs, DeployVault(key, uri)
      PROVE  VaultStep
  <2>1. key \in Nat
    BY DEF VaultTypeOK
  <2>2. NoMoney \in [Currencies -> Nat]
    BY DEF NoMoney
  <2>3. VaultTypeOK' /\ Vaults \subseteq Vaults'
    BY <1>4, <2>1, <2>2 DEF DeployVault, VaultTypeOK, Vaults
  <2>4. \A v \in Vaults : vaultBalance'[v] = vaultBalance[v]
    <3>1. vaultBalance' = Append(vaultBalance, NoMoney)
      BY <1>4 DEF DeployVault
    <3>2. vaultBalance \in Seq([Currencies -> Nat])
      BY DEF VaultTypeOK
    <3> QED
      BY <1>2, <2>2, <3>1, <3>2, AppendKeeps
  <2> QED
    BY <1>2, <2>3, <2>4, NothingLeaves
<1>5. ASSUME NEW a \in Holders, NEW v \in Vaults, NEW c \in Currencies,
             NEW amount \in Payments, PayIn(a, v, c, amount),
             UNCHANGED <<keys, i_fundiTokenId>>
      PROVE  VaultStep
  <2>1. /\ vaultBalance' \in Seq([Currencies -> Nat])
        /\ Len(vaultBalance') = Len(vaultBalance)
        /\ walletBalance' \in [Holders -> [Currencies -> Nat]]
        /\ \A w \in Vaults, d \in Currencies : vaultBalance'[w][d] >= vaultBalance[w][d]
    BY <1>1, <1>5, PayInAdds
  <2>2. VaultTypeOK' /\ Vaults \subseteq Vaults'
    BY <1>5, <2>1 DEF VaultTypeOK, Vaults
  <2> QED
    BY <2>1, <2>2, NothingLeaves
<1>6. ASSUME NEW a \in Holders, NEW v \in Vaults, NEW amount \in Payments,
             FundBalance(a, v, amount)
      PROVE  VaultStep
  BY <1>1, <1>5, <1>6 DEF FundBalance
<1>7. ASSUME NEW a \in Holders, NEW v \in Vaults, NEW c \in Currencies,
             NEW amount \in Payments, ReceiveToken(a, v, c, amount)
      PROVE  VaultStep
  BY <1>5, <1>7 DEF ReceiveToken
<1>8. ASSUME NEW a \in Holders, NEW v \in Vaults, NEW c \in Currencies,
             NEW amount \in Payments, OwnerWithdraw(a, v, c, amount)
      PROVE  VaultStep
  BY <1>1, <1>8, WithdrawPays
<1>9. ASSUME NEW a \in Holders, NEW v \in Vaults, NEW uri \in VaultURIs,
             SetVaultURI(a, v, uri)
      PROVE  VaultStep
  <2>1. VaultTypeOK' /\ Vaults \subseteq Vaults' /\ vaultBalance' = vaultBalance
    BY <1>9 DEF SetVaultURI, VaultTypeOK, Vaults, moneyState
  <2> QED
    BY <1>2, <2>1, NothingLeaves
<1> QED
  BY <1>3, <1>4, <1>6, <1>7, <1>8, <1>9 DEF VaultNext

\* What leaves an asset contract goes to the holder of its key at that moment,
\* for any number of contracts, also several of one key, and of keys.
THEOREM HolderIsPaid == VaultSpec => PaidToHolder
<1>1. VaultTypeOK /\ [VaultNext]_vaultVars => VaultTypeOK'
  <2>1. VaultTypeOK /\ UNCHANGED vaultVars => VaultTypeOK'
    BY DEF vaultVars, moneyState, VaultTypeOK
  <2> QED
    BY <2>1, VaultStepHolds DEF VaultStep
<1>2. VaultTypeOK /\ [VaultNext]_vaultVars
         => [\A v \in Vaults, c \in Currencies : PaidRule(v, c)]_vaultVars
  BY VaultStepHolds DEF VaultStep
<1> QED
  BY <1>1, <1>2, VaultTypeInit, PTL DEF VaultSpec, PaidToHolder, PaidRule

-----------------------------------------------------------------------------
(* The books of the asset contracts                                        *)

\* The books of one contract are right.
Right(held, paid, funded, funders) ==
    /\ held + paid = SumOver(funded, Holders)
    /\ \A a \in Holders : funded[a] > 0 => a \in Range(funders)

BooksTypeOK ==
    /\ VaultTypeOK
    /\ paidOut \in Seq(Nat)
    /\ s_funders \in Seq(Seq(Holders))
    /\ s_addressToAmountFunded \in Seq([Holders -> Nat])
    /\ Len(paidOut) = Len(i_fundiTokenId)
    /\ Len(s_funders) = Len(i_fundiTokenId)
    /\ Len(s_addressToAmountFunded) = Len(i_fundiTokenId)

RightAfter(v) ==
    Right(vaultBalance'[v]["native"], paidOut'[v], s_addressToAmountFunded'[v], s_funders'[v])

RightBooks(v) ==
    Right(vaultBalance[v]["native"], paidOut[v], s_addressToAmountFunded[v], s_funders[v])

BooksInv == BooksTypeOK /\ \A v \in Vaults : RightBooks(v)

LEMMA HoldersFinite == IsFiniteSet(Holders)
BY VaultAssumption

\* f is changed by n more for a.
Credited(f, a, n, g) ==
    /\ f \in [Holders -> Nat] /\ a \in Holders /\ n \in Nat
    /\ g = [f EXCEPT ![a] = f[a] + n]

LEMMA CreditedSum ==
    ASSUME NEW f, NEW a, NEW n, NEW g, Credited(f, a, n, g)
    PROVE  /\ g \in [Holders -> Nat]
           /\ SumOver(f, Holders) \in Nat
           /\ SumOver(g, Holders) = SumOver(f, Holders) + n
           /\ \A x \in Holders : x # a => g[x] = f[x]
<1>1. /\ f \in [Holders -> Nat] /\ a \in Holders /\ n \in Nat
      /\ g \in [Holders -> Nat] /\ g[a] = f[a] + n /\ f[a] \in Nat
      /\ \A y \in Holders \ {a} : g[y] = f[y]
  BY DEF Credited
<1>2. Amounting(f, Holders)
  BY <1>1, HoldersFinite DEF Amounting
<1>3. ASSUME NEW e, e = g
      PROVE  /\ SumOver(f, Holders) \in Nat /\ SumOver(e, Holders) \in Nat
             /\ SumOver(e, Holders) + f[a] = SumOver(f, Holders) + e[a]
  <2>1. e[a] \in Nat /\ \A y \in Holders \ {a} : e[y] = f[y]
    BY <1>1, <1>3
  <2> QED
    BY <1>1, <1>2, <2>1, SumChange
<1>4. /\ SumOver(f, Holders) \in Nat /\ SumOver(g, Holders) \in Nat
      /\ SumOver(g, Holders) + f[a] = SumOver(f, Holders) + (f[a] + n)
  BY <1>1, <1>3
<1>5. \A k, l, q, r \in Nat : k + q = l + (q + r) => k = l + r
  OBVIOUS
<1>6. SumOver(g, Holders) = SumOver(f, Holders) + n
  BY <1>1, <1>4, <1>5
<1> QED
  BY <1>1, <1>4, <1>6

LEMMA RightWhenFunded ==
    ASSUME NEW held \in Nat, NEW paid \in Nat, NEW f, NEW q \in Seq(Holders),
           NEW a, NEW n, NEW g, Credited(f, a, n, g), Right(held, paid, f, q)
    PROVE  Right(held + n, paid, g, Append(q, a))
<1>1. /\ SumOver(f, Holders) \in Nat
      /\ SumOver(g, Holders) = SumOver(f, Holders) + n
      /\ \A x \in Holders : x # a => g[x] = f[x]
  BY CreditedSum
<1>2. n \in Nat /\ a \in Holders
  BY DEF Credited
<1>3. held + n + paid = SumOver(g, Holders)
  BY <1>1, <1>2 DEF Right
<1>4. Range(q) \cup {a} \subseteq Range(Append(q, a))
  <2>1. /\ Len(q) \in Nat /\ DOMAIN q = 1..Len(q)
        /\ DOMAIN Append(q, a) = 1..(Len(q) + 1)
        /\ Append(q, a)[Len(q) + 1] = a
        /\ \A i \in 1..Len(q) : Append(q, a)[i] = q[i]
    OBVIOUS
  <2>2. Len(q) + 1 \in 1..(Len(q) + 1) /\ 1..Len(q) \subseteq 1..(Len(q) + 1)
    BY <2>1
  <2> QED
    BY <2>1, <2>2 DEF Range
<1>5. \A x \in Holders : g[x] > 0 => x \in Range(Append(q, a))
  BY <1>1, <1>4 DEF Right
<1> QED
  BY <1>3, <1>5 DEF Right

LEMMA RightWhenPaid ==
    ASSUME NEW held \in Nat, NEW paid \in Nat, NEW n \in Nat, NEW f, NEW q,
           Right(held, paid, f, q)
    PROVE  Right(held - n, paid + n, f, q)
BY DEF Right

LEMMA RightAtFirst ==
    Right(0, 0, [a \in Holders |-> 0], << >>)
<1>1. SumOver([a \in Holders |-> 0], Holders) = 0
  BY SumZero
<1> QED
  BY <1>1 DEF Right

\* r is q with x put at v.
LEMMA Put ==
    ASSUME NEW T, NEW q \in Seq(T), NEW v \in DOMAIN q, NEW x \in T, NEW r,
           r = [q EXCEPT ![v] = x]
    PROVE  /\ r \in Seq(T) /\ Len(r) = Len(q)
           /\ \A w \in DOMAIN q : r[w] = IF w = v THEN x ELSE q[w]
OBVIOUS

LEMMA BooksTypes ==
    ASSUME BooksTypeOK, NEW v \in Vaults
    PROVE  /\ DOMAIN vaultBalance = Vaults /\ DOMAIN paidOut = Vaults
           /\ DOMAIN s_funders = Vaults /\ DOMAIN s_addressToAmountFunded = Vaults
           /\ vaultBalance[v]["native"] \in Nat
           /\ paidOut[v] \in Nat
           /\ s_funders[v] \in Seq(Holders)
           /\ s_addressToAmountFunded[v] \in [Holders -> Nat]
<1>1. /\ DOMAIN vaultBalance = Vaults /\ DOMAIN paidOut = Vaults
      /\ DOMAIN s_funders = Vaults /\ DOMAIN s_addressToAmountFunded = Vaults
  BY DEF BooksTypeOK, VaultTypeOK, Vaults
<1>2. vaultBalance[v] \in [Currencies -> Nat]
  BY <1>1 DEF BooksTypeOK, VaultTypeOK
<1>3. vaultBalance[v]["native"] \in Nat
  BY <1>2, VaultAssumption
<1> QED
  BY <1>1, <1>3 DEF BooksTypeOK

\* What a payment does to the balances of the contracts.
LEMMA PayInExact ==
    ASSUME VaultTypeOK,
           NEW a \in Holders, NEW v \in Vaults, NEW c \in Currencies, NEW amount \in Nat,
           PayIn(a, v, c, amount)
    PROVE  \A w \in Vaults : vaultBalance'[w]["native"] =
              IF w = v /\ c = "native" THEN vaultBalance[w]["native"] + amount
              ELSE vaultBalance[w]["native"]
<1>1. /\ v \in DOMAIN vaultBalance /\ DOMAIN vaultBalance = Vaults
      /\ vaultBalance \in Seq([Currencies -> Nat]) /\ "native" \in Currencies
  BY VaultAssumption DEF VaultTypeOK, Vaults
<1>2. vaultBalance[v][c] + amount \in Nat
  BY <1>1
<1>3. vaultBalance' = [vaultBalance EXCEPT ![v][c] = vaultBalance[v][c] + amount]
  BY DEF PayIn
<1>4. \A w \in Vaults, d \in Currencies :
            vaultBalance'[w][d] = IF w = v /\ d = c THEN vaultBalance[v][c] + amount
                                  ELSE vaultBalance[w][d]
  <2> DEFINE q == vaultBalance
             r == vaultBalance'
             n == vaultBalance[v][c] + amount
  <2>1. /\ q \in Seq([Currencies -> Nat]) /\ v \in DOMAIN q /\ DOMAIN q = Vaults
        /\ n \in Nat /\ r = [q EXCEPT ![v][c] = n]
    BY <1>1, <1>2, <1>3
  <2> HIDE DEF q, r, n
  <2>2. \A w \in Vaults, d \in Currencies :
            r[w][d] = IF w = v /\ d = c THEN n ELSE q[w][d]
    BY <2>1, OneBalanceSeq
  <2> QED
    BY <2>2 DEF q, r, n
<1> QED
  BY <1>1, <1>4

LEMMA BooksInit == VaultInit => BooksInv
BY VaultTypeInit DEF VaultInit, BooksInv, BooksTypeOK, Vaults

\* The books of a contract of which nothing changes.
LEMMA RightSame ==
    ASSUME BooksInv, NEW v \in Vaults,
           vaultBalance'[v]["native"] = vaultBalance[v]["native"],
           paidOut'[v] = paidOut[v], s_funders'[v] = s_funders[v],
           s_addressToAmountFunded'[v] = s_addressToAmountFunded[v]
    PROVE  RightAfter(v)
BY DEF BooksInv, RightBooks, RightAfter

LEMMA AllRight ==
    ASSUME BooksTypeOK', \A v \in Vaults' : RightAfter(v)
    PROVE  BooksInv'
BY DEF BooksInv, RightBooks, RightAfter

LEMMA DeployBooks ==
    ASSUME BooksInv, VaultTypeOK', NEW key \in DOMAIN keys, NEW uri \in VaultURIs,
           DeployVault(key, uri)
    PROVE  BooksInv'
<1> DEFINE n == Len(i_fundiTokenId) + 1
           unfunded == [a \in Holders |-> 0]
<1>1. /\ VaultTypeOK /\ Len(i_fundiTokenId) \in Nat
      /\ paidOut \in Seq(Nat) /\ s_funders \in Seq(Seq(Holders))
      /\ s_addressToAmountFunded \in Seq([Holders -> Nat])
      /\ vaultBalance \in Seq([Currencies -> Nat])
      /\ Len(paidOut) = Len(i_fundiTokenId)
      /\ Len(s_funders) = Len(i_fundiTokenId)
      /\ Len(s_addressToAmountFunded) = Len(i_fundiTokenId)
      /\ Len(vaultBalance) = Len(i_fundiTokenId)
      /\ Vaults = 1..Len(i_fundiTokenId)
  BY DEF BooksInv, BooksTypeOK, VaultTypeOK, Vaults
<1>2. /\ unfunded \in [Holders -> Nat]
      /\ NoMoney \in [Currencies -> Nat] /\ NoMoney["native"] = 0
  BY VaultAssumption DEF NoMoney
<1>3. /\ i_fundiTokenId' = Append(i_fundiTokenId, key)
      /\ s_funders' = Append(s_funders, << >>)
      /\ s_addressToAmountFunded' = Append(s_addressToAmountFunded, unfunded)
      /\ vaultBalance' = Append(vaultBalance, NoMoney)
      /\ paidOut' = Append(paidOut, 0)
  BY DEF DeployVault
<1> HIDE DEF unfunded
<1>4. /\ paidOut' \in Seq(Nat) /\ Len(paidOut') = n
      /\ paidOut'[n] = 0
      /\ \A v \in Vaults : paidOut'[v] = paidOut[v]
  BY <1>1, <1>3
<1>5. /\ s_funders' \in Seq(Seq(Holders)) /\ Len(s_funders') = n
      /\ s_funders'[n] = << >>
      /\ \A v \in Vaults : s_funders'[v] = s_funders[v]
  BY <1>1, <1>3
<1>6. /\ s_addressToAmountFunded' \in Seq([Holders -> Nat])
      /\ Len(s_addressToAmountFunded') = n
      /\ s_addressToAmountFunded'[n] = unfunded
      /\ \A v \in Vaults : s_addressToAmountFunded'[v] = s_addressToAmountFunded[v]
  BY <1>1, <1>2, <1>3
<1>7. /\ vaultBalance'[n] = NoMoney
      /\ \A v \in Vaults : vaultBalance'[v] = vaultBalance[v]
  BY <1>1, <1>2, <1>3
<1>8. i_fundiTokenId \in Seq(Nat) /\ key \in Nat
  BY <1>1 DEF VaultTypeOK
<1>9. Len(i_fundiTokenId') = n /\ Vaults' = 1..n
  BY <1>3, <1>8 DEF Vaults
<1>10. BooksTypeOK'
  BY <1>4, <1>5, <1>6, <1>9 DEF BooksTypeOK
<1>11. RightAfter(n)
  BY <1>2, <1>4, <1>5, <1>6, <1>7, RightAtFirst DEF RightAfter, unfunded
<1>12. \A v \in Vaults : RightAfter(v)
  BY <1>4, <1>5, <1>6, <1>7, RightSame
<1>13. \A v \in 1..n : v = n \/ v \in Vaults
  BY <1>1
<1> QED
  BY <1>9, <1>10, <1>11, <1>12, <1>13, AllRight

LEMMA FundBooks ==
    ASSUME BooksInv, VaultTypeOK', NEW a \in Holders, NEW v \in Vaults, NEW n \in Nat,
           FundBalance(a, v, n)
    PROVE  BooksInv'
<1> DEFINE f == s_addressToAmountFunded[v]
           g == [f EXCEPT ![a] = f[a] + n]
           q == Append(s_funders[v], a)
<1>1. /\ DOMAIN s_funders = Vaults /\ DOMAIN s_addressToAmountFunded = Vaults
      /\ f \in [Holders -> Nat] /\ s_funders[v] \in Seq(Holders)
      /\ vaultBalance[v]["native"] \in Nat /\ paidOut[v] \in Nat
      /\ s_funders \in Seq(Seq(Holders))
      /\ s_addressToAmountFunded \in Seq([Holders -> Nat])
      /\ Vaults' = Vaults /\ "native" \in Currencies
  BY BooksTypes, VaultAssumption DEF BooksInv, BooksTypeOK, FundBalance, Vaults
<1>2. Credited(f, a, n, g)
  BY <1>1 DEF Credited
<1>3. /\ s_addressToAmountFunded' = [s_addressToAmountFunded EXCEPT ![v] = g]
      /\ s_funders' = [s_funders EXCEPT ![v] = q]
      /\ UNCHANGED <<paidOut, i_fundiTokenId>>
      /\ PayIn(a, v, "native", n)
  BY DEF FundBalance, PayIn
<1>4. g \in [Holders -> Nat] /\ q \in Seq(Holders)
  BY <1>1
<1> HIDE DEF g, q
<1>5. /\ s_addressToAmountFunded' \in Seq([Holders -> Nat])
      /\ Len(s_addressToAmountFunded') = Len(s_addressToAmountFunded)
      /\ \A w \in Vaults : s_addressToAmountFunded'[w] =
            IF w = v THEN g ELSE s_addressToAmountFunded[w]
  BY <1>1, <1>3, <1>4, Put
<1>6. /\ s_funders' \in Seq(Seq(Holders))
      /\ Len(s_funders') = Len(s_funders)
      /\ \A w \in Vaults : s_funders'[w] = IF w = v THEN q ELSE s_funders[w]
  <2> DEFINE before == s_funders
             after == s_funders'
  <2>1. /\ before \in Seq(Seq(Holders)) /\ v \in DOMAIN before /\ DOMAIN before = Vaults
        /\ after = [before EXCEPT ![v] = q]
    BY <1>1, <1>3
  <2> HIDE DEF before, after
  <2>2. /\ after \in Seq(Seq(Holders)) /\ Len(after) = Len(before)
        /\ \A w \in Vaults : after[w] = IF w = v THEN q ELSE before[w]
    BY <1>4, <2>1, Put
  <2> QED
    BY <2>2 DEF before, after
<1>7. \A w \in Vaults : vaultBalance'[w]["native"] =
          IF w = v THEN vaultBalance[w]["native"] + n ELSE vaultBalance[w]["native"]
  <2>1. VaultTypeOK
    BY DEF BooksInv, BooksTypeOK
  <2> QED
    BY <1>1, <1>3, <2>1, PayInExact
<1>8. BooksTypeOK'
  BY <1>3, <1>5, <1>6 DEF BooksInv, BooksTypeOK
<1>9. RightAfter(v)
  <2>1. Right(vaultBalance[v]["native"] + n, paidOut[v], g, q)
    BY <1>1, <1>2, RightWhenFunded DEF BooksInv, RightBooks, q
  <2>2. /\ vaultBalance'[v]["native"] = vaultBalance[v]["native"] + n
        /\ paidOut'[v] = paidOut[v]
        /\ s_addressToAmountFunded'[v] = g /\ s_funders'[v] = q
    BY <1>3, <1>5, <1>6, <1>7
  <2> QED
    BY <2>1, <2>2 DEF RightAfter
<1>10. \A w \in Vaults : w # v => RightAfter(w)
  BY <1>3, <1>5, <1>6, <1>7, RightSame
<1> QED
  BY <1>1, <1>8, <1>9, <1>10, AllRight

LEMMA WithdrawBooks ==
    ASSUME BooksInv, VaultTypeOK', NEW a \in Holders, NEW v \in Vaults,
           NEW c \in Currencies, NEW n \in Nat, OwnerWithdraw(a, v, c, n)
    PROVE  BooksInv'
<1> DEFINE out == IF c = "native" THEN paidOut[v] + n ELSE paidOut[v]
<1>1. /\ DOMAIN paidOut = Vaults /\ DOMAIN vaultBalance = Vaults
      /\ vaultBalance[v]["native"] \in Nat /\ paidOut[v] \in Nat
      /\ paidOut \in Seq(Nat)
      /\ vaultBalance \in Seq([Currencies -> Nat])
      /\ Vaults' = Vaults /\ "native" \in Currencies
  BY BooksTypes, VaultAssumption DEF BooksInv, BooksTypeOK, VaultTypeOK, OwnerWithdraw, Vaults
<1>2. /\ paidOut' = [paidOut EXCEPT ![v] = out]
      /\ vaultBalance' = [vaultBalance EXCEPT ![v][c] = vaultBalance[v][c] - n]
      /\ UNCHANGED <<s_funders, s_addressToAmountFunded, i_fundiTokenId>>
      /\ vaultBalance[v][c] >= n
  BY DEF OwnerWithdraw, books
<1>3. out \in Nat
  BY <1>1
<1>4. v \in DOMAIN vaultBalance /\ vaultBalance[v][c] - n \in Nat
  <2>1. vaultBalance[v] \in [Currencies -> Nat]
    BY <1>1
  <2>2. vaultBalance[v][c] \in Nat
    BY <2>1
  <2> QED
    BY <1>1, <1>2, <2>2
<1> HIDE DEF out
<1>5. /\ paidOut' \in Seq(Nat) /\ Len(paidOut') = Len(paidOut)
      /\ \A w \in Vaults : paidOut'[w] = IF w = v THEN out ELSE paidOut[w]
  BY <1>1, <1>2, <1>3, Put
<1>6. \A w \in Vaults, d \in Currencies : vaultBalance'[w][d] =
          IF w = v /\ d = c THEN vaultBalance[v][c] - n ELSE vaultBalance[w][d]
  <2> DEFINE q == vaultBalance
             r == vaultBalance'
             left == vaultBalance[v][c] - n
  <2>1. /\ q \in Seq([Currencies -> Nat]) /\ v \in DOMAIN q /\ DOMAIN q = Vaults
        /\ left \in Nat /\ r = [q EXCEPT ![v][c] = left]
    BY <1>1, <1>2, <1>4
  <2> HIDE DEF q, r, left
  <2>2. \A w \in Vaults, d \in Currencies :
            r[w][d] = IF w = v /\ d = c THEN left ELSE q[w][d]
    BY <2>1, OneBalanceSeq
  <2> QED
    BY <2>2 DEF q, r, left
<1>7. BooksTypeOK'
  BY <1>2, <1>5 DEF BooksInv, BooksTypeOK
<1>8. \A w \in Vaults : w # v => RightAfter(w)
  <2> SUFFICES ASSUME NEW w \in Vaults, w # v PROVE RightAfter(w)
    OBVIOUS
  <2>1. vaultBalance'[w]["native"] = vaultBalance[w]["native"] /\ paidOut'[w] = paidOut[w]
    BY <1>1, <1>5, <1>6
  <2> QED
    BY <1>2, <2>1, RightSame
<1>9. RightAfter(v)
  <2>1. CASE c = "native"
    <3>1. vaultBalance'[v]["native"] = vaultBalance[v]["native"] - n
          /\ paidOut'[v] = paidOut[v] + n
      BY <1>1, <1>5, <1>6, <2>1 DEF out
    <3>2. Right(vaultBalance[v]["native"] - n, paidOut[v] + n,
                s_addressToAmountFunded[v], s_funders[v])
      BY <1>1, RightWhenPaid DEF BooksInv, RightBooks
    <3> QED
      BY <1>2, <3>1, <3>2 DEF RightAfter
  <2>2. CASE c # "native"
    <3>1. vaultBalance'[v]["native"] = vaultBalance[v]["native"] /\ paidOut'[v] = paidOut[v]
      BY <1>1, <1>5, <1>6, <2>2 DEF out
    <3> QED
      BY <1>2, <3>1, RightSame
  <2> QED
    BY <2>1, <2>2
<1> QED
  BY <1>1, <1>7, <1>8, <1>9, AllRight

LEMMA BooksStep == BooksInv /\ [VaultNext]_vaultVars => BooksInv'
<1> SUFFICES ASSUME BooksInv, [VaultNext]_vaultVars PROVE BooksInv'
  OBVIOUS
<1>0. VaultTypeOK /\ VaultTypeOK' /\ Payments \subseteq Nat
  <2>1. VaultTypeOK /\ UNCHANGED vaultVars => VaultTypeOK'
    BY DEF vaultVars, moneyState, VaultTypeOK
  <2> QED
    BY <2>1, VaultStepHolds, VaultAssumption DEF VaultStep, BooksInv, BooksTypeOK
<1>1. ASSUME UNCHANGED <<i_fundiTokenId, books, moneyState>> PROVE BooksInv'
  <2>1. UNCHANGED <<i_fundiTokenId, s_funders, s_addressToAmountFunded, vaultBalance, paidOut>>
    BY <1>1 DEF books, moneyState
  <2>2. BooksTypeOK' /\ Vaults' = Vaults
    BY <1>0, <2>1 DEF BooksInv, BooksTypeOK, Vaults
  <2> QED
    BY <2>1, <2>2, RightSame, AllRight
<1>2. ASSUME NEW key \in DOMAIN keys, NEW uri \in VaultURIs, DeployVault(key, uri)
      PROVE  BooksInv'
  BY <1>0, <1>2, DeployBooks
<1>3. ASSUME NEW a \in Holders, NEW v \in Vaults, NEW n \in Payments, FundBalance(a, v, n)
      PROVE  BooksInv'
  BY <1>0, <1>3, FundBooks
<1>4. ASSUME NEW a \in Holders, NEW v \in Vaults, NEW c \in Currencies, NEW n \in Payments,
             ReceiveToken(a, v, c, n)
      PROVE  BooksInv'
  <2>1. /\ UNCHANGED <<i_fundiTokenId, s_funders, s_addressToAmountFunded, paidOut>>
        /\ PayIn(a, v, c, n) /\ c # "native"
    BY <1>4 DEF ReceiveToken, PayIn, books
  <2>2. \A w \in Vaults : vaultBalance'[w]["native"] = vaultBalance[w]["native"]
    <3>1. n \in Nat
      BY <1>0
    <3> QED
      BY <1>0, <2>1, <3>1, PayInExact
  <2>3. BooksTypeOK' /\ Vaults' = Vaults
    BY <1>0, <2>1 DEF BooksInv, BooksTypeOK, Vaults
  <2> QED
    BY <2>1, <2>2, <2>3, RightSame, AllRight
<1>5. ASSUME NEW a \in Holders, NEW v \in Vaults, NEW c \in Currencies, NEW n \in Payments,
             OwnerWithdraw(a, v, c, n)
      PROVE  BooksInv'
  BY <1>0, <1>5, WithdrawBooks
<1>6. CASE \/ KeyStep
           \/ \E a \in Holders, v \in Vaults, uri \in VaultURIs : SetVaultURI(a, v, uri)
           \/ UNCHANGED vaultVars
  BY <1>1, <1>6 DEF KeyStep, SetVaultURI, vaultVars
<1> QED
  BY <1>2, <1>3, <1>4, <1>5, <1>6 DEF VaultNext

\* The books of every asset contract are right about its native currency, for
\* any number of contracts, funders and payments, and whoever withdraws.
THEOREM BooksStayExact == VaultSpec => []BooksExact
<1>1. BooksInv => BooksExact
  BY DEF BooksInv, RightBooks, Right, BooksExact
<1> QED
  BY <1>1, BooksInit, BooksStep, PTL DEF VaultSpec
=============================================================================
