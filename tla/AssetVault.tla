----------------------------- MODULE AssetVault -----------------------------
(***************************************************************************)
(* The asset contracts that factories deploy (FundiAsset, with the vault   *)
(* of ExampleFundiAsset), composed with the ledger of their keys.  Anyone  *)
(* pays in, native currency through fundBalance, tokens by a transfer the  *)
(* contract does not notice; the holder of the key takes out.  The ledger  *)
(* is KeyLedger, which FundiAssetFactoryProtocol implements.               *)
(*                                                                         *)
(* A contract is named by the order of deployment.  More than one may be   *)
(* deployed for a key, since factories do not exclude it.                  *)
(***************************************************************************)
EXTENDS KeyLedger, Functions, Sums

CONSTANTS
    Currencies,    \* "native", and the ERC20 tokens
    Wealth,        \* what every holder has of each currency at first
    Payments,      \* bound: the amounts paid in and withdrawn
    VaultURIs,
    MaxKeys,       \* bound: how many keys are issued
    MaxVaults,     \* bound: how many asset contracts are deployed
    MaxFunders     \* bound: how many payments a contract lists

ASSUME VaultAssumption ==
    /\ "native" \in Currencies
    /\ Wealth \in Nat
    /\ Payments \subseteq Nat
    /\ IsFiniteSet(Holders)
    /\ VaultURIs # {}
    /\ {MaxKeys, MaxVaults, MaxFunders} \subseteq Nat

VARIABLES
    i_fundiTokenId,          \* of each contract, the position of its key
    vaultURI,                \* s_contractURI
    s_funders,
    s_addressToAmountFunded,
    vaultBalance,            \* external: what each contract holds
    walletBalance,           \* external: what each account holds
    paidOut                  \* history: the native currency each has paid out

moneyState == <<vaultBalance, walletBalance, paidOut>>
books == <<s_funders, s_addressToAmountFunded>>
vaultVars == <<keys, i_fundiTokenId, vaultURI, books, moneyState>>

Vaults == DOMAIN i_fundiTokenId
NoMoney == [c \in Currencies |-> 0]

VaultInit ==
    /\ KeyLedgerInit
    /\ i_fundiTokenId = << >>
    /\ vaultURI = << >>
    /\ s_funders = << >>
    /\ s_addressToAmountFunded = << >>
    /\ vaultBalance = << >>
    /\ paidOut = << >>
    /\ walletBalance = [a \in Holders |-> [c \in Currencies |-> Wealth]]

\* owner(): whoever holds the key at this moment.
VaultOwner(v) == keys[i_fundiTokenId[v]].holder

\* Mutant: asks balanceOf, so the holder of any key passes.
HoldsSomeKey(sender, v) == \E i \in DOMAIN keys : keys[i].holder = sender

\* onlyOwner, _checkOwner
OnlyVaultOwner(sender, v) == sender = VaultOwner(v)

\* The constructor: the contract is bound to its key for ever.
DeployVault(key, uri) ==
    /\ keys[key].kind = "asset"
    /\ i_fundiTokenId' = Append(i_fundiTokenId, key)
    /\ vaultURI' = Append(vaultURI, uri)
    /\ s_funders' = Append(s_funders, << >>)
    /\ s_addressToAmountFunded' =
         Append(s_addressToAmountFunded, [a \in Holders |-> 0])
    /\ vaultBalance' = Append(vaultBalance, NoMoney)
    /\ paidOut' = Append(paidOut, 0)
    /\ UNCHANGED <<keys, walletBalance>>

\* amount of currency c goes from an account into a contract.
PayIn(a, v, c, amount) ==
    /\ walletBalance[a][c] >= amount
    /\ walletBalance' = [walletBalance EXCEPT ![a][c] = @ - amount]
    /\ vaultBalance' = [vaultBalance EXCEPT ![v][c] = @ + amount]
    /\ UNCHANGED paidOut

\* Mutant: a second payment replaces the first in the books.
FundBalanceOverwrites(a, v, amount) ==
    /\ Len(s_funders[v]) < MaxFunders
    /\ PayIn(a, v, "native", amount)
    /\ s_addressToAmountFunded' = [s_addressToAmountFunded EXCEPT ![v][a] = amount]
    /\ s_funders' = [s_funders EXCEPT ![v] = Append(@, a)]
    /\ UNCHANGED <<keys, i_fundiTokenId, vaultURI>>

\* fundBalance, and receive and fallback, which call it: a payment of nothing is
\* listed like any other.
FundBalance(a, v, amount) ==
    /\ Len(s_funders[v]) < MaxFunders
    /\ PayIn(a, v, "native", amount)
    /\ s_addressToAmountFunded' = [s_addressToAmountFunded EXCEPT ![v][a] = @ + amount]
    /\ s_funders' = [s_funders EXCEPT ![v] = Append(@, a)]
    /\ UNCHANGED <<keys, i_fundiTokenId, vaultURI>>

\* A token transfer to the contract, of which its books know nothing.
ReceiveToken(a, v, c, amount) ==
    /\ c # "native"
    /\ PayIn(a, v, c, amount)
    /\ UNCHANGED <<keys, i_fundiTokenId, vaultURI, books>>

\* Mutant: withdrawals are counted against the caller's own payments.
OwnerWithdrawDebited(sender, v, c, amount) ==
    /\ OnlyVaultOwner(sender, v)
    /\ vaultBalance[v][c] >= amount
    /\ s_addressToAmountFunded[v][sender] >= amount
    /\ s_addressToAmountFunded' = [s_addressToAmountFunded EXCEPT ![v][sender] = @ - amount]
    /\ vaultBalance' = [vaultBalance EXCEPT ![v][c] = @ - amount]
    /\ paidOut' = [paidOut EXCEPT ![v] = IF c = "native" THEN @ + amount ELSE @]
    /\ walletBalance' = [walletBalance EXCEPT ![sender][c] = @ + amount]
    /\ UNCHANGED <<keys, i_fundiTokenId, vaultURI, s_funders>>

\* A token that reports failure instead of reverting makes no step: the result
\* of transfer is not looked at.
OwnerWithdraw(sender, v, c, amount) ==
    /\ OnlyVaultOwner(sender, v)
    /\ vaultBalance[v][c] >= amount
    /\ vaultBalance' = [vaultBalance EXCEPT ![v][c] = @ - amount]
    /\ paidOut' = [paidOut EXCEPT ![v] = IF c = "native" THEN @ + amount ELSE @]
    /\ walletBalance' = [walletBalance EXCEPT ![sender][c] = @ + amount]
    /\ UNCHANGED <<keys, i_fundiTokenId, vaultURI, books>>

SetVaultURI(sender, v, uri) ==
    /\ OnlyVaultOwner(sender, v)
    /\ vaultURI' = [vaultURI EXCEPT ![v] = uri]
    /\ UNCHANGED <<keys, i_fundiTokenId, books, moneyState>>

\* A step of the ledger: a key is issued or moved.
KeyStep ==
    /\ KeyLedgerNext
    /\ Len(keys') <= MaxKeys
    /\ UNCHANGED <<i_fundiTokenId, vaultURI, books, moneyState>>

VaultNext ==
    \/ KeyStep
    \/ \E key \in DOMAIN keys, uri \in VaultURIs :
          Len(i_fundiTokenId) < MaxVaults /\ DeployVault(key, uri)
    \/ \E a \in Holders, v \in Vaults, amount \in Payments : FundBalance(a, v, amount)
    \/ \E a \in Holders, v \in Vaults, c \in Currencies, amount \in Payments :
          \/ ReceiveToken(a, v, c, amount)
          \/ OwnerWithdraw(a, v, c, amount)
    \/ \E a \in Holders, v \in Vaults, uri \in VaultURIs : SetVaultURI(a, v, uri)

VaultSpec == VaultInit /\ [][VaultNext]_vaultVars
-----------------------------------------------------------------------------
(***************************************************************************)
(* The books are right about the native currency, however payments,        *)
(* withdrawals and changes of holder interleave: what an asset contract    *)
(* holds and has paid out is what its books say was funded (a withdrawal   *)
(* does not touch them), and all who funded it are listed.                 *)
(***************************************************************************)
BooksExact ==
    \A v \in Vaults :
        /\ vaultBalance[v]["native"] + paidOut[v] =
             SumOver(s_addressToAmountFunded[v], Holders)
        /\ \A a \in Holders :
              s_addressToAmountFunded[v][a] > 0 => a \in Range(s_funders[v])

(***************************************************************************)
(* What leaves an asset contract goes to whoever holds its key at that     *)
(* moment, all of it and in the same currency: nothing to the deployer, to *)
(* earlier holders or to those of other keys (ownerWithdraw).              *)
(***************************************************************************)
PaidToHolder ==
    [][\A v \in Vaults, c \in Currencies :
          LET paid == vaultBalance[v][c] - vaultBalance'[v][c]
              holder == VaultOwner(v)
          IN  paid > 0 => walletBalance'[holder][c] = walletBalance[holder][c] + paid
      ]_vaultVars

=============================================================================
