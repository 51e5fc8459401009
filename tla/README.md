# Verification of the Fundi factory kit

TLA+ modules, TLC configurations and TLAPS proofs for this repository: the
smart contracts of the Fundi protocol as the kit mocks it, the factories and
assets that developers derive from it, and the generators and scripts of the
OpenZeppelin repository that it carries with it.

## 1. Inventory

### The contracts

| Part | Source | State | Operations that change it |
|---|---|---|---|
| Key ledger (ERC721) | `lib/openzeppelin-contracts/.../ERC721.sol`, inherited | `_owners`, `_balances`, `_tokenApprovals`, `_operatorApprovals` | `_safeMint`, `transferFrom`, `safeTransferFrom`, `approve`, `setApprovalForAll` |
| Fundi protocol | `mocks/Fundi/FundiAssetFactoryProtocol.sol` | token counter, number of factories, info of each asset key, factory of each factory key, a struct per factory (status, fee, mint count), proceeds and fee proceeds per factory | `mintFactoryKey`, `mintAssetKey`, two withdrawals, `setAssetFactoryStatus`, `verifyContract`, `updateFlag` |
| Factory | `src/Factories/FundiFactory.sol`, `ExampleFundiFactory.sol` | own key, whether registered, slots of announced keys, deployed contracts, URI, audits | `setFundiTokenId`, `mintFundiFactoryAsset` (by the protocol), `mintAsset`, `setContractURI`, `addContractAudit` |
| Asset contract | `src/Assets/FundiAsset.sol`, `ExampleFundiAsset.sol` | immutables, URI, amounts funded, its balances | `fundBalance`, `ownerWithdraw`, `setContractURI` |
| Protocol base | `mocks/Fundi/FundiProtocol.sol` | validator, protocol token id, pre-mint owner, audits | `setProtocolTokenID`, `setValidator`, `transferOwnership`, `setContractURI`, `addContractAudit` |
| Fundi token | `mocks/Fundi/FundiToken.sol` (ERC20Votes) | balances, delegates, checkpoints | transfer, delegate, mint, burn |
| Governor | `src/Governance/FactoryGovernor.sol` | proposals, votes | propose, castVote, queue, execute |
| Timelock | `src/Governance/FactoryTimelock.sol` | roles, timestamps of operations, delay | scheduleBatch, executeBatch, cancel, updateDelay |
| Metadata, interfaces, scripts, other mocks | see `PROJECT.json` | none of the program's own | none |

### OpenZeppelin's repository

| Part | Source (in `lib/openzeppelin-contracts/scripts`) | State | Operations that change it |
|---|---|---|---|
| Generated libraries | `generate/templates/{Checkpoints,EnumerableSet,EnumerableMap,SafeCast,conversion}.js` and their mocks | histories, sets and maps in storage | `push`, `add`, `remove`, `set`; casts change nothing but are chained |
| Release scripts | `release/*.js`, `release/*.sh`, the `version` script of `package.json` | versions, comments `last updated`, changelog, tags | start, rc, final; the commits of developers between |
| Docs publication | `update-docs-branch.js` | the docs branch, one clone per job | fetch, build and commit, push |
| Import migration | `migrate-imports.js` | the user's files | read and write each, report |
| Reports, navigation, layout of generated sources, settings | see `PROJECT.json` | none | none |

### How they interact

* The protocol *is* the key ledger: a key is an NFT, and whoever holds it owns
  the factory or the asset contract (`owner()` asks `ownerOf` at each call). The
  protocol itself is owned in the same way, by a key in another registry.
* `mintFactoryKey` tells the factory its key (`setFundiTokenId`) and
  `mintAssetKey` announces an asset key to it (`mintFundiFactoryAsset`) before
  the key exists; the recipient is called back (`onERC721Received`) before the
  protocol has written its counters and its own record of the factory.
* The holder of an asset key has the factory deploy the asset's contract
  (`mintAsset`), which asks the protocol for the key's info.
* The protocol holds all fees, in the Fundi token and in the token that each
  factory names, and pays them out to the holder of the factory's key.
* The DAO, a timelock driven by a governor in which Fundi tokens vote, sets a
  factory's flag and verification. Anyone may have it execute what is due.
* The token's histories and the governor's quorum are searched with
  OpenZeppelin's checkpoints and their numbers cut with its casts.
* Releases, docs and migrations share git branches and files, and nothing else.

### What is hard here

Nothing runs in parallel on the chain: a transaction is atomic and undone as a
whole when it reverts. What makes the contracts hard is the *callback in the
middle of a call*, where other code sees and changes half-written state; *state
copied to memory* before it and written back whole after it; *two contracts that
must agree* on registrations, slots and keys; *one purse for many claims*;
*defaults of storage that are also real values* (key 0, slot 0, token id 0);
tokens that transfer less than asked or fail silently; and, in governance, life
cycles of the same proposal in two contracts.

The generated libraries are hard where *indices are repaired*, *zero stands for
nothing* and *a cast wraps before it is checked*. The scripts run concurrently
with each other (jobs of two release branches), are killed and repeated (the
migration), or must come out right after any sequence of edits and candidates
(releases). `PROJECT.json` lists the hazards, each at its line.

### What makes each part correct

* Key ledger: keys without gaps or reuse; balances that count; approvals that
  end with the ownership they were given under; untransferable keys stay.
* Protocol: agreement with the factories; exact counts; every token's balance
  covers what is owed in it; no fee lost or paid twice; shares within bounds;
  never flagged and verified at once; status changes by the DAO alone.
* Factory: one contract per key, for a key minted for it; an owner only when it
  has a key.
* Asset contract: what it pays out goes to the key's holder at that moment, and
  its books say what was funded.
* Protocol base: the identity is set once; the owner changes only by those who
  have a right to the protocol or to its key; the holder of the key is the owner.
* Governance: executed only after success and delay, once; votes counted at the
  snapshot; a successful proposal can be executed.
* Generated libraries: a set is a set and a map a map, however read; a lookup is
  what was written last at the nearest key; a cast keeps the number or reverts.
* Scripts: final releases name no candidate and every change; docs never go back
  to an older version; a migration that says it is done is.

## 2. Plan

Everything planned is done; the order was that of importance.

1. Core: `ERC721`, `FundiFactory`, `FundiAssetFactoryProtocol`, their properties,
   the abstract `KeyLedger` and the refinement.
2. Votes: `Checkpoints`, `CheckpointSearch` with `IsValueAt` as reference,
   `VotingToken`.
3. Governance: `FactoryTimelock` and `FactoryGovernor` composed with
   `VotingToken`, the abstract `ProposalLife` and the refinement, liveness.
4. Ownership: `FundiProtocolOwnership`, and `AssetVault` composed with `KeyLedger`.
5. OpenZeppelin's generators and scripts: the libraries, against the abstract
   `KeyedMap` and reference definitions; `Release`, `DocsBranch`, `MigrateImports`.
6. Proofs of each, after its runs: 44 theorems.

What is left out, and why, is section 6; what is checked but not proved is at
the end of section 5.

## 3. Modules and the code

| Module | Models |
|---|---|
| `ERC721` | the inherited ledger: `Mint`, `Transfer`, `ApproveKey`, `ApproveOperator` are `_mint`, `_transfer`, `approve`, `setApprovalForAll` |
| `FundiFactory` | one set of storage per factory as functions over `Factories`; one operator per function; `MintAsset` is `ExampleFundiFactory.mintAsset` |
| `FundiAssetFactoryProtocol` | the protocol, composed with both: one action per external function |
| `KeyLedger` | abstract specification of what the protocol promises about keys |
| `ProtocolProperties` | invariants, action properties, the refinement mapping |
| `FundiProtocolOwnership` | the base of every protocol: validator, token id, the owner before and after, hand-over with its callback, and the registries (external) |
| `AssetVault` | the asset contracts: payments, withdrawals, URI, composed with `KeyLedger` |
| `Checkpoints` | a history of values by block: `WriteCheckpoint` is `_writeCheckpoint`, `ValueAt` what a past question is answered with |
| `CheckpointSearch`, `MathLib` | `ERC20Votes._checkpointsLookup` step by step: the guess, the halving, the unchecked reads; `Math.sqrt` and `average` |
| `Chain` | block number and timestamp (external) |
| `VotingToken` | FundiToken: transfers, burns, delegations, the histories of votes and supply |
| `FactoryTimelock` | operations by timestamp, the delay, the canceller role |
| `FactoryGovernor` | the governor composed with token and timelock: one action per external function |
| `ProposalLife` | abstract specification of what governance promises about a proposal |
| `Conversion` | typed values in and out of words (`conversion.js`) |
| `EnumerableSet`, `EnumerableMap` | the generated sets and maps and their typed wrappers: one operator per function |
| `EnumerableMocks` | the mocks that hold a set or a map of one type, with what a call returns |
| `KeyedMap` | abstract specification of a map (of a set, with one value) |
| `SafeCast`, `CastChain` | the generated casts; a number that goes through them in any order |
| `CheckpointTrace` | the generated histories in both flavors, with every lookup |
| `Release` | `npm version` with the three scripts of `scripts/release`, and the developers |
| `DocsBranch` | jobs of `update-docs-branch.js` on a shared branch |
| `MigrateImports` | `migrate-imports.js`, killed and repeated |
| `Sums` | sums over sets, as numbers of units |
| `ProtocolProofs`, `RecordProofs`, `MoneyProofs`, `VotingProofs`, `OwnershipProofs`, `LibraryProofs`, `ScriptProofs` | TLAPS proofs |
| `NumberProofs` | the facts about sums, powers of two and least numbers that they cite |
| `MCProtocol`, `MCCheckpoints`, `MCVotes`, `MCGovernor`, `MCOwnership`, `MCOpenZeppelin` | instances for TLC |

**Steps.** A transaction that reverts is no step, so each `require`, `revert` and
early return is a guard. A transaction is one step, except where it calls other
code in its middle: the two mints, and `transferOwnership` of a protocol's key.
`MintFactoryKey` and `MintAssetKey` go up to the callback in `_safeMint`; the
variable `frame` then holds the suspended call with what it keeps in memory, and
`EndMintFactoryKey`, `EndMintAssetKey` do the rest. In between `MayCall` lets only
code call, and only if the recipient has code: ordinary accounts cannot start a
call inside a transaction, but the recipient can go through contracts, the
timelock with its open executor role among them. `NonReentrant` keeps out the
functions with that modifier; the others interleave. A mint that reverts after
the callback does not appear: nothing after it can revert. A recipient that
refuses the key makes the whole call revert, which is no step. In
`FundiProtocolOwnership` `frame` is the new owner being called back, and `MayAct`
has the part of `MayCall`.

**Data.** Names, texts, types and URIs of metadata are left out. An asset
contract is named by the position at which its factory deployed it. Amounts are
small units: the Fundi fee is 10, which the percentages 30, 40, 70 and 90 divide
as they divide 5e17. No counter comes near 2^256, so integers are unbounded
except in `SafeCast` and `Conversion`, which are about widths.
`tokenMintFee` may be chosen as large as a `uint256`, but fees are paid from a
real balance, so sums of them do not overflow either unless a token's supply
does.

**Factories** in an instance are `ExampleFundiFactory` contracts whose
`i_fundiProtocol` is the protocol modelled; a factory of another protocol is
refused by `isFundiProtocol` in either mint.

**ERC20 tokens** are external: `held` is what the protocol holds of each. A token
in `TaxedTokens` delivers less than asked (the protocol refuses such a mint),
one in `SilentTokens` may return false from `transfer`. Tokens that call back
in `transferFrom`, and fees sent to the protocol outside its functions, are not
modelled; the latter would only add to `held`.

**Owners.** `Owner` in `FundiProtocolOwnership` is `owner()`, nobody where the
call to the validator reverts: the validator may be one of `Impostors`, an address
that is no registry. Registries are ERC721 contracts: they mint a key once, to
anyone, and it is moved by its holder, by the account approved for it or by an
operator of its holder (`MayMoveKey`), whatever the protocol makes of that.
`VaultOwner` in `AssetVault` is the holder of the contract's key in `KeyLedger`,
the specification that the protocol is shown to implement, so what holds for
the vault holds with the real ledger under it.

**History variables** `fundiReceived` and `feesReceived` record what the owners of a
factory received, `paidOut` what an asset contract paid, `actor` whose call the
last step was, `written` what was pushed under a key, `original` the number at
the start of a chain of casts. Nothing reads them but the properties.

**Governance.** A proposal and the timelock's operation for it are named alike: both
hashes are over the same targets, values, calls and description, so there is
one operation per proposal. `Calls` says which calls a batch makes: to the
timelock (`updateDelay`, granting the canceller role), to the governor
(settings, quorum), to others, and whether one of them reverts, which undoes
the batch. `ExecuteProposal` is `execute` of the governor; `ExecuteOperation` is
`executeBatch` called on the timelock directly. The latter has the guard that
no call goes to the governor: `onlyGovernance` takes each call off
`_governanceCall`, which is empty then, and that reverts. `State` gives
`Unknown` where `state` reverts. The
roles are those `LocalDeployFundiMock` grants: the governor proposes, anyone
executes, nobody cancels, and the timelock administers its own roles.

**Votes.** Checkpoints are sequences from index 1; `CheckpointSearch` and
`CheckpointTrace` keep the code's indices from 0 and add one where they read. The
other modules use `ValueAt`, and a theorem says that the search returns it.
`TransferTokens` and `Burn` stand for the calls of owner and spender, since an
allowance says who may call, not what the call does. A signed delegation is an
element of `Signatures`; `permit`, which uses up nonces of the same counter, is
left out.

**Generated libraries.** A template writes the same function for several types;
here the type is a parameter (`TypeSize`, the number of its values; `Lengths` for
casts), and so are word and key widths. A map's wrapper converts, then calls the
function on words, as in the generated code. Casts from and to the same sign
widen implicitly, so a chain may leave out steps.

**Scripts.** A release is one step: a script that fails leaves uncommitted
changes, on which `npm version` does not begin. `code` and `comment` split a
contract into its text and the version in its comment, since `git diff` sees a
difference in either. Versions of documents are numbers that `Digits` turns into
texts, as `update-docs-branch.js` compares them. A job of `DocsBranch` is two steps,
fetch and push, and the remote refuses a push that is not based on its latest
commit. A file in `MigrateImports` is the sequence of imports it mentions; a read
and a write of a file are steps of their own.

**Mutants** are operators marked as such, next to the definition they vary. No
specification uses them.

## 4. Runs

| Run | Instance | Shows |
|---|---|---|
| `custody` | 2 accounts (one with code, approved by the other), 1 factory, 3 keys | balances count keys; approvals end with ownership; `KeyLedger` implemented; a decision of the DAO is lost at most in a mint to code |
| `slots` | 1 contract account, 2 factories, 4 keys | keys numbered, counted and of one kind; protocol, factories and contracts agree in every state; a suspended mint's copy is current but for the status |
| `money` | 2 factories, 4 keys, 3 fee tokens, one of them taxed and one that may fail silently, fees 0 and 2, verification after 2 mints | solvency per token, the protocol's share, no fee paid twice, nor lost but by a silent failure, nothing owed before registration; shares and status within their rules, with calls inside mints |
| `voting` | 2 holders, 2 tokens, operations in all 3 blocks, by signature too; or the same with 1 proposal | votes are the delegated balances; the past is fixed and covered by the supply; no token votes twice; burning or delegating after the vote does not change its outcome |
| `governor` | 2 proposals, one changing quorum, settings and delay and granting the canceller role; fair | governor and timelock agree; cancelled only by a granted role; `ProposalLife` implemented; what succeeded is executed or cancelled |
| `ownership` | a protocol with 2 users (one with code), 2 registries with 3 keys, an operator, an impostor and ids 0 and 1; or asset contracts with 3 keys and 2 currencies | the owner changes only by the owner, the validator or who may move the key, the identity once; money leaves to the holder of the right key, and the books are exact |
| `openzeppelin` | one of the search, a trace, a set, a map, casts, docs, releases, a migration | the search stays in bounds and in range, finds and ends; lookups exact and answers fixed; `KeyedMap` implemented and every way of reading agrees; casts keep the number; releases, docs and migrations consistent |

The runs below end in a violation that shows a disagreement between the code
and something the repository says of it; `PROJECT.json` quotes both sides.

| Run | Disagreement |
|---|---|
| `stale_status` | the struct written back at the end of `mintAssetKey` undoes a status the DAO set during the callback |
| `unregistered_owner` | before registration `onlyOwner` admits the holder of key 0 |
| `foreign_protocol` | `mintAsset` checks one slot and may write another |
| `protocol_key_zero` | after the validator has set the token id 0 the protocol is minted, yet `owner()` names the pre-mint owner, and for ever |
| `docs_rollback` | minor versions are compared as texts, so the docs of 10 are replaced by those of 9 |

Some others have no run. `withdrawMintFeeProceeds` ignores the result of
`transfer`, so a token that returns false loses its owner the fees, which
`FeesConserved` allows for such tokens and no others. The comment at
`FundiAssetFactoryProtocol.sol:267` names shares of 70% and 30%, while there are
also 10% and 60%; `ShareBounded` says of each share only that it is not below the
least nor above the largest. A factory without asset keys deploys a contract for
key 0, a factory's key, since `getAssetInfo` of that key and a slot not written yet
are both all zeroes (`FundiFactory.sol:98`); `ContractsForOwnKeys`, a part of
`RecordsAgree`, excepts that key, and no other.

**Properties with parts.** `KeysAccounted` and `RecordsAgree` are conjunctions of
invariants about one set of records, named there: consecutive keys, disjoint
kinds, exact counts and numbers; registrations, slots, the contracts in them, and
that a factory's contracts are for its own keys.

**One run for several components.** `ownership` and `openzeppelin` hold modules that
do not interact: each behaviour is of one of them, which `component` chooses at
first, and the others stand still in one of their initial states. `voting` has the
token alone as one component, and token, governor and timelock as the other. Their states add
up instead of multiplying, and each specification is checked as it stands.

**Bounds of the contracts.** `MaxTokens`: four keys give two factories an asset
each, or one factory three; three keys suffice where only movements matter. Two
factories are the least with which records or claims can be confused; `custody`
has one, since it is about accounts. `MaxAssets` is 1, or 2 where a second
contract for a key must be possible. `MinMintCount` is 5 in the source, 2 where
verification matters, and out of reach (9) where it only multiplies states.
`Amounts` has the one amount 2: withdrawals of it leave remainders, and reach
zero after some mints. `Delegates` is empty where approvals do not matter, since
an approved account only makes transfers that an owner could make.

`slots` and `money` use the symmetry of their two factories, which the same
account deployed; they check invariants only.

In governance `LastBlock` ends the run, except that blocks go on while an
operation waits; `LastProposal` and `LastOperation` end proposals and token
operations earlier. A vote in these runs begins at the next block, or with the
block of the proposal, and lasts one block, so three blocks see proposal, vote
and outcome; the source's delay of 1 and period of 272 blocks are `Nat`s here.
Quorums of one and two halves of two tokens make passing, failing for lack of
votes and a tie possible. `InitialDelay` 0 lets the
first proposal be executed while the other is still voted on, and `NewDelay` 1
makes the other wait.

The registries have keys 0 and 1 and key 1: the protocol can have a key in one
registry, in the other, in none, or the key 0 whose id also means none. One user,
who has code, calls from the callback and may be operator of the other. Three keys are a factory's and two assets' (which a
contract may confuse), and two payments show that a funder is listed.

**Bounds of OpenZeppelin's parts.** Histories of nine checkpoints pass the guess
of the search at six to nine, with square roots 2 and 3; a trace has keys of three
bits, so at most eight checkpoints, and passes the same guess. Values of one bit
tell a value from the one before, and a difference of one from none. Words have
three values and addresses two, so a word can be too wide for an address; three
entries fill a set, and the first, the middle and the last can be removed. Casts have types of
two and four bits in words of six, so there is a shorter, an equal and a longer
one to cast to. Four tags are the first version, two candidates and the final
release of one version, or a release and its patch. Two minor versions with a
patch each, and prereleases, give two jobs at once on either side of the other;
`Minors` is {8, 9} where texts compare like numbers. Two files of up to three
imports of two paths and two packages have each import twice or once.

**Deadlock** is checked but in `voting`, `governor`, `openzeppelin` and
`docs_rollback`: at the end of the chain or of the search, at the bound of
versions or tags, there is nothing left to do.

**Fairness and liveness.** The protocol acts when called and promises nothing by
itself; its specification states no fairness. The search is fair because a
call runs to its end. `FairSpec` of the governor assumes that blocks are mined
and that a proposal which can be queued or executed for good is, eventually:
both are open to everyone, so one account that cares suffices, and nobody has
a way to stop it. No vote and no proposal is assumed to happen. Scripts are run
by people and jobs by a service that may cancel them; nothing says they end.

## 5. Proofs

The theorems hold for every value of the constants that satisfies the
assumptions in the modules that declare them: any number of accounts, factories,
tokens and keys, any fees, a minimum mint count that is not 0. The set of
factories is finite, and so are the holders of Fundi tokens and of money in
asset contracts; the sets of accounts and tokens of the protocol need not be.
An assumption beyond those is written in the theorem, and a run shows that it
is needed, or the paragraph below says why it is there.

**Numbers** (`NumberProofs`). The provers have no induction over data, so what would
need it is said of sets. A sum over a set is the number of units in it: `SumSplit`,
`SumChange`, `SumMonotone` and `SumOfParts` say how sums change with their terms and
sets. A power of two is the number of subsets of a set, from which `PowerDoubles`
and `PowerGrows` follow. Where a proof by hand would go by induction on a number,
`LeastNatural` gives a least counterexample to refute.

**Types, balances, approvals** (`ProtocolProofs`). `TypeCorrect`, `BalancesExact`,
`ApprovalsEnd`. Types alone are not inductive: `_transfer` subtracts one from a
balance, which stays natural only because balances count keys. The invariant is
`TypeInv`, types and `BalancesCountKeys` together; lemma `HoldingsMove` says how
the number of keys an account holds changes when one key is given away.
`ApprovalInv` adds that a key without an owner has no approval.

**The struct of a factory** (`ProtocolProofs`). `CopyCurrent`: what a suspended mint
will write back differs from storage in the status at most.
`NoHistoryBeforeRegistration`: an unregistered factory has no mints, money or
status. Each needs the other (`StructInv`): the end of `mintAssetKey` writes to a
registered factory because the copy says so, and `verifyContract`, which does not
ask for registration, cannot reach an unregistered factory because it has no
mints. `VerificationEarned` follows from `StatusInv`, which says the rules of status
of the stored struct *and* of the copy: without the copy it would not be
inductive, since the end of a mint stores it.
`StatusKeptOutsideCallbacks` says when a decision of the DAO can be lost: only by
the end of a mint whose recipient has code. Its invariant `SuspendedStatus` is
that the copy of any other mint is the stored struct. `StatusIsOfDAO` follows for
a protocol whose recipients have no code (`Contracts = {}`), where nothing but
the DAO's two operations changes a status: the claim that `stale_status` refutes
needs exactly that assumption.

**Records** (`RecordProofs`). `EveryKeyAccounted` from three invariants:
`NumberingInv` (the suspended mint holds the next key, and a factory is told of no
more keys than there are), `KindsInv` (the key of a suspended mint belongs to no
registered factory yet, and a factory being registered knows its key) and, on
the struct alone, `CountsInv` (mint counts are numbers of keys, with the mint in
flight). `RegistrationsAgree` from
`RegistryInv`: factory and protocol name each other, but for the factory being
registered. `RecordsKept` and `OneContractForAKey` from `SlotsInv` and `DeployedInv`;
that contracts are for own keys but for key 0 needs that slots not written yet
name key 0 (`OwnKeysInv`). Both assume `OwnProtocolOnly`, that callers of `mintAsset` name the factory's own
protocol, and have to: `foreign_protocol` shows what happens otherwise.
`ProtocolImplementsLedger` is the refinement of `KeyLedger`, from the same
invariants: a mint issues the abstract key in the step in which the key
appears, and a locked key never moves.

**Money** (`MoneyProofs`). `ProtocolSolvent`: the invariant is `Solvent` itself with
`StructInv`. It counts what a suspended mint has taken in and not yet booked, or
the step that books it could not be shown to keep it; and it needs `StructInv`,
because registration changes the token a factory's fees are counted in, which is
harmless only as long as there are none. Lemmas `TotalGains` and `OwedCredits` do the
adding up. `ShareKept` counts the mint in flight likewise (`ShareInv`).
`EarnedShareBounded` and `MintFeesConserved` go by induction on the steps for one
factory; the second allows a loss for the tokens in `SilentTokens` alone, of which a
withdrawal that moves nothing is booked. `WithdrawalsAreCovered`: what a factory's owner may withdraw
by the books, the protocol's balance of that token covers. It follows from
solvency, since a registered factory has a token to be paid in (`TokensNamed`).

**The token** (`VotingProofs`). `PastStaysFixed`: the invariant `PastInv` says that
histories are sorted and that none is of a later block. `WriteContinues` is the
lemma on one checkpoint, `MoveContinues` on a move of votes, which writes two.
`VotesStayDelegated` and `SupplyStaysSum` share `SumsInv`: each operation is a change
of one balance and of one delegate, and what it adds to the votes of each
holder, the zero address excepted, is what the sum of the balances delegated to
it gains. `PastStaysCovered` adds `CoveredInv`: votes of different holders are
balances of disjoint sets of holders, so their sum is within the supply, now,
and a block keeps that when it is mined.

**Governor and timelock** (`VotingProofs`). `GovernorTimelockAgreement` and
`NoCancelWithoutGrant` from `GovernanceInv`, which adds to the agreement that a
cancelled operation shows a canceller, and a canceller an operation done that
granted the role. `OutcomeStaysFixed`: votes and quorum of a vote
that is over are those of past blocks, which do not change (`PastStaysFixed`), and
nobody votes any more. `GovernanceImplementsLife` is the refinement. Its
invariant `OutcomeInv` adds that only proposals that passed are queued
(`QueuedPassed`); without the fixed outcome that would not be inductive, and
without it a queued proposal could look defeated. `VotesAreBacked`: `BallotInv` says
that the votes cast are the sum, over those who voted, of what they had at the
start of the vote; that past is covered by the supply (`CoveredInv`).

**Ownership** (`OwnershipProofs`). `IdentityStays` needs no invariant, and `OwnerControls`
and `HolderIsPaid` need types alone (`OwnTypeOK`, `VaultTypeOK`). `OwnerFollowsKey` says
that what happens to a registry's key changes the owner only if it is the
protocol's key; so the owner changes by a call of the owner or the validator, or
in the registry by one that may move that key. The protocol's own operations are
shown to be the owner's one by one. `HolderIsOwner` assumes that there is no key 0,
and has to (`protocol_key_zero`); its invariant `MintedInv` says that a protocol
that is minted has the id of a key.
`BooksStayExact` is about sums (`BooksInv`): a payment adds to one entry of the
books, a withdrawal to what was paid out, and a new contract has neither.

**The libraries** (`LibraryProofs`). `RangeInvariant` is the invariant that the
search's source states, with types (`SearchInv`); from it `SearchReadsInBounds`,
`SearchFindsValue` and `SearchReturnsValueAt`. The square root matters only in being
between 1 and the length. `LibrariesAreMaps` is the refinement of `KeyedMap` by
sets and maps, for any types no wider than a word: the invariant (`SetInv`,
`MapInv`) says that each index kept points at its value, and the values of absent
keys are 0. `EveryReadAgrees` follows from the same. That the search ends is
liveness; `RoundsHalveTheRange` is the part of it that is a step's: each round
leaves at most half of the range.

**Casts and histories** (`LibraryProofs`). `CastsAreExact`: `CastInv` says that the
number is the original one and within its type; `SignedCast` and `UnsignedCast`, for
any width, that a conversion between types of which both have a number keeps it.
`LookupsAreExact` and `AnswersNeverChange` are about searches by recursion. Each is
a function that solves an equation: `Nearer` is written down and solves it
(`RoundSolved`), and nothing else does, by the least range on which another would
differ (`RoundUnique`). So `UpperFinds` and `LowerFinds` say that a search returns the
boundary it looks for, and `ShortcutExact` that the guess by a square root does not
matter. The invariant `TraceInv` says that keys ascend, none is of a later block,
and the trace is what was written; by `StepInserts` a push in any flavor writes at
its key or at the end, which moves no boundary of an earlier block.

**The scripts** (`ScriptProofs`). `DocsOnlyGoForward`: `DocsInv` says that a job whose
fetch is up to date is not of an older minor version than the branch, and a job
whose fetch is not is refused. It assumes `SameDigits`, that minor versions have
as many digits as each other, and `docs_rollback` shows what happens otherwise.
`MigrationIsSafe`: by `MigrateInv`, as long as a run has updated nothing, the files
it is done with have no old path; that no import changes its meaning needs that a
new path is no old one, which the source's table satisfies. `FinalReleasesStayConsistent`
is by `ReleaseInv`: `TagsInv` (a version is tagged once, and a release with
candidates before the next), `FilesInv`, `LogInv` (only the first entry of
the changelog may be undated) and `FinalInv`, what is claimed of each final tag.
`BaseIsFinal` says that the tag `update-comment.js` compares with is a final
release, and `PreviousIsBase` that it is the release before.

Only model-checked is liveness, which is out of the prover's reach: `SearchEnds`
and `SucceededIsExecuted`. The properties of the five runs that end in a violation
do not hold as the repository states them; but for `unregistered_owner`, a theorem
named above holds with what is missing added, or bounds the damage.

## 6. Not modelled

*Contracts.* `FundiAssetProtocolMetadata` generates texts and has no state. The
interfaces have no behaviour. The deployment scripts run once. The other mocks
stand in for third-party contracts that no contract of the kit calls. Of the
token, allowances and `permit` are left out. Of governance these parts are:
`updateTimelock` and `relay`, calls of a batch that enter governor or timelock
again, ether sent along, batches scheduled by a second proposer that governance
might appoint, and `_cancel`, which nothing calls. The DAO's calls to the
protocol are steps of `FundiAssetFactoryProtocol`; which proposal makes them is
not modelled. `AssetVault` takes the transfers of tokens to succeed or revert.

*OpenZeppelin's repository.* Of releases, `start major`, which differs from `start
minor` in a digit; publishing to npm with its dist-tags, which is an external
service's state; and `oz-docs`, a tool outside of the repository. Of the
migration, that `writeFile` truncates before it writes and overwrites what an
editor saved since the file was read: the script does nothing about either. Formatting of gas reports,
of the navigation and of generated sources, and settings such as
`hardhat.config.js`, are functions from files to texts and keep no state.
The contracts of OpenZeppelin that Fundi does not inherit are third-party code.
