------------------------------- MODULE ERC721 -------------------------------
(***************************************************************************)
(* The key ledger FundiAssetFactoryProtocol inherits from OpenZeppelin's   *)
(* ERC721: who owns each key, who is approved for one key or for all keys  *)
(* of an owner, and how many keys an account holds.                        *)
(*                                                                         *)
(* The module has no specification of its own: it defines the state and    *)
(* the steps on it, and FundiAssetFactoryProtocol makes actions of them.   *)
(* A call that reverts undoes all it did, so it is no step at all: every   *)
(* require is a guard.                                                     *)
(***************************************************************************)
EXTENDS Integers

CONSTANTS
    Accounts,     \* addresses that may hold keys and call the contracts
    Delegates,    \* the accounts an owner may approve, for one key or for all
    ZeroAddress,  \* address(0): the default value of an address in storage
    MaxTokens     \* BOUND: how many keys an instance mints

ASSUME AccountsAssumption ==
    /\ ZeroAddress \notin Accounts
    /\ Delegates \subseteq Accounts
    /\ MaxTokens \in Nat \ {0}

VARIABLES
    owners,            \* mapping(uint256 => address) _owners
    balances,          \* mapping(address => uint256) _balances
    tokenApprovals,    \* mapping(uint256 => address) _tokenApprovals
    operatorApprovals  \* _operatorApprovals, as the set of <<owner, operator>>

erc721Vars == <<owners, balances, tokenApprovals, operatorApprovals>>

\* Token ids are handed out from 0 upwards.
TokenIds == 0 .. MaxTokens - 1

AccountsOrZero == Accounts \cup {ZeroAddress}

ERC721TypeOK ==
    /\ owners \in [TokenIds -> AccountsOrZero]
    /\ balances \in [Accounts -> Nat]
    /\ tokenApprovals \in [TokenIds -> AccountsOrZero]
    /\ operatorApprovals \subseteq (Accounts \X Delegates)

ERC721Init ==
    /\ owners = [t \in TokenIds |-> ZeroAddress]
    /\ balances = [a \in Accounts |-> 0]
    /\ tokenApprovals = [t \in TokenIds |-> ZeroAddress]
    /\ operatorApprovals = {}

-----------------------------------------------------------------------------

Exists(t) == owners[t] # ZeroAddress

IsApprovedOrOwner(spender, t) ==
    /\ Exists(t)
    /\ \/ spender = owners[t]
       \/ <<owners[t], spender>> \in operatorApprovals
       \/ spender = tokenApprovals[t]

\* Mutant: the recipient's balance is not counted up.
MintUncounted(to, t) ==
    /\ ~Exists(t)
    /\ owners' = [owners EXCEPT ![t] = to]
    /\ UNCHANGED <<balances, tokenApprovals, operatorApprovals>>

\* _mint: a key is minted once, and never to the zero address.
Mint(to, t) ==
    /\ to # ZeroAddress
    /\ ~Exists(t)
    /\ owners' = [owners EXCEPT ![t] = to]
    /\ balances' = [balances EXCEPT ![to] = @ + 1]
    /\ UNCHANGED <<tokenApprovals, operatorApprovals>>

\* Mutants: both balances read before either is written; the approval kept.
TransferCached(to, t) ==
    /\ tokenApprovals' = [tokenApprovals EXCEPT ![t] = ZeroAddress]
    /\ balances' = [balances EXCEPT ![owners[t]] = @ - 1,
                                    ![to] = balances[to] + 1]
    /\ owners' = [owners EXCEPT ![t] = to]
    /\ UNCHANGED operatorApprovals
TransferStillApproved(to, t) ==
    /\ balances' = [balances EXCEPT ![owners[t]] = @ - 1, ![to] = @ + 1]
    /\ owners' = [owners EXCEPT ![t] = to]
    /\ UNCHANGED <<tokenApprovals, operatorApprovals>>

\* _transfer: the approval for the key does not outlive the transfer. Taking
\* from the old balance before adding to the new one matters when to = from.
Transfer(to, t) ==
    LET from == owners[t]
        debited == [balances EXCEPT ![from] = @ - 1]
    IN  /\ to # ZeroAddress
        /\ tokenApprovals' = [tokenApprovals EXCEPT ![t] = ZeroAddress]
        /\ balances' = [debited EXCEPT ![to] = @ + 1]
        /\ owners' = [owners EXCEPT ![t] = to]
        /\ UNCHANGED operatorApprovals

\* approve, with to = address(0) to take an approval back
ApproveKey(sender, to, t) ==
    /\ Exists(t)
    /\ to # owners[t]
    /\ \/ sender = owners[t]
       \/ <<owners[t], sender>> \in operatorApprovals
    /\ tokenApprovals' = [tokenApprovals EXCEPT ![t] = to]
    /\ UNCHANGED <<owners, balances, operatorApprovals>>

\* setApprovalForAll
ApproveOperator(sender, operator, approved) ==
    /\ sender # operator
    /\ operatorApprovals' =
         IF approved THEN operatorApprovals \cup {<<sender, operator>>}
                     ELSE operatorApprovals \ {<<sender, operator>>}
    /\ UNCHANGED <<owners, balances, tokenApprovals>>
=============================================================================
