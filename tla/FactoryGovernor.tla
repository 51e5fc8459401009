-------------------------- MODULE FactoryGovernor --------------------------
(***************************************************************************)
(* FactoryGovernor: proposals voted on with FundiToken's votes as they     *)
(* were when the vote began, queued in the timelock and executed by it.    *)
(* The governor's own functions take calls from the timelock only while    *)
(* the governor executes a proposal (_governanceCall), so a batch that     *)
(* calls the governor reverts when someone has the timelock execute it     *)
(* directly.  A call that reverts is no step.                              *)
(***************************************************************************)
EXTENDS VotingToken, FactoryTimelock

CONSTANTS
    InitialSettings, NewSettings,        \* votingDelay, votingPeriod, threshold
    InitialQuorum, NewQuorum, QuorumDenominator,
    LastProposal, \* bound: no proposals after this block
    LastOperation \* bound: no token operations after this block

ASSUME GovernorAssumption ==
    /\ {InitialSettings, NewSettings} \subseteq
          [votingDelay : Nat, votingPeriod : Nat \ {0}, proposalThreshold : Nat]
    /\ {InitialQuorum, NewQuorum} \subseteq 0..QuorumDenominator
    /\ QuorumDenominator \in Nat \ {0}

VARIABLES
    proposals,       \* ProposalCore: voteStart, voteEnd, executed
    proposalVotes,   \* votes by support
    hasVoted,
    timelockIds,     \* the proposals that were queued
    settings,
    quorumHistory    \* checkpoints of the quorum's numerator
governorVars == <<proposals, proposalVotes, hasVoted, timelockIds, settings, quorumHistory>>
ballotVars == <<proposalVotes, hasVoted>>
vars == <<clockVars, tokenVars, timelockVars, governorVars>>

VoteType == {"Against", "For", "Abstain"}

GovernorInit ==
    /\ proposals = [p \in Proposals |-> [voteStart |-> 0, voteEnd |-> 0, executed |-> FALSE]]
    /\ proposalVotes = [p \in Proposals |-> [s \in VoteType |-> 0]]
    /\ hasVoted = [p \in Proposals |-> {}]
    /\ timelockIds = {}
    /\ settings = InitialSettings
    /\ quorumHistory = WriteCheckpoint(<< >>, FirstBlock, InitialQuorum)

\* Mutant: the quorum of now counts for every proposal.
QuorumNow(block) ==
    (Latest(supplyCheckpoints) * Latest(quorumHistory)) \div QuorumDenominator

Quorum(block) ==
    (PastTotalSupply(block) * ValueAt(quorumHistory, block)) \div QuorumDenominator

\* The For and Abstain votes make the quorum; For must outnumber Against.
Passed(p) ==
    LET votes == proposalVotes[p]
    IN  /\ Quorum(proposals[p].voteStart) <= votes["For"] + votes["Abstain"]
        /\ votes["For"] > votes["Against"]

\* Mutant: does not ask whether the timelock ran the operation.
StateUnaware(p) ==
    IF proposals[p].executed THEN "Executed"
    ELSE IF proposals[p].voteStart = 0 THEN "Unknown"
    ELSE IF proposals[p].voteStart >= blockNumber THEN "Pending"
    ELSE IF proposals[p].voteEnd >= blockNumber THEN "Active"
    ELSE IF ~Passed(p) THEN "Defeated"
    ELSE IF p \notin timelockIds THEN "Succeeded"
    ELSE IF IsOperationPending(p) THEN "Queued"
    ELSE "Canceled"

\* state: the first that applies, in this order.  No path sets canceled.
State(p) ==
    IF proposals[p].executed THEN "Executed"
    ELSE IF proposals[p].voteStart = 0 THEN "Unknown"
    ELSE IF proposals[p].voteStart >= blockNumber THEN "Pending"
    ELSE IF proposals[p].voteEnd >= blockNumber THEN "Active"
    ELSE IF ~Passed(p) THEN "Defeated"
    ELSE IF p \notin timelockIds THEN "Succeeded"
    ELSE IF IsOperationDone(p) THEN "Executed"
    ELSE IF IsOperationPending(p) THEN "Queued"
    ELSE "Canceled"

\* Whoever had the votes at the last block may propose; a batch once only.
Propose(proposer, p) ==
    LET snapshot == blockNumber + settings.votingDelay
    IN  /\ blockNumber <= LastProposal
        /\ PastVotes(proposer, blockNumber - 1) >= settings.proposalThreshold
        /\ proposals[p].voteStart = 0
        /\ proposals' = [proposals EXCEPT ![p].voteStart = snapshot,
                             ![p].voteEnd = snapshot + settings.votingPeriod]
        /\ UNCHANGED <<ballotVars, timelockIds, settings, quorumHistory,
                       clockVars, tokenVars, timelockVars>>

\* Mutant: counts the votes the voter has now.
CastVoteNow(voter, p, support) ==
    /\ State(p) = "Active"
    /\ voter \notin hasVoted[p]
    /\ hasVoted' = [hasVoted EXCEPT ![p] = @ \cup {voter}]
    /\ proposalVotes' = [proposalVotes EXCEPT ![p][support] = @ + Latest(checkpoints[voter])]
    /\ UNCHANGED <<proposals, timelockIds, settings, quorumHistory,
                   clockVars, tokenVars, timelockVars>>

\* Sent by the voter or by anyone with the voter's signature.
CastVote(voter, p, support) ==
    /\ State(p) = "Active"
    /\ voter \notin hasVoted[p]
    /\ hasVoted' = [hasVoted EXCEPT ![p] = @ \cup {voter}]
    /\ proposalVotes' = [proposalVotes EXCEPT
                            ![p][support] = @ + PastVotes(voter, proposals[p].voteStart)]
    /\ UNCHANGED <<proposals, timelockIds, settings, quorumHistory,
                   clockVars, tokenVars, timelockVars>>

Queue(p) ==
    /\ State(p) = "Succeeded"
    /\ timelockIds' = timelockIds \cup {p}
    /\ Schedule(p, minDelay)
    /\ UNCHANGED <<proposals, ballotVars, settings, quorumHistory, clockVars, tokenVars>>

\* Mutant: forgets that a queued proposal is the one to execute.
ExecuteProposalUnqueued(p) ==
    /\ State(p) = "Succeeded"
    /\ proposals' = [proposals EXCEPT ![p].executed = TRUE]
    /\ ExecuteBatch(p)
    /\ UNCHANGED <<settings, quorumHistory, ballotVars, timelockIds, clockVars, tokenVars>>

\* The governor executes: its own functions accept the calls of the batch.
ExecuteProposal(p) ==
    /\ State(p) \in {"Succeeded", "Queued"}
    /\ proposals' = [proposals EXCEPT ![p].executed = TRUE]
    /\ ExecuteBatch(p)
    /\ settings' = IF "setSettings" \in Calls[p] THEN NewSettings ELSE settings
    /\ quorumHistory' = IF "setQuorum" \in Calls[p]
                        THEN WriteCheckpoint(quorumHistory, blockNumber, NewQuorum)
                        ELSE quorumHistory
    /\ UNCHANGED <<ballotVars, timelockIds, clockVars, tokenVars>>

\* Mutant: the governor does not ask whether it is executing.
ExecuteOperationUnasked(p) ==
    /\ ExecuteBatch(p)
    /\ settings' = IF "setSettings" \in Calls[p] THEN NewSettings ELSE settings
    /\ UNCHANGED <<proposals, ballotVars, timelockIds, quorumHistory, clockVars, tokenVars>>

\* Anyone has the timelock execute, past the governor.
ExecuteOperation(p) ==
    /\ Calls[p] \cap ToGovernor = {}
    /\ ExecuteBatch(p)
    /\ UNCHANGED <<governorVars, clockVars, tokenVars>>

CancelByRole(p) ==
    /\ CancelOperation(Guardian, p)
    /\ UNCHANGED <<governorVars, clockVars, tokenVars>>

\* After LastBlock blocks are mined only for an operation that waits for its time.
MineBlock ==
    /\ \/ blockNumber < LastBlock
       \/ \E p \in Proposals : IsOperationPending(p) /\ ~IsOperationReady(p)
    /\ \E seconds \in BlockTimes : Mine(seconds)
    /\ UNCHANGED <<tokenVars, timelockVars, governorVars>>

Init == ChainInit /\ TokenInit /\ TimelockInit /\ GovernorInit

Next ==
    \/ \E p \in Proposals :
          \/ \E a \in Holders : Propose(a, p)
          \/ \E a \in Holders, s \in VoteType : CastVote(a, p, s)
          \/ Queue(p)
          \/ ExecuteProposal(p)
          \/ ExecuteOperation(p)
          \/ CancelByRole(p)
    \/ /\ blockNumber <= LastOperation
       /\ TokenOperation
       /\ UNCHANGED <<timelockVars, governorVars>>
    \/ MineBlock

Spec == Init /\ [][Next]_vars

(***************************************************************************)
(* Blocks are mined, and someone queues and executes what can be: neither  *)
(* needs a role, so it takes only one account that cares.                  *)
(***************************************************************************)
FairSpec ==
    /\ Spec
    /\ WF_vars(MineBlock)
    /\ \A p \in Proposals : WF_vars(Queue(p)) /\ WF_vars(ExecuteProposal(p))
-----------------------------------------------------------------------------
(***************************************************************************)
(* The types.                                                              *)
(***************************************************************************)
GovernorTypeOK ==
    /\ TokenTypeOK
    /\ proposals \in [Proposals -> [voteStart : Nat, voteEnd : Nat, executed : BOOLEAN]]
    /\ proposalVotes \in [Proposals -> [VoteType -> Nat]]
    /\ hasVoted \in [Proposals -> SUBSET Holders]
    /\ timelockIds \in SUBSET Proposals
    /\ settings \in {InitialSettings, NewSettings}
    /\ quorumHistory \in History /\ Sorted(quorumHistory)
    /\ timestamps \in [Proposals -> Nat]
    /\ minDelay \in {InitialDelay, NewDelay}
    /\ cancellers \in SUBSET {Guardian}

(***************************************************************************)
(* The votes cast on a proposal never exceed the supply at its start: no   *)
(* token votes twice, however it is transferred and delegated while the    *)
(* vote is on (_castVote reads the votes at voteStart).                    *)
(***************************************************************************)
VotesBackedBySupply ==
    \A p \in Proposals :
        hasVoted[p] # {} =>
            proposalVotes[p]["Against"] + proposalVotes[p]["For"] + proposalVotes[p]["Abstain"]
                <= PastTotalSupply(proposals[p].voteStart)

(***************************************************************************)
(* Governor and timelock agree: what the governor executed the timelock    *)
(* did, the timelock holds nothing that was not queued by the governor,    *)
(* and a batch with calls to the governor is done only if the governor     *)
(* executed it (onlyGovernance).                                           *)
(***************************************************************************)
GovernorAndTimelockAgree ==
    \A p \in Proposals :
        /\ proposals[p].executed => IsOperationDone(p)
        /\ IsOperation(p) => p \in timelockIds
        /\ IsOperationDone(p) /\ Calls[p] \cap ToGovernor # {} => proposals[p].executed

(***************************************************************************)
(* As LocalDeployFundiMock sets the roles up, nothing is cancelled unless  *)
(* an executed proposal has granted someone the role for it.               *)
(***************************************************************************)
CanceledByGrantedRole ==
    (\E p \in Proposals : State(p) = "Canceled") =>
        \E q \in Proposals : IsOperationDone(q) /\ "grantCanceller" \in Calls[q]

(***************************************************************************)
(* When a vote is over its outcome is fixed: neither tokens burnt, moved   *)
(* or delegated later nor a new quorum make a proposal pass or fail.       *)
(***************************************************************************)
OutcomeFixed ==
    [][\A p \in Proposals :
          proposals[p].voteStart # 0 /\ proposals[p].voteEnd < blockNumber
             => Passed(p)' = Passed(p)]_vars

(***************************************************************************)
(* A proposal goes through its stages as ProposalLife says: executed once, *)
(* after it succeeded and the notice it was queued with.                   *)
(***************************************************************************)
Life == INSTANCE ProposalLife WITH
    Notice <- IF NewDelay < InitialDelay THEN NewDelay ELSE InitialDelay,
    stage <- [p \in Proposals |-> State(p)],
    eta <- [p \in Proposals |-> IF IsOperationPending(p) THEN timestamps[p] ELSE 0],
    now <- timestamp
ImplementsProposalLife == Life!LifeSpec

(***************************************************************************)
(* A proposal that succeeded is executed, unless its calls revert or the   *)
(* holder of a role granted by governance cancels it.                      *)
(***************************************************************************)
SucceededIsExecuted ==
    \A p \in {q \in Proposals : "reverts" \notin Calls[q]} :
        State(p) = "Succeeded" ~> State(p) \in {"Executed", "Canceled"}
=============================================================================
