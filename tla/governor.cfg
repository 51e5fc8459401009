\* Two proposals, one of them about governance itself; votes delegated in the
\* first block.  Mining, queueing and execution are fair.  After LastBlock
\* nothing need happen any more.
SPECIFICATION FairSpec
CHECK_DEADLOCK FALSE
CONSTANTS
    ann = ann
    ben = ben
    p = p
    q = q
    Holders = {ann, ben}
    InitialHolder = ann
    NoDelegate = NoDelegate
    Supply = 2
    Amounts = {1}
    Signatures = {}
    BlockTimes = {1}
    FirstBlock = 1
    FirstTime = 2
    LastBlock = 6
    Proposals = {p, q}
    Calls <- MCReforms
    InitialDelay = 0
    NewDelay = 1
    Guardian = ben
    InitialSettings <- MCSettings
    NewSettings <- MCNewSettings
    InitialQuorum = 1
    NewQuorum = 2
    QuorumDenominator = 2
    LastProposal = 3
    LastOperation = 1
INVARIANTS
    GovernorAndTimelockAgree
    CanceledByGrantedRole
PROPERTIES
    ImplementsProposalLife
    SucceededIsExecuted
