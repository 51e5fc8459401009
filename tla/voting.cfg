\* Two holders, two tokens, three blocks, any number of operations in each: the
\* token by itself, with delegations by signature, or with one proposal, whose
\* calls revert, and tokens moved, burnt and delegated before, during and after
\* its vote.  After LastBlock nothing need happen any more.
SPECIFICATION MCSpec
CHECK_DEADLOCK FALSE
CONSTANTS
    ann = ann
    ben = ben
    p = p
    q = q
    Holders = {ann, ben}
    InitialHolder = ann
    NoDelegate = NoDelegate
    Supply = 2
    Amounts = {1, 2}
    Signatures <- MCSignatures
    BlockTimes = {1}
    FirstBlock = 1
    FirstTime = 2
    LastBlock = 3
    Proposals = {q}
    Calls <- MCFailing
    InitialDelay = 1
    NewDelay = 0
    Guardian = ben
    InitialSettings <- MCQuickSettings
    NewSettings <- MCNewSettings
    InitialQuorum = 2
    NewQuorum = 2
    QuorumDenominator = 2
    LastProposal = 1
    LastOperation = 3
INVARIANTS
    VotesAreDelegated
    SupplyIsSum
    PastVotesCovered
    VotesBackedBySupply
PROPERTIES
    PastIsFixed
    OutcomeFixed
