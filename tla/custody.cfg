\* Who holds the keys: a contract account and an ordinary one trade and approve
\* keys of a factory and of its assets, inside mints as well, and the DAO flags
\* the factory.
SPECIFICATION Spec
CONSTANTS
    alice = alice
    bob = bob
    wallet = wallet
    first = first
    second = second
    link = link
    taxed = taxed
    NewURI = NewURI
    OtherProtocol = OtherProtocol
    Accounts = {alice, wallet}
    Delegates = {wallet}
    ZeroAddress = ZeroAddress
    MaxTokens = 3
    Factories = {first}
    Creator <- MCSingle
    OwnProtocol = OwnProtocol
    OtherProtocols = {}
    URIs = {InitialURI, NewURI}
    InitialURI = InitialURI
    MaxAssets = 1
    MaxAudits = 1
    Contracts = {wallet}
    DAO = DAO
    FundiToken = FundiToken
    FeeTokens = {FundiToken}
    TaxedTokens = {}
    SilentTokens = {}
    MintFees = {0}
    FundiMintFee = 10
    FactoryFee = 20
    MinMintCount = 9
    Amounts = {}
INVARIANTS
    TypeOK
    BalancesCountKeys
PROPERTIES
    ImplementsKeyLedger
    ApprovalsEndWithOwnership
    StatusLostOnlyInCallback
