\* A recipient with code changes a status inside a mint.
SPECIFICATION Spec
CONSTANTS
    alice = alice
    bob = bob
    wallet = wallet
    first = first
    second = second
    link = link
    taxed = taxed
    NewURI = NewURI
    OtherProtocol = OtherProtocol
    Accounts = {wallet}
    Delegates = {}
    ZeroAddress = ZeroAddress
    MaxTokens = 2
    Factories = {first}
    Creator <- MCWalletSingle
    OwnProtocol = OwnProtocol
    OtherProtocols = {}
    URIs = {InitialURI}
    InitialURI = InitialURI
    MaxAssets = 0
    MaxAudits = 0
    Contracts = {wallet}
    DAO = DAO
    FundiToken = FundiToken
    FeeTokens = {FundiToken}
    TaxedTokens = {}
    SilentTokens = {}
    MintFees = {0}
    FundiMintFee = 10
    FactoryFee = 20
    MinMintCount = 9
    Amounts = {}
PROPERTIES
    StatusChangedByDAO
