\* Two factories, the second not registered yet.
SPECIFICATION Spec
CONSTANTS
    alice = alice
    bob = bob
    wallet = wallet
    first = first
    second = second
    link = link
    taxed = taxed
    NewURI = NewURI
    OtherProtocol = OtherProtocol
    Accounts = {alice, wallet}
    Delegates = {}
    ZeroAddress = ZeroAddress
    MaxTokens = 2
    Factories = {first, second}
    Creator <- MCCreator
    OwnProtocol = OwnProtocol
    OtherProtocols = {}
    URIs = {InitialURI, NewURI}
    InitialURI = InitialURI
    MaxAssets = 0
    MaxAudits = 0
    Contracts = {}
    DAO = DAO
    FundiToken = FundiToken
    FeeTokens = {FundiToken}
    TaxedTokens = {}
    SilentTokens = {}
    MintFees = {0}
    FundiMintFee = 10
    FactoryFee = 20
    MinMintCount = 9
    Amounts = {}
PROPERTIES
    UriChangedByFactoryOwner
