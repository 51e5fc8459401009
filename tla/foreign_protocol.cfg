\* A caller of mintAsset may name a protocol that is not the one of the factory.
SPECIFICATION Spec
CONSTANTS
    alice = alice
    bob = bob
    wallet = wallet
    first = first
    second = second
    link = link
    taxed = taxed
    NewURI = NewURI
    Accounts = {alice}
    Delegates = {}
    ZeroAddress = ZeroAddress
    MaxTokens = 3
    Factories = {first}
    Creator <- MCSingle
    OwnProtocol = OwnProtocol
    OtherProtocols = {OtherProtocol}
    URIs = {InitialURI}
    InitialURI = InitialURI
    MaxAssets = 2
    MaxAudits = 0
    Contracts = {}
    DAO = DAO
    FundiToken = FundiToken
    FeeTokens = {FundiToken}
    TaxedTokens = {}
    SilentTokens = {}
    MintFees = {0}
    FundiMintFee = 10
    FactoryFee = 20
    MinMintCount = 9
    Amounts = {}
    OtherProtocol = OtherProtocol
INVARIANTS
    OneContractPerKey
