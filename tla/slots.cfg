\* Two factories with keys for two assets: the records that the protocol and
\* the factories keep of each other.  One contract account does everything.
SPECIFICATION Spec
SYMMETRY MCFactorySymmetry
CONSTANTS
    alice = alice
    bob = bob
    wallet = wallet
    first = first
    second = second
    link = link
    taxed = taxed
    NewURI = NewURI
    OtherProtocol = OtherProtocol
    Accounts = {wallet}
    Delegates = {}
    ZeroAddress = ZeroAddress
    MaxTokens = 4
    Factories = {first, second}
    Creator <- MCWallet
    OwnProtocol = OwnProtocol
    OtherProtocols = {}
    URIs = {InitialURI}
    InitialURI = InitialURI
    MaxAssets = 2
    MaxAudits = 0
    Contracts = {wallet}
    DAO = DAO
    FundiToken = FundiToken
    FeeTokens = {FundiToken}
    TaxedTokens = {}
    SilentTokens = {}
    MintFees = {0}
    FundiMintFee = 10
    FactoryFee = 20
    MinMintCount = 9
    Amounts = {}
INVARIANTS
    KeysAccounted
    RecordsAgree
    SuspendedCopyCurrent
    OneContractPerKey
