\* Two factories, that may charge their mint fee in the same token, in
\* different ones, in one that delivers less than it should, or in one whose
\* transfer may fail without reverting, flagged and verified in between.
SPECIFICATION Spec
SYMMETRY MCFactorySymmetry
CONSTANTS
    alice = alice
    bob = bob
    wallet = wallet
    first = first
    second = second
    link = link
    taxed = taxed
    NewURI = NewURI
    OtherProtocol = OtherProtocol
    Accounts = {wallet}
    Delegates = {}
    ZeroAddress = ZeroAddress
    MaxTokens = 4
    Factories = {first, second}
    Creator <- MCWallet
    OwnProtocol = OwnProtocol
    OtherProtocols = {}
    URIs = {InitialURI}
    InitialURI = InitialURI
    MaxAssets = 0
    MaxAudits = 0
    Contracts = {wallet}
    DAO = DAO
    FundiToken = FundiToken
    FeeTokens = {FundiToken, link, taxed}
    TaxedTokens = {taxed}
    SilentTokens = {link}
    MintFees = {0, 2}
    FundiMintFee = 10
    FactoryFee = 20
    MinMintCount = 2
    Amounts = {2}
INVARIANTS
    Solvent
    ProtocolShareKept
    FeesConserved
    UnregisteredHasNoHistory
    ShareBounded
    VerificationStands
