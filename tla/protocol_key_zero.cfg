\* The validator gives the protocol the id 0.
SPECIFICATION MCSpec
CONSTANTS
    alice = alice
    wallet = wallet
    first = first
    registry = registry
    other = other
    impostor = impostor
    Users = {alice, wallet}
    CodeUsers = {wallet}
    Deployer = alice
    Registries = {registry, other}
    Impostors = {impostor}
    NoUser = NoUser
    This = This
    Keys <- MCKeys
    Operators = {wallet}
    Addresses = {"home", "docs"}
    MaxReports = 1
    Holders = {alice, wallet}
    Factories = {first}
    Currencies = {"native", "link"}
    Wealth = 2
    Payments = {1}
    VaultURIs = {"home"}
    MaxKeys = 3
    MaxVaults = 1
    MaxFunders = 2
INVARIANT
    HolderOwnsOnceMinted
