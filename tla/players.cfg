SPECIFICATION Spec
CONSTANTS
    studio = studio
    g1 = g1
    g2 = g2
    c1 = c1
    c2 = c2
    r1 = r1
    r2 = r2
    a1 = a1
    a2 = a2
    coin = coin
    gem = gem
    p1 = p1
    p2 = p2
    noAddress = noAddress
    w1 = w1
    w2 = w2
    Studios = {studio}
    Games = {g1, g2}
    Collections = {c1, c2}
    Resources = {r1}
    Currencies = {coin, gem}
    Addresses = {p1, p2, noAddress}
    WellFormed = {p1, p2}
    MetalCoreGames = {g1}
    CurrenciesOf <- MCCurrenciesOf
    ResourceTokens = {1}
    NoTokenId = NoTokenId
    Accounts = {a1, a2}
    Wallets = {w1, w2}
    NoWallet = NoWallet
    Amounts = {1, 2}
    Requests = {q1, q2, q3}
    NoUser = NoUser
    MaxFaults = 1
    Jobs = {j1, j2, j3}
    Quantities = {1, 2}
    Deposits <- MCDeposits
    NoDoc = NoDoc
    Starts <- MCStarts
SYMMETRY Symmetry
INVARIANTS
    TypeOK
    CatalogSound
    
    ExactWhenAlone
    OneUserPerWallet
    StrandedOnlyByFailure
    BalanceIsItsHistory
    NeverOverspent
    TxCountedOnce
    SplitOnlyByRace
PROPERTY
    WalletKept
CHECK_DEADLOCK FALSE
