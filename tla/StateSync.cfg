\* Three blocks, the first already indexed by an older version; histories of two
\* entries, a shelf at the third block; handlers store keys of bob.
CONSTANTS
    Chain <- MCChain
    alice = alice
    bob = bob
    market = market
    v1 = v1
    pet = pet
    Addrs = {alice, bob, market}
    Miners = {v1}
    ShortNames = {}
    ShortAliases = {v1}
    TxIds = {1, 2, 3, 4, 5}
    Assets = {pet}
    MarketAddress = market
    Genesis = 0
    NoValue = NoValue
    ShelfEvery = 3
    SentinelFrom = 3
    HistoryCap = 2
    LegacyHeight = 1
    Visitors = {bob}
    Answers <- MCAnswers
    MaxFaults = 2
SPECIFICATION FairSpec
INVARIANTS TypeOK IndexComplete AccountFresh SoldStaysSold HistoryExact
PROPERTIES NeverSkips CatchesUp
