\* Two requests while four blocks are crawled, with one crash.  The behaviour ends when all is served.
CONSTANTS
    v = v
    w = w
    u = u
    Wallets = {v, w}
    Aliases = {u}
    NoName = NoName
    Parties <- MCParties
    Queries <- MCQueries
    Calls = {c1, c2}
    Limit = 2
    MaxCrashes = 1
SPECIFICATION Spec
INVARIANTS TypeOK NothingLost
CHECK_DEADLOCK FALSE
SYMMETRY AnyCall
