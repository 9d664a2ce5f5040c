\* Two requests over two assets, listed twice: sales and repairs.  The behaviour ends when they are served.
CONSTANTS
    w = w
    a = a
    b = b
    Wallets = {w}
    Aliases = {u}
    NoName = NoName
    Assets = {a, b}
    Calls = {c1, c2}
    Buyers <- MCAddresses
    Purchases <- MCPurchases
    MaxListings = 2
    MaxFaults = 1
SPECIFICATION Spec
INVARIANTS TypeOK ListedIsStored OwnerSeesAll SoldIsOffShelf PaidOncePerListing
CHECK_DEADLOCK FALSE
SYMMETRY AnyCall
