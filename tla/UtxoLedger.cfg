\* Three requests over two pieces.  The behaviour ends when they are served.
CONSTANTS
    alice = alice
    bob = bob
    g = g
    Addrs = {alice, bob}
    Calls = {c1, c2, c3}
    GenesisTx = {g}
    Genesis <- MCGenesis
    Payments <- MCPayments
    Moves <- MCMoves
    NoId = NoId
    NoReq = NoReq
    Word = 8
    MaxCrashes = 1
SPECIFICATION Spec
INVARIANTS TypeOK NothingVanishes NeverPoorer
PROPERTIES KeepsLedger
CHECK_DEADLOCK FALSE
SYMMETRY AnyCall
