\* Two requests that name one wallet or the vault; the Core changes balances at most twice.  The behaviour ends when they are served.
CONSTANTS
    w = w
    Wallets = {w}
    Aliases = {}
    NoName = NoName
    Senders <- MCAddresses
    Calls = {c1, c2}
    NoReq = NoReq
    Amounts = {1}
    Reports = {2}
    MaxChanges = 2
    MaxCrashes = 1
SPECIFICATION Spec
INVARIANTS TypeOK BalanceBacked CutNeedsCause
PROPERTIES KeepsBook
CHECK_DEADLOCK FALSE
SYMMETRY AnyCall
