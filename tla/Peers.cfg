\* Three addresses, one of them no multiaddress; a clock that runs for four days; one crash.
\* The behaviour ends with the clock.
CONSTANTS
    Addrs = {a, b, ip}
    Multi = {a, b}
    Cleaner = cleaner
    Lifetime = 3
    LastDay = 4
    MaxDeaths = 1
SPECIFICATION PeersSpec
INVARIANTS PeersOK UnexpiredStays
PROPERTIES InactiveLeaves
CHECK_DEADLOCK FALSE
