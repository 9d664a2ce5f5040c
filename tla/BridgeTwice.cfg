\* Two reports of one transfer and no faults.
CONSTANTS
    Transfers = {t1}
    Calls = {c1, c2, c3}
    NoTransfer = NoTransfer
    MaxFaults = 0
SPECIFICATION Spec
INVARIANTS NeverRepeated
CHECK_DEADLOCK FALSE
SYMMETRY AnyName
