\* Reports of two transfers; the behaviour ends when they are answered.
CONSTANTS
    Transfers = {t1, t2}
    Calls = {c1, c2, c3, c4}
    NoTransfer = NoTransfer
    MaxFaults = 2
SPECIFICATION Spec
INVARIANTS TypeOK MarkedWasReleased ReleasedOnce
PROPERTIES SuccessIsFinal
CHECK_DEADLOCK FALSE
SYMMETRY AnyName
