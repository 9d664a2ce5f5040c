\* Three submissions, a queue of two, two failures, under the fairness of the loop.
CONSTANTS
    TxIds = {1, 2, 3}
    Addrs = {a1}
    Aliases = {u1}
    MaxSize = 2
    MaxFaults = 2
    NoValue = NoValue
SPECIFICATION FairSpec
INVARIANTS TypeOK FaultFreeFIFO RecipientFixed
PROPERTIES NoSilentLoss EventuallySettled KeepsPromise
