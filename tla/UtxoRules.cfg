\* Words of three bits, a consolidation costs 2.
CONSTANTS
    Coins = {1, 2, 3}
    Wallets <- MCWallets
    Transactions <- MCTransactions
    Word = 8
    Fee = 2
SPECIFICATION RulesSpec
INVARIANTS VerdictExact
PROPERTIES ConsolidationValid
CHECK_DEADLOCK FALSE
