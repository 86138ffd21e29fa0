CONSTANTS
    MaxHeight = 3
    ForkHeight = 0
    Branches = {"a"}
    MainBranch = "a"
    NoBlock = NoBlock
    Tx <- MCTx
    TxsOf <- MCTxsOf
    Faults = {}
    MaxHalts = 0
SPECIFICATION FairSpec
INVARIANT IndexedBelowCursor
PROPERTY EveryBlockIndexed
