CONSTANTS
    MaxHeight = 2
    ForkHeight = 0
    Branches = {"a", "b"}
    MainBranch = "a"
    NoBlock = NoBlock
    Tx <- MCTx
    TxsOf <- MCTxsOf
    Faults = {"reorg"}
    MaxHalts = 0
SPECIFICATION Spec
INVARIANT StatusOkHasBlock
