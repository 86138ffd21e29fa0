CONSTANTS
    MaxHeight = 2
    ForkHeight = 0
    Branches = {"a"}
    MainBranch = "a"
    NoBlock = NoBlock
    Tx <- MCTx
    TxsOf <- MCTxsOf
    Faults = {"crash"}
    MaxHalts = 1
SPECIFICATION Spec
INVARIANT NoHeightLeftOut
