CONSTANTS
    MaxHeight = 2
    ForkHeight = 0
    Branches = {"a"}
    MainBranch = "a"
    NoBlock = NoBlock
    Tx <- MCTx
    TxsOf <- MCTxsOf
    Faults = {"crash", "rpcError", "rpcDown", "dbError", "dbDown"}
    MaxHalts = 2
SPECIFICATION FairSpec
INVARIANT NeverFarAhead
PROPERTY CursorPassesEveryHeight
