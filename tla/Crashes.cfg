CONSTANTS
    MaxHeight = 3
    ForkHeight = 0
    Branches = {"a"}
    MainBranch = "a"
    NoBlock = NoBlock
    Tx <- MCTx
    TxsOf <- MCTxsOf
    Faults = {"crash", "rpcDown"}
    MaxHalts = 3
SPECIFICATION Spec
INVARIANT AtMostOneGap
INVARIANT TxAfterBlock
INVARIANT OneHalfIndexedPerHalt
PROPERTY ImplementsIndexer
