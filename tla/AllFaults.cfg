CONSTANTS
    MaxHeight = 2
    ForkHeight = 0
    Branches = {"a", "b"}
    MainBranch = "a"
    NoBlock = NoBlock
    Tx <- MCTx
    TxsOf <- MCTxsOf
    Faults = {"crash", "rpcError", "rpcDown", "dbError", "dbDown", "reorg"}
    MaxHalts = 1
SPECIFICATION Spec
INVARIANT TypeOK
INVARIANT OneDbUser
INVARIANT ConfigLoginOnly
INVARIANT SecondBlockNeedsGaps
PROPERTY CursorNeverBack
PROPERTY ImplementsIndexer
