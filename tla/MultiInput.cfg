CONSTANTS
    Tx <- MCTx
    NumOutputs <- MCNumOutputs
    Inputs <- MCInputs
    Coinbase = Coinbase
    Garbage = Garbage
    DbErrors = FALSE
    MaxCalls = 3
SPECIFICATION Spec
INVARIANT AmountOfPrevout
\* insertTx() has been called MaxCalls times.
CHECK_DEADLOCK FALSE
