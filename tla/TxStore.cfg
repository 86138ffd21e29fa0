CONSTANTS
    Tx <- MCTx
    NumOutputs <- MCNumOutputs
    Inputs <- MCInputs
    Coinbase = Coinbase
    Garbage = Garbage
    DbErrors = TRUE
    MaxCalls = 4
SPECIFICATION Spec
INVARIANT TypeOK
INVARIANT DetailsOnce
INVARIANT AmountFromOwnTx
INVARIANT SingleInputRight
\* insertTx() has been called MaxCalls times.
CHECK_DEADLOCK FALSE
