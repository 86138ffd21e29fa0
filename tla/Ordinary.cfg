CONSTANTS
    Names = {"method", "params", "id", "1", "7", "getblockcount", "getblockbynumber",
             "gettransaction", "ab"}
    Numbers = {"#1", "#7"}
    NumberOf <- MCNumberOf
    IntSize = 128
    PerSecond = 5
    MaxBytes = 4
    MaxChars = 5
    MaxSections = 2
    MaxTokens = 8
    MaxIO = 3
    Logins <- MCLogins
    CodedTexts <- MCCodedTexts
    ByteStrings <- MCByteStrings
    Sections <- MCSections
    Files <- MCFiles
    Replies <- MCReplies
    TxInputs <- MCTxInputs
    TxOutputs <- MCTxOutputs
    Transactions <- MCTransactions
    Times <- MCTimes
    Rounds <- MCRounds
    Garbage = Garbage
    Jobs = {"tx"}
SPECIFICATION Spec
INVARIANT OrdinaryIsTransfer
CHECK_DEADLOCK FALSE
