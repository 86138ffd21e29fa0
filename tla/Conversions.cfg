CONSTANTS
    Names = {"method", "params", "id", "1", "7", "getblockcount", "getblockbynumber",
             "gettransaction", "ab"}
    Numbers = {"#1", "#7"}
    NumberOf <- MCNumberOf
    IntSize = 128
    PerSecond = 5
    MaxBytes = 4
    MaxChars = 5
    MaxSections = 2
    MaxTokens = 8
    MaxIO = 3
    Logins <- MCLogins
    CodedTexts <- MCCodedTexts
    ByteStrings <- MCByteStrings
    Sections <- MCSections
    Files <- MCFiles
    Replies <- MCReplies
    TxInputs <- MCTxInputs
    TxOutputs <- MCTxOutputs
    Transactions <- MCTransactions
    Times <- MCTimes
    Rounds <- MCRounds
    Garbage = Garbage
    Jobs = {"login", "base64", "string", "config", "request", "json", "blocks", "tx", "sleep"}
SPECIFICATION Spec
INVARIANT PointersValid
INVARIANT ReadsWhatIsWritten
INVARIANT ThrowsAtFirstWrongToken
INVARIANT LoginRoundTrip
INVARIANT Base64AcceptsOnlyEncodings
INVARIANT StringRoundTrip
INVARIANT SettingsOfFirstSection
INVARIANT RequestUnderstood
INVARIANT BlockFromOneReply
INVARIANT NonceDistinct
INVARIANT DocumentedReplyStored
INVARIANT MintTyped
INVARIANT SleepBounded
\* A job is done once.
CHECK_DEADLOCK FALSE
