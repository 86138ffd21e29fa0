--------------------------- MODULE MCConversions ---------------------------
(***************************************************************************)
(* Words that spell a number, for the commands' heights and hashes, and    *)
(* the inputs of Records and of Texts.                                     *)
(***************************************************************************)
EXTENDS Conversions

CONSTANTS
    MaxIO,   \* inputs and outputs of a transaction
    MaxBytes, MaxChars, MaxSections   \* lengths of the inputs of Texts

ASSUME BoundAssumption == {MaxIO, MaxBytes, MaxChars, MaxSections} \subseteq Nat

MCNumberOf == ("1" :> "#1") @@ ("7" :> "#7")

Txs(k) == JsonArray(<<JsonValue("str", k), JsonValue("str", k + 1)>>)
Reply(names, k) ==
    [type |-> "obj",
     members |-> [f \in names |-> IF f = "tx" THEN Txs(k) ELSE JsonValue(TypeOf(f), k)]]

Nonces == {0, IntSize \div 2 - 1, IntSize \div 2, IntSize - 1}

\* Replies of payload k: whole, with the next block's hash, one member less,
\* one of another type, with another nonce, or no object at all.
RepliesOf(k) ==
    {Reply(Shown, k), Reply(Shown \cup {"nextblockhash"}, k), [type |-> "null", members |-> <<>>]}
    \cup {Reply(Shown \ {f}, k) : f \in Shown}
    \cup {[Reply(Shown, k) EXCEPT !.members[f] = JsonNull] : f \in Shown}
    \cup {[Reply(Shown, k) EXCEPT !.members["tx"] = JsonArray(<<JsonValue("int", k)>>)]}
    \cup {[Reply(Shown, k) EXCEPT !.members["nonce"].v = n] : n \in Nonces}

MCReplies == RepliesOf(2) \cup RepliesOf(3)

\* The chain's transactions have an output at least, and either one input, the
\* coinbase, or inputs that all spend an output.
CoinbaseIn == "coinbase" :> JsonValue("str", 5)
PrevoutIn == ("txid" :> JsonValue("str", 6)) @@ ("vout" :> JsonValue("int", 0))
MCTxInputs == {CoinbaseIn, PrevoutIn}
MCTxOutputs == {"value" :> JsonValue("real", a) : a \in {0, 3}}
VinArrays == {<<CoinbaseIn>>} \cup {[i \in 1..n |-> PrevoutIn] : n \in 1..MaxIO}
VoutArrays == UNION {[1..n -> MCTxOutputs] : n \in 1..MaxIO}
MCTransactions == [vin : VinArrays, vout : VoutArrays]

MCTimes == {0, 1, 3, 9} \cup {-(IntSize \div 2), -1, IntSize \div 2 - 1}
MCRounds == (-(IntSize \div 16))..(IntSize \div 4)

-----------------------------------------------------------------------------

MCLogins == SeqOf({0, 1, 127, 128, 255}, MaxBytes)
MCCodedTexts == SeqOf({65, 66, 81, 47, Pad, 45}, MaxChars)             \* A B Q / = -
MCByteStrings == SeqOf({Quote, Backslash, 117, 48, 10, 1, 200, 65}, MaxBytes)

\* A section has all its keys, or one of them is empty or missing.
SectionsNamed(n) ==
    LET Full(v) == [name |-> n, items |-> [k \in KeysOf(n) |-> v]]
    IN {Full(v) : v \in {"a", "b"}}
       \cup {[Full("a") EXCEPT !.items[k] = ""] : k \in KeysOf(n)}
       \cup {[name |-> n, items |-> [j \in KeysOf(n) \ {k} |-> "b"]] : k \in KeysOf(n)}
MCSections ==
    UNION {SectionsNamed(n) : n \in KnownSections} \cup {[name |-> "other", items |-> <<>>]}
    \cup Range(GeneratedFile)
MCFiles == SeqOf(MCSections \ Range(GeneratedFile), MaxSections) \cup {GeneratedFile}
=============================================================================
