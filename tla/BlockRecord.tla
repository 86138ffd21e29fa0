---------------------------- MODULE BlockRecord ----------------------------
(***************************************************************************)
(* How CFidHandler::switchBk() (wrap.cpp) fills the CFidBlock (block.h) of *)
(* a handler from the result of getblockbynumber.                          *)
(***************************************************************************)
EXTENDS JsonValue

Longs == {"confirmations", "height", "time"}     \* 64 bits in the record
Ints == {"size", "version", "nonce", "entropybit"}
Reals == {"mint", "difficulty"}
Strings == {"hash", "merkleroot", "bits", "blocktrust", "chaintrust", "previousblockhash",
            "nextblockhash", "flags", "proofhash", "modifier"}
Fields == Longs \cup Ints \cup Reals \cup Strings

\* CFidBlock(): strings are empty, and nothing else is assigned.
FreshBlock(garbage) == [f \in Fields |-> IF f \in Strings THEN 0 ELSE garbage]

\* Mutant of ClearBlock: a field is forgotten.
ClearBlockMost(bk) ==
    [f \in Fields |-> CASE f = "height" -> -1 [] f = "nextblockhash" -> bk[f] [] OTHER -> 0]

\* clear(), whatever there was: height is (fidint)-1.
ClearBlock(bk) == [f \in Fields |-> IF f = "height" THEN -1 ELSE 0]

BadTx(obj) ==
    /\ CheckType(Find(obj, "tx"), "array")
    /\ \E i \in DOMAIN Find(obj, "tx").kids : ~CheckType(Find(obj, "tx").kids[i], "str")

\* Mutant of Throws: every string is read without a test.
ThrowsWithoutString(obj) ==
    \/ \E f \in Longs \cup Ints : ~CheckType(Find(obj, f), "int")
    \/ \E f \in Strings : ~CheckType(Find(obj, f), "str")
    \/ BadTx(obj)

\* The getters without a test before them, and get_str() of proofhash, before
\* which flags is tested (wrap.cpp:365).
Throws(obj) ==
    \/ \E f \in Longs \cup Ints : ~CheckType(Find(obj, f), "int")
    \/ CheckType(Find(obj, "flags"), "str") /\ ~CheckType(Find(obj, "proofhash"), "str")
    \/ BadTx(obj)

\* Whether a field is assigned.
Assigned(obj, f) ==
    \/ f \in Longs \cup Ints
    \/ f \in Reals /\ CheckType(Find(obj, f), "real")
    \/ f \in Strings \ {"proofhash"} /\ CheckType(Find(obj, f), "str")
    \/ f = "proofhash" /\ CheckType(Find(obj, "flags"), "str")

\* The record after switchBk(): a result that is no object leaves it alone.
SwitchBk(result, bk) ==
    IF result.type # "obj" THEN bk
    ELSE [f \in Fields |->
            CASE ~Assigned(result.members, f) -> bk[f]
              [] f \in Ints -> GetInt(Find(result.members, f))
              [] OTHER -> Find(result.members, f).v]

\* The list it returns.
TxList(result) ==
    IF result.type # "obj" \/ ~CheckType(Find(result.members, "tx"), "array") THEN <<>>
    ELSE LET kids == Find(result.members, "tx").kids IN [i \in DOMAIN kids |-> kids[i].v]
=============================================================================
