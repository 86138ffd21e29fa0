------------------------------ MODULE Records ------------------------------
(***************************************************************************)
(* What becomes of one reply or one round: the conversions of the handler  *)
(* and the sleep of work(), each as a job over any input that its constant *)
(* allows.                                                                 *)
(*   blocks    two replies to getblockbynumber, through a worker's handler *)
(*   tx        a reply to gettransaction                                   *)
(*   sleep     the sleep after a round                                     *)
(***************************************************************************)
EXTENDS Job, BlockRecord, TxClassify, SleepArith

CONSTANTS
    Replies,        \* results of getblockbynumber
    TxInputs,       \* elements of the array vin of gettransaction
    TxOutputs,      \* and of its array vout
    Transactions,   \* its results: vin and vout
    Times,          \* times of blocks, as ints; 0 for none
    Rounds,         \* seconds a round takes, by a clock that may go back
    Garbage         \* the mark of a field that was never assigned

Scalars == [type : {"null", "str", "bool", "int", "real"}, v : Int, kids : {<<>>}]
JsonValues == Scalars \cup [type : {"array"}, v : {0}, kids : Seq(Scalars)]

IsObject(reply) == reply.type = "obj"

\* The daemon's nonces are unsigned.
ASSUME RepliesAssumption ==
    \A r \in Replies :
        IsObject(r) =>
            /\ \A n \in DOMAIN r.members : r.members[n] \in JsonValues
            /\ CheckType(Find(r.members, "nonce"), "int") =>
                 Find(r.members, "nonce").v \in 0..(IntSize - 1)

\* An output has an amount, and a coinbase is a string that is not empty.
ASSUME TransactionsAssumption ==
    /\ Transactions \subseteq [vin : Seq(TxInputs), vout : Seq(TxOutputs)]
    /\ \A vin \in TxInputs :
         "coinbase" \in DOMAIN vin => vin["coinbase"].type = "str" /\ vin["coinbase"].v # 0
    /\ \A vout \in TxOutputs : "value" \in DOMAIN vout /\ vout["value"].type = "real"

\* A clock that goes back further than an int reaches is left out.
ASSUME SleepAssumption ==
    /\ Times \subseteq AnInt
    /\ \A s \in Rounds : s \in Int /\ s >= -(IntSize \div 2)

ASSUME GarbageAssumption == Garbage \notin Int

RecordInputs(j) ==
    CASE j = "blocks" -> [worker : {"genesis", "follow"}, replies : Replies \X Replies]
      [] j = "tx" -> Transactions
      [] j = "sleep" -> [last : Times, prev : Times, elapsed : Rounds, bContinue : BOOLEAN]

RecordStart == [blocks |-> "block", tx |-> "tx", sleep |-> "sleep"]
RecordJobs == DOMAIN RecordStart

RecordInit ==
    /\ job \in RecordJobs
    /\ in \in RecordInputs(job)
    /\ pc = RecordStart[job]
    /\ out = <<>>

\* The genesis worker clears its one handler before each block, the follow
\* worker has a new one for each.
HandlerBlock(i) ==
    IF in.worker = "follow" THEN FreshBlock(Garbage)
    ELSE ClearBlock(IF i = 1 THEN FreshBlock(Garbage) ELSE out[i - 1])

ReadBlock ==
    LET i == Len(out) + 1
        reply == in.replies[i]
    IN /\ pc = "block"
       /\ ~(IsObject(reply) /\ Throws(reply.members))
       /\ Step("block", Append(out, SwitchBk(reply, HandlerBlock(i))), IF i = 2 THEN "done" ELSE "block")

\* An exception nobody catches.
BlockThrows ==
    /\ pc = "block"
    /\ LET reply == in.replies[Len(out) + 1] IN IsObject(reply) /\ Throws(reply.members)
    /\ Step("block", out, "thrown")

ReadTx == Step("tx", SwitchTx([vin |-> JsonArray(in.vin), vout |-> JsonArray(in.vout)]), "done")

Sleep ==
    /\ pc = "sleep"
    /\ \E s \in Sleeps(in.last, in.prev, in.elapsed, in.bContinue) : Step("sleep", <<s>>, "done")

RecordNext == ReadBlock \/ BlockThrows \/ ReadTx \/ Sleep

RecordSpec == RecordInit /\ [][RecordNext]_jobVars

-----------------------------------------------------------------------------
(* Properties *)

\* A field of a record comes from the reply the record is about, cut to an int
\* where it is one, or is blank: nothing of an earlier block stays in the
\* handler (block.cpp:40-63).
BlockFromOneReply ==
    job = "blocks" =>
        \A i \in DOMAIN out : \A f \in Fields :
            LET member == Find(in.replies[i].members, f)
            IN \/ IsObject(in.replies[i]) /\ out[i][f] = IF f \in Ints THEN GetInt(member) ELSE member.v
               \/ out[i][f] \in IF in.worker = "follow" THEN {0, Garbage} ELSE {0, -1}

\* A nonce of 32 bits goes through an int, and two nonces stay two.
NonceDistinct ==
    job = "blocks" /\ Len(out) = 2 /\ (\A i \in 1..2 : IsObject(in.replies[i])) =>
        LET nonce(i) == Find(in.replies[i].members, "nonce").v
        IN /\ out[1].nonce \in AnInt /\ out[2].nonce \in AnInt
           /\ nonce(1) # nonce(2) => out[1].nonce # out[2].nonce

\* The members of the reply wrap.cpp:245-267 shows: all but nextblockhash.
Shown == (Fields \ {"nextblockhash"}) \cup {"tx"}
TypeOf(f) == IF f \in Longs \cup Ints THEN "int" ELSE IF f \in Reals THEN "real" ELSE "str"

Documented(r) ==
    /\ IsObject(r) /\ Shown \subseteq DOMAIN r.members
    /\ \A f \in Shown \cap Fields : r.members[f].type = TypeOf(f)
    /\ \A f \in Ints \ {"nonce"} : r.members[f].v \in AnInt
    /\ \A i \in DOMAIN r.members["tx"].kids : r.members["tx"].kids[i].type = "str"

\* A reply with the members shown at wrap.cpp:245-267, each of its type, is
\* stored: no getter throws, and no field of the record is left unassigned.
DocumentedReplyStored ==
    job = "blocks" =>
        /\ pc = "thrown" => ~Documented(in.replies[Len(out) + 1])
        /\ \A i \in DOMAIN out : Documented(in.replies[i]) =>
             /\ \A f \in (Shown \cap Fields) \ {"nonce"} : out[i][f] = in.replies[i].members[f].v
             /\ \A f \in Fields : out[i][f] # Garbage

IsCoinBase == Len(in.vin) = 1 /\ "coinbase" \in DOMAIN in.vin[1] /\ Len(in.vout) >= 1
IsCoinStake ==
    /\ Len(in.vin) > 0 /\ "coinbase" \notin DOMAIN in.vin[1]
    /\ Len(in.vout) >= 2 /\ in.vout[1]["value"].v = 0

\* A transaction is typed 'W' just when it is the coinbase of its block, and
\* a coin stake is typed 'S' (the tests quoted at wrap.cpp:231-232).
MintTyped == Done("tx") => (out.type = "W" <=> IsCoinBase) /\ (IsCoinStake => out.type = "S")

\* A transaction that mints nothing is a transfer, 'T' (wrap.cpp:231-238).
OrdinaryIsTransfer == Done("tx") /\ ~IsCoinBase /\ ~IsCoinStake => out.type = "T"

\* However long a round has taken, and whatever an unassigned block time holds,
\* the sleep is no longer than one second or 4/5 of the round: the overflow of
\* the multiplication only makes it shorter (taskschedule.cpp:154-161).
SleepBounded ==
    Done("sleep") =>
        out[1] <= AdjustTime \/ (~in.bContinue /\ out[1] * 5 <= in.elapsed * PerSecond * 4)
=============================================================================
