-------------------------- MODULE ConversionProofs --------------------------
(***************************************************************************)
(* Theorems about Records, Texts and RpcRequest: what holds of every       *)
(* reply, round, text and command that their assumptions allow, for ints   *)
(* of every size and texts of every length.                                *)
(***************************************************************************)
EXTENDS Records, Texts, RpcRequest, JsonReaderProofs

-----------------------------------------------------------------------------
(* Ints *)

\* Half of the values of an int are negative.
LEMMA Halves == IntSize \div 2 \in Nat /\ IntSize \div 2 > 0 /\ IntSize = 2 * (IntSize \div 2)
BY IntSizeAssumption

\* A factor that is not negative keeps the order.
LEMMA Monotone == ASSUME NEW a \in Int, NEW b \in Int, NEW k \in Nat, a <= b
                  PROVE  a * k <= b * k
OBVIOUS

\* A conversion to int gives an int.
LEMMA ToIntRange == ASSUME NEW n \in Int PROVE ToInt(n) \in AnInt
<1>1. n % IntSize \in 0..(IntSize - 1)
  BY IntSizeAssumption
<1>2. QED
  BY <1>1, Halves DEF ToInt, AnInt

\* What is cut is what an unsigned int holds: it stays or turns negative.
LEMMA ToIntUnsigned == ASSUME NEW n \in 0..(IntSize - 1)
                       PROVE  ToInt(n) = IF n >= IntSize \div 2 THEN n - IntSize ELSE n
<1>1. n % IntSize = n
  BY IntSizeAssumption
<1>2. QED
  BY <1>1 DEF ToInt

\* Two values of the unsigned range that become one int are one value.
LEMMA ToIntInjective == ASSUME NEW n1 \in 0..(IntSize - 1), NEW n2 \in 0..(IntSize - 1),
                               ToInt(n1) = ToInt(n2)
                        PROVE  n1 = n2
BY ToIntUnsigned, Halves

-----------------------------------------------------------------------------
(* The sleep *)

\* The seconds that the code multiplies: at most those the round has taken.
\* A clock that goes back gives a difference above the spacing.
LEMMA PacedSeconds ==
    ASSUME NEW d \in 0..(IntSize \div 2 - 1), NEW e \in Int, e >= -(IntSize \div 2),
           ToInt(d - e) >= 0, ToInt(d - e) <= d
    PROVE  d - ToInt(d - e) \in Nat /\ d - ToInt(d - e) <= e
<1>1. ToInt(d - e) \in Int
  BY ToIntRange, Halves DEF AnInt
<1>2. CASE d - e < 0
  BY <1>1, <1>2, Halves
<1>3. CASE d - e >= 0
  <2>1. d - e \in 0..(IntSize - 1)
    BY <1>3, Halves
  <2>2. ToInt(d - e) = IF d - e >= IntSize \div 2 THEN d - e - IntSize ELSE d - e
    BY <2>1, ToIntUnsigned
  <2>3. QED
    BY <1>1, <2>1, <2>2, Halves
<1>4. QED
  BY <1>2, <1>3, Halves

\* A number that overflows is above every int, so that nothing becomes more.
LEMMA OrOverflowRange == ASSUME NEW n \in Nat, NEW p \in OrOverflow(n)
                         PROVE  p \in Int /\ p <= n
BY Halves DEF OrOverflow, AnInt

\* Four fifths of a number of seconds in milliseconds, however it is computed
\* and whether or not it overflows: less than a second or at most 4/5 of them.
LEMMA FourFifthsBound ==
    ASSUME NEW x \in Nat, NEW s \in FourFifths(x)
    PROVE  s \in Int /\ (s <= AdjustTime \/ s * 5 <= x * PerSecond * 4)
<1>1. PerSecond \in Nat /\ PerSecond % 5 = 0 /\ AdjustTime = PerSecond
  BY PerSecondAssumption DEF AdjustTime
<1>2. x * PerSecond * 4 \in Nat
  BY <1>1
<1>3. CASE s \in OrOverflow(x * ((PerSecond * 4) \div 5))
  <2>1. (PerSecond * 4) \div 5 \in Nat /\ ((PerSecond * 4) \div 5) * 5 = PerSecond * 4
    BY <1>1
  <2> DEFINE f == (PerSecond * 4) \div 5
  <2>2. f \in Nat /\ f * 5 = PerSecond * 4
    BY <2>1
  <2> HIDE DEF f
  <2>3. x * f \in Nat /\ (x * f) * 5 = x * PerSecond * 4
    BY <1>1, <2>2
  <2>4. s \in OrOverflow(x * f)
    BY <1>3 DEF f
  <2>5. s \in Int /\ s <= x * f
    BY <2>3, <2>4, OrOverflowRange
  <2>6. QED
    BY <2>3, <2>5
<1>4. CASE s \in {Quotient(p, 5) : p \in OrOverflow(x * PerSecond * 4)}
  <2>1. PICK p \in OrOverflow(x * PerSecond * 4) : s = Quotient(p, 5)
    BY <1>4
  <2>2. p \in Int /\ p <= x * PerSecond * 4
    BY <1>2, OrOverflowRange
  <2>3. CASE p >= 0
    BY <1>2, <2>1, <2>2, <2>3 DEF Quotient
  <2>4. CASE p < 0
    BY <1>1, <2>1, <2>2, <2>4 DEF Quotient
  <2>5. QED
    BY <2>2, <2>3, <2>4
<1>5. QED
  BY <1>3, <1>4 DEF FourFifths

\* The spacing of two blocks is an int that is not negative.
LEMMA BkDiffRange == ASSUME NEW last \in AnInt, NEW prev \in AnInt, NEW d \in BkDiffs(last, prev)
                     PROVE  d \in 0..(IntSize \div 2 - 1)
<1>1. DefaultBkDiff \in 0..(IntSize \div 2 - 1)
  BY Halves DEF DefaultBkDiff
<1>2. PICK e \in OrOverflow(last - prev) : d = IF e < 0 THEN DefaultBkDiff ELSE e
  BY DEF BkDiffs
<1>3. e \in AnInt
  BY <1>2 DEF OrOverflow
<1>4. QED
  BY <1>1, <1>2, <1>3, Halves DEF AnInt

\* The sleep after any round of any length.
LEMMA SleepsBound ==
    ASSUME NEW last \in AnInt, NEW prev \in AnInt, NEW e \in Int, e >= -(IntSize \div 2),
           NEW b \in BOOLEAN, NEW s \in Sleeps(last, prev, e, b)
    PROVE  s <= AdjustTime \/ (~b /\ s * 5 <= e * PerSecond * 4)
<1>1. PerSecond \in Nat /\ AdjustTime = PerSecond
  BY PerSecondAssumption DEF AdjustTime
<1>2. CASE b \/ last = 0 \/ prev = 0
  BY <1>1, <1>2 DEF Sleeps
<1>3. CASE ~(b \/ last = 0 \/ prev = 0)
  <2>1. PICK d \in BkDiffs(last, prev) : s \in Paced(d, e)
    BY <1>3 DEF Sleeps
  <2>2. d \in 0..(IntSize \div 2 - 1)
    BY BkDiffRange
  <2> DEFINE diff == ToInt(d - e)
  <2>3. diff \in Int
    BY <2>2, ToIntRange, Halves DEF AnInt
  <2>4. CASE diff < 0 \/ diff > d
    BY <1>1, <2>1, <2>4 DEF Paced
  <2>5. CASE ~(diff < 0 \/ diff > d)
    <3>1. d - diff \in Nat /\ d - diff <= e
      BY <2>2, <2>3, <2>5, PacedSeconds, Halves
    <3>2. s \in FourFifths(d - diff)
      BY <2>1, <2>5 DEF Paced
    <3> HIDE DEF diff
    <3> DEFINE x == d - diff
    <3>3. x \in Nat /\ x <= e /\ s \in FourFifths(x)
      BY <3>1, <3>2
    <3> HIDE DEF x
    <3>4. s \in Int /\ (s <= AdjustTime \/ s * 5 <= x * PerSecond * 4)
      BY <3>3, FourFifthsBound
    <3>5. x * (PerSecond * 4) <= e * (PerSecond * 4)
      BY <1>1, <3>3, Monotone
    <3>6. x * PerSecond * 4 <= e * PerSecond * 4
      BY <1>1, <3>3, <3>5
    <3>7. QED
      BY <1>1, <1>3, <3>3, <3>4, <3>6
  <2>6. QED
    BY <2>4, <2>5
<1>4. QED
  BY <1>2, <1>3

-----------------------------------------------------------------------------
(* The invariant *)

\* A job keeps its input and to its own functions.
JobInv ==
    /\ job \in RecordJobs /\ in \in RecordInputs(job)
    /\ job = "blocks" => pc \in {"block", "done", "thrown"}
    /\ job = "tx" => pc \in {"tx", "done"}
    /\ job = "sleep" => pc \in {"sleep", "done"}

\* What a handler holds before a block.
Blank ==
    IF in.worker = "follow" THEN FreshBlock(Garbage)
    ELSE [f \in Fields |-> IF f = "height" THEN -1 ELSE 0]

Blocks == [Fields -> Int \cup {Garbage}]

Throwing(i) == IsObject(in.replies[i]) /\ Throws(in.replies[i].members)

\* Each record is made of its own reply and a blank record.
BlockInv ==
    job = "blocks" =>
        /\ out \in Seq(Blocks) /\ Len(out) <= 2
        /\ \A i \in 1..Len(out) : out[i] = SwitchBk(in.replies[i], Blank) /\ ~Throwing(i)
        /\ pc # "done" => Len(out) < 2
        /\ pc = "thrown" => Throwing(Len(out) + 1)

TxInv ==
    Done("tx") => out = SwitchTx([vin |-> JsonArray(in.vin), vout |-> JsonArray(in.vout)])

RecordInv == JobInv /\ BlockInv /\ TxInv /\ SleepBounded

\* A member that is missing is null, and null is a value.
LEMMA FoundIsValue == ASSUME NEW r \in Replies, IsObject(r), NEW n
                   PROVE  Find(r.members, n) \in JsonValues
BY RepliesAssumption DEF Find, JsonNull, JsonValue, JsonValues, Scalars

\* A value has a number.
LEMMA ValueNumber == ASSUME NEW v \in JsonValues PROVE v.v \in Int /\ GetInt(v) \in AnInt
<1>1. v.v \in Int
  BY DEF JsonValues, Scalars
<1>2. QED
  BY <1>1, ToIntRange DEF GetInt

\* Filling in a record gives a record.
LEMMA SwitchBkType == ASSUME NEW r \in Replies, NEW bk \in Blocks PROVE SwitchBk(r, bk) \in Blocks
<1>1. CASE r.type # "obj"
  BY <1>1 DEF SwitchBk
<1>2. CASE r.type = "obj"
  <2>1. ASSUME NEW f \in Fields
        PROVE  /\ Find(r.members, f).v \in Int /\ GetInt(Find(r.members, f)) \in Int
               /\ bk[f] \in Int \cup {Garbage}
    BY <1>2, FoundIsValue, ValueNumber, Halves DEF IsObject, Blocks, AnInt
  <2>2. QED
    BY <1>2, <2>1 DEF SwitchBk, Blocks
<1>3. QED
  BY <1>1, <1>2

LEMMA BlankType == Blank \in Blocks
BY DEF Blank, Blocks, FreshBlock

\* Whichever block it is, the handler is blank before it.
LEMMA HandlerIsBlank ==
    ASSUME in.worker \in {"genesis", "follow"}, NEW i \in {1, 2}
    PROVE  HandlerBlock(i) = Blank
BY DEF HandlerBlock, Blank, ClearBlock

LEMMA BlockInput ==
    ASSUME JobInv, job = "blocks", NEW i \in {1, 2}
    PROVE  in.worker \in {"genesis", "follow"} /\ in.replies[i] \in Replies
BY DEF JobInv, RecordInputs

LEMMA InvInit == RecordInit => RecordInv
<1> SUFFICES ASSUME RecordInit PROVE RecordInv
  OBVIOUS
<1>1. JobInv
  BY DEF RecordInit, JobInv, RecordJobs, RecordStart
<1>2. BlockInv
  BY DEF RecordInit, BlockInv, RecordStart
<1>3. TxInv /\ SleepBounded
  BY <1>1 DEF RecordInit, TxInv, SleepBounded, Done, RecordStart, RecordJobs
<1>4. QED
  BY <1>1, <1>2, <1>3 DEF RecordInv

LEMMA ReadBlockStep == RecordInv /\ ReadBlock => RecordInv'
<1> SUFFICES ASSUME RecordInv, ReadBlock PROVE RecordInv'
  OBVIOUS
<1> DEFINE i == Len(out) + 1
           r == in.replies[i]
           bk == SwitchBk(r, HandlerBlock(i))
<1>1. /\ pc = "block" /\ UNCHANGED <<job, in>>
      /\ ~Throwing(i)
      /\ out' = Append(out, bk)
      /\ pc' = IF i = 2 THEN "done" ELSE "block"
  BY DEF ReadBlock, Step, Throwing
<1>2. JobInv /\ job = "blocks"
  BY <1>1 DEF RecordInv, JobInv, RecordJobs, RecordStart
<1>3. /\ out \in Seq(Blocks) /\ Len(out) < 2
      /\ \A j \in 1..Len(out) : out[j] = SwitchBk(in.replies[j], Blank) /\ ~Throwing(j)
  BY <1>1, <1>2 DEF RecordInv, BlockInv
<1>4. i \in {1, 2}
  BY <1>3
<1>5. r \in Replies /\ bk = SwitchBk(r, Blank)
  BY <1>2, <1>4, BlockInput, HandlerIsBlank
<1>6. bk \in Blocks
  BY <1>5, SwitchBkType, BlankType
<1> HIDE DEF bk
<1>7. JobInv'
  BY <1>1, <1>2 DEF JobInv
<1>8. BlockInv'
  <2>1. out' \in Seq(Blocks) /\ Len(out') = i
    BY <1>1, <1>3, <1>6
  <2>2. ASSUME NEW j \in 1..i
        PROVE  out'[j] = SwitchBk(in.replies[j], Blank) /\ ~Throwing(j)
    <3>1. CASE j = i
      BY <1>1, <1>3, <1>5, <1>6, <3>1
    <3>2. CASE j \in 1..Len(out)
      BY <1>1, <1>3, <1>6, <3>2
    <3>3. QED
      BY <1>3, <3>1, <3>2
  <2>3. Blank' = Blank /\ \A j : Throwing(j)' = Throwing(j)
    BY <1>1 DEF Blank, Throwing
  <2>4. pc' # "done" => Len(out') < 2
    BY <1>1, <1>4, <2>1
  <2>5. QED
    BY <1>1, <1>4, <2>1, <2>2, <2>3, <2>4 DEF BlockInv
<1>9. TxInv' /\ SleepBounded'
  BY <1>1, <1>2 DEF TxInv, SleepBounded, Done
<1>10. QED
  BY <1>7, <1>8, <1>9 DEF RecordInv

LEMMA BlockThrowsStep == RecordInv /\ BlockThrows => RecordInv'
<1> SUFFICES ASSUME RecordInv, BlockThrows PROVE RecordInv'
  OBVIOUS
<1>1. /\ pc = "block" /\ pc' = "thrown" /\ UNCHANGED <<job, in, out>>
      /\ Throwing(Len(out) + 1)
  BY DEF BlockThrows, Step, Throwing
<1>2. JobInv /\ job = "blocks" /\ BlockInv
  BY <1>1 DEF RecordInv, JobInv, RecordJobs, RecordStart
<1>3. JobInv'
  BY <1>1, <1>2 DEF JobInv
<1>4. BlockInv'
  <2>1. Blank' = Blank /\ \A j : Throwing(j)' = Throwing(j)
    BY <1>1 DEF Blank, Throwing
  <2>2. QED
    BY <1>1, <1>2, <2>1 DEF BlockInv
<1>5. TxInv' /\ SleepBounded'
  BY <1>1, <1>2 DEF TxInv, SleepBounded, Done
<1>6. QED
  BY <1>3, <1>4, <1>5 DEF RecordInv

LEMMA ReadTxStep == RecordInv /\ ReadTx => RecordInv'
<1> SUFFICES ASSUME RecordInv, ReadTx PROVE RecordInv'
  OBVIOUS
<1>1. /\ pc = "tx" /\ pc' = "done" /\ UNCHANGED <<job, in>>
      /\ out' = SwitchTx([vin |-> JsonArray(in.vin), vout |-> JsonArray(in.vout)])
  BY DEF ReadTx, Step
<1>2. JobInv /\ job = "tx"
  BY <1>1 DEF RecordInv, JobInv, RecordJobs, RecordStart
<1>3. JobInv'
  BY <1>1, <1>2 DEF JobInv
<1>4. TxInv'
  BY <1>1 DEF TxInv
<1>5. BlockInv' /\ SleepBounded'
  BY <1>1, <1>2 DEF BlockInv, SleepBounded, Done
<1>6. QED
  BY <1>3, <1>4, <1>5 DEF RecordInv

LEMMA SleepStep == RecordInv /\ Sleep => RecordInv'
<1> SUFFICES ASSUME RecordInv, Sleep PROVE RecordInv'
  OBVIOUS
<1>1. PICK s \in Sleeps(in.last, in.prev, in.elapsed, in.bContinue) :
         pc = "sleep" /\ pc' = "done" /\ UNCHANGED <<job, in>> /\ out' = <<s>>
  BY DEF Sleep, Step
<1>2. JobInv /\ job = "sleep"
  BY <1>1 DEF RecordInv, JobInv, RecordJobs, RecordStart
<1>3. JobInv'
  BY <1>1, <1>2 DEF JobInv
<1>4. /\ in.last \in AnInt /\ in.prev \in AnInt /\ in.bContinue \in BOOLEAN
      /\ in.elapsed \in Int /\ in.elapsed >= -(IntSize \div 2)
  BY <1>2, SleepAssumption DEF JobInv, RecordInputs
<1>5. s <= AdjustTime \/ (~in.bContinue /\ s * 5 <= in.elapsed * PerSecond * 4)
  BY <1>4, SleepsBound
<1>6. SleepBounded'
  BY <1>1, <1>5 DEF SleepBounded, AdjustTime
<1>7. BlockInv' /\ TxInv'
  BY <1>1, <1>2 DEF BlockInv, TxInv, Done
<1>8. QED
  BY <1>3, <1>6, <1>7 DEF RecordInv

\* The invariant of every job over a reply or a round.
THEOREM RecordInvariant == RecordSpec => []RecordInv
<1>1. RecordInv /\ [RecordNext]_jobVars => RecordInv'
  <2>1. RecordInv /\ UNCHANGED jobVars => RecordInv'
    BY DEF RecordInv, JobInv, BlockInv, TxInv, SleepBounded, Done, Blank, Throwing, jobVars
  <2>2. QED
    BY <2>1, ReadBlockStep, BlockThrowsStep, ReadTxStep, SleepStep DEF RecordNext
<1>2. QED
  BY InvInit, <1>1, PTL DEF RecordSpec

-----------------------------------------------------------------------------
(* What the invariant says *)

\* Each round's sleep is at most one second or 4/5 of the round, for ints of
\* every size, block times that are any int, and rounds of any length.
THEOREM SleepInTime == RecordSpec => []SleepBounded
<1>1. RecordInv => SleepBounded
  BY DEF RecordInv
<1>2. QED
  BY RecordInvariant, <1>1, PTL

\* A field after switchBk(): kept when nothing assigns it, else the member.
LEMMA SwitchBkField ==
    ASSUME NEW r, IsObject(r), NEW bk, NEW f \in Fields
    PROVE  SwitchBk(r, bk)[f] =
             IF ~Assigned(r.members, f) THEN bk[f]
             ELSE IF f \in Ints THEN GetInt(Find(r.members, f))
             ELSE Find(r.members, f).v
<1>1. f \in Ints => Assigned(r.members, f)
  BY DEF Assigned
<1>2. SwitchBk(r, bk)[f] =
        CASE ~Assigned(r.members, f) -> bk[f]
          [] f \in Ints -> GetInt(Find(r.members, f))
          [] OTHER -> Find(r.members, f).v
  BY DEF SwitchBk, IsObject
<1>3. QED
  BY <1>1, <1>2

\* A blank field is empty, or it is the mark of what was never assigned.
LEMMA BlankField ==
    ASSUME in.worker \in {"genesis", "follow"}, NEW f \in Fields
    PROVE  Blank[f] \in IF in.worker = "follow" THEN {0, Garbage} ELSE {0, -1}
BY DEF Blank, FreshBlock

\* No field of a record comes from the block before, whichever of the two
\* workers copies the blocks and whatever members the replies have.
THEOREM RecordOfOneReply == RecordSpec => []BlockFromOneReply
<1>1. ASSUME RecordInv PROVE BlockFromOneReply
  <2> SUFFICES ASSUME job = "blocks", NEW i \in DOMAIN out, NEW f \in Fields
               PROVE  LET member == Find(in.replies[i].members, f)
                      IN \/ IsObject(in.replies[i])
                            /\ out[i][f] = IF f \in Ints THEN GetInt(member) ELSE member.v
                         \/ out[i][f] \in IF in.worker = "follow" THEN {0, Garbage} ELSE {0, -1}
    BY DEF BlockFromOneReply
  <2>1. i \in {1, 2} /\ out[i] = SwitchBk(in.replies[i], Blank)
    BY <1>1 DEF RecordInv, BlockInv
  <2>2. Blank[f] \in IF in.worker = "follow" THEN {0, Garbage} ELSE {0, -1}
    BY <1>1, <2>1, BlockInput, BlankField DEF RecordInv
  <2>3. CASE IsObject(in.replies[i])
    BY <2>1, <2>2, <2>3, SwitchBkField
  <2>4. CASE ~IsObject(in.replies[i])
    BY <2>1, <2>2, <2>4 DEF SwitchBk, IsObject
  <2>5. QED
    BY <2>3, <2>4
<1>2. QED
  BY RecordInvariant, <1>1, PTL

\* Two nonces of an unsigned int are two after they went through an int of the
\* same size, which holds each of them.
THEOREM NoncesStayTwo == RecordSpec => []NonceDistinct
<1>1. ASSUME RecordInv PROVE NonceDistinct
  <2> SUFFICES ASSUME job = "blocks", Len(out) = 2, \A i \in 1..2 : IsObject(in.replies[i])
               PROVE  LET nonce(i) == Find(in.replies[i].members, "nonce").v
                      IN /\ out[1].nonce \in AnInt /\ out[2].nonce \in AnInt
                         /\ nonce(1) # nonce(2) => out[1].nonce # out[2].nonce
    BY DEF NonceDistinct
  <2>1. ASSUME NEW i \in {1, 2}
        PROVE  /\ out[i].nonce = ToInt(Find(in.replies[i].members, "nonce").v)
               /\ Find(in.replies[i].members, "nonce").v \in 0..(IntSize - 1)
    <3>1. in.replies[i] \in Replies /\ IsObject(in.replies[i])
      BY <1>1, BlockInput DEF RecordInv
    <3>2. out[i] = SwitchBk(in.replies[i], Blank) /\ ~Throws(in.replies[i].members)
      BY <1>1, <3>1 DEF RecordInv, BlockInv, Throwing
    <3>3. CheckType(Find(in.replies[i].members, "nonce"), "int")
      BY <3>2 DEF Throws, Ints
    <3>4. "nonce" \in Ints /\ "nonce" \in Fields /\ Assigned(in.replies[i].members, "nonce")
      BY DEF Ints, Fields, Assigned
    <3>5. out[i]["nonce"] = GetInt(Find(in.replies[i].members, "nonce"))
      BY <3>1, <3>2, <3>4, SwitchBkField
    <3>6. QED
      BY <3>1, <3>3, <3>5, RepliesAssumption DEF GetInt
  <2>2. QED
    BY <2>1, ToIntRange, ToIntInjective, IntSizeAssumption
<1>2. QED
  BY RecordInvariant, <1>1, PTL

\* No getter throws at a documented reply: the flags are a string there, but
\* then so is proofhash.
LEMMA DocumentedDoesNotThrow == ASSUME NEW r, Documented(r) PROVE ~Throws(r.members)
<1>1. /\ \A f \in Longs \cup Ints : f \in DOMAIN r.members /\ r.members[f].type = "int"
      /\ "proofhash" \in DOMAIN r.members /\ r.members["proofhash"].type = "str"
  BY DEF Documented, Shown, TypeOf, Fields, Longs, Ints, Reals, Strings
<1>2. /\ "tx" \in DOMAIN r.members
      /\ \A i \in DOMAIN r.members["tx"].kids : r.members["tx"].kids[i].type = "str"
  BY DEF Documented, Shown
<1>3. ~BadTx(r.members)
  BY <1>2 DEF BadTx, Find, CheckType
<1>4. QED
  BY <1>1, <1>3 DEF Throws, Find, CheckType

\* All its fields are assigned.
LEMMA DocumentedIsAssigned ==
    ASSUME NEW r, Documented(r), NEW f \in Shown \cap Fields
    PROVE  Assigned(r.members, f) /\ Find(r.members, f) = r.members[f]
<1>1. /\ f \in DOMAIN r.members /\ r.members[f].type = TypeOf(f)
      /\ "flags" \in DOMAIN r.members /\ r.members["flags"].type = "str"
  BY DEF Documented, Shown, TypeOf, Fields, Longs, Ints, Reals, Strings
<1>2. QED
  BY <1>1 DEF Assigned, Find, CheckType, TypeOf, Fields, Longs, Ints, Reals, Strings

\* An int that fits goes through unchanged.
LEMMA ToIntKeeps == ASSUME NEW n \in AnInt PROVE ToInt(n) = n
<1>1. CASE n >= 0
  BY <1>1, ToIntUnsigned, Halves DEF AnInt
<1>2. CASE n < 0
  <2>1. n \in Int /\ n + IntSize \in 0..(IntSize - 1)
    BY <1>2, Halves DEF AnInt
  <2>2. n % IntSize = n + IntSize
    BY <2>1, IntSizeAssumption
  <2>3. QED
    BY <2>1, <2>2, Halves DEF ToInt, AnInt
<1>3. QED
  BY <1>1, <1>2, Halves DEF AnInt

\* Every reply with the documented members is stored, whatever else it has,
\* and its record has no field that was never assigned.
THEOREM DocumentedStored == RecordSpec => []DocumentedReplyStored
<1>1. ASSUME RecordInv PROVE DocumentedReplyStored
  <2> SUFFICES ASSUME job = "blocks"
               PROVE  /\ pc = "thrown" => ~Documented(in.replies[Len(out) + 1])
                      /\ \A i \in DOMAIN out : Documented(in.replies[i]) =>
                           /\ \A f \in (Shown \cap Fields) \ {"nonce"} : out[i][f] = in.replies[i].members[f].v
                           /\ \A f \in Fields : out[i][f] # Garbage
    BY DEF DocumentedReplyStored
  <2>1. pc = "thrown" => ~Documented(in.replies[Len(out) + 1])
    BY <1>1, DocumentedDoesNotThrow DEF RecordInv, BlockInv, Throwing
  <2>2. ASSUME NEW i \in DOMAIN out, Documented(in.replies[i])
        PROVE  /\ \A f \in (Shown \cap Fields) \ {"nonce"} : out[i][f] = in.replies[i].members[f].v
               /\ \A f \in Fields : out[i][f] # Garbage
    <3> DEFINE r == in.replies[i]
    <3>1. i \in {1, 2} /\ out[i] = SwitchBk(r, Blank)
      BY <1>1 DEF RecordInv, BlockInv
    <3>2. r \in Replies /\ IsObject(r) /\ in.worker \in {"genesis", "follow"}
      BY <1>1, <2>2, <3>1, BlockInput DEF RecordInv, Documented
    <3>3. ASSUME NEW f \in Shown \cap Fields
          PROVE  out[i][f] = IF f \in Ints THEN GetInt(r.members[f]) ELSE r.members[f].v
      BY <2>2, <3>1, <3>2, SwitchBkField, DocumentedIsAssigned
    <3>4. ASSUME NEW f \in (Shown \cap Fields) \ {"nonce"}, f \in Ints
          PROVE  GetInt(r.members[f]) = r.members[f].v
      BY <2>2, <3>4, ToIntKeeps DEF Documented, GetInt
    <3>5. ASSUME NEW f \in Fields PROVE out[i][f] # Garbage
      <4>1. Find(r.members, f).v \in Int /\ GetInt(Find(r.members, f)) \in Int
        <5>1. Find(r.members, f) \in JsonValues
          BY <3>2, FoundIsValue
        <5>2. GetInt(Find(r.members, f)) \in AnInt /\ AnInt \subseteq Int
          BY <5>1, ValueNumber, Halves DEF AnInt
        <5>3. QED
          BY <5>1, <5>2, ValueNumber
      <4>2. CASE f \in Shown
        BY <2>2, <3>1, <3>2, <4>1, <4>2, SwitchBkField, DocumentedIsAssigned, GarbageAssumption
      <4>3. CASE f \notin Shown
        <5>1. f \in Strings
          BY <4>3 DEF Shown, Strings, Fields
        <5>2. Blank[f] \in {0, -1}
          BY <5>1 DEF Blank, FreshBlock
        <5>3. QED
          BY <3>1, <3>2, <4>1, <5>2, SwitchBkField, GarbageAssumption
      <4>4. QED
        BY <4>2, <4>3
    <3>6. QED
      BY <3>3, <3>4, <3>5
  <2>3. QED
    BY <2>1, <2>2
<1>2. QED
  BY RecordInvariant, <1>1, PTL

\* Only a coinbase types the first input 'W'.
LEMMA FirstInputType ==
    ASSUME NEW vin \in TxInputs
    PROVE  TxVin(1, vin).type = IF "coinbase" \in DOMAIN vin THEN "W" ELSE "S"
<1>1. JsonString(vin, "coinbase", 0) # 0 <=> "coinbase" \in DOMAIN vin
  <2>1. CASE "coinbase" \in DOMAIN vin
    <3>1. Find(vin, "coinbase").type = "str" /\ Find(vin, "coinbase").v # 0
      BY <2>1, TransactionsAssumption DEF Find
    <3>2. QED
      BY <2>1, <3>1 DEF JsonString, CheckType
  <2>2. CASE "coinbase" \notin DOMAIN vin
    <3>1. Find(vin, "coinbase").type = "null"
      BY <2>2 DEF Find, JsonNull, JsonValue
    <3>2. QED
      BY <2>2, <3>1 DEF JsonString, CheckType
  <2>3. QED
    BY <2>1, <2>2
<1>2. QED
  BY <1>1 DEF TxVin

\* The amount of an output is read as it is in the reply.
LEMMA OutputAmount == ASSUME NEW j \in Nat, NEW vout \in TxOutputs
                      PROVE  TxVout(j, vout).value = vout["value"].v
BY TransactionsAssumption DEF TxVout, JsonDouble, Find, CheckType

\* The type of a transaction is 'W' for the coinbase and only for it, and 'S'
\* for a coin stake, whatever inputs and outputs it has and how many.
THEOREM MintsAreTyped == RecordSpec => []MintTyped
<1>1. ASSUME RecordInv PROVE MintTyped
  <2> SUFFICES ASSUME Done("tx")
               PROVE  (out.type = "W" <=> IsCoinBase) /\ (IsCoinStake => out.type = "S")
    BY DEF MintTyped
  <2> DEFINE vins == [i \in DOMAIN in.vin |-> TxVin(i, in.vin[i])]
             vouts == [j \in DOMAIN in.vout |-> TxVout(j, in.vout[j])]
  <2>1. in.vin \in Seq(TxInputs) /\ in.vout \in Seq(TxOutputs)
    BY <1>1, TransactionsAssumption DEF RecordInv, JobInv, RecordInputs, Done
  <2>2. out.type = TxType(vins, vouts)
    <3>1. LET obj == [vin |-> JsonArray(in.vin), vout |-> JsonArray(in.vout)]
          IN JsonKids(obj, "vin") = in.vin /\ JsonKids(obj, "vout") = in.vout
      BY DEF JsonKids, Find, CheckType, JsonArray
    <3>2. QED
      BY <1>1, <3>1 DEF RecordInv, TxInv, SwitchTx
  <2>3. Len(vins) = Len(in.vin) /\ Len(vouts) = Len(in.vout)
    BY <2>1
  <2>4. Len(in.vin) > 0 => vins[1].type = IF "coinbase" \in DOMAIN in.vin[1] THEN "W" ELSE "S"
    BY <2>1, FirstInputType
  <2>5. Len(in.vout) > 0 => vouts[1].value = in.vout[1]["value"].v
    BY <2>1, OutputAmount
  <2> HIDE DEF vins, vouts
  <2>6. Len(in.vin) \in Nat /\ Len(in.vout) \in Nat
    BY <2>1
  <2>7. QED
    BY <2>2, <2>3, <2>4, <2>5, <2>6 DEF TxType, IsCoinBase, IsCoinStake
<1>2. QED
  BY RecordInvariant, <1>1, PTL

-----------------------------------------------------------------------------
(* Base64 *)

\* A loop over a sequence is what each round makes of the one before.
LEMMA EncodingRounds ==
    ASSUME NEW b, Len(b) \in Nat
    PROVE  /\ Encoding(b)[0] = Begin
           /\ \A n \in 1..Len(b) : Encoding(b)[n] = EncodeStep(Encoding(b)[n - 1], b[n])
<1> DEFINE Is(f, n) == f = [k \in 0..n |-> IF k = 0 THEN Begin ELSE EncodeStep(f[k - 1], b[k])]
<1>1. \A n \in Nat : \E f : Is(f, n)
  <2> SUFFICES ASSUME NEW bad \in Nat, ~ \E f : Is(f, bad) PROVE FALSE
    OBVIOUS
  <2> DEFINE Bad == {n \in Nat : ~ \E f : Is(f, n)}
  <2> HIDE DEF Is
  <2>1. PICK n \in Bad : \A m \in Bad : n <= m
    BY LeastNumber
  <2>2. CASE n = 0
    <3>1. Is([k \in 0..0 |-> Begin], 0)
      BY DEF Is
    <3>2. QED
      BY <2>1, <2>2, <3>1
  <2>3. CASE n # 0
    <3>1. PICK f : Is(f, n - 1)
      BY <2>1, <2>3
    <3>2. f = [k \in 0..(n - 1) |-> IF k = 0 THEN Begin ELSE EncodeStep(f[k - 1], b[k])]
      BY <3>1 DEF Is
    <3> DEFINE g == [k \in 0..n |-> IF k = n THEN EncodeStep(f[n - 1], b[n]) ELSE f[k]]
    <3>3. \A k \in 0..n : g[k] = IF k = 0 THEN Begin ELSE EncodeStep(g[k - 1], b[k])
      <4> SUFFICES ASSUME NEW k \in 0..n
                   PROVE  g[k] = IF k = 0 THEN Begin ELSE EncodeStep(g[k - 1], b[k])
        OBVIOUS
      <4>1. CASE k = 0
        BY <2>3, <3>2, <4>1
      <4>2. CASE k # 0
        <5>1. k - 1 \in 0..(n - 1) /\ k - 1 \in 0..n /\ g[k - 1] = f[k - 1]
          BY <4>2
        <5>2. k # n => k \in 0..(n - 1) /\ g[k] = f[k] /\ f[k] = EncodeStep(f[k - 1], b[k])
          BY <3>2, <4>2
        <5>3. k = n => g[k] = EncodeStep(f[k - 1], b[k])
          OBVIOUS
        <5>4. QED
          BY <4>2, <5>1, <5>2, <5>3
      <4>3. QED
        BY <4>1, <4>2
    <3>4. g = [k \in 0..n |-> g[k]]
      OBVIOUS
    <3> HIDE DEF g
    <3>5. Is(g, n)
      BY <3>3, <3>4 DEF Is
    <3>6. QED
      BY <2>1, <3>5
  <2>4. QED
    BY <2>2, <2>3
<1>2. Encoding(b) = CHOOSE f : Is(f, Len(b))
  BY DEF Encoding
<1>3. PICK f : Is(f, Len(b))
  BY <1>1
<1> HIDE DEF Is
<1>4. Is(Encoding(b), Len(b))
  BY <1>2, <1>3
<1>5. Encoding(b) = [k \in 0..Len(b) |-> IF k = 0 THEN Begin ELSE EncodeStep(Encoding(b)[k - 1], b[k])]
  BY <1>4 DEF Is
<1>6. QED
  BY <1>5
\* The loop of decoding, round by round.
LEMMA DecodingRounds ==
    ASSUME NEW p, NEW m \in Nat
    PROVE  /\ Decoding(p, m)[0] = Begin
           /\ \A n \in 1..m : Decoding(p, m)[n] = DecodeStep(Decoding(p, m)[n - 1], Decode64(p[n]))
<1> DEFINE Is(f, n) == f = [k \in 0..n |-> IF k = 0 THEN Begin ELSE DecodeStep(f[k - 1], Decode64(p[k]))]
<1>1. \A n \in Nat : \E f : Is(f, n)
  <2> SUFFICES ASSUME NEW bad \in Nat, ~ \E f : Is(f, bad) PROVE FALSE
    OBVIOUS
  <2> DEFINE Bad == {n \in Nat : ~ \E f : Is(f, n)}
  <2> HIDE DEF Is
  <2>1. PICK n \in Bad : \A i \in Bad : n <= i
    BY LeastNumber
  <2>2. CASE n = 0
    <3>1. Is([k \in 0..0 |-> Begin], 0)
      BY DEF Is
    <3>2. QED
      BY <2>1, <2>2, <3>1
  <2>3. CASE n # 0
    <3>1. PICK f : Is(f, n - 1)
      BY <2>1, <2>3
    <3>2. f = [k \in 0..(n - 1) |-> IF k = 0 THEN Begin ELSE DecodeStep(f[k - 1], Decode64(p[k]))]
      BY <3>1 DEF Is
    <3> DEFINE g == [k \in 0..n |-> IF k = n THEN DecodeStep(f[n - 1], Decode64(p[n])) ELSE f[k]]
    <3>3. \A k \in 0..n : g[k] = IF k = 0 THEN Begin ELSE DecodeStep(g[k - 1], Decode64(p[k]))
      <4> SUFFICES ASSUME NEW k \in 0..n
                   PROVE  g[k] = IF k = 0 THEN Begin ELSE DecodeStep(g[k - 1], Decode64(p[k]))
        OBVIOUS
      <4>1. CASE k = 0
        BY <2>3, <3>2, <4>1
      <4>2. CASE k # 0
        <5>1. k - 1 \in 0..(n - 1) /\ k - 1 \in 0..n /\ g[k - 1] = f[k - 1]
          BY <4>2
        <5>2. k # n => k \in 0..(n - 1) /\ g[k] = f[k] /\ f[k] = DecodeStep(f[k - 1], Decode64(p[k]))
          BY <3>2, <4>2
        <5>3. k = n => g[k] = DecodeStep(f[k - 1], Decode64(p[k]))
          OBVIOUS
        <5>4. QED
          BY <4>2, <5>1, <5>2, <5>3
      <4>3. QED
        BY <4>1, <4>2
    <3>4. g = [k \in 0..n |-> g[k]]
      OBVIOUS
    <3> HIDE DEF g
    <3>5. Is(g, n)
      BY <3>3, <3>4 DEF Is
    <3>6. QED
      BY <2>1, <3>5
  <2>4. QED
    BY <2>2, <2>3
<1>2. Decoding(p, m) = CHOOSE f : Is(f, m)
  BY DEF Decoding
<1>3. PICK f : Is(f, m)
  BY <1>1
<1> HIDE DEF Is
<1>4. Is(Decoding(p, m), m)
  BY <1>2, <1>3
<1>5. Decoding(p, m) = [k \in 0..m |-> IF k = 0 THEN Begin ELSE DecodeStep(Decoding(p, m)[k - 1], Decode64(p[k]))]
  BY <1>4 DEF Is
<1>6. QED
  BY <1>5

\* Six bits and their character.
LEMMA SixBits ==
    /\ \A i \in 0..63 : Pbase64(i) \in 1..255 /\ Decode64(Pbase64(i)) = i
    /\ \A c \in Int : Decode64(c) \in -1..63 /\ (Decode64(c) # -1 => Pbase64(Decode64(c)) = c)
    /\ Decode64(0) = -1 /\ Decode64(Pad) = -1
BY DEF Pbase64, Decode64, Pad

\* A byte cut in two.
Cut(x, k) == x \div k \in Nat /\ x % k \in 0..(k - 1) /\ (x \div k) * k + (x % k) = x
\* The quotient and the remainder of a byte, by each power of two the code cuts it with.
LEMMA CutByte ==
    ASSUME NEW x \in 0..255
    PROVE  /\ x \div 4 \in 0..63 /\ Cut(x, 4)
           /\ x \div 16 \in 0..15 /\ Cut(x, 16)
           /\ x \div 64 \in 0..3 /\ Cut(x, 64)
<1>1. x \div 4 \in 0..63 /\ Cut(x, 4)
  BY DEF Cut
<1>2. x \div 16 \in 0..15 /\ Cut(x, 16)
  BY DEF Cut
<1>3. x \div 64 \in 0..3 /\ Cut(x, 64)
  BY DEF Cut
<1>4. QED
  BY <1>1, <1>2, <1>3

\* Bits of two bytes put together.
LEMMA Joined ==
    /\ \A l \in 0..3, r \in 0..15 :
          /\ l * 16 + r \in 0..63 /\ (l * 16 + r) \div 16 = l /\ (l * 16 + r) % 16 = r
    /\ \A l \in 0..15, r \in 0..3 :
          /\ l * 4 + r \in 0..63 /\ (l * 4 + r) \div 4 = l /\ (l * 4 + r) % 4 = r
    /\ \A l \in 0..63, r \in 0..3 : l * 4 + r \in 0..255
    /\ \A l \in 0..15, r \in 0..15 : l * 16 + r \in 0..255
    /\ \A l \in 0..3, r \in 0..63 : l * 64 + r \in 0..255
<1>1. \A l \in 0..3, r \in 0..15 :
          /\ l * 16 + r \in 0..63 /\ (l * 16 + r) \div 16 = l /\ (l * 16 + r) % 16 = r
  OBVIOUS
<1>2. \A l \in 0..15, r \in 0..3 :
          /\ l * 4 + r \in 0..63 /\ (l * 4 + r) \div 4 = l /\ (l * 4 + r) % 4 = r
  OBVIOUS
<1>3. QED
  BY <1>1, <1>2

First(b, n) == [i \in 1..n |-> b[i]]

\* Each round has one byte more behind it.
LEMMA FirstGrows ==
    ASSUME NEW S, NEW b \in Seq(S), NEW n \in 1..Len(b)
    PROVE  First(b, n) = Append(First(b, n - 1), b[n]) /\ First(b, n) \in Seq(S)
<1>1. First(b, n) \in Seq(S) /\ First(b, n - 1) \in Seq(S) /\ Len(First(b, n - 1)) = n - 1
  BY DEF First
<1>2. QED
  BY <1>1 DEF First

\* The last round has all of them.
LEMMA FirstAll == ASSUME NEW S, NEW b \in Seq(S) PROVE First(b, Len(b)) = b /\ First(b, 0) = <<>>
BY DEF First

\* A state of either loop.
States == [out : Seq(Int), left : Int, mode : 0..3]
\* The characters of the code.
Coded == {Pbase64(i) : i \in 0..63}

\* The characters of Base64 are bytes, and none is the 0 that ends a C string.
LEMMA CodedIsByte == Coded \subseteq 1..255 /\ Coded \subseteq Int
<1>1. \A i \in 0..63 : Pbase64(i) \in 1..255
  BY SixBits
<1>2. QED
  BY <1>1 DEF Coded

\* What a round of encoding does, in each of its three modes.
LEMMA EncodeRound ==
    ASSUME NEW s \in States, NEW x \in 0..255
    PROVE  /\ s.mode = 0 => EncodeStep(s, x) =
                [out |-> Append(s.out, Pbase64(x \div 4)), left |-> (x % 4) * 16, mode |-> 1]
           /\ s.mode = 1 => EncodeStep(s, x) =
                [out |-> Append(s.out, Pbase64(s.left + (x \div 16))), left |-> (x % 16) * 4, mode |-> 2]
           /\ s.mode = 2 => EncodeStep(s, x) =
                [out |-> Append(Append(s.out, Pbase64(s.left + (x \div 64))), Pbase64(x % 64)),
                 left |-> s.left, mode |-> 0]
<1>1. s.mode = 0 => EncodeStep(s, x) =
                [out |-> Append(s.out, Pbase64(x \div 4)), left |-> (x % 4) * 16, mode |-> 1]
  BY DEF EncodeStep
<1>2. s.mode = 1 => EncodeStep(s, x) =
                [out |-> Append(s.out, Pbase64(s.left + (x \div 16))), left |-> (x % 16) * 4, mode |-> 2]
  BY DEF EncodeStep
<1>3. ASSUME s.mode = 2
      PROVE  EncodeStep(s, x) =
                [out |-> Append(Append(s.out, Pbase64(s.left + (x \div 64))), Pbase64(x % 64)),
                 left |-> s.left, mode |-> 0]
  <2> DEFINE a == Pbase64(s.left + (x \div 64))
             c == Pbase64(x % 64)
  <2>1. EncodeStep(s, x) = [s EXCEPT !.out = s.out \o <<a, c>>, !.mode = 0]
    BY <1>3 DEF EncodeStep
  <2> HIDE DEF a, c
  <2>2. s.out \o <<a, c>> = Append(Append(s.out, a), c)
    BY DEF States
  <2>3. EncodeStep(s, x) = [out |-> Append(Append(s.out, a), c), left |-> s.left, mode |-> 0]
    BY <2>1, <2>2 DEF States
  <2>4. QED
    BY <2>3 DEF a, c
<1>4. QED
  BY <1>1, <1>2, <1>3

\* What a round of decoding does, in each of its four modes.
LEMMA DecodeRound ==
    ASSUME NEW s \in States, NEW dec \in 0..63
    PROVE  /\ s.mode = 0 => DecodeStep(s, dec) = [out |-> s.out, left |-> dec, mode |-> 1]
           /\ s.mode = 1 => DecodeStep(s, dec) =
                [out |-> Append(s.out, s.left * 4 + (dec \div 16)), left |-> dec % 16, mode |-> 2]
           /\ s.mode = 2 => DecodeStep(s, dec) =
                [out |-> Append(s.out, s.left * 16 + (dec \div 4)), left |-> dec % 4, mode |-> 3]
           /\ s.mode = 3 => DecodeStep(s, dec) =
                [out |-> Append(s.out, s.left * 64 + dec), left |-> s.left, mode |-> 0]
<1>1. s.mode = 0 => DecodeStep(s, dec) = [out |-> s.out, left |-> dec, mode |-> 1]
  <2>1. s.mode = 0 => DecodeStep(s, dec) = [s EXCEPT !.left = dec, !.mode = 1]
    BY DEF DecodeStep
  <2>2. QED
    BY <2>1 DEF States
<1>2. s.mode = 1 => DecodeStep(s, dec) =
                [out |-> Append(s.out, s.left * 4 + (dec \div 16)), left |-> dec % 16, mode |-> 2]
  BY DEF DecodeStep
<1>3. s.mode = 2 => DecodeStep(s, dec) =
                [out |-> Append(s.out, s.left * 16 + (dec \div 4)), left |-> dec % 4, mode |-> 3]
  BY DEF DecodeStep
<1>4. s.mode = 3 => DecodeStep(s, dec) =
                [out |-> Append(s.out, s.left * 64 + dec), left |-> s.left, mode |-> 0]
  <2>1. s.mode = 3 => DecodeStep(s, dec) = [s EXCEPT !.out = Append(s.out, s.left * 64 + dec), !.mode = 0]
    BY DEF DecodeStep
  <2>2. QED
    BY <2>1 DEF States
<1>5. QED
  BY <1>1, <1>2, <1>3, <1>4

\* What is encoded of the first n bytes of b, decoded.
RoundTrip(e, d, b, n) ==
    /\ e \in States /\ e.mode \in 0..2 /\ e.out \in Seq(Coded) /\ d \in States /\ d.mode = e.mode
    /\ e.mode = 0 => d.out = First(b, n)
    /\ e.mode # 0 => n # 0 /\ d.out = First(b, n - 1)
    /\ e.mode = 1 => d.left = b[n] \div 4 /\ e.left = (b[n] % 4) * 16
    /\ e.mode = 2 => d.left = b[n] \div 16 /\ e.left = (b[n] % 16) * 4

\* The characters of s are the first of p, and among its first m.
Starts(p, m, s) == Len(s) <= m /\ \A i \in 1..Len(s) : p[i] = s[i]

\* An element of a sequence is of its set.
LEMMA ElementOf == ASSUME NEW S, NEW s \in Seq(S), NEW i \in 1..Len(s) PROVE s[i] \in S
OBVIOUS

\* A sequence over a set is one over any larger set.
LEMMA SeqInSeq == ASSUME NEW T, NEW S \in SUBSET T, NEW s \in Seq(S) PROVE s \in Seq(T)
OBVIOUS

\* A sequence and what is appended to it.
LEMMA IntAppend ==
    ASSUME NEW S, NEW s \in Seq(S), NEW x \in S
    PROVE  /\ Append(s, x) \in Seq(S) /\ Len(Append(s, x)) = Len(s) + 1
           /\ Append(s, x)[Len(s) + 1] = x /\ \A i \in 1..Len(s) : Append(s, x)[i] = s[i]
OBVIOUS

\* A round of encoding that begins with no bits in hand, and one that begins with two.
LEMMA EncodeRound0 ==
    ASSUME NEW s \in States, NEW x \in 0..255, s.mode = 0
    PROVE  EncodeStep(s, x) = [out |-> Append(s.out, Pbase64(x \div 4)), left |-> (x % 4) * 16, mode |-> 1]
BY DEF EncodeStep

\* The same of a round that begins with two bits in hand.
LEMMA EncodeRound1 ==
    ASSUME NEW s \in States, NEW x \in 0..255, s.mode = 1
    PROVE  EncodeStep(s, x) =
             [out |-> Append(s.out, Pbase64(s.left + (x \div 16))), left |-> (x % 16) * 4, mode |-> 2]
BY DEF EncodeStep

\* One more byte encoded, its characters decoded.
LEMMA TripRound ==
    ASSUME NEW b \in Seq(0..255), NEW p, NEW m \in Nat, NEW n \in 1..Len(b), NEW e, NEW e1,
           e1 = EncodeStep(e, b[n]), RoundTrip(e, Decoding(p, m)[Len(e.out)], b, n - 1),
           Starts(p, m, e1.out)
    PROVE  RoundTrip(e1, Decoding(p, m)[Len(e1.out)], b, n)
<1> DEFINE k == Len(e.out)
           d == Decoding(p, m)[k]
           x == b[n]
<1>0. ASSUME NEW i \in 0..(m - 1), NEW c, c = Decode64(p[i + 1])
      PROVE  Decoding(p, m)[i + 1] = DecodeStep(Decoding(p, m)[i], c)
  <2>1. PICK j : j = i + 1
    OBVIOUS
  <2>2. j \in 1..m /\ j - 1 = i
    BY <2>1
  <2>3. Decoding(p, m)[j] = DecodeStep(Decoding(p, m)[j - 1], Decode64(p[j]))
    BY <2>2, DecodingRounds
  <2>4. QED
    BY <1>0, <2>1, <2>2, <2>3
<1>1. /\ x \in 0..255 /\ n \in Nat \ {0}
      /\ x \div 4 \in 0..63 /\ x \div 16 \in 0..15 /\ x \div 64 \in 0..3
      /\ x % 4 \in 0..3 /\ x % 16 \in 0..15 /\ x % 64 \in 0..63
      /\ (x \div 4) * 4 + (x % 4) = x /\ (x \div 16) * 16 + (x % 16) = x
      /\ (x \div 64) * 64 + (x % 64) = x
  <2>1. x \in 0..255
    BY ElementOf
  <2> HIDE DEF x
  <2>2. QED
    BY <2>1, CutByte DEF Cut
<1>2. /\ e \in States /\ e.mode \in 0..2 /\ e.out \in Seq(Coded) /\ d \in States /\ d.mode = e.mode
      /\ e.left \in Int /\ d.left \in Int /\ d.out \in Seq(Int) /\ k \in Nat
  BY DEF RoundTrip, States
<1>3. /\ First(b, n) = Append(First(b, n - 1), x)
      /\ n - 1 # 0 => First(b, n - 1) = Append(First(b, n - 2), b[n - 1])
  <2>1. First(b, n) = Append(First(b, n - 1), x)
    BY FirstGrows
  <2>2. ASSUME n - 1 # 0 PROVE First(b, n - 1) = Append(First(b, n - 2), b[n - 1])
    <3>1. n - 1 \in 1..Len(b) /\ n - 1 - 1 = n - 2
      BY <2>2
    <3>2. First(b, n - 1) = Append(First(b, n - 1 - 1), b[n - 1])
      BY <3>1, FirstGrows
    <3>3. QED
      BY <3>1, <3>2
  <2>3. QED
    BY <2>1, <2>2
<1> HIDE DEF d, k, x
\* The next character of p is that of the bits i.
<1>4. ASSUME NEW i \in 0..63, NEW s, s = Append(e.out, Pbase64(i)), Starts(p, m, s)
      PROVE  /\ s \in Seq(Coded) /\ s \in Seq(Int) /\ Len(s) = k + 1
             /\ Decoding(p, m)[Len(s)] = DecodeStep(d, i)
  <2>1. Pbase64(i) \in Coded /\ Decode64(Pbase64(i)) = i
    BY SixBits DEF Coded
  <2>2. s \in Seq(Coded) /\ Len(s) = k + 1 /\ s[k + 1] = Pbase64(i)
    BY <1>2, <1>4, <2>1, IntAppend DEF k
  <2>3. s \in Seq(Int)
    BY <2>2, CodedIsByte, SeqInSeq
  <2>4. k \in 0..(m - 1) /\ p[k + 1] = Pbase64(i)
    BY <1>2, <1>4, <2>2 DEF Starts
  <2>5. Decoding(p, m)[k + 1] = DecodeStep(Decoding(p, m)[k], i)
    <3>1. i = Decode64(p[k + 1])
      BY <2>1, <2>4
    <3>2. QED
      BY <1>0, <2>4, <3>1
  <2>6. QED
    BY <2>2, <2>3, <2>5 DEF d
<1>5. CASE e.mode = 0
  <2>1. e1 = [out |-> Append(e.out, Pbase64(x \div 4)), left |-> (x % 4) * 16, mode |-> 1]
    <3>1. EncodeStep(e, x) = [out |-> Append(e.out, Pbase64(x \div 4)), left |-> (x % 4) * 16, mode |-> 1]
      <4>1. e \in States /\ x \in 0..255
        BY <1>1, <1>2
      <4>2. QED
        BY <1>5, <4>1, EncodeRound0
    <3>2. QED
      BY <3>1 DEF x
  <2>2. /\ e1.out \in Seq(Coded) /\ e1.out \in Seq(Int)
        /\ Decoding(p, m)[Len(e1.out)] = DecodeStep(d, x \div 4)
    <3>1. e1.out = Append(e.out, Pbase64(x \div 4))
      BY <2>1
    <3>2. QED
      BY <1>1, <1>4, <3>1
  <2>3. DecodeStep(d, x \div 4) = [out |-> d.out, left |-> x \div 4, mode |-> 1]
    BY <1>1, <1>2, <1>5, DecodeRound, ZenonT(60)
  <2>4. d.out = First(b, n - 1)
    BY <1>5 DEF RoundTrip, d, k
  <2>5. e1 \in States /\ e1.mode = 1 /\ e1.left = (x % 4) * 16
    BY <1>1, <2>1, <2>2 DEF States
  <2>6. DecodeStep(d, x \div 4) \in States
    BY <1>1, <1>2, <2>3 DEF States
  <2>7. QED
    BY <1>1, <2>2, <2>3, <2>4, <2>5, <2>6, SMTT(30) DEF RoundTrip, x
<1>6. CASE e.mode = 1
  <2> DEFINE y == b[n - 1]
             dec == e.left + (x \div 16)
  <2>1. n - 1 # 0 /\ d.out = First(b, n - 2) /\ d.left = y \div 4 /\ e.left = (y % 4) * 16
    <3>1. n - 1 - 1 = n - 2
      BY <1>1
    <3>2. QED
      BY <1>6, <3>1 DEF RoundTrip, d, k
  <2>2. y \in 0..255 /\ y % 4 \in 0..3 /\ (y \div 4) * 4 + (y % 4) = y
    <3>1. n - 1 \in 1..Len(b)
      BY <1>1, <2>1
    <3>2. y \in 0..255
      BY <3>1, ElementOf
    <3> HIDE DEF y
    <3>3. QED
      BY <3>2, CutByte DEF Cut
  <2> HIDE DEF y
  <2>3. dec \in 0..63 /\ dec \div 16 = y % 4 /\ dec % 16 = x \div 16
    <3>1. \A l \in 0..3, r \in 0..15 :
             l * 16 + r \in 0..63 /\ (l * 16 + r) \div 16 = l /\ (l * 16 + r) % 16 = r
      BY Joined
    <3>2. dec = (y % 4) * 16 + (x \div 16)
      BY <2>1
    <3>3. PICK l, r : l = y % 4 /\ r = x \div 16
      OBVIOUS
    <3>4. l \in 0..3 /\ r \in 0..15 /\ dec = l * 16 + r
      BY <1>1, <2>2, <3>2, <3>3
    <3> HIDE DEF dec
    <3>5. QED
      BY ONLY <3>1, <3>3, <3>4
  <2> HIDE DEF dec
  <2>4. e1 = [out |-> Append(e.out, Pbase64(dec)), left |-> (x % 16) * 4, mode |-> 2]
    <3>1. EncodeStep(e, x) = [out |-> Append(e.out, Pbase64(e.left + (x \div 16))), left |-> (x % 16) * 4, mode |-> 2]
      <4>1. e \in States /\ x \in 0..255
        BY <1>1, <1>2
      <4>2. QED
        BY <1>6, <4>1, EncodeRound1
    <3>2. QED
      BY <3>1 DEF x, dec
  <2>5. /\ e1.out \in Seq(Coded) /\ e1.out \in Seq(Int)
        /\ Decoding(p, m)[Len(e1.out)] = DecodeStep(d, dec)
    <3>1. e1.out = Append(e.out, Pbase64(dec))
      BY <2>4
    <3>2. QED
      BY <1>4, <2>3, <3>1
  <2>6. DecodeStep(d, dec) = [out |-> Append(d.out, y), left |-> x \div 16, mode |-> 2]
    <3>1. DecodeStep(d, dec) = [out |-> Append(d.out, d.left * 4 + (dec \div 16)), left |-> dec % 16, mode |-> 2]
      BY <1>2, <1>6, <2>3, DecodeRound
    <3>2. d.left * 4 + (dec \div 16) = y
      BY <2>1, <2>2, <2>3
    <3>3. QED
      BY <2>3, <3>1, <3>2
  <2>7. Append(d.out, y) = First(b, n - 1) /\ Append(d.out, y) \in Seq(Int)
    <3>1. Append(d.out, y) = First(b, n - 1)
      BY <1>3, <2>1 DEF y
    <3>2. y \in Int /\ d.out \in Seq(Int)
      BY <1>2, <2>2
    <3>3. Append(d.out, y) \in Seq(Int)
      BY <3>2, IntAppend
    <3>4. QED
      BY <3>1, <3>3
  <2>8. e1 \in States /\ e1.mode = 2 /\ e1.left = (x % 16) * 4
    BY <1>1, <2>4, <2>5 DEF States
  <2>9. DecodeStep(d, dec) \in States
    BY <1>1, <1>2, <2>6, <2>7 DEF States
  <2>10. QED
    BY <1>1, <2>5, <2>6, <2>7, <2>8, <2>9 DEF RoundTrip, x
<1>7. CASE e.mode = 2
  <2> DEFINE y == b[n - 1]
             dec == e.left + (x \div 64)
             s == Append(e.out, Pbase64(dec))
  <2>1. n - 1 # 0 /\ d.out = First(b, n - 2) /\ d.left = y \div 16 /\ e.left = (y % 16) * 4
    <3>1. n - 1 - 1 = n - 2
      BY <1>1
    <3>2. QED
      BY <1>7, <3>1 DEF RoundTrip, d, k
  <2>2. y \in 0..255 /\ y % 16 \in 0..15 /\ (y \div 16) * 16 + (y % 16) = y
    <3>1. n - 1 \in 1..Len(b)
      BY <1>1, <2>1
    <3>2. y \in 0..255
      BY <3>1, ElementOf
    <3> HIDE DEF y
    <3>3. QED
      BY <3>2, CutByte DEF Cut
  <2> HIDE DEF y
  <2>3. dec \in 0..63 /\ dec \div 4 = y % 16 /\ dec % 4 = x \div 64
    <3>1. \A l \in 0..15, r \in 0..3 :
             l * 4 + r \in 0..63 /\ (l * 4 + r) \div 4 = l /\ (l * 4 + r) % 4 = r
      BY Joined
    <3>2. dec = (y % 16) * 4 + (x \div 64)
      BY <2>1
    <3>3. PICK l, r : l = y % 16 /\ r = x \div 64
      OBVIOUS
    <3>4. l \in 0..15 /\ r \in 0..3 /\ dec = l * 4 + r
      BY <1>1, <2>2, <3>2, <3>3
    <3> HIDE DEF dec
    <3>5. dec \in 0..63 /\ dec \div 4 = l /\ dec % 4 = r
      BY <3>1, <3>4
    <3>6. QED
      BY <3>3, <3>5
  <2> HIDE DEF dec
  <2>4. e1 = [out |-> Append(s, Pbase64(x % 64)), left |-> e.left, mode |-> 0]
    BY <1>1, <1>2, <1>7, EncodeRound, ZenonT(60) DEF x, dec
  <2>5. s \in Seq(Coded) /\ Len(s) = k + 1 /\ Pbase64(x % 64) \in Coded /\ Decode64(Pbase64(x % 64)) = x % 64
    <3>1. Pbase64(dec) \in Coded /\ Pbase64(x % 64) \in Coded /\ Decode64(Pbase64(x % 64)) = x % 64
      BY <1>1, <2>3, SixBits DEF Coded
    <3>2. QED
      BY <1>2, <3>1, IntAppend DEF k
  <2>6. /\ e1.out \in Seq(Coded) /\ Len(e1.out) = k + 2 /\ e1.out[k + 2] = Pbase64(x % 64)
        /\ \A i \in 1..(k + 1) : e1.out[i] = s[i]
    <3>1. e1.out = Append(s, Pbase64(x % 64))
      BY <2>4
    <3>2. k + 1 + 1 = k + 2
      BY <1>2
    <3> HIDE DEF s
    <3>3. QED
      BY <2>5, <3>1, <3>2, IntAppend
  <2>7. Starts(p, m, s)
    BY <1>2, <2>5, <2>6 DEF Starts
  <2>8. Decoding(p, m)[k + 1] = DecodeStep(d, dec)
    BY <1>4, <2>3, <2>5, <2>7
  <2>9. DecodeStep(d, dec) = [out |-> Append(d.out, y), left |-> x \div 64, mode |-> 3]
    <3>1. DecodeStep(d, dec) = [out |-> Append(d.out, d.left * 16 + (dec \div 4)), left |-> dec % 4, mode |-> 3]
      BY <1>2, <1>7, <2>3, DecodeRound
    <3>2. d.left * 16 + (dec \div 4) = y
      BY <2>1, <2>2, <2>3
    <3>3. QED
      BY <2>3, <3>1, <3>2
  <2>10. Append(d.out, y) = First(b, n - 1) /\ Append(d.out, y) \in Seq(Int)
    <3>1. Append(d.out, y) = First(b, n - 1)
      BY <1>3, <2>1 DEF y
    <3>2. y \in Int /\ d.out \in Seq(Int)
      BY <1>2, <2>2
    <3>3. Append(d.out, y) \in Seq(Int)
      BY <3>2, IntAppend
    <3>4. QED
      BY <3>1, <3>3
  <2>11. DecodeStep(d, dec) \in States
    BY <1>1, <2>9, <2>10 DEF States
  <2>12. Decoding(p, m)[k + 2] = DecodeStep(DecodeStep(d, dec), x % 64)
    <3>1. PICK i : i = k + 1
      OBVIOUS
    <3>2. i \in 0..(m - 1) /\ i + 1 = k + 2 /\ p[i + 1] = Pbase64(x % 64)
      BY <1>2, <2>6, <3>1 DEF Starts
    <3>3. x % 64 = Decode64(p[i + 1])
      BY <2>5, <3>2
    <3>4. Decoding(p, m)[i + 1] = DecodeStep(Decoding(p, m)[i], x % 64)
      BY <1>0, <3>2, <3>3
    <3>5. QED
      BY <2>8, <3>1, <3>2, <3>4
  <2>13. DecodeStep(DecodeStep(d, dec), x % 64) = [out |-> Append(First(b, n - 1), x), left |-> x \div 64, mode |-> 0]
    <3>1. PICK c : c = DecodeStep(d, dec)
      OBVIOUS
    <3>2. c \in States /\ c.mode = 3 /\ c.out = First(b, n - 1) /\ c.left = x \div 64
      <4>1. c = [out |-> First(b, n - 1), left |-> x \div 64, mode |-> 3]
        BY <2>9, <2>10, <3>1
      <4>2. QED
        BY <2>11, <3>1, <4>1
    <3>3. DecodeStep(c, x % 64) = [out |-> Append(c.out, c.left * 64 + (x % 64)), left |-> c.left, mode |-> 0]
      BY <1>1, <3>2, DecodeRound
    <3>4. QED
      BY <1>1, <3>1, <3>2, <3>3
  <2>14. Append(First(b, n - 1), x) \in Seq(Int)
    BY <1>1, <2>10
  <2>15. e1 \in States /\ e1.mode = 0
    <3>1. e1.out \in Seq(Int)
      BY <2>6, CodedIsByte, SeqInSeq
    <3>2. QED
      BY <1>2, <2>4, <3>1 DEF States
  <2>16. PICK c : c = Decoding(p, m)[Len(e1.out)]
    OBVIOUS
  <2>17. c = [out |-> First(b, n), left |-> x \div 64, mode |-> 0]
    BY <1>3, <2>6, <2>12, <2>13, <2>16
  <2>18. c \in States /\ c.mode = 0 /\ c.out = First(b, n)
    BY <1>1, <1>3, <2>14, <2>17 DEF States
  <2>19. QED
    BY <1>1, <2>6, <2>15, <2>16, <2>18 DEF RoundTrip
<1>8. QED
  BY <1>2, <1>5, <1>6, <1>7

\* A state of the loop over the bytes: the bits in hand are the upper ones.
EncodeTyped(e) ==
    /\ e \in States /\ e.mode \in 0..2 /\ e.out \in Seq(Coded)
    /\ e.mode = 1 => \E l \in 0..3 : e.left = l * 16
    /\ e.mode = 2 => \E l \in 0..15 : e.left = l * 4

\* The sequence s with more behind it.
IsBeginning(s, t) == Len(s) <= Len(t) /\ \A i \in 1..Len(s) : t[i] = s[i]

\* A beginning of a beginning is a beginning.
LEMMA BeginsTransitive ==
    ASSUME NEW s, NEW t, NEW u, Len(s) \in Nat, Len(t) \in Nat, Len(u) \in Nat, IsBeginning(s, t), IsBeginning(t, u)
    PROVE  IsBeginning(s, u)
<1>1. \A i \in 1..Len(s) : i \in 1..Len(t)
  BY DEF IsBeginning
<1>2. \A i \in 1..Len(s) : t[i] = s[i]
  BY DEF IsBeginning
<1>3. \A i \in 1..Len(t) : u[i] = t[i]
  BY DEF IsBeginning
<1>4. Len(s) <= Len(u)
  BY DEF IsBeginning
<1>5. QED
  BY <1>1, <1>2, <1>3, <1>4 DEF IsBeginning

\* A character of Base64 appended.
LEMMA CodedAppend ==
    ASSUME NEW s \in Seq(Coded), NEW i \in 0..63
    PROVE  /\ Append(s, Pbase64(i)) \in Seq(Coded) /\ Append(s, Pbase64(i)) \in Seq(Int)
           /\ Len(Append(s, Pbase64(i))) = Len(s) + 1
           /\ Append(s, Pbase64(i))[Len(s) + 1] = Pbase64(i) /\ IsBeginning(s, Append(s, Pbase64(i)))
<1>1. Pbase64(i) \in Coded
  BY DEF Coded
<1>2. /\ Append(s, Pbase64(i)) \in Seq(Coded) /\ Len(Append(s, Pbase64(i))) = Len(s) + 1
      /\ Append(s, Pbase64(i))[Len(s) + 1] = Pbase64(i)
      /\ \A j \in 1..Len(s) : Append(s, Pbase64(i))[j] = s[j]
  BY <1>1, IntAppend
<1>3. Append(s, Pbase64(i)) \in Seq(Int)
  BY <1>2, CodedIsByte, SeqInSeq
<1>4. QED
  BY <1>2, <1>3 DEF IsBeginning

\* A round of encoding only appends, and keeps the number of bits in hand.
LEMMA EncodeGrows ==
    ASSUME NEW e, EncodeTyped(e), NEW x \in 0..255
    PROVE  EncodeTyped(EncodeStep(e, x)) /\ IsBeginning(e.out, EncodeStep(e, x).out)
<1>1. /\ x \div 4 \in 0..63 /\ x \div 16 \in 0..15 /\ x \div 64 \in 0..3
      /\ x % 4 \in 0..3 /\ x % 16 \in 0..15 /\ x % 64 \in 0..63
  BY CutByte DEF Cut
<1>2. e \in States /\ e.mode \in 0..2 /\ e.out \in Seq(Coded) /\ Len(e.out) \in Nat
  BY DEF EncodeTyped
<1>3. CASE e.mode = 0
  <2>1. EncodeStep(e, x) = [out |-> Append(e.out, Pbase64(x \div 4)), left |-> (x % 4) * 16, mode |-> 1]
    BY <1>2, <1>3, EncodeRound
  <2>2. PICK s : s = Append(e.out, Pbase64(x \div 4))
    OBVIOUS
  <2>3. s \in Seq(Coded) /\ s \in Seq(Int) /\ IsBeginning(e.out, s)
    BY <1>1, <1>2, <2>2, CodedAppend
  <2>4. QED
    BY <1>1, <2>1, <2>2, <2>3 DEF EncodeTyped, States
<1>4. CASE e.mode = 1
  <2>1. EncodeStep(e, x) = [out |-> Append(e.out, Pbase64(e.left + (x \div 16))), left |-> (x % 16) * 4, mode |-> 2]
    BY <1>2, <1>4, EncodeRound
  <2>2. PICK l \in 0..3 : e.left = l * 16
    BY <1>4 DEF EncodeTyped
  <2>3. e.left + (x \div 16) \in 0..63
    BY <1>1, <2>2
  <2>4. PICK s : s = Append(e.out, Pbase64(e.left + (x \div 16)))
    OBVIOUS
  <2>5. s \in Seq(Coded) /\ s \in Seq(Int) /\ IsBeginning(e.out, s)
    BY <1>2, <2>3, <2>4, CodedAppend
  <2>6. QED
    BY <1>1, <2>1, <2>4, <2>5 DEF EncodeTyped, States
<1>5. CASE e.mode = 2
  <2>1. EncodeStep(e, x) = [out |-> Append(Append(e.out, Pbase64(e.left + (x \div 64))), Pbase64(x % 64)),
                            left |-> e.left, mode |-> 0]
    BY <1>2, <1>5, EncodeRound
  <2>2. PICK l \in 0..15 : e.left = l * 4
    BY <1>5 DEF EncodeTyped
  <2>3. e.left + (x \div 64) \in 0..63 /\ e.left \in Int
    BY <1>1, <2>2
  <2>4. PICK s : s = Append(e.out, Pbase64(e.left + (x \div 64)))
    OBVIOUS
  <2>5. s \in Seq(Coded) /\ Len(s) = Len(e.out) + 1 /\ IsBeginning(e.out, s)
    BY <1>2, <2>3, <2>4, CodedAppend
  <2>6. PICK t : t = Append(s, Pbase64(x % 64))
    OBVIOUS
  <2>7. t \in Seq(Coded) /\ t \in Seq(Int) /\ IsBeginning(s, t)
    BY <1>1, <2>5, <2>6, CodedAppend
  <2>8. IsBeginning(e.out, t)
    <3>1. Len(s) \in Nat /\ Len(t) \in Nat
      BY <2>5, <2>7
    <3>2. QED
      BY <1>2, <2>5, <2>7, <3>1, BeginsTransitive
  <2>9. QED
    BY <2>1, <2>3, <2>4, <2>6, <2>7, <2>8 DEF EncodeTyped, States
<1>6. QED
  BY <1>2, <1>3, <1>4, <1>5

\* The loop begins with nothing.
LEMMA BeginTyped ==
    /\ EncodeTyped(Begin) /\ Begin \in States
    /\ Begin.out = <<>> /\ Begin.left = 0 /\ Begin.mode = 0 /\ Len(Begin.out) = 0
<1>1. <<>> \in Seq(Coded) /\ <<>> \in Seq(Int) /\ Len(<<>>) = 0
  OBVIOUS
<1>2. QED
  BY <1>1 DEF EncodeTyped, Begin, States

\* Every round of encoding has written characters of Base64.
LEMMA EncodingTyped ==
    ASSUME NEW b \in Seq(0..255), NEW n \in 0..Len(b)
    PROVE  EncodeTyped(Encoding(b)[n])
<1> SUFFICES ASSUME ~EncodeTyped(Encoding(b)[n]) PROVE FALSE
  OBVIOUS
<1> DEFINE Bad == {i \in 0..Len(b) : ~EncodeTyped(Encoding(b)[i])}
<1>1. PICK i \in Bad : \A j \in Bad : i <= j
  <2>1. Bad \in SUBSET Nat /\ n \in Bad
    OBVIOUS
  <2> HIDE DEF Bad
  <2>2. QED
    BY <2>1, LeastNumber
<1>2. CASE i = 0
  <2>1. Encoding(b)[0] = Begin
    BY EncodingRounds
  <2>2. QED
    BY <1>1, <1>2, <2>1, BeginTyped
<1>3. CASE i # 0
  <2>1. i \in 1..Len(b) /\ i - 1 \in 0..Len(b) /\ i - 1 \notin Bad
    BY <1>1, <1>3
  <2>2. b[i] \in 0..255
    BY <2>1, ElementOf
  <2>3. EncodeTyped(EncodeStep(Encoding(b)[i - 1], b[i]))
    BY <2>1, <2>2, EncodeGrows
  <2>4. Encoding(b)[i] = EncodeStep(Encoding(b)[i - 1], b[i])
    BY <2>1, EncodingRounds
  <2>5. QED
    BY <1>1, <2>3, <2>4
<1>4. QED
  BY <1>2, <1>3

\* What is encoded of the first n bytes decodes to them.
LEMMA TripHolds ==
    ASSUME NEW b \in Seq(0..255), NEW p, NEW m \in Nat, NEW n \in 0..Len(b),
           Starts(p, m, Encoding(b)[n].out)
    PROVE  RoundTrip(Encoding(b)[n], Decoding(p, m)[Len(Encoding(b)[n].out)], b, n)
<1> DEFINE S(i) == Starts(p, m, Encoding(b)[i].out)
           R(i) == RoundTrip(Encoding(b)[i], Decoding(p, m)[Len(Encoding(b)[i].out)], b, i)
<1> SUFFICES ASSUME S(n), ~R(n) PROVE FALSE
  OBVIOUS
<1> DEFINE Bad == {i \in 0..Len(b) : S(i) /\ ~R(i)}
<1> HIDE DEF S, R
<1>1. PICK i \in Bad : \A j \in Bad : i <= j
  <2>1. Bad \in SUBSET Nat /\ n \in Bad
    OBVIOUS
  <2> HIDE DEF Bad
  <2>2. QED
    BY <2>1, LeastNumber
<1>2. CASE i = 0
  <2>1. Encoding(b)[0] = Begin /\ Decoding(p, m)[0] = Begin
    BY EncodingRounds, DecodingRounds
  <2>2. First(b, 0) = <<>>
    BY FirstAll
  <2>3. RoundTrip(Begin, Begin, b, 0)
    BY <2>2, BeginTyped DEF RoundTrip, EncodeTyped
  <2>4. R(0)
    BY <2>1, <2>3, BeginTyped DEF R
  <2>5. QED
    BY <1>1, <1>2, <2>4
<1>3. CASE i # 0
  <2>1. i \in 1..Len(b) /\ i - 1 \in 0..Len(b) /\ i - 1 \notin Bad /\ S(i) /\ ~R(i)
    BY <1>1, <1>3
  <2>2. PICK e : e = Encoding(b)[i - 1]
    OBVIOUS
  <2>3. PICK e1 : e1 = Encoding(b)[i]
    OBVIOUS
  <2>4. e1 = EncodeStep(e, b[i])
    BY <2>1, <2>2, <2>3, EncodingRounds
  <2>5. EncodeTyped(e) /\ b[i] \in 0..255
    BY <2>1, <2>2, ElementOf, EncodingTyped
  <2>6. IsBeginning(e.out, e1.out) /\ e.out \in Seq(Coded) /\ e1.out \in Seq(Coded)
    BY <2>4, <2>5, EncodeGrows DEF EncodeTyped
  <2>7. Starts(p, m, e1.out)
    BY <2>1, <2>3 DEF S
  <2>8. Starts(p, m, e.out)
    BY <2>6, <2>7 DEF Starts, IsBeginning
  <2>9. RoundTrip(e, Decoding(p, m)[Len(e.out)], b, i - 1)
    BY <2>1, <2>2, <2>8 DEF S, R
  <2>10. RoundTrip(e1, Decoding(p, m)[Len(e1.out)], b, i)
    BY <2>1, <2>4, <2>7, <2>9, TripRound
  <2>11. QED
    BY <2>1, <2>3, <2>10 DEF R
<1>4. QED
  BY <1>2, <1>3

\* Neither the end of a C string nor the padding has a value.
LEMMA NoValues == Decode64(0) = -1 /\ Decode64(Pad) = -1 /\ Pad \in Int
BY DEF Decode64, Pad

\* Every character of Base64 has one.
LEMMA CodedValues == \A c \in Coded : Decode64(c) # -1 /\ c \in Int
<1>1. \A i \in 0..63 : Pbase64(i) \in 1..255 /\ Decode64(Pbase64(i)) = i
  BY SixBits
<1>2. \A i \in 0..63 : Pbase64(i) \in Int /\ Decode64(Pbase64(i)) # -1
  <2> SUFFICES ASSUME NEW i \in 0..63 PROVE Pbase64(i) \in Int /\ Decode64(Pbase64(i)) # -1
    OBVIOUS
  <2>1. Pbase64(i) \in 1..255 /\ Decode64(Pbase64(i)) = i
    BY <1>1
  <2>2. QED
    BY <2>1
<1>3. QED
  BY <1>2 DEF Coded

\* Decoding takes the characters before the first of no value.
LEMMA ValidIs ==
    ASSUME NEW p \in Seq(Int), NEW n \in 0..Len(p),
           Decode64(At(p, n + 1)) = -1, \A i \in 1..n : Decode64(p[i]) # -1
    PROVE  Valid(p) = n
<1> DEFINE V(k) == Decode64(At(p, k + 1)) = -1 /\ \A i \in 1..k : Decode64(p[i]) # -1
<1>1. Valid(p) = CHOOSE k \in 0..Len(p) : V(k)
  BY DEF Valid
<1>2. \A k \in 0..Len(p) : V(k) => k = n
  <2> SUFFICES ASSUME NEW k \in 0..Len(p), V(k), k # n PROVE FALSE
    OBVIOUS
  <2>1. CASE k < n
    <3>1. k + 1 \in 1..n /\ k + 1 \in DOMAIN p
      BY <2>1
    <3>2. QED
      BY <3>1 DEF At
  <2>2. CASE n < k
    <3>1. n + 1 \in 1..k /\ n + 1 \in DOMAIN p
      BY <2>2
    <3>2. QED
      BY <3>1 DEF At
  <2>3. QED
    BY <2>1, <2>2
<1>3. V(n)
  OBVIOUS
<1> HIDE DEF V
<1>4. QED
  BY <1>1, <1>2, <1>3

\* Decoding stops somewhere, at the end of the text at the latest.
LEMMA ValidExists ==
    ASSUME NEW p \in Seq(Int)
    PROVE  /\ Valid(p) \in 0..Len(p) /\ Decode64(At(p, Valid(p) + 1)) = -1
           /\ \A i \in 1..Valid(p) : Decode64(p[i]) # -1
<1> DEFINE Stops == {n \in 0..Len(p) : Decode64(At(p, n + 1)) = -1}
<1>1. Len(p) \in Stops
  <2>1. At(p, Len(p) + 1) = 0 /\ Len(p) \in 0..Len(p)
    BY DEF At
  <2>2. QED
    BY <2>1, NoValues
<1>2. PICK n \in Stops : \A k \in Stops : n <= k
  <2>1. Stops \in SUBSET Nat
    OBVIOUS
  <2> HIDE DEF Stops
  <2>2. QED
    BY <1>1, <2>1, LeastNumber
<1>3. \A i \in 1..n : Decode64(p[i]) # -1
  <2> SUFFICES ASSUME NEW i \in 1..n, Decode64(p[i]) = -1 PROVE FALSE
    OBVIOUS
  <2>1. PICK k : k = i - 1
    OBVIOUS
  <2>2. k \in 0..Len(p) /\ k + 1 = i /\ i \in DOMAIN p
    BY <2>1
  <2>3. k \in Stops
    BY <2>2 DEF At
  <2>4. n <= k
    BY <1>2, <2>3
  <2>5. n \in Nat
    OBVIOUS
  <2> HIDE DEF Stops
  <2>6. QED
    BY <2>1, <2>4, <2>5
<1>4. n \in 0..Len(p) /\ Decode64(At(p, n + 1)) = -1
  OBVIOUS
<1> HIDE DEF Stops
<1>5. Valid(p) = n
  BY <1>3, <1>4, ValidIs
<1>6. QED
  BY <1>3, <1>4, <1>5

\* A text of characters of the code, then one of none: what comes of it.
LEMMA DecodesTo ==
    ASSUME NEW p \in Seq(Int), NEW s, NEW m \in 0..Len(p), s = Decoding(p, m)[m],
           \A i \in 1..m : p[i] \in Coded, Decode64(At(p, m + 1)) = -1, Ends(s, p, m)
    PROVE  DecodeBase64(p) = [bytes |-> s.out, invalid |-> FALSE]
<1>1. \A i \in 1..m : Decode64(p[i]) # -1
  BY CodedValues
<1>2. Valid(p) = m
  BY <1>1, ValidIs
<1>3. QED
  BY <1>2 DEF DecodeBase64

\* The text with the padding behind it, place by place.
LEMMA PadsBehind ==
    ASSUME NEW s \in Seq(Coded), NEW i \in 0..63, NEW p,
           \/ p = s \o <<Pbase64(i), Pad, Pad>> /\ Len(p) = Len(s) + 3
           \/ p = s \o <<Pbase64(i), Pad>> /\ Len(p) = Len(s) + 2
    PROVE  /\ p \in Seq(Int)
           /\ \A j \in 1..Len(s) : p[j] = s[j]
           /\ p[Len(s) + 1] = Pbase64(i)
           /\ p[Len(s) + 2] = Pad
           /\ Len(p) = Len(s) + 3 => p[Len(s) + 3] = Pad
<1>1. s \in Seq(Int) /\ Pbase64(i) \in Int /\ Pad \in Int /\ Len(s) \in Nat
  <2>1. s \in Seq(Int)
    BY CodedIsByte, SeqInSeq
  <2>2. Pbase64(i) \in Coded
    BY DEF Coded
  <2>3. QED
    BY <2>1, <2>2, CodedValues, NoValues
<1>2. PICK c : c = Pbase64(i)
  OBVIOUS
<1>3. CASE p = s \o <<Pbase64(i), Pad, Pad>> /\ Len(p) = Len(s) + 3
  <2>1. p = s \o <<c, Pad, Pad>> /\ c \in Int
    BY <1>1, <1>2, <1>3
  <2>2. QED
    BY <1>1, <1>2, <1>3, <2>1
<1>4. CASE p = s \o <<Pbase64(i), Pad>> /\ Len(p) = Len(s) + 2
  <2>1. p = s \o <<c, Pad>> /\ c \in Int
    BY <1>1, <1>2, <1>4
  <2>2. QED
    BY <1>1, <1>2, <1>4, <2>1
<1>5. QED
  BY <1>3, <1>4

\* The last character of a text that ends in pads stands for the bits i.
LastDecoded(b, e, i, p) ==
    \E d, m : /\ m = Len(e.out) + 1 /\ m \in 0..Len(p)
              /\ RoundTrip(e, d, b, Len(b))
              /\ Decoding(p, m)[m] = DecodeStep(d, i)
              /\ \A j \in 1..m : p[j] \in Coded
              /\ Decode64(At(p, m + 1)) = -1

\* The bits left over, in a character of their own, decode to the last bits of the last byte.
LEMMA LastCharacter ==
    ASSUME NEW b \in Seq(0..255), NEW e, e = Encoding(b)[Len(b)], NEW i \in 0..63, NEW p \in Seq(Int),
           Len(p) > Len(e.out) + 1, \A j \in 1..Len(e.out) : p[j] = e.out[j], p[Len(e.out) + 1] = Pbase64(i),
           p[Len(e.out) + 2] = Pad
    PROVE  LastDecoded(b, e, i, p)
<1>1. PICK k : k = Len(e.out)
  OBVIOUS
<1>2. PICK m : m = k + 1
  OBVIOUS
<1>3. EncodeTyped(e) /\ e.out \in Seq(Coded) /\ k \in Nat /\ m \in 0..Len(p) /\ m \in Nat /\ m \in 1..m
  <2>1. EncodeTyped(e)
    <3>1. Len(b) \in 0..Len(b)
      OBVIOUS
    <3>2. QED
      BY <3>1, EncodingTyped
  <2>2. e.out \in Seq(Coded)
    BY <2>1 DEF EncodeTyped
  <2>3. QED
    BY <1>1, <1>2, <2>1, <2>2
<1>4. Starts(p, m, e.out)
  BY <1>1, <1>2, <1>3 DEF Starts
<1>5. PICK d : d = Decoding(p, m)[k]
  OBVIOUS
<1>6. RoundTrip(e, d, b, Len(b))
  <2>1. Len(b) \in 0..Len(b)
    OBVIOUS
  <2>2. QED
    BY <1>1, <1>3, <1>4, <1>5, <2>1, TripHolds
<1>7. Decoding(p, m)[m] = DecodeStep(d, i)
  <2>1. Decoding(p, m)[m] = DecodeStep(Decoding(p, m)[m - 1], Decode64(p[m]))
    BY <1>3, DecodingRounds
  <2>2. m - 1 = k
    BY <1>2, <1>3
  <2>3. Decode64(p[m]) = i
    BY <1>1, <1>2, SixBits
  <2>4. QED
    BY <1>5, <2>1, <2>2, <2>3
<1>8. \A j \in 1..m : p[j] \in Coded
  <2> SUFFICES ASSUME NEW j \in 1..m PROVE p[j] \in Coded
    OBVIOUS
  <2>1. CASE j = m
    BY <1>1, <1>2, <2>1 DEF Coded
  <2>2. CASE j # m
    <3>1. j \in 1..Len(e.out)
      BY <1>1, <1>2, <1>3, <2>2
    <3>2. e.out[j] \in Coded
      BY <1>3, <3>1, ElementOf
    <3>3. QED
      BY <3>1, <3>2
  <2>3. QED
    BY <2>1, <2>2
<1>9. Decode64(At(p, m + 1)) = -1
  <2>1. m + 1 = Len(e.out) + 2 /\ m + 1 \in DOMAIN p
    BY <1>1, <1>2, <1>3
  <2>2. At(p, m + 1) = Pad
    BY <2>1 DEF At
  <2>3. QED
    BY <2>2, NoValues
<1>10. QED
  BY <1>1, <1>2, <1>3, <1>6, <1>7, <1>8, <1>9 DEF LastDecoded

\* A login is decoded as it was.
LEMMA LoginDecodes ==
    ASSUME NEW b \in Seq(0..255)
    PROVE  DecodeBase64(EncodeBase64(b)) = [bytes |-> b, invalid |-> FALSE]
<1>1. PICK e : e = Encoding(b)[Len(b)]
  OBVIOUS
<1>2. PICK p : p = EncodeBase64(b)
  OBVIOUS
<1>3. EncodeTyped(e) /\ e \in States /\ e.mode \in 0..2 /\ e.out \in Seq(Coded) /\ Len(e.out) \in Nat
  BY <1>1, EncodingTyped DEF EncodeTyped
<1>4. /\ e.mode = 0 => p = e.out
      /\ e.mode = 1 => p = e.out \o <<Pbase64(e.left), Pad, Pad>>
      /\ e.mode = 2 => p = e.out \o <<Pbase64(e.left), Pad>>
  <2>1. p = CASE e.mode = 0 -> e.out
              [] e.mode = 1 -> e.out \o <<Pbase64(e.left), Pad, Pad>>
              [] e.mode = 2 -> e.out \o <<Pbase64(e.left), Pad>>
    BY <1>1, <1>2 DEF EncodeBase64
  <2>2. QED
    BY <2>1
<1>5. Len(b) \in Nat /\ Len(b) \in 0..Len(b) /\ First(b, Len(b)) = b
  BY FirstAll
<1>6. CASE e.mode = 0
  <2>1. PICK m : m = Len(p)
    OBVIOUS
  <2>2. p = e.out /\ p \in Seq(Int) /\ m \in Nat /\ m \in 0..Len(p) /\ Starts(p, m, e.out)
    <3>1. e.out \in Seq(Int)
      BY <1>3, CodedIsByte, SeqInSeq
    <3>2. QED
      BY <1>3, <1>4, <1>6, <2>1, <3>1 DEF Starts
  <2>3. PICK d : d = Decoding(p, m)[m]
    OBVIOUS
  <2>4. RoundTrip(e, d, b, Len(b))
    BY <1>1, <1>5, <2>1, <2>2, <2>3, TripHolds
  <2>5. d.mode = 0 /\ d.out = b
    BY <1>5, <1>6, <2>4 DEF RoundTrip
  <2>6. \A i \in 1..m : p[i] \in Coded
    BY <1>3, <2>1, <2>2, ElementOf
  <2>7. Decode64(At(p, m + 1)) = -1
    <3>1. At(p, m + 1) = 0
      BY <2>1, <2>2 DEF At
    <3>2. QED
      BY <3>1, NoValues
  <2>8. Ends(d, p, m)
    BY <2>5 DEF Ends
  <2>9. DecodeBase64(p) = [bytes |-> d.out, invalid |-> FALSE]
    BY <2>2, <2>3, <2>6, <2>7, <2>8, DecodesTo
  <2>10. QED
    BY <1>2, <2>5, <2>9
<1>7. CASE e.mode = 1
  <2>1. PICK l \in 0..3 : e.left = l * 16
    BY <1>3, <1>7 DEF EncodeTyped
  <2>2. e.left \in 0..63
    BY <2>1
  <2>3. p = e.out \o <<Pbase64(e.left), Pad, Pad>> /\ Len(p) = Len(e.out) + 3
    <3>1. p = e.out \o <<Pbase64(e.left), Pad, Pad>>
      BY <1>4, <1>7
    <3>2. PICK x : x = Pbase64(e.left)
      OBVIOUS
    <3>3. Len(e.out \o <<x, Pad, Pad>>) = Len(e.out) + 3
      BY <1>3
    <3>4. QED
      BY <3>1, <3>2, <3>3
  <2>4. /\ p \in Seq(Int) /\ \A j \in 1..Len(e.out) : p[j] = e.out[j]
        /\ p[Len(e.out) + 1] = Pbase64(e.left) /\ p[Len(e.out) + 2] = Pad /\ p[Len(e.out) + 3] = Pad
    <3>1. PICK i : i = e.left
      OBVIOUS
    <3>2. PICK u : u = e.out
      OBVIOUS
    <3>3. /\ u \in Seq(Coded) /\ i \in 0..63
          /\ \/ p = u \o <<Pbase64(i), Pad, Pad>> /\ Len(p) = Len(u) + 3
             \/ p = u \o <<Pbase64(i), Pad>> /\ Len(p) = Len(u) + 2
      BY <1>3, <2>2, <2>3, <3>1, <3>2
    <3>4. /\ p \in Seq(Int) /\ \A j \in 1..Len(u) : p[j] = u[j]
          /\ p[Len(u) + 1] = Pbase64(i) /\ p[Len(u) + 2] = Pad
          /\ Len(p) = Len(u) + 3 => p[Len(u) + 3] = Pad
      BY <3>3, PadsBehind, ZenonT(60)
    <3>5. QED
      BY <2>3, <3>1, <3>2, <3>4
  <2>5. PICK d, m : /\ m = Len(e.out) + 1 /\ m \in 0..Len(p)
                    /\ RoundTrip(e, d, b, Len(b))
                    /\ Decoding(p, m)[m] = DecodeStep(d, e.left)
                    /\ \A j \in 1..m : p[j] \in Coded
                    /\ Decode64(At(p, m + 1)) = -1
    <3>1. Len(p) > Len(e.out) + 1
      BY <1>3, <2>3
    <3>2. PICK i : i = e.left
      OBVIOUS
    <3>3. i \in 0..63 /\ p[Len(e.out) + 1] = Pbase64(i)
      BY <2>2, <2>4, <3>2
    <3>4. LastDecoded(b, e, i, p)
      BY <1>1, <2>4, <3>1, <3>3, LastCharacter
    <3>5. QED
      BY <3>2, <3>4 DEF LastDecoded
  <2>6. PICK y : y = b[Len(b)]
    OBVIOUS
  <2>7. Len(b) # 0 /\ d \in States /\ d.mode = 1 /\ d.out = First(b, Len(b) - 1) /\ d.left = y \div 4 /\ e.left = (y % 4) * 16
    BY <1>7, <2>5, <2>6 DEF RoundTrip
  <2>8. Len(b) \in 1..Len(b) /\ y \in 0..255
    <3>1. Len(b) \in 1..Len(b)
      BY <1>5, <2>7
    <3>2. QED
      BY <2>6, <3>1, ElementOf
  <2>9. (y \div 4) * 4 + (y % 4) = y /\ y % 4 \in 0..3
    BY <2>8, CutByte DEF Cut
  <2>10. e.left \div 16 = y % 4 /\ e.left % 16 = 0
    <3>1. PICK r : r = y % 4
      OBVIOUS
    <3>2. e.left = r * 16 /\ r \in 0..3
      BY <2>7, <2>9, <3>1
    <3>3. e.left \div 16 = r /\ e.left % 16 = 0
      BY <3>2
    <3>4. QED
      BY <3>1, <3>3
  <2>11. DecodeStep(d, e.left) = [out |-> Append(d.out, d.left * 4 + (e.left \div 16)), left |-> e.left % 16, mode |-> 2]
    BY <2>2, <2>7, DecodeRound
  <2>12. d.left * 4 + (e.left \div 16) = y
    BY <2>7, <2>9, <2>10
  <2>13. PICK s : s = Decoding(p, m)[m]
    OBVIOUS
  <2>14. s = [out |-> Append(First(b, Len(b) - 1), y), left |-> 0, mode |-> 2]
    BY <2>5, <2>7, <2>10, <2>11, <2>12, <2>13
  <2>15. Append(First(b, Len(b) - 1), y) = b
    BY <1>5, <2>6, <2>8, FirstGrows
  <2>16. s.out = b /\ s.left = 0 /\ s.mode = 2
    BY <2>14, <2>15
  <2>17. At(p, m + 1) = Pad /\ At(p, m + 2) = Pad /\ Decode64(At(p, m + 3)) = -1
    <3>1. m + 1 = Len(e.out) + 2 /\ m + 2 = Len(e.out) + 3
      BY <1>3, <2>5
    <3>2. m + 1 \in DOMAIN p /\ m + 2 \in DOMAIN p /\ m + 3 \notin DOMAIN p
      BY <1>3, <2>3, <2>4, <2>5
    <3>3. At(p, m + 1) = p[m + 1] /\ At(p, m + 2) = p[m + 2] /\ At(p, m + 3) = 0
      BY <3>2 DEF At
    <3>4. QED
      BY <2>4, <3>1, <3>3, NoValues
  <2>18. Ends(s, p, m)
    BY <2>16, <2>17 DEF Ends
  <2>19. DecodeBase64(p) = [bytes |-> s.out, invalid |-> FALSE]
    BY <2>4, <2>5, <2>13, <2>18, DecodesTo
  <2>20. QED
    BY <1>2, <2>16, <2>19
<1>8. CASE e.mode = 2
  <2>1. PICK l \in 0..15 : e.left = l * 4
    BY <1>3, <1>8 DEF EncodeTyped
  <2>2. e.left \in 0..63
    BY <2>1
  <2>3. p = e.out \o <<Pbase64(e.left), Pad>> /\ Len(p) = Len(e.out) + 2
    <3>1. p = e.out \o <<Pbase64(e.left), Pad>>
      BY <1>4, <1>8
    <3>2. PICK x : x = Pbase64(e.left)
      OBVIOUS
    <3>3. Len(e.out \o <<x, Pad>>) = Len(e.out) + 2
      BY <1>3
    <3>4. QED
      BY <3>1, <3>2, <3>3
  <2>4. /\ p \in Seq(Int) /\ \A j \in 1..Len(e.out) : p[j] = e.out[j]
        /\ p[Len(e.out) + 1] = Pbase64(e.left) /\ p[Len(e.out) + 2] = Pad
    <3>1. PICK i : i = e.left
      OBVIOUS
    <3>2. PICK u : u = e.out
      OBVIOUS
    <3>3. /\ u \in Seq(Coded) /\ i \in 0..63
          /\ \/ p = u \o <<Pbase64(i), Pad, Pad>> /\ Len(p) = Len(u) + 3
             \/ p = u \o <<Pbase64(i), Pad>> /\ Len(p) = Len(u) + 2
      BY <1>3, <2>2, <2>3, <3>1, <3>2
    <3>4. /\ p \in Seq(Int) /\ \A j \in 1..Len(u) : p[j] = u[j]
          /\ p[Len(u) + 1] = Pbase64(i) /\ p[Len(u) + 2] = Pad
          /\ Len(p) = Len(u) + 3 => p[Len(u) + 3] = Pad
      BY <3>3, PadsBehind, ZenonT(60)
    <3>5. QED
      BY <2>3, <3>1, <3>2, <3>4
  <2>5. PICK d, m : /\ m = Len(e.out) + 1 /\ m \in 0..Len(p)
                    /\ RoundTrip(e, d, b, Len(b))
                    /\ Decoding(p, m)[m] = DecodeStep(d, e.left)
                    /\ \A j \in 1..m : p[j] \in Coded
                    /\ Decode64(At(p, m + 1)) = -1
    <3>1. Len(p) > Len(e.out) + 1
      BY <1>3, <2>3
    <3>2. PICK i : i = e.left
      OBVIOUS
    <3>3. i \in 0..63 /\ p[Len(e.out) + 1] = Pbase64(i)
      BY <2>2, <2>4, <3>2
    <3>4. LastDecoded(b, e, i, p)
      BY <1>1, <2>4, <3>1, <3>3, LastCharacter
    <3>5. QED
      BY <3>2, <3>4 DEF LastDecoded
  <2>6. PICK y : y = b[Len(b)]
    OBVIOUS
  <2>7. Len(b) # 0 /\ d \in States /\ d.mode = 2 /\ d.out = First(b, Len(b) - 1) /\ d.left = y \div 16 /\ e.left = (y % 16) * 4
    BY <1>8, <2>5, <2>6 DEF RoundTrip
  <2>8. Len(b) \in 1..Len(b) /\ y \in 0..255
    <3>1. Len(b) \in 1..Len(b)
      BY <1>5, <2>7
    <3>2. QED
      BY <2>6, <3>1, ElementOf
  <2>9. (y \div 16) * 16 + (y % 16) = y /\ y % 16 \in 0..15
    BY <2>8, CutByte DEF Cut
  <2>10. e.left \div 4 = y % 16 /\ e.left % 4 = 0
    <3>1. PICK r : r = y % 16
      OBVIOUS
    <3>2. e.left = r * 4 /\ r \in 0..15
      BY <2>7, <2>9, <3>1
    <3>3. e.left \div 4 = r /\ e.left % 4 = 0
      BY <3>2
    <3>4. QED
      BY <3>1, <3>3
  <2>11. DecodeStep(d, e.left) = [out |-> Append(d.out, d.left * 16 + (e.left \div 4)), left |-> e.left % 4, mode |-> 3]
    BY <2>2, <2>7, DecodeRound
  <2>12. d.left * 16 + (e.left \div 4) = y
    BY <2>7, <2>9, <2>10
  <2>13. PICK s : s = Decoding(p, m)[m]
    OBVIOUS
  <2>14. s = [out |-> Append(First(b, Len(b) - 1), y), left |-> 0, mode |-> 3]
    BY <2>5, <2>7, <2>10, <2>11, <2>12, <2>13
  <2>15. Append(First(b, Len(b) - 1), y) = b
    BY <1>5, <2>6, <2>8, FirstGrows
  <2>16. s.out = b /\ s.left = 0 /\ s.mode = 3
    BY <2>14, <2>15
  <2>17. At(p, m + 1) = Pad /\ Decode64(At(p, m + 2)) = -1
    <3>1. m + 1 = Len(e.out) + 2
      BY <1>3, <2>5
    <3>2. m + 1 \in DOMAIN p /\ m + 2 \notin DOMAIN p
      BY <1>3, <2>3, <2>4, <2>5
    <3>3. At(p, m + 1) = p[m + 1] /\ At(p, m + 2) = 0
      BY <3>2 DEF At
    <3>4. QED
      BY <2>4, <3>1, <3>3, NoValues
  <2>18. Ends(s, p, m)
    BY <2>16, <2>17 DEF Ends
  <2>19. DecodeBase64(p) = [bytes |-> s.out, invalid |-> FALSE]
    BY <2>4, <2>5, <2>13, <2>18, DecodesTo
  <2>20. QED
    BY <1>2, <2>16, <2>19
<1>9. QED
  BY <1>3, <1>6, <1>7, <1>8

\* Two numbers of a few bits joined to a byte, and the byte cut again.
LEMMA JoinedBits ==
    /\ \A l \in 0..63, r \in 0..3 : l * 4 + r \in 0..255 /\ (l * 4 + r) \div 4 = l /\ (l * 4 + r) % 4 = r
    /\ \A l \in 0..15, r \in 0..15 : l * 16 + r \in 0..255 /\ (l * 16 + r) \div 16 = l /\ (l * 16 + r) % 16 = r
    /\ \A l \in 0..3, r \in 0..63 : l * 64 + r \in 0..255 /\ (l * 64 + r) \div 64 = l /\ (l * 64 + r) % 64 = r
<1>1. \A l \in 0..63, r \in 0..3 : l * 4 + r \in 0..255 /\ (l * 4 + r) \div 4 = l /\ (l * 4 + r) % 4 = r
  OBVIOUS
<1>2. \A l \in 0..15, r \in 0..15 : l * 16 + r \in 0..255 /\ (l * 16 + r) \div 16 = l /\ (l * 16 + r) % 16 = r
  OBVIOUS
<1>3. \A l \in 0..3, r \in 0..63 : l * 64 + r \in 0..255 /\ (l * 64 + r) \div 64 = l /\ (l * 64 + r) % 64 = r
  OBVIOUS
<1>4. QED
  BY <1>1, <1>2, <1>3

\* Six bits cut in two.
LEMMA CutSextet ==
    ASSUME NEW x \in 0..63
    PROVE  /\ x \div 16 \in 0..3 /\ x % 16 \in 0..15 /\ (x \div 16) * 16 + (x % 16) = x
           /\ x \div 4 \in 0..15 /\ x % 4 \in 0..3 /\ (x \div 4) * 4 + (x % 4) = x
<1>1. x \div 16 \in 0..3 /\ x % 16 \in 0..15 /\ (x \div 16) * 16 + (x % 16) = x
  OBVIOUS
<1>2. x \div 4 \in 0..15 /\ x % 4 \in 0..3 /\ (x \div 4) * 4 + (x % 4) = x
  OBVIOUS
<1>3. QED
  BY <1>1, <1>2

\* A state of the loop over the characters: the bits in hand are the lower ones.
DecodeTyped(d) ==
    /\ d \in States /\ d.out \in Seq(0..255)
    /\ d.mode = 1 => d.left \in 0..63
    /\ d.mode = 2 => d.left \in 0..15
    /\ d.mode = 3 => d.left \in 0..3

\* A byte appended.
LEMMA BytesAppend ==
    ASSUME NEW s \in Seq(0..255), NEW x \in 0..255
    PROVE  /\ Append(s, x) \in Seq(0..255) /\ Append(s, x) \in Seq(Int) /\ Len(Append(s, x)) = Len(s) + 1
           /\ Append(s, x)[Len(s) + 1] = x /\ IsBeginning(s, Append(s, x))
<1>1. /\ Append(s, x) \in Seq(0..255) /\ Len(Append(s, x)) = Len(s) + 1
      /\ Append(s, x)[Len(s) + 1] = x /\ \A j \in 1..Len(s) : Append(s, x)[j] = s[j]
  BY IntAppend
<1>2. Append(s, x) \in Seq(Int)
  <2>1. 0..255 \in SUBSET Int
    OBVIOUS
  <2>2. QED
    BY <1>1, <2>1, SeqInSeq, ZenonT(60)
<1>3. QED
  BY <1>1, <1>2 DEF IsBeginning

\* What a character is of the bytes that follow from it.
LEMMA DecodeGrows ==
    ASSUME NEW d, DecodeTyped(d), NEW x \in 0..63
    PROVE  /\ DecodeTyped(DecodeStep(d, x))
           /\ d.mode = 0 => DecodeStep(d, x) = [out |-> d.out, left |-> x, mode |-> 1]
           /\ d.mode = 1 => /\ d.left * 4 + (x \div 16) \in 0..255
                            /\ DecodeStep(d, x) = [out |-> Append(d.out, d.left * 4 + (x \div 16)), left |-> x % 16, mode |-> 2]
           /\ d.mode = 2 => /\ d.left * 16 + (x \div 4) \in 0..255
                            /\ DecodeStep(d, x) = [out |-> Append(d.out, d.left * 16 + (x \div 4)), left |-> x % 4, mode |-> 3]
           /\ d.mode = 3 => /\ d.left * 64 + x \in 0..255
                            /\ DecodeStep(d, x) = [out |-> Append(d.out, d.left * 64 + x), left |-> d.left, mode |-> 0]
<1>1. d \in States /\ d.out \in Seq(0..255) /\ d.mode \in 0..3 /\ d.out \in Seq(Int) /\ d.left \in Int
  BY DEF DecodeTyped, States
<1>2. PICK l : l = d.left
  OBVIOUS
<1>3. CASE d.mode = 0
  <2>1. DecodeStep(d, x) = [out |-> d.out, left |-> x, mode |-> 1]
    BY <1>1, <1>3, DecodeRound
  <2>2. PICK c : c = DecodeStep(d, x)
    OBVIOUS
  <2>3. c.out = d.out /\ c.left = x /\ c.mode = 1 /\ c \in States /\ x \in Int
    <3>1. PICK o : o = d.out
      OBVIOUS
    <3>2. o \in Seq(Int) /\ x \in Int /\ c = [out |-> o, left |-> x, mode |-> 1]
      BY <1>1, <2>1, <2>2, <3>1
    <3>3. QED
      BY <3>1, <3>2 DEF States
  <2>4. DecodeTyped(c)
    BY <1>1, <2>3 DEF DecodeTyped
  <2>5. QED
    BY <1>3, <2>1, <2>2, <2>4
<1>4. CASE d.mode = 1
  <2>1. l \in 0..63
    BY <1>2, <1>4 DEF DecodeTyped
  <2>2. PICK r, v : r = x \div 16 /\ v = x % 16
    OBVIOUS
  <2>3. r \in 0..3 /\ v \in 0..15 /\ v \in Int
    BY <2>2, CutSextet
  <2>4. l * 4 + r \in 0..255
    BY <2>1, <2>3, JoinedBits
  <2>5. PICK s : s = Append(d.out, l * 4 + r)
    OBVIOUS
  <2>6. s \in Seq(0..255) /\ s \in Seq(Int)
    BY <1>1, <2>4, <2>5, BytesAppend
  <2>7. DecodeStep(d, x) = [out |-> s, left |-> v, mode |-> 2]
    BY <1>1, <1>2, <1>4, <2>2, <2>5, DecodeRound
  <2>8. DecodeTyped(DecodeStep(d, x))
    BY <2>3, <2>6, <2>7 DEF DecodeTyped, States
  <2>9. QED
    BY <1>2, <1>4, <2>2, <2>4, <2>5, <2>7, <2>8
<1>5. CASE d.mode = 2
  <2>1. l \in 0..15
    BY <1>2, <1>5 DEF DecodeTyped
  <2>2. PICK r, v : r = x \div 4 /\ v = x % 4
    OBVIOUS
  <2>3. r \in 0..15 /\ v \in 0..3 /\ v \in Int
    BY <2>2, CutSextet
  <2>4. l * 16 + r \in 0..255
    BY <2>1, <2>3, JoinedBits
  <2>5. PICK s : s = Append(d.out, l * 16 + r)
    OBVIOUS
  <2>6. s \in Seq(0..255) /\ s \in Seq(Int)
    BY <1>1, <2>4, <2>5, BytesAppend
  <2>7. DecodeStep(d, x) = [out |-> s, left |-> v, mode |-> 3]
    BY <1>1, <1>2, <1>5, <2>2, <2>5, DecodeRound
  <2>8. DecodeTyped(DecodeStep(d, x))
    BY <2>3, <2>6, <2>7 DEF DecodeTyped, States
  <2>9. QED
    BY <1>2, <1>5, <2>2, <2>4, <2>5, <2>7, <2>8
<1>6. CASE d.mode = 3
  <2>1. l \in 0..3
    BY <1>2, <1>6 DEF DecodeTyped
  <2>2. l * 64 + x \in 0..255
    BY <2>1, JoinedBits
  <2>3. PICK s : s = Append(d.out, l * 64 + x)
    OBVIOUS
  <2>4. s \in Seq(0..255) /\ s \in Seq(Int)
    BY <1>1, <2>2, <2>3, BytesAppend
  <2>5. DecodeStep(d, x) = [out |-> s, left |-> l, mode |-> 0]
    BY <1>1, <1>2, <1>6, <2>3, DecodeRound
  <2>6. DecodeTyped(DecodeStep(d, x))
    BY <2>1, <2>4, <2>5 DEF DecodeTyped, States
  <2>7. QED
    BY <1>2, <1>6, <2>2, <2>3, <2>5, <2>6
<1>7. d.mode = 0 \/ d.mode = 1 \/ d.mode = 2 \/ d.mode = 3
  BY <1>1
<1>8. QED
  BY <1>3, <1>4, <1>5, <1>6, <1>7

\* A character adds a byte or none.
LEMMA OutStep ==
    ASSUME NEW d, DecodeTyped(d), NEW x \in 0..63
    PROVE  DecodeStep(d, x).out = d.out \/ \E y \in 0..255 : DecodeStep(d, x).out = Append(d.out, y)
<1>1. d.out \in Seq(0..255) /\ d.mode \in 0..3
  BY DEF DecodeTyped, States
<1>2. CASE d.mode = 0
  <2>1. DecodeStep(d, x) = [out |-> d.out, left |-> x, mode |-> 1]
    BY <1>2, DecodeGrows, ZenonT(60)
  <2>2. QED
    BY <2>1
<1>3. ASSUME NEW y \in 0..255, NEW l, NEW mode, DecodeStep(d, x) = [out |-> Append(d.out, y), left |-> l, mode |-> mode]
      PROVE  \E z \in 0..255 : DecodeStep(d, x).out = Append(d.out, z)
  <2>1. DecodeStep(d, x).out = Append(d.out, y)
    BY <1>3
  <2>2. QED
    BY <2>1
<1>4. CASE d.mode = 1
  <2>1. PICK y : y = d.left * 4 + (x \div 16)
    OBVIOUS
  <2>2. y \in 0..255 /\ DecodeStep(d, x) = [out |-> Append(d.out, y), left |-> x % 16, mode |-> 2]
    BY <1>4, <2>1, DecodeGrows
  <2>3. QED
    BY <1>3, <2>2
<1>5. CASE d.mode = 2
  <2>1. PICK y : y = d.left * 16 + (x \div 4)
    OBVIOUS
  <2>2. y \in 0..255 /\ DecodeStep(d, x) = [out |-> Append(d.out, y), left |-> x % 4, mode |-> 3]
    BY <1>5, <2>1, DecodeGrows
  <2>3. QED
    BY <1>3, <2>2
<1>6. CASE d.mode = 3
  <2>1. PICK y : y = d.left * 64 + x
    OBVIOUS
  <2>2. y \in 0..255 /\ DecodeStep(d, x) = [out |-> Append(d.out, y), left |-> d.left, mode |-> 0]
    BY <1>6, <2>1, DecodeGrows
  <2>3. QED
    BY <1>3, <2>2
<1>7. d.mode = 0 \/ d.mode = 1 \/ d.mode = 2 \/ d.mode = 3
  BY <1>1
<1>8. QED
  BY <1>2, <1>4, <1>5, <1>6, <1>7

\* A round of decoding only appends.
LEMMA OutGrows ==
    ASSUME NEW d, DecodeTyped(d), NEW x \in 0..63
    PROVE  IsBeginning(d.out, DecodeStep(d, x).out)
<1>1. d.out \in Seq(0..255) /\ IsBeginning(d.out, d.out)
  BY DEF DecodeTyped, IsBeginning
<1>2. DecodeStep(d, x).out = d.out \/ \E y \in 0..255 : DecodeStep(d, x).out = Append(d.out, y)
  BY OutStep
<1>3. ASSUME NEW y \in 0..255 PROVE IsBeginning(d.out, Append(d.out, y))
  BY <1>1, BytesAppend
<1>4. PICK s : s = DecodeStep(d, x).out
  OBVIOUS
<1>5. s = d.out \/ \E y \in 0..255 : s = Append(d.out, y)
  BY <1>2, <1>4
<1>6. IsBeginning(d.out, s)
  BY <1>1, <1>3, <1>5
<1>7. QED
  BY <1>4, <1>6

\* The first m characters of p are of the code.
Sextets(p, m) == \A i \in 1..m : Decode64(p[i]) \in 0..63 /\ Pbase64(Decode64(p[i])) = p[i]

\* Every round of decoding has written bytes.
LEMMA DecodingTyped ==
    ASSUME NEW p, NEW m \in Nat, Sextets(p, m), NEW n \in 0..m
    PROVE  DecodeTyped(Decoding(p, m)[n])
<1> SUFFICES ASSUME ~DecodeTyped(Decoding(p, m)[n]) PROVE FALSE
  OBVIOUS
<1> DEFINE Bad == {i \in 0..m : ~DecodeTyped(Decoding(p, m)[i])}
<1>1. PICK i \in Bad : \A j \in Bad : i <= j
  <2>1. Bad \in SUBSET Nat /\ n \in Bad
    OBVIOUS
  <2> HIDE DEF Bad
  <2>2. QED
    BY <2>1, LeastNumber
<1>2. CASE i = 0
  <2>1. Decoding(p, m)[0] = Begin
    BY DecodingRounds
  <2>2. <<>> \in Seq(0..255)
    OBVIOUS
  <2>3. DecodeTyped(Begin)
    BY <2>2, BeginTyped DEF DecodeTyped
  <2>4. QED
    BY <1>1, <1>2, <2>1, <2>3
<1>3. CASE i # 0
  <2>1. i \in 1..m /\ i - 1 \in 0..m /\ i - 1 \notin Bad
    BY <1>1, <1>3
  <2>2. Decode64(p[i]) \in 0..63
    BY <2>1 DEF Sextets
  <2>3. DecodeTyped(DecodeStep(Decoding(p, m)[i - 1], Decode64(p[i])))
    BY <2>1, <2>2, DecodeGrows
  <2>4. Decoding(p, m)[i] = DecodeStep(Decoding(p, m)[i - 1], Decode64(p[i]))
    BY <2>1, DecodingRounds
  <2>5. QED
    BY <1>1, <2>3, <2>4
<1>4. QED
  BY <1>2, <1>3

\* What is decoded of the first n characters of p, encoded: all of them but
\* the last one, of which the bits in hand are the rest.
Back(e, d, p, n) ==
    /\ EncodeTyped(e)
    /\ d.mode = 0 => e.mode = 0 /\ e.out = First(p, n)
    /\ d.mode # 0 => n # 0 /\ e.mode = d.mode - 1 /\ e.out = First(p, n - 1)
    /\ d.mode = 1 => d.left = Decode64(p[n])
    /\ d.mode \in {2, 3} => e.left + d.left = Decode64(p[n])

\* The byte that is decoded, if one is, is encoded.
OneMore(d, d1, e, e1) ==
    \/ d1.out = d.out /\ e1 = e
    \/ \E y \in 0..255 : d1.out = Append(d.out, y) /\ e1 = EncodeStep(e, y)
Next64(d, d1, p, n) == d1 = DecodeStep(d, Decode64(p[n]))

\* One more character decoded, its bits encoded: the text up to it comes back.
LEMMA BackRound ==
    ASSUME NEW p \in Seq(Int), NEW m \in 0..Len(p), Sextets(p, m), NEW n \in 1..m,
           NEW d, DecodeTyped(d), NEW e, Back(e, d, p, n - 1),
           NEW d1, Next64(d, d1, p, n), NEW e1, OneMore(d, d1, e, e1)
    PROVE  Back(e1, d1, p, n)
<1>1. PICK x : x = Decode64(p[n])
  OBVIOUS
<1>2. x \in 0..63 /\ Pbase64(x) = p[n]
  BY <1>1 DEF Sextets
<1>3. /\ d \in States /\ d.out \in Seq(0..255) /\ d.mode \in 0..3 /\ Len(d.out) \in Nat
      /\ EncodeTyped(e) /\ e \in States /\ e.left \in Int /\ e.mode \in 0..2 /\ d.left \in Int
  BY DEF DecodeTyped, States, Back, EncodeTyped
<1>4. n \in Nat /\ n - 1 \in 0..m
  OBVIOUS
<1>5. /\ First(p, n) = Append(First(p, n - 1), p[n])
      /\ n - 1 # 0 => First(p, n - 1) = Append(First(p, n - 2), p[n - 1])
  <2>1. First(p, n) = Append(First(p, n - 1), p[n])
    BY FirstGrows
  <2>2. ASSUME n - 1 # 0 PROVE First(p, n - 1) = Append(First(p, n - 2), p[n - 1])
    <3>1. n - 1 \in 1..Len(p) /\ n - 1 - 1 = n - 2
      BY <2>2
    <3>2. First(p, n - 1) = Append(First(p, n - 1 - 1), p[n - 1])
      BY <3>1, FirstGrows
    <3>3. QED
      BY <3>1, <3>2
  <2>3. QED
    BY <2>1, <2>2
<1>6. PICK q : q = Decode64(p[n - 1])
  OBVIOUS
<1>7. n - 1 # 0 => Pbase64(q) = p[n - 1] /\ q \in 0..63
  BY <1>4, <1>6 DEF Sextets
\* One byte more.
<1>8. ASSUME NEW z, NEW l, NEW mode, d1 = [out |-> Append(d.out, z), left |-> l, mode |-> mode], z \in 0..255
      PROVE  e1 = EncodeStep(e, z) /\ EncodeTyped(e1)
  <2>1. d1.out = Append(d.out, z)
    BY <1>8
  <2>2. Len(d1.out) = Len(d.out) + 1 /\ d1.out[Len(d.out) + 1] = z
    BY <1>3, <1>8, <2>1, BytesAppend
  <2>3. d1.out # d.out
    BY <1>3, <2>2
  <2>4. PICK y \in 0..255 : d1.out = Append(d.out, y) /\ e1 = EncodeStep(e, y)
    BY <2>3 DEF OneMore
  <2>5. d1.out[Len(d.out) + 1] = y
    BY <1>3, <2>4, BytesAppend
  <2>6. e1 = EncodeStep(e, z)
    BY <2>2, <2>4, <2>5
  <2>7. QED
    BY <1>3, <1>8, <2>6, EncodeGrows
<1>9. CASE d.mode = 0
  <2>1. d1 = [out |-> d.out, left |-> x, mode |-> 1]
    BY <1>1, <1>2, <1>9, DecodeGrows, ZenonT(60) DEF Next64
  <2>2. e1 = e
    <3>1. d1.out = d.out
      BY <2>1
    <3>2. ASSUME NEW y \in 0..255 PROVE Append(d.out, y) # d.out
      <4>1. Len(Append(d.out, y)) = Len(d.out) + 1
        BY <1>3, BytesAppend
      <4>2. QED
        BY <1>3, <4>1
    <3>3. QED
      BY <3>1, <3>2 DEF OneMore
  <2>3. e.mode = 0 /\ e.out = First(p, n - 1)
    BY <1>9 DEF Back
  <2>4. QED
    BY <1>1, <1>3, <1>4, <2>1, <2>2, <2>3 DEF Back
<1>10. CASE d.mode = 1
  <2>1. PICK l, r, v, z : l = d.left /\ r = x \div 16 /\ v = x % 16 /\ z = l * 4 + r
    OBVIOUS
  <2>2. l \in 0..63 /\ r \in 0..3 /\ v \in 0..15 /\ r * 16 + v = x
    BY <1>2, <1>10, <2>1, CutSextet DEF DecodeTyped
  <2>3. z \in 0..255 /\ z \div 4 = l /\ z % 4 = r
    <3>1. l * 4 + r \in 0..255 /\ (l * 4 + r) \div 4 = l /\ (l * 4 + r) % 4 = r
      BY <2>2, JoinedBits, SMTT(30)
    <3>2. QED
      BY <2>1, <3>1
  <2>4. d1 = [out |-> Append(d.out, z), left |-> v, mode |-> 2]
    BY <1>1, <1>2, <1>10, <2>1, DecodeGrows DEF Next64
  <2>5. e.mode = 0 /\ n - 1 # 0 /\ e.out = First(p, n - 2) /\ l = q
    <3>1. n - 1 - 1 = n - 2
      BY <1>4
    <3>2. QED
      BY <1>6, <1>10, <2>1, <3>1 DEF Back
  <2>6. e1 = EncodeStep(e, z) /\ EncodeTyped(e1)
    BY <1>8, <2>3, <2>4
  <2>7. e1 = [out |-> Append(e.out, Pbase64(z \div 4)), left |-> (z % 4) * 16, mode |-> 1]
    BY <1>3, <2>3, <2>5, <2>6, EncodeRound
  <2>8. e1.out = First(p, n - 1) /\ e1.left = r * 16 /\ e1.mode = 1
    BY <1>5, <1>7, <2>3, <2>5, <2>7
  <2>9. d1.mode = 2 /\ d1.left = v
    BY <2>4
  <2>10. QED
    BY <1>1, <1>4, <2>2, <2>6, <2>8, <2>9 DEF Back
<1>11. CASE d.mode = 2
  <2>1. PICK l, r, v, z : l = d.left /\ r = x \div 4 /\ v = x % 4 /\ z = l * 16 + r
    OBVIOUS
  <2>2. l \in 0..15 /\ r \in 0..15 /\ v \in 0..3 /\ r * 4 + v = x
    BY <1>2, <1>11, <2>1, CutSextet DEF DecodeTyped
  <2>3. z \in 0..255 /\ z \div 16 = l /\ z % 16 = r
    <3>1. l * 16 + r \in 0..255 /\ (l * 16 + r) \div 16 = l /\ (l * 16 + r) % 16 = r
      BY <2>2, JoinedBits
    <3>2. QED
      BY <2>1, <3>1
  <2>4. d1 = [out |-> Append(d.out, z), left |-> v, mode |-> 3]
    BY <1>1, <1>2, <1>11, <2>1, DecodeGrows DEF Next64
  <2>5. e.mode = 1 /\ n - 1 # 0 /\ e.out = First(p, n - 2) /\ e.left + l = q
    <3>1. n - 1 - 1 = n - 2
      BY <1>4
    <3>2. QED
      BY <1>6, <1>11, <2>1, <3>1 DEF Back
  <2>6. e1 = EncodeStep(e, z) /\ EncodeTyped(e1)
    BY <1>8, <2>3, <2>4
  <2>7. e1 = [out |-> Append(e.out, Pbase64(e.left + (z \div 16))), left |-> (z % 16) * 4, mode |-> 2]
    BY <1>3, <2>3, <2>5, <2>6, EncodeRound
  <2>8. e1.out = First(p, n - 1) /\ e1.left = r * 4 /\ e1.mode = 2
    BY <1>5, <1>7, <2>3, <2>5, <2>7
  <2>9. d1.mode = 3 /\ d1.left = v
    BY <2>4
  <2>10. QED
    BY <1>1, <1>4, <2>2, <2>6, <2>8, <2>9 DEF Back
<1>12. CASE d.mode = 3
  <2>1. PICK l, z : l = d.left /\ z = l * 64 + x
    OBVIOUS
  <2>2. l \in 0..3
    BY <1>12, <2>1 DEF DecodeTyped
  <2>3. z \in 0..255 /\ z \div 64 = l /\ z % 64 = x
    <3>1. \A f \in 0..3, r \in 0..63 :
             f * 64 + r \in 0..255 /\ (f * 64 + r) \div 64 = f /\ (f * 64 + r) % 64 = r
      BY JoinedBits
    <3>2. x \in 0..63
      BY <1>2
    <3>3. QED
      BY ONLY <2>1, <2>2, <3>1, <3>2
  <2>4. d1 = [out |-> Append(d.out, z), left |-> l, mode |-> 0]
    BY <1>1, <1>2, <1>12, <2>1, DecodeGrows DEF Next64
  <2>5. e.mode = 2 /\ n - 1 # 0 /\ e.out = First(p, n - 2) /\ e.left + l = q
    <3>1. n - 1 - 1 = n - 2
      BY <1>4
    <3>2. QED
      BY <1>6, <1>12, <2>1, <3>1 DEF Back
  <2>6. e1 = EncodeStep(e, z) /\ EncodeTyped(e1)
    BY <1>8, <2>3, <2>4
  <2>7. e1 = [out |-> Append(Append(e.out, Pbase64(e.left + (z \div 64))), Pbase64(z % 64)), left |-> e.left, mode |-> 0]
    BY <1>3, <2>3, <2>5, <2>6, EncodeRound
  <2>8. e1.out = First(p, n) /\ e1.mode = 0
    BY <1>2, <1>5, <1>7, <2>3, <2>5, <2>7
  <2>9. d1.mode = 0
    BY <2>4
  <2>10. QED
    BY <2>6, <2>8, <2>9 DEF Back
<1>13. QED
  BY <1>3, <1>9, <1>10, <1>11, <1>12

\* By induction, of each number of characters whose bytes begin the bytes of the whole.
LEMMA BackHolds ==
    ASSUME NEW p \in Seq(Int), NEW m \in 0..Len(p), Sextets(p, m), NEW b \in Seq(0..255),
           NEW n \in 0..m, IsBeginning(Decoding(p, m)[n].out, b)
    PROVE  Back(Encoding(b)[Len(Decoding(p, m)[n].out)], Decoding(p, m)[n], p, n)
<1> DEFINE S(i) == IsBeginning(Decoding(p, m)[i].out, b)
           R(i) == Back(Encoding(b)[Len(Decoding(p, m)[i].out)], Decoding(p, m)[i], p, i)
<1> SUFFICES ASSUME S(n), ~R(n) PROVE FALSE
  OBVIOUS
<1> DEFINE Bad == {i \in 0..m : S(i) /\ ~R(i)}
<1> HIDE DEF S, R
<1>1. PICK i \in Bad : \A j \in Bad : i <= j
  <2>1. Bad \in SUBSET Nat /\ n \in Bad
    OBVIOUS
  <2> HIDE DEF Bad
  <2>2. QED
    BY <2>1, LeastNumber
<1>2. CASE i = 0
  <2>1. Encoding(b)[0] = Begin /\ Decoding(p, m)[0] = Begin
    BY EncodingRounds, DecodingRounds
  <2>2. First(p, 0) = <<>>
    BY FirstAll
  <2>3. Back(Begin, Begin, p, 0)
    BY <2>2, BeginTyped DEF Back
  <2>4. R(0)
    BY <2>1, <2>3, BeginTyped DEF R
  <2>5. QED
    BY <1>1, <1>2, <2>4
<1>3. CASE i # 0
  <2>1. i \in 1..m /\ i - 1 \in 0..m /\ i - 1 \notin Bad /\ S(i) /\ ~R(i) /\ i \in 0..m
    BY <1>1, <1>3
  <2>2. PICK d : d = Decoding(p, m)[i - 1]
    OBVIOUS
  <2>3. PICK d1 : d1 = Decoding(p, m)[i]
    OBVIOUS
  <2>4. d1 = DecodeStep(d, Decode64(p[i]))
    BY <2>1, <2>2, <2>3, DecodingRounds
  <2>5. DecodeTyped(d) /\ DecodeTyped(d1)
    BY <2>1, <2>2, <2>3, DecodingTyped
  <2>6. Decode64(p[i]) \in 0..63
    BY <2>1 DEF Sextets
  <2>7. IsBeginning(d.out, d1.out) /\ d.out \in Seq(0..255) /\ d1.out \in Seq(0..255)
    BY <2>4, <2>5, <2>6, OutGrows DEF DecodeTyped
  <2>8. IsBeginning(d1.out, b) /\ IsBeginning(d.out, b)
    <3>1. IsBeginning(d1.out, b)
      BY <2>1, <2>3 DEF S
    <3>2. Len(d.out) \in Nat /\ Len(d1.out) \in Nat /\ Len(b) \in Nat
      BY <2>7
    <3>3. QED
      BY <2>7, <3>1, <3>2, BeginsTransitive
  <2>9. Back(Encoding(b)[Len(d.out)], d, p, i - 1)
    BY <2>1, <2>2, <2>8 DEF S, R
  <2>10. PICK e : e = Encoding(b)[Len(d.out)]
    OBVIOUS
  <2>11. PICK e1 : e1 = Encoding(b)[Len(d1.out)]
    OBVIOUS
  <2>12. OneMore(d, d1, e, e1)
    <3>1. CASE d1.out = d.out
      BY <2>10, <2>11, <3>1 DEF OneMore
    <3>2. ASSUME NEW y \in 0..255, d1.out = Append(d.out, y)
          PROVE  e1 = EncodeStep(e, y)
      <4>1. PICK k : k = Len(d1.out)
        OBVIOUS
      <4>2. k = Len(d.out) + 1 /\ d1.out[k] = y
        <5>1. PICK o : o = d.out
          OBVIOUS
        <5>2. o \in Seq(0..255) /\ d1.out = Append(o, y)
          BY <2>7, <3>2, <5>1
        <5>3. Len(Append(o, y)) = Len(o) + 1 /\ Append(o, y)[Len(o) + 1] = y
          BY <5>2, BytesAppend
        <5>4. QED
          BY <4>1, <5>1, <5>2, <5>3
      <4>3. k \in 1..Len(d1.out) /\ k \in 1..Len(b) /\ k - 1 = Len(d.out)
        BY <2>7, <2>8, <4>1, <4>2 DEF IsBeginning
      <4>4. b[k] = y
        BY <2>8, <4>2, <4>3 DEF IsBeginning
      <4>5. Encoding(b)[k] = EncodeStep(Encoding(b)[k - 1], b[k])
        BY <4>3, EncodingRounds
      <4>6. QED
        BY <2>10, <2>11, <4>1, <4>3, <4>4, <4>5
    <3>3. d1.out = d.out \/ \E y \in 0..255 : d1.out = Append(d.out, y)
      BY <2>4, <2>5, <2>6, OutStep
    <3>4. QED
      BY <3>1, <3>2, <3>3 DEF OneMore
  <2>13. Back(e1, d1, p, i)
    <3>1. Next64(d, d1, p, i)
      BY <2>4 DEF Next64
    <3>2. QED
      BY <2>1, <2>5, <2>9, <2>10, <2>12, <3>1, BackRound
  <2>14. QED
    BY <2>1, <2>3, <2>11, <2>13 DEF R
<1>4. QED
  BY <1>2, <1>3

\* A prefix, element by element.
LEMMA PrefixIs ==
    ASSUME NEW s \in Seq(Int), NEW p \in Seq(Int), IsBeginning(s, p)
    PROVE  IsPrefix(s, p)
<1>1. Len(s) \in Nat /\ Len(p) \in Nat /\ Len(s) <= Len(p)
  BY DEF IsBeginning
<1>2. \A i \in 1..Len(s) : p[i] = s[i]
  BY DEF IsBeginning
<1>3. /\ SubSeq(s, 1, Len(s)) \in Seq(Int) /\ SubSeq(p, 1, Len(s)) \in Seq(Int)
      /\ Len(SubSeq(s, 1, Len(s))) = Len(s) /\ Len(SubSeq(p, 1, Len(s))) = Len(s)
  BY <1>1
<1>4. \A i \in 1..Len(s) : SubSeq(s, 1, Len(s))[i] = s[i] /\ SubSeq(p, 1, Len(s))[i] = p[i]
  BY <1>1
<1>5. SubSeq(s, 1, Len(s)) = SubSeq(p, 1, Len(s))
  BY <1>1, <1>2, <1>3, <1>4
<1>6. QED
  BY <1>1, <1>5 DEF IsPrefix

\* What stands at a place of no 0 is of the text.
LEMMA AtPad == ASSUME NEW p \in Seq(Int), NEW i \in Int, At(p, i) = Pad PROVE i \in 1..Len(p) /\ p[i] = Pad
BY DEF At, Pad

\* The elements of two sequences joined.
LEMMA ConcatElements ==
    ASSUME NEW S, NEW f \in Seq(S), NEW q \in Seq(S)
    PROVE  /\ \A i \in 1..Len(f) : (f \o q)[i] = f[i]
           /\ \A i \in 1..Len(q) : (f \o q)[Len(f) + i] = q[i]
OBVIOUS

\* The first characters of p, and pads.
LEMMA PaddedPrefix ==
    ASSUME NEW p \in Seq(Int), NEW m \in 1..Len(p), NEW s,
           \/ s = First(p, m - 1) \o <<p[m], Pad>> /\ At(p, m + 1) = Pad
           \/ s = First(p, m - 1) \o <<p[m], Pad, Pad>> /\ At(p, m + 1) = Pad /\ At(p, m + 2) = Pad
    PROVE  IsPrefix(s, p)
<1>1. PICK c, f : c = p[m] /\ f = First(p, m - 1)
  OBVIOUS
<1>2. /\ c \in Int /\ Pad \in Int /\ f \in Seq(Int) /\ Len(f) = m - 1
      /\ \A i \in 1..(m - 1) : f[i] = p[i]
  <2>1. f \in Seq(Int) /\ Len(f) = m - 1 /\ \A i \in 1..(m - 1) : f[i] = p[i]
    BY <1>1 DEF First
  <2>2. c \in Int
    BY <1>1, ElementOf
  <2>3. QED
    BY <2>1, <2>2, NoValues
<1>3. m \in Nat /\ m + 1 \in Int /\ m + 2 \in Int
  OBVIOUS
<1>4. CASE s = First(p, m - 1) \o <<p[m], Pad>> /\ At(p, m + 1) = Pad
  <2>1. m + 1 \in 1..Len(p) /\ p[m + 1] = Pad
    BY <1>3, <1>4, AtPad
  <2>2. s = f \o <<c, Pad>>
    BY <1>1, <1>4
  <2>3. s \in Seq(Int) /\ Len(s) = m + 1
    BY <1>2, <2>2, SMTT(30)
  <2>4. (\A i \in 1..(m - 1) : s[i] = f[i]) /\ s[m] = c /\ s[m + 1] = Pad
    <3>1. PICK k : k = Len(f)
      OBVIOUS
    <3>2. PICK q : q = <<c, Pad>>
      OBVIOUS
    <3>3. q \in Seq(Int) /\ Len(q) = 2 /\ q[1] = c /\ q[2] = Pad
      BY <1>2, <3>2
    <3>4. s = f \o q /\ k \in Nat /\ m = k + 1
      BY <1>2, <1>3, <2>2, <3>1, <3>2
    <3>5. (\A i \in 1..k : s[i] = f[i]) /\ \A i \in 1..Len(q) : s[k + i] = q[i]
      <4>1. (\A i \in 1..Len(f) : (f \o q)[i] = f[i]) /\ \A i \in 1..Len(q) : (f \o q)[Len(f) + i] = q[i]
        <5>1. f \in Seq(Int) /\ q \in Seq(Int)
          BY <1>2, <3>3
        <5>2. \A i \in 1..Len(f) : (f \o q)[i] = f[i]
          BY <5>1, ConcatElements
        <5>3. \A i \in 1..Len(q) : (f \o q)[Len(f) + i] = q[i]
          BY <5>1, ConcatElements
        <5>4. QED
          BY <5>2, <5>3
      <4>2. QED
        BY <3>1, <3>4, <4>1
    <3>6. s[k + 1] = q[1] /\ s[k + 2] = q[2]
      BY <3>3, <3>5
    <3>7. m = k + 1 /\ m + 1 = k + 2 /\ m + 2 = k + 3 /\ m - 1 = k
      BY <3>4
    <3>8. QED
      BY <3>3, <3>5, <3>6, <3>7
  <2>5. IsBeginning(s, p)
    <3>1. \A i \in 1..(m - 1) : s[i] = p[i]
      BY <1>2, <2>4
    <3>2. \A i \in 1..(m + 1) : i \in 1..(m - 1) \/ i = m \/ i = m + 1
      OBVIOUS
    <3>3. \A i \in 1..(m + 1) : s[i] = p[i]
      BY <1>1, <2>1, <2>4, <3>1, <3>2
    <3>4. Len(s) <= Len(p)
      BY <1>3, <2>1, <2>3
    <3>5. QED
      BY <2>3, <3>3, <3>4 DEF IsBeginning
  <2>6. QED
    BY <2>3, <2>5, PrefixIs
<1>5. CASE s = First(p, m - 1) \o <<p[m], Pad, Pad>> /\ At(p, m + 1) = Pad /\ At(p, m + 2) = Pad
  <2>1. m + 1 \in 1..Len(p) /\ p[m + 1] = Pad /\ m + 2 \in 1..Len(p) /\ p[m + 2] = Pad
    BY <1>3, <1>5, AtPad
  <2>2. s = f \o <<c, Pad, Pad>>
    BY <1>1, <1>5
  <2>3. s \in Seq(Int) /\ Len(s) = m + 2
    BY <1>2, <2>2
  <2>4. (\A i \in 1..(m - 1) : s[i] = f[i]) /\ s[m] = c /\ s[m + 1] = Pad /\ s[m + 2] = Pad
    <3>1. PICK k : k = Len(f)
      OBVIOUS
    <3>2. PICK q : q = <<c, Pad, Pad>>
      OBVIOUS
    <3>3. q \in Seq(Int) /\ Len(q) = 3 /\ q[1] = c /\ q[2] = Pad /\ q[3] = Pad
      BY <1>2, <3>2
    <3>4. s = f \o q /\ k \in Nat /\ m = k + 1
      BY <1>2, <1>3, <2>2, <3>1, <3>2
    <3>5. (\A i \in 1..k : s[i] = f[i]) /\ \A i \in 1..Len(q) : s[k + i] = q[i]
      <4>1. (\A i \in 1..Len(f) : (f \o q)[i] = f[i]) /\ \A i \in 1..Len(q) : (f \o q)[Len(f) + i] = q[i]
        <5>1. f \in Seq(Int) /\ q \in Seq(Int)
          BY <1>2, <3>3
        <5>2. \A i \in 1..Len(f) : (f \o q)[i] = f[i]
          BY <5>1, ConcatElements
        <5>3. \A i \in 1..Len(q) : (f \o q)[Len(f) + i] = q[i]
          BY <5>1, ConcatElements
        <5>4. QED
          BY <5>2, <5>3
      <4>2. QED
        BY <3>1, <3>4, <4>1
    <3>6. s[k + 1] = q[1] /\ s[k + 2] = q[2] /\ s[k + 3] = q[3]
      BY <3>3, <3>5
    <3>7. m = k + 1 /\ m + 1 = k + 2 /\ m + 2 = k + 3 /\ m - 1 = k
      BY <3>4
    <3>8. QED
      BY <3>3, <3>5, <3>6, <3>7
  <2>5. IsBeginning(s, p)
    <3>1. \A i \in 1..(m - 1) : s[i] = p[i]
      BY <1>2, <2>4
    <3>2. \A i \in 1..(m + 2) : i \in 1..(m - 1) \/ i = m \/ i = m + 1 \/ i = m + 2
      OBVIOUS
    <3>3. \A i \in 1..(m + 2) : s[i] = p[i]
      BY <1>1, <2>1, <2>4, <3>1, <3>2
    <3>4. Len(s) <= Len(p)
      BY <1>3, <2>1, <2>3
    <3>5. QED
      BY <2>3, <3>3, <3>4 DEF IsBeginning
  <2>6. QED
    BY <2>3, <2>5, PrefixIs
<1>6. QED
  BY <1>4, <1>5

\* A text that is decoded is an encoding.
LEMMA DecodedIsEncoded ==
    ASSUME NEW p \in Seq(Int), ~DecodeBase64(p).invalid
    PROVE  IsPrefix(EncodeBase64(DecodeBase64(p).bytes), p)
<1>1. PICK m : m = Valid(p)
  OBVIOUS
<1>2. PICK d : d = Decoding(p, m)[m]
  OBVIOUS
<1>3. m \in 0..Len(p) /\ m \in 0..m /\ m \in Nat /\ Sextets(p, m)
  <2>1. m \in 0..Len(p) /\ \A i \in 1..m : Decode64(p[i]) # -1
    BY <1>1, ValidExists
  <2>2. Sextets(p, m)
    <3> SUFFICES ASSUME NEW i \in 1..m PROVE Decode64(p[i]) \in 0..63 /\ Pbase64(Decode64(p[i])) = p[i]
      BY DEF Sextets
    <3>1. i \in 1..Len(p) /\ Decode64(p[i]) # -1
      BY <2>1
    <3>2. p[i] \in Int
      BY <3>1, ElementOf
    <3>3. \A c \in Int : Decode64(c) \in -1..63 /\ (Decode64(c) # -1 => Pbase64(Decode64(c)) = c)
      BY SixBits
    <3>4. Decode64(p[i]) \in -1..63 /\ Pbase64(Decode64(p[i])) = p[i]
      BY <3>1, <3>2, <3>3
    <3>5. QED
      BY <3>1, <3>4
  <2>3. QED
    BY <2>1, <2>2
<1>4. DecodeBase64(p).bytes = d.out /\ Ends(d, p, m)
  <2>1. DecodeBase64(p) = [bytes |-> d.out, invalid |-> ~Ends(d, p, m)]
    BY <1>1, <1>2 DEF DecodeBase64
  <2>2. DecodeBase64(p).bytes = d.out
    BY <2>1
  <2>3. PICK inv : inv = DecodeBase64(p).invalid
    OBVIOUS
  <2>4. inv = ~Ends(d, p, m)
    BY <2>1, <2>3
  <2>5. ~inv
    BY <2>3
  <2>6. QED
    BY <2>2, <2>4, <2>5
<1>5. PICK b : b = d.out
  OBVIOUS
<1>6. DecodeTyped(d) /\ b \in Seq(0..255) /\ d.mode \in 0..3 /\ IsBeginning(d.out, b) /\ d \in States
  <2>1. DecodeTyped(d)
    BY <1>2, <1>3, DecodingTyped
  <2>2. QED
    BY <1>5, <2>1 DEF DecodeTyped, States, IsBeginning
<1>7. PICK e : e = Encoding(b)[Len(b)]
  OBVIOUS
<1>8. Back(e, d, p, m)
  BY <1>2, <1>3, <1>5, <1>6, <1>7, BackHolds
<1>9. PICK s : s = EncodeBase64(b)
  OBVIOUS
<1>10. e \in States /\ e.left \in Int /\ e.mode \in 0..2
  BY <1>8 DEF Back, EncodeTyped, States
<1>11. /\ e.mode = 0 => s = e.out
       /\ e.mode = 1 => s = e.out \o <<Pbase64(e.left), Pad, Pad>>
       /\ e.mode = 2 => s = e.out \o <<Pbase64(e.left), Pad>>
  <2>1. s = CASE e.mode = 0 -> e.out
              [] e.mode = 1 -> e.out \o <<Pbase64(e.left), Pad, Pad>>
              [] e.mode = 2 -> e.out \o <<Pbase64(e.left), Pad>>
    BY <1>7, <1>9 DEF EncodeBase64
  <2>2. QED
    BY <2>1
<1>12. IsPrefix(s, p)
  <2>1. CASE d.mode = 0
    <3>1. s = First(p, m)
      BY <1>8, <1>11, <2>1 DEF Back
    <3>2. First(p, m) \in Seq(Int) /\ IsBeginning(First(p, m), p)
      BY <1>3 DEF First, IsBeginning
    <3>3. QED
      BY <3>1, <3>2, PrefixIs
  <2>2. CASE d.mode = 1
    BY <1>4, <2>2 DEF Ends
  <2>3. CASE d.mode = 2
    <3>1. d.left = 0 /\ At(p, m + 1) = Pad /\ At(p, m + 2) = Pad
      BY <1>4, <2>3 DEF Ends
    <3>2. m # 0 /\ e.mode = 1 /\ e.out = First(p, m - 1) /\ e.left + d.left = Decode64(p[m])
      BY <1>8, <2>3 DEF Back
    <3>3. m \in 1..Len(p) /\ m \in 1..m
      BY <1>3, <3>2
    <3>4. e.left = Decode64(p[m])
      BY <1>10, <3>1, <3>2
    <3>5. Pbase64(e.left) = p[m]
      BY <1>3, <3>3, <3>4 DEF Sextets
    <3>6. s = First(p, m - 1) \o <<p[m], Pad, Pad>>
      BY <1>11, <3>2, <3>5
    <3>7. QED
      BY <3>1, <3>3, <3>6, PaddedPrefix
  <2>4. CASE d.mode = 3
    <3>1. d.left = 0 /\ At(p, m + 1) = Pad
      BY <1>4, <2>4 DEF Ends
    <3>2. m # 0 /\ e.mode = 2 /\ e.out = First(p, m - 1) /\ e.left + d.left = Decode64(p[m])
      BY <1>8, <2>4 DEF Back
    <3>3. m \in 1..Len(p) /\ m \in 1..m
      BY <1>3, <3>2
    <3>4. e.left = Decode64(p[m])
      BY <1>10, <3>1, <3>2
    <3>5. Pbase64(e.left) = p[m]
      BY <1>3, <3>3, <3>4 DEF Sextets
    <3>6. s = First(p, m - 1) \o <<p[m], Pad>>
      BY <1>11, <3>2, <3>5
    <3>7. QED
      BY <3>1, <3>3, <3>6, PaddedPrefix
  <2>5. QED
    BY <1>6, <2>1, <2>2, <2>3, <2>4
<1>13. QED
  BY <1>4, <1>5, <1>9, <1>12

-----------------------------------------------------------------------------
(* The configuration file *)

\* The loop over the sections, round by round.
LEMMA ParsingRounds ==
    ASSUME NEW b, Len(b) \in Nat
    PROVE  /\ Parsing(b)[0] = [args |-> <<>>, thrown |-> FALSE]
           /\ \A n \in 1..Len(b) : Parsing(b)[n] = ParseSection(Parsing(b)[n - 1], b[n])
<1> DEFINE Empty == [args |-> <<>>, thrown |-> FALSE]
           Is(f, n) == f = [k \in 0..n |-> IF k = 0 THEN Empty ELSE ParseSection(f[k - 1], b[k])]
<1>1. \A n \in Nat : \E f : Is(f, n)
  <2> SUFFICES ASSUME NEW bad \in Nat, ~ \E f : Is(f, bad) PROVE FALSE
    OBVIOUS
  <2> DEFINE Bad == {n \in Nat : ~ \E f : Is(f, n)}
  <2> HIDE DEF Is
  <2>1. PICK n \in Bad : \A m \in Bad : n <= m
    BY LeastNumber
  <2> HIDE DEF Empty
  <2>2. CASE n = 0
    <3>1. Is([k \in 0..0 |-> Empty], 0)
      BY DEF Is
    <3>2. QED
      BY <2>1, <2>2, <3>1
  <2>3. CASE n # 0
    <3>1. PICK f : Is(f, n - 1)
      BY <2>1, <2>3
    <3>2. f = [k \in 0..(n - 1) |-> IF k = 0 THEN Empty ELSE ParseSection(f[k - 1], b[k])]
      BY <3>1 DEF Is
    <3> DEFINE g == [k \in 0..n |-> IF k = n THEN ParseSection(f[n - 1], b[n]) ELSE f[k]]
    <3>3. \A k \in 0..n : g[k] = IF k = 0 THEN Empty ELSE ParseSection(g[k - 1], b[k])
      <4> SUFFICES ASSUME NEW k \in 0..n
                   PROVE  g[k] = IF k = 0 THEN Empty ELSE ParseSection(g[k - 1], b[k])
        OBVIOUS
      <4>1. CASE k = 0
        BY <2>3, <3>2, <4>1
      <4>2. CASE k # 0
        <5>1. k - 1 \in 0..(n - 1) /\ k - 1 \in 0..n /\ g[k - 1] = f[k - 1]
          BY <4>2
        <5>2. k # n => k \in 0..(n - 1) /\ g[k] = f[k] /\ f[k] = ParseSection(f[k - 1], b[k])
          BY <3>2, <4>2
        <5>3. k = n => g[k] = ParseSection(f[k - 1], b[k])
          OBVIOUS
        <5>4. QED
          BY <4>2, <5>1, <5>2, <5>3
      <4>3. QED
        BY <4>1, <4>2
    <3>4. g = [k \in 0..n |-> g[k]]
      OBVIOUS
    <3> HIDE DEF g
    <3>5. Is(g, n)
      BY <3>3, <3>4 DEF Is
    <3>6. QED
      BY <2>1, <3>5
  <2>4. QED
    BY <2>2, <2>3
<1>2. Parsing(b) = CHOOSE f : Is(f, Len(b))
  BY DEF Parsing
<1>3. PICK f : Is(f, Len(b))
  BY <1>1
<1> HIDE DEF Is
<1>4. Is(Parsing(b), Len(b))
  BY <1>2, <1>3
<1> HIDE DEF Empty
<1>5. Parsing(b) = [k \in 0..Len(b) |-> IF k = 0 THEN Empty ELSE ParseSection(Parsing(b)[k - 1], b[k])]
  BY <1>4 DEF Is
<1>6. Parsing(b)[0] = Empty /\ \A n \in 1..Len(b) : Parsing(b)[n] = ParseSection(Parsing(b)[n - 1], b[n])
  BY <1>5
<1>7. QED
  BY <1>6 DEF Empty

\* The arguments of the two kinds of section.
LEMMA KeyFacts ==
    /\ KnownSections = {"mysql", "rpc"}
    /\ DOMAIN KeyFor["mysql"] = {"-database", "-dbname", "-dbpasswd", "-dburl", "-dbport"}
    /\ DOMAIN KeyFor["rpc"] = {"-rpcuser", "-rpcpassword", "-rpcconnect"}
BY DEF KnownSections, KeyFor

\* No argument belongs to two sections, and none to what the log line adds.
LEMMA ArgsApart ==
    ASSUME NEW m \in KnownSections, NEW n \in KnownSections, NEW a \in DOMAIN KeyFor[m]
    PROVE  /\ m # n => a \notin DOMAIN KeyFor[n]
           /\ a \notin {"database", "rpcuser", "-rpcport", "-rpcssl", "-rpcwait"}
<1>1. CASE m = "mysql"
  BY <1>1, KeyFacts
<1>2. CASE m = "rpc"
  BY <1>2, KeyFacts
<1>3. QED
  BY <1>1, <1>2, KeyFacts

HasKeys(s) == s.name \in KnownSections => KeysOf(s.name) \subseteq DOMAIN s.items
ValueOf(s, k) == IF s.items[k] = "" THEN Default ELSE s.items[k]
FirstAt(file, m, i) == file[i].name = m /\ \A j \in 1..(i - 1) : file[j].name # m

\* The arguments after the first n sections.
Parsed(args, file, n) ==
    /\ \A m \in KnownSections : \A a \in DOMAIN KeyFor[m] :
         /\ a \in DOMAIN args <=> \E i \in 1..n : file[i].name = m
         /\ \A i \in 1..n : FirstAt(file, m, i) => args[a] = ValueOf(file[i], KeyFor[m][a])
    /\ {"-rpcport", "-rpcssl", "-rpcwait"} \cap DOMAIN args = {}

\* A section of a known name sets the arguments that were not set before, and no others.
LEMMA SectionInserts ==
    ASSUME NEW args, NEW s, s.name \in KnownSections, NEW new,
           new = Insert(Insert(args, SectionArgs(s)), Logged(s.name))
    PROVE  /\ \A m \in KnownSections : \A a \in DOMAIN KeyFor[m] :
                /\ a \in DOMAIN new <=> a \in DOMAIN args \/ m = s.name
                /\ a \in DOMAIN args => new[a] = args[a]
                /\ a \notin DOMAIN args /\ m = s.name => new[a] = ValueOf(s, KeyFor[m][a])
           /\ {"-rpcport", "-rpcssl", "-rpcwait"} \cap DOMAIN args = {} =>
                {"-rpcport", "-rpcssl", "-rpcwait"} \cap DOMAIN new = {}
<1>1. PICK f : f = SectionArgs(s)
  OBVIOUS
<1>2. DOMAIN f = DOMAIN KeyFor[s.name] /\ \A a \in DOMAIN f : f[a] = ValueOf(s, KeyFor[s.name][a])
  BY <1>1 DEF SectionArgs, ValueOf
<1>3. PICK h : h = Logged(s.name)
  OBVIOUS
<1>4. DOMAIN h \subseteq {"database", "rpcuser"}
  BY <1>3 DEF Logged
<1>5. PICK g : g = Insert(args, f)
  OBVIOUS
<1>6. /\ DOMAIN g = DOMAIN args \cup DOMAIN f
      /\ \A a \in DOMAIN args : g[a] = args[a]
      /\ \A a \in (DOMAIN f) \ DOMAIN args : g[a] = f[a]
  <2>1. g = [a \in DOMAIN args \cup DOMAIN f |-> IF a \in DOMAIN args THEN args[a] ELSE f[a]]
    BY <1>5 DEF Insert
  <2>2. QED
    BY ONLY <2>1
<1>7. new = Insert(g, h)
  BY <1>1, <1>3, <1>5
<1>8. /\ DOMAIN new = DOMAIN g \cup DOMAIN h
      /\ \A a \in DOMAIN g : new[a] = g[a]
  <2>1. new = [a \in DOMAIN g \cup DOMAIN h |-> IF a \in DOMAIN g THEN g[a] ELSE h[a]]
    BY <1>7 DEF Insert
  <2>2. QED
    BY ONLY <2>1
<1>9. ASSUME NEW m \in KnownSections, NEW a \in DOMAIN KeyFor[m]
      PROVE  /\ a \in DOMAIN new <=> a \in DOMAIN args \/ m = s.name
             /\ a \in DOMAIN args => new[a] = args[a]
             /\ a \notin DOMAIN args /\ m = s.name => new[a] = ValueOf(s, KeyFor[m][a])
  <2>1. m # s.name => a \notin DOMAIN f
    BY <1>2, ArgsApart
  <2>2. a \notin DOMAIN h
    BY <1>4, ArgsApart
  <2>3. m = s.name => a \in DOMAIN f /\ f[a] = ValueOf(s, KeyFor[m][a])
    BY <1>2
  <2>4. QED
    BY <1>6, <1>8, <2>1, <2>2, <2>3
<1>10. ASSUME NEW a \in {"-rpcport", "-rpcssl", "-rpcwait"}, a \notin DOMAIN args
       PROVE  a \notin DOMAIN new
  <2>1. a \notin DOMAIN f
    BY <1>2, KeyFacts
  <2>2. a \notin DOMAIN h
    BY <1>4
  <2>3. QED
    BY <1>6, <1>8, <1>10, <2>1, <2>2
<1>11. QED
  BY <1>9, <1>10

\* One more section parsed.
LEMMA ParsedGrows ==
    ASSUME NEW args, NEW file, NEW n \in Nat \ {0}, Parsed(args, file, n - 1), NEW s, s = file[n],
           NEW new, IF s.name \in KnownSections THEN new = Insert(Insert(args, SectionArgs(s)), Logged(s.name))
                    ELSE new = args
    PROVE  Parsed(new, file, n)
<1> SUFFICES ASSUME NEW m \in KnownSections, NEW a \in DOMAIN KeyFor[m]
             PROVE  /\ a \in DOMAIN new <=> \E i \in 1..n : file[i].name = m
                    /\ \A i \in 1..n : FirstAt(file, m, i) => new[a] = ValueOf(file[i], KeyFor[m][a])
  <2>1. {"-rpcport", "-rpcssl", "-rpcwait"} \cap DOMAIN args = {}
    BY DEF Parsed
  <2>2. {"-rpcport", "-rpcssl", "-rpcwait"} \cap DOMAIN new = {}
    <3>1. CASE s.name \in KnownSections
      BY <2>1, <3>1, SectionInserts
    <3>2. CASE s.name \notin KnownSections
      BY <2>1, <3>2
    <3>3. QED
      BY <3>1, <3>2
  <2>3. QED
    BY <2>2 DEF Parsed
<1>1. /\ a \in DOMAIN args <=> \E i \in 1..(n - 1) : file[i].name = m
      /\ \A i \in 1..(n - 1) : FirstAt(file, m, i) => args[a] = ValueOf(file[i], KeyFor[m][a])
  BY DEF Parsed
<1>2. \A i : i \in 1..n <=> i \in 1..(n - 1) \/ i = n
  OBVIOUS
<1>3. CASE m # s.name
  <2>1. /\ a \in DOMAIN new <=> a \in DOMAIN args
        /\ a \in DOMAIN args => new[a] = args[a]
    <3>1. CASE s.name \in KnownSections
      BY <1>3, <3>1, SectionInserts
    <3>2. CASE s.name \notin KnownSections
      BY <3>2
    <3>3. QED
      BY <3>1, <3>2
  <2>2. ASSUME NEW i \in 1..n, FirstAt(file, m, i) PROVE i \in 1..(n - 1) /\ a \in DOMAIN args
    BY <1>1, <1>2, <1>3, <2>2 DEF FirstAt
  <2>3. QED
    BY <1>1, <1>2, <1>3, <2>1, <2>2
<1>4. CASE m = s.name
  <2>1. /\ a \in DOMAIN new
        /\ a \in DOMAIN args => new[a] = args[a]
        /\ a \notin DOMAIN args => new[a] = ValueOf(s, KeyFor[m][a])
    BY <1>4, SectionInserts
  <2>2. n \in 1..n /\ file[n].name = m
    BY <1>4
  <2>3. ASSUME NEW i \in 1..n, FirstAt(file, m, i) PROVE new[a] = ValueOf(file[i], KeyFor[m][a])
    <3>1. CASE a \in DOMAIN args
      <4>1. PICK j \in 1..(n - 1) : file[j].name = m
        BY <1>1, <3>1
      <4>2. i <= j
        <5>1. ~(j \in 1..(i - 1))
          BY <2>3, <4>1 DEF FirstAt
        <5>2. QED
          BY <5>1
      <4>3. i \in 1..(n - 1)
        BY <4>2
      <4>4. QED
        BY <1>1, <2>1, <2>3, <3>1, <4>3
    <3>2. CASE a \notin DOMAIN args
      <4>1. i = n
        BY <1>1, <1>2, <2>3, <3>2 DEF FirstAt
      <4>2. QED
        BY <2>1, <3>2, <4>1
    <3>3. QED
      BY <3>1, <3>2
  <2>4. QED
    BY <2>1, <2>2, <2>3
<1>5. QED
  BY <1>3, <1>4

\* The state of the parser after the first n sections.
ParserInv(acc, file, n) ==
    /\ acc = [args |-> acc.args, thrown |-> acc.thrown]
    /\ acc.thrown = ~ \A i \in 1..n : HasKeys(file[i])
    /\ ~acc.thrown => Parsed(acc.args, file, n)

\* By induction, of each number of sections.
LEMMA ParsingHolds ==
    ASSUME NEW S, NEW file \in Seq(S), NEW n \in 0..Len(file)
    PROVE  ParserInv(Parsing(file)[n], file, n)
<1> SUFFICES ASSUME ~ParserInv(Parsing(file)[n], file, n) PROVE FALSE
  OBVIOUS
<1> DEFINE Bad == {i \in 0..Len(file) : ~ParserInv(Parsing(file)[i], file, i)}
<1>1. PICK i \in Bad : \A j \in Bad : i <= j
  <2>1. Bad \in SUBSET Nat /\ n \in Bad
    OBVIOUS
  <2> HIDE DEF Bad
  <2>2. QED
    BY <2>1, LeastNumber
<1>2. CASE i = 0
  <2>1. PICK acc : acc = Parsing(file)[0]
    OBVIOUS
  <2>2. acc = [args |-> <<>>, thrown |-> FALSE]
    BY <2>1, ParsingRounds
  <2>3. Parsed(<<>>, file, 0)
    <3>1. DOMAIN <<>> = {}
      OBVIOUS
    <3>2. 1..0 = {}
      OBVIOUS
    <3>3. QED
      BY <3>1, <3>2 DEF Parsed
  <2>4. ParserInv(acc, file, 0)
    <3>1. acc.args = <<>> /\ acc.thrown = FALSE
      BY <2>2
    <3>2. 1..0 = {}
      OBVIOUS
    <3>3. acc.thrown = ~ \A j \in 1..0 : HasKeys(file[j])
      BY <3>1, <3>2
    <3>4. acc = [args |-> acc.args, thrown |-> acc.thrown]
      BY <2>2
    <3>5. QED
      BY <2>3, <3>1, <3>3, <3>4 DEF ParserInv
  <2>5. QED
    BY <1>1, <1>2, <2>1, <2>4
<1>3. CASE i # 0
  <2>1. i \in 1..Len(file) /\ i - 1 \in 0..Len(file) /\ i - 1 \notin Bad /\ i \in Nat \ {0}
    BY <1>1, <1>3
  <2>2. PICK acc, new, s : acc = Parsing(file)[i - 1] /\ new = Parsing(file)[i] /\ s = file[i]
    OBVIOUS
  <2>3. new = ParseSection(acc, s)
    BY <2>1, <2>2, ParsingRounds
  <2>4. ParserInv(acc, file, i - 1)
    BY <2>1, <2>2
  <2>5. acc = [args |-> acc.args, thrown |-> acc.thrown]
    BY <2>4 DEF ParserInv
  <2>6. acc.thrown <=> ~ \A j \in 1..(i - 1) : HasKeys(file[j])
    BY <2>4 DEF ParserInv
  <2>7. \A j : j \in 1..i <=> j \in 1..(i - 1) \/ j = i
    BY <2>1
  <2>8. (\A j \in 1..i : HasKeys(file[j])) <=> (\A j \in 1..(i - 1) : HasKeys(file[j])) /\ HasKeys(s)
    BY <2>2, <2>7
  <2>9. CASE acc.thrown
    <3>1. new = acc
      BY <2>3, <2>9 DEF ParseSection
    <3>2. ParserInv(new, file, i)
      BY <2>4, <2>6, <2>8, <2>9, <3>1 DEF ParserInv
    <3>3. QED
      BY <1>1, <2>2, <3>2
  <2>10. CASE ~acc.thrown /\ ~HasKeys(s)
    <3>1. new = [acc EXCEPT !.thrown = TRUE]
      BY <2>3, <2>10 DEF ParseSection, HasKeys
    <3>2. new = [args |-> acc.args, thrown |-> TRUE]
      BY <2>5, <3>1
    <3>3. ParserInv(new, file, i)
      BY <2>8, <2>10, <3>2 DEF ParserInv
    <3>4. QED
      BY <1>1, <2>2, <3>3
  <2>11. CASE ~acc.thrown /\ HasKeys(s)
    <3>1. PICK args : args = IF s.name \in KnownSections
                             THEN Insert(Insert(acc.args, SectionArgs(s)), Logged(s.name)) ELSE acc.args
      OBVIOUS
    <3>2. new = [args |-> args, thrown |-> FALSE]
      <4>1. CASE s.name \in KnownSections
        <5>1. new = [acc EXCEPT !.args = args]
          BY <2>3, <2>11, <3>1, <4>1 DEF ParseSection, HasKeys
        <5>2. acc.thrown = FALSE
          BY <2>4, <2>6, <2>11 DEF ParserInv
        <5>3. QED
          BY <2>5, <5>1, <5>2
      <4>2. CASE s.name \notin KnownSections
        <5>1. new = acc
          BY <2>3, <4>2 DEF ParseSection
        <5>2. acc.thrown = FALSE
          BY <2>4, <2>6, <2>11 DEF ParserInv
        <5>3. QED
          BY <2>5, <3>1, <4>2, <5>1, <5>2
      <4>3. QED
        BY <4>1, <4>2
    <3>3. Parsed(acc.args, file, i - 1)
      BY <2>4, <2>11 DEF ParserInv
    <3>4. Parsed(args, file, i)
      BY <2>1, <2>2, <3>1, <3>3, ParsedGrows
    <3>5. \A j \in 1..i : HasKeys(file[j])
      BY <2>6, <2>8, <2>11
    <3>6. ParserInv(new, file, i)
      BY <3>2, <3>4, <3>5 DEF ParserInv
    <3>7. QED
      BY <1>1, <2>2, <3>6
  <2>12. QED
    BY <2>9, <2>10, <2>11
<1>4. QED
  BY <1>2, <1>3

\* The first section of a name.
LEMMA FirstSection ==
    ASSUME NEW S, NEW file \in Seq(S), NEW m,
           NEW N, N = {i \in DOMAIN file : file[i].name = m}, N # {},
           NEW f, f = CHOOSE i \in N : \A j \in N : i <= j
    PROVE  f \in 1..Len(file) /\ FirstAt(file, m, f)
<1>1. N \in SUBSET Nat /\ N \subseteq 1..Len(file)
  BY SMTT(30)
<1>2. \E i \in N : \A j \in N : i <= j
  BY <1>1, LeastNumber
<1>3. f \in N /\ \A j \in N : f <= j
  BY <1>2
<1>4. f \in 1..Len(file) /\ file[f].name = m
  BY <1>3
<1>5. ASSUME NEW j \in 1..(f - 1) PROVE file[j].name # m
  <2>1. ~(f <= j) /\ j \in 1..Len(file)
    BY <1>4, SMTT(30)
  <2>2. QED
    BY <1>3, <2>1
<1>6. QED
  BY <1>4, <1>5 DEF FirstAt

\* An argument is set just when its section is there, to the value of the first one.
LEMMA ArgumentIs ==
    ASSUME NEW S, NEW file \in Seq(S), NEW args, Parsed(args, file, Len(file)),
           NEW m \in KnownSections, NEW a \in DOMAIN KeyFor[m],
           NEW N, N = {i \in DOMAIN file : file[i].name = m}
    PROVE  /\ a \in DOMAIN args <=> N # {}
           /\ \A f \in 1..Len(file) : FirstAt(file, m, f) => args[a] = ValueOf(file[f], KeyFor[m][a])
<1>1. /\ a \in DOMAIN args <=> \E i \in 1..Len(file) : file[i].name = m
      /\ \A i \in 1..Len(file) : FirstAt(file, m, i) => args[a] = ValueOf(file[i], KeyFor[m][a])
  BY DEF Parsed
<1>2. DOMAIN file = 1..Len(file)
  OBVIOUS
<1>3. a \in DOMAIN args <=> N # {}
  BY <1>1, <1>2
<1>4. QED
  BY <1>1, <1>3

\* What parse_fidconfig() returns for a file.
LEMMA ParsedFile ==
    ASSUME NEW S, NEW file \in Seq(S), NEW p, p = ParseFidConfig(file)
    PROVE  /\ p.thrown = ~ \A i \in DOMAIN file : HasKeys(file[i])
           /\ ~p.thrown => Parsed(p.args, file, Len(file))
<1>1. PICK acc : acc = Parsing(file)[Len(file)]
  OBVIOUS
<1>2. ParserInv(acc, file, Len(file))
  <2>1. Len(file) \in 0..Len(file)
    OBVIOUS
  <2>2. QED
    BY <1>1, <2>1, ParsingHolds
<1>3. p.args = acc.args /\ p.thrown = acc.thrown
  BY <1>1 DEF ParseFidConfig
<1>4. DOMAIN file = 1..Len(file)
  OBVIOUS
<1>5. QED
  BY <1>2, <1>3, <1>4 DEF ParserInv

\* What is read from the arguments.
LEMMA SettingsRead ==
    ASSUME NEW args, {"-rpcport", "-rpcssl", "-rpcwait"} \cap DOMAIN args = {}
    PROVE  /\ \A n \in KnownSections : \A a \in DOMAIN KeyFor[n] :
                Settings(args)[a] = IF a \in DOMAIN args THEN args[a]
                                    ELSE IF a = "-rpcconnect" THEN "127.0.0.1" ELSE ""
           /\ Settings(args)["-rpcport"] = "19772"
           /\ TRUE \notin Range(Switches(args))
<1>1. PICK f : f = Settings(args)
  OBVIOUS
<1>2. ASSUME NEW n \in KnownSections, NEW a \in DOMAIN KeyFor[n]
      PROVE  f[a] = IF a \in DOMAIN args THEN args[a]
                    ELSE IF a = "-rpcconnect" THEN "127.0.0.1" ELSE ""
  <2>1. CASE n = "mysql"
    <3>1. /\ a \in DOMAIN KeyFor["mysql"]
          /\ a \notin {"-rpcuser", "-rpcpassword", "-rpcconnect", "-rpcport"}
      BY <2>1, KeyFacts
    <3>2. f[a] = GetFidConfig(args, a)
      BY <1>1, <3>1 DEF Settings
    <3>3. QED
      BY <3>1, <3>2 DEF GetFidConfig
  <2>2. CASE n = "rpc"
    <3>1. a \notin DOMAIN KeyFor["mysql"] /\ a \in {"-rpcuser", "-rpcpassword", "-rpcconnect"}
      BY <2>2, KeyFacts
    <3>2. f[a] = IF a = "-rpcconnect" THEN GetArg(args, a, "127.0.0.1") ELSE GetArg(args, a, "")
      BY <1>1, <3>1 DEF Settings
    <3>3. QED
      BY <3>1, <3>2 DEF GetArg
  <2>3. QED
    BY <2>1, <2>2, KeyFacts
<1>3. f["-rpcport"] = "19772"
  <2>1. "-rpcport" \notin DOMAIN KeyFor["mysql"]
    BY KeyFacts
  <2>2. f["-rpcport"] = GetArg(args, "-rpcport", "19772")
    BY <1>1, <2>1 DEF Settings
  <2>3. QED
    BY <2>2 DEF GetArg
<1>4. TRUE \notin Range(Switches(args))
  BY DEF Switches, GetBoolArg, Range
<1>5. QED
  BY <1>1, <1>2, <1>3, <1>4

\* The login is missing only when there is no section for it.
LEMMA NoLoginIs ==
    ASSUME NEW S, NEW file \in Seq(S), NEW args, Parsed(args, file, Len(file)),
           NEW N, N = {i \in DOMAIN file : file[i].name = "rpc"}
    PROVE  NoLogin(args) = (N = {})
<1>1. "rpc" \in KnownSections /\ {"-rpcuser", "-rpcpassword"} \subseteq DOMAIN KeyFor["rpc"]
  BY KeyFacts
<1>2. PICK f : N # {} => f \in 1..Len(file) /\ FirstAt(file, "rpc", f)
  BY FirstSection
<1>3. ASSUME NEW a \in {"-rpcuser", "-rpcpassword"} PROVE GetArg(args, a, "") = "" <=> N = {}
  <2>1. /\ a \in DOMAIN args <=> \E i \in 1..Len(file) : file[i].name = "rpc"
        /\ \A i \in 1..Len(file) : FirstAt(file, "rpc", i) => args[a] = ValueOf(file[i], KeyFor["rpc"][a])
    BY <1>1 DEF Parsed
  <2>2. N # {} <=> \E i \in 1..Len(file) : file[i].name = "rpc"
    OBVIOUS
  <2>3. \A v, k : ValueOf(v, k) # ""
    BY DEF ValueOf, Default
  <2>4. QED
    BY <1>2, <2>1, <2>2, <2>3 DEF GetArg
<1>4. QED
  BY <1>3 DEF NoLogin

-----------------------------------------------------------------------------
(* Strings in a JSON text *)

\* A round of the loop over the bytes.
Glued(t, c) == t \o EscapeChar(c)

\* A round of the scan for the end of a string.
Takes(before, chars, n) == n >= 3 /\ chars[n - 1] = Backslash /\ ~before

\* The loop of escaping, round by round.
LEMMA EscapingRounds ==
    ASSUME NEW b, Len(b) \in Nat
    PROVE  /\ Escaping(b)[0] = <<>>
           /\ \A n \in 1..Len(b) : Escaping(b)[n] = Glued(Escaping(b)[n - 1], b[n])
<1> DEFINE Empty == <<>>
           Is(f, n) == f = [k \in 0..n |-> IF k = 0 THEN Empty ELSE Glued(f[k - 1], b[k])]
<1>1. \A n \in Nat : \E f : Is(f, n)
  <2> SUFFICES ASSUME NEW bad \in Nat, ~ \E f : Is(f, bad) PROVE FALSE
    OBVIOUS
  <2> DEFINE Bad == {n \in Nat : ~ \E f : Is(f, n)}
  <2> HIDE DEF Is
  <2>1. PICK n \in Bad : \A m \in Bad : n <= m
    BY LeastNumber
  <2> HIDE DEF Empty
  <2>2. CASE n = 0
    <3>1. Is([k \in 0..0 |-> Empty], 0)
      BY DEF Is
    <3>2. QED
      BY <2>1, <2>2, <3>1
  <2>3. CASE n # 0
    <3>1. PICK f : Is(f, n - 1)
      BY <2>1, <2>3
    <3>2. f = [k \in 0..(n - 1) |-> IF k = 0 THEN Empty ELSE Glued(f[k - 1], b[k])]
      BY <3>1 DEF Is
    <3> DEFINE g == [k \in 0..n |-> IF k = n THEN Glued(f[n - 1], b[n]) ELSE f[k]]
    <3>3. \A k \in 0..n : g[k] = IF k = 0 THEN Empty ELSE Glued(g[k - 1], b[k])
      <4> SUFFICES ASSUME NEW k \in 0..n
                   PROVE  g[k] = IF k = 0 THEN Empty ELSE Glued(g[k - 1], b[k])
        OBVIOUS
      <4>1. CASE k = 0
        BY <2>3, <3>2, <4>1
      <4>2. CASE k # 0
        <5>1. k - 1 \in 0..(n - 1) /\ k - 1 \in 0..n /\ g[k - 1] = f[k - 1]
          BY <4>2
        <5>2. k # n => k \in 0..(n - 1) /\ g[k] = f[k] /\ f[k] = Glued(f[k - 1], b[k])
          BY <3>2, <4>2
        <5>3. k = n => g[k] = Glued(f[k - 1], b[k])
          OBVIOUS
        <5>4. QED
          BY <4>2, <5>1, <5>2, <5>3
      <4>3. QED
        BY <4>1, <4>2
    <3>4. g = [k \in 0..n |-> g[k]]
      OBVIOUS
    <3> HIDE DEF g
    <3>5. Is(g, n)
      BY <3>3, <3>4 DEF Is
    <3>6. QED
      BY <2>1, <3>5
  <2>4. QED
    BY <2>2, <2>3
<1>2. Escaping(b) = CHOOSE f : Is(f, Len(b))
  BY DEF Escaping, Glued
<1>3. PICK f : Is(f, Len(b))
  BY <1>1
<1> HIDE DEF Is
<1>4. Is(Escaping(b), Len(b))
  BY <1>2, <1>3
<1> HIDE DEF Empty
<1>5. Escaping(b) = [k \in 0..Len(b) |-> IF k = 0 THEN Empty ELSE Glued(Escaping(b)[k - 1], b[k])]
  BY <1>4 DEF Is
<1>6. Escaping(b)[0] = Empty /\ \A n \in 1..Len(b) : Escaping(b)[n] = Glued(Escaping(b)[n - 1], b[n])
  BY <1>5
<1>7. QED
  BY <1>6 DEF Empty

\* The loop that takes the escapes out, round by round.
LEMMA UnescapingRounds ==
    ASSUME NEW b, Len(b) \in Nat
    PROVE  /\ Unescaping(b)[0] = [out |-> <<>>, next |-> 1]
           /\ \A n \in 1..Len(b) : Unescaping(b)[n] = UnescapeStep(Unescaping(b)[n - 1], b)
<1> DEFINE Empty == [out |-> <<>>, next |-> 1]
           Is(f, n) == f = [k \in 0..n |-> IF k = 0 THEN Empty ELSE UnescapeStep(f[k - 1], b)]
<1>1. \A n \in Nat : \E f : Is(f, n)
  <2> SUFFICES ASSUME NEW bad \in Nat, ~ \E f : Is(f, bad) PROVE FALSE
    OBVIOUS
  <2> DEFINE Bad == {n \in Nat : ~ \E f : Is(f, n)}
  <2> HIDE DEF Is
  <2>1. PICK n \in Bad : \A m \in Bad : n <= m
    BY LeastNumber
  <2> HIDE DEF Empty
  <2>2. CASE n = 0
    <3>1. Is([k \in 0..0 |-> Empty], 0)
      BY DEF Is
    <3>2. QED
      BY <2>1, <2>2, <3>1
  <2>3. CASE n # 0
    <3>1. PICK f : Is(f, n - 1)
      BY <2>1, <2>3
    <3>2. f = [k \in 0..(n - 1) |-> IF k = 0 THEN Empty ELSE UnescapeStep(f[k - 1], b)]
      BY <3>1 DEF Is
    <3> DEFINE g == [k \in 0..n |-> IF k = n THEN UnescapeStep(f[n - 1], b) ELSE f[k]]
    <3>3. \A k \in 0..n : g[k] = IF k = 0 THEN Empty ELSE UnescapeStep(g[k - 1], b)
      <4> SUFFICES ASSUME NEW k \in 0..n
                   PROVE  g[k] = IF k = 0 THEN Empty ELSE UnescapeStep(g[k - 1], b)
        OBVIOUS
      <4>1. CASE k = 0
        BY <2>3, <3>2, <4>1
      <4>2. CASE k # 0
        <5>1. k - 1 \in 0..(n - 1) /\ k - 1 \in 0..n /\ g[k - 1] = f[k - 1]
          BY <4>2
        <5>2. k # n => k \in 0..(n - 1) /\ g[k] = f[k] /\ f[k] = UnescapeStep(f[k - 1], b)
          BY <3>2, <4>2
        <5>3. k = n => g[k] = UnescapeStep(f[k - 1], b)
          OBVIOUS
        <5>4. QED
          BY <4>2, <5>1, <5>2, <5>3
      <4>3. QED
        BY <4>1, <4>2
    <3>4. g = [k \in 0..n |-> g[k]]
      OBVIOUS
    <3> HIDE DEF g
    <3>5. Is(g, n)
      BY <3>3, <3>4 DEF Is
    <3>6. QED
      BY <2>1, <3>5
  <2>4. QED
    BY <2>2, <2>3
<1>2. Unescaping(b) = CHOOSE f : Is(f, Len(b))
  BY DEF Unescaping
<1>3. PICK f : Is(f, Len(b))
  BY <1>1
<1> HIDE DEF Is
<1>4. Is(Unescaping(b), Len(b))
  BY <1>2, <1>3
<1> HIDE DEF Empty
<1>5. Unescaping(b) = [k \in 0..Len(b) |-> IF k = 0 THEN Empty ELSE UnescapeStep(Unescaping(b)[k - 1], b)]
  BY <1>4 DEF Is
<1>6. Unescaping(b)[0] = Empty /\ \A n \in 1..Len(b) : Unescaping(b)[n] = UnescapeStep(Unescaping(b)[n - 1], b)
  BY <1>5
<1>7. QED
  BY <1>6 DEF Empty

\* Which characters a backslash takes, from the first on.
LEMMA TakenRounds ==
    ASSUME NEW b, Len(b) \in Nat
    PROVE  \A n \in 0..Len(b) : Taken(b)[n] = Takes(Taken(b)[n - 1], b, n)
<1> DEFINE Is(f, n) == f = [k \in 0..n |-> Takes(f[k - 1], b, k)]
<1>1. \A n \in Nat : \E f : Is(f, n)
  <2> SUFFICES ASSUME NEW bad \in Nat, ~ \E f : Is(f, bad) PROVE FALSE
    OBVIOUS
  <2> DEFINE Bad == {n \in Nat : ~ \E f : Is(f, n)}
  <2> HIDE DEF Is
  <2>1. PICK n \in Bad : \A m \in Bad : n <= m
    BY LeastNumber
  <2>2. \A x : Takes(x, b, 0) = FALSE
    BY DEF Takes
  <2>3. CASE n = 0
    <3>1. PICK f : f = [k \in 0..0 |-> FALSE]
      OBVIOUS
    <3>2. f = [k \in 0..0 |-> Takes(f[k - 1], b, k)]
      BY <2>2, <3>1
    <3>3. QED
      BY <2>1, <2>3, <3>2 DEF Is
  <2>4. CASE n # 0
    <3>1. PICK f : Is(f, n - 1)
      BY <2>1, <2>4
    <3>2. f = [k \in 0..(n - 1) |-> Takes(f[k - 1], b, k)]
      BY <3>1 DEF Is
    <3> DEFINE g == [k \in 0..n |-> IF k = n THEN Takes(f[n - 1], b, n) ELSE f[k]]
    <3>3. \A k \in 0..n : g[k] = Takes(g[k - 1], b, k)
      <4> SUFFICES ASSUME NEW k \in 0..n PROVE g[k] = Takes(g[k - 1], b, k)
        OBVIOUS
      <4>1. CASE k = 0
        <5>1. g[k] = f[k] /\ f[k] = Takes(f[k - 1], b, k)
          BY <2>4, <3>2, <4>1
        <5> HIDE DEF g
        <5>2. QED
          BY <2>2, <4>1, <5>1
      <4>2. CASE k # 0
        <5>1. k - 1 \in 0..(n - 1) /\ k - 1 \in 0..n /\ g[k - 1] = f[k - 1]
          BY <4>2
        <5>2. k # n => k \in 0..(n - 1) /\ g[k] = f[k] /\ f[k] = Takes(f[k - 1], b, k)
          BY <3>2, <4>2
        <5>3. k = n => g[k] = Takes(f[k - 1], b, k)
          OBVIOUS
        <5>4. QED
          BY <4>2, <5>1, <5>2, <5>3
      <4>3. QED
        BY <4>1, <4>2
    <3>4. g = [k \in 0..n |-> g[k]]
      OBVIOUS
    <3> HIDE DEF g
    <3>5. g = [k \in 0..n |-> Takes(g[k - 1], b, k)]
      BY <3>3, <3>4
    <3>6. QED
      BY <2>1, <3>5 DEF Is
  <2>5. QED
    BY <2>3, <2>4
<1>2. Taken(b) = CHOOSE f : Is(f, Len(b))
  BY DEF Taken, Takes
<1>3. PICK f : Is(f, Len(b))
  BY <1>1
<1> HIDE DEF Is
<1>4. Is(Taken(b), Len(b))
  BY <1>2, <1>3
<1>5. Taken(b) = [k \in 0..Len(b) |-> Takes(Taken(b)[k - 1], b, k)]
  BY <1>4 DEF Is
<1>6. QED
  BY <1>5

\* A hexadecimal digit written is the digit read.
LEMMA HexDigits ==
    ASSUME NEW d \in 0..15
    PROVE  /\ ToHexChar(d) \in 48..70
           /\ HexToNum(ToHexChar(d)) = d
<1>1. CASE d < 10
  <2>1. ToHexChar(d) = 48 + d
    BY <1>1 DEF ToHexChar
  <2>2. 48 + d \in 48..57 /\ 48 + d \notin 97..102 /\ 48 + d \notin 65..70 /\ (48 + d) - 48 = d
    BY <1>1
  <2>3. QED
    BY <2>1, <2>2 DEF HexToNum
<1>2. CASE ~(d < 10)
  <2>1. ToHexChar(d) = 55 + d
    BY <1>2 DEF ToHexChar
  <2>2. 55 + d \in 65..70 /\ 55 + d \notin 97..102 /\ 55 + d \notin 48..57 /\ (55 + d) - 55 = d
    BY <1>2
  <2>3. QED
    BY <2>1, <2>2 DEF HexToNum
<1>3. QED
  BY <1>1, <1>2

\* A byte in hexadecimal.
LEMMA HexByte ==
    ASSUME NEW c \in 0..255
    PROVE  /\ c \div 16 \in 0..15 /\ c % 16 \in 0..15
           /\ (16 * (c \div 16) + (c % 16)) % 256 = c
OBVIOUS

\* The letters of the escapes are apart, and none is one of x, u, /.
LEMMA Letters ==
    /\ DOMAIN Letter = {34, 92, 8, 12, 10, 13, 9}
    /\ \A c \in DOMAIN Letter : Letter[c] \in 0..255 /\ Letter[c] \notin {120, 117, 47}
    /\ \A c, d \in DOMAIN Letter : Letter[c] = Letter[d] => c = d
<1>1. DOMAIN Letter = {34, 92, 8, 12, 10, 13, 9}
  BY DEF Letter, Quote, Backslash
<1>2. /\ Letter[34] = 34 /\ Letter[92] = 92 /\ Letter[8] = 98 /\ Letter[12] = 102
      /\ Letter[10] = 110 /\ Letter[13] = 114 /\ Letter[9] = 116
  BY DEF Letter, Quote, Backslash
<1>3. QED
  BY <1>1, <1>2

\* What a byte is written as.
Unit(u, c) ==
    \/ Len(u) = 1 /\ u[1] = c /\ c \notin {Quote, Backslash}
    \/ Len(u) = 2 /\ u[1] = Backslash /\ u[2] = Letter[c] /\ c \in DOMAIN Letter
    \/ /\ Len(u) = 6 /\ u[1] = Backslash /\ u[2] = 117 /\ u[3] = 48 /\ u[4] = 48
       /\ u[5] = ToHexChar(c \div 16) /\ u[6] = ToHexChar(c % 16)

\* Whatever the byte, it goes out as one of these units.
LEMMA EscapeIsUnit ==
    ASSUME NEW c \in 0..255, NEW u, u = EscapeChar(c)
    PROVE  Unit(u, c) /\ u \in Seq(0..255)
<1>1. CASE c \in DOMAIN Letter
  <2>1. u = <<Backslash, Letter[c]>>
    BY <1>1 DEF EscapeChar
  <2>2. Letter[c] \in 0..255 /\ Backslash \in 0..255
    BY <1>1, Letters DEF Backslash
  <2>3. Len(u) = 2 /\ u[1] = Backslash /\ u[2] = Letter[c] /\ u \in Seq(0..255)
    BY <2>1, <2>2
  <2>4. QED
    BY <1>1, <2>3 DEF Unit
<1>2. CASE c \notin DOMAIN Letter /\ c \in 32..126
  <2>1. u = <<c>>
    BY <1>2 DEF EscapeChar
  <2>2. c \notin {Quote, Backslash}
    BY <1>2, Letters DEF Quote, Backslash
  <2>3. QED
    BY <2>1, <2>2 DEF Unit
<1>3. CASE c \notin DOMAIN Letter /\ c \notin 32..126
  <2>1. PICK h, l : h = ToHexChar(c \div 16) /\ l = ToHexChar(c % 16)
    OBVIOUS
  <2>2. h \in 48..70 /\ l \in 48..70
    BY <2>1, HexByte, HexDigits
  <2>3. u = <<Backslash, 117, 48, 48, h, l>>
    BY <1>3, <2>1 DEF EscapeChar
  <2>4. Backslash \in 0..255
    BY DEF Backslash
  <2>5. /\ Len(u) = 6 /\ u[1] = Backslash /\ u[2] = 117 /\ u[3] = 48 /\ u[4] = 48
        /\ u[5] = h /\ u[6] = l
    BY <2>3
  <2>6. u \in Seq(0..255)
    BY <2>2, <2>3, <2>4
  <2>7. QED
    BY <2>1, <2>5, <2>6 DEF Unit
<1>4. QED
  BY <1>1, <1>2, <1>3

\* Two sequences joined, place by place.
LEMMA GluedIs ==
    ASSUME NEW S, NEW s \in Seq(S), NEW u \in Seq(S), NEW t, t = s \o u
    PROVE  /\ t \in Seq(S) /\ Len(t) = Len(s) + Len(u) /\ Len(s) \in Nat /\ Len(u) \in Nat
           /\ \A i \in 1..Len(s) : t[i] = s[i]
           /\ \A j \in 1..Len(u) : t[Len(s) + j] = u[j]
OBVIOUS

\* A round of the loop over the bytes.
LEMMA EscapingRound ==
    ASSUME NEW b \in Seq(0..255), NEW n \in 1..Len(b)
    PROVE  /\ Escaping(b)[n] = Escaping(b)[n - 1] \o EscapeChar(b[n])
           /\ Unit(EscapeChar(b[n]), b[n]) /\ EscapeChar(b[n]) \in Seq(0..255)
<1>1. Escaping(b)[n] = Glued(Escaping(b)[n - 1], b[n])
  <2>1. Len(b) \in Nat
    OBVIOUS
  <2>2. QED
    BY <2>1, EscapingRounds
<1>2. PICK c : c = b[n]
  OBVIOUS
<1>3. c \in 0..255
  BY <1>2, ElementOf
<1>4. Unit(EscapeChar(c), c) /\ EscapeChar(c) \in Seq(0..255)
  BY <1>3, EscapeIsUnit
<1>5. QED
  BY <1>1, <1>2, <1>4 DEF Glued

\* Escapes are bytes.
LEMMA EscapingTyped ==
    ASSUME NEW b \in Seq(0..255), NEW n \in 0..Len(b)
    PROVE  Escaping(b)[n] \in Seq(0..255)
<1> SUFFICES ASSUME Escaping(b)[n] \notin Seq(0..255) PROVE FALSE
  OBVIOUS
<1> DEFINE Bad == {k \in 0..Len(b) : Escaping(b)[k] \notin Seq(0..255)}
<1>1. PICK k \in Bad : \A m \in Bad : k <= m
  <2>1. Bad \in SUBSET Nat /\ n \in Bad
    OBVIOUS
  <2> HIDE DEF Bad
  <2>2. QED
    BY <2>1, LeastNumber
<1>2. Escaping(b)[0] = <<>>
  <2>1. Len(b) \in Nat
    OBVIOUS
  <2>2. QED
    BY <2>1, EscapingRounds
<1>3. k # 0
  <2>1. <<>> \in Seq(0..255)
    OBVIOUS
  <2>2. Escaping(b)[k] \notin Seq(0..255)
    BY <1>1
  <2>3. QED
    BY <1>2, <2>1, <2>2
<1>4. k \in 1..Len(b) /\ k - 1 \notin Bad
  BY <1>1, <1>3
<1>5. PICK s, u : s = Escaping(b)[k - 1] /\ u = EscapeChar(b[k])
  OBVIOUS
<1>6. s \in Seq(0..255)
  BY <1>4, <1>5
<1>7. Escaping(b)[k] = s \o u /\ u \in Seq(0..255)
  BY <1>4, <1>5, EscapingRound
<1>8. Escaping(b)[k] \in Seq(0..255)
  BY <1>6, <1>7
<1>9. QED
  BY <1>1, <1>8

\* Where the text of a byte stands in the text of all of them.
LEMMA EscapingKeeps ==
    ASSUME NEW b \in Seq(0..255), NEW n \in 0..Len(b), NEW m \in n..Len(b)
    PROVE  /\ Len(Escaping(b)[n]) <= Len(Escaping(b)[m])
           /\ \A i \in 1..Len(Escaping(b)[n]) : Escaping(b)[m][i] = Escaping(b)[n][i]
<1>1. PICK s : s = Escaping(b)[n]
  OBVIOUS
<1> DEFINE Keeps(t) == Len(s) <= Len(t) /\ \A i \in 1..Len(s) : t[i] = s[i]
           Bad == {k \in n..Len(b) : ~Keeps(Escaping(b)[k])}
<1> HIDE DEF Keeps
<1> SUFFICES ASSUME ~Keeps(Escaping(b)[m]) PROVE FALSE
  BY <1>1 DEF Keeps
<1>2. PICK k \in Bad : \A j \in Bad : k <= j
  <2>1. Bad \in SUBSET Nat /\ m \in Bad
    OBVIOUS
  <2> HIDE DEF Bad
  <2>2. QED
    BY <2>1, LeastNumber
<1>3. s \in Seq(0..255)
  BY <1>1, EscapingTyped
<1>4. Keeps(s)
  BY <1>3 DEF Keeps
<1>5. k # n
  BY <1>1, <1>2, <1>4
<1>6. k \in 1..Len(b) /\ k - 1 \in n..Len(b) /\ k - 1 \in 0..Len(b) /\ k - 1 \notin Bad
  BY <1>2, <1>5
<1>7. PICK p, t, u : p = Escaping(b)[k - 1] /\ t = Escaping(b)[k] /\ u = EscapeChar(b[k])
  OBVIOUS
<1>8. Keeps(p)
  BY <1>6, <1>7
<1>9. p \in Seq(0..255)
  BY <1>6, <1>7, EscapingTyped
<1>10. t = p \o u /\ u \in Seq(0..255)
  BY <1>6, <1>7, EscapingRound
<1>11. Len(t) = Len(p) + Len(u) /\ \A i \in 1..Len(p) : t[i] = p[i]
  BY <1>9, <1>10, GluedIs
<1>12. Keeps(t)
  <2>1. Len(s) \in Nat /\ Len(p) \in Nat /\ Len(u) \in Nat
    BY <1>3, <1>9, <1>10
  <2>2. QED
    BY <1>8, <1>11, <2>1 DEF Keeps
<1>13. QED
  BY <1>2, <1>7, <1>12

\* u stands in e after its first p.
UnitStands(e, p, u) == p + Len(u) <= Len(e) /\ \A j \in 1..Len(u) : e[p + j] = u[j]

\* The text of the n-th byte in that of all.
LEMMA UnitPlaced ==
    ASSUME NEW b \in Seq(0..255), NEW n \in 1..Len(b)
    PROVE  /\ Len(Escaping(b)[n - 1]) \in Nat
           /\ Len(Escaping(b)[n]) = Len(Escaping(b)[n - 1]) + Len(EscapeChar(b[n]))
           /\ UnitStands(Escaping(b)[Len(b)], Len(Escaping(b)[n - 1]), EscapeChar(b[n]))
           /\ Unit(EscapeChar(b[n]), b[n]) /\ EscapeChar(b[n]) \in Seq(0..255)
<1> PICK e, p, u : e = Escaping(b)[Len(b)] /\ p = Len(Escaping(b)[n - 1]) /\ u = EscapeChar(b[n])
  OBVIOUS
<1>1. PICK s, t : s = Escaping(b)[n - 1] /\ t = Escaping(b)[n]
  OBVIOUS
<1>2. t = s \o u /\ Unit(u, b[n]) /\ u \in Seq(0..255)
  BY <1>1, EscapingRound
<1>3. s \in Seq(0..255)
  <2>1. n - 1 \in 0..Len(b)
    OBVIOUS
  <2>2. QED
    BY <1>1, <2>1, EscapingTyped
<1>4. /\ Len(t) = Len(s) + Len(u) /\ Len(s) \in Nat /\ Len(u) \in Nat
      /\ \A j \in 1..Len(u) : t[Len(s) + j] = u[j]
  BY <1>2, <1>3, GluedIs
<1>5. Len(t) <= Len(e) /\ \A i \in 1..Len(t) : e[i] = t[i]
  <2>1. n \in 0..Len(b) /\ Len(b) \in n..Len(b)
    OBVIOUS
  <2>2. QED
    BY <1>1, <2>1, EscapingKeeps
<1>6. p = Len(s)
  BY <1>1
<1>7. ASSUME NEW j \in 1..Len(u) PROVE e[p + j] = u[j]
  <2>1. p + j \in 1..Len(t)
    BY <1>4, <1>6
  <2>2. QED
    BY <1>4, <1>5, <1>6, <2>1
<1>8. QED
  BY <1>1, <1>2, <1>4, <1>5, <1>6, <1>7 DEF UnitStands

\* A round takes the text of a byte and gives the byte.
LEMMA UnescapesUnit ==
    ASSUME NEW e \in Seq(0..255), NEW c \in 0..255, NEW u, Unit(u, c), NEW p \in Nat,
           UnitStands(e, p, u), NEW x \in Seq(0..255)
    PROVE  UnescapeStep([out |-> x, next |-> p + 1], e) = [out |-> Append(x, c), next |-> p + Len(u) + 1]
<1> USE DEF UnitStands
<1>1. CASE Len(u) = 1 /\ u[1] = c /\ c \notin {Quote, Backslash}
  <2>1. e[p + 1] = c /\ p + 1 \in DOMAIN e /\ c # Backslash
    BY <1>1
  <2>2. UnescapeStep([out |-> x, next |-> p + 1], e) = [out |-> Append(x, e[p + 1]), next |-> p + 1 + 1]
    BY <2>1 DEF UnescapeStep
  <2>3. p + 1 + 1 = p + Len(u) + 1
    BY <1>1
  <2>4. QED
    BY <2>1, <2>2, <2>3
<1>2. CASE Len(u) # 1
  <2>1. PICK f : f = Escaped(e, p + 2)
    OBVIOUS
  <2>2. /\ Len(u) \in {2, 6} /\ e[p + 1] = Backslash /\ p + 1 < Len(e)
    <3>1. Len(u) \in {2, 6} /\ u[1] = Backslash
      BY <1>2 DEF Unit
    <3>2. 1 \in 1..Len(u)
      BY <3>1
    <3>3. e[p + 1] = u[1]
      BY <3>2
    <3>4. p + 1 < Len(e)
      <4>1. PICK k, m : k = Len(u) /\ m = Len(e)
        OBVIOUS
      <4>2. k \in {2, 6} /\ m \in Nat /\ p + k <= m /\ p \in Nat
        BY <3>1, <4>1
      <4>3. p + 1 < m
        BY ONLY <4>2
      <4>4. QED
        BY <4>1, <4>3
    <3>5. QED
      BY <3>1, <3>3, <3>4
  <2>3. UnescapeStep([out |-> x, next |-> p + 1], e) = [out |-> x \o f.bytes, next |-> p + 1 + 1 + f.takes]
    <3>1. PICK r : r = [out |-> x, next |-> p + 1]
      OBVIOUS
    <3>2. r.out = x /\ r.next = p + 1
      BY <3>1
    <3>3. f = Escaped(e, r.next + 1)
      BY <2>1, <3>2
    <3>4. r.next < Len(e) /\ e[r.next] = Backslash
      BY <2>2, <3>2
    <3>5. UnescapeStep(r, e) = [out |-> r.out \o f.bytes, next |-> r.next + 1 + f.takes]
      BY <3>3, <3>4 DEF UnescapeStep
    <3>6. QED
      BY <3>1, <3>2, <3>5
  <2>4. f.bytes = <<c>> /\ f.takes = Len(u) - 1
    <3>1. CASE Len(u) = 2 /\ u[2] = Letter[c] /\ c \in DOMAIN Letter
      <4>1. e[p + 2] = Letter[c]
        BY <3>1
      <4>2. e[p + 2] \notin {120, 117, 47}
        BY <3>1, <4>1, Letters
      <4>3. PICK M : M = {d \in DOMAIN Letter : Letter[d] = e[p + 2]}
        OBVIOUS
      <4>4. M = {c}
        BY <3>1, <4>1, <4>3, Letters, SMTT(30)
      <4>5. PICK k : k = CHOOSE d \in M : TRUE
        OBVIOUS
      <4>6. k = c
        BY <4>4, <4>5
      <4>7. f = [bytes |-> <<k>>, takes |-> 1]
        BY <2>1, <4>2, <4>3, <4>4, <4>5 DEF Escaped
      <4>8. f.bytes = <<c>> /\ f.takes = 1
        BY <4>6, <4>7
      <4>9. QED
        BY <3>1, <4>8
    <3>2. CASE /\ Len(u) = 6 /\ u[2] = 117
               /\ u[5] = ToHexChar(c \div 16) /\ u[6] = ToHexChar(c % 16)
      <4>1. e[p + 2] = 117 /\ e[p + 5] = ToHexChar(c \div 16) /\ e[p + 6] = ToHexChar(c % 16)
        BY <3>2, SMTT(30)
      <4>2. (p + 2) + 4 <= Len(e) /\ (p + 2) + 3 = p + 5 /\ (p + 2) + 4 = p + 6
        BY <3>2
      <4>3. PICK h, l : h = HexToNum(e[p + 5]) /\ l = HexToNum(e[p + 6])
        OBVIOUS
      <4>4. f = [bytes |-> <<(16 * h + l) % 256>>, takes |-> 5]
        <5>1. {d \in DOMAIN Letter : Letter[d] = e[p + 2]} = {}
          <6>1. \A d \in DOMAIN Letter : Letter[d] # 117
            BY Letters
          <6>2. QED
            BY <4>1, <6>1
        <5>2. h = HexToNum(e[(p + 2) + 3]) /\ l = HexToNum(e[(p + 2) + 4])
          BY <4>2, <4>3
        <5>3. e[p + 2] = 117 /\ e[p + 2] # 120 /\ e[p + 2] # 47
          BY <4>1
        <5>4. QED
          BY <2>1, <4>2, <5>1, <5>2, <5>3 DEF Escaped
      <4>5. h = c \div 16 /\ l = c % 16
        <5>1. PICK a, d : a = c \div 16 /\ d = c % 16
          OBVIOUS
        <5>2. a \in 0..15 /\ d \in 0..15
          BY <5>1, HexByte
        <5>3. HexToNum(ToHexChar(a)) = a /\ HexToNum(ToHexChar(d)) = d
          BY <5>2, HexDigits
        <5>4. QED
          BY <4>1, <4>3, <5>1, <5>3
      <4>6. (16 * h + l) % 256 = c
        BY <4>5, HexByte
      <4>7. QED
        BY <3>2, <4>4, <4>6
    <3>3. QED
      BY <1>2, <3>1, <3>2 DEF Unit
  <2>5. x \o <<c>> = Append(x, c)
    OBVIOUS
  <2>6. p + 1 + 1 + (Len(u) - 1) = p + Len(u) + 1
    BY <2>2
  <2>7. QED
    BY <2>3, <2>4, <2>5, <2>6
<1>3. QED
  BY <1>1, <1>2 DEF Unit

\* After n rounds the loop has given the first n bytes.
Unescaped(b, e, n) ==
    /\ n <= Len(Escaping(b)[n])
    /\ Unescaping(e)[n] = [out |-> First(b, n), next |-> Len(Escaping(b)[n]) + 1]

\* The first bytes are of the same set.
LEMMA FirstIn == ASSUME NEW S, NEW b \in Seq(S), NEW n \in 0..Len(b) PROVE First(b, n) \in Seq(S)
BY DEF First

\* One more byte is read back from its unit.
LEMMA UnescapesNext ==
    ASSUME NEW b \in Seq(0..255), NEW n \in 1..Len(b), NEW e, e = Escaping(b)[Len(b)],
           Unescaped(b, e, n - 1)
    PROVE  Unescaped(b, e, n)
<1>1. PICK p, q, u : p = Len(Escaping(b)[n - 1]) /\ q = Len(Escaping(b)[n]) /\ u = EscapeChar(b[n])
  OBVIOUS
<1>2. /\ p \in Nat /\ q = p + Len(u) /\ UnitStands(e, p, u)
      /\ Unit(u, b[n]) /\ u \in Seq(0..255)
  <2>1. /\ Len(Escaping(b)[n - 1]) \in Nat
        /\ Len(Escaping(b)[n]) = Len(Escaping(b)[n - 1]) + Len(EscapeChar(b[n]))
        /\ UnitStands(Escaping(b)[Len(b)], Len(Escaping(b)[n - 1]), EscapeChar(b[n]))
        /\ Unit(EscapeChar(b[n]), b[n]) /\ EscapeChar(b[n]) \in Seq(0..255)
    BY UnitPlaced
  <2>2. QED
    BY <1>1, <2>1
<1>3. PICK c, x : c = b[n] /\ x = First(b, n - 1)
  OBVIOUS
<1>4. c \in 0..255
  BY <1>3, ElementOf
<1>5. x \in Seq(0..255) /\ First(b, n) = Append(x, c)
  <2>1. First(b, n) = Append(First(b, n - 1), b[n])
    BY FirstGrows
  <2>2. First(b, n - 1) \in Seq(0..255)
    <3>1. n - 1 \in 0..Len(b)
      OBVIOUS
    <3>2. QED
      BY <3>1, FirstIn
  <2>3. QED
    BY <1>3, <2>1, <2>2
<1>6. e \in Seq(0..255) /\ Len(e) \in Nat /\ DOMAIN e = 1..Len(e)
  <2>1. Len(b) \in 0..Len(b)
    OBVIOUS
  <2>2. e \in Seq(0..255)
    BY <2>1, EscapingTyped
  <2>3. QED
    BY <2>2
<1>7. Len(u) \in {1, 2, 6}
  BY <1>2 DEF Unit
<1>8. n - 1 <= p /\ Unescaping(e)[n - 1] = [out |-> x, next |-> p + 1]
  BY <1>1, <1>3 DEF Unescaped
<1>9. n <= q /\ n \in 1..Len(e)
  <2>1. p + Len(u) <= Len(e)
    BY <1>2 DEF UnitStands
  <2>2. PICK k, m : k = Len(u) /\ m = Len(e)
    OBVIOUS
  <2>3. /\ k \in {1, 2, 6} /\ m \in Nat /\ p \in Nat /\ n \in Nat /\ n >= 1
        /\ p + k <= m /\ n - 1 <= p /\ q = p + k
    BY <1>2, <1>6, <1>7, <1>8, <2>1, <2>2
  <2>4. n <= q /\ n <= m
    BY ONLY <2>3
  <2>5. QED
    BY <2>2, <2>3, <2>4
<1>10. Unescaping(e)[n] = UnescapeStep(Unescaping(e)[n - 1], e)
  BY <1>6, <1>9, UnescapingRounds
<1>11. UnescapeStep([out |-> x, next |-> p + 1], e) = [out |-> Append(x, c), next |-> p + Len(u) + 1]
  <2>1. Unit(u, c) /\ UnitStands(e, p, u) /\ p \in Nat
    BY <1>2, <1>3
  <2>2. x \in Seq(0..255)
    BY <1>5
  <2>3. e \in Seq(0..255)
    BY <1>6
  <2>4. QED
    BY <1>4, <2>1, <2>2, <2>3, UnescapesUnit, ZenonT(60)
<1>12. Unescaping(e)[n] = [out |-> First(b, n), next |-> q + 1]
  BY <1>2, <1>5, <1>8, <1>10, <1>11
<1>13. QED
  BY <1>1, <1>9, <1>12 DEF Unescaped

\* By induction, of each number of bytes.
LEMMA UnescapingHolds ==
    ASSUME NEW b \in Seq(0..255), NEW n \in 0..Len(b), NEW e, e = Escaping(b)[Len(b)]
    PROVE  Unescaped(b, e, n)
<1> SUFFICES ASSUME ~Unescaped(b, e, n) PROVE FALSE
  OBVIOUS
<1> DEFINE Bad == {k \in 0..Len(b) : ~Unescaped(b, e, k)}
<1>1. PICK k \in Bad : \A m \in Bad : k <= m
  <2>1. Bad \in SUBSET Nat /\ n \in Bad
    OBVIOUS
  <2> HIDE DEF Bad
  <2>2. QED
    BY <2>1, LeastNumber
<1>2. Unescaped(b, e, 0)
  <2>1. Len(b) \in Nat /\ Len(e) \in Nat
    <3>1. Len(b) \in 0..Len(b)
      OBVIOUS
    <3>2. e \in Seq(0..255)
      BY <3>1, EscapingTyped
    <3>3. QED
      BY <3>2
  <2>2. Escaping(b)[0] = <<>> /\ Unescaping(e)[0] = [out |-> <<>>, next |-> 1]
    BY <2>1, EscapingRounds, UnescapingRounds
  <2>3. First(b, 0) = <<>>
    BY FirstAll
  <2>4. Len(<<>>) = 0
    OBVIOUS
  <2>5. QED
    BY <2>2, <2>3, <2>4 DEF Unescaped
<1>3. k \in 1..Len(b) /\ k - 1 \notin Bad /\ k - 1 \in 0..Len(b)
  BY <1>1, <1>2
<1>4. Unescaped(b, e, k - 1)
  BY <1>3
<1>5. Unescaped(b, e, k)
  BY <1>3, <1>4, UnescapesNext
<1>6. QED
  BY <1>1, <1>5

\* The loop gives back what was written.
LEMMA UnescapesWritten ==
    ASSUME NEW b \in Seq(0..255), NEW e, e = Escaping(b)[Len(b)]
    PROVE  e \in Seq(0..255) /\ Unescaping(e)[Len(e)].out = b
<1>1. Len(b) \in 0..Len(b) /\ Len(b) \in Nat
  OBVIOUS
<1>2. e \in Seq(0..255)
  BY <1>1, EscapingTyped
<1>3. Len(e) \in Nat /\ DOMAIN e = 1..Len(e)
  BY <1>2
<1>4. PICK last : last = [out |-> b, next |-> Len(e) + 1]
  OBVIOUS
<1>5. Len(b) <= Len(e) /\ Unescaping(e)[Len(b)] = last
  <2>1. Unescaped(b, e, Len(b))
    BY <1>1, UnescapingHolds
  <2>2. First(b, Len(b)) = b
    BY FirstAll
  <2>3. QED
    BY <1>4, <2>1, <2>2 DEF Unescaped
<1>6. UnescapeStep(last, e) = last
  <2>1. last.next = Len(e) + 1
    BY <1>4
  <2>2. ~(last.next < Len(e)) /\ last.next \notin DOMAIN e
    BY <1>3, <2>1
  <2>3. QED
    BY <2>2 DEF UnescapeStep
<1>7. Unescaping(e)[Len(e)] = last
  <2> SUFFICES ASSUME Unescaping(e)[Len(e)] # last PROVE FALSE
    OBVIOUS
  <2> DEFINE Bad == {k \in Len(b)..Len(e) : Unescaping(e)[k] # last}
  <2>1. PICK k \in Bad : \A m \in Bad : k <= m
    <3>1. Bad \in SUBSET Nat /\ Len(e) \in Bad
      BY <1>1, <1>3, <1>5
    <3> HIDE DEF Bad
    <3>2. QED
      BY <3>1, LeastNumber
  <2>2. k # Len(b) /\ k \in Len(b)..Len(e)
    BY <1>5, <2>1
  <2>3. k \in 1..Len(e) /\ k - 1 \in Len(b)..Len(e) /\ k - 1 \notin Bad
    BY <1>1, <1>3, <2>1, <2>2
  <2>4. Unescaping(e)[k - 1] = last
    BY <2>3
  <2>5. Unescaping(e)[k] = UnescapeStep(Unescaping(e)[k - 1], e)
    BY <1>3, <2>3, UnescapingRounds
  <2>6. QED
    BY <1>6, <2>1, <2>4, <2>5
<1>8. QED
  BY <1>2, <1>4, <1>7

\* The text that is read.
TextWith(e) == (<<Quote>> \o e \o <<Quote>>) \o <<44, Quote>>

\* Where its characters are.
Framed(chars, e) ==
    /\ chars \in Seq(0..255) /\ Len(chars) = Len(e) + 4 /\ Len(e) \in Nat
    /\ chars[1] = Quote /\ chars[Len(e) + 2] = Quote
    /\ chars[Len(e) + 3] = 44 /\ chars[Len(e) + 4] = Quote
    /\ \A i \in 1..Len(e) : chars[i + 1] = e[i]

\* The text between its quotes, place by place.
LEMMA TextOf ==
    ASSUME NEW e \in Seq(0..255), NEW chars, chars = TextWith(e)
    PROVE  Framed(chars, e)
<1>1. Quote \in 0..255
  BY DEF Quote
<1>2. PICK h : h = <<Quote>> \o e \o <<Quote>>
  OBVIOUS
<1>3. /\ h \in Seq(0..255) /\ Len(h) = Len(e) + 2 /\ h[1] = Quote /\ h[Len(e) + 2] = Quote
      /\ Len(e) \in Nat /\ \A i \in 1..Len(e) : h[i + 1] = e[i]
  BY <1>1, <1>2
<1>4. chars = h \o <<44, Quote>>
  BY <1>2 DEF TextWith
<1>5. chars \in Seq(0..255) /\ Len(chars) = Len(h) + 2
  BY <1>1, <1>3, <1>4
<1>6. \A i \in 1..Len(h) : chars[i] = h[i]
  BY <1>3, <1>4
<1>7. chars[Len(h) + 1] = 44 /\ chars[Len(h) + 2] = Quote
  BY <1>3, <1>4
<1>8. chars[1] = Quote /\ chars[Len(e) + 2] = Quote
  BY <1>3, <1>6
<1>9. ASSUME NEW i \in 1..Len(e) PROVE chars[i + 1] = e[i]
  <2>1. i + 1 \in 1..Len(h)
    BY <1>3
  <2>2. QED
    BY <1>3, <1>6, <2>1
<1>10. chars[Len(e) + 3] = 44 /\ chars[Len(e) + 4] = Quote
  <2>1. (Len(e) + 2) + 1 = Len(e) + 3 /\ (Len(e) + 2) + 2 = Len(e) + 4
    BY <1>3
  <2>2. QED
    BY <1>3, <1>7, <2>1
<1>11. QED
  BY <1>3, <1>5, <1>8, <1>9, <1>10 DEF Framed

\* Whether a character is taken depends on the one before.
LEMMA TakenNext ==
    ASSUME NEW chars, Len(chars) \in Nat, NEW q \in 2..(Len(chars) - 1)
    PROVE  Taken(chars)[q + 1] <=> chars[q] = Backslash /\ ~Taken(chars)[q]
<1>1. q + 1 \in 0..Len(chars) /\ (q + 1) - 1 = q /\ q + 1 >= 3
  OBVIOUS
<1>2. Taken(chars)[q + 1] = Takes(Taken(chars)[(q + 1) - 1], chars, q + 1)
  BY <1>1, TakenRounds
<1>3. Taken(chars)[q + 1] = Takes(Taken(chars)[q], chars, q + 1)
  BY <1>1, <1>2
<1>4. QED
  BY <1>1, <1>3 DEF Takes

\* The scan over the text of a byte: no quote in it ends the string.
LEMMA TakenOver ==
    ASSUME NEW chars, Len(chars) \in Nat, NEW q \in 2..Len(chars), ~Taken(chars)[q],
           NEW c \in 0..255, NEW u, Unit(u, c), UnitStands(chars, q - 1, u), q + Len(u) <= Len(chars)
    PROVE  /\ ~Taken(chars)[q + Len(u)]
           /\ \A i \in q..(q + Len(u) - 1) : chars[i] = Quote => Taken(chars)[i]
<1>1. \A j \in 1..Len(u) : chars[(q - 1) + j] = u[j]
  BY DEF UnitStands
<1>2. CASE Len(u) = 1 /\ u[1] = c /\ c \notin {Quote, Backslash}
  <2>1. chars[q] = c
    <3>1. (q - 1) + 1 = q /\ 1 \in 1..Len(u)
      BY <1>2
    <3>2. QED
      BY <1>1, <1>2, <3>1
  <2>2. q \in 2..(Len(chars) - 1)
    BY <1>2
  <2>3. ~Taken(chars)[q + 1]
    BY <1>2, <2>1, <2>2, TakenNext
  <2>4. \A i \in q..(q + Len(u) - 1) : i = q
    BY <1>2
  <2>5. QED
    BY <1>2, <2>1, <2>3, <2>4
<1>3. CASE Len(u) = 2 /\ u[1] = Backslash
  <2>1. chars[q] = Backslash
    <3>1. (q - 1) + 1 = q /\ 1 \in 1..Len(u)
      BY <1>3
    <3>2. QED
      BY <1>1, <1>3, <3>1
  <2>2. q \in 2..(Len(chars) - 1) /\ q + 1 \in 2..(Len(chars) - 1) /\ (q + 1) + 1 = q + 2
    BY <1>3
  <2>3. Taken(chars)[q + 1]
    BY <2>1, <2>2, TakenNext
  <2>4. ~Taken(chars)[q + 2]
    BY <2>2, <2>3, TakenNext
  <2>5. \A i \in q..(q + Len(u) - 1) : i = q \/ i = q + 1
    BY <1>3
  <2>6. Backslash # Quote
    BY DEF Backslash, Quote
  <2>7. QED
    BY <1>3, <2>1, <2>3, <2>4, <2>5, <2>6
<1>4. CASE /\ Len(u) = 6 /\ u[1] = Backslash /\ u[2] = 117 /\ u[3] = 48 /\ u[4] = 48
           /\ u[5] = ToHexChar(c \div 16) /\ u[6] = ToHexChar(c % 16)
  <2>1. /\ (q - 1) + 1 = q /\ (q - 1) + 2 = q + 1 /\ (q - 1) + 3 = q + 2
        /\ (q - 1) + 4 = q + 3 /\ (q - 1) + 5 = q + 4 /\ (q - 1) + 6 = q + 5
        /\ {1, 2, 3, 4, 5, 6} \subseteq 1..Len(u)
    BY <1>4
  <2>2. /\ chars[q] = u[1] /\ chars[q + 1] = u[2] /\ chars[q + 2] = u[3]
        /\ chars[q + 3] = u[4] /\ chars[q + 4] = u[5] /\ chars[q + 5] = u[6]
    BY <1>1, <2>1
  <2>3. u[5] \in 48..70 /\ u[6] \in 48..70
    <3>1. PICK a, d : a = c \div 16 /\ d = c % 16
      OBVIOUS
    <3>2. a \in 0..15 /\ d \in 0..15
      BY <3>1, HexByte
    <3>3. ToHexChar(a) \in 48..70 /\ ToHexChar(d) \in 48..70
      BY <3>2, HexDigits
    <3>4. QED
      BY <1>4, <3>1, <3>3
  <2>4. /\ chars[q] = Backslash /\ chars[q + 1] = 117 /\ chars[q + 2] = 48 /\ chars[q + 3] = 48
        /\ chars[q + 4] \in 48..70 /\ chars[q + 5] \in 48..70
    BY <1>4, <2>2, <2>3
  <2> DEFINE Other(x) == x # Quote /\ x # Backslash
  <2>10. Other(117) /\ Other(48) /\ \A x \in 48..70 : Other(x)
    BY DEF Quote, Backslash
  <2> HIDE DEF Other
  <2>11. /\ Other(chars[q + 1]) /\ Other(chars[q + 2]) /\ Other(chars[q + 3])
         /\ Other(chars[q + 4]) /\ Other(chars[q + 5])
    BY <2>4, <2>10
  <2>5. \A i \in {q, q + 1, q + 2, q + 3, q + 4, q + 5} : i \in 2..(Len(chars) - 1)
    BY <1>4
  <2>6. ~Taken(chars)[q + 6]
    <3>1. q + 5 \in 2..(Len(chars) - 1) /\ (q + 5) + 1 = q + 6
      BY <2>5
    <3>2. chars[q + 5] # Backslash
      BY <2>11 DEF Other
    <3>3. QED
      BY <3>1, <3>2, TakenNext
  <2>7. \A i \in q..(q + Len(u) - 1) : i \in {q, q + 1, q + 2, q + 3, q + 4, q + 5}
    BY <1>4
  <2>8. \A i \in {q, q + 1, q + 2, q + 3, q + 4, q + 5} : chars[i] # Quote
    <3>1. Backslash # Quote
      BY DEF Quote, Backslash
    <3>2. QED
      BY <2>4, <2>11, <3>1 DEF Other
  <2>9. QED
    BY <1>4, <2>6, <2>7, <2>8
<1>5. QED
  BY <1>2, <1>3, <1>4 DEF Unit

\* What SubSeq gives.
LEMMA SubSeqIs ==
    ASSUME NEW S, NEW s \in Seq(S), NEW m \in 1..(Len(s) + 1), NEW n \in (m - 1)..Len(s)
    PROVE  /\ SubSeq(s, m, n) \in Seq(S) /\ Len(SubSeq(s, m, n)) = n - m + 1
           /\ \A i \in 1..(n - m + 1) : SubSeq(s, m, n)[i] = s[m + i - 1]
OBVIOUS

\* Sequences of one length with the same elements are the same.
LEMMA SameSeq ==
    ASSUME NEW S, NEW s \in Seq(S), NEW t \in Seq(S), Len(s) = Len(t), \A i \in 1..Len(s) : s[i] = t[i]
    PROVE  s = t
OBVIOUS

\* No quote before q ends the string.
Runs(chars, q) == ~Taken(chars)[q] /\ \A i \in 2..(q - 1) : chars[i] = Quote => Taken(chars)[i]

\* In the text of the first n bytes no quote ends the string.
Scanned(b, chars, n) == Runs(chars, Len(Escaping(b)[n]) + 2)

\* The scan for the closing quote passes over one more unit.
LEMMA ScannedNext ==
    ASSUME NEW b \in Seq(0..255), NEW n \in 1..Len(b), NEW e, e = Escaping(b)[Len(b)],
           NEW chars, chars = TextWith(e),
           Scanned(b, chars, n - 1)
    PROVE  Scanned(b, chars, n)
<1>1. PICK p, r, u, c : /\ p = Len(Escaping(b)[n - 1]) /\ r = Len(Escaping(b)[n])
                        /\ u = EscapeChar(b[n]) /\ c = b[n]
  OBVIOUS
<1>2. p \in Nat /\ r = p + Len(u) /\ UnitStands(e, p, u) /\ Unit(u, c)
  <2>1. /\ Len(Escaping(b)[n - 1]) \in Nat
        /\ Len(Escaping(b)[n]) = Len(Escaping(b)[n - 1]) + Len(EscapeChar(b[n]))
        /\ UnitStands(Escaping(b)[Len(b)], Len(Escaping(b)[n - 1]), EscapeChar(b[n]))
        /\ Unit(EscapeChar(b[n]), b[n])
    BY UnitPlaced
  <2>2. QED
    BY <1>1, <2>1
<1>3. c \in 0..255
  BY <1>1, ElementOf
<1>4. e \in Seq(0..255)
  <2>1. Len(b) \in 0..Len(b)
    OBVIOUS
  <2>2. QED
    BY <2>1, EscapingTyped
<1>5. Len(chars) = Len(e) + 4 /\ Len(e) \in Nat /\ \A i \in 1..Len(e) : chars[i + 1] = e[i]
  BY <1>4, TextOf DEF Framed
<1>6. Len(u) \in {1, 2, 6}
  BY <1>2 DEF Unit
<1>7. p + Len(u) <= Len(e) /\ \A j \in 1..Len(u) : e[p + j] = u[j]
  BY <1>2 DEF UnitStands
<1>8. UnitStands(chars, (p + 2) - 1, u)
  <2>1. PICK k, m : k = Len(u) /\ m = Len(e)
    OBVIOUS
  <2>2. k \in {1, 2, 6} /\ m \in Nat /\ p + k <= m
    BY <1>5, <1>6, <1>7, <2>1
  <2>3. ASSUME NEW j \in 1..k PROVE chars[((p + 2) - 1) + j] = u[j]
    <3>1. p + j \in 1..m /\ ((p + 2) - 1) + j = (p + j) + 1
      BY <1>2, <2>2
    <3>2. chars[(p + j) + 1] = e[p + j]
      BY <1>5, <2>1, <3>1
    <3>3. e[p + j] = u[j]
      BY <1>7, <2>1
    <3>4. QED
      BY <3>1, <3>2, <3>3
  <2>4. ((p + 2) - 1) + k <= m + 4
    BY <1>2, <2>2
  <2>5. QED
    BY <1>5, <2>1, <2>3, <2>4 DEF UnitStands
<1>9. PICK q : q = p + 2
  OBVIOUS
<1>10. q \in 2..Len(chars) /\ q + Len(u) <= Len(chars) /\ r + 2 = q + Len(u) /\ Len(chars) \in Nat /\ r \in Nat
  BY <1>2, <1>5, <1>6, <1>7, <1>9
<1>11. ~Taken(chars)[q] /\ \A i \in 2..(q - 1) : chars[i] = Quote => Taken(chars)[i]
  BY <1>1, <1>9 DEF Scanned, Runs
<1>12. UnitStands(chars, q - 1, u)
  BY <1>8, <1>9
<1>13. /\ ~Taken(chars)[q + Len(u)]
       /\ \A i \in q..(q + Len(u) - 1) : chars[i] = Quote => Taken(chars)[i]
  BY <1>2, <1>3, <1>10, <1>11, <1>12, TakenOver, ZenonT(60)
<1>14. \A i \in 2..(r + 2 - 1) : i \in 2..(q - 1) \/ i \in q..(q + Len(u) - 1)
  BY <1>2, <1>6, <1>9
<1>15. Runs(chars, r + 2)
  <2>1. PICK k : k = r + 2
    OBVIOUS
  <2>2. ~Taken(chars)[k] /\ \A i \in 2..(k - 1) : chars[i] = Quote => Taken(chars)[i]
    BY <1>10, <1>11, <1>13, <1>14, <2>1
  <2>3. Runs(chars, k)
    BY <2>2 DEF Runs
  <2>4. QED
    BY <2>1, <2>3
<1>16. QED
  BY <1>1, <1>15 DEF Scanned

\* By induction, it passes over all of them.
LEMMA ScannedAll ==
    ASSUME NEW b \in Seq(0..255), NEW n \in 0..Len(b), NEW e, e = Escaping(b)[Len(b)],
           NEW chars, chars = TextWith(e)
    PROVE  Scanned(b, chars, n)
<1> SUFFICES ASSUME ~Scanned(b, chars, n) PROVE FALSE
  OBVIOUS
<1> DEFINE Bad == {k \in 0..Len(b) : ~Scanned(b, chars, k)}
<1>1. PICK k \in Bad : \A m \in Bad : k <= m
  <2>1. Bad \in SUBSET Nat /\ n \in Bad
    <3>1. 0..Len(b) \subseteq Nat
      OBVIOUS
    <3>2. QED
      BY <3>1
  <2> HIDE DEF Bad
  <2>2. QED
    BY <2>1, LeastNumber
<1>2. Scanned(b, chars, 0)
  <2>1. Len(Escaping(b)[0]) = 0
    <3>1. Len(b) \in Nat
      OBVIOUS
    <3>2. Escaping(b)[0] = <<>>
      BY <3>1, EscapingRounds
    <3>3. QED
      BY <3>2
  <2>2. Len(chars) \in Nat /\ 2 \in 0..Len(chars)
    <3>1. Len(b) \in 0..Len(b)
      OBVIOUS
    <3>2. e \in Seq(0..255)
      BY <3>1, EscapingTyped
    <3>3. Len(chars) = Len(e) + 4 /\ Len(e) \in Nat
      BY <3>2, TextOf DEF Framed
    <3>4. QED
      BY <3>3
  <2>3. Taken(chars)[2] = Takes(Taken(chars)[2 - 1], chars, 2)
    BY <2>2, TakenRounds
  <2>4. \A x : Takes(x, chars, 2) = FALSE
    BY DEF Takes
  <2>5. ~Taken(chars)[2]
    BY <2>3, <2>4
  <2>6. 2..(0 + 2 - 1) = {} /\ 0 + 2 = 2
    OBVIOUS
  <2>7. Runs(chars, 0 + 2)
    BY <2>5, <2>6 DEF Runs
  <2>8. QED
    BY <2>1, <2>7 DEF Scanned
<1>3. k \in 1..Len(b) /\ k - 1 \notin Bad /\ k - 1 \in 0..Len(b)
  BY <1>1, <1>2
<1>4. Scanned(b, chars, k - 1)
  BY <1>3
<1>5. Scanned(b, chars, k)
  BY <1>3, <1>4, ScannedNext
<1>6. QED
  BY <1>1, <1>5

\* A string is read back as it was written.
LEMMA StringReadBack ==
    ASSUME NEW b \in Seq(0..255)
    PROVE  ReadStringAt(WriteString(b) \o <<44, Quote>>) = [bytes |-> b, rest |-> <<44, Quote>>]
<1>1. PICK e, chars, q : /\ e = Escaping(b)[Len(b)] /\ q = Len(e) + 2 /\ chars = TextWith(e)
  OBVIOUS
<1>2. e \in Seq(0..255) /\ Unescaping(e)[Len(e)].out = b
  BY <1>1, UnescapesWritten
<1>3. /\ chars \in Seq(0..255) /\ Len(chars) = Len(e) + 4 /\ Len(e) \in Nat
      /\ chars[1] = Quote /\ chars[Len(e) + 2] = Quote
      /\ chars[Len(e) + 3] = 44 /\ chars[Len(e) + 4] = Quote
      /\ \A i \in 1..Len(e) : chars[i + 1] = e[i]
  <2>1. chars = TextWith(e)
    BY <1>1
  <2>2. e \in Seq(0..255)
    BY <1>2
  <2>3. Framed(chars, e)
    BY <2>1, <2>2, TextOf
  <2>4. QED
    BY <2>3 DEF Framed
<1>4. ~Taken(chars)[q] /\ \A i \in 2..(q - 1) : chars[i] = Quote => Taken(chars)[i]
  <2>1. Len(b) \in 0..Len(b)
    OBVIOUS
  <2>2. Scanned(b, chars, Len(b))
    BY <1>1, <2>1, ScannedAll
  <2>3. QED
    BY <1>1, <2>2 DEF Scanned, Runs
<1>5. EndOf(chars, q) /\ q \in 2..Len(chars)
  <2>1. q \in 2..Len(chars) /\ chars[1] = Quote /\ chars[q] = Quote
    BY <1>1, <1>3
  <2>2. QED
    BY <1>4, <2>1 DEF EndOf
<1>6. ASSUME NEW m \in 2..Len(chars), EndOf(chars, m) PROVE m = q
  <2>1. chars[m] = Quote /\ ~Taken(chars)[m] /\ \A i \in 2..(m - 1) : chars[i] = Quote => Taken(chars)[i]
    BY <1>6 DEF EndOf
  <2>2. ~(m < q)
    <3>1. m < q => m \in 2..(q - 1)
      BY <1>1, <1>3
    <3>2. QED
      BY <1>4, <2>1, <3>1
  <2>3. ~(q < m)
    <3>1. q < m => q \in 2..(m - 1)
      BY <1>1, <1>3
    <3>2. QED
      BY <1>1, <1>3, <1>4, <2>1, <3>1
  <2>4. QED
    BY <1>1, <1>3, <2>2, <2>3
<1>7. (CHOOSE m \in 2..Len(chars) : EndOf(chars, m)) = q
  BY <1>5, <1>6
<1>8. SubSeq(chars, 2, q - 1) = e
  <2>1. PICK s, k : s = SubSeq(chars, 2, q - 1) /\ k = q - 1
    OBVIOUS
  <2>2. 2 \in 1..(Len(chars) + 1) /\ k \in (2 - 1)..Len(chars) /\ k - 2 + 1 = Len(e)
    BY <1>1, <1>3, <2>1
  <2>3. /\ s \in Seq(0..255) /\ Len(s) = k - 2 + 1
        /\ \A i \in 1..(k - 2 + 1) : s[i] = chars[2 + i - 1]
    <3>1. chars \in Seq(0..255)
      BY <1>3
    <3>2. /\ SubSeq(chars, 2, k) \in Seq(0..255) /\ Len(SubSeq(chars, 2, k)) = k - 2 + 1
          /\ \A i \in 1..(k - 2 + 1) : SubSeq(chars, 2, k)[i] = chars[2 + i - 1]
      BY <2>2, <3>1, SubSeqIs
    <3>3. QED
      BY <2>1, <3>2
  <2>4. Len(s) = Len(e)
    BY <2>2, <2>3
  <2>5. ASSUME NEW i \in 1..Len(s) PROVE s[i] = e[i]
    <3>1. i \in 1..Len(e) /\ i \in 1..(k - 2 + 1) /\ 2 + i - 1 = i + 1
      BY <1>3, <2>2, <2>4
    <3>2. QED
      <4>1. s[i] = chars[i + 1]
        BY <2>3, <3>1
      <4>2. chars[i + 1] = e[i]
        BY <1>3, <3>1
      <4>3. QED
        BY <4>1, <4>2
  <2>6. s = e
    BY <1>2, <2>3, <2>4, <2>5, SameSeq
  <2>7. QED
    BY <2>1, <2>6
<1>9. SubSeq(chars, q + 1, Len(chars)) = <<44, Quote>>
  <2>1. PICK s, l, k : s = SubSeq(chars, q + 1, Len(chars)) /\ l = q + 1 /\ k = Len(chars)
    OBVIOUS
  <2>2. /\ l \in 1..(Len(chars) + 1) /\ k \in (l - 1)..Len(chars) /\ k - l + 1 = 2
        /\ l + 1 - 1 = Len(e) + 3 /\ l + 2 - 1 = Len(e) + 4
    BY <1>1, <1>3, <2>1
  <2>3. /\ s \in Seq(0..255) /\ Len(s) = k - l + 1
        /\ \A i \in 1..(k - l + 1) : s[i] = chars[l + i - 1]
    <3>1. chars \in Seq(0..255)
      BY <1>3
    <3>2. /\ SubSeq(chars, l, k) \in Seq(0..255) /\ Len(SubSeq(chars, l, k)) = k - l + 1
          /\ \A i \in 1..(k - l + 1) : SubSeq(chars, l, k)[i] = chars[l + i - 1]
      BY <2>2, <3>1, SubSeqIs
    <3>3. QED
      BY <2>1, <3>2
  <2>4. Len(s) = 2 /\ s[1] = chars[l + 1 - 1] /\ s[2] = chars[l + 2 - 1]
    BY <2>2, <2>3
  <2>5. s[1] = 44 /\ s[2] = Quote
    BY <1>3, <2>2, <2>4
  <2>6. s = <<44, Quote>>
    <3>1. s \in Seq(0..255)
      BY <2>3
    <3>2. QED
      BY ONLY <2>4, <2>5, <3>1
  <2>7. QED
    BY <2>1, <2>6
<1>10. ReadStringAt(chars) =
         LET n == CHOOSE n \in 2..Len(chars) : EndOf(chars, n)
             s == SubSeq(chars, 2, n - 1)
         IN [bytes |-> Unescaping(s)[Len(s)].out, rest |-> SubSeq(chars, n + 1, Len(chars))]
  BY <1>5 DEF ReadStringAt
<1>11. ReadStringAt(chars) = [bytes |-> b, rest |-> <<44, Quote>>]
  BY <1>2, <1>7, <1>8, <1>9, <1>10
<1>12. WriteString(b) \o <<44, Quote>> = chars
  BY <1>1 DEF WriteString, TextWith
<1>13. QED
  BY <1>11, <1>12

-----------------------------------------------------------------------------
(* Every job over a text *)

\* What is made of the input, by the function that is next.
TextInv ==
    /\ job \in TextJobs /\ in \in TextInputs(job)
    /\ job = "login" =>
         \/ pc = "encode"
         \/ pc = "decode" /\ out = EncodeBase64(in)
         \/ pc = "done" /\ out = DecodeBase64(EncodeBase64(in))
    /\ job = "base64" => pc = "decode" \/ (pc = "done" /\ out = DecodeBase64(in))
    /\ job = "string" =>
         \/ pc = "write"
         \/ pc = "readString" /\ out = WriteString(in)
         \/ pc = "done" /\ out = ReadStringAt(WriteString(in) \o <<44, Quote>>)
    /\ job = "config" =>
         \/ pc = "parse"
         \/ pc = "settings" /\ out = ParseFidConfig(in)
         \/ /\ pc = "done" /\ ~ParseFidConfig(in).thrown
            /\ out = [settings |-> Settings(ParseFidConfig(in).args),
                      switches |-> Switches(ParseFidConfig(in).args),
                      noLogin |-> NoLogin(ParseFidConfig(in).args)]

\* The jobs, where they start and what their inputs are.
LEMMA TextJobsAre ==
    /\ TextJobs = {"login", "base64", "string", "config"}
    /\ TextStart["login"] = "encode" /\ TextStart["base64"] = "decode"
    /\ TextStart["string"] = "write" /\ TextStart["config"] = "parse"
    /\ TextInputs("login") = Logins /\ TextInputs("base64") = CodedTexts
    /\ TextInputs("string") = ByteStrings /\ TextInputs("config") = Files
BY DEF TextJobs, TextStart, TextInputs

\* A job starts at its function.
LEMMA TextInvInit == TextInit => TextInv
<1> SUFFICES ASSUME TextInit PROVE TextInv
  OBVIOUS
<1>1. job \in TextJobs /\ in \in TextInputs(job) /\ pc = TextStart[job]
  BY DEF TextInit
<1>2. /\ job = "login" => pc = "encode"
      /\ job = "base64" => pc = "decode"
      /\ job = "string" => pc = "write"
      /\ job = "config" => pc = "parse"
  BY <1>1, TextJobsAre
<1>3. QED
  BY <1>1, <1>2 DEF TextInv

\* Each function makes what the invariant says of it.
LEMMA TextInvNext == TextInv /\ [TextNext]_jobVars => TextInv'
<1> SUFFICES ASSUME TextInv, [TextNext]_jobVars PROVE TextInv'
  OBVIOUS
<1>1. job' = job /\ in' = in
  BY DEF TextNext, jobVars, Encode, Decode, WriteText, ReadText, ParseFile, UseConfig, Step
<1>2. job' \in TextJobs /\ (in \in TextInputs(job))'
  BY <1>1 DEF TextInv, TextInputs
<1>3. CASE Encode
  <2>1. pc = "encode" /\ out' = EncodeBase64(in) /\ pc' = "decode"
    BY <1>3 DEF Encode, Step
  <2>2. job = "login"
    BY <2>1, TextJobsAre DEF TextInv
  <2>3. QED
    BY <1>1, <1>2, <2>1, <2>2 DEF TextInv
<1>4. CASE Decode
  <2>1. pc = "decode" /\ out' = DecodeBase64(IF job = "login" THEN out ELSE in) /\ pc' = "done"
    BY <1>4 DEF Decode, Step
  <2>2. (job = "login" /\ out = EncodeBase64(in)) \/ job = "base64"
    BY <2>1, TextJobsAre DEF TextInv
  <2>3. QED
    BY <1>1, <1>2, <2>1, <2>2 DEF TextInv
<1>5. CASE WriteText
  <2>1. pc = "write" /\ out' = WriteString(in) /\ pc' = "readString"
    BY <1>5 DEF WriteText, Step
  <2>2. job = "string"
    BY <2>1, TextJobsAre DEF TextInv
  <2>3. QED
    BY <1>1, <1>2, <2>1, <2>2 DEF TextInv
<1>6. CASE ReadText
  <2>1. pc = "readString" /\ out' = ReadStringAt(out \o <<44, Quote>>) /\ pc' = "done"
    BY <1>6 DEF ReadText, Step
  <2>2. job = "string" /\ out = WriteString(in)
    BY <2>1, TextJobsAre DEF TextInv
  <2>3. QED
    BY <1>1, <1>2, <2>1, <2>2 DEF TextInv
<1>7. CASE ParseFile
  <2>1. pc = "parse" /\ out' = ParseFidConfig(in) /\ pc' = "settings"
    BY <1>7 DEF ParseFile, Step
  <2>2. job = "config"
    BY <2>1, TextJobsAre DEF TextInv
  <2>3. QED
    BY <1>1, <1>2, <2>1, <2>2 DEF TextInv
<1>8. CASE UseConfig
  <2>1. /\ pc = "settings" /\ ~out.thrown /\ pc' = "done"
        /\ out' = [settings |-> Settings(out.args), switches |-> Switches(out.args),
                   noLogin |-> NoLogin(out.args)]
    BY <1>8 DEF UseConfig, Step
  <2>2. job = "config" /\ out = ParseFidConfig(in)
    BY <2>1, TextJobsAre DEF TextInv
  <2>3. QED
    BY <1>1, <1>2, <2>1, <2>2 DEF TextInv
<1>9. CASE UNCHANGED jobVars
  BY <1>9 DEF TextInv, TextInputs, jobVars
<1>10. QED
  BY <1>3, <1>4, <1>5, <1>6, <1>7, <1>8, <1>9 DEF TextNext

\* The invariant of every job over a text: its output is the composition of the functions so far.
THEOREM TextInvHolds == TextSpec => []TextInv
<1>1. TextInit => TextInv
  BY TextInvInit
<1>2. TextInv /\ [TextNext]_jobVars => TextInv'
  BY TextInvNext
<1>3. QED
  BY <1>1, <1>2, PTL DEF TextSpec

\* The daemon decodes the login that was configured.
THEOREM LoginComesBack == TextSpec => []LoginRoundTrip
<1>1. TextInv => LoginRoundTrip
  <2> SUFFICES ASSUME TextInv, job = "login", pc = "done"
               PROVE  out = [bytes |-> in, invalid |-> FALSE]
    BY DEF LoginRoundTrip, Done
  <2>1. out = DecodeBase64(EncodeBase64(in)) /\ in \in Logins
    BY TextJobsAre DEF TextInv
  <2>2. in \in Seq(0..255)
    BY <2>1, BytesAssumption
  <2>3. DecodeBase64(EncodeBase64(in)) = [bytes |-> in, invalid |-> FALSE]
    BY <2>2, LoginDecodes
  <2>4. QED
    BY <2>1, <2>3
<1>2. QED
  BY <1>1, TextInvHolds, PTL

\* What decodes is an encoding, up to what follows its padding.
THEOREM OnlyEncodingsDecode == TextSpec => []Base64AcceptsOnlyEncodings
<1>1. TextInv => Base64AcceptsOnlyEncodings
  <2> SUFFICES ASSUME TextInv, job = "base64", pc = "done", ~out.invalid
               PROVE  IsPrefix(EncodeBase64(out.bytes), in)
    BY DEF Base64AcceptsOnlyEncodings, Done
  <2>1. out = DecodeBase64(in) /\ in \in CodedTexts
    BY TextJobsAre DEF TextInv
  <2>2. in \in Seq(Int)
    <3>1. in \in Seq(0..255)
      BY <2>1, BytesAssumption
    <3>2. 0..255 \subseteq Int
      OBVIOUS
    <3>3. QED
      BY <3>1, <3>2, SeqInSeq, ZenonT(60)
  <2>3. QED
    BY <2>1, <2>2, DecodedIsEncoded
<1>2. QED
  BY <1>1, TextInvHolds, PTL

\* A string is read back as it was written.
THEOREM StringComesBack == TextSpec => []StringRoundTrip
<1>1. TextInv => StringRoundTrip
  <2> SUFFICES ASSUME TextInv, job = "string", pc = "done"
               PROVE  out = [bytes |-> in, rest |-> <<44, Quote>>]
    BY DEF StringRoundTrip, Done
  <2>1. out = ReadStringAt(WriteString(in) \o <<44, Quote>>) /\ in \in ByteStrings
    BY TextJobsAre DEF TextInv
  <2>2. in \in Seq(0..255)
    BY <2>1, BytesAssumption
  <2>3. ReadStringAt(WriteString(in) \o <<44, Quote>>) = [bytes |-> in, rest |-> <<44, Quote>>]
    BY <2>2, StringReadBack
  <2>4. QED
    BY <2>1, <2>3
<1>2. QED
  BY <1>1, TextInvHolds, PTL

\* A setting is that of the first section of its name.
THEOREM FirstSectionCounts == TextSpec => []SettingsOfFirstSection
<1>1. TextInv => SettingsOfFirstSection
  <2> SUFFICES ASSUME TextInv, job = "config" PROVE SettingsOfFirstSection
    BY DEF SettingsOfFirstSection, Done
  <2>1. PICK p : p = ParseFidConfig(in)
    OBVIOUS
  <2>2. in \in Seq(Sections)
    BY TextJobsAre, FilesAssumption DEF TextInv
  <2>3. /\ p.thrown = ~ \A i \in DOMAIN in : HasKeys(in[i])
        /\ ~p.thrown => Parsed(p.args, in, Len(in))
    BY <2>1, <2>2, ParsedFile
  <2> DEFINE NamedAs(n) == {i \in DOMAIN in : in[i].name = n}
             First1(n) == CHOOSE i \in NamedAs(n) : \A j \in NamedAs(n) : i <= j
             InFile(n, k) == LET v == in[First1(n)].items[k] IN IF v = "" THEN Default ELSE v
             Built(a) == IF a = "-rpcconnect" THEN "127.0.0.1" ELSE ""
             Complete(s) == s.name \in KnownSections => KeysOf(s.name) \subseteq DOMAIN s.items
  <2>4. ASSUME pc = "settings" PROVE out.thrown = ~(\A i \in DOMAIN in : Complete(in[i]))
    <3>1. out = p
      BY <2>1, <2>4 DEF TextInv
    <3>2. QED
      BY <2>3, <3>1 DEF HasKeys
  <2>5. ASSUME pc = "done"
        PROVE  /\ \A n \in KnownSections : \A a \in DOMAIN KeyFor[n] :
                    out.settings[a] = IF NamedAs(n) # {} THEN InFile(n, KeyFor[n][a]) ELSE Built(a)
               /\ out.noLogin = (NamedAs("rpc") = {})
               /\ out.settings["-rpcport"] = "19772" /\ TRUE \notin Range(out.switches)
    <3>1. /\ ~p.thrown
          /\ out = [settings |-> Settings(p.args), switches |-> Switches(p.args), noLogin |-> NoLogin(p.args)]
      BY <2>1, <2>5 DEF TextInv
    <3>2. PICK args : args = p.args
      OBVIOUS
    <3>3. /\ out.settings = Settings(args) /\ out.switches = Switches(args) /\ out.noLogin = NoLogin(args)
      BY <3>1, <3>2
    <3>4. Parsed(args, in, Len(in))
      BY <2>3, <3>1, <3>2
    <3>5. {"-rpcport", "-rpcssl", "-rpcwait"} \cap DOMAIN args = {}
      BY <3>4 DEF Parsed
    <3>6. /\ \A n \in KnownSections : \A a \in DOMAIN KeyFor[n] :
                Settings(args)[a] = IF a \in DOMAIN args THEN args[a] ELSE Built(a)
          /\ Settings(args)["-rpcport"] = "19772"
          /\ TRUE \notin Range(Switches(args))
      BY <3>5, SettingsRead
    <3>7. ASSUME NEW n \in KnownSections, NEW a \in DOMAIN KeyFor[n]
          PROVE  Settings(args)[a] = IF NamedAs(n) # {} THEN InFile(n, KeyFor[n][a]) ELSE Built(a)
      <4>1. PICK N : N = NamedAs(n)
        OBVIOUS
      <4>2. PICK f : f = First1(n)
        OBVIOUS
      <4>3. /\ a \in DOMAIN args <=> N # {}
            /\ \A i \in 1..Len(in) : FirstAt(in, n, i) => args[a] = ValueOf(in[i], KeyFor[n][a])
        <5>1. N = {i \in DOMAIN in : in[i].name = n}
          BY <4>1
        <5>2. QED
          BY <2>2, <3>4, <5>1, ArgumentIs
      <4>4. N # {} => f \in 1..Len(in) /\ FirstAt(in, n, f)
        <5>1. N = {i \in DOMAIN in : in[i].name = n} /\ f = CHOOSE i \in N : \A j \in N : i <= j
          BY <4>1, <4>2
        <5>2. QED
          BY <2>2, <5>1, FirstSection
      <4>5. ValueOf(in[f], KeyFor[n][a]) = InFile(n, KeyFor[n][a])
        BY <4>2 DEF ValueOf
      <4> HIDE DEF NamedAs, InFile, Built, First1
      <4>6. QED
        BY <3>6, <4>1, <4>3, <4>4, <4>5
    <3>8. NoLogin(args) = (NamedAs("rpc") = {})
      BY <2>2, <3>4, NoLoginIs
    <3> HIDE DEF NamedAs, InFile, Built, First1, Complete
    <3>9. QED
      BY <3>3, <3>6, <3>7, <3>8
  <2>6. QED
    BY <2>4, <2>5 DEF SettingsOfFirstSection, Done
<1>2. QED
  BY <1>1, TextInvHolds, PTL

-----------------------------------------------------------------------------
(* The request of a command *)

Request(c) == JSONRPCRequest(Head(c), RPCConvertValues(Head(c), Tail(c)))

\* A parameter as the daemon has to get it.
SentAs(c, w) == Root(Atom(IF Head(c) = "getblockbynumber" THEN NumberOf[w] ELSE w))

\* The parameters are converted as they have to be.
ConvertedAs(c, values) ==
    /\ Head(c) \in Atoms /\ Len(c) - 1 \in Nat /\ DOMAIN values = 1..(Len(c) - 1)
    /\ \A i \in 1..(Len(c) - 1) : values[i] = SentAs(c, c[i + 1]) /\ Json(values[i])

\* A height goes through vRPCConvertParams, a hash does not.
LEMMA CommandConverted ==
    ASSUME NEW c \in Commands
    PROVE  ConvertedAs(c, RPCConvertValues(Head(c), Tail(c)))
<1>1. PICK values : values = RPCConvertValues(Head(c), Tail(c))
  OBVIOUS
<1>2. Methods \subseteq Atoms /\ Names \subseteq Atoms /\ Numbers \subseteq Atoms
  BY NamesAssumption, TokenFacts
<1>3. CASE c = <<"getblockcount">>
  <2>1. Head(c) = "getblockcount" /\ Tail(c) = <<>> /\ Len(c) - 1 = 0
    BY <1>3
  <2>2. DOMAIN values = 1..0
    BY <1>1, <2>1 DEF RPCConvertValues
  <2>3. Head(c) \in Atoms
    BY <1>2, <2>1 DEF Methods
  <2>4. PICK n : n = Len(c) - 1
    OBVIOUS
  <2>5. n = 0 /\ n \in Nat /\ DOMAIN values = 1..n /\ \A i : i \notin 1..n
    BY <2>1, <2>2, <2>4
  <2>6. ConvertedAs(c, values)
    BY <2>3, <2>4, <2>5 DEF ConvertedAs
  <2>7. QED
    BY <1>1, <2>6
<1>4. ASSUME NEW m, NEW w \in Names, c = <<m, w>>, m \in Atoms,
             \/ m = "getblockbynumber" /\ w \in DOMAIN NumberOf
             \/ m = "gettransaction"
      PROVE  ConvertedAs(c, values)
  <2>1. Head(c) = m /\ Tail(c) = <<w>> /\ Len(c) - 1 = 1 /\ c[1 + 1] = w
    BY <1>4
  <2>2. DOMAIN values = 1..1
    BY <1>1, <2>1 DEF RPCConvertValues
  <2>3. values[1] = (IF Converts(m, 0) /\ w \in DOMAIN NumberOf THEN Root(Atom(NumberOf[w])) ELSE Root(Atom(w)))
    BY <1>1, <2>1 DEF RPCConvertValues
  <2>4. Converts("getblockbynumber", 0) /\ ~Converts("gettransaction", 0)
    BY DEF Converts, RPCConvertParams
  <2>5. PICK t : t = IF m = "getblockbynumber" THEN NumberOf[w] ELSE w
    OBVIOUS
  <2>6. values[1] = Root(Atom(t)) /\ t \in Atoms
    <3>1. CASE m = "getblockbynumber"
      <4>1. NumberOf[w] \in Atoms /\ w \in DOMAIN NumberOf
        BY <1>2, <1>4, <3>1, NumberAssumption
      <4>2. QED
        BY <2>3, <2>4, <2>5, <3>1, <4>1
    <3>2. CASE m = "gettransaction"
      BY <1>2, <2>3, <2>4, <2>5, <3>2
    <3>3. QED
      BY <1>4, <3>1, <3>2
  <2>7. Json(values[1])
    BY <2>6, AtomJson
  <2>8. values[1] = SentAs(c, w)
    BY <2>1, <2>5, <2>6 DEF SentAs
  <2>9. QED
    BY <1>4, <2>1, <2>2, <2>7, <2>8 DEF ConvertedAs
<1>5. CASE \E h \in DOMAIN NumberOf : c = <<"getblockbynumber", h>>
  <2>1. PICK h \in DOMAIN NumberOf : c = <<"getblockbynumber", h>>
    BY <1>5
  <2>2. h \in Names /\ "getblockbynumber" \in Atoms
    BY <1>2, NumberAssumption DEF Methods
  <2>3. QED
    BY <1>1, <1>4, <2>1, <2>2
<1>6. CASE \E txid \in Names : c = <<"gettransaction", txid>>
  <2>1. PICK txid \in Names : c = <<"gettransaction", txid>>
    BY <1>6
  <2>2. "gettransaction" \in Atoms
    BY <1>2 DEF Methods
  <2>3. QED
    BY <1>1, <1>4, <2>1, <2>2
<1>7. QED
  BY <1>1, <1>3, <1>5, <1>6 DEF Commands

\* The request of a command holds what the daemon has to find in it.
Understood(c, v) ==
    LET params == FindValue(v, "params")
    IN /\ FindValue(v, "method") = Root(Atom(Head(c)))
       /\ params[<<>>].kids = Len(c) - 1
       /\ \A i \in 1..params[<<>>].kids : Part(params, <<i>>) = SentAs(c, c[i + 1])

\* The object that is sent has the method and the parameters of the command.
LEMMA RequestHolds ==
    ASSUME NEW c \in Commands
    PROVE  Json(Request(c)) /\ Understood(c, Request(c))
<1>1. PICK values, n, a : /\ values = RPCConvertValues(Head(c), Tail(c)) /\ n = Len(c) - 1
                          /\ a = Array(values)
  OBVIOUS
<1>2. ConvertedAs(c, values)
  BY <1>1, CommandConverted
<1>3. Head(c) \in Atoms /\ n \in Nat /\ DOMAIN values = 1..n
      /\ \A i \in 1..n : values[i] = SentAs(c, c[i + 1]) /\ Json(values[i])
  BY <1>1, <1>2 DEF ConvertedAs
<1>4. ArrayOf(a, values, n)
  BY <1>1, <1>3, ArrayHolds
<1>5. PICK me, id : me = Root(Atom(Head(c))) /\ id = Root(Atom(NumberOf["1"]))
  OBVIOUS
<1>6. Json(me) /\ Json(id)
  <2>1. NumberOf["1"] \in Atoms
    BY NumberAssumption, TokenFacts
  <2>2. QED
    BY <1>3, <1>5, <2>1, AtomJson
<1>7. PICK kids : kids = <<Member("method", me), Member("params", a), Member("id", id)>>
  OBVIOUS
<1>8. /\ Len(kids) = 3 /\ DOMAIN kids = 1..3
      /\ kids[1].name = "method" /\ kids[1].value = me
      /\ kids[2].name = "params" /\ kids[2].value = a
      /\ kids[3].name = "id" /\ kids[3].value = id
  BY <1>7 DEF Member
<1>9. CanBuild(BeginObj, kids)
  <2>1. BeginObj \in Openings
    BY TokenFacts
  <2>2. ASSUME NEW i \in 1..3 PROVE Json(kids[i].value) /\ kids[i].name \in Names
    <3>1. i = 1 \/ i = 2 \/ i = 3
      OBVIOUS
    <3>2. Json(a)
      BY <1>4 DEF ArrayOf
    <3>3. "method" \in Names /\ "params" \in Names /\ "id" \in Names
      BY NamesAssumption
    <3>4. QED
      BY <1>6, <1>8, <3>1, <3>2, <3>3
  <2>3. QED
    BY <1>8, <2>1, <2>2 DEF CanBuild
<1>10. PICK b : b = Build(BeginObj, kids)
  OBVIOUS
<1>11. Request(c) = b
  BY <1>1, <1>5, <1>7, <1>10 DEF Request, JSONRPCRequest, Object
<1>12. Json(b)
  BY <1>9, <1>10, BuiltJson
<1>13. FindValue(b, "method") = me
  <2>1. 1 \in 1..Len(kids) /\ \A j \in 1..Len(kids) : kids[j].name = kids[1].name => j = 1
    BY <1>8
  <2>2. FindValue(b, kids[1].name) = kids[1].value
    BY <1>9, <1>10, <2>1, MemberFound
  <2>3. QED
    BY <1>8, <2>2
<1>14. FindValue(b, "params") = a
  <2>1. 2 \in 1..Len(kids) /\ \A j \in 1..Len(kids) : kids[j].name = kids[2].name => j = 2
    BY <1>8
  <2>2. FindValue(b, kids[2].name) = kids[2].value
    BY <1>9, <1>10, <2>1, MemberFound
  <2>3. QED
    BY <1>8, <2>2
<1>15. Understood(c, b)
  BY <1>1, <1>3, <1>4, <1>5, <1>13, <1>14 DEF Understood, ArrayOf
<1>16. QED
  BY <1>11, <1>12, <1>15

-----------------------------------------------------------------------------

\* The request's text is being read as its value, from the beginning.
ReadsRequest ==
    \E v, t, span : /\ v = Request(in) /\ t = out /\ t \in Seq(Tokens) /\ Written(v, t, span)
                    /\ Following(v, t, span) /\ Begins(t)

RequestInv ==
    /\ in \in Commands /\ pc \in {"request", "read"}
    /\ pc = "request" => ReaderInit
    /\ pc = "read" => ReadsRequest

\* The request is written.
LEMMA RequestMade ==
    ASSUME RequestInv, MakeRequest
    PROVE  RequestInv'
<1>1. /\ in \in Commands /\ ReaderInit /\ out' = RequestOf(in) /\ pc' = "read" /\ in' = in
      /\ UNCHANGED readerVars
  BY DEF RequestInv, MakeRequest, Step
<1>2. PICK v, t : v = Request(in) /\ t = RequestOf(in)
  OBVIOUS
<1>3. Json(v) /\ t = Write(v)
  BY <1>1, <1>2, RequestHolds DEF Request, RequestOf
<1>4. t \in Seq(Tokens) /\ \E span : Written(v, t, span)
  BY <1>3, WriteIsWritten
<1>5. PICK span : Written(v, t, span)
  BY <1>4
<1>6. Following(v, t, span)
  BY <1>1, <1>4, <1>5, FollowingInit
<1>7. Following(v, t, span)'
  BY <1>1, <1>4, <1>5, <1>6, FollowingStep
<1>8. Begins(t)'
  <2>1. text = <<>> /\ text' = text /\ Len(t) \in Nat
    BY <1>1, <1>4 DEF ReaderInit, readerVars
  <2>2. QED
    BY <2>1 DEF Begins
<1>9. v = Request(in') /\ t = out'
  BY <1>1, <1>2
<1>10. ReadsRequest'
  BY <1>4, <1>5, <1>7, <1>8, <1>9 DEF ReadsRequest
<1>11. QED
  BY <1>1, <1>10 DEF RequestInv

\* The daemon reads its next token.
LEMMA RequestRead ==
    ASSUME RequestInv, ReadRequest
    PROVE  RequestInv'
<1>1. /\ in \in Commands /\ pc = "read" /\ in' = in /\ pc' = pc /\ out' = out
      /\ Len(text) < Len(out) /\ Read(out[Len(text) + 1])
  BY DEF RequestInv, ReadRequest, jobVars
<1>2. ReadsRequest
  BY <1>1 DEF RequestInv
<1>3. PICK v, t, span : /\ v = Request(in) /\ t = out /\ t \in Seq(Tokens) /\ Written(v, t, span)
                        /\ Following(v, t, span) /\ Begins(t)
  BY <1>2 DEF ReadsRequest
<1>4. PICK tk : tk = t[Len(text) + 1]
  OBVIOUS
<1>5. text \in Seq(Tokens)
  BY <1>3 DEF Following, PointerInv, ReaderTypes
<1>6. tk \in Tokens /\ Read(tk)
  BY <1>1, <1>3, <1>4, <1>5
<1>7. Following(v, t, span)'
  BY <1>3, <1>6, FollowingStep DEF ReaderNext
<1>8. Begins(t)'
  <2>1. text' = Append(text, tk)
    BY <1>6 DEF Read
  <2>2. /\ Len(text) \in Nat /\ Len(text') = Len(text) + 1 /\ text'[Len(text) + 1] = tk
        /\ \A i \in 1..Len(text) : text'[i] = text[i]
    BY <1>5, <1>6, <2>1, AppendFacts
  <2>3. Len(t) \in Nat /\ Len(text) < Len(t) /\ \A i \in 1..Len(text) : text[i] = t[i]
    BY <1>1, <1>3 DEF Begins
  <2>4. QED
    BY <1>4, <2>2, <2>3 DEF Begins
<1>9. v = Request(in') /\ t = out'
  BY <1>1, <1>3
<1>10. ReadsRequest'
  BY <1>3, <1>7, <1>8, <1>9 DEF ReadsRequest
<1>11. QED
  BY <1>1, <1>10 DEF RequestInv

\* The daemon understands the request as the command it was made of: every
\* height arrives as a number, every hash as a string.
THEOREM RequestsUnderstood == RequestSpec => []RequestUnderstood
<1>1. RequestInit => RequestInv
  BY DEF RequestInit, RequestInv
<1>2. RequestInv /\ [RequestNext]_<<jobVars, readerVars>> => RequestInv'
  <2> SUFFICES ASSUME RequestInv, [RequestNext]_<<jobVars, readerVars>> PROVE RequestInv'
    OBVIOUS
  <2>1. CASE MakeRequest
    BY <2>1, RequestMade
  <2>2. CASE ReadRequest
    BY <2>2, RequestRead
  <2>3. CASE UNCHANGED <<jobVars, readerVars>>
    <3>1. in' = in /\ pc' = pc /\ out' = out /\ UNCHANGED readerVars
      BY <2>3 DEF jobVars
    <3>2. pc = "request" => ReaderInit'
      BY <3>1 DEF RequestInv, ReaderInit, readerVars
    <3>3. ASSUME ReadsRequest PROVE ReadsRequest'
      <4>1. PICK v, t, span : /\ v = Request(in) /\ t = out /\ t \in Seq(Tokens) /\ Written(v, t, span)
                              /\ Following(v, t, span) /\ Begins(t)
        BY <3>3 DEF ReadsRequest
      <4>2. Following(v, t, span)'
        BY <3>1, <4>1, FollowingStep
      <4>3. Begins(t)'
        BY <3>1, <4>1 DEF Begins, readerVars
      <4>4. v = Request(in') /\ t = out'
        BY <3>1, <4>1
      <4>5. QED
        BY <4>1, <4>2, <4>3, <4>4 DEF ReadsRequest
    <3>4. QED
      BY <3>1, <3>2, <3>3 DEF RequestInv
  <2>4. QED
    BY <2>1, <2>2, <2>3 DEF RequestNext
<1>3. RequestInv => RequestUnderstood
  <2> SUFFICES ASSUME RequestInv, pc = "read"
               PROVE  /\ at # "thrown" /\ (at = "end" <=> text = out)
                      /\ at = "end" => Understood(in, value)
    BY DEF RequestUnderstood, Understood, SentAs
  <2>1. in \in Commands /\ ReadsRequest
    BY DEF RequestInv
  <2>2. PICK v, t, span : /\ v = Request(in) /\ t = out /\ t \in Seq(Tokens) /\ Written(v, t, span)
                          /\ Following(v, t, span) /\ Begins(t)
    BY <2>1 DEF ReadsRequest
  <2>3. Understands(v, t)
    BY <2>2, FollowingUnderstands
  <2>4. at # "thrown" /\ (at = "end" <=> text = t) /\ (at = "end" => value = v)
    BY <2>2, <2>3 DEF Understands
  <2>5. Understood(in, v)
    BY <2>1, <2>2, RequestHolds
  <2>6. QED
    BY <2>2, <2>4, <2>5
<1>4. QED
  BY <1>1, <1>2, <1>3, PTL DEF RequestSpec
=============================================================================
