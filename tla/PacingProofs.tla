---------------------------- MODULE PacingProofs ----------------------------
(***************************************************************************)
(* Theorems about Pacing: how late the follow task is, on chains of every  *)
(* length, with any gaps and any time that a call may take.                *)
(***************************************************************************)
EXTENDS Pacing, TLAPS

\* GetTime() cuts off less than a second.
LEMMA Seconds == ASSUME NEW tick \in Nat
                 PROVE  /\ GetTime(tick) \in Nat
                        /\ 5 * GetTime(tick) <= tick /\ tick <= 5 * GetTime(tick) + 4
BY DEF GetTime, TicksPerSecond

\* What TypeOK says of each variable.
LEMMA Types == TypeOK => /\ chain \subseteq Nat \ {0}
                         /\ arrival \in Nat /\ now \in Nat /\ t1 \in Nat /\ late \in Nat
                         /\ bktime \in Int
BY GapsAssumption, UnsetAssumption DEF TypeOK

\* The sleep is one second or four ticks for each second of the round, which
\* is no longer then than the spacing.
LEMMA SleepCases ==
    ASSUME TypeOK, NEW last \in Int, NEW t2 \in Nat
    PROVE  \/ SleepAfter(last, t2) = 5
           \/ /\ SleepAfter(last, t2) = 4 * (t2 - t1) /\ last # 0 /\ bktime # 0
              /\ 0 <= t2 - t1 /\ t2 - t1 <= BlockDiff(last)
<1>1. bktime \in Int /\ t1 \in Nat
  BY Types
<1>2. BlockDiff(last) \in Int
  BY <1>1 DEF BlockDiff, DefaultSpacing
<1>3. QED
  BY <1>1, <1>2 DEF SleepAfter, AdjustTime, TicksPerSecond, SleepPerSecond

\* Type correctness of work(), whatever an unassigned block time holds: the
\* clock never goes back and no block is done before it comes.
THEOREM PacingTypeCorrect == Spec => []TypeOK
<1>1. Init => TypeOK
  BY GapsAssumption, NumBlocksAssumption DEF Init, TypeOK, ArrivalsAfter, TicksPerSecond, GetTime
<1>2. TypeOK /\ [Next]_vars => TypeOK'
  <2> SUFFICES ASSUME TypeOK, [Next]_vars PROVE TypeOK'
    OBVIOUS
  <2>1. ASSUME NEW work \in 0..MaxWork, WaitForBlock(work) PROVE TypeOK'
    BY <2>1, MaxWorkAssumption DEF TypeOK, WaitForBlock, AdjustTime, TicksPerSecond
  <2>2. ASSUME NEW work \in 0..MaxWork, HandleBlock(work) PROVE TypeOK'
    <3>1. chain' = chain /\ next' \in 1..(NumBlocks + 1) /\ late' \in Nat /\ now + work \in Nat
      BY <2>2, MaxWorkAssumption, NumBlocksAssumption DEF TypeOK, HandleBlock, HasNext
    <3>2. arrival' \in Nat
      <4>1. PICK g \in chain : arrival' = arrival + 5 * g
        BY <2>2 DEF HandleBlock, ArrivalsAfter, TicksPerSecond
      <4>2. QED
        BY <4>1, Types
    <3>3. PICK last \in {GetTime(arrival)} \cup Unset :
            /\ now' = now + work + SleepAfter(last, GetTime(now + work))
            /\ t1' = IF last # 0 THEN GetTime(now + work) ELSE t1
            /\ bktime' = IF last # 0 THEN last ELSE bktime
      BY <2>2 DEF HandleBlock
    <3>4. last \in Int /\ last \in Nat \cup Unset /\ GetTime(now + work) \in Nat
      <4>1. GetTime(arrival) \in Nat /\ GetTime(now + work) \in Nat
        BY <3>1, Seconds, Types
      <4>2. CASE last \in Unset
        BY <4>1, <4>2, UnsetAssumption
      <4>3. CASE last = GetTime(arrival)
        BY <4>1, <4>3
      <4>4. QED
        BY <4>2, <4>3
    <3>5. now' \in Nat
      <4>1. SleepAfter(last, GetTime(now + work)) \in Nat
        BY <3>4, SleepCases, Types
      <4>2. QED
        BY <3>1, <3>3, <4>1
    <3>6. t1' \in Nat /\ bktime' \in Nat \cup Unset
      BY <3>3, <3>4 DEF TypeOK
    <3>7. QED
      BY <3>1, <3>2, <3>5, <3>6 DEF TypeOK
  <2>3. CASE UNCHANGED vars
    BY <2>3 DEF TypeOK, vars
  <2>4. QED
    BY <2>1, <2>2, <2>3 DEF Next
<1>3. QED
  BY <1>1, <1>2, PTL DEF Spec

-----------------------------------------------------------------------------
(* Lateness *)

\* Times are in ticks.  The last block came at 5 * bktime and its round ended
\* in the second that began at 5 * t1.
Times ==
    /\ arrival = 5 * GetTime(arrival) /\ arrival > 0
    /\ 5 * t1 <= now
    /\ bktime # 0 => \E g \in chain : arrival = 5 * bktime + 5 * g

\* The task is not late: what holds of a start and after any wait.
Calm == now - arrival <= MaxWork + 4

\* It was not late with the last block, and has slept after it.
Prompt ==
    /\ bktime # 0 /\ 5 * t1 - 5 * bktime <= 2 * MaxWork + 4
    /\ \E g \in chain : now - 5 * t1 <= 4 * g + 4

\* It was late, and has slept no more than a short round's sleep.
CatchingUp ==
    /\ bktime # 0
    /\ \E g \in chain : 5 * t1 - 5 * bktime <= 4 * g - 2 * MaxWork - 12
    /\ now - 5 * t1 <= 4 * MaxWork + 20

Delay ==
    Followable =>
        /\ Calm \/ Prompt \/ CatchingUp
        /\ bktime = 0 => Calm
        /\ Steady => Calm
        /\ Steady => late <= 2 * MaxWork + 4
        /\ \E g \in chain : late <= 4 * g

DelayInv == TypeOK /\ Times /\ Delay

LEMMA InitDelay == Init => DelayInv
<1> SUFFICES ASSUME Init PROVE DelayInv
  OBVIOUS
<1>1. TypeOK
  BY GapsAssumption, NumBlocksAssumption DEF Init, TypeOK, ArrivalsAfter, TicksPerSecond, GetTime
<1>2. PICK g \in chain : arrival = 5 + 5 * g
  BY DEF Init, ArrivalsAfter, TicksPerSecond
<1>3. g \in Nat \ {0} /\ now = 5 /\ t1 = 1 /\ bktime = 0 /\ late = 0
  BY <1>1, <1>2, Types DEF Init, TicksPerSecond, GetTime
<1>4. Times
  BY <1>2, <1>3 DEF Times, GetTime, TicksPerSecond
<1>5. Delay
  BY <1>2, <1>3, MaxWorkAssumption DEF Delay, Calm
<1>6. QED
  BY <1>1, <1>4, <1>5 DEF DelayInv

LEMMA WaitDelay ==
    ASSUME DelayInv, NEW work \in 0..MaxWork, WaitForBlock(work)
    PROVE  Times' /\ Delay'
<1>1. UNCHANGED <<chain, next, arrival, t1, bktime, late>> /\ now' = now + work + 5 /\ now < arrival
  BY Types DEF DelayInv, WaitForBlock, HasNext, AdjustTime, TicksPerSecond
<1>2. work \in Nat /\ work <= MaxWork /\ MaxWork \in Nat
  BY MaxWorkAssumption
<1>3. Times'
  BY <1>1, <1>2, Types DEF DelayInv, Times
<1>4. Calm'
  BY <1>1, <1>2, Types DEF DelayInv, Calm
<1>5. Delay'
  BY <1>1, <1>4 DEF DelayInv, Delay, Followable, Steady
<1>6. QED
  BY <1>3, <1>5

\* A round that got its block, with the right time: e is its end, s its sleep.
\* The sleep is four fifths of the round if that was no longer than the gap.
LEMMA Round ==
    ASSUME DelayInv, Unset = {}, NEW work \in 0..MaxWork, HandleBlock(work)
    PROVE  \E s, e, b \in Nat :
             /\ now' = now + work + s
             /\ bktime' = b /\ b # 0 /\ arrival = 5 * b
             /\ t1' = e /\ 5 * e <= now + work /\ now + work <= 5 * e + 4 /\ t1 <= e
             /\ \/ bktime = 0 /\ s = 5
                \/ \E g \in chain :
                     /\ bktime # 0 /\ arrival = 5 * bktime + 5 * g
                     /\ \/ e - t1 <= g /\ s = 4 * (e - t1)
                        \/ e - t1 > g /\ s = 5
<1> DEFINE last == GetTime(arrival)
           t2 == GetTime(now + work)
           s == SleepAfter(last, t2)
<1>1. TypeOK /\ Times /\ work \in Nat
  BY MaxWorkAssumption DEF DelayInv
<1>2. /\ arrival \in Nat /\ now \in Nat /\ t1 \in Nat /\ bktime \in Int /\ chain \subseteq Nat \ {0}
      /\ now + work \in Nat
  BY <1>1, Types
<1>3. last \in Nat /\ last # 0 /\ arrival = 5 * last
  BY <1>1, <1>2, Seconds DEF Times
<1>4. t2 \in Nat /\ 5 * t2 <= now + work /\ now + work <= 5 * t2 + 4
  BY <1>2, Seconds
<1>5. t1 <= t2
  BY <1>1, <1>2, <1>4 DEF Times
<1>6. now' = now + work + s /\ t1' = t2 /\ bktime' = last
  <2>1. \E l \in {last} : /\ now' = now + work + SleepAfter(l, t2)
                          /\ t1' = IF l # 0 THEN t2 ELSE t1
                          /\ bktime' = IF l # 0 THEN l ELSE bktime
    BY DEF HandleBlock
  <2>2. QED
    BY <1>3, <2>1
<1> HIDE DEF last, t2
<1>7. CASE bktime = 0
  <2>1. s = 5
    BY <1>7 DEF SleepAfter, AdjustTime, TicksPerSecond
  <2>2. QED
    BY <1>3, <1>4, <1>5, <1>6, <1>7, <2>1
<1>8. CASE bktime # 0
  <2>1. PICK g \in chain : arrival = 5 * bktime + 5 * g
    BY <1>1, <1>8 DEF Times
  <2>2. g \in Nat \ {0} /\ last - bktime = g
    BY <1>2, <1>3, <2>1
  <2>3. BlockDiff(last) = g
    BY <1>2, <1>3, <2>2 DEF BlockDiff
  <2>4. s = IF t2 - t1 > g THEN 5 ELSE (g - (g - (t2 - t1))) * 4
    BY <1>2, <1>3, <1>4, <1>5, <1>8, <2>2, <2>3 DEF SleepAfter, AdjustTime, TicksPerSecond, SleepPerSecond
  <2> HIDE DEF s
  <2>5. s \in Nat /\ ((t2 - t1 <= g /\ s = 4 * (t2 - t1)) \/ (t2 - t1 > g /\ s = 5))
    BY <1>2, <1>4, <1>5, <2>2, <2>4
  <2>6. QED
    BY <1>3, <1>4, <1>5, <1>6, <1>8, <2>1, <2>5
<1>9. QED
  BY <1>7, <1>8

\* What the next block's arrival adds, and what a followable chain gives.
LEMMA Chain ==
    ASSUME DelayInv, NEW work \in 0..MaxWork, HandleBlock(work)
    PROVE  /\ chain' = chain /\ chain \subseteq Nat \ {0}
           /\ arrival \in Nat /\ now \in Nat /\ t1 \in Nat /\ bktime \in Int /\ arrival <= now
           /\ late' = now + work - arrival
           /\ \E g \in chain : arrival' = arrival + 5 * g
           /\ MaxWork \in Nat /\ work \in Nat /\ work <= MaxWork
BY Types, MaxWorkAssumption DEF DelayInv, HandleBlock, HasNext, ArrivalsAfter, TicksPerSecond

LEMMA HandleTimes ==
    ASSUME DelayInv, Unset = {}, NEW work \in 0..MaxWork, HandleBlock(work)
    PROVE  Times'
<1>0. /\ chain' = chain /\ arrival \in Nat /\ now \in Nat /\ t1 \in Nat /\ bktime \in Int
      /\ late' = now + work - arrival /\ MaxWork \in Nat /\ work \in Nat /\ work <= MaxWork
  BY Chain
<1>1. PICK g \in chain : arrival' = arrival + 5 * g
  BY Chain
<1>2. PICK s, e, b \in Nat : /\ now' = now + work + s
                             /\ bktime' = b /\ b # 0 /\ arrival = 5 * b
                             /\ t1' = e /\ 5 * e <= now + work
  BY Round
<1>3. g \in Nat /\ arrival' = 5 * (b + g)
  <2>1. g \in Nat
    BY <1>1, Chain
  <2>2. QED
    BY <1>1, <1>2, <2>1
<1>4. arrival' = 5 * GetTime(arrival') /\ arrival' > 0
  BY <1>2, <1>3 DEF GetTime, TicksPerSecond
<1>5. 5 * t1' <= now'
  BY <1>0, <1>2
<1>6. \E h \in chain' : arrival' = 5 * bktime' + 5 * h
  BY <1>0, <1>1, <1>2
<1>7. GetTime(arrival)' = GetTime(arrival')
  BY DEF GetTime, TicksPerSecond
<1>8. QED
  BY <1>4, <1>5, <1>6, <1>7 DEF Times

\* After a round that began in time the task is not late with this block.
LEMMA FromCalm ==
    ASSUME DelayInv, Unset = {}, NEW work \in 0..MaxWork, HandleBlock(work), Followable, Calm
    PROVE  /\ Prompt' /\ late' <= 2 * MaxWork + 4
           /\ \E g \in chain' : late' <= 4 * g
           /\ Steady => Calm'
<1>0. /\ chain' = chain /\ arrival \in Nat /\ now \in Nat /\ t1 \in Nat /\ bktime \in Int
      /\ late' = now + work - arrival /\ MaxWork \in Nat /\ work \in Nat /\ work <= MaxWork
  BY Chain
<1>1. PICK h \in chain : arrival' = arrival + 5 * h
  BY Chain
<1>2. PICK s, e, b \in Nat :
        /\ now' = now + work + s
        /\ bktime' = b /\ b # 0 /\ arrival = 5 * b
        /\ t1' = e /\ 5 * e <= now + work /\ now + work <= 5 * e + 4 /\ t1 <= e
        /\ \/ bktime = 0 /\ s = 5
           \/ \E g \in chain :
                /\ bktime # 0 /\ arrival = 5 * bktime + 5 * g
                /\ \/ e - t1 <= g /\ s = 4 * (e - t1)
                   \/ e - t1 > g /\ s = 5
  BY Round
<1>3. h \in Nat /\ h >= MaxWork + 4
  BY <1>1, Chain DEF Followable
<1>4. PICK g \in chain : s <= 4 * g
  <2>1. CASE s = 5
    BY <1>0, <1>3, <2>1
  <2>2. CASE \E g \in chain : e - t1 <= g /\ s = 4 * (e - t1)
    <3>1. PICK g \in chain : e - t1 <= g /\ s = 4 * (e - t1)
      BY <2>2
    <3>2. g \in Nat /\ t1 \in Nat
      BY Chain
    <3>3. QED
      BY <1>2, <3>1, <3>2
  <2>3. QED
    BY <1>2, <2>1, <2>2
<1>5. g \in Nat /\ g >= MaxWork + 4
  BY <1>4, Chain DEF Followable
<1>6. now - arrival <= MaxWork + 4
  BY DEF Calm
<1>7. 5 * e - 5 * b <= 2 * MaxWork + 4 /\ now' - 5 * e <= 4 * g + 4
  BY <1>0, <1>2, <1>4, <1>5, <1>6
<1>8. Prompt'
  BY <1>0, <1>2, <1>7 DEF Prompt
<1>9. late' <= 2 * MaxWork + 4 /\ late' <= 4 * g
  BY <1>0, <1>5, <1>6
<1>10. ASSUME Steady PROVE Calm'
  <2>1. g = h
    BY <1>1, <1>4, <1>10 DEF Steady
  <2>2. QED
    BY <1>0, <1>1, <1>2, <1>4, <1>5, <1>6, <2>1 DEF Calm
<1>11. QED
  BY <1>0, <1>8, <1>9, <1>10

\* A block that comes too soon after a long sleep finds the task late, and
\* the next sleep is the default one.
LEMMA FromPrompt ==
    ASSUME DelayInv, Unset = {}, NEW work \in 0..MaxWork, HandleBlock(work), Followable, Prompt
    PROVE  (Prompt' \/ CatchingUp') /\ \E g \in chain' : late' <= 4 * g
<1>0. /\ chain' = chain /\ arrival \in Nat /\ now \in Nat /\ t1 \in Nat /\ bktime \in Int
      /\ late' = now + work - arrival /\ MaxWork \in Nat /\ work \in Nat /\ work <= MaxWork
  BY Chain
<1>1. PICK g \in chain : now - 5 * t1 <= 4 * g + 4
  BY DEF Prompt
<1>2. bktime # 0 /\ 5 * t1 - 5 * bktime <= 2 * MaxWork + 4
  BY DEF Prompt
<1>3. PICK s, e, b \in Nat :
        /\ now' = now + work + s
        /\ bktime' = b /\ b # 0 /\ arrival = 5 * b
        /\ t1' = e /\ 5 * e <= now + work /\ now + work <= 5 * e + 4 /\ t1 <= e
        /\ \E h \in chain :
             /\ arrival = 5 * bktime + 5 * h
             /\ \/ e - t1 <= h /\ s = 4 * (e - t1)
                \/ e - t1 > h /\ s = 5
  BY <1>2, Round
<1>4. PICK h \in chain : /\ arrival = 5 * bktime + 5 * h
                         /\ \/ e - t1 <= h /\ s = 4 * (e - t1)
                            \/ e - t1 > h /\ s = 5
  BY <1>3
<1>5. g \in Nat /\ h \in Nat /\ h >= MaxWork + 4
  BY <1>1, <1>4, Chain DEF Followable
<1>6. late' <= 4 * g
  BY <1>0, <1>1, <1>2, <1>4, <1>5
<1>7. CASE e - t1 <= h /\ s = 4 * (e - t1)
  <2>1. 5 * e - 5 * b <= 2 * MaxWork + 4 /\ now' - 5 * e <= 4 * h + 4
    BY <1>0, <1>2, <1>3, <1>4, <1>5, <1>7
  <2>2. QED
    BY <1>0, <1>3, <1>4, <1>6, <2>1 DEF Prompt
<1>8. CASE s = 5
  <2>1. /\ 5 * e - 5 * b <= 4 * g - 2 * MaxWork - 12
        /\ now' - 5 * e <= 4 * MaxWork + 20
    BY <1>0, <1>1, <1>2, <1>3, <1>4, <1>5, <1>8
  <2>2. QED
    BY <1>0, <1>3, <1>6, <2>1 DEF CatchingUp
<1>9. QED
  BY <1>4, <1>7, <1>8

\* A late task's rounds are shorter than any spacing: each makes up for some.
LEMMA FromCatchingUp ==
    ASSUME DelayInv, Unset = {}, NEW work \in 0..MaxWork, HandleBlock(work), Followable, CatchingUp
    PROVE  CatchingUp' /\ \E g \in chain' : late' <= 4 * g
<1>0. /\ chain' = chain /\ arrival \in Nat /\ now \in Nat /\ t1 \in Nat /\ bktime \in Int
      /\ late' = now + work - arrival /\ MaxWork \in Nat /\ work \in Nat /\ work <= MaxWork
  BY Chain
<1>1. PICK g \in chain : 5 * t1 - 5 * bktime <= 4 * g - 2 * MaxWork - 12
  BY DEF CatchingUp
<1>2. bktime # 0 /\ now - 5 * t1 <= 4 * MaxWork + 20
  BY DEF CatchingUp
<1>3. PICK s, e, b \in Nat :
        /\ now' = now + work + s
        /\ bktime' = b /\ b # 0 /\ arrival = 5 * b
        /\ t1' = e /\ 5 * e <= now + work /\ now + work <= 5 * e + 4 /\ t1 <= e
        /\ \E h \in chain :
             /\ arrival = 5 * bktime + 5 * h
             /\ \/ e - t1 <= h /\ s = 4 * (e - t1)
                \/ e - t1 > h /\ s = 5
  BY <1>2, Round
<1>4. PICK h \in chain : /\ arrival = 5 * bktime + 5 * h
                         /\ \/ e - t1 <= h /\ s = 4 * (e - t1)
                            \/ e - t1 > h /\ s = 5
  BY <1>3
<1>5. g \in Nat /\ h \in Nat /\ h >= MaxWork + 4
  BY <1>1, <1>4, Chain DEF Followable
<1>6. late' <= 4 * g
  BY <1>0, <1>1, <1>2, <1>4, <1>5
<1>7. e - t1 <= MaxWork + 4
  BY <1>0, <1>2, <1>3
<1>8. s = 4 * (e - t1)
  BY <1>0, <1>3, <1>4, <1>5, <1>7
<1>9. /\ 5 * e - 5 * b <= 4 * g - 2 * MaxWork - 12
      /\ now' - 5 * e <= 4 * MaxWork + 20
  BY <1>0, <1>1, <1>2, <1>3, <1>4, <1>5, <1>7, <1>8
<1>10. QED
  BY <1>0, <1>3, <1>6, <1>9 DEF CatchingUp

LEMMA HandleDelay ==
    ASSUME DelayInv, Unset = {}, NEW work \in 0..MaxWork, HandleBlock(work)
    PROVE  Delay'
<1> SUFFICES ASSUME Followable' PROVE
        /\ Calm' \/ Prompt' \/ CatchingUp'
        /\ bktime' # 0
        /\ Steady' => Calm' /\ late' <= 2 * MaxWork + 4
        /\ \E g \in chain' : late' <= 4 * g
  BY DEF Delay
<1>1. Followable /\ (Steady' => Steady)
  BY Chain DEF Followable, Steady
<1>2. bktime' # 0
  BY Round
<1>3. (Calm \/ Prompt \/ CatchingUp) /\ (Steady => Calm)
  BY <1>1 DEF DelayInv, Delay
<1>4. CASE Calm
  BY <1>1, <1>2, <1>4, FromCalm
<1>5. CASE ~Calm /\ Prompt
  BY <1>1, <1>2, <1>3, <1>5, FromPrompt
<1>6. CASE ~Calm /\ CatchingUp
  BY <1>1, <1>2, <1>3, <1>6, FromCatchingUp
<1>7. QED
  BY <1>3, <1>4, <1>5, <1>6

\* The inductive invariant, for a daemon whose replies have their block times.
LEMMA DelayInvariant == ASSUME Unset = {} PROVE Spec => []DelayInv
<1>1. Init => DelayInv
  BY InitDelay
<1>2. DelayInv /\ TypeOK' /\ [Next]_vars => DelayInv'
  <2> SUFFICES ASSUME DelayInv, TypeOK', [Next]_vars PROVE DelayInv'
    OBVIOUS
  <2>1. ASSUME NEW work \in 0..MaxWork, WaitForBlock(work) PROVE DelayInv'
    BY <2>1, WaitDelay DEF DelayInv
  <2>2. ASSUME NEW work \in 0..MaxWork, HandleBlock(work) PROVE DelayInv'
    BY <2>2, HandleTimes, HandleDelay DEF DelayInv
  <2>3. CASE UNCHANGED vars
    BY <2>3 DEF DelayInv, TypeOK, Times, Delay, Calm, Prompt, CatchingUp, Followable, Steady,
                GetTime, vars
  <2>4. QED
    BY <2>1, <2>2, <2>3 DEF Next
<1>3. QED
  BY <1>1, <1>2, PacingTypeCorrect, PTL DEF Spec

\* On a chain of any spacing that leaves the room, of any length and for calls
\* of any time up to the longest, work() is never later with a block than one
\* default sleep and two calls.
THEOREM SteadyInTime == ASSUME Unset = {} PROVE Spec => []SteadyDelay
<1>1. DelayInv => SteadyDelay
  BY Types, MaxWorkAssumption DEF DelayInv, Delay, SteadyDelay, AdjustTime, TicksPerSecond
<1>2. QED
  BY <1>1, DelayInvariant, PTL

\* And with any gaps it is never later than four fifths of the longest.
THEOREM DelayBounded == ASSUME Unset = {} PROVE Spec => []BoundedDelay
<1>1. DelayInv => BoundedDelay
  BY DEF DelayInv, Delay, BoundedDelay
<1>2. QED
  BY <1>1, DelayInvariant, PTL
=============================================================================
