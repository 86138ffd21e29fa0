------------------------------- MODULE Pacing -------------------------------
(***************************************************************************)
(* How long CFidTaskSchedule::work() (taskschedule.cpp) sleeps between two *)
(* rounds of the follow task, against a chain whose blocks come at given   *)
(* times.  One step is one round: the call, then the sleep.  The clock     *)
(* counts ticks of 200 milliseconds, so that 1000 ms are 5 ticks and 4/5 s *)
(* are 4; GetTime() is the clock in whole seconds.                         *)
(***************************************************************************)
EXTENDS Integers

CONSTANTS
    Gaps,      \* seconds between a block and the one before
    NumBlocks, \* bound: blocks of a chain
    MaxWork,   \* the longest call(), in ticks
    Unset      \* what CFidBlock::time, never assigned, can hold

ASSUME GapsAssumption == Gaps \subseteq Nat \ {0}
ASSUME NumBlocksAssumption == NumBlocks \in Nat
ASSUME MaxWorkAssumption == MaxWork \in Nat
ASSUME UnsetAssumption == Unset \subseteq Int

TicksPerSecond == 5
GetTime(tick) == tick \div TicksPerSecond

VARIABLES
    chain,    \* the gaps that this chain has
    next,     \* the block the task wants next
    arrival,  \* tick at which that block is there; its timestamp is GetTime of it
    now,      \* the clock at the start of a round
    t1,       \* GetTime() at the end of the last round that got a block
    bktime,   \* timestamp of that block, 0 before
    late      \* how many ticks after its arrival the last block was done

vars == <<chain, next, arrival, now, t1, bktime, late>>

\* When the block after one that came at this tick is there.
ArrivalsAfter(tick) == {tick + TicksPerSecond * g : g \in chain}

\* The chain starts one second past the epoch of the clock.
Init ==
    /\ chain \in SUBSET Gaps
    /\ now = TicksPerSecond
    /\ next = 1
    /\ arrival \in ArrivalsAfter(TicksPerSecond)
    /\ t1 = GetTime(now)
    /\ bktime = 0
    /\ late = 0

-----------------------------------------------------------------------------

\* Mutant of HasNext: a block counts a second before it is there.
HasNextEarly == arrival <= now + TicksPerSecond

\* getblockcount is the height of the next block or above: gaps are positive,
\* so that the next block is the first to come.
HasNext == arrival <= now

AdjustTime == TicksPerSecond     \* 1000 milliseconds
DefaultSpacing == 64             \* seconds

BlockDiff(last) == IF last - bktime < 0 THEN DefaultSpacing ELSE last - bktime

\* Mutant of SleepPerSecond: 5/4 for 4/5.
SleepPerSecondMore == 6

\* 1000 * 4/5 milliseconds a second.
SleepPerSecond == 4

\* Mutant of SleepAfter: a block that is overdue is waited for, too.
SleepAfterOverdue(last, t2) ==
    IF last = 0 \/ bktime = 0 THEN AdjustTime ELSE (t2 - t1) * SleepPerSecond

\* The sleep after a block with timestamp last, when the round ends at t2.
SleepAfter(last, t2) ==
    LET diff == BlockDiff(last) - (t2 - t1) IN
    IF last = 0 \/ bktime = 0 \/ diff < 0 \/ diff > BlockDiff(last)
      THEN AdjustTime
      ELSE (BlockDiff(last) - diff) * SleepPerSecond

\* The daemon has no next block: status 0, and the default sleep.
WaitForBlock(work) ==
    /\ ~HasNext /\ next <= NumBlocks
    /\ now' = now + work + AdjustTime
    /\ UNCHANGED <<chain, next, arrival, t1, bktime, late>>

\* A block was handled: last is its timestamp, or whatever the handler's
\* block happened to hold when the daemon's reply was an error.
HandleBlock(work) ==
    /\ HasNext /\ next <= NumBlocks
    /\ next' = next + 1
    /\ arrival' \in ArrivalsAfter(arrival)
    /\ late' = now + work - arrival
    /\ \E last \in {GetTime(arrival)} \cup Unset :
         /\ now' = now + work + SleepAfter(last, GetTime(now + work))
         /\ t1' = IF last # 0 THEN GetTime(now + work) ELSE t1
         /\ bktime' = IF last # 0 THEN last ELSE bktime
    /\ UNCHANGED chain

Next == \E work \in 0..MaxWork : WaitForBlock(work) \/ HandleBlock(work)

Spec == Init /\ [][Next]_vars

-----------------------------------------------------------------------------

\* Blocks come and are done in order; no time is negative but one that was
\* never assigned.
TypeOK ==
    /\ chain \subseteq Gaps
    /\ next \in 1..(NumBlocks + 1)
    /\ {arrival, now, t1, late} \subseteq Nat
    /\ bktime \in Nat \cup Unset

\* The chain of this behaviour keeps one spacing.
Steady == \A a, b \in chain : a = b

\* The fifth of a spacing that the sleep leaves, a tick for each of its seconds,
\* has room for a call and for the seconds that GetTime() cuts off.  Without it
\* the task can fall behind for ever even where a default sleep and a call
\* are shorter than a spacing: with blocks every 2 s and calls of 0.8 s the
\* rounds sleep 1 s and 1.6 s in turn, 2.1 s with a call on an average.
Followable == \A g \in chain : g >= MaxWork + 4

\* On a chain that keeps its spacing the task is awake again before the next
\* block is due: it never takes longer than one default sleep and two calls
\* to have it, the first block after a start included (taskschedule.cpp:154-161).
SteadyDelay == Steady /\ Followable => late <= AdjustTime + 2 * MaxWork

\* However the spacing changes, a block is done within 4/5 of the longest
\* spacing of its coming: the sleep after a long gap never adds up with a later
\* one, as the next round finds that it took too long (taskschedule.cpp:157).
BoundedDelay == Followable => \E g \in chain : late <= 4 * g
=============================================================================
