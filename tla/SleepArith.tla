----------------------------- MODULE SleepArith -----------------------------
(***************************************************************************)
(* The arithmetic of the pacing sleep in CFidTaskSchedule::work()          *)
(* (taskschedule.cpp:151-174) in ints of IntSize values.  Overflow is      *)
(* undefined: the result may be any int.  The compiler may multiply by     *)
(* 1000 * 4 and divide, or by 800.  Seconds have PerSecond milliseconds.   *)
(***************************************************************************)
EXTENDS MachineInt

CONSTANT PerSecond   \* 1000 in the code

ASSUME PerSecondAssumption == PerSecond \in Nat /\ PerSecond % 5 = 0

OrOverflow(n) == IF n \in AnInt THEN {n} ELSE AnInt

\* Division rounds towards zero.
Quotient(n, d) == IF n >= 0 THEN n \div d ELSE -((-n) \div d)

AdjustTime == PerSecond

DefaultBkDiff == 64 % (IntSize \div 2)

BkDiffs(last, prev) == {IF d < 0 THEN DefaultBkDiff ELSE d : d \in OrOverflow(last - prev)}

FourFifths(x) ==
    {Quotient(p, 5) : p \in OrOverflow(x * PerSecond * 4)} \cup OrOverflow(x * ((PerSecond * 4) \div 5))

\* Mutant of Paced: without the test that the clock has not gone back.
PacedAlways(bkdiff, elapsed) ==
    LET diff == ToInt(bkdiff - elapsed)
    IN IF diff < 0 THEN {AdjustTime} ELSE FourFifths(bkdiff - diff)

\* The sleep from the spacing of two blocks and the time since the first.
Paced(bkdiff, elapsed) ==
    LET diff == ToInt(bkdiff - elapsed)
    IN IF diff < 0 \/ diff > bkdiff THEN {AdjustTime} ELSE FourFifths(bkdiff - diff)

\* The sleep after a round: last is the time of the block handled, prev that
\* of the one before, 0 when there is none.
Sleeps(last, prev, elapsed, bContinue) ==
    IF bContinue \/ last = 0 \/ prev = 0 THEN {AdjustTime}
    ELSE UNION {Paced(d, elapsed) : d \in BkDiffs(last, prev)}
=============================================================================
