----------------------------- MODULE MachineInt -----------------------------
(***************************************************************************)
(* The int of the build, with IntSize values.                              *)
(***************************************************************************)
EXTENDS Integers

CONSTANT IntSize   \* 2^32 in the code

ASSUME IntSizeAssumption == IntSize \in Nat /\ IntSize % 2 = 0 /\ IntSize > 0

AnInt == (-(IntSize \div 2))..(IntSize \div 2 - 1)

\* Mutant of ToInt: what is too big is the biggest.
ToIntMost(n) == IF n >= IntSize \div 2 THEN IntSize \div 2 - 1 ELSE n

\* static_cast< int > of an int64_t
ToInt(n) == LET m == n % IntSize IN IF m >= IntSize \div 2 THEN m - IntSize ELSE m
=============================================================================
