--------------------------- MODULE IndexerProofs ---------------------------
(***************************************************************************)
(* A strict indexer on a chain with one block a height leaves out at most  *)
(* one height, however often it is stopped and started again.              *)
(*                                                                         *)
(* The inductive invariant says what the table can look like: all heights  *)
(* below some t, without one height g or (g = t) without none.             *)
(***************************************************************************)
EXTENDS Indexer, Integers, FiniteSetTheorems, TLAPS

\* The stored heights are 0..(t-1) without g, where g = t stands for no gap;
\* the row count that FirstHeight starts from is t, or t-1 with a gap.
Shape(t, g) ==
    /\ g = t \/ g < t - 1
    /\ StoredHeights = (0..(t - 1)) \ {g}
    /\ Cardinality(stored) = IF g = t THEN t ELSE t - 1

\* The cursor is at the top block, above it or, when the process was started
\* over a table without a gap, one height further on.
CursorAt(t, g) == next \in {t - 1, t} \/ (g = t /\ next = t + 1)

IInv ==
    /\ on \in BOOLEAN
    /\ next \in Nat
    /\ stored \subseteq Block
    /\ IsFiniteSet(stored)
    /\ \E t, g \in Nat : Shape(t, g) /\ (on => CursorAt(t, g))

LEMMA InitIInv == Init => IInv
<1> SUFFICES ASSUME Init PROVE IInv
  OBVIOUS
<1>1. stored = {} /\ IsFiniteSet(stored) /\ Cardinality(stored) = 0
  BY FS_EmptySet DEF Init
<1>2. Shape(0, 0)
  BY <1>1 DEF Shape, StoredHeights
<1>3. \E t, g \in Nat : Shape(t, g) /\ (on => CursorAt(t, g))
  <2> WITNESS 0 \in Nat, 0 \in Nat
  <2> QED
    BY <1>2 DEF Init
<1> QED
  BY <1>1, <1>3 DEF Init, IInv

\* Storing the block at the cursor keeps the shape of the table.
LEMMA StoreKeepsShape ==
  ASSUME OneBlockAHeight, IInv, on, NEW b \in Block, Store(b)
  PROVE  IInv'
<1>1. PICK t \in Nat, g \in Nat : Shape(t, g) /\ CursorAt(t, g)
  BY DEF IInv
<1> DEFINE H == StoredHeights
<1>2. /\ b.height = next /\ stored' = stored \cup {b} /\ on' = on /\ next' = next
      /\ next \in Nat
  BY DEF Store, IInv
<1>3. StoredHeights' = H \cup {next}
  BY <1>2 DEF StoredHeights
<1>4. stored' \subseteq Block /\ IsFiniteSet(stored')
  BY <1>2, FS_AddElement DEF IInv
<1>5. b \in stored <=> next \in H
  BY <1>2 DEF StoredHeights, OneBlockAHeight, IInv
<1>6. Cardinality(stored') = IF next \in H THEN Cardinality(stored) ELSE Cardinality(stored) + 1
  BY <1>2, <1>5, FS_AddElement DEF IInv
<1>7. H = (0..(t - 1)) \ {g} /\ (g = t \/ g < t - 1)
  BY <1>1 DEF Shape
<1>8. CASE next = t - 1
  <2>1. next \in H
    BY <1>2, <1>7, <1>8
  <2>2. StoredHeights' = H /\ Cardinality(stored') = Cardinality(stored)
    BY <2>1, <1>3, <1>6
  <2>3. Shape(t, g)' /\ CursorAt(t, g)'
    BY <2>2, <1>1, <1>2 DEF Shape, CursorAt
  <2> QED
    BY <2>3, <1>2, <1>4 DEF IInv
<1>9. CASE next = t
  <2>1. next \notin H
    BY <1>7, <1>9
  <2>2. CASE g = t
    <3>1. StoredHeights' = (0..t) \ {t + 1}
      BY <1>3, <1>7, <1>9, <2>2
    <3>2. Shape(t + 1, t + 1)'
      BY <3>1, <2>1, <2>2, <1>1, <1>6 DEF Shape
    <3>3. CursorAt(t + 1, t + 1)'
      BY <1>2, <1>9 DEF CursorAt
    <3> QED
      BY <3>2, <3>3, <1>2, <1>4 DEF IInv
  <2>3. CASE g < t - 1
    <3>1. StoredHeights' = (0..t) \ {g}
      BY <1>3, <1>7, <1>9, <2>3
    <3>2. Shape(t + 1, g)'
      BY <3>1, <2>1, <2>3, <1>1, <1>6 DEF Shape
    <3>3. CursorAt(t + 1, g)'
      BY <1>2, <1>9 DEF CursorAt
    <3> QED
      BY <3>2, <3>3, <1>2, <1>4 DEF IInv
  <2> QED
    BY <2>2, <2>3, <1>7
<1>10. CASE g = t /\ next = t + 1
  <2>1. next \notin H
    BY <1>7, <1>10
  <2>2. StoredHeights' = (0..(t + 1)) \ {t}
    BY <1>3, <1>7, <1>10
  <2>3. Shape(t + 2, t)'
    BY <2>1, <2>2, <1>1, <1>6, <1>10 DEF Shape
  <2>4. CursorAt(t + 2, t)'
    BY <1>2, <1>10 DEF CursorAt
  <2> QED
    BY <2>3, <2>4, <1>2, <1>4 DEF IInv
<1> QED
  BY <1>1, <1>8, <1>9, <1>10 DEF CursorAt

LEMMA StepIInv ==
  ASSUME OneBlockAHeight, ~Lossy, IInv, [Next]_vars
  PROVE  IInv'
<1>1. PICK t \in Nat, g \in Nat : Shape(t, g) /\ (on => CursorAt(t, g))
  BY DEF IInv
<1>2. CASE Boot
  <2>1. next' = FirstHeight(IF g = t THEN t ELSE t - 1)
    BY <1>1, <1>2 DEF Boot, Shape
  <2>2. next' \in Nat /\ CursorAt(t, g)'
    BY <2>1, <1>1 DEF FirstHeight, CursorAt, Shape
  <2>3. Shape(t, g)'
    BY <1>1, <1>2 DEF Boot, Shape, StoredHeights
  <2> QED
    BY <1>2, <2>2, <2>3 DEF Boot, IInv
<1>3. CASE \E b \in Block : Store(b)
  BY <1>3, StoreKeepsShape DEF Store
<1>4. CASE Advance
  <2>1. next \in StoredHeights /\ next' = next + 1 /\ stored' = stored /\ on
    BY <1>4 DEF Advance, StoredHeights
  <2>2. next = t - 1
    BY <2>1, <1>1 DEF Shape, CursorAt
  <2>3. CursorAt(t, g)' /\ Shape(t, g)'
    BY <2>1, <2>2, <1>1 DEF CursorAt, Shape, StoredHeights
  <2> QED
    BY <1>4, <2>1, <2>3 DEF Advance, IInv
<1>5. CASE Halt
  <2>1. Shape(t, g)' /\ on' = FALSE /\ next' = 0 /\ stored' = stored
    BY <1>1, <1>5 DEF Halt, Shape, StoredHeights
  <2>2. (\E x, y \in Nat : Shape(x, y) /\ (on => CursorAt(x, y)))'
    BY <2>1
  <2> QED
    BY <2>1, <2>2 DEF IInv
<1>6. CASE UNCHANGED vars
  BY <1>6 DEF vars, IInv, Shape, CursorAt, StoredHeights
<1> QED
  BY <1>2, <1>3, <1>4, <1>5, <1>6 DEF Next

LEMMA IInvImpliesAtMostOneGap == IInv => AtMostOneGap
<1> SUFFICES ASSUME IInv PROVE AtMostOneGap
  OBVIOUS
<1>1. PICK t \in Nat, g \in Nat : Shape(t, g)
  BY DEF IInv
<1>2. \A x \in Gaps : x = g
  BY <1>1 DEF Gaps, Shape
<1> QED
  BY <1>2 DEF AtMostOneGap

\* Whatever the chain and however often the process is stopped, at most one
\* height below the top of the table has no block (main.cc:63-74).
THEOREM StrictIndexerLeavesOneGap ==
  ASSUME OneBlockAHeight, ~Lossy
  PROVE  Spec => []AtMostOneGap
<1>1. Init => IInv
  BY InitIInv
<1>2. IInv /\ [Next]_vars => IInv'
  BY StepIInv
<1>3. IInv => AtMostOneGap
  BY IInvImpliesAtMostOneGap
<1> QED
  BY <1>1, <1>2, <1>3, PTL DEF Spec
=============================================================================
