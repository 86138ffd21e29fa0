------------------------------ MODULE Indexer ------------------------------
(***************************************************************************)
(* What the indexer promises, told without its threads: while it runs it   *)
(* has one cursor, stores a block only at the cursor, and moves the cursor *)
(* up one height at a time.  When it is started again it takes the cursor  *)
(* from the number of rows of table block and from nothing else.           *)
(*                                                                         *)
(* Lossy says whether the cursor may leave a height without its block: it  *)
(* may when a failed RPC or statement, or a reorganisation, can make the   *)
(* task succeed with nothing stored (taskschedule.cpp:80-90).              *)
(***************************************************************************)
EXTENDS Naturals, FiniteSets

CONSTANTS
    Block,   \* blocks: records with a field height
    Lossy    \* whether a height may be passed over

\* The chain has one block a height.
OneBlockAHeight == \A a, b \in Block : a.height = b.height => a = b

VARIABLES
    on,      \* the process has counted its rows and is indexing
    next,    \* the cursor: the height to be handled next, 0 when not on
    stored   \* the rows of table block

vars == <<on, next, stored>>

\* The first height after a start with n rows.
FirstHeight(n) == IF n = 0 THEN 0 ELSE n + 1

Init == on = FALSE /\ next = 0 /\ stored = {}

Boot ==
    /\ ~on
    /\ on' = TRUE
    /\ next' = FirstHeight(Cardinality(stored))
    /\ UNCHANGED stored

Store(b) ==
    /\ on
    /\ b.height = next
    /\ stored' = stored \cup {b}
    /\ UNCHANGED <<on, next>>

Advance ==
    /\ on
    /\ Lossy \/ \E b \in stored : b.height = next
    /\ next' = next + 1
    /\ UNCHANGED <<on, stored>>

Halt ==
    /\ on
    /\ on' = FALSE
    /\ next' = 0
    /\ UNCHANGED stored

Next == Boot \/ (\E b \in Block : Store(b)) \/ Advance \/ Halt

Spec == Init /\ [][Next]_vars

-----------------------------------------------------------------------------

StoredHeights == {b.height : b \in stored}

\* Heights without a block, below one that has a block.
Gaps == {g \in UNION {0..h : h \in StoredHeights} : g \notin StoredHeights}

\* However often it is stopped, the indexer leaves at most one height out for
\* good: a start over a table with no gap skips a height, and a start over a
\* table with one gap finds, by its wrong count, exactly the next height.
AtMostOneGap == \A g, h \in Gaps : g = h
=============================================================================
