--------------------------- MODULE MCFidInventor ---------------------------
(***************************************************************************)
(* Instances of FidInventor for TLC.  Block 1 has two transactions, every  *)
(* other block one; another branch carries the transactions of the main    *)
(* branch in blocks of other heights, as after a reorganisation that mines *)
(* a transaction again.                                                    *)
(***************************************************************************)
EXTENDS FidInventor

MCTx == {"t0", "t1", "t1b", "t2", "t3"}

MCTxsAt(h) ==
    CASE h = 0 -> <<"t0">>
      [] h = 1 -> <<"t1", "t1b">>
      [] h = 2 -> <<"t2">>
      [] OTHER -> <<"t3">>

\* Off the main branch, blocks 1 and 2 hold each other's transactions.
MCTxsOf == [b \in Block |->
    IF b.branch = MainBranch \/ b.height \notin {1, 2}
      THEN MCTxsAt(b.height)
      ELSE MCTxsAt(3 - b.height)]
=============================================================================
