----------------------------- MODULE MCTxStore -----------------------------
(***************************************************************************)
(* Three transactions: a coinbase with two outputs, one that spends the    *)
(* first of them, and one that spends the other and the second's output.   *)
(***************************************************************************)
EXTENDS TxStore

MCTx == {"base", "one", "two"}

MCNumOutputs == [t \in MCTx |-> IF t = "base" THEN 2 ELSE 1]

MCInputs == [t \in MCTx |->
    CASE t = "base" -> <<Coinbase>>
      [] t = "one" -> <<[tx |-> "base", n |-> 0]>>
      [] t = "two" -> <<[tx |-> "base", n |-> 1], [tx |-> "one", n |-> 0]>>]
=============================================================================
