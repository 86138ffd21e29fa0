---------------------------- MODULE TxStoreProofs ----------------------------
(***************************************************************************)
(* Theorems about insertTx(), for every set of transactions, any failing   *)
(* statement, any number of calls and a death after any statement.         *)
(***************************************************************************)
EXTENDS TxStore, TLAPS

Rows == {"vout", "vin", "update"}

\* insertTx() is at its loops only for a transaction whose row it inserted.
LoopInv ==
    /\ pc \in Rows => tx \in txRows
    /\ pc = "update" => at \in DOMAIN Inputs[tx]

\* The rows of the outputs: of stored transactions; of the one at hand those
\* before the loop index.
VoutInv ==
    \A i \in DOMAIN voutRows :
        /\ voutRows[i].tx \in txRows
        /\ pc = "vout" /\ voutRows[i].tx = tx => voutRows[i].n < at - 1

\* Input k of transaction t has been handed to insertTxVin().
Reached(t, k) ==
    /\ t \in txRows
    /\ t = tx => /\ pc # "vout"
                 /\ pc = "vin" => k < at
                 /\ pc = "update" => k <= at

\* The rows of the inputs: each is of an input that has been reached.
VinInv ==
    \A i \in DOMAIN vinRows :
        \E k \in DOMAIN Inputs[vinRows[i].tx] : Reached(vinRows[i].tx, k) /\ vinRows[i].prev = Inputs[vinRows[i].tx][k]

StoreInv == TypeOK /\ LoopInv /\ VoutInv /\ VinInv

\* The row insertTxVin() writes for the input at hand.
NewVin == [tx |-> tx, prev |-> Inputs[tx][at], amount |-> Garbage]

LEMMA InputType ==
  ASSUME TypeOK, at \in DOMAIN Inputs[tx]
  PROVE  Inputs[tx][at] \in Outpoint \cup {Coinbase} /\ NewVin \in VinRow
<1>1. Inputs[tx] \in Seq(Outpoint \cup {Coinbase}) /\ tx \in Tx
  BY InputsAssumption DEF TypeOK
<1>2. Inputs[tx][at] \in Outpoint \cup {Coinbase}
  BY <1>1
<1> QED
  BY <1>1, <1>2 DEF NewVin, VinRow

LEMMA LoopIndex ==
  ASSUME TypeOK
  PROVE  /\ \A t \in Tx : Len(Inputs[t]) \in Nat /\ DOMAIN Inputs[t] = 1..Len(Inputs[t])
         /\ at \in Nat /\ at >= 1 /\ NumOutputs[tx] \in Nat
<1>1. \A t \in Tx : Inputs[t] \in Seq(Outpoint \cup {Coinbase})
  BY InputsAssumption
<1> QED
  BY <1>1, OutputsAssumption DEF TypeOK

\* The three ways a step changes the rows of the inputs.
Appended == at \in DOMAIN Inputs[tx] /\ vinRows' = Append(vinRows, NewVin)

LEMMA VinSteps ==
  ASSUME TypeOK, LoopInv, [Next]_vars
  PROVE  vinRows' = vinRows \/ ((InsertVin \/ VinFails) /\ Appended) \/ Update
<1>1. CASE InsertVin \/ VinFails
  BY <1>1, LoopIndex DEF InsertVin, VinFails, Appended, NewVin, TypeOK
<1>2. CASE ~InsertVin /\ ~VinFails /\ ~Update
  BY <1>2 DEF Next, Call, InsertRow, RowFails, InsertVout, VoutsDone, Done, Crash, vars, tabs
<1> QED
  BY <1>1, <1>2

LEMMA UpdateRows ==
  ASSUME TypeOK, LoopInv, Update
  PROVE  /\ vinRows' \in Seq(VinRow) /\ DOMAIN vinRows' = DOMAIN vinRows
         /\ \A i \in DOMAIN vinRows :
              /\ vinRows'[i].tx = vinRows[i].tx /\ vinRows'[i].prev = vinRows[i].prev
              /\ \/ vinRows'[i].amount = vinRows[i].amount
                 \/ vinRows[i].tx = tx /\ vinRows'[i].amount = Inputs[tx][at] /\ Stored(Inputs[tx][at])
<1> DEFINE o == Inputs[tx][at]
           New(i) == IF Updates(vinRows[i], tx, o) THEN [vinRows[i] EXCEPT !.amount = o] ELSE vinRows[i]
<1>1. CASE Stored(o) /\ vinRows' = [i \in DOMAIN vinRows |-> New(i)]
  <2>1. o \in Outpoint
    <3>1. PICK k \in DOMAIN voutRows : voutRows[k] = o
      BY <1>1 DEF Stored
    <3>2. voutRows[k] \in VoutRow
      BY DEF TypeOK
    <3> QED
      BY <3>1, <3>2 DEF VoutRow, Outpoint
  <2>2. ASSUME NEW i \in DOMAIN vinRows
        PROVE  /\ New(i) \in VinRow /\ New(i).tx = vinRows[i].tx /\ New(i).prev = vinRows[i].prev
               /\ New(i).amount = vinRows[i].amount \/ (vinRows[i].tx = tx /\ New(i).amount = o)
    <3>1. vinRows[i] \in VinRow
      BY DEF TypeOK
    <3> QED
      BY <2>1, <3>1 DEF VinRow, Updates
  <2> HIDE DEF New
  <2>3. vinRows' \in Seq(VinRow) /\ DOMAIN vinRows' = DOMAIN vinRows
    BY <1>1, <2>2 DEF TypeOK
  <2> QED
    BY <1>1, <2>2, <2>3
<1>2. CASE vinRows' = vinRows
  BY <1>2 DEF TypeOK
<1> QED
  BY <1>1, <1>2 DEF Update

LEMMA InitStoreInv == Init => StoreInv
BY MaxCallsAssumption DEF Init, StoreInv, TypeOK, LoopInv, VoutInv, VinInv, Rows

LEMMA StepTypeOK ==
  ASSUME TypeOK, LoopInv, [Next]_vars
  PROVE  TypeOK'
<1>1. vinRows' \in Seq(VinRow)
  <2>1. CASE Appended
    BY <2>1, InputType DEF Appended, TypeOK
  <2> QED
    BY <2>1, VinSteps, UpdateRows DEF TypeOK
<1>2. voutRows' \in Seq(VoutRow)
  <2>1. CASE InsertVout
    <3>1. [tx |-> tx, n |-> at - 1] \in VoutRow
      BY LoopIndex DEF TypeOK, VoutRow
    <3> QED
      BY <2>1, <3>1 DEF InsertVout, TypeOK
  <2> QED
    BY <2>1 DEF Next, Call, InsertRow, RowFails, VoutsDone, InsertVin, VinFails, Update, Done, Crash, vars, tabs, TypeOK
<1>3. txRows' \subseteq Tx /\ tx' \in Tx
  BY DEF Next, Call, InsertRow, RowFails, InsertVout, VoutsDone, InsertVin, VinFails, Update, Done, Crash, vars, tabs, TypeOK
<1>4. calls' \in 0..MaxCalls /\ pc' \in {"idle", "row", "vout", "vin", "update"} /\ at' \in Nat \ {0}
  BY MaxCallsAssumption
     DEF Next, Call, InsertRow, RowFails, InsertVout, VoutsDone, InsertVin, VinFails, Update, Done, Crash, vars, tabs, TypeOK
<1> QED
  BY <1>1, <1>2, <1>3, <1>4 DEF TypeOK

LEMMA StepLoopInv ==
  ASSUME TypeOK, LoopInv, [Next]_vars
  PROVE  LoopInv'
BY LoopIndex DEF LoopInv, Rows, TypeOK, Next, Call, InsertRow, RowFails, InsertVout, VoutsDone, InsertVin, VinFails,
                 Update, Done, Crash, vars, tabs

\* What one step adds to the rows of the outputs.
LEMMA VoutSteps ==
  ASSUME TypeOK, [Next]_vars
  PROVE  voutRows' = voutRows \/ (InsertVout /\ voutRows' = Append(voutRows, [tx |-> tx, n |-> at - 1]))
BY DEF Next, Call, InsertRow, RowFails, InsertVout, VoutsDone, InsertVin, VinFails, Update, Done, Crash, vars, tabs

\* The transaction at hand, its loop and its row, as a step leaves them.
LEMMA CallSteps ==
  ASSUME TypeOK, [Next]_vars
  PROVE  /\ txRows \subseteq txRows'
         /\ pc' = "vout" => tx' = tx /\ (InsertRow \/ (pc = "vout" /\ at' >= at))
         /\ pc' \in Rows => tx' = tx
         /\ InsertVout => pc' = "vout" /\ at' = at + 1
BY LoopIndex DEF Rows, Next, Call, InsertRow, RowFails, InsertVout, VoutsDone, InsertVin, VinFails, Update, Done, Crash,
                 vars, tabs

LEMMA StepVoutInv ==
  ASSUME StoreInv, [Next]_vars
  PROVE  VoutInv'
<1> USE DEF StoreInv
<1>1. ASSUME NEW i \in DOMAIN voutRows
      PROVE  voutRows[i].tx \in txRows' /\ (pc' = "vout" /\ voutRows[i].tx = tx' => voutRows[i].n < at' - 1)
  <2>1. voutRows[i].tx \in txRows'
    BY CallSteps DEF VoutInv
  <2>2. ASSUME pc' = "vout", voutRows[i].tx = tx'
        PROVE  voutRows[i].n < at' - 1
    <3>1. ~InsertRow
      BY <2>2, CallSteps DEF VoutInv, InsertRow, RowIsNew
    <3>2. voutRows[i].n < at - 1 /\ at' >= at
      BY <2>2, <3>1, CallSteps DEF VoutInv
    <3>3. voutRows[i].n \in Nat /\ at \in Nat /\ at' \in Nat
      <4>1. voutRows[i] \in VoutRow
        BY DEF TypeOK
      <4>2. TypeOK'
        BY StepTypeOK
      <4> QED
        BY <4>1, <4>2 DEF TypeOK, VoutRow
    <3> QED
      BY <3>2, <3>3
  <2> QED
    BY <2>1, <2>2
<1>2. CASE voutRows' = voutRows
  BY <1>1, <1>2 DEF VoutInv
<1>3. CASE InsertVout /\ voutRows' = Append(voutRows, [tx |-> tx, n |-> at - 1])
  <2>1. tx \in txRows' /\ at' = at + 1 /\ at \in Nat
    BY <1>3, CallSteps, LoopIndex DEF InsertVout, LoopInv, Rows
  <2>2. ASSUME NEW i \in DOMAIN voutRows'
        PROVE  (i \in DOMAIN voutRows /\ voutRows'[i] = voutRows[i]) \/ voutRows'[i] = [tx |-> tx, n |-> at - 1]
    BY <1>3 DEF TypeOK
  <2> QED
    BY <1>1, <2>1, <2>2 DEF VoutInv
<1> QED
  BY <1>2, <1>3, VoutSteps

\* What has been reached stays so.
LEMMA StaysReached ==
  ASSUME StoreInv, [Next]_vars, NEW t \in Tx, NEW k \in DOMAIN Inputs[t], Reached(t, k)
  PROVE  Reached(t, k)'
<1> USE DEF StoreInv, Reached, Rows
<1>1. k \in Nat /\ at \in Nat /\ (t = tx => k <= Len(Inputs[tx]))
  BY LoopIndex DEF TypeOK
<1>2. CASE InsertRow \/ (\E s \in Tx : Call(s)) \/ RowFails \/ Done \/ Crash \/ UNCHANGED vars
  BY <1>2 DEF InsertRow, RowIsNew, Call, RowFails, Done, Crash, vars, tabs
<1>3. CASE InsertVout \/ VoutsDone
  BY <1>1, <1>3 DEF InsertVout, VoutsDone, tabs
<1>4. CASE InsertVin \/ VinFails \/ Update
  BY <1>1, <1>4 DEF InsertVin, VinFails, Update
<1> QED
  BY <1>2, <1>3, <1>4 DEF Next

LEMMA StepVinInv ==
  ASSUME StoreInv, [Next]_vars
  PROVE  VinInv'
<1> USE DEF StoreInv
<1>1. ASSUME NEW i \in DOMAIN vinRows, NEW t, t = vinRows[i].tx
      PROVE  \E k \in DOMAIN Inputs[t] : Reached(t, k)' /\ vinRows[i].prev = Inputs[t][k]
  <2>1. vinRows[i] \in VinRow
    BY DEF TypeOK
  <2>2. t \in Tx
    BY <1>1, <2>1 DEF VinRow
  <2>3. PICK k \in DOMAIN Inputs[t] : Reached(t, k) /\ vinRows[i].prev = Inputs[t][k]
    BY <1>1 DEF VinInv
  <2>4. Reached(t, k)'
    BY <2>2, <2>3, StaysReached
  <2> QED
    BY <2>3, <2>4
<1>2. CASE vinRows' = vinRows
  BY <1>1, <1>2 DEF VinInv
<1>3. CASE (InsertVin \/ VinFails) /\ Appended
  <2>1. ASSUME NEW t, NEW k, t = tx, k = at
        PROVE  k \in DOMAIN Inputs[t] /\ Reached(t, k)'
    <3>1. tx \in txRows /\ at \in Nat /\ tx' = tx /\ txRows' = txRows
      BY <1>3, LoopIndex DEF InsertVin, VinFails, LoopInv, Rows
    <3>2. (pc' = "update" /\ at' = at) \/ (pc' = "vin" /\ at' = at + 1)
      BY <1>3 DEF InsertVin, VinFails
    <3> QED
      BY <1>3, <2>1, <3>1, <3>2 DEF Reached, Appended
  <2>2. ASSUME NEW i \in DOMAIN vinRows'
        PROVE  (i \in DOMAIN vinRows /\ vinRows'[i] = vinRows[i]) \/ vinRows'[i] = NewVin
    BY <1>3 DEF TypeOK, Appended
  <2>3. UNCHANGED tx
    BY <1>3 DEF InsertVin, VinFails
  <2> QED
    BY <1>1, <2>1, <2>2, <2>3 DEF VinInv, NewVin
<1>4. CASE Update
  BY <1>1, <1>4, UpdateRows DEF VinInv
<1> QED
  BY <1>2, <1>3, <1>4, VinSteps

LEMMA StepStoreInv == StoreInv /\ [Next]_vars => StoreInv'
BY StepTypeOK, StepLoopInv, StepVoutInv, StepVinInv DEF StoreInv

\* Type correctness of the statements of insertTx().
THEOREM StoreTypeCorrect == Spec => []TypeOK
<1>1. StoreInv => TypeOK
  BY DEF StoreInv
<1> QED
  BY <1>1, InitStoreInv, StepStoreInv, PTL DEF Spec

-----------------------------------------------------------------------------
(* No row twice *)

\* A transaction spends an output once.
DistinctInputs ==
    \A t \in Tx : \A j, k \in DOMAIN Inputs[t] : Inputs[t][j] = Inputs[t][k] => j = k

\* A new row of an output is of one no row was of.
LEMMA NewVoutIsNew ==
  ASSUME StoreInv, InsertVout, NEW i \in DOMAIN voutRows
  PROVE  voutRows[i] # [tx |-> tx, n |-> at - 1]
<1>1. voutRows[i] \in VoutRow /\ at \in Nat
  BY LoopIndex DEF StoreInv, TypeOK
<1>2. voutRows[i].tx = tx => voutRows[i].n < at - 1
  BY DEF StoreInv, VoutInv, InsertVout
<1> QED
  BY <1>1, <1>2 DEF VoutRow

\* A new row of an input is of one no row was of.
LEMMA NewVinIsNew ==
  ASSUME StoreInv, DistinctInputs, InsertVin \/ VinFails, Appended, NEW i \in DOMAIN vinRows
  PROVE  ~(vinRows[i].tx = tx /\ vinRows[i].prev = Inputs[tx][at])
<1> SUFFICES ASSUME vinRows[i].tx = tx, vinRows[i].prev = Inputs[tx][at] PROVE FALSE
  OBVIOUS
<1>1. PICK k \in DOMAIN Inputs[tx] : Reached(tx, k) /\ Inputs[tx][at] = Inputs[tx][k]
  BY DEF StoreInv, VinInv
<1>2. k < at
  BY <1>1 DEF Reached, InsertVin, VinFails
<1>3. k = at
  BY <1>1 DEF DistinctInputs, Appended, StoreInv, TypeOK
<1> QED
  BY <1>2, <1>3, LoopIndex DEF StoreInv

LEMMA StepDetailsOnce ==
  ASSUME StoreInv, DistinctInputs, DetailsOnce, [Next]_vars
  PROVE  DetailsOnce'
<1> USE DEF StoreInv
<1>1. \A i, j \in DOMAIN voutRows' : voutRows'[i] = voutRows'[j] => i = j
  <2>1. CASE voutRows' = voutRows
    BY <2>1 DEF DetailsOnce
  <2>2. CASE InsertVout /\ voutRows' = Append(voutRows, [tx |-> tx, n |-> at - 1])
    <3>1. ASSUME NEW i \in DOMAIN voutRows'
          PROVE  \/ i \in DOMAIN voutRows /\ voutRows'[i] = voutRows[i]
                 \/ i = Len(voutRows) + 1 /\ voutRows'[i] = [tx |-> tx, n |-> at - 1]
      BY <2>2 DEF TypeOK
    <3> QED
      BY <2>2, <3>1, NewVoutIsNew DEF DetailsOnce
  <2> QED
    BY <2>1, <2>2, VoutSteps
<1>2. \A i, j \in DOMAIN vinRows' :
        vinRows'[i].tx = vinRows'[j].tx /\ vinRows'[i].prev = vinRows'[j].prev => i = j
  <2>1. CASE vinRows' = vinRows
    BY <2>1 DEF DetailsOnce
  <2>2. CASE (InsertVin \/ VinFails) /\ Appended
    <3>1. ASSUME NEW i \in DOMAIN vinRows'
          PROVE  \/ i \in DOMAIN vinRows /\ vinRows'[i] = vinRows[i]
                 \/ i = Len(vinRows) + 1 /\ vinRows'[i] = NewVin
      BY <2>2 DEF TypeOK, Appended
    <3>2. NewVin.tx = tx /\ NewVin.prev = Inputs[tx][at]
      BY DEF NewVin
    <3> QED
      BY <2>2, <3>1, <3>2, NewVinIsNew DEF DetailsOnce
  <2>3. CASE Update
    BY <2>3, UpdateRows DEF DetailsOnce
  <2> QED
    BY <2>1, <2>2, <2>3, VinSteps
<1> QED
  BY <1>1, <1>2 DEF DetailsOnce

\* No output and no input of a transaction gets a second row, although nothing
\* but the key of the transaction's own row guards the detail tables.
THEOREM NoDetailTwice ==
  ASSUME DistinctInputs
  PROVE  Spec => []DetailsOnce
<1>1. Init => DetailsOnce
  BY DEF Init, DetailsOnce
<1> QED
  BY <1>1, InitStoreInv, StepStoreInv, StepDetailsOnce, PTL DEF Spec

-----------------------------------------------------------------------------
(* Where an amount comes from *)

\* An amount is one of the outputs that the inputs of its transaction spend.
THEOREM AmountsStayInTx == Spec => []AmountFromOwnTx
<1>1. Init => AmountFromOwnTx
  BY DEF Init, AmountFromOwnTx
<1>2. StoreInv /\ AmountFromOwnTx /\ [Next]_vars => AmountFromOwnTx'
  <2> SUFFICES ASSUME StoreInv, AmountFromOwnTx, [Next]_vars PROVE AmountFromOwnTx'
    OBVIOUS
  <2> USE DEF StoreInv
  <2>1. CASE vinRows' = vinRows
    BY <2>1 DEF AmountFromOwnTx
  <2>2. CASE Appended
    <3>1. ASSUME NEW i \in DOMAIN vinRows'
          PROVE  (i \in DOMAIN vinRows /\ vinRows'[i] = vinRows[i]) \/ vinRows'[i].amount = Garbage
      BY <2>2 DEF TypeOK, Appended, NewVin
    <3> QED
      BY <3>1 DEF AmountFromOwnTx
  <2>3. CASE Update
    <3>1. at \in DOMAIN Inputs[tx]
      BY <2>3 DEF Update, LoopInv
    <3> QED
      BY <2>3, <3>1, UpdateRows DEF AmountFromOwnTx
  <2> QED
    BY <2>1, <2>2, <2>3, VinSteps
<1> QED
  BY <1>1, <1>2, InitStoreInv, StepStoreInv, PTL DEF Spec

\* A row of an output stays.
LEMMA StaysStored ==
  ASSUME TypeOK, [Next]_vars, NEW o, Stored(o)
  PROVE  Stored(o)'
<1>1. PICK i \in DOMAIN voutRows : voutRows[i] = o
  BY DEF Stored
<1>2. CASE voutRows' = voutRows
  BY <1>2 DEF Stored
<1>3. CASE voutRows' = Append(voutRows, [tx |-> tx, n |-> at - 1])
  <2>1. [tx |-> tx, n |-> at - 1] \in VoutRow
    BY LoopIndex DEF TypeOK, VoutRow
  <2>2. i \in DOMAIN voutRows' /\ voutRows'[i] = voutRows[i]
    BY <1>3, <2>1 DEF TypeOK
  <2> QED
    BY <1>1, <2>2 DEF Stored
<1> QED
  BY <1>2, <1>3, VoutSteps

\* The only input of a transaction shows the amount of the output it spends, and
\* that of an output whose row is there.
THEOREM SingleInputsRight == Spec => []SingleInputRight
<1>1. Init => SingleInputRight
  BY DEF Init, SingleInputRight
<1>2. StoreInv /\ SingleInputRight /\ [Next]_vars => SingleInputRight'
  <2> SUFFICES ASSUME StoreInv, SingleInputRight, [Next]_vars PROVE SingleInputRight'
    OBVIOUS
  <2> USE DEF StoreInv
  <2>1. ASSUME NEW i \in DOMAIN vinRows, Len(Inputs[vinRows[i].tx]) = 1, vinRows[i].amount # Garbage
        PROVE  vinRows[i].amount = vinRows[i].prev /\ \E k \in DOMAIN voutRows' : voutRows'[k] = vinRows[i].amount
    <3>1. Stored(vinRows[i].amount) /\ vinRows[i].amount = vinRows[i].prev
      BY <2>1 DEF SingleInputRight, Stored
    <3>2. ASSUME NEW o, o = vinRows[i].amount
          PROVE  Stored(o)'
      BY <3>1, <3>2, StaysStored
    <3> QED
      BY <3>1, <3>2 DEF Stored
  <2>2. CASE vinRows' = vinRows
    BY <2>1, <2>2 DEF SingleInputRight
  <2>3. CASE Appended
    <3>1. ASSUME NEW i \in DOMAIN vinRows'
          PROVE  (i \in DOMAIN vinRows /\ vinRows'[i] = vinRows[i]) \/ vinRows'[i].amount = Garbage
      BY <2>3 DEF TypeOK, Appended, NewVin
    <3> QED
      BY <2>1, <3>1 DEF SingleInputRight
  <2>4. CASE Update
    <3>1. voutRows' = voutRows /\ at \in DOMAIN Inputs[tx] /\ tx \in Tx
      BY <2>4 DEF Update, LoopInv, TypeOK
    <3>2. ASSUME NEW i \in DOMAIN vinRows, vinRows[i].tx = tx, Len(Inputs[tx]) = 1
          PROVE  vinRows[i].prev = Inputs[tx][at]
      <4>1. PICK k \in DOMAIN Inputs[tx] : vinRows[i].prev = Inputs[tx][k]
        BY <3>2 DEF VinInv
      <4>2. k = 1 /\ at = 1
        BY <3>1, <3>2, <4>1, LoopIndex
      <4> QED
        BY <4>1, <4>2
    <3>3. ASSUME NEW i \in DOMAIN vinRows', Len(Inputs[vinRows'[i].tx]) = 1, vinRows'[i].amount # Garbage
          PROVE  vinRows'[i].amount = vinRows'[i].prev /\ \E k \in DOMAIN voutRows' : voutRows'[k] = vinRows'[i].amount
      <4>1. /\ i \in DOMAIN vinRows /\ vinRows'[i].tx = vinRows[i].tx /\ vinRows'[i].prev = vinRows[i].prev
            /\ \/ vinRows'[i].amount = vinRows[i].amount
               \/ vinRows[i].tx = tx /\ vinRows'[i].amount = Inputs[tx][at] /\ Stored(Inputs[tx][at])
        BY <2>4, <3>3, UpdateRows
      <4>2. CASE vinRows'[i].amount = vinRows[i].amount
        BY <2>1, <3>3, <4>1, <4>2
      <4>3. CASE vinRows[i].tx = tx /\ vinRows'[i].amount = Inputs[tx][at] /\ Stored(Inputs[tx][at])
        BY <3>1, <3>2, <3>3, <4>1, <4>3 DEF Stored
      <4> QED
        BY <4>1, <4>2, <4>3
    <3> QED
      BY <3>3 DEF SingleInputRight
  <2> QED
    BY <2>2, <2>3, <2>4, VinSteps
<1> QED
  BY <1>1, <1>2, InitStoreInv, StepStoreInv, PTL DEF Spec
=============================================================================
