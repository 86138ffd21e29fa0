------------------------------ MODULE TxStore ------------------------------
(***************************************************************************)
(* CMysqlDb::insertTx() statement by statement (mysqldb/mysqldb.cpp): the  *)
(* row of the transaction, a row for each output, then for each input a    *)
(* row and the update that is to fill in the amount the input spends.      *)
(* MysqlDb and FidInventor take the detail rows in one step; here each     *)
(* statement is a step, so that it can fail alone and the process can die  *)
(* after any of them.                                                      *)
(*                                                                         *)
(* Only table blocktransaction has a unique key besides its sequence       *)
(* number (fidinventor.sql:37); the detail tables accept any row twice.    *)
(***************************************************************************)
EXTENDS Naturals, Sequences

CONSTANTS
    Tx,          \* transaction ids
    Inputs,      \* [Tx -> Seq(outpoint)]: the output each input spends
    NumOutputs,  \* [Tx -> Nat]
    Coinbase,    \* the outpoint of an input that spends nothing
    Garbage,     \* what CFidTxVin.value, never assigned, happens to hold
    DbErrors,    \* whether a sound statement may fail
    MaxCalls     \* bound: calls of insertTx()

Outpoint == [tx : Tx, n : Nat]

ASSUME InputsAssumption == Inputs \in [Tx -> Seq(Outpoint \cup {Coinbase})]
ASSUME OutputsAssumption == NumOutputs \in [Tx -> Nat]
ASSUME ValueAssumption == Coinbase \notin Outpoint /\ Garbage \notin Outpoint
ASSUME DbErrorsAssumption == DbErrors \in BOOLEAN
ASSUME MaxCallsAssumption == MaxCalls \in Nat

VARIABLES
    txRows,    \* table blocktransaction: the set of its tx_ids
    voutRows,  \* table blocktx_vout: its rows by sequence number
    vinRows,   \* table blocktx_vin: its rows by sequence number
    calls,     \* calls of insertTx() so far
    pc,        \* the statement insertTx() is about to execute
    tx,        \* the transaction of the call
    at         \* the loop index, from 1

tabs == <<txRows, voutRows, vinRows>>
vars == <<tabs, calls, pc, tx, at>>

VoutRow == [tx : Tx, n : Nat]
\* The amount a vin row shows is named by the output it was copied from.
VinRow == [tx : Tx, prev : Outpoint \cup {Coinbase}, amount : Outpoint \cup {Garbage}]

Init ==
    /\ txRows = {} /\ voutRows = <<>> /\ vinRows = <<>>
    /\ calls = 0 /\ pc = "idle" /\ at = 1
    /\ tx \in Tx

-----------------------------------------------------------------------------

\* insertDBTrans() hands over a transaction.  It can be one stored before: a
\* restart or a reorganisation leads to the same transaction again.
Call(t) ==
    /\ pc = "idle"
    /\ calls < MaxCalls
    /\ calls' = calls + 1
    /\ tx' = t
    /\ pc' = "row"
    /\ UNCHANGED <<tabs, at>>

\* Mutant of RowIsNew: the table without its unique key.
RowIsNewAlways(t) == TRUE

\* The unique key refuses a second row of the same transaction.
RowIsNew(t) == t \notin txRows

InsertRow ==
    /\ pc = "row"
    /\ RowIsNew(tx)
    /\ txRows' = txRows \cup {tx}
    /\ at' = 1
    /\ pc' = "vout"
    /\ UNCHANGED <<voutRows, vinRows, calls, tx>>

\* The exception skips both loops.  It can also come from count_rows(), when
\* the row is in already.
RowFails ==
    /\ pc = "row"
    /\ ~RowIsNew(tx) \/ DbErrors
    /\ txRows' \in {txRows} \cup IF DbErrors THEN {txRows \cup {tx}} ELSE {}
    /\ pc' = "idle"
    /\ UNCHANGED <<voutRows, vinRows, calls, tx, at>>

\* insertTxVout(): its failure is caught there and the loop goes on.
InsertVout ==
    /\ pc = "vout"
    /\ at <= NumOutputs[tx]
    /\ \/ voutRows' = Append(voutRows, [tx |-> tx, n |-> at - 1])
       \/ DbErrors /\ UNCHANGED voutRows
    /\ at' = at + 1
    /\ UNCHANGED <<txRows, vinRows, calls, pc, tx>>

\* Mutant of VoutsDone: the loop over vins starts one too early.
VoutsDoneEarly ==
    /\ pc = "vout"
    /\ at > NumOutputs[tx]
    /\ at' = 0
    /\ pc' = "vin"
    /\ UNCHANGED <<tabs, calls, tx>>

VoutsDone ==
    /\ pc = "vout"
    /\ at > NumOutputs[tx]
    /\ at' = 1
    /\ pc' = "vin"
    /\ UNCHANGED <<tabs, calls, tx>>

\* insertTxVin(): the row has whatever the unassigned amount holds.  It is
\* written without quotes: when it is not a number the statement is refused.
InsertVin ==
    /\ pc = "vin"
    /\ at <= Len(Inputs[tx])
    /\ vinRows' = Append(vinRows, [tx |-> tx, prev |-> Inputs[tx][at], amount |-> Garbage])
    /\ pc' = "update"
    /\ UNCHANGED <<txRows, voutRows, calls, tx, at>>

\* The exception skips the update; count_rows() throws with the row in.
VinFails ==
    /\ pc = "vin"
    /\ at <= Len(Inputs[tx])
    /\ \/ UNCHANGED vinRows
       \/ /\ DbErrors
          /\ vinRows' = Append(vinRows, [tx |-> tx, prev |-> Inputs[tx][at], amount |-> Garbage])
    /\ at' = at + 1
    /\ UNCHANGED <<txRows, voutRows, calls, pc, tx>>

\* Mutant of Stored: the select without its condition on bktx_voutn.
StoredAnyN(o) == o \in Outpoint /\ \E i \in DOMAIN voutRows : voutRows[i].tx = o.tx

\* queryBlockTxVoutByTxidAndN() finds the row of the output spent.
Stored(o) == \E i \in DOMAIN voutRows : voutRows[i] = o

\* Mutant of Updates: the rows that spend the output's transaction.
UpdatesBySpender(row, t, o) == row.prev \in Outpoint /\ row.prev.tx = o.tx

\* The rows the update of transaction t's input o changes: all of t's.
Updates(row, t, o) == row.tx = t

\* updateBlockTxVoutByTxidAndN(): nothing when the output has no row.
Update ==
    /\ pc = "update"
    /\ LET o == Inputs[tx][at] IN
       \/ /\ Stored(o)
          /\ vinRows' = [i \in DOMAIN vinRows |->
                IF Updates(vinRows[i], tx, o)
                  THEN [vinRows[i] EXCEPT !.amount = o]
                  ELSE vinRows[i]]
       \/ /\ ~Stored(o) \/ DbErrors
          /\ UNCHANGED vinRows
    /\ at' = at + 1
    /\ pc' = "vin"
    /\ UNCHANGED <<txRows, voutRows, calls, tx>>

Done ==
    /\ pc = "vin"
    /\ at > Len(Inputs[tx])
    /\ pc' = "idle"
    /\ UNCHANGED <<tabs, calls, tx, at>>

\* The process dies; every statement executed so far is committed.
Crash ==
    /\ pc # "idle"
    /\ pc' = "idle"
    /\ UNCHANGED <<tabs, calls, tx, at>>

Next ==
    \/ \E t \in Tx : Call(t)
    \/ InsertRow \/ RowFails
    \/ InsertVout \/ VoutsDone
    \/ InsertVin \/ VinFails \/ Update
    \/ Done \/ Crash

Spec == Init /\ [][Next]_vars

-----------------------------------------------------------------------------

TypeOK ==
    /\ txRows \subseteq Tx
    /\ voutRows \in Seq(VoutRow)
    /\ vinRows \in Seq(VinRow)
    /\ calls \in 0..MaxCalls
    /\ pc \in {"idle", "row", "vout", "vin", "update"}
    /\ tx \in Tx
    /\ at \in Nat \ {0}

\* The detail tables have no unique key, and still no output or input of a
\* transaction gets a second row, however often the transaction comes again:
\* the row that is refused first keeps insertTx() from its loops.
DetailsOnce ==
    /\ \A i, j \in DOMAIN voutRows : voutRows[i] = voutRows[j] => i = j
    /\ \A i, j \in DOMAIN vinRows :
         vinRows[i].tx = vinRows[j].tx /\ vinRows[i].prev = vinRows[j].prev => i = j

\* An input shows an unassigned amount or the amount of an output that one of
\* its own transaction's inputs spends: an update never reaches the rows of
\* another transaction (mysqldb.cpp:149-151).
AmountFromOwnTx ==
    \A i \in DOMAIN vinRows :
        vinRows[i].amount = Garbage
        \/ \E k \in DOMAIN Inputs[vinRows[i].tx] :
             vinRows[i].amount = Inputs[vinRows[i].tx][k]

\* An amount is only taken from an output that was stored before, so a single
\* input shows the amount of the output it spends once it shows one at all.
SingleInputRight ==
    \A i \in DOMAIN vinRows :
        Len(Inputs[vinRows[i].tx]) = 1 /\ vinRows[i].amount # Garbage
          => /\ vinRows[i].amount = vinRows[i].prev
             /\ \E k \in DOMAIN voutRows : voutRows[k] = vinRows[i].amount

\* mysqldb.cpp:237 and :249, fidinventor.sql:100: the amount of an input is
\* that of the output it names ("txid and vout get address and amount").
AmountOfPrevout ==
    \A i \in DOMAIN vinRows :
        vinRows[i].amount \in {Garbage, vinRows[i].prev}
=============================================================================
