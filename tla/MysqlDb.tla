------------------------------ MODULE MysqlDb ------------------------------
(***************************************************************************)
(* CMysqlDb (mysqldb/mysqldb.cpp) and the tables of fidinventor.sql: one   *)
(* connection shared by the whole process, opened once, and the rows the   *)
(* insert statements leave behind.  A statement that fails is caught by    *)
(* the class and reported by a return code that no caller looks at.        *)
(*                                                                         *)
(* A transaction's vout and vin rows are one set of transactions here:     *)
(* those whose detail rows are all there.                                  *)
(***************************************************************************)
EXTENDS Node, FiniteSets

VARIABLES
    blockTab,  \* rows of table block: unique key bk_hash
    txTab,     \* rows of table blocktransaction: unique key tx_id
    detTab,    \* transactions with all their rows in blocktx_vout and _vin
    conn       \* m_con and inited: "none" until initDb succeeded, then the
               \* login it used, or "lost" once the server dropped it

tables == <<blockTab, txTab, detTab>>
dbVars == <<blockTab, txTab, detTab, conn>>

Logins == {"config", "builtin"}

DbInit ==
    /\ blockTab = {} /\ txTab = {} /\ detTab = {}
    /\ conn = "none"

-----------------------------------------------------------------------------

\* Mutant of InitDb: without the inited flag every call connects again.
InitDbAgain(login) == conn' = login

\* initDb(): with the inited flag up it returns at once, even when the
\* connection has been lost since.
InitDb(login) == conn' = IF conn = "none" THEN login ELSE conn

\* The statements that can succeed on this connection, and those that can
\* fail although nothing is wrong with their row.
CanExecute == conn \in Logins
MayFail == conn \notin Logins \/ "dbError" \in Faults

\* insertBlock(): a second row with the same hash is refused.
InsertBlockRow(b) ==
    /\ \/ /\ CanExecute
          /\ blockTab' = blockTab \cup {b}
       \/ /\ MayFail
          /\ UNCHANGED blockTab
    /\ UNCHANGED <<txTab, detTab>>

\* insertTx(), up to its first query.execute(): the details follow only
\* when the transaction's own row was new and nothing threw.
TxRowInserted(t) ==
    /\ CanExecute
    /\ t \notin txTab
    /\ txTab' = txTab \cup {t}
    /\ UNCHANGED <<blockTab, detTab>>

TxRowRefused(t) ==
    /\ t \in txTab \/ MayFail
    /\ UNCHANGED tables

\* The row went in and count_rows(), in the same try block, threw.
TxRowCountFailed(t) ==
    /\ CanExecute /\ MayFail
    /\ t \notin txTab
    /\ txTab' = txTab \cup {t}
    /\ UNCHANGED <<blockTab, detTab>>

\* The loops over vouts and vins: each row's failure is caught by itself.
InsertDetailRows(t) ==
    /\ \/ /\ CanExecute
          /\ detTab' = detTab \cup {t}
       \/ /\ MayFail
          /\ UNCHANGED detTab
    /\ UNCHANGED <<blockTab, txTab>>

\* queryBlockCount()
BlockCount == Cardinality(blockTab)

DbTypeOK ==
    /\ blockTab \subseteq Block
    /\ txTab \subseteq Tx
    /\ detTab \subseteq Tx
    /\ conn \in Logins \cup {"none", "lost"}
=============================================================================
