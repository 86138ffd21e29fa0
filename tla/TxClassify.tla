----------------------------- MODULE TxClassify -----------------------------
(***************************************************************************)
(* How CFidHandler::switchTx() (wrap.cpp) turns the result of              *)
(* gettransaction into a CFidTransaction and types it: 'W' proof of work,  *)
(* 'S' proof of stake, 'T' transfer.                                       *)
(***************************************************************************)
EXTENDS JsonValue

\* An element of vin after its round of the first loop: only the first input
\* is asked for a coinbase, and a coinbase that is not there leaves "".
TxVin(i, obj) ==
    LET coinbase == JsonString(obj, "coinbase", 0)
    IN IF i = 1 /\ coinbase # 0
         THEN [type |-> "W", txid |-> coinbase, sequence |-> JsonInt64(obj, "sequence")]
         ELSE [type |-> "S", txid |-> JsonString(obj, "txid", 0), vout |-> JsonInt(obj, "vout"),
               sequence |-> JsonInt64(obj, "sequence")]

\* An element of vout after its round of the second loop: the first output
\* is typed by being empty, the second by not being so.
TxVout(j, obj) ==
    LET amount == JsonDouble(obj, "value")
    IN [type |-> IF j = 1 /\ amount = 0 THEN "W" ELSE IF j = 2 /\ amount # 0 THEN "S" ELSE "T",
        value |-> amount, n |-> JsonInt(obj, "n")]

\* Mutant of TxType: the first test without the type of the first input.
TxTypeByOutput(vins, vouts) ==
    IF Len(vins) > 0 /\ Len(vouts) >= 2 /\ vouts[1].value = 0 THEN "S"
    ELSE IF Len(vins) = 1 /\ vins[1].type = "W" /\ Len(vouts) >= 1 THEN "W"
    ELSE "S"

\* The last else was meant for 'T': see OrdinaryIsTransfer.
TxType(vins, vouts) ==
    IF Len(vins) > 0 /\ vins[1].type # "W" /\ Len(vouts) >= 2 /\ vouts[1].value = 0 THEN "S"
    ELSE IF Len(vins) = 1 /\ vins[1].type = "W" /\ Len(vouts) >= 1 THEN "W"
    ELSE "S"

\* The fields that are copied.
TxFields(obj) ==
    [n \in {"txid", "blockhash", "amount", "version",
            "time", "locktime", "confirmations", "timereceived"} |->
        CASE n \in {"txid", "blockhash"} -> JsonString(obj, n, 0)
          [] n = "amount" -> JsonDouble(obj, n)
          [] n = "version" -> JsonInt(obj, n)
          [] OTHER -> JsonInt64(obj, n)]

\* switchTx() for a result that is an object.
SwitchTx(obj) ==
    LET vins == [i \in DOMAIN JsonKids(obj, "vin") |-> TxVin(i, JsonKids(obj, "vin")[i])]
        vouts == [j \in DOMAIN JsonKids(obj, "vout") |-> TxVout(j, JsonKids(obj, "vout")[j])]
    IN [type |-> TxType(vins, vouts), fields |-> TxFields(obj), vins |-> vins, vouts |-> vouts]
=============================================================================
