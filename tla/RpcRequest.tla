----------------------------- MODULE RpcRequest -----------------------------
(***************************************************************************)
(* The request of a command: CFidRpcWrap::switchParams() (wrap.cpp) splits *)
(* it into words, RPCConvertValues() (rpcclient.cpp) decides which         *)
(* parameters are JSON and which are strings, JSONRPCRequest()             *)
(* (rpcprotocol.cpp) puts the object together.  As a job: a command to the *)
(* request, which is read as the daemon would.                             *)
(***************************************************************************)
EXTENDS Job, JsonWriter

CONSTANT NumberOf   \* the integer a word spells, for the words that do

ASSUME NumberAssumption ==
    /\ DOMAIN NumberOf \subseteq Names /\ "1" \in DOMAIN NumberOf
    /\ \A w \in DOMAIN NumberOf : NumberOf[w] \in Numbers

Methods == {"getblockcount", "getblockbynumber", "gettransaction"}

ASSUME NamesAssumption == Methods \cup {"method", "params", "id"} \subseteq Names

\* vRPCConvertParams: the parameters of each method that are JSON.
RPCConvertParams == [
    stop |-> {0}, getaddednodeinfo |-> {0}, sendtoaddress |-> {1}, settxfee |-> {0},
    getreceivedbyaddress |-> {1}, getreceivedbyaccount |-> {1},
    listreceivedbyaddress |-> {0, 1}, listreceivedbyaccount |-> {0, 1},
    getbalance |-> {1}, getblock |-> {1}, getblockbynumber |-> {0, 1}, getblockhash |-> {0},
    move |-> {2, 3}, sendfrom |-> {2, 3}, listtransactions |-> {1, 2}, listaccounts |-> {0},
    walletpassphrase |-> {1, 2}, getblocktemplate |-> {0}, listsinceblock |-> {1},
    sendalert |-> {2, 3, 4, 5, 6}, sendmany |-> {1, 2}, reservebalance |-> {0, 1},
    addmultisigaddress |-> {0, 1}, listunspent |-> {0, 1, 2}, getrawtransaction |-> {1},
    createrawtransaction |-> {0, 1}, signrawtransaction |-> {1, 2}, keypoolrefill |-> {0},
    importprivkey |-> {2}, checkkernel |-> {0, 1}]

\* Mutant of Converts: a parameter is JSON when it can be.
ConvertsAny(method, idx) == TRUE

Converts(method, idx) ==
    method \in DOMAIN RPCConvertParams /\ idx \in RPCConvertParams[method]

\* A word that is JSON is a number: the program has no other to convert.
RPCConvertValues(method, words) ==
    [i \in DOMAIN words |->
        IF Converts(method, i - 1) /\ words[i] \in DOMAIN NumberOf
          THEN Root(Atom(NumberOf[words[i]])) ELSE Root(Atom(words[i]))]

\* The id of every request is 1.
JSONRPCRequest(method, params) ==
    Object(<<Member("method", Root(Atom(method))), Member("params", Array(params)),
             Member("id", Root(Atom(NumberOf["1"])))>>)

\* The text that is posted for a command.
RequestOf(command) ==
    Write(JSONRPCRequest(Head(command), RPCConvertValues(Head(command), Tail(command))))
-----------------------------------------------------------------------------

\* The commands the handler makes, of a height or of a hash: a hash can happen
\* to be all digits.
Commands ==
    {<<"getblockcount">>} \cup {<<"getblockbynumber", h>> : h \in DOMAIN NumberOf}
    \cup {<<"gettransaction", txid>> : txid \in Names}

RequestInit ==
    /\ ReaderInit
    /\ job = "request" /\ in \in Commands /\ pc = "request" /\ out = <<>>

MakeRequest == Step("request", RequestOf(in), "read") /\ UNCHANGED readerVars

ReadRequest ==
    /\ job = "request" /\ pc = "read"
    /\ Len(text) < Len(out) /\ Read(out[Len(text) + 1])
    /\ UNCHANGED jobVars

RequestNext == MakeRequest \/ ReadRequest

RequestSpec == RequestInit /\ [][RequestNext]_<<jobVars, readerVars>>

\* The daemon understands the request as the command it was made of: a height
\* arrives as a number, a transaction's hash as a string even when all of its
\* characters are digits (rpcclient.cpp:189-212).
RequestUnderstood ==
    job = "request" /\ pc = "read" =>
        LET params == FindValue(value, "params")
            Sent(w) == Root(Atom(IF Head(in) = "getblockbynumber" THEN NumberOf[w] ELSE w))
        IN /\ at # "thrown" /\ (at = "end" <=> text = out)
           /\ at = "end" =>
                /\ FindValue(value, "method") = Root(Atom(Head(in)))
                /\ params[<<>>].kids = Len(in) - 1
                /\ \A i \in 1..params[<<>>].kids : Part(params, <<i>>) = Sent(in[i + 1])
=============================================================================
