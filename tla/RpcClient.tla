----------------------------- MODULE RpcClient -----------------------------
(***************************************************************************)
(* One call of CFidRpcWrap::callRPC() (wrap.cpp) and under it CallRPC()    *)
(* (rpcclient.cpp) and the HTTP reader (rpcprotocol.cpp), against a server *)
(* that may refuse, answer with any status and any length, and close at    *)
(* any point.  A call makes its own socket: nothing is left for the next.  *)
(*                                                                         *)
(* The reply is a sequence of items: the status line, header lines, the    *)
(* empty line, then the tokens of a JSON text.  A length counts tokens.    *)
(* The switches -rpcssl and -rpcwait are off: nothing sets them.           *)
(***************************************************************************)
EXTENDS JsonReader

CONSTANTS
    Replies,       \* what the server replies with: JSON values, each with its text
    Statuses,      \* HTTP status codes it uses
    Endpoints,     \* bound: addresses the server's name resolves to
    MAX_SIZE,      \* the longest body the client takes
    Rest(_)        \* what can be left of a token that is cut short

ASSUME RepliesAssumption ==
    \A r \in Replies : r.text \in Seq(Tokens) /\ Written(r.value, r.text, Spans(r.value))
\* A string or a literal is none without its end; a bracket is whole.
ASSUME RestAssumption ==
    \A t \in Tokens : Rest(t) \subseteq (IF t \in Numbers THEN Numbers ELSE {})
                                        \cup (IF t \in Atoms THEN {Nul} ELSE {})
ASSUME StatusAssumption == Statuses \subseteq Nat
ASSUME EndpointsAssumption == Endpoints \in Nat
ASSUME MaxSizeAssumption == MAX_SIZE \in Nat

VARIABLES
    login,    \* whether -rpcuser or -rpcpassword is not ""
    said,     \* the reply the server decided on: none yet, or one
    script,   \* items it has still to send
    wire,     \* items sent and not yet read
    closed,   \* the server has closed the connection
    pc,       \* where the call is
    left,     \* addresses not tried yet
    good,     \* the stream can be read from
    nStatus, nLen, strReply,   \* as in CallRPC() and ReadHTTPMessage()
    got       \* what the call came back with: none yet, or one

serverVars == <<said, script, wire, closed>>
vars == <<login, serverVars, pc, left, good, nStatus, nLen, strReply, got, readerVars>>

\* Items.  A status line has the number n of its second word, or NoWord.
NoWord == -1
StatusLine(n) == [kind |-> "status", n |-> n, token |-> NoName]
LengthHeader(n) == [kind |-> "length", n |-> n, token |-> NoName]
OtherLine == [kind |-> "other", n |-> 0, token |-> NoName]
EmptyLine == [kind |-> "empty", n |-> 0, token |-> NoName]
Text(t) == [kind |-> "text", n |-> 0, token |-> t]

Failed == [kind |-> "failed", value |-> Null]

Init ==
    /\ login \in BOOLEAN
    /\ said = {} /\ script = <<>> /\ wire = <<>> /\ closed = FALSE
    /\ pc = "start" /\ left = Endpoints /\ good = TRUE
    /\ nStatus = 0 /\ nLen = 0 /\ strReply = <<>> /\ got = {}
    /\ ReaderInit

-----------------------------------------------------------------------------
(* The server *)

\* The lengths of a reply of n tokens: its own, too short, too long, absurd.
Lengths(n) == {n, n - 1, n + 1, 0, -1, MAX_SIZE + 1}

\* The header lines of a reply, with the length or without one.
Headers(n) == {<<OtherLine>>} \cup {<<OtherLine, LengthHeader(l)>> : l \in Lengths(n)}

\* The server has the request: it decides on a reply.
Answer(reply) ==
    /\ pc = "status" /\ good /\ said = {} /\ ~closed
    /\ said' = {reply}
    /\ \E n \in Statuses \cup {NoWord}, headers \in Headers(Len(reply.text)) :
         script' = <<StatusLine(n)>> \o headers \o <<EmptyLine>>
                   \o [i \in DOMAIN reply.text |-> Text(reply.text[i])]
    /\ UNCHANGED <<login, wire, closed, pc, left, good, nStatus, nLen, strReply, got, readerVars>>

Send ==
    /\ script # <<>>
    /\ wire' = Append(wire, Head(script))
    /\ script' = Tail(script)
    /\ UNCHANGED <<login, said, closed, pc, left, good, nStatus, nLen, strReply, got, readerVars>>

\* What arrives of an item whose end does not: the line up to there.
CutShort(item) ==
    CASE item.kind = "status" -> {StatusLine(n) : n \in {NoWord, 0, item.n \div 100, item.n \div 10}}
      [] item.kind = "length" -> {OtherLine, LengthHeader(item.n \div 10)}
      [] item.kind = "text" -> {Text(t) : t \in Rest(item.token)}
      [] OTHER -> {item}

Close ==
    /\ ~closed /\ pc \notin {"start", "connect", "done"}
    /\ closed' = TRUE
    /\ script' = <<>>
    /\ \/ UNCHANGED wire
       \/ script # <<>> /\ \E item \in CutShort(Head(script)) : wire' = Append(wire, item)
    /\ UNCHANGED <<login, said, pc, left, good, nStatus, nLen, strReply, got, readerVars>>

-----------------------------------------------------------------------------
(* CallRPC() *)

End(r) == pc' = "done" /\ got' = {r}

NoLogin ==
    /\ pc = "start" /\ ~login
    /\ End(Failed)
    /\ UNCHANGED <<login, serverVars, left, good, nStatus, nLen, strReply, readerVars>>

Login ==
    /\ pc = "start" /\ login
    /\ pc' = "connect"
    /\ UNCHANGED <<login, serverVars, left, good, nStatus, nLen, strReply, got, readerVars>>

\* SSLIOStreamDevice::connect(): one address after another.
Connect ==
    /\ pc = "connect" /\ left > 0
    /\ left' = left - 1
    /\ pc' \in {"connect", "post"}
    /\ UNCHANGED <<login, serverVars, good, nStatus, nLen, strReply, got, readerVars>>

Refused ==
    /\ pc = "connect" /\ left = 0
    /\ End(Failed)
    /\ UNCHANGED <<login, serverVars, left, good, nStatus, nLen, strReply, readerVars>>

\* A write that fails sets the stream's badbit and is noticed nowhere.
Post ==
    /\ pc = "post"
    /\ good' \in BOOLEAN
    /\ pc' = "status"
    /\ UNCHANGED <<login, serverVars, left, nStatus, nLen, strReply, got, readerVars>>

\* getline() returns when there is a line, or nothing to wait for.
CanRead == wire # <<>> \/ closed \/ ~good
Line == IF good /\ wire # <<>> THEN Head(wire) ELSE EmptyLine

GetLine ==
    /\ CanRead
    /\ wire' = IF good /\ wire # <<>> THEN Tail(wire) ELSE wire
    /\ good' = (good /\ wire # <<>>)
    /\ UNCHANGED <<said, script, closed>>

HTTP_INTERNAL_SERVER_ERROR == 500

\* Mutant of StatusOf: the second word is taken without counting the words.
StatusOfLine(line) == IF line.kind # "status" THEN HTTP_INTERNAL_SERVER_ERROR ELSE line.n

StatusOf(line) ==
    IF line.kind # "status" \/ line.n = NoWord THEN HTTP_INTERNAL_SERVER_ERROR ELSE line.n

ReadHTTPStatus ==
    /\ pc = "status"
    /\ GetLine
    /\ nStatus' = StatusOf(Line)
    /\ pc' = "headers"
    /\ UNCHANGED <<login, left, nLen, strReply, got, readerVars>>

\* Mutant of LastHeader: only a line ends the headers, not the lack of one.
LastHeaderLine == good /\ wire # <<>> /\ Line.kind = "empty"

LastHeader == Line.kind = "empty"

\* ReadHTTPHeaders(), and the tests of the length in ReadHTTPMessage().
ReadHTTPHeader ==
    /\ pc = "headers"
    /\ GetLine
    /\ nLen' = IF Line.kind = "length" THEN Line.n ELSE nLen
    /\ pc' = IF ~LastHeader THEN "headers"
             ELSE IF nLen <= 0 \/ nLen > MAX_SIZE THEN "check" ELSE "body"
    /\ UNCHANGED <<login, left, nStatus, strReply, got, readerVars>>

\* stream.read() waits for nLen bytes; a buffer that stays short keeps its
\* zeros, and is the reply all the same.
ReadBody ==
    /\ pc = "body"
    /\ Len(wire) >= nLen \/ closed \/ ~good
    /\ strReply' = [i \in 1..nLen |-> IF good /\ i <= Len(wire) THEN wire[i].token ELSE Nul]
    /\ pc' = "check"
    /\ UNCHANGED <<login, serverVars, left, good, nStatus, nLen, got, readerVars>>

\* The statuses a reply may come with.
Accepted(n) == n < 400 \/ n \in {400, 404, 500}

\* Mutant of CheckStatus: no reply with an error status is read.
CheckStatusOk ==
    /\ pc = "check"
    /\ IF nStatus >= 400 \/ strReply = <<>>
         THEN End(Failed)
         ELSE pc' = "parse" /\ UNCHANGED got
    /\ UNCHANGED <<login, serverVars, left, good, nStatus, nLen, strReply, readerVars>>

CheckStatus ==
    /\ pc = "check"
    /\ IF ~Accepted(nStatus) \/ strReply = <<>>
         THEN End(Failed)
         ELSE pc' = "parse" /\ UNCHANGED got
    /\ UNCHANGED <<login, serverVars, left, good, nStatus, nLen, strReply, readerVars>>

ReadString ==
    /\ pc = "parse"
    /\ Read(IF strReply = <<>> THEN Nul ELSE Head(strReply))
    /\ strReply' = IF strReply = <<>> THEN <<>> ELSE Tail(strReply)
    /\ UNCHANGED <<login, serverVars, pc, left, good, nStatus, nLen, got>>

NotParsed ==
    /\ pc = "parse" /\ at = "thrown"
    /\ End(Failed)
    /\ UNCHANGED <<login, serverVars, left, good, nStatus, nLen, strReply, readerVars>>

\* callRPC(task, message): what a reply says.  get_obj() and get_int() throw
\* for a value of another type; the result is taken only without an error.
MeaningOf(v) ==
    LET error == FindValue(v, "error")
        code == FindValue(error, "code")
    IN IF v[<<>>].type # "obj" \/ v[<<>>].kids = 0 THEN Failed
       ELSE IF error[<<>>].type = "null" THEN [kind |-> "answer", value |-> FindValue(v, "result")]
       ELSE IF error[<<>>].type # "obj" \/ code[<<>>].type # "int" THEN Failed
       ELSE [kind |-> "error", value |-> code]

Meaning(reply) == MeaningOf(reply.value)

Parsed ==
    /\ pc = "parse" /\ at = "end"
    /\ End(MeaningOf(value))
    /\ UNCHANGED <<login, serverVars, left, good, nStatus, nLen, strReply, readerVars>>

Call ==
    \/ NoLogin \/ Login \/ Connect \/ Refused \/ Post
    \/ ReadHTTPStatus \/ ReadHTTPHeader \/ ReadBody
    \/ CheckStatus \/ ReadString \/ NotParsed \/ Parsed

Next == Call \/ (\E r \in Replies : Answer(r)) \/ Send \/ Close

Spec == Init /\ [][Next]_vars

\* The thread runs, and what the server has begun to send it sends.
FairSpec == Spec /\ WF_vars(Call) /\ WF_vars(Send)

-----------------------------------------------------------------------------
(* Properties *)

TypeOK ==
    /\ login \in BOOLEAN /\ closed \in BOOLEAN /\ good \in BOOLEAN
    /\ pc \in {"start", "connect", "post", "status", "headers", "body", "check", "parse", "done"}
    /\ said \in {{}} \cup {{r} : r \in Replies}
    /\ left \in 0..Endpoints
    /\ nStatus \in Nat /\ nLen \in Int
    /\ \A i \in DOMAIN strReply : strReply[i] \in Tokens
    /\ \A r \in got : r.kind \in {"failed", "answer", "error"}

\* A reply that came whole, with an accepted status and a length not too
\* short, is what the call comes back with.
RepliedWhole ==
    /\ pc = "done" /\ said # {} /\ good
    /\ Accepted(nStatus)
    /\ \A r \in said : nLen \in Len(r.text)..MAX_SIZE /\ Len(wire) >= Len(r.text)
WholeReplyTaken == RepliedWhole => \A r \in said : got = {Meaning(r)}

\* A call that was answered, or whose connection was closed, ends, or waits
\* for a body longer than the one that was sent over a connection that stays
\* open.  There it waits for ever: nothing in the code limits the time
\* (rpcclient.cpp:73-82).
Starved == pc = "body" /\ ~closed /\ \A r \in said : nLen > Len(r.text)
CallEnds == (said # {} \/ closed) ~> (pc = "done" \/ Starved)

\* However the server behaves the call fails or comes back with the meaning
\* of the server's reply, never with that of a part of it, although a short
\* reply, a missing status and a failed read are not looked at where they
\* happen (rpcprotocol.cpp:143-144, :196).
Promise == INSTANCE Rpc
ImplementsRpc == Promise!Spec
=============================================================================
