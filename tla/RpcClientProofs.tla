-------------------------- MODULE RpcClientProofs --------------------------
(***************************************************************************)
(* Theorems about RpcClient: its types, that a reply that came whole is    *)
(* what the call comes back with, and that the call implements Rpc.        *)
(***************************************************************************)
EXTENDS RpcClient, JsonReaderProofs

-----------------------------------------------------------------------------
(* Items *)

HeaderLines == {StatusLine(n) : n \in Nat \cup {NoWord}} \cup {LengthHeader(n) : n \in Int}
               \cup {OtherLine}
Items == HeaderLines \cup {EmptyLine} \cup {Text(t) : t \in Tokens}

LEMMA RestFacts ==
    ASSUME NEW t \in Tokens, NEW x \in Rest(t)
    PROVE  /\ t \in Atoms /\ (x \in Numbers \/ x = Nul) /\ x \in Tokens
<1>1. Numbers \subseteq Atoms
  BY TokenFacts
<1>2. QED
  BY <1>1, RestAssumption DEF Tokens

LEMMA ItemFacts ==
    /\ \A x \in HeaderLines : x.kind \in {"status", "length", "other"}
                              /\ x.n \in Int /\ (x.kind = "status" => x.n \in Nat \cup {NoWord})
    /\ EmptyLine.kind = "empty" /\ EmptyLine.n \in Int
    /\ \A t : Text(t).kind = "text" /\ Text(t).token = t /\ Text(t).n \in Int
BY DEF HeaderLines, StatusLine, LengthHeader, OtherLine, EmptyLine, Text, NoWord

LEMMA CutFacts ==
    /\ \A x \in HeaderLines : CutShort(x) \subseteq HeaderLines
    /\ CutShort(EmptyLine) = {EmptyLine}
    /\ \A t \in Tokens : CutShort(Text(t)) = {Text(u) : u \in Rest(t)}
<1>1. ASSUME NEW x \in HeaderLines, NEW y \in CutShort(x) PROVE y \in HeaderLines
  <2>1. CASE x.kind = "status"
    <3>1. x.n \in Nat \cup {-1}
      BY <2>1, ItemFacts DEF NoWord
    <3>2. x.n \div 10 \in Nat \cup {-1} /\ x.n \div 100 \in Nat \cup {-1}
      BY <3>1
    <3>3. CutShort(x) = {StatusLine(n) : n \in {NoWord, 0, x.n \div 100, x.n \div 10}}
      BY <2>1 DEF CutShort
    <3>4. PICK n \in {NoWord, 0, x.n \div 100, x.n \div 10} : y = StatusLine(n)
      BY <1>1, <3>3
    <3>5. n \in Nat \cup {NoWord}
      BY <3>2, <3>4 DEF NoWord
    <3>6. QED
      BY <3>4, <3>5 DEF HeaderLines
  <2>2. CASE x.kind = "length"
    <3>1. x.n \in Int /\ x.n \div 10 \in Int
      BY ItemFacts
    <3>2. y = OtherLine \/ y = LengthHeader(x.n \div 10)
      BY <1>1, <2>2 DEF CutShort
    <3>3. QED
      BY <3>1, <3>2 DEF HeaderLines
  <2>3. CASE x.kind = "other"
    <3>1. CutShort(x) = {x}
      BY <2>3 DEF CutShort
    <3>2. QED
      BY <1>1, <3>1
  <2>4. QED
    BY <2>1, <2>2, <2>3, ItemFacts
<1>2. CutShort(EmptyLine) = {EmptyLine}
  BY ItemFacts DEF CutShort
<1>3. \A t \in Tokens : CutShort(Text(t)) = {Text(u) : u \in Rest(t)}
  BY ItemFacts DEF CutShort
<1>4. QED
  BY <1>1, <1>2, <1>3

LEMMA CutTyped == ASSUME NEW x \in Items, NEW y \in CutShort(x) PROVE y \in Items
<1>1. CASE x \in HeaderLines \cup {EmptyLine}
  BY <1>1, CutFacts DEF Items
<1>2. ASSUME NEW t \in Tokens, x = Text(t) PROVE y \in Items
  <2>1. PICK u \in Rest(t) : y = Text(u)
    BY <1>2, CutFacts
  <2>2. u \in Tokens
    BY RestFacts
  <2>3. QED
    BY <2>1, <2>2 DEF Items
<1>3. QED
  BY <1>1, <1>2 DEF Items

-----------------------------------------------------------------------------
(* The invariant *)

\* The reply r, whole and long enough announced, is there to be read.
Complete(r) == good /\ nLen \in Len(r.text)..MAX_SIZE /\ Len(wire) >= Len(r.text)

\* All that the server sends: lines, an empty one at e, and the text of r.
Sent(r, full, e) ==
    /\ full \in Seq(Items) /\ e \in 1..Len(full) /\ Len(full) = e + Len(r.text)
    /\ \A i \in 1..(e - 1) : full[i] \in HeaderLines
    /\ full[e] = EmptyLine
    /\ \A i \in 1..Len(r.text) : full[e + i] = Text(r.text[i])

\* Of that, the items up to d have been read and those up to m are there;
\* after them there may be one that was cut short.
Arrived(full, d, m) ==
    /\ d \in Nat /\ m \in d..Len(full)
    /\ \A i \in 1..(m - d) : wire[i] = full[d + i]
    /\ \/ Len(wire) = m - d
       \/ /\ closed /\ m < Len(full) /\ Len(wire) = m - d + 1
          /\ wire[m - d + 1] \in CutShort(full[m + 1])
    /\ ~closed => /\ Len(script) = Len(full) - m
                  /\ \A i \in 1..Len(script) : script[i] = full[m + i]

\* How many lines are still to be read, the empty one among them.
LinesLeft(n) ==
    CASE pc = "status" -> n > 1
      [] pc = "headers" -> n > 0
      [] pc = "body" -> n = 0

Flowing(r) ==
    good /\ pc \in {"status", "headers", "body"} =>
        \E full, e, d, m : Sent(r, full, e) /\ Arrived(full, d, m) /\ LinesLeft(e - d)

\* The tokens still to come from the buffer, and from then on the end.
Coming(j) == IF j <= Len(strReply) THEN strReply[j] ELSE Nul

\* They are those of t after its first n, up to the m-th, then at most a cut
\* one, then nothing.
Remains(t, n, m) ==
    /\ n \in Nat /\ m \in n..Len(t)
    /\ \A j \in Nat \ {0} :
         /\ j <= m - n => Coming(j) = t[n + j]
         /\ j = m - n + 1 /\ m < Len(t) => Coming(j) \in Rest(t[m + 1]) \cup {Nul}
         /\ j > m - n + 1 \/ (j > m - n /\ m = Len(t)) => Coming(j) = Nul

Kept(r, m) == Complete(r) => m = Len(r.text) \/ Meaning(r) = Failed

\* The reader is in the text of r, or it has lost it and finds no object.
Reading(r) ==
    /\ Follows(r.value, r.text, Spans(r.value))
    /\ \E m : Remains(r.text, Len(text), m) /\ Kept(r, m)
Lost(r) ==
    /\ Complete(r) => Meaning(r) = Failed
    /\ \/ at = "thrown"
       \/ at = "end" /\ value[<<>>].type # "obj"
       \/ at # "end" /\ \A j \in Nat \ {0} : Coming(j) = Nul

CallTypes ==
    /\ login \in BOOLEAN /\ closed \in BOOLEAN /\ good \in BOOLEAN
    /\ pc \in {"start", "connect", "post", "status", "headers", "body", "check", "parse", "done"}
    /\ said \in {{}} \cup {{r} : r \in Replies}
    /\ left \in 0..Endpoints
    /\ nStatus \in Nat /\ nLen \in Int
    /\ strReply \in Seq(Tokens)
    /\ \A r \in got : r.kind \in {"failed", "answer", "error"}
    /\ wire \in Seq(Items) /\ script \in Seq(Items)

\* What is said of a call without a reply, and of one with the reply r.
Unanswered ==
    /\ wire = <<>> /\ script = <<>> /\ nLen = 0 /\ strReply = <<>>
    /\ pc \notin {"body", "parse"}
    /\ pc = "done" => got = {Failed}

Answered(r) ==
    /\ pc \notin {"start", "connect", "post"}
    /\ Flowing(r)
    /\ pc \in {"check", "parse", "done"} /\ good /\ ~closed /\ nLen \in 1..MAX_SIZE => Len(wire) >= nLen
    /\ pc = "check" => /\ \E m : Remains(r.text, 0, m) /\ Kept(r, m)
                       /\ Complete(r) => strReply # <<>>
    /\ pc = "parse" => Reading(r) \/ Lost(r)
    /\ pc = "done" => /\ got = {Failed} \/ got = {Meaning(r)}
                      /\ Complete(r) /\ Accepted(nStatus) => got = {Meaning(r)}

CallInv ==
    /\ CallTypes /\ PointerInv
    /\ pc \notin {"parse", "done"} => ReaderInit
    /\ pc # "done" => got = {}
    /\ pc \notin {"check", "parse", "done"} => strReply = <<>>
    /\ pc = "body" => nLen \in 1..MAX_SIZE
    /\ closed => script = <<>>
    /\ said = {} => Unanswered
    /\ \A r \in said : Answered(r)

-----------------------------------------------------------------------------
(* What a reply means *)

LEMMA NotObjFails == ASSUME NEW v, v[<<>>].type # "obj" PROVE MeaningOf(v) = Failed
BY DEF MeaningOf

LEMMA MeaningKinds ==
    /\ Failed.kind = "failed"
    /\ \A v : MeaningOf(v).kind \in {"failed", "answer", "error"}
<1>1. Failed.kind = "failed"
  BY DEF Failed
<1>2. ASSUME NEW v PROVE MeaningOf(v).kind \in {"failed", "answer", "error"}
  <2> DEFINE e == FindValue(v, "error")
             c == FindValue(e, "code")
             a == FindValue(v, "result")
  <2>1. \/ MeaningOf(v) = Failed
        \/ MeaningOf(v) = [kind |-> "answer", value |-> a]
        \/ MeaningOf(v) = [kind |-> "error", value |-> c]
    BY Zenon DEF MeaningOf
  <2> HIDE DEF e, c, a
  <2>2. QED
    BY <1>1, <2>1
<1>3. QED
  BY <1>1, <1>2

LEMMA ReplyFacts ==
    ASSUME NEW r \in Replies
    PROVE  /\ r.text \in Seq(Tokens) /\ Written(r.value, r.text, Spans(r.value))
           /\ Len(r.text) \in Nat \ {0}
           /\ r.text[Len(r.text)] \in Atoms => Meaning(r) = Failed
<1>1. r.text \in Seq(Tokens) /\ Written(r.value, r.text, Spans(r.value))
  BY RepliesAssumption
<1>2. /\ Len(r.text) \in Nat \ {0} /\ <<>> \in DOMAIN r.value
      /\ Spans(r.value)[<<>>].last = Len(r.text)
  BY <1>1, WrittenShape
<1>3. ASSUME r.text[Len(r.text)] \in Atoms PROVE Meaning(r) = Failed
  <2>1. r.text[Spans(r.value)[<<>>].first] \in Atoms
    <3> SUFFICES ASSUME r.text[Spans(r.value)[<<>>].first] \notin Atoms PROVE FALSE
      OBVIOUS
    <3>1. r.text[Spans(r.value)[<<>>].last] = (IF r.value[<<>>].type = "obj" THEN EndObj ELSE EndArray)
      BY <1>1, <1>2, CompoundPart
    <3>2. QED
      BY <1>2, <1>3, <3>1, TokenFacts
  <2>2. r.value[<<>>].type = Atom(r.text[Spans(r.value)[<<>>].first]).type
    BY <1>1, <1>2, <2>1, AtomPart
  <2>3. r.value[<<>>].type # Compound(BeginObj).type
    BY <2>1, <2>2, AtomNoCompound
  <2>4. r.value[<<>>].type # "obj"
    BY <2>3 DEF Compound
  <2>5. QED
    BY <2>4, NotObjFails DEF Meaning
<1>4. QED
  BY <1>1, <1>2, <1>3

-----------------------------------------------------------------------------
(* Types *)

LEMMA SeqFacts ==
    ASSUME NEW S, NEW s \in Seq(S), s # <<>>
    PROVE  /\ Head(s) \in S /\ Tail(s) \in Seq(S) /\ Head(s) = s[1]
           /\ Len(s) \in Nat \ {0} /\ Len(Tail(s)) = Len(s) - 1
           /\ \A i \in 1..(Len(s) - 1) : Tail(s)[i] = s[i + 1]
OBVIOUS

LEMMA ConcatFacts ==
    ASSUME NEW S, NEW s \in Seq(S), NEW u \in Seq(S)
    PROVE  /\ s \o u \in Seq(S) /\ Len(s \o u) = Len(s) + Len(u)
           /\ \A i \in 1..Len(s) : (s \o u)[i] = s[i]
           /\ \A i \in 1..Len(u) : (s \o u)[Len(s) + i] = u[i]
OBVIOUS

LEMMA LineTyped ==
    ASSUME CallTypes PROVE Line \in Items /\ StatusOf(Line) \in Nat /\ Line.n \in Int
<1>1. Line \in Items
  <2>1. EmptyLine \in Items
    BY DEF Items
  <2>2. wire \in Seq(Items)
    BY DEF CallTypes
  <2>3. wire # <<>> => Head(wire) \in Items
    BY <2>2, SeqFacts
  <2>4. QED
    BY <2>1, <2>3 DEF Line
<1>2. ASSUME NEW x \in Items PROVE StatusOf(x) \in Nat /\ x.n \in Int
  <2>1. x \in HeaderLines \/ x = EmptyLine \/ \E t : x = Text(t)
    BY DEF Items
  <2>2. x.n \in Int /\ (x.kind = "status" => x.n \in Nat \cup {NoWord})
    BY <2>1, ItemFacts
  <2>3. QED
    BY <2>2 DEF StatusOf, HTTP_INTERNAL_SERVER_ERROR
<1>3. QED
  BY <1>1, <1>2

\* The items that are on the way are items, and what is left is a text.
LEMMA ServerTyped ==
    ASSUME CallTypes, Send \/ Close \/ GetLine
    PROVE  /\ wire' \in Seq(Items) /\ script' \in Seq(Items)
           /\ closed' \in BOOLEAN /\ (GetLine => good' \in BOOLEAN)
<1>0. wire \in Seq(Items) /\ script \in Seq(Items) /\ closed \in BOOLEAN /\ good \in BOOLEAN
  BY DEF CallTypes
<1>1. CASE Send
  <2>1. script # <<>> /\ wire' = Append(wire, Head(script)) /\ script' = Tail(script) /\ closed' = closed
    BY <1>1 DEF Send
  <2>2. Head(script) \in Items /\ Tail(script) \in Seq(Items)
    BY <1>0, <2>1, SeqFacts
  <2>3. wire' \in Seq(Items)
    BY <1>0, <2>1, <2>2, AppendFacts
  <2>4. QED
    BY <1>0, <2>1, <2>2, <2>3 DEF GetLine
<1>2. CASE Close
  <2>1. closed' = TRUE /\ script' = <<>>
        /\ \/ wire' = wire
           \/ script # <<>> /\ \E item \in CutShort(Head(script)) : wire' = Append(wire, item)
    BY <1>2 DEF Close
  <2>2. wire' \in Seq(Items)
    <3>1. ASSUME script # <<>>, NEW item \in CutShort(Head(script)), wire' = Append(wire, item)
          PROVE  wire' \in Seq(Items)
      <4>1. Head(script) \in Items
        BY <1>0, <3>1, SeqFacts
      <4>2. item \in Items
        BY <4>1, CutTyped
      <4>3. QED
        BY <1>0, <3>1, <4>2, AppendFacts
    <3>2. QED
      BY <1>0, <2>1, <3>1
  <2>3. <<>> \in Seq(Items)
    OBVIOUS
  <2>4. QED
    BY <2>1, <2>2, <2>3 DEF GetLine
<1>3. CASE GetLine
  <2>1. wire # <<>> => Tail(wire) \in Seq(Items)
    BY <1>0, SeqFacts
  <2>2. QED
    BY <1>0, <1>3, <2>1 DEF GetLine
<1>4. QED
  BY <1>1, <1>2, <1>3

-----------------------------------------------------------------------------
(* Steps that leave the reader alone *)

LEMMA ReaderKept ==
    ASSUME UNCHANGED readerVars
    PROVE  /\ PointerInv => PointerInv'
           /\ ReaderInit => ReaderInit'
           /\ \A v, t, span : Follows(v, t, span) => Follows(v, t, span)'
           /\ text' = text /\ at' = at /\ value' = value
<1>1. PointerInv => PointerInv'
  BY DEF readerVars, PointerInv, ReaderTypes, Pointers
<1>2. ReaderInit => ReaderInit'
  BY DEF readerVars, ReaderInit
<1>3. ASSUME NEW v, NEW t, NEW span, Follows(v, t, span) PROVE Follows(v, t, span)'
  BY <1>3 DEF readerVars, Follows, PartOf, OpenParts, Place, InObject
<1>4. QED
  BY <1>1, <1>2, <1>3 DEF readerVars

LEMMA SaidCases ==
    ASSUME CallTypes PROVE said = {} \/ \E r \in Replies : said = {r}
BY DEF CallTypes

LEMMA SetupSteps ==
    ASSUME CallInv, NoLogin \/ Login \/ Connect \/ Refused \/ Post
    PROVE  CallInv'
<1>1. pc \in {"start", "connect", "post"} /\ UNCHANGED <<login, serverVars, nStatus, nLen, strReply, readerVars>>
  BY DEF NoLogin, Login, Connect, Refused, Post
<1>2. \/ pc' \in {"connect", "post", "status"} /\ got' = got
      \/ pc' = "done" /\ got' = {Failed}
  BY DEF NoLogin, Login, Connect, Refused, Post, End
<1>3. said = {}
  BY <1>1 DEF CallInv, Answered
<1>4. said' = {} /\ wire' = wire /\ script' = script /\ closed' = closed
  BY <1>1, <1>3 DEF serverVars
<1>5. left' \in 0..Endpoints /\ good' \in BOOLEAN
  <2>1. left \in 0..Endpoints /\ good \in BOOLEAN
    BY DEF CallInv, CallTypes
  <2>2. left' = left \/ (left > 0 /\ left' = left - 1)
    BY DEF NoLogin, Login, Connect, Refused, Post
  <2>3. good' \in BOOLEAN
    BY <2>1 DEF NoLogin, Login, Connect, Refused, Post
  <2>4. QED
    BY <2>1, <2>2, <2>3, EndpointsAssumption
<1>6. CallTypes'
  <2>1. \A r \in got' : r.kind \in {"failed", "answer", "error"}
    BY <1>2, MeaningKinds DEF CallInv, CallTypes
  <2>2. QED
    BY <1>1, <1>2, <1>4, <1>5, <2>1 DEF CallInv, CallTypes
<1>7. PointerInv' /\ ReaderInit'
  BY <1>1, ReaderKept DEF CallInv
<1>8. Unanswered'
  BY <1>1, <1>2, <1>3, <1>4 DEF CallInv, Unanswered
<1>9. pc' # "done" => got' = {}
  BY <1>1, <1>2 DEF CallInv
<1>10. QED
  BY <1>1, <1>2, <1>4, <1>6, <1>7, <1>8, <1>9 DEF CallInv

\* What is announced is a whole stream, and nothing of it has been read.
LEMMA AnswerStep ==
    ASSUME CallInv, NEW r \in Replies, Answer(r)
    PROVE  CallInv'
<1>1. /\ pc = "status" /\ said = {} /\ ~closed /\ said' = {r}
      /\ UNCHANGED <<login, wire, closed, pc, left, good, nStatus, nLen, strReply, got, readerVars>>
  BY DEF Answer
<1>2. PICK n \in Statuses \cup {NoWord}, headers \in Headers(Len(r.text)) :
         script' = <<StatusLine(n)>> \o headers \o <<EmptyLine>>
                   \o [i \in DOMAIN r.text |-> Text(r.text[i])]
  BY DEF Answer
<1>3. r.text \in Seq(Tokens) /\ Len(r.text) \in Nat \ {0}
  BY ReplyFacts
<1>4. PICK full : full = script'
  OBVIOUS
<1>5. PICK e \in Nat : Sent(r, full, e) /\ e > 1
  <2> DEFINE body == [i \in DOMAIN r.text |-> Text(r.text[i])]
             top == <<StatusLine(n)>> \o headers \o <<EmptyLine>>
  <2>1. body \in Seq(Items) /\ Len(body) = Len(r.text) /\ \A i \in 1..Len(r.text) : body[i] = Text(r.text[i])
    BY <1>3 DEF Items
  <2>2. StatusLine(n) \in HeaderLines /\ OtherLine \in HeaderLines
        /\ HeaderLines \subseteq Items /\ EmptyLine \in Items
    BY StatusAssumption DEF HeaderLines, Items
  <2>3. headers \in Seq(HeaderLines)
    <3>1. \A l \in Lengths(Len(r.text)) : LengthHeader(l) \in HeaderLines
      BY <1>3, MaxSizeAssumption DEF Lengths, HeaderLines
    <3>2. headers = <<OtherLine>> \/ \E l \in HeaderLines : headers = <<OtherLine, l>>
      BY <3>1 DEF Headers
    <3>3. <<OtherLine>> \in Seq(HeaderLines) /\ \A l \in HeaderLines : <<OtherLine, l>> \in Seq(HeaderLines)
      BY <2>2
    <3>4. QED
      BY <3>2, <3>3
  <2> HIDE DEF body
  <2>4. full = top \o body
    BY <1>2, <1>4 DEF body
  <2>5. /\ top \in Seq(Items) /\ Len(top) \in Nat /\ Len(top) > 1 /\ top[Len(top)] = EmptyLine
        /\ \A i \in 1..(Len(top) - 1) : top[i] \in HeaderLines
    <3> DEFINE first == <<StatusLine(n)>>
               lines == first \o headers
               end == <<EmptyLine>>
    <3>1. first \in Seq(HeaderLines) /\ Len(first) = 1 /\ end \in Seq(Items) /\ Len(end) = 1 /\ end[1] = EmptyLine
      BY <2>2
    <3> HIDE DEF first, end
    <3>2. lines \in Seq(HeaderLines) /\ Len(lines) = 1 + Len(headers) /\ Len(headers) \in Nat
      <4>1. first \o headers \in Seq(HeaderLines) /\ Len(first \o headers) = Len(first) + Len(headers)
        BY <2>3, <3>1, ConcatFacts
      <4>2. Len(headers) \in Nat
        BY <2>3
      <4>3. QED
        BY <3>1, <4>1, <4>2
    <3> HIDE DEF lines
    <3>3. lines \in Seq(Items) /\ Len(lines) \in Nat /\ Len(lines) > 0 /\ \A i \in 1..Len(lines) : lines[i] \in HeaderLines
      BY <2>2, <3>2
    <3>4. /\ lines \o end \in Seq(Items) /\ Len(lines \o end) = Len(lines) + Len(end)
          /\ \A i \in 1..Len(lines) : (lines \o end)[i] = lines[i]
          /\ \A i \in 1..Len(end) : (lines \o end)[Len(lines) + i] = end[i]
      <4>1. lines \in Seq(Items) /\ end \in Seq(Items)
        BY <3>1, <3>3
      <4>2. QED
        BY <4>1, ConcatFacts
    <3>5. top = lines \o end
      BY DEF lines, first, end
    <3> HIDE DEF top
    <3>6. Len(top) = Len(lines) + 1 /\ 1 \in 1..Len(end)
      BY <3>1, <3>4, <3>5
    <3>7. top[Len(top)] = EmptyLine
      BY <3>1, <3>4, <3>5, <3>6
    <3>8. Len(top) - 1 = Len(lines)
      BY <3>3, <3>6
    <3>9. QED
      BY <3>3, <3>4, <3>5, <3>6, <3>7, <3>8
  <2> HIDE DEF top
  <2>6. /\ full \in Seq(Items) /\ Len(full) = Len(top) + Len(r.text)
        /\ \A i \in 1..Len(top) : full[i] = top[i]
        /\ \A i \in 1..Len(r.text) : full[Len(top) + i] = body[i]
    <3>1. /\ top \o body \in Seq(Items) /\ Len(top \o body) = Len(top) + Len(body)
          /\ \A i \in 1..Len(top) : (top \o body)[i] = top[i]
          /\ \A i \in 1..Len(body) : (top \o body)[Len(top) + i] = body[i]
      <4>1. top \in Seq(Items) /\ body \in Seq(Items)
        BY <2>1, <2>5
      <4>2. QED
        BY <4>1, ConcatFacts
    <3>2. QED
      BY <2>1, <2>4, <3>1
  <2>7. /\ Len(top) \in 1..Len(full) /\ full[Len(top)] = EmptyLine
        /\ \A i \in 1..(Len(top) - 1) : full[i] \in HeaderLines
    <3>1. Len(top) \in 1..Len(full) /\ Len(top) \in 1..Len(top)
      BY <1>3, <2>5, <2>6
    <3>2. \A i \in 1..(Len(top) - 1) : i \in 1..Len(top)
      BY <2>5
    <3>3. QED
      BY <2>5, <2>6, <3>1, <3>2
  <2>8. Sent(r, full, Len(top))
    BY <2>1, <2>6, <2>7 DEF Sent
  <2>9. QED
    BY <2>5, <2>8
<1>6. wire = <<>>
  BY <1>1 DEF CallInv, Unanswered
<1>7. Arrived(full, 0, 0)'
  <2>1. full \in Seq(Items) /\ Len(wire') = 0
    BY <1>1, <1>5, <1>6 DEF Sent
  <2>2. Len(full) \in Nat
    BY <2>1
  <2>3. /\ 0 \in Nat /\ 0 \in 0..Len(full)
        /\ \A i \in 1..(0 - 0) : wire'[i] = full[0 + i]
        /\ Len(wire') = 0 - 0
        /\ Len(script') = Len(full) - 0
        /\ \A i \in 1..Len(script') : script'[i] = full[0 + i]
    BY <1>4, <2>1, <2>2
  <2>4. QED
    BY <1>1, <2>3 DEF Arrived
<1>8. Flowing(r)'
  <2>1. LinesLeft(e - 0)'
    BY <1>1, <1>5 DEF LinesLeft
  <2>2. QED
    BY <1>5, <1>7, <2>1 DEF Flowing, Sent
<1>9. CallTypes'
  <2>1. script' \in Seq(Items)
    BY <1>4, <1>5 DEF Sent
  <2>2. QED
    BY <1>1, <2>1 DEF CallInv, CallTypes
<1>10. PointerInv' /\ ReaderInit'
  BY <1>1, ReaderKept DEF CallInv
<1>11. QED
  BY <1>1, <1>8, <1>9, <1>10 DEF CallInv, Answered

-----------------------------------------------------------------------------
(* The server goes on *)

\* A reply that was not there when the buffer was filled does not come later.
LEMMA NotLater ==
    ASSUME CallInv, NEW r \in said, pc \in {"check", "parse", "done"},
           good' = good, nLen' = nLen, wire' = wire \/ ~closed
    PROVE  Complete(r)' => Complete(r)
<1>1. r \in Replies
  BY DEF CallInv, CallTypes
<1>2. Len(r.text) \in Nat \ {0}
  BY <1>1, ReplyFacts
<1>3. good /\ ~closed /\ nLen \in 1..MAX_SIZE => Len(wire) >= nLen
  BY DEF CallInv, Answered
<1>4. nLen \in Int /\ MAX_SIZE \in Nat /\ Len(wire) \in Nat
  BY MaxSizeAssumption DEF CallInv, CallTypes
<1>5. CASE wire' = wire
  BY <1>5 DEF Complete
<1>6. CASE ~closed
  BY <1>2, <1>3, <1>4, <1>6 DEF Complete
<1>7. QED
  BY <1>5, <1>6

\* Items on the way change nothing of what has been read.
LEMMA ServerSteps ==
    ASSUME CallInv, Send \/ Close, \A r \in said : Flowing(r)',
           said = {} => wire' = wire /\ script' = <<>>,
           Len(wire') >= Len(wire), closed' => script' = <<>>, wire' = wire \/ ~closed
    PROVE  CallInv'
<1>1. UNCHANGED <<login, said, pc, left, good, nStatus, nLen, strReply, got, readerVars>>
  BY DEF Send, Close
<1>2. CallTypes'
  BY <1>1, ServerTyped DEF CallInv, CallTypes
<1>3. PointerInv' /\ (ReaderInit => ReaderInit')
      /\ text' = text /\ at' = at /\ value' = value
      /\ \A v, t, span : Follows(v, t, span) => Follows(v, t, span)'
  BY <1>1, ReaderKept DEF CallInv
<1>4. said = {} => Unanswered'
  BY <1>1 DEF CallInv, Unanswered
<1>5. ASSUME NEW r \in said PROVE Answered(r)'
  <2>1. Answered(r)
    BY DEF CallInv
  <2>2. pc \in {"check", "parse", "done"} => (Complete(r)' => Complete(r))
    BY <1>1, NotLater
  <2>3. pc' \in {"check", "parse", "done"} /\ good' /\ ~closed' /\ nLen' \in 1..MAX_SIZE => Len(wire') >= nLen'
    <3>1. closed => closed'
      BY DEF Send, Close
    <3>2. nLen \in Int /\ MAX_SIZE \in Nat /\ Len(wire) \in Nat /\ Len(wire') \in Nat
      BY <1>2, MaxSizeAssumption DEF CallInv, CallTypes
    <3>3. QED
      BY <1>1, <2>1, <3>1, <3>2 DEF Answered
  <2>4. \A t, n, m : Remains(t, n, m) => Remains(t, n, m)'
    BY <1>1, SMTT(30) DEF Remains, Coming
  <2>5. pc \in {"check", "parse", "done"} => \A m : Kept(r, m) => Kept(r, m)'
    BY <2>2 DEF Kept
  <2>6. pc = "check" => (\E m : Remains(r.text, 0, m) /\ Kept(r, m))' /\ (Complete(r)' => strReply' # <<>>)
    BY <1>1, <2>1, <2>2, <2>4, <2>5 DEF Answered
  <2>7. pc = "parse" /\ Reading(r) => Reading(r)'
    BY <1>3, <2>4, <2>5 DEF Reading
  <2>8. pc = "parse" /\ Lost(r) => Lost(r)'
    BY <1>1, <1>3, <2>2 DEF Lost, Coming
  <2>9. pc = "done" => /\ got' = {Failed} \/ got' = {Meaning(r)}
                       /\ Complete(r)' /\ Accepted(nStatus') => got' = {Meaning(r)}
    BY <1>1, <2>1, <2>2 DEF Answered
  <2>10. QED
    BY <1>1, <2>1, <2>3, <2>6, <2>7, <2>8, <2>9 DEF Answered
<1>6. QED
  BY <1>1, <1>2, <1>3, <1>4, <1>5 DEF CallInv

LEMMA SendStep == ASSUME CallInv, Send PROVE CallInv'
<1>1. /\ script # <<>> /\ wire' = Append(wire, Head(script)) /\ script' = Tail(script)
      /\ UNCHANGED <<closed, pc, good>>
  BY DEF Send
<1>2. ~closed
  BY <1>1 DEF CallInv
<1>3. wire \in Seq(Items) /\ script \in Seq(Items)
  BY DEF CallInv, CallTypes
<1>4. /\ Len(script) \in Nat \ {0} /\ Head(script) = script[1] /\ Head(script) \in Items
      /\ Len(script') = Len(script) - 1
      /\ \A i \in 1..(Len(script) - 1) : script'[i] = script[i + 1]
  BY <1>1, <1>3, SeqFacts
<1>5. /\ Len(wire') = Len(wire) + 1 /\ Len(wire) \in Nat
      /\ \A i \in 1..Len(wire) : wire'[i] = wire[i]
      /\ wire'[Len(wire) + 1] = script[1]
  BY <1>1, <1>3, <1>4, AppendFacts
<1>6. ASSUME NEW r \in said PROVE Flowing(r)'
  <2>1. SUFFICES ASSUME good, pc \in {"status", "headers", "body"} PROVE Flowing(r)'
    BY <1>1 DEF Flowing
  <2>2. PICK full, e, d, m : /\ Sent(r, full, e) /\ Arrived(full, d, m)
                             /\ LinesLeft(e - d)
    BY <2>1 DEF CallInv, Answered, Flowing
  <2>3. Arrived(full, d, m + 1)'
    <3>1. /\ d \in Nat /\ m \in d..Len(full) /\ Len(wire) = m - d
          /\ \A i \in 1..(m - d) : wire[i] = full[d + i]
          /\ Len(script) = Len(full) - m
          /\ \A i \in 1..Len(script) : script[i] = full[m + i]
      BY <1>2, <2>2 DEF Arrived
    <3>2. full \in Seq(Items)
      BY <2>2 DEF Sent
    <3>3. Len(full) \in Nat /\ m \in Nat
      BY <3>1, <3>2
    <3>4. m + 1 \in d..Len(full) /\ Len(wire') = (m + 1) - d /\ Len(script') = Len(full) - (m + 1)
      BY <1>4, <1>5, <3>1, <3>3
    <3>5. \A i \in 1..((m + 1) - d) : wire'[i] = full[d + i]
      <4> SUFFICES ASSUME NEW i \in 1..((m + 1) - d) PROVE wire'[i] = full[d + i]
        OBVIOUS
      <4>1. CASE i \in 1..(m - d)
        BY <1>5, <3>1, <4>1
      <4>2. CASE i = m - d + 1
        <5>1. script[1] = full[m + 1] /\ d + i = m + 1
          BY <1>4, <3>1, <3>3, <4>2
        <5>2. QED
          BY <1>5, <3>1, <4>2, <5>1
      <4>3. QED
        BY <3>1, <3>3, <4>1, <4>2
    <3>6. \A i \in 1..Len(script') : script'[i] = full[(m + 1) + i]
      <4> SUFFICES ASSUME NEW i \in 1..Len(script') PROVE script'[i] = full[(m + 1) + i]
        OBVIOUS
      <4>1. i \in 1..(Len(script) - 1) /\ i + 1 \in 1..Len(script) /\ m + (i + 1) = (m + 1) + i
        BY <1>4, <3>3
      <4>2. QED
        BY <1>4, <3>1, <4>1
    <3>7. QED
      BY <1>1, <1>2, <3>1, <3>4, <3>5, <3>6 DEF Arrived
  <2>4. Sent(r, full, e)'
    BY <2>2 DEF Sent
  <2>5. QED
    BY <1>1, <2>2, <2>3, <2>4 DEF Flowing, LinesLeft
<1>7. said = {} => script = <<>>
  BY DEF CallInv, Unanswered
<1>8. Len(wire') >= Len(wire) /\ ~closed'
  BY <1>1, <1>2, <1>5
<1>9. QED
  BY <1>1, <1>2, <1>6, <1>7, <1>8, ServerSteps

LEMMA ServerCloses == ASSUME CallInv, Close PROVE CallInv'
<1>1. /\ ~closed /\ closed' /\ script' = <<>> /\ UNCHANGED <<pc, good>>
      /\ \/ wire' = wire
         \/ script # <<>> /\ \E item \in CutShort(Head(script)) : wire' = Append(wire, item)
  BY DEF Close
<1>2. wire \in Seq(Items) /\ script \in Seq(Items)
  BY DEF CallInv, CallTypes
<1>3. wire' = wire \/ /\ Len(wire') = Len(wire) + 1
                      /\ \A i \in 1..Len(wire) : wire'[i] = wire[i]
                      /\ wire'[Len(wire) + 1] \in CutShort(script[1])
                      /\ Len(script) \in Nat \ {0}
  <2>1. ASSUME script # <<>>, NEW item \in CutShort(Head(script)), wire' = Append(wire, item)
        PROVE  /\ Len(wire') = Len(wire) + 1
               /\ \A i \in 1..Len(wire) : wire'[i] = wire[i]
               /\ wire'[Len(wire) + 1] \in CutShort(script[1])
               /\ Len(script) \in Nat \ {0}
    <3>1. Head(script) = script[1] /\ Head(script) \in Items /\ Len(script) \in Nat \ {0}
      BY <1>2, <2>1, SeqFacts
    <3>2. item \in Items
      BY <3>1, CutTyped
    <3>3. /\ Len(Append(wire, item)) = Len(wire) + 1
          /\ \A i \in 1..Len(wire) : Append(wire, item)[i] = wire[i]
          /\ Append(wire, item)[Len(wire) + 1] = item
      BY <1>2, <3>2, AppendFacts
    <3>4. QED
      BY <2>1, <3>1, <3>3
  <2>2. QED
    BY <1>1, <2>1
<1>4. Len(wire) \in Nat
  BY <1>2
<1>5. ASSUME NEW r \in said PROVE Flowing(r)'
  <2>1. SUFFICES ASSUME good, pc \in {"status", "headers", "body"} PROVE Flowing(r)'
    BY <1>1 DEF Flowing
  <2>2. PICK full, e, d, m : /\ Sent(r, full, e) /\ Arrived(full, d, m)
                             /\ LinesLeft(e - d)
    BY <2>1 DEF CallInv, Answered, Flowing
  <2>3. Arrived(full, d, m)'
    <3>1. /\ d \in Nat /\ m \in d..Len(full) /\ Len(wire) = m - d
          /\ \A i \in 1..(m - d) : wire[i] = full[d + i]
          /\ Len(script) = Len(full) - m
          /\ \A i \in 1..Len(script) : script[i] = full[m + i]
      BY <1>1, <2>2 DEF Arrived
    <3>2. full \in Seq(Items)
      BY <2>2 DEF Sent
    <3>3. Len(full) \in Nat /\ m \in Nat
      BY <3>1, <3>2
    <3>4. CASE wire' = wire
      BY <1>1, <3>1, <3>4 DEF Arrived
    <3>5. CASE wire' # wire
      <4>1. /\ Len(wire') = m - d + 1 /\ wire'[m - d + 1] \in CutShort(full[m + 1]) /\ m < Len(full)
        <5>1. script[1] = full[m + 1] /\ m < Len(full)
          BY <1>3, <3>1, <3>3, <3>5
        <5>2. QED
          BY <1>3, <3>1, <3>5, <5>1
      <4>2. \A i \in 1..(m - d) : wire'[i] = full[d + i]
        BY <1>3, <3>1, <3>5
      <4>3. QED
        BY <1>1, <3>1, <4>1, <4>2 DEF Arrived
    <3>6. QED
      BY <3>4, <3>5
  <2>4. Sent(r, full, e)'
    BY <2>2 DEF Sent
  <2>5. QED
    BY <1>1, <2>2, <2>3, <2>4 DEF Flowing, LinesLeft
<1>6. said = {} => wire' = wire
  BY <1>1 DEF CallInv, Unanswered
<1>7. Len(wire') >= Len(wire)
  BY <1>3, <1>4
<1>8. QED
  BY <1>1, <1>5, <1>6, <1>7, ServerSteps

-----------------------------------------------------------------------------
(* Lines are read *)

LEMMA LinesLeftFacts ==
    ASSUME NEW n
    PROVE  /\ pc = "status" => (LinesLeft(n) <=> n > 1)
           /\ pc = "headers" => (LinesLeft(n) <=> n > 0)
           /\ pc = "body" => (LinesLeft(n) <=> n = 0)
BY DEF LinesLeft

\* A line that is there is the next one of those that were sent, or what came
\* of it: the empty one is read when all the others have been.
LEMMA LineRead ==
    ASSUME CallInv, GetLine, pc \in {"status", "headers"}, NEW r \in said, good'
    PROVE  \E full, e, d, m : /\ Sent(r, full, e) /\ Arrived(full, d, m)' /\ d - 1 < e
                              /\ LinesLeft(e - (d - 1))
                              /\ Line.kind = "empty" <=> e - d = 0
<1>1. good /\ wire # <<>> /\ wire' = Tail(wire) /\ UNCHANGED <<script, closed>> /\ Line = wire[1]
  <2>1. good /\ wire # <<>> /\ wire' = Tail(wire) /\ UNCHANGED <<script, closed>> /\ Line = Head(wire)
    BY DEF GetLine, Line
  <2>2. wire \in Seq(Items)
    BY DEF CallInv, CallTypes
  <2>3. QED
    BY <2>1, <2>2, SeqFacts
<1>2. /\ Len(wire) \in Nat \ {0} /\ Len(wire') = Len(wire) - 1
      /\ \A i \in 1..(Len(wire) - 1) : wire'[i] = wire[i + 1]
  <2>1. wire \in Seq(Items)
    BY DEF CallInv, CallTypes
  <2>2. QED
    BY <1>1, <2>1, SeqFacts
<1>3. PICK full, e, d, m : Sent(r, full, e) /\ Arrived(full, d, m) /\ LinesLeft(e - d)
  BY <1>1 DEF CallInv, Answered, Flowing
<1>4. /\ d \in Nat /\ m \in d..Len(full)
      /\ \A i \in 1..(m - d) : wire[i] = full[d + i]
      /\ \/ Len(wire) = m - d
         \/ /\ closed /\ m < Len(full) /\ Len(wire) = m - d + 1
            /\ wire[m - d + 1] \in CutShort(full[m + 1])
      /\ ~closed => /\ Len(script) = Len(full) - m
                    /\ \A i \in 1..Len(script) : script[i] = full[m + i]
  BY <1>3 DEF Arrived
<1>5. /\ full \in Seq(Items) /\ Len(full) \in Nat /\ e \in 1..Len(full)
      /\ \A i \in 1..(e - 1) : full[i] \in HeaderLines
      /\ full[e] = EmptyLine
  <2>1. full \in Seq(Items)
    BY <1>3 DEF Sent
  <2>2. Len(full) \in Nat
    BY <2>1
  <2>3. QED
    BY <1>3, <2>1, <2>2 DEF Sent
<1>6. d < e /\ m \in Nat
  <2>1. e - d > 1 \/ e - d > 0
    BY <1>3, LinesLeftFacts
  <2>2. QED
    BY <1>4, <1>5, <2>1
<1>7. IF d + 1 = e THEN full[d + 1] = EmptyLine ELSE full[d + 1] \in HeaderLines
  BY <1>4, <1>5, <1>6
<1>8. CASE m > d
  <2>1. Line = full[d + 1]
    BY <1>1, <1>4, <1>6, <1>8
  <2>2. Arrived(full, d + 1, m)'
    <3>1. d + 1 \in Nat /\ m \in (d + 1)..Len(full)
      BY <1>4, <1>5, <1>8
    <3>2. \A i \in 1..(m - (d + 1)) : wire'[i] = full[(d + 1) + i]
      <4> SUFFICES ASSUME NEW i \in 1..(m - (d + 1)) PROVE wire'[i] = full[(d + 1) + i]
        OBVIOUS
      <4>1. i + 1 \in 1..(m - d) /\ i \in 1..(Len(wire) - 1) /\ d + (i + 1) = (d + 1) + i
        BY <1>2, <1>4, <1>6
      <4>2. wire'[i] = wire[i + 1] /\ wire[i + 1] = full[d + (i + 1)]
        BY <1>2, <1>4, <4>1
      <4>3. QED
        BY <4>1, <4>2
    <3>3. CASE Len(wire) = m - d
      <4>1. Len(wire') = m - (d + 1)
        BY <1>2, <1>4, <1>6, <3>3
      <4>2. QED
        BY <1>1, <1>4, <3>1, <3>2, <4>1 DEF Arrived
    <3>4. CASE Len(wire) # m - d
      <4>1. closed /\ m < Len(full) /\ Len(wire) = m - d + 1 /\ wire[m - d + 1] \in CutShort(full[m + 1])
        BY <1>4, <3>4
      <4>2. Len(wire') = m - (d + 1) + 1 /\ m - (d + 1) + 1 = m - d
        BY <1>2, <1>4, <1>6, <4>1
      <4>3. wire'[m - d] = wire[(m - d) + 1] /\ (m - d) + 1 = m - d + 1
        BY <1>2, <1>4, <1>6, <1>8, <4>1
      <4>4. wire'[m - (d + 1) + 1] \in CutShort(full[m + 1])
        BY <4>1, <4>2, <4>3
      <4>5. QED
        BY <1>1, <3>1, <3>2, <4>1, <4>2, <4>4 DEF Arrived
    <3>5. QED
      BY <3>3, <3>4
  <2>3. /\ (d + 1) - 1 < e /\ LinesLeft(e - ((d + 1) - 1))
        /\ Line.kind = "empty" <=> e - (d + 1) = 0
    <3>1. (d + 1) - 1 = d
      BY <1>6, <1>4
    <3>2. Line.kind = "empty" <=> d + 1 = e
      BY <1>7, <2>1, ItemFacts
    <3>3. QED
      BY <1>3, <1>4, <1>5, <1>6, <3>1, <3>2
  <2>4. QED
    BY <1>3, <2>2, <2>3
<1>9. CASE m = d
  <2>1. closed /\ m < Len(full) /\ Len(wire) = 1 /\ Line \in CutShort(full[d + 1])
    BY <1>1, <1>2, <1>4, <1>9
  <2>2. Arrived(full, d + 1, d + 1)'
    <3>1. d + 1 \in Nat /\ d + 1 \in (d + 1)..Len(full) /\ Len(wire') = (d + 1) - (d + 1)
      BY <1>2, <1>4, <1>5, <1>9, <2>1
    <3>2. \A i \in 1..((d + 1) - (d + 1)) : wire'[i] = full[(d + 1) + i]
      BY <1>4
    <3>3. QED
      BY <1>1, <2>1, <3>1, <3>2 DEF Arrived
  <2>3. /\ (d + 1) - 1 < e /\ LinesLeft(e - ((d + 1) - 1))
        /\ Line.kind = "empty" <=> e - (d + 1) = 0
    <3>1. (d + 1) - 1 = d
      BY <1>6, <1>4
    <3>2. Line.kind = "empty" <=> d + 1 = e
      BY <1>7, <2>1, ItemFacts, CutFacts
    <3>3. QED
      BY <1>3, <1>4, <1>5, <1>6, <3>1, <3>2
  <2>4. QED
    BY <1>3, <2>2, <2>3
<1>10. QED
  BY <1>4, <1>6, <1>8, <1>9

\* A line does not touch the reader.
LEMMA StatusStep == ASSUME CallInv, ReadHTTPStatus PROVE CallInv'
<1>1. /\ pc = "status" /\ pc' = "headers" /\ GetLine /\ nStatus' = StatusOf(Line)
      /\ UNCHANGED <<login, left, nLen, strReply, got, readerVars>>
  BY DEF ReadHTTPStatus
<1>2. UNCHANGED <<said, script, closed>> /\ (wire = <<>> => wire' = wire)
  BY <1>1 DEF GetLine
<1>3. CallTypes'
  <2>1. CallTypes
    BY DEF CallInv
  <2>2. wire' \in Seq(Items) /\ script' \in Seq(Items) /\ closed' \in BOOLEAN /\ good' \in BOOLEAN
        /\ nStatus' \in Nat
    BY <1>1, <2>1, ServerTyped, LineTyped
  <2>3. QED
    BY <1>1, <1>2, <2>1, <2>2 DEF CallTypes
<1>4. PointerInv' /\ ReaderInit'
  BY <1>1, ReaderKept DEF CallInv
<1>5. ASSUME NEW r \in said PROVE Answered(r)'
  <2>1. ASSUME good' PROVE \E full, e, d, m : (Sent(r, full, e) /\ Arrived(full, d, m) /\ LinesLeft(e - d))'
    <3>1. PICK full, e, d, m : /\ Sent(r, full, e) /\ Arrived(full, d, m)' /\ d - 1 < e
                               /\ LinesLeft(e - (d - 1))
      BY <1>1, <1>5, <2>1, LineRead
    <3>2. d \in Nat /\ e \in Nat
      BY <3>1 DEF Sent, Arrived
    <3>3. e - d > 0
      BY <1>1, <3>1, <3>2 DEF LinesLeft
    <3>4. QED
      BY <1>1, <3>1, <3>3 DEF Sent, LinesLeft
  <2>2. Flowing(r)'
    BY <2>1 DEF Flowing
  <2>3. QED
    BY <1>1, <2>2 DEF Answered
<1>6. QED
  BY <1>1, <1>2, <1>3, <1>4, <1>5 DEF CallInv, Unanswered

LEMMA HeaderStep == ASSUME CallInv, ReadHTTPHeader PROVE CallInv'
<1>1. /\ pc = "headers" /\ GetLine
      /\ nLen' = IF Line.kind = "length" THEN Line.n ELSE nLen
      /\ pc' = IF ~(Line.kind = "empty") THEN "headers"
               ELSE IF nLen <= 0 \/ nLen > MAX_SIZE THEN "check" ELSE "body"
      /\ UNCHANGED <<login, left, nStatus, strReply, got, readerVars>>
  BY DEF ReadHTTPHeader, LastHeader
<1>2. UNCHANGED <<said, script, closed>> /\ (wire = <<>> => wire' = wire)
      /\ (Line.kind # "empty" => good')
  BY <1>1, ItemFacts DEF GetLine, Line
<1>3. CallTypes'
  <2>1. CallTypes
    BY DEF CallInv
  <2>2. wire' \in Seq(Items) /\ script' \in Seq(Items) /\ closed' \in BOOLEAN /\ good' \in BOOLEAN
        /\ Line.n \in Int
    BY <1>1, <2>1, ServerTyped, LineTyped
  <2>3. QED
    BY <1>1, <1>2, <2>1, <2>2 DEF CallTypes
<1>4. PointerInv' /\ ReaderInit' /\ text' = text
  BY <1>1, ReaderKept DEF CallInv
<1>5. nLen \in Int /\ MAX_SIZE \in Nat /\ strReply = <<>> /\ strReply' = <<>>
  BY <1>1, MaxSizeAssumption DEF CallInv, CallTypes
<1>6. /\ pc' = "body" => nLen' \in 1..MAX_SIZE
      /\ pc' = "check" => ~(nLen' \in 1..MAX_SIZE)
  BY <1>1, <1>5
<1>7. ASSUME NEW r \in said PROVE Answered(r)'
  <2>1. ASSUME good', pc' # "check"
        PROVE  \E full, e, d, m : (Sent(r, full, e) /\ Arrived(full, d, m) /\ LinesLeft(e - d))'
    <3>1. PICK full, e, d, m : /\ Sent(r, full, e) /\ Arrived(full, d, m)' /\ d - 1 < e
                               /\ Line.kind = "empty" <=> e - d = 0
      BY <1>1, <1>7, <2>1, LineRead
    <3>2. d \in Nat /\ e \in Nat
      BY <3>1 DEF Sent, Arrived
    <3>3. IF pc' = "headers" THEN e - d > 0 ELSE pc' = "body" /\ e - d = 0
      BY <1>1, <2>1, <3>1, <3>2
    <3>4. LinesLeft(e - d)'
      BY <3>3 DEF LinesLeft
    <3>5. QED
      BY <3>1, <3>4 DEF Sent
  <2>2. Flowing(r)'
    BY <2>1 DEF Flowing
  <2>3. Remains(r.text, 0, 0)'
    <3>1. r \in Replies
      BY DEF CallInv, CallTypes
    <3>2. Len(r.text) \in Nat
      BY <3>1, ReplyFacts
    <3>3. \A j \in Nat \ {0} : Coming(j)' = Nul
      BY <1>5 DEF Coming
    <3>4. QED
      BY <3>2, <3>3 DEF Remains
  <2>4. pc' = "check" => ~Complete(r)'
    <3>1. r \in Replies
      BY DEF CallInv, CallTypes
    <3>2. Len(r.text) \in Nat \ {0}
      BY <3>1, ReplyFacts
    <3>3. QED
      BY <1>5, <1>6, <3>2 DEF Complete
  <2>5. pc' \in {"headers", "check", "body"}
    BY <1>1
  <2>6. QED
    BY <1>6, <2>2, <2>3, <2>4, <2>5 DEF Answered, Kept
<1>8. said = {} => Unanswered'
  <2>1. ASSUME said = {} PROVE wire = <<>> /\ nLen = 0 /\ script = <<>>
    BY <2>1 DEF CallInv, Unanswered
  <2>2. wire = <<>> => Line.kind = "empty"
    BY ItemFacts DEF Line
  <2>3. QED
    BY <1>1, <1>2, <1>5, <2>1, <2>2 DEF Unanswered
<1>9. got' = {} /\ pc' \in {"headers", "check", "body"}
  BY <1>1 DEF CallInv
<1>10. QED
  BY <1>2, <1>3, <1>4, <1>5, <1>6, <1>7, <1>8, <1>9 DEF CallInv

-----------------------------------------------------------------------------
(* The body *)

\* What the buffer holds of the reply r, when m of the items up to its end
\* at e have come.
LEMMA BodyItems ==
    ASSUME NEW r \in Replies, NEW full, NEW e, NEW m,
           Sent(r, full, e), Arrived(full, e, m), wire \in Seq(Items)
    PROVE  /\ m - e \in 0..Len(r.text) /\ Len(wire) \in (m - e)..(m - e + 1)
           /\ \A i \in 1..(m - e) : wire[i].token = r.text[i]
           /\ Len(wire) = m - e + 1 => /\ m - e < Len(r.text)
                                       /\ wire[m - e + 1].token \in Rest(r.text[m - e + 1])
<1>1. /\ full \in Seq(Items) /\ e \in 1..Len(full) /\ Len(full) = e + Len(r.text)
      /\ \A i \in 1..Len(r.text) : full[e + i] = Text(r.text[i])
  BY DEF Sent
<1>2. /\ e \in Nat /\ m \in e..Len(full)
      /\ \A i \in 1..(m - e) : wire[i] = full[e + i]
      /\ \/ Len(wire) = m - e
         \/ m < Len(full) /\ Len(wire) = m - e + 1 /\ wire[m - e + 1] \in CutShort(full[m + 1])
  BY DEF Arrived
<1>3. Len(r.text) \in Nat /\ Len(full) \in Nat /\ r.text \in Seq(Tokens) /\ m \in Nat
  BY <1>1, <1>2, ReplyFacts
<1>4. m - e \in 0..Len(r.text) /\ Len(wire) \in (m - e)..(m - e + 1)
  BY <1>1, <1>2, <1>3
<1>5. ASSUME NEW i \in 1..(m - e) PROVE wire[i].token = r.text[i]
  <2>1. i \in 1..Len(r.text)
    BY <1>3, <1>4
  <2>2. wire[i] = Text(r.text[i])
    BY <1>1, <1>2, <2>1
  <2>3. QED
    BY <2>2, ItemFacts
<1>6. ASSUME Len(wire) = m - e + 1
      PROVE  /\ m - e < Len(r.text)
             /\ wire[m - e + 1].token \in Rest(r.text[m - e + 1])
  <2> DEFINE k == m - e + 1
  <2>1. m < Len(full) /\ wire[k] \in CutShort(full[m + 1])
    BY <1>2, <1>3, <1>6
  <2>2. k \in 1..Len(r.text) /\ e + k = m + 1 /\ m - e < Len(r.text)
    BY <1>1, <1>2, <1>3, <2>1
  <2> HIDE DEF k
  <2>3. full[m + 1] = Text(r.text[k]) /\ r.text[k] \in Tokens
    BY <1>1, <1>3, <2>2
  <2>4. PICK u \in Rest(r.text[k]) : wire[k] = Text(u)
    BY <2>1, <2>3, CutFacts
  <2>5. wire[k].token \in Rest(r.text[k])
    BY <2>4, ItemFacts
  <2>6. QED
    BY <2>2, <2>5 DEF k
<1>7. QED
  BY <1>4, <1>5, <1>6

\* The buffer has what came of the reply, and zeros after it.
LEMMA BodyStep == ASSUME CallInv, ReadBody PROVE CallInv'
<1>1. /\ pc = "body" /\ pc' = "check" /\ (Len(wire) >= nLen \/ closed \/ ~good)
      /\ strReply' = [i \in 1..nLen |-> IF good /\ i <= Len(wire) THEN wire[i].token ELSE Nul]
      /\ UNCHANGED <<login, serverVars, left, good, nStatus, nLen, got, readerVars>>
  BY DEF ReadBody
<1>2. UNCHANGED <<said, script, wire, closed>>
  BY <1>1 DEF serverVars
<1>3. nLen \in 1..MAX_SIZE /\ MAX_SIZE \in Nat /\ nLen \in Nat
  BY <1>1, MaxSizeAssumption DEF CallInv
<1>4. /\ PointerInv' /\ ReaderInit' /\ got' = {} /\ said # {}
      /\ wire \in Seq(Items) /\ Len(wire) \in Nat
  BY <1>1, ReaderKept DEF CallInv, CallTypes, Unanswered
<1>5. PICK r \in Replies : said = {r}
  BY <1>4, SaidCases DEF CallInv
<1>6. r.text \in Seq(Tokens) /\ Len(r.text) \in Nat \ {0}
  BY ReplyFacts
<1>7. \A j \in Nat \ {0} : Coming(j)' = IF j <= nLen /\ good /\ j <= Len(wire) THEN wire[j].token ELSE Nul
  <2> SUFFICES ASSUME NEW j \in Nat \ {0}
               PROVE  Coming(j)' = IF j <= nLen /\ good /\ j <= Len(wire) THEN wire[j].token ELSE Nul
    OBVIOUS
  <2>1. Len(strReply') = nLen /\ (j <= nLen => j \in 1..nLen)
    BY <1>1, <1>3
  <2>2. QED
    BY <1>1, <2>1 DEF Coming
<1>8. PICK m : /\ Remains(r.text, 0, m)' /\ Kept(r, m)'
               /\ \A j \in Nat \ {0} : Coming(j)' \in Tokens
  <2>0. Nul \in Tokens
    BY DEF Tokens
  <2>1. CASE ~good
    <3>1. \A j \in Nat \ {0} : Coming(j)' = Nul
      BY <1>7, <2>1
    <3>2. Remains(r.text, 0, 0)'
      BY <1>6, <3>1 DEF Remains
    <3>3. Kept(r, 0)'
      BY <1>1, <2>1 DEF Kept, Complete
    <3>4. QED
      BY <2>0, <3>1, <3>2, <3>3
  <2>2. CASE good
    <3>1. PICK full, e, d, m : Sent(r, full, e) /\ Arrived(full, d, m) /\ LinesLeft(e - d)
      BY <1>1, <1>5, <2>2 DEF CallInv, Answered, Flowing
    <3>2. e \in Nat /\ d \in Nat
      BY <3>1 DEF Sent, Arrived
    <3>3. e = d
      BY <1>1, <3>1, <3>2, LinesLeftFacts
    <3> DEFINE k == m - e
    <3>4. /\ k \in 0..Len(r.text) /\ Len(wire) \in k..(k + 1)
          /\ \A i \in 1..k : wire[i].token = r.text[i]
          /\ Len(wire) = k + 1 => k < Len(r.text) /\ wire[k + 1].token \in Rest(r.text[k + 1])
      BY <1>4, <3>1, <3>3, BodyItems
    <3> HIDE DEF k
    <3>5. PICK l \in 0..Len(r.text) :
            k \in Nat /\ l \in Nat /\ ((l = nLen /\ nLen < k) \/ (l = k /\ k <= nLen))
      BY <1>3, <1>6, <3>4
    <3>6. ASSUME NEW j \in Nat \ {0}, j <= l - 0 PROVE Coming(j)' = r.text[0 + j]
      <4>1. j \in 1..k /\ j <= nLen /\ j <= Len(wire) /\ 0 + j = j
        BY <1>3, <1>4, <3>4, <3>5, <3>6
      <4>2. QED
        BY <1>7, <2>2, <3>4, <4>1
    <3>7. ASSUME NEW j \in Nat \ {0}, j = l - 0 + 1, l < Len(r.text)
          PROVE  Coming(j)' \in Rest(r.text[l + 1]) \cup {Nul}
      BY <1>3, <1>7, <2>2, <3>4, <3>5, <3>7
    <3>8. ASSUME NEW j \in Nat \ {0}, j > l - 0 + 1 \/ (j > l - 0 /\ l = Len(r.text))
          PROVE  Coming(j)' = Nul
      BY <1>3, <1>6, <1>7, <2>2, <3>4, <3>5, <3>8
    <3>9. Remains(r.text, 0, l)'
      <4>1. 0 \in Nat /\ l \in 0..Len(r.text)
        BY <3>5
      <4>2. QED
        BY <4>1, <3>6, <3>7, <3>8 DEF Remains
    <3>10. Kept(r, l)'
      <4> SUFFICES ASSUME Complete(r)', l # Len(r.text) PROVE Meaning(r) = Failed
        BY DEF Kept
      <4>1. nLen >= Len(r.text) /\ Len(wire) >= Len(r.text)
        BY <1>1, <1>2, <1>3, <1>6 DEF Complete
      <4>2. Len(wire) = k + 1 /\ k + 1 = Len(r.text)
        BY <1>3, <1>6, <3>4, <3>5, <4>1
      <4>3. wire[Len(r.text)].token \in Rest(r.text[Len(r.text)]) /\ r.text[Len(r.text)] \in Tokens
        BY <1>6, <3>4, <4>2
      <4>4. r.text[Len(r.text)] \in Atoms
        BY <4>3, RestFacts
      <4>5. QED
        BY <4>4, ReplyFacts
    <3>11. ASSUME NEW j \in Nat \ {0} PROVE Coming(j)' \in Tokens
      <4>1. CASE j <= l
        <5>1. j \in 1..Len(r.text) /\ Coming(j)' = r.text[j]
          BY <1>6, <3>5, <3>6, <4>1
        <5>2. QED
          BY <1>6, <5>1
      <4>2. CASE j = l + 1 /\ l < Len(r.text)
        <5>1. Coming(j)' \in Rest(r.text[l + 1]) \cup {Nul} /\ l + 1 \in 1..Len(r.text)
          BY <1>6, <3>5, <3>7, <4>2
        <5>2. r.text[l + 1] \in Tokens
          BY <1>6, <5>1
        <5>3. QED
          BY <2>0, <5>1, <5>2, RestFacts
      <4>3. CASE j > l + 1 \/ (j > l /\ l = Len(r.text))
        BY <2>0, <3>5, <3>8, <4>3
      <4>4. QED
        BY <1>6, <3>5, <4>1, <4>2, <4>3
    <3>12. QED
      BY <3>9, <3>10, <3>11
  <2>3. QED
    BY <2>1, <2>2
<1>9. strReply' \in Seq(Tokens) /\ strReply' # <<>>
  <2>1. Len(strReply') = nLen
    BY <1>1, <1>3
  <2>2. \A j \in 1..nLen : strReply'[j] \in Tokens
    <3> SUFFICES ASSUME NEW j \in 1..nLen PROVE strReply'[j] \in Tokens
      OBVIOUS
    <3>1. Coming(j)' \in Tokens /\ j <= Len(strReply')
      BY <1>3, <1>8, <2>1
    <3>2. QED
      BY <3>1 DEF Coming
  <2>3. strReply' = [i \in 1..nLen |-> strReply'[i]]
    BY <1>1
  <2>4. strReply' \in Seq(Tokens)
    BY <1>3, <2>2, <2>3
  <2>5. nLen # 0 /\ Len(<<>>) = 0
    BY <1>3
  <2>6. QED
    BY <2>1, <2>4, <2>5
<1>10. CallTypes'
  BY <1>1, <1>2, <1>9 DEF CallInv, CallTypes
<1>11. Answered(r)'
  <2>1. good' /\ ~closed' /\ nLen' \in 1..MAX_SIZE => Len(wire') >= nLen'
    BY <1>1, <1>2
  <2>2. QED
    BY <1>1, <1>8, <1>9, <2>1 DEF Answered, Flowing
<1>12. QED
  BY <1>1, <1>2, <1>4, <1>5, <1>9, <1>10, <1>11 DEF CallInv

LEMMA CheckStep == ASSUME CallInv, CheckStatus PROVE CallInv'
<1>1. /\ pc = "check"
      /\ UNCHANGED <<login, serverVars, left, good, nStatus, nLen, strReply, readerVars>>
      /\ \/ (~Accepted(nStatus) \/ strReply = <<>>) /\ pc' = "done" /\ got' = {Failed}
         \/ strReply # <<>> /\ pc' = "parse" /\ got' = got
  BY DEF CheckStatus, End
<1>2. UNCHANGED <<said, script, wire, closed>>
  BY <1>1 DEF serverVars
<1>3. PointerInv' /\ ReaderInit' /\ got = {}
  BY <1>1, ReaderKept DEF CallInv
<1>4. CallTypes'
  <2>1. \A r \in got' : r.kind \in {"failed", "answer", "error"}
    BY <1>1, <1>3, MeaningKinds
  <2>2. QED
    BY <1>1, <1>2, <2>1 DEF CallInv, CallTypes
<1>5. ASSUME NEW r \in said PROVE Answered(r)'
  <2>1. r \in Replies /\ Answered(r)
    BY DEF CallInv, CallTypes
  <2>2. Complete(r)' <=> Complete(r)
    BY <1>1, <1>2 DEF Complete
  <2>3. Complete(r) => strReply # <<>>
    BY <1>1, <2>1 DEF Answered
  <2>4. pc' = "parse" => Reading(r)'
    <3>1. PICK m : Remains(r.text, 0, m) /\ Kept(r, m)
      BY <1>1, <2>1 DEF Answered
    <3>2. Len(text') = 0
      BY <1>3 DEF ReaderInit
    <3>3. Remains(r.text, 0, m)' /\ Kept(r, m)'
      BY <1>1, <2>2, <3>1 DEF Remains, Coming, Kept
    <3>4. Follows(r.value, r.text, Spans(r.value))'
      <4>1. ReaderInit => Follows(r.value, r.text, Spans(r.value))
        BY <2>1, ReplyFacts, FollowsInit
      <4>2. QED
        BY <1>1, <4>1, ReaderKept DEF CallInv
    <3>5. QED
      BY <3>2, <3>3, <3>4 DEF Reading
  <2>5. pc' \in {"done", "parse"} /\ nStatus' = nStatus
    BY <1>1
  <2>6. pc' = "done" => got' = {Failed} /\ ~(Complete(r)' /\ Accepted(nStatus'))
    BY <1>1, <2>2, <2>3
  <2>7. good' /\ ~closed' /\ nLen' \in 1..MAX_SIZE => Len(wire') >= nLen'
    BY <1>1, <1>2, <2>1 DEF Answered
  <2>8. QED
    BY <2>4, <2>5, <2>6, <2>7 DEF Answered, Flowing
<1>6. said = {} => Unanswered'
  BY <1>1, <1>2 DEF CallInv, Unanswered
<1>7. QED
  BY <1>1, <1>2, <1>3, <1>4, <1>5, <1>6 DEF CallInv

-----------------------------------------------------------------------------
(* The reply is parsed *)

\* A number ends a text only as the whole of it.
LEMMA NumberEnds ==
    ASSUME PointerInv, NEW t \in Numbers, Read(t), at' = "end"
    PROVE  value'[<<>>].type # "obj"
<1>1. t \in Atoms
  BY TokenFacts
<1>2. ReadAtom(t)
  <2>1. ~ReadOpen(t) /\ ~ReadClose(t)
    BY <1>1, TokenFacts DEF ReadOpen, ReadClose, Closing
  <2>2. ~ReadName(t) /\ ~ReadSeparator(t) /\ ~ReadUnwanted(t)
    BY DEF ReadName, ReadSeparator, ReadUnwanted
  <2>3. QED
    BY <2>1, <2>2 DEF Read
<1>3. WantsValue /\ AddToCurrent(Atom(t)) /\ open = <<>>
  BY <1>2 DEF ReadAtom, AfterValue
<1>4. cur = NoPointer /\ Atom(t) \in Parts
  BY <1>1, <1>3, WantsValueFacts, AtomTyped
<1>5. value'[<<>>] = Atom(t)
  BY <1>3, <1>4, AddsRoot
<1>6. Atom(t).type # "obj"
  BY <1>1, AtomNoCompound DEF Compound
<1>7. QED
  BY <1>5, <1>6

LEMMA ReadStep == ASSUME CallInv, ReadString PROVE CallInv'
<1>1. /\ pc = "parse" /\ Read(Coming(1))
      /\ strReply' = IF strReply = <<>> THEN <<>> ELSE Tail(strReply)
      /\ UNCHANGED <<login, serverVars, pc, left, good, nStatus, nLen, got>>
  <2>1. strReply \in Seq(Tokens)
    BY DEF CallInv, CallTypes
  <2>2. IF strReply = <<>> THEN Coming(1) = Nul ELSE Coming(1) = Head(strReply)
    <3>1. strReply # <<>> => Len(strReply) \in Nat \ {0} /\ Head(strReply) = strReply[1]
      BY <2>1, SeqFacts
    <3>2. QED
      BY <3>1 DEF Coming
  <2>3. QED
    BY <2>2 DEF ReadString
<1>2. UNCHANGED <<said, script, wire, closed>>
  BY <1>1 DEF serverVars
<1>3. /\ strReply' \in Seq(Tokens) /\ Coming(1) \in Tokens
      /\ \A j \in Nat \ {0} : Coming(j)' = Coming(j + 1)
  <2>1. strReply \in Seq(Tokens) /\ Nul \in Tokens
    BY DEF CallInv, CallTypes, Tokens
  <2>2. CASE strReply = <<>>
    BY <1>1, <2>1, <2>2 DEF Coming
  <2>3. CASE strReply # <<>>
    <3>1. /\ Len(strReply) \in Nat \ {0} /\ strReply' \in Seq(Tokens)
          /\ Len(strReply') = Len(strReply) - 1
          /\ \A i \in 1..(Len(strReply) - 1) : strReply'[i] = strReply[i + 1]
          /\ strReply[1] \in Tokens
      BY <1>1, <2>1, <2>3, SeqFacts
    <3>2. ASSUME NEW j \in Nat \ {0} PROVE Coming(j)' = Coming(j + 1)
      BY <3>1 DEF Coming
    <3>3. Coming(1) \in Tokens
      BY <3>1 DEF Coming
    <3>4. QED
      BY <3>1, <3>2, <3>3
  <2>4. QED
    BY <2>2, <2>3
<1>4. PointerInv /\ PointerInv' /\ at \notin {"end", "thrown"}
  <2>1. ReaderNext
    BY <1>1, <1>3 DEF ReaderNext
  <2>2. QED
    BY <1>1, <2>1, PointerInvStep DEF CallInv, Read
<1>5. CallTypes'
  BY <1>1, <1>2, <1>3 DEF CallInv, CallTypes
<1>6. ASSUME NEW r \in said PROVE Reading(r)' \/ Lost(r)'
  <2>1. r \in Replies /\ (Reading(r) \/ Lost(r))
    BY <1>1 DEF CallInv, CallTypes, Answered
  <2>2. Complete(r)' <=> Complete(r)
    BY <1>1, <1>2 DEF Complete
  <2>3. CASE Lost(r)
    <3>1. Coming(1) = Nul
      BY <1>4, <2>3 DEF Lost
    <3>2. at' = "thrown"
      BY <1>1, <3>1, TakesNul
    <3>3. QED
      BY <2>2, <2>3, <3>2 DEF Lost
  <2>4. CASE Reading(r)
    <3>1. r.text \in Seq(Tokens) /\ Written(r.value, r.text, Spans(r.value)) /\ Len(r.text) \in Nat
      BY <2>1, ReplyFacts
    <3>2. PICK m : Remains(r.text, Len(text), m) /\ Kept(r, m)
      BY <2>4 DEF Reading
    <3> DEFINE n == Len(text)
    <3>3. /\ n \in Nat /\ m \in n..Len(r.text)
          /\ \A j \in Nat \ {0} :
               /\ j <= m - n => Coming(j) = r.text[n + j]
               /\ j = m - n + 1 /\ m < Len(r.text) => Coming(j) \in Rest(r.text[m + 1]) \cup {Nul}
               /\ j > m - n + 1 \/ (j > m - n /\ m = Len(r.text)) => Coming(j) = Nul
      BY <3>2 DEF Remains
    <3>4. n < Len(r.text)
      <4>1. Follows(r.value, r.text, Spans(r.value))
        BY <2>4 DEF Reading
      <4>2. at = "end" <=> Len(text) = Len(r.text)
        BY <1>4, <3>1, <4>1, FollowsEnds
      <4>3. QED
        BY <1>4, <3>1, <3>3, <4>2
    <3>5. Len(text') = n + 1
      <4>1. text \in Seq(Tokens) /\ text' = Append(text, Coming(1))
        BY <1>1, <1>4 DEF PointerInv, ReaderTypes, Read
      <4>2. QED
        BY <1>3, <4>1, AppendFacts
    <3>6. CASE n < m
      <4>1. Coming(1) = r.text[n + 1]
        BY <3>3, <3>6
      <4>2. Follows(r.value, r.text, Spans(r.value))'
        <5>1. Follows(r.value, r.text, Spans(r.value)) /\ Len(text) < Len(r.text) /\ Read(r.text[Len(text) + 1])
          BY <1>1, <2>4, <3>4, <4>1 DEF Reading
        <5>2. QED
          BY <1>4, <3>1, <5>1, FollowsStep
      <4>3. Remains(r.text, Len(text), m)'
        <5>1. PICK k : k = n
          OBVIOUS
        <5> HIDE DEF n
        <5>2. k \in Nat /\ k + 1 \in Nat /\ m \in (k + 1)..Len(r.text)
          BY <3>3, <3>6, <5>1
        <5>3. ASSUME NEW j \in Nat \ {0}
              PROVE  /\ j <= m - (k + 1) => Coming(j)' = r.text[(k + 1) + j]
                     /\ j = m - (k + 1) + 1 /\ m < Len(r.text) => Coming(j)' \in Rest(r.text[m + 1]) \cup {Nul}
                     /\ j > m - (k + 1) + 1 \/ (j > m - (k + 1) /\ m = Len(r.text)) => Coming(j)' = Nul
          <6>1. /\ j + 1 <= m - k => Coming(j + 1) = r.text[k + (j + 1)]
                /\ j + 1 = m - k + 1 /\ m < Len(r.text) => Coming(j + 1) \in Rest(r.text[m + 1]) \cup {Nul}
                /\ j + 1 > m - k + 1 \/ (j + 1 > m - k /\ m = Len(r.text)) => Coming(j + 1) = Nul
            BY <3>3, <5>1
          <6>2. Coming(j)' = Coming(j + 1)
            BY <1>3
          <6> k \in Int /\ m \in Int
            BY <3>1, <5>2
          <6>3. /\ k + (j + 1) = (k + 1) + j /\ (j + 1 <= m - k <=> j <= m - (k + 1))
                /\ j + 1 = m - k + 1 <=> j = m - (k + 1) + 1
                /\ j + 1 > m - k + 1 <=> j > m - (k + 1) + 1
                /\ j + 1 > m - k <=> j > m - (k + 1)
            OBVIOUS
          <6>4. QED
            BY <6>1, <6>2, <6>3
        <5>4. Remains(r.text, k + 1, m)'
          BY <5>2, <5>3 DEF Remains
        <5>5. QED
          BY <3>5, <5>1, <5>4
      <4>4. Kept(r, m)'
        BY <2>2, <3>2 DEF Kept
      <4>5. QED
        BY <4>2, <4>3, <4>4 DEF Reading
    <3>7. CASE n = m
      <4>1. Complete(r) => Meaning(r) = Failed
        BY <3>2, <3>4, <3>7 DEF Kept
      <4>2. Coming(1) \in Rest(r.text[m + 1]) \cup {Nul} /\ r.text[m + 1] \in Tokens
        BY <3>1, <3>3, <3>4, <3>7
      <4>3. Coming(1) \in Numbers \/ Coming(1) = Nul
        BY <4>2, RestFacts
      <4>4. \A j \in Nat \ {0} : Coming(j)' = Nul
        <5> SUFFICES ASSUME NEW j \in Nat \ {0} PROVE Coming(j)' = Nul
          OBVIOUS
        <5>1. Coming(j)' = Coming(j + 1)
          BY <1>3
        <5>2. Coming(j + 1) = Nul
          BY <3>3, <3>7
        <5>3. QED
          BY <5>1, <5>2
      <4>5. CASE Coming(1) = Nul
        <5>1. at' = "thrown"
          BY <1>1, <4>5, TakesNul
        <5>2. QED
          BY <2>2, <4>1, <5>1 DEF Lost
      <4>6. CASE Coming(1) \in Numbers
        <5>1. at' = "end" => value'[<<>>].type # "obj"
          BY <1>1, <1>4, <4>6, NumberEnds
        <5>2. QED
          BY <2>2, <4>1, <4>4, <5>1 DEF Lost
      <4>7. QED
        BY <4>3, <4>5, <4>6
    <3>8. QED
      BY <3>3, <3>6, <3>7
  <2>5. QED
    BY <2>1, <2>3, <2>4
<1>7. ASSUME NEW r \in said PROVE Answered(r)'
  <2>1. good' /\ ~closed' /\ nLen' \in 1..MAX_SIZE => Len(wire') >= nLen'
    BY <1>1, <1>2 DEF CallInv, Answered
  <2>2. QED
    BY <1>1, <1>6, <2>1 DEF Answered, Flowing
<1>8. said # {} /\ got = {}
  BY <1>1 DEF CallInv, Unanswered
<1>9. QED
  BY <1>1, <1>2, <1>4, <1>5, <1>7, <1>8 DEF CallInv

LEMMA ParseEnds == ASSUME CallInv, NotParsed \/ Parsed PROVE CallInv'
<1>1. /\ pc = "parse" /\ pc' = "done"
      /\ \/ at = "thrown" /\ got' = {Failed}
         \/ at = "end" /\ got' = {MeaningOf(value)}
      /\ UNCHANGED <<login, serverVars, left, good, nStatus, nLen, strReply, readerVars>>
  BY DEF NotParsed, Parsed, End
<1>2. UNCHANGED <<said, script, wire, closed>>
  BY <1>1 DEF serverVars
<1>3. PointerInv /\ PointerInv' /\ said # {}
  BY <1>1, ReaderKept DEF CallInv, Unanswered
<1>4. CallTypes'
  <2>1. \A r \in got' : r.kind \in {"failed", "answer", "error"}
    BY <1>1, MeaningKinds
  <2>2. QED
    BY <1>1, <1>2, <2>1 DEF CallInv, CallTypes
<1>5. ASSUME NEW r \in said
      PROVE  /\ got' = {Failed} \/ got' = {Meaning(r)}
             /\ Complete(r) => got' = {Meaning(r)}
  <2>1. r \in Replies /\ (Reading(r) \/ Lost(r))
    BY <1>1 DEF CallInv, CallTypes, Answered
  <2>2. CASE Reading(r)
    <3>1. r.text \in Seq(Tokens) /\ Written(r.value, r.text, Spans(r.value)) /\ Follows(r.value, r.text, Spans(r.value))
      BY <2>1, <2>2, ReplyFacts DEF Reading
    <3>2. at # "thrown" /\ (at = "end" => value = r.value)
      BY <1>3, <3>1, FollowsEnds
    <3>3. QED
      BY <1>1, <3>2 DEF Meaning
  <2>3. CASE Lost(r)
    <3>1. at = "end" => MeaningOf(value) = Failed
      BY <2>3, NotObjFails DEF Lost
    <3>2. got' = {Failed}
      BY <1>1, <3>1
    <3>3. QED
      BY <2>3, <3>2 DEF Lost
  <2>4. QED
    BY <2>1, <2>2, <2>3
<1>6. ASSUME NEW r \in said PROVE Answered(r)'
  <2>1. good' /\ ~closed' /\ nLen' \in 1..MAX_SIZE => Len(wire') >= nLen'
    BY <1>1, <1>2 DEF CallInv, Answered
  <2>2. Complete(r)' <=> Complete(r)
    BY <1>1, <1>2 DEF Complete
  <2>3. QED
    BY <1>1, <1>5, <2>1, <2>2 DEF Answered, Flowing
<1>7. QED
  BY <1>1, <1>2, <1>3, <1>4, <1>6 DEF CallInv

-----------------------------------------------------------------------------

LEMMA CallInvInit == Init => CallInv
<1> SUFFICES ASSUME Init PROVE CallInv
  OBVIOUS
<1>1. /\ login \in BOOLEAN /\ said = {} /\ script = <<>> /\ wire = <<>> /\ closed = FALSE
      /\ pc = "start" /\ left = Endpoints /\ good = TRUE
      /\ nStatus = 0 /\ nLen = 0 /\ strReply = <<>> /\ got = {} /\ ReaderInit
  BY DEF Init
<1>2. CallTypes
  <2>1. \A S : <<>> \in Seq(S)
    OBVIOUS
  <2>2. strReply \in Seq(Tokens) /\ wire \in Seq(Items) /\ script \in Seq(Items)
    BY <1>1, <2>1
  <2>3. left \in 0..Endpoints /\ nStatus \in Nat /\ nLen \in Int
    BY <1>1, EndpointsAssumption
  <2>4. QED
    BY <1>1, <2>2, <2>3 DEF CallTypes
<1>3. QED
  BY <1>1, <1>2, PointerInvInit DEF CallInv, Unanswered

LEMMA CallInvStep == CallInv /\ [Next]_vars => CallInv'
<1> SUFFICES ASSUME CallInv, [Next]_vars PROVE CallInv'
  OBVIOUS
<1>1. CASE Call
  BY <1>1, SetupSteps, StatusStep, HeaderStep, BodyStep, CheckStep, ReadStep, ParseEnds DEF Call
<1>2. ASSUME NEW r \in Replies, Answer(r) PROVE CallInv'
  BY <1>2, AnswerStep
<1>3. CASE Send
  BY <1>3, SendStep
<1>4. CASE Close
  BY <1>4, ServerCloses
<1>5. CASE UNCHANGED vars
  <2>1. /\ UNCHANGED <<login, said, script, wire, closed, pc, left, good, nStatus, nLen, strReply, got>>
        /\ UNCHANGED readerVars
    BY <1>5 DEF vars, serverVars
  <2>2. PointerInv' /\ (ReaderInit => ReaderInit') /\ text' = text /\ at' = at /\ value' = value
        /\ \A v, t, span : Follows(v, t, span) => Follows(v, t, span)'
    BY <2>1, ReaderKept DEF CallInv
  <2>3. ASSUME NEW r \in said PROVE Answered(r)'
    <3>1. Answered(r)
      BY DEF CallInv
    <3>2. Complete(r)' <=> Complete(r)
      BY <2>1 DEF Complete
    <3>3. Flowing(r)'
      <4>1. Flowing(r)
        BY <3>1 DEF Answered
      <4>2. ASSUME NEW full, NEW e, NEW d, NEW m, Sent(r, full, e), Arrived(full, d, m), LinesLeft(e - d)
            PROVE  (Sent(r, full, e) /\ Arrived(full, d, m) /\ LinesLeft(e - d))'
        BY <2>1, <4>2 DEF Sent, Arrived, LinesLeft
      <4>3. QED
        BY <2>1, <4>1, <4>2 DEF Flowing
    <3>4. \A t, n, m : Remains(t, n, m) => Remains(t, n, m)'
      BY <2>1 DEF Remains, Coming
    <3>5. \A m : Kept(r, m) => Kept(r, m)'
      BY <3>2 DEF Kept
    <3>6. Reading(r) => Reading(r)'
      BY <2>2, <3>4, <3>5 DEF Reading
    <3>7. Lost(r) => Lost(r)'
      BY <2>1, <2>2, <3>2 DEF Lost, Coming
    <3>8. QED
      BY <2>1, <3>1, <3>2, <3>3, <3>4, <3>5, <3>6, <3>7 DEF Answered
  <2>4. CallTypes'
    BY <2>1 DEF CallInv, CallTypes
  <2>5. QED
    BY <2>1, <2>2, <2>3, <2>4 DEF CallInv, Unanswered
<1>6. QED
  BY <1>1, <1>2, <1>3, <1>4, <1>5 DEF Next

LEMMA CallInvHolds == Spec => []CallInv
BY CallInvInit, CallInvStep, PTL DEF Spec

\* The call keeps its types (rpcclient.cpp:62-121).
THEOREM TypesKept == Spec => []TypeOK
<1>1. CallInv => TypeOK
  <2> SUFFICES ASSUME CallInv PROVE TypeOK
    OBVIOUS
  <2>1. strReply \in Seq(Tokens)
    BY DEF CallInv, CallTypes
  <2>2. \A i \in DOMAIN strReply : strReply[i] \in Tokens
    BY <2>1
  <2>3. QED
    BY <2>2 DEF CallInv, CallTypes, TypeOK
<1>2. QED
  BY <1>1, CallInvHolds, PTL

\* Whatever the replies are and wherever the connection breaks, a reply that
\* came whole, with an accepted status, is what the call comes back with
\* (rpcprotocol.cpp:175-216, rpcclient.cpp:94-121, wrap.cpp:33-67).
THEOREM WholeReplyIsTaken == Spec => []WholeReplyTaken
<1>1. CallInv => WholeReplyTaken
  <2> SUFFICES ASSUME CallInv, RepliedWhole, NEW r \in said PROVE got = {Meaning(r)}
    BY DEF WholeReplyTaken
  <2>1. pc = "done" /\ Complete(r) /\ Accepted(nStatus)
    BY DEF RepliedWhole, Complete
  <2>2. QED
    BY <2>1 DEF CallInv, Answered
<1>2. QED
  BY <1>1, CallInvHolds, PTL

\* The call implements Rpc: it fails, or comes back with the meaning of the
\* reply that was said, never with that of a part of it.
THEOREM CallImplementsRpc == Spec => ImplementsRpc
<1>1. Init => Promise!Init
  BY DEF Init, Promise!Init
<1>2. CallInv /\ CallInv' /\ [Next]_vars => [Promise!Next]_<<said, got>>
  <2> SUFFICES ASSUME CallInv, CallInv', [Next]_vars PROVE Promise!Next \/ UNCHANGED <<said, got>>
    BY DEF Promise!vars
  <2>1. ASSUME NEW r \in Replies, Answer(r) PROVE Promise!Next
    <3>1. said = {} /\ got = {} /\ said' = {r} /\ got' = got
      BY <2>1 DEF Answer, CallInv
    <3>2. QED
      BY <3>1 DEF Promise!Next, Promise!Say
  <2>2. CASE Call
    <3>1. said' = said
      BY <2>2 DEF Call, NoLogin, Login, Connect, Refused, Post, ReadHTTPStatus, ReadHTTPHeader, GetLine,
         ReadBody, CheckStatus, ReadString, NotParsed, Parsed, serverVars
    <3>2. got' = got \/ (pc' = "done" /\ pc # "done")
      BY <2>2 DEF Call, NoLogin, Login, Connect, Refused, Post, ReadHTTPStatus, ReadHTTPHeader,
         ReadBody, CheckStatus, ReadString, NotParsed, Parsed, End
    <3>3. CASE pc' = "done" /\ pc # "done"
      <4>1. got = {}
        BY <3>3 DEF CallInv
      <4>2. got' = {Failed} \/ \E r \in said : got' = {Meaning(r)}
        <5>1. CASE said = {}
          BY <3>1, <3>3, <5>1 DEF CallInv, Unanswered
        <5>2. ASSUME NEW r \in said PROVE got' = {Failed} \/ got' = {Meaning(r)}
          BY <3>1, <3>3, <5>2 DEF CallInv, Answered
        <5>3. QED
          BY <5>1, <5>2
      <4>3. QED
        BY <3>1, <4>1, <4>2 DEF Promise!Next, Promise!End
    <3>4. QED
      BY <3>1, <3>2, <3>3
  <2>3. CASE Send \/ Close \/ UNCHANGED vars
    BY <2>3 DEF Send, Close, vars, serverVars
  <2>4. QED
    BY <2>1, <2>2, <2>3 DEF Next
<1>3. QED
  BY <1>1, <1>2, CallInvHolds, PTL DEF Spec, ImplementsRpc, Promise!Spec, Promise!vars
=============================================================================
