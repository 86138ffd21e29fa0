----------------------------- MODULE JsonReader -----------------------------
(***************************************************************************)
(* How json_spirit reads a text (json_spirit_reader_template.h): the       *)
(* grammar asks for the next token, and its semantic actions build the     *)
(* value through a pointer to the object or array under construction and   *)
(* a stack of pointers to the ones around it.                              *)
(*                                                                         *)
(* A text is a sequence of tokens.  A value is a function from the paths   *)
(* of its parts to what each of them is; a part has its kids at 1, 2, ...  *)
(* after its own path.  A pointer is the path of its part, so that it is a *)
(* pointer into a vector for every path but the root's, and good for as    *)
(* long as that vector does not grow.                                      *)
(***************************************************************************)
EXTENDS Integers, Sequences, SequencesExt

CONSTANTS
    Names,    \* the strings of a text
    Numbers   \* its integers

Literals == {"true", "false", "null"}
Atoms == Names \cup Numbers \cup Literals
BeginObj == "{"
EndObj == "}"
BeginArray == "["
EndArray == "]"
Comma == ","
Colon == ":"
Openings == {BeginObj, BeginArray}
Brackets == Openings \cup {EndObj, EndArray}

\* What is read at the end of the text, and what a short read is padded with.
Nul == "\\0"

ASSUME TokenAssumption ==
    /\ Names \cap (Numbers \cup Literals) = {} /\ Numbers \cap Literals = {}
    /\ Atoms \cap (Brackets \cup {Comma, Colon, Nul}) = {}

Tokens == Atoms \cup Brackets \cup {Comma, Colon, Nul}

AtomType(t) ==
    CASE t \in Names -> "str"
      [] t \in Numbers -> "int"
      [] t = "null" -> "null"
      [] t \in {"true", "false"} -> "bool"

NoName == ""

\* A part of a value: its name where it is a member, and how many kids it has.
Atom(t) == [type |-> AtomType(t), atom |-> t, name |-> NoName, kids |-> 0]
Compound(t) == [type |-> IF t = BeginObj THEN "obj" ELSE "array", atom |-> NoName, name |-> NoName, kids |-> 0]

\* The shape of every value.
Paths == Seq(Nat \ {0})
Parts == [type : {"str", "int", "null", "bool", "obj", "array"},
          atom : Atoms \cup {NoName}, name : Names \cup {NoName}, kids : Nat]
IsValue(v) == DOMAIN v \subseteq Paths /\ v \in [DOMAIN v -> Parts]

Root(part) == [p \in {<<>>} |-> part]
Null == Root(Atom("null"))

VARIABLES
    text,    \* the tokens read so far
    value,   \* value_: the value under construction
    cur,     \* current_p_: NoPointer, or the path of the open object or array
    stack,   \* stack_: the paths of the objects and arrays around it
    name,    \* name_: the name of the current pair
    open,    \* the grammar's open objects and arrays
    at       \* what the grammar asks for next

readerVars == <<text, value, cur, stack, name, open, at>>

NoPointer == <<0>>

ReaderInit ==
    /\ text = <<>> /\ value = Null
    /\ cur = NoPointer /\ stack = <<>> /\ name = NoName
    /\ open = <<>> /\ at = "value"

-----------------------------------------------------------------------------
(* Semantic actions *)

\* The vector of the part at path p gets one more element.
PushBack(v, p, part) ==
    LET new == Append(p, v[p].kids + 1)
    IN [q \in DOMAIN v \cup {new} |->
          IF q = new THEN part ELSE IF q = p THEN [v[p] EXCEPT !.kids = @ + 1] ELSE v[q]]

\* add_to_current(): a root, or a last element of the open object or array.
AddToCurrent(part) ==
    IF cur = NoPointer THEN value' = Root(part)
    ELSE LET n == IF value[cur].type = "obj" THEN name ELSE NoName
         IN value' = PushBack(value, cur, [part EXCEPT !.name = n])

\* The address add_to_current() returns.
Added == IF cur = NoPointer THEN <<>> ELSE Append(cur, value[cur].kids + 1)

BeginCompound(t) ==
    /\ AddToCurrent(Compound(t))
    /\ stack' = IF cur = NoPointer THEN stack ELSE Append(stack, cur)
    /\ cur' = Added

\* Mutant of EndCompound: the pointer stays on the stack.
EndCompoundKeeps ==
    IF cur = <<>> THEN UNCHANGED <<cur, stack>>
    ELSE cur' = Last(stack) /\ UNCHANGED stack

\* end_compound(): the root has nothing around it.
EndCompound ==
    IF cur = <<>> THEN UNCHANGED <<cur, stack>>
    ELSE cur' = Last(stack) /\ stack' = Front(stack)

-----------------------------------------------------------------------------
(* The grammar.  at is "value" where a value has to come, "first" after an *)
(* opening bracket, "comma" after a comma, "colon" after a name, "next"    *)
(* after an element, "end" after the text's value, "thrown" after the      *)
(* exception.                                                              *)

InObject == open # <<>> /\ Last(open) = BeginObj
InArray == open # <<>> /\ Last(open) = BeginArray

\* Mutant of WantsValue: no comma is needed between two elements.
WantsValueNoComma == at = "value" \/ (InArray /\ at \in {"first", "comma", "next"})

WantsValue == at = "value" \/ (InArray /\ at \in {"first", "comma"})
WantsName == InObject /\ at \in {"first", "comma"}

\* Mutant of WantsClose: members_ and elements_ without the ! before them.
WantsCloseNonempty == open # <<>> /\ at = "next"

WantsClose == open # <<>> /\ at \in {"first", "next"}

Closing == IF InObject THEN EndObj ELSE EndArray
AfterValue(o) == IF o = <<>> THEN "end" ELSE "next"

ReadAtom(t) ==
    /\ t \in Atoms /\ WantsValue
    /\ AddToCurrent(Atom(t))
    /\ cur' = IF cur = NoPointer THEN <<>> ELSE cur
    /\ at' = AfterValue(open)
    /\ UNCHANGED <<stack, name, open>>

ReadOpen(t) ==
    /\ t \in Openings /\ WantsValue
    /\ BeginCompound(t)
    /\ open' = Append(open, t)
    /\ at' = "first"
    /\ UNCHANGED name

\* Mutant of ReadClose: the end of the text closes what is open.
ReadCloseAtEnd(t) ==
    /\ WantsClose /\ t \in {Closing, Nul}
    /\ EndCompound
    /\ open' = Front(open)
    /\ at' = AfterValue(Front(open))
    /\ UNCHANGED <<value, name>>

ReadClose(t) ==
    /\ WantsClose /\ t = Closing
    /\ EndCompound
    /\ open' = Front(open)
    /\ at' = AfterValue(Front(open))
    /\ UNCHANGED <<value, name>>

ReadName(t) ==
    /\ t \in Names /\ WantsName
    /\ name' = t
    /\ at' = "colon"
    /\ UNCHANGED <<value, cur, stack, open>>

ReadSeparator(t) ==
    /\ \/ t = Colon /\ at = "colon" /\ at' = "value"
       \/ t = Comma /\ at = "next" /\ at' = "comma"
    /\ UNCHANGED <<value, cur, stack, name, open>>

\* throw_not_value(), throw_not_object(), throw_not_array(), throw_not_colon().
Wanted(t) ==
    \/ t \in Atoms \cup Openings /\ WantsValue
    \/ t \in Names /\ WantsName
    \/ t = Closing /\ WantsClose
    \/ t = Colon /\ at = "colon"
    \/ t = Comma /\ at = "next"

ReadUnwanted(t) ==
    /\ ~Wanted(t)
    /\ at' = "thrown"
    /\ UNCHANGED <<value, cur, stack, name, open>>

\* read_range(): one more token, until there is a value or an exception.
Read(t) ==
    /\ at \notin {"end", "thrown"}
    /\ text' = Append(text, t)
    /\ \/ ReadAtom(t) \/ ReadOpen(t) \/ ReadClose(t)
       \/ ReadName(t) \/ ReadSeparator(t) \/ ReadUnwanted(t)

\* A text that some program writes, read from its beginning.
ReaderNext == \E t \in Tokens : Read(t)
ReaderSpec == ReaderInit /\ [][ReaderNext]_readerVars

-----------------------------------------------------------------------------
(* json_spirit_writer_template.h *)

\* How many tokens a member has before its value.
Lead(part) == IF part.type = "obj" THEN 2 ELSE 0

\* The part p has the tokens from span[p].first to span[p].last: its own when
\* it has no kids to have, else brackets around its kids and their names.
AtomWritten(v, t, span, p) ==
    /\ t[span[p].first] \in Atoms /\ span[p].last = span[p].first
    /\ v[p].type = AtomType(t[span[p].first]) /\ v[p].atom = t[span[p].first]
    /\ v[p].kids = 0

\* Where the tokens of the part at path q begin that is a kid of the one at p.
Start(v, span, p, q) == span[q].first - Lead(v[p])

KidWritten(v, t, span, p, i) ==
    LET kid == Append(p, i)
        start == Start(v, span, p, kid)
    IN /\ kid \in DOMAIN v
       /\ start = (IF i = 1 THEN span[p].first ELSE span[Append(p, i - 1)].last + 1) + 1
       /\ i # 1 => t[start - 1] = Comma
       /\ IF v[p].type = "obj"
            THEN t[start] = v[kid].name /\ v[kid].name \in Names /\ t[start + 1] = Colon
            ELSE v[kid].name = NoName

CompoundWritten(v, t, span, p) ==
    LET first == span[p].first
        last == span[p].last
        n == v[p].kids
    IN /\ \/ t[first] = BeginObj /\ t[last] = EndObj
          \/ t[first] = BeginArray /\ t[last] = EndArray
       /\ v[p].type = Compound(t[first]).type /\ v[p].atom = NoName
       /\ last = (IF n = 0 THEN first ELSE span[Append(p, n)].last) + 1
       /\ \A i \in 1..n : KidWritten(v, t, span, p, i)

\* The tokens t are what Generator::output() makes of the value v, with every
\* part of it at its span.
Written(v, t, span) ==
    /\ IsValue(v)
    /\ \A p \in DOMAIN v \ {<<>>} : Front(p) \in DOMAIN v /\ Last(p) <= v[Front(p)].kids
    /\ span \in [DOMAIN v -> [first : DOMAIN t, last : DOMAIN t]]
    /\ <<>> \in DOMAIN v /\ v[<<>>].name = NoName /\ span[<<>>] = [first |-> 1, last |-> Len(t)]
    /\ \A p \in DOMAIN v : AtomWritten(v, t, span, p) \/ CompoundWritten(v, t, span, p)

\* <<p, "first">> and <<p, "last">> stand for the first and the last token of
\* the part at p.  Behind which such token each is written, and how far.
Behind(v, x) ==
    LET p == x[1]
        up == Front(p)
    IN IF x[2] = "first" THEN IF Last(p) = 1 THEN <<up, "first">> ELSE <<Append(up, Last(p) - 1), "last">>
       ELSE IF v[p].kids = 0 THEN <<p, "first">> ELSE <<Append(p, v[p].kids), "last">>

Distance(v, x) ==
    LET p == x[1]
    IN IF x[2] = "first" THEN Lead(v[Front(p)]) + (IF Last(p) = 1 THEN 1 ELSE 2)
       ELSE IF v[p].type \in {"obj", "array"} THEN 1 ELSE 0

Positions(v) ==
    LET pos[x \in (DOMAIN v) \X {"first", "last"}] ==
            IF x = <<<<>>, "first">> THEN 1 ELSE pos[Behind(v, x)] + Distance(v, x)
    IN pos

Spans(v) ==
    [p \in DOMAIN v |-> [first |-> Positions(v)[<<p, "first">>], last |-> Positions(v)[<<p, "last">>]]]

\* The part of v at path p, as a value.
Part(v, p) ==
    [q \in {SubSeq(r, Len(p) + 1, Len(r)) : r \in {s \in DOMAIN v : IsPrefix(p, s)}} |->
        IF q = <<>> THEN [v[p] EXCEPT !.name = NoName] ELSE v[p \o q]]

\* find_value(): the first member of that name, or null.
FindValue(obj, n) ==
    LET Named == {i \in 1..obj[<<>>].kids : obj[<<i>>].name = n}
    IN IF Named = {} THEN Null
       ELSE Part(obj, <<CHOOSE i \in Named : \A j \in Named : i <= j>>)

-----------------------------------------------------------------------------

\* The vectors never move under a pointer: every pointer leads to the last
\* element of the vector it points into, and the stack has exactly the
\* objects and arrays the grammar has open (reader_template.h:313-344).
PointersValid ==
    open # <<>> =>
        LET ps == Append(stack, cur)
        IN /\ Len(ps) = Len(open) /\ ps[1] = <<>>
           /\ \A i \in 2..Len(ps) : ps[i] = Append(ps[i - 1], value[ps[i - 1]].kids)
           /\ \A i \in DOMAIN ps : value[ps[i]].type = Compound(open[i]).type

\* A text that has been read is the text the writer makes of the value: no
\* element is lost, doubled, or put into the wrong object.
ReadsWhatIsWritten == at = "end" => Written(value, text, Spans(value))
=============================================================================
