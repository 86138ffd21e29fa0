----------------------------- MODULE JsonWriter -----------------------------
(***************************************************************************)
(* How json_spirit writes a value (json_spirit_writer_template.h): the     *)
(* text of each part is made of those of its kids.                         *)
(***************************************************************************)
EXTENDS JsonReader

\* One round of output_array_or_obj(): a comma, the name of a member, the
\* kid's own text.
Listed(v, p, n, t) ==
    (IF n > 1 THEN <<Comma>> ELSE <<>>)
    \o (IF v[p].type = "obj" THEN <<v[Append(p, n)].name, Colon>> ELSE <<>>) \o t

\* Generator::output() of the part of v at p, texts being those of its kids.
Output(v, p, texts) ==
    LET kids == FlattenSeq([n \in 1..v[p].kids |-> Listed(v, p, n, texts[Append(p, n)])])
    IN CASE v[p].type = "obj" -> <<BeginObj>> \o kids \o <<EndObj>>
         [] v[p].type = "array" -> <<BeginArray>> \o kids \o <<EndArray>>
         [] OTHER -> <<v[p].atom>>

PartTexts(v) ==
    LET texts[p \in DOMAIN v] == Output(v, p, texts)
    IN texts

Write(v) == PartTexts(v)[<<>>]

\* A member, objects and arrays of given members and elements.
Member(n, v) == [name |-> n, value |-> v]
Build(t, kids) ==
    [p \in {<<>>} \cup UNION {{<<i>> \o q : q \in DOMAIN kids[i].value} : i \in DOMAIN kids} |->
        IF p = <<>> THEN [Compound(t) EXCEPT !.kids = Len(kids)]
        ELSE LET part == kids[Head(p)].value[Tail(p)]
             IN IF Len(p) = 1 THEN [part EXCEPT !.name = kids[Head(p)].name] ELSE part]
Object(members) == Build(BeginObj, members)
Array(values) == Build(BeginArray, [i \in DOMAIN values |-> Member(NoName, values[i])])
=============================================================================
