---------------------------- MODULE JsonLanguage ----------------------------
(***************************************************************************)
(* The language of JSON, told by the length of its sentences: strings are  *)
(* "str", numbers and literals "atom".                                     *)
(***************************************************************************)
EXTENDS JsonReader, FiniteSetsExt

RECURSIVE ValuesOf(_), ListsOf(_, _)
ValuesOf(n) ==
    (IF n = 1 THEN {<<"str">>, <<"atom">>} ELSE {})
    \cup (IF n < 2 THEN {} ELSE
           {<<BeginArray>> \o l \o <<EndArray>> : l \in ListsOf(n - 2, <<>>)}
           \cup {<<BeginObj>> \o l \o <<EndObj>> : l \in ListsOf(n - 2, <<"str", Colon>>)})

\* Lists of n tokens, each element a value after the tokens of head.
ListsOf(n, head) ==
    LET One(k) == IF k <= Len(head) THEN {} ELSE {head \o v : v \in ValuesOf(k - Len(head))}
    IN (IF n = 0 THEN {<<>>} ELSE One(n))
       \cup UNION {{e \o <<Comma>> \o l : e \in One(k), l \in ListsOf(n - k - 1, head) \ {<<>>}} :
                   k \in 1..(n - 2)}

PrefixBound == 4
SentenceBound == 9   \* "[[{a" is the longest to complete: "[[{a:1}]]"

Beginnings == UNION {{SubSeq(s, 1, k) : k \in 0..Min({Len(s), PrefixBound})} :
                     s \in UNION {ValuesOf(n) : n \in 1..SentenceBound}}

TokenClass(t) ==
    CASE t \in Names -> "str"
      [] t \in Numbers \cup Literals -> "atom"
      [] OTHER -> t

\* The reader throws at the first token that no value can have there, and at
\* no other: checked of the texts of up to PrefixBound tokens.
ThrowsAtFirstWrongToken ==
    Len(text) <= PrefixBound =>
        (at = "thrown" <=> [i \in DOMAIN text |-> TokenClass(text[i])] \notin Beginnings)
=============================================================================
