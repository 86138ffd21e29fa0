------------------------------ MODULE JsonText ------------------------------
(***************************************************************************)
(* Strings in a JSON text: how json_spirit_writer_template.h escapes them  *)
(* and json_spirit_reader_template.h takes the escapes out again.  Bytes   *)
(* are numbers 0..255.  No locale is set, so the bytes 32..126 are the     *)
(* printable ones.                                                         *)
(***************************************************************************)
EXTENDS Integers, Sequences

Quote == 34
Backslash == 92

\* add_esc_char(), and the same letters in append_esc_char_and_incr_iter().
Letter ==
    [c \in {Quote, Backslash, 8, 12, 10, 13, 9} |->
        CASE c = Quote -> Quote [] c = Backslash -> Backslash [] c = 8 -> 98 [] c = 12 -> 102
          [] c = 10 -> 110 [] c = 13 -> 114 [] c = 9 -> 116]

ToHexChar(d) == IF d < 10 THEN 48 + d ELSE 55 + d

\* hex_to_num(): 0 for what is no digit.
HexToNum(c) ==
    CASE c \in 48..57 -> c - 48
      [] c \in 97..102 -> c - 87
      [] c \in 65..70 -> c - 55
      [] OTHER -> 0

\* Mutant of EscapeChar: the escape character goes out as it is.
EscapeCharBare(c) ==
    IF c \in DOMAIN Letter \ {Backslash} THEN <<Backslash, Letter[c]>>
    ELSE IF c \in 32..126 THEN <<c>>
    ELSE <<Backslash, 117, 48, 48, ToHexChar(c \div 16), ToHexChar(c % 16)>>

EscapeChar(c) ==
    IF c \in DOMAIN Letter THEN <<Backslash, Letter[c]>>
    ELSE IF c \in 32..126 THEN <<c>>
    ELSE <<Backslash, 117, 48, 48, ToHexChar(c \div 16), ToHexChar(c % 16)>>

\* add_esc_chars(): the loop over the bytes.
Escaping(s) ==
    LET t[n \in 0..Len(s)] == IF n = 0 THEN <<>> ELSE t[n - 1] \o EscapeChar(s[n])
    IN t

\* Generator::output( s )
WriteString(s) == <<Quote>> \o Escaping(s)[Len(s)] \o <<Quote>>

\* append_esc_char_and_incr_iter(): what the escape at s[i] (after its
\* backslash) stands for, and how much of s it takes.  A char is a byte.
Escaped(s, i) ==
    LET Hex(j) == HexToNum(s[i + j])
        Meant == {c \in DOMAIN Letter : Letter[c] = s[i]}
    IN CASE s[i] = 120 /\ i + 2 <= Len(s) -> [bytes |-> <<(16 * Hex(1) + Hex(2)) % 256>>, takes |-> 3]
         [] s[i] = 117 /\ i + 4 <= Len(s) -> [bytes |-> <<(16 * Hex(3) + Hex(4)) % 256>>, takes |-> 5]
         [] s[i] = 47 -> [bytes |-> <<47>>, takes |-> 1]
         [] Meant # {} -> [bytes |-> <<CHOOSE c \in Meant : TRUE>>, takes |-> 1]
         [] OTHER -> [bytes |-> <<>>, takes |-> 1]

\* One round of substitute_esc_chars(), next being what it looks at: a last
\* character is no escape.
UnescapeStep(u, s) ==
    LET e == Escaped(s, u.next + 1)
    IN CASE u.next < Len(s) /\ s[u.next] = Backslash -> [out |-> u.out \o e.bytes, next |-> u.next + 1 + e.takes]
         [] u.next \in DOMAIN s /\ (u.next = Len(s) \/ s[u.next] # Backslash) ->
              [out |-> Append(u.out, s[u.next]), next |-> u.next + 1]
         [] OTHER -> u

\* Its rounds, as many as there can be.
Unescaping(s) ==
    LET u[n \in 0..Len(s)] == IF n = 0 THEN [out |-> <<>>, next |-> 1] ELSE UnescapeStep(u[n - 1], s)
    IN u

\* Whether a backslash takes the n-th character of a text.
Taken(text) ==
    LET t[n \in 0..Len(text)] == n >= 3 /\ text[n - 1] = Backslash /\ ~t[n - 1]
    IN t

\* string_: from a quote to the next one that no backslash takes.
EndOf(text, n) ==
    /\ n \in 2..Len(text) /\ text[1] = Quote /\ text[n] = Quote /\ ~Taken(text)[n]
    /\ \A i \in 2..(n - 1) : text[i] = Quote => Taken(text)[i]

\* The bytes of the string at the head of text, and what is left of text: all
\* of it when there is no string.
ReadStringAt(text) ==
    IF ~ \E n \in 2..Len(text) : EndOf(text, n) THEN [bytes |-> <<>>, rest |-> text]
    ELSE LET n == CHOOSE n \in 2..Len(text) : EndOf(text, n)
             s == SubSeq(text, 2, n - 1)
         IN [bytes |-> Unescaping(s)[Len(s)].out, rest |-> SubSeq(text, n + 1, Len(text))]
=============================================================================
