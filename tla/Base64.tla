------------------------------- MODULE Base64 -------------------------------
(***************************************************************************)
(* EncodeBase64() and DecodeBase64() (utils.cpp).  The client's login goes *)
(* over the wire in this form.  Bytes and characters are numbers 0..255;   *)
(* a C string is read as 0 past its end.                                   *)
(***************************************************************************)
EXTENDS Integers, Sequences

Pad == 61

\* pbase64: the character of six bits.
Pbase64(i) ==
    CASE i < 26 -> 65 + i
      [] i \in 26..51 -> 71 + i
      [] i \in 52..61 -> i - 4
      [] i = 62 -> 43
      [] i = 63 -> 47

\* decode64_table: the six bits of a character, or -1.
Decode64(c) ==
    CASE c \in 65..90 -> c - 65
      [] c \in 97..122 -> c - 71
      [] c \in 48..57 -> c + 4
      [] c = 43 -> 62
      [] c = 47 -> 63
      [] OTHER -> -1

\* A state of the loops: what is written, the bits in hand, how many rounds
\* since there were none.
Begin == [out |-> <<>>, left |-> 0, mode |-> 0]

\* Mutant of EncodeStep: a third byte leaves its two high bits behind.
EncodeStepLoses(s, enc) ==
    CASE s.mode = 0 -> [out |-> Append(s.out, Pbase64(enc \div 4)), left |-> (enc % 4) * 16, mode |-> 1]
      [] s.mode = 1 -> [out |-> Append(s.out, Pbase64(s.left + enc \div 16)), left |-> (enc % 16) * 4, mode |-> 2]
      [] s.mode = 2 -> [s EXCEPT !.out = @ \o <<Pbase64(s.left), Pbase64(enc % 64)>>, !.mode = 0]

EncodeStep(s, enc) ==
    CASE s.mode = 0 -> [out |-> Append(s.out, Pbase64(enc \div 4)), left |-> (enc % 4) * 16, mode |-> 1]
      [] s.mode = 1 -> [out |-> Append(s.out, Pbase64(s.left + enc \div 16)), left |-> (enc % 16) * 4, mode |-> 2]
      [] s.mode = 2 -> [s EXCEPT !.out = @ \o <<Pbase64(s.left + enc \div 64), Pbase64(enc % 64)>>, !.mode = 0]

\* The loop over the bytes.
Encoding(bytes) ==
    LET s[n \in 0..Len(bytes)] == IF n = 0 THEN Begin ELSE EncodeStep(s[n - 1], bytes[n])
    IN s

EncodeBase64(bytes) ==
    LET s == Encoding(bytes)[Len(bytes)]
    IN CASE s.mode = 0 -> s.out
         [] s.mode = 1 -> s.out \o <<Pbase64(s.left), Pad, Pad>>
         [] s.mode = 2 -> s.out \o <<Pbase64(s.left), Pad>>

DecodeStep(s, dec) ==
    CASE s.mode = 0 -> [s EXCEPT !.left = dec, !.mode = 1]
      [] s.mode = 1 -> [out |-> Append(s.out, s.left * 4 + dec \div 16), left |-> dec % 16, mode |-> 2]
      [] s.mode = 2 -> [out |-> Append(s.out, s.left * 16 + dec \div 4), left |-> dec % 4, mode |-> 3]
      [] s.mode = 3 -> [s EXCEPT !.out = Append(@, s.left * 64 + dec), !.mode = 0]

\* The loop over the first n characters.
Decoding(p, n) ==
    LET s[k \in 0..n] == IF k = 0 THEN Begin ELSE DecodeStep(s[k - 1], Decode64(p[k]))
    IN s

At(p, i) == IF i \in DOMAIN p THEN p[i] ELSE 0

\* Decoding stops at the first character of no value.
Valid(p) ==
    CHOOSE n \in 0..Len(p) : Decode64(At(p, n + 1)) = -1 /\ \A i \in 1..n : Decode64(p[i]) # -1

\* Mutant of Ends: the bits in hand may be anything.
EndsLoose(s, p, n) ==
    CASE s.mode = 0 -> TRUE
      [] s.mode = 1 -> FALSE
      [] s.mode = 2 -> At(p, n + 1) = Pad /\ At(p, n + 2) = Pad /\ Decode64(At(p, n + 3)) = -1
      [] s.mode = 3 -> At(p, n + 1) = Pad /\ Decode64(At(p, n + 2)) = -1

\* Whether the text may end as it does after n characters: ~*pfInvalid.
Ends(s, p, n) ==
    CASE s.mode = 0 -> TRUE
      [] s.mode = 1 -> FALSE
      [] s.mode = 2 -> s.left = 0 /\ At(p, n + 1) = Pad /\ At(p, n + 2) = Pad /\ Decode64(At(p, n + 3)) = -1
      [] s.mode = 3 -> s.left = 0 /\ At(p, n + 1) = Pad /\ Decode64(At(p, n + 2)) = -1

DecodeBase64(p) ==
    LET n == Valid(p)
        s == Decoding(p, n)[n]
    IN [bytes |-> s.out, invalid |-> ~Ends(s, p, n)]
=============================================================================
