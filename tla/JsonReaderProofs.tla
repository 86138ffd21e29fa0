-------------------------- MODULE JsonReaderProofs --------------------------
(***************************************************************************)
(* Theorems about JsonReader and JsonWriter: the pointers stay valid on    *)
(* every text, a text that was written for a value is read as that value,  *)
(* no sooner than at its last token, a text that is read is one that was   *)
(* written, for the value it is read as, what the writer makes of any      *)
(* value is such a text, and the reader refuses a text at its first token  *)
(* that goes on as no value's text does.                                   *)
(***************************************************************************)
EXTENDS JsonWriter, SequenceTheorems, WellFoundedInduction, TLAPS

\* The least element of a set of numbers, to reason by induction.
LEMMA LeastNumber ==
    ASSUME NEW S \in SUBSET Nat, S # {}
    PROVE  \E n \in S : \A m \in S : n <= m
<1>1. IsWellFoundedOn(OpToRel(<, Nat), Nat)
  BY NatLessThanWellFounded
<1>2. PICK n \in S : \A m \in S : ~(<<m, n>> \in OpToRel(<, Nat))
  BY <1>1, WFMin
<1>3. \A m \in S : ~(m < n)
  BY <1>2 DEF OpToRel
<1>4. QED
  BY <1>3

-----------------------------------------------------------------------------
(* Sequences, paths and tokens *)

LEMMA AppendFacts ==
    ASSUME NEW S, NEW s \in Seq(S), NEW x \in S
    PROVE  /\ Append(s, x) \in Seq(S) /\ Append(s, x) # <<>>
           /\ Len(Append(s, x)) = Len(s) + 1
           /\ \A i \in 1..Len(s) : Append(s, x)[i] = s[i]
           /\ Append(s, x)[Len(s) + 1] = x
           /\ Front(Append(s, x)) = s /\ Last(Append(s, x)) = x
<1>1. /\ Append(s, x) \in Seq(S) /\ Append(s, x) # <<>>
      /\ Len(Append(s, x)) = Len(s) + 1
      /\ \A i \in 1..Len(s) : Append(s, x)[i] = s[i]
      /\ Append(s, x)[Len(s) + 1] = x
  OBVIOUS
<1>2. Front(Append(s, x)) = s
  BY <1>1 DEF Front
<1>3. QED
  BY <1>1, <1>2 DEF Last

LEMMA FrontFacts ==
    ASSUME NEW S, NEW s \in Seq(S), s # <<>>
    PROVE  /\ Front(s) \in Seq(S) /\ Last(s) \in S /\ Len(Front(s)) = Len(s) - 1
           /\ Len(s) \in Nat \ {0} /\ Last(s) = s[Len(s)]
           /\ \A i \in 1..(Len(s) - 1) : Front(s)[i] = s[i]
           /\ Append(Front(s), Last(s)) = s
<1>1. Len(s) \in Nat \ {0} /\ Last(s) \in S /\ Last(s) = s[Len(s)]
  BY DEF Last
<1>2. /\ Front(s) \in Seq(S) /\ Len(Front(s)) = Len(s) - 1
      /\ \A i \in 1..(Len(s) - 1) : Front(s)[i] = s[i]
  <2>1. \A i \in 1..(Len(s) - 1) : s[i] \in S
    OBVIOUS
  <2> DEFINE n == Len(s) - 1
  <2>2. n \in Nat /\ Front(s) = SubSeq(s, 1, n)
    BY <1>1 DEF Front
  <2> HIDE DEF n
  <2>3. /\ SubSeq(s, 1, n) \in Seq(S)
        /\ Len(SubSeq(s, 1, n)) = IF 1 <= n THEN n - 1 + 1 ELSE 0
        /\ \A i \in 1..(n - 1 + 1) : SubSeq(s, 1, n)[i] = s[1 + i - 1]
    BY <2>1, <2>2, SubSeqProperties DEF n
  <2>4. Len(Front(s)) = n /\ \A i \in 1..n : Front(s)[i] = s[i]
    BY <2>2, <2>3
  <2>5. n = Len(s) - 1
    BY DEF n
  <2>6. QED
    BY <2>2, <2>3, <2>4, <2>5
<1>3. Append(Front(s), Last(s)) = s
  <2> DEFINE r == Append(Front(s), Last(s))
  <2>1. r \in Seq(S) /\ Len(r) = Len(s)
    BY <1>1, <1>2
  <2>2. \A i \in 1..Len(s) : r[i] = s[i]
    BY <1>1, <1>2
  <2>3. QED
    BY <2>1, <2>2, SeqEqual
<1>4. QED
  BY <1>1, <1>2, <1>3

LEMMA TokenFacts ==
    /\ \A t \in Atoms : t \notin Brackets /\ t # Comma /\ t # Colon /\ t # Nul
    /\ Names \subseteq Atoms /\ Numbers \subseteq Atoms
    /\ Openings = {BeginObj, BeginArray} /\ Brackets = Openings \cup {EndObj, EndArray}
    /\ BeginObj # BeginArray /\ EndObj # EndArray
    /\ EndObj \notin Openings /\ EndArray \notin Openings
    /\ Comma \notin Brackets /\ Colon \notin Brackets /\ Nul \notin Brackets
    /\ Comma # Colon /\ Comma # Nul /\ Colon # Nul
<1>1. Names \subseteq Atoms /\ Numbers \subseteq Atoms
  BY DEF Atoms
<1>2. \A t \in Atoms : t \notin Brackets /\ t # Comma /\ t # Colon /\ t # Nul
  BY TokenAssumption
<1>3. /\ BeginObj # BeginArray /\ EndObj # EndArray
      /\ EndObj \notin Openings /\ EndArray \notin Openings
      /\ Comma \notin Brackets /\ Colon \notin Brackets /\ Nul \notin Brackets
      /\ Comma # Colon /\ Comma # Nul /\ Colon # Nul
  BY Zenon DEF BeginObj, BeginArray, EndObj, EndArray, Openings, Brackets, Comma, Colon, Nul
<1>4. QED
  BY <1>1, <1>2, <1>3 DEF Openings, Brackets

-----------------------------------------------------------------------------
(* Types *)

ReaderTypes ==
    /\ text \in Seq(Tokens)
    /\ IsValue(value) /\ <<>> \in DOMAIN value
    /\ cur \in Paths \cup {NoPointer} /\ stack \in Seq(Paths)
    /\ name \in Names \cup {NoName}
    /\ open \in Seq(Openings)
    /\ at \in {"value", "first", "comma", "colon", "next", "end", "thrown"}

\* What the pointers are: of the open objects and arrays, each a kid of the
\* one before; before the first value there are none.
Pointers == Append(stack, cur)

PointerInv ==
    /\ ReaderTypes
    /\ open = <<>> => at \in {"value", "end", "thrown"} /\ (at = "value" => cur = NoPointer /\ stack = <<>>)
    /\ open # <<>> =>
         /\ at # "end" /\ cur # NoPointer /\ Len(open) = Len(stack) + 1
         /\ \A i \in 1..Len(open) :
              /\ Pointers[i] \in DOMAIN value /\ Len(Pointers[i]) = i - 1
              /\ value[Pointers[i]].type = Compound(open[i]).type
              /\ i # 1 => Pointers[i] = Append(Pointers[i - 1], value[Pointers[i - 1]].kids)

LEMMA NoPointerIsNone == NoPointer \notin Paths
BY DEF NoPointer, Paths

LEMMA EmptyPath == <<>> \in Paths /\ Len(<<>>) = 0
BY DEF Paths

LEMMA AtomTyped == ASSUME NEW t \in Atoms PROVE Atom(t) \in Parts
BY DEF Atom, AtomType, Parts, Atoms, Literals

LEMMA CompoundTyped == ASSUME NEW t \in Openings PROVE Compound(t) \in Parts
BY DEF Compound, Parts

\* A part with one more kid, and with another name.
MoreKids(r) == [r EXCEPT !.kids = @ + 1]
Named(r, n) == [r EXCEPT !.name = n]

LEMMA MoreKidsFacts ==
    ASSUME NEW r \in Parts
    PROVE  /\ MoreKids(r) \in Parts
           /\ MoreKids(r).kids = r.kids + 1 /\ MoreKids(r).type = r.type
           /\ MoreKids(r).name = r.name /\ MoreKids(r).atom = r.atom
<1>1. r.kids + 1 \in Nat
  BY DEF Parts
<1>2. QED
  BY <1>1 DEF MoreKids, Parts

LEMMA NamedFacts ==
    ASSUME NEW r \in Parts, NEW n \in Names \cup {NoName}
    PROVE  /\ Named(r, n) \in Parts
           /\ Named(r, n).name = n /\ Named(r, n).type = r.type
           /\ Named(r, n).kids = r.kids /\ Named(r, n).atom = r.atom
BY DEF Named, Parts

\* The path of the next kid of the part of v at path p.
NewPath(v, p) == Append(p, v[p].kids + 1)

LEMMA PushBackFacts ==
    ASSUME NEW v, IsValue(v), NEW p \in DOMAIN v, NEW part \in Parts
    PROVE  /\ NewPath(v, p) \in Paths /\ Len(NewPath(v, p)) = Len(p) + 1
           /\ DOMAIN PushBack(v, p, part) = DOMAIN v \cup {NewPath(v, p)}
           /\ IsValue(PushBack(v, p, part))
           /\ PushBack(v, p, part)[NewPath(v, p)] = part
           /\ PushBack(v, p, part)[p] = MoreKids(v[p])
           /\ PushBack(v, p, part)[p].kids = v[p].kids + 1
           /\ PushBack(v, p, part)[p].type = v[p].type
           /\ \A q \in DOMAIN v \ {p, NewPath(v, p)} : PushBack(v, p, part)[q] = v[q]
<1> DEFINE new == NewPath(v, p)
           w == PushBack(v, p, part)
<1>1. p \in Paths /\ v[p] \in Parts /\ v[p].kids \in Nat
  BY DEF Parts, IsValue
<1>2. new \in Paths /\ Len(new) = Len(p) + 1
  BY <1>1, AppendFacts DEF Paths, NewPath
<1>3. new # p
  <2>1. Len(p) \in Nat
    BY <1>1 DEF Paths
  <2>2. QED
    BY <1>2, <2>1
<1>4. /\ DOMAIN w = DOMAIN v \cup {new} /\ w[new] = part
      /\ w[p] = MoreKids(v[p])
      /\ \A q \in DOMAIN v \ {p, new} : w[q] = v[q]
  BY <1>3 DEF PushBack, MoreKids, NewPath
<1>5. w[p] \in Parts /\ w[p].kids = v[p].kids + 1 /\ w[p].type = v[p].type
  BY <1>1, <1>4, MoreKidsFacts
<1>6. IsValue(w)
  <2>1. \A q \in DOMAIN w : w[q] \in Parts
    BY <1>4, <1>5 DEF IsValue
  <2>2. w = [q \in DOMAIN w |-> w[q]]
    BY <1>4 DEF PushBack
  <2>3. DOMAIN w \subseteq Paths
    BY <1>2, <1>4 DEF IsValue
  <2>4. QED
    BY <2>1, <2>2, <2>3 DEF IsValue
<1>7. QED
  BY <1>2, <1>3, <1>4, <1>5, <1>6

-----------------------------------------------------------------------------
(* The pointers *)

LEMMA CurFacts ==
    ASSUME PointerInv, open # <<>>
    PROVE  /\ cur \in DOMAIN value /\ cur \in Paths /\ cur # NoPointer /\ Len(cur) = Len(open) - 1
           /\ Len(open) \in Nat \ {0} /\ Len(stack) = Len(open) - 1
           /\ Pointers \in Seq(Paths) /\ Len(Pointers) = Len(open) /\ Pointers[Len(open)] = cur
           /\ \A i \in 1..Len(stack) : Pointers[i] = stack[i]
           /\ value[cur].type = Compound(Last(open)).type
<1>1. open \in Seq(Openings) /\ stack \in Seq(Paths) /\ cur \in Paths
      /\ Len(open) = Len(stack) + 1
  BY NoPointerIsNone DEF PointerInv, ReaderTypes
<1>2. Len(open) \in Nat \ {0} /\ Len(stack) = Len(open) - 1 /\ Last(open) = open[Len(open)]
  <2>1. Len(stack) \in Nat
    BY <1>1
  <2>2. QED
    BY <1>1, <2>1 DEF Last
<1>3. /\ Pointers \in Seq(Paths) /\ Len(Pointers) = Len(open) /\ Pointers[Len(open)] = cur
      /\ \A i \in 1..Len(stack) : Pointers[i] = stack[i]
  <2>1. ASSUME NEW s \in Seq(Paths), NEW x \in Paths
        PROVE  /\ Append(s, x) \in Seq(Paths) /\ Len(Append(s, x)) = Len(s) + 1
               /\ \A i \in 1..Len(s) : Append(s, x)[i] = s[i]
               /\ Append(s, x)[Len(s) + 1] = x
    BY AppendFacts
  <2>2. Len(stack) + 1 = Len(open)
    BY <1>1
  <2>3. QED
    BY <1>1, <2>1, <2>2 DEF Pointers
<1>4. /\ Pointers[Len(open)] \in DOMAIN value /\ Len(Pointers[Len(open)]) = Len(open) - 1
      /\ value[Pointers[Len(open)]].type = Compound(open[Len(open)]).type
  BY <1>2 DEF PointerInv
<1>5. cur # NoPointer
  BY DEF PointerInv
<1>6. QED
  BY <1>1, <1>2, <1>3, <1>4, <1>5

\* A value is wanted with a pointer to put it, or it is the text's own.
LEMMA WantsValueFacts ==
    ASSUME PointerInv, WantsValue
    PROVE  (cur = NoPointer <=> open = <<>>) /\ (open = <<>> => stack = <<>>)
BY DEF PointerInv, WantsValue, InArray

\* The value after one more part, and the pointers into it.
LEMMA Adds ==
    ASSUME PointerInv, open # <<>>, NEW part \in Parts, AddToCurrent(part)
    PROVE  /\ Added \in Paths /\ Len(Added) = Len(open) /\ Added # NoPointer
           /\ Added = NewPath(value, cur)
           /\ DOMAIN value' = DOMAIN value \cup {Added}
           /\ IsValue(value')
           /\ value'[Added] = Named(part, IF value[cur].type = "obj" THEN name ELSE NoName)
           /\ value'[cur] = MoreKids(value[cur])
           /\ value'[cur].kids = value[cur].kids + 1 /\ value'[cur].type = value[cur].type
           /\ \A q \in DOMAIN value \ {cur, Added} : value'[q] = value[q]
           /\ \A i \in 1..Len(open) :
                 /\ Pointers[i] \in DOMAIN value'
                 /\ value'[Pointers[i]].type = value[Pointers[i]].type
                 /\ i # Len(open) => value'[Pointers[i]] = value[Pointers[i]]
<1> DEFINE n == IF value[cur].type = "obj" THEN name ELSE NoName
           named == Named(part, n)
<1>0. /\ cur \in DOMAIN value /\ cur \in Paths /\ cur # NoPointer /\ Len(cur) = Len(open) - 1
      /\ Len(open) \in Nat \ {0} /\ Pointers[Len(open)] = cur
  BY CurFacts
<1>1. IsValue(value) /\ name \in Names \cup {NoName}
  BY DEF PointerInv, ReaderTypes
<1>2. named \in Parts
  <2>1. n \in Names \cup {NoName}
    BY <1>1
  <2> HIDE DEF n
  <2>2. QED
    BY <2>1, NamedFacts
<1> HIDE DEF named
<1>3. value' = PushBack(value, cur, named) /\ Added = NewPath(value, cur)
  BY <1>0 DEF AddToCurrent, Added, named, Named, NewPath
<1>4. /\ Added \in Paths /\ Len(Added) = Len(cur) + 1
      /\ DOMAIN value' = DOMAIN value \cup {Added} /\ IsValue(value')
      /\ value'[Added] = named
      /\ value'[cur] = MoreKids(value[cur])
      /\ value'[cur].kids = value[cur].kids + 1 /\ value'[cur].type = value[cur].type
      /\ \A q \in DOMAIN value \ {cur, Added} : value'[q] = value[q]
  <2>0. IsValue(value) /\ cur \in DOMAIN value /\ named \in Parts
    BY <1>0, <1>1, <1>2
  <2>1. /\ NewPath(value, cur) \in Paths /\ Len(NewPath(value, cur)) = Len(cur) + 1
        /\ DOMAIN PushBack(value, cur, named) = DOMAIN value \cup {NewPath(value, cur)}
        /\ IsValue(PushBack(value, cur, named))
        /\ PushBack(value, cur, named)[NewPath(value, cur)] = named
        /\ PushBack(value, cur, named)[cur] = MoreKids(value[cur])
        /\ PushBack(value, cur, named)[cur].kids = value[cur].kids + 1
        /\ PushBack(value, cur, named)[cur].type = value[cur].type
        /\ \A q \in DOMAIN value \ {cur, NewPath(value, cur)} : PushBack(value, cur, named)[q] = value[q]
    BY <2>0, PushBackFacts
  <2>2. QED
    BY <1>3, <2>1
<1>5. Len(Added) = Len(open)
  BY <1>0, <1>4
<1>6. ASSUME NEW i \in 1..Len(open)
      PROVE  /\ Pointers[i] \in DOMAIN value'
             /\ value'[Pointers[i]].type = value[Pointers[i]].type
             /\ i # Len(open) => value'[Pointers[i]] = value[Pointers[i]]
  <2>1. Pointers[i] \in DOMAIN value /\ Len(Pointers[i]) = i - 1
    BY <1>0 DEF PointerInv
  <2>2. Pointers[i] # Added
    BY <1>0, <1>5, <2>1
  <2>3. i # Len(open) => Pointers[i] # cur
    BY <1>0, <2>1
  <2>4. QED
    BY <1>0, <1>4, <2>1, <2>2, <2>3
<1>7. Added # NoPointer
  BY <1>4, NoPointerIsNone
<1>8. QED
  BY <1>1, <1>3, <1>4, <1>5, <1>6, <1>7 DEF named

LEMMA AddsRoot ==
    ASSUME cur = NoPointer, NEW part \in Parts, AddToCurrent(part)
    PROVE  value' = Root(part) /\ Added = <<>>
           /\ DOMAIN value' = {<<>>} /\ IsValue(value') /\ value'[<<>>] = part
BY EmptyPath DEF AddToCurrent, Added, Root, IsValue

LEMMA PointerInvInit == ReaderInit => PointerInv
<1> SUFFICES ASSUME ReaderInit PROVE PointerInv
  OBVIOUS
<1>1. Atom("null") \in Parts
  BY AtomTyped DEF Atoms, Literals
<1>2. IsValue(value) /\ DOMAIN value = {<<>>}
  BY <1>1, EmptyPath DEF ReaderInit, Null, Root, IsValue
<1>3. text \in Seq(Tokens) /\ stack \in Seq(Paths) /\ open \in Seq(Openings)
  <2>1. \A S : <<>> \in Seq(S)
    OBVIOUS
  <2>2. QED
    BY <2>1 DEF ReaderInit
<1>4. QED
  BY <1>2, <1>3, EmptyPath DEF ReaderInit, PointerInv, ReaderTypes

\* The pointers to the open objects and arrays, by themselves.
Leads ==
    \A i \in 1..Len(open) :
        /\ Pointers[i] \in DOMAIN value /\ Len(Pointers[i]) = i - 1
        /\ value[Pointers[i]].type = Compound(open[i]).type
        /\ i # 1 => Pointers[i] = Append(Pointers[i - 1], value[Pointers[i - 1]].kids)

\* Reading a token of the value's own kind adds it where the pointer says.
LEMMA AtomStep ==
    ASSUME PointerInv, NEW t \in Tokens, ReadAtom(t), text' \in Seq(Tokens)
    PROVE  PointerInv'
<1>0. /\ t \in Atoms /\ WantsValue /\ AddToCurrent(Atom(t))
      /\ cur' = IF cur = NoPointer THEN <<>> ELSE cur
      /\ at' = AfterValue(open) /\ stack' = stack /\ name' = name /\ open' = open
  BY DEF ReadAtom
<1>1. Atom(t) \in Parts
  BY <1>0, AtomTyped
<1>2. ReaderTypes
  BY DEF PointerInv
<1>3. at' \in {"value", "first", "comma", "colon", "next", "end", "thrown"}
  BY <1>0 DEF AfterValue
<1>4. CASE open = <<>>
  <2>1. cur = NoPointer
    BY <1>0, <1>4, WantsValueFacts
  <2>2. value' = Root(Atom(t)) /\ DOMAIN value' = {<<>>} /\ IsValue(value')
    BY <1>0, <1>1, <2>1, AddsRoot
  <2>3. ReaderTypes'
    BY <1>0, <1>2, <1>3, <2>1, <2>2, EmptyPath DEF ReaderTypes
  <2>4. at' = "end"
    BY <1>0, <1>4 DEF AfterValue
  <2>5. QED
    BY <1>0, <1>4, <2>3, <2>4 DEF PointerInv
<1>5. CASE open # <<>>
  <2>1. /\ cur \in Paths /\ cur # NoPointer /\ Len(open) \in Nat \ {0}
        /\ Len(Pointers) = Len(open)
    BY <1>5, CurFacts
  <2>2. /\ DOMAIN value' = DOMAIN value \cup {Added} /\ IsValue(value')
        /\ \A i \in 1..Len(open) :
              /\ Pointers[i] \in DOMAIN value'
              /\ value'[Pointers[i]].type = value[Pointers[i]].type
              /\ i # Len(open) => value'[Pointers[i]] = value[Pointers[i]]
    <3>1. AddToCurrent(Atom(t)) /\ Atom(t) \in Parts
      BY <1>0, <1>1
    <3>2. QED
      BY <1>5, <3>1, Adds
  <2>3. cur' = cur /\ Pointers' = Pointers
    BY <1>0, <2>1 DEF Pointers
  <2>4. ReaderTypes'
    BY <1>0, <1>2, <1>3, <2>2, <2>3 DEF ReaderTypes
  <2>5. Leads
    BY <1>5 DEF PointerInv, Leads
  <2>6. Leads'
    <3> SUFFICES ASSUME NEW i \in 1..Len(open)
                 PROVE  /\ Pointers[i] \in DOMAIN value' /\ Len(Pointers[i]) = i - 1
                        /\ value'[Pointers[i]].type = Compound(open[i]).type
                        /\ i # 1 => Pointers[i] = Append(Pointers[i - 1], value'[Pointers[i - 1]].kids)
      BY <1>0, <2>3 DEF Leads
    <3>1. /\ Len(Pointers[i]) = i - 1 /\ value[Pointers[i]].type = Compound(open[i]).type
          /\ i # 1 => Pointers[i] = Append(Pointers[i - 1], value[Pointers[i - 1]].kids)
      BY <2>5 DEF Leads
    <3>2. Pointers[i] \in DOMAIN value' /\ value'[Pointers[i]].type = value[Pointers[i]].type
      BY <2>2
    <3>3. i # 1 => value'[Pointers[i - 1]] = value[Pointers[i - 1]]
      BY <2>1, <2>2
    <3>4. QED
      BY <3>1, <3>2, <3>3
  <2>7. at' # "end" /\ cur' # NoPointer /\ Len(open') = Len(stack') + 1
    BY <1>0, <1>5, <2>1, <2>3 DEF AfterValue, PointerInv
  <2>8. QED
    BY <1>0, <1>5, <2>4, <2>6, <2>7 DEF PointerInv, Leads
<1>6. QED
  BY <1>4, <1>5

LEMMA OpenStep ==
    ASSUME PointerInv, NEW t \in Tokens, ReadOpen(t), text' \in Seq(Tokens)
    PROVE  PointerInv'
<1>0. /\ t \in Openings /\ WantsValue /\ AddToCurrent(Compound(t))
      /\ stack' = IF cur = NoPointer THEN stack ELSE Append(stack, cur)
      /\ cur' = Added /\ open' = Append(open, t) /\ at' = "first" /\ name' = name
  BY DEF ReadOpen, BeginCompound
<1>1. Compound(t) \in Parts
  BY <1>0, CompoundTyped
<1>2. ReaderTypes
  BY DEF PointerInv
<1>3. /\ open' \in Seq(Openings) /\ open' # <<>> /\ Len(open') = Len(open) + 1
      /\ \A i \in 1..Len(open) : open'[i] = open[i]
      /\ open'[Len(open) + 1] = t
  <2>1. open \in Seq(Openings)
    BY <1>2 DEF ReaderTypes
  <2>2. /\ Append(open, t) \in Seq(Openings) /\ Append(open, t) # <<>>
        /\ Len(Append(open, t)) = Len(open) + 1
        /\ \A i \in 1..Len(open) : Append(open, t)[i] = open[i]
        /\ Append(open, t)[Len(open) + 1] = t
    BY <1>0, <2>1, AppendFacts
  <2>3. QED
    BY <1>0, <2>2
<1>4. CASE open = <<>>
  <2>1. cur = NoPointer /\ stack = <<>>
    BY <1>0, <1>4, WantsValueFacts
  <2>2. value' = Root(Compound(t)) /\ DOMAIN value' = {<<>>} /\ IsValue(value')
        /\ value'[<<>>] = Compound(t) /\ cur' = <<>> /\ stack' = <<>>
    <3>1. AddToCurrent(Compound(t)) /\ Compound(t) \in Parts /\ cur = NoPointer
      BY <1>0, <1>1, <2>1
    <3>2. QED
      BY <1>0, <2>1, <3>1, AddsRoot
  <2>3. ReaderTypes'
    BY <1>0, <1>2, <1>3, <2>2, EmptyPath DEF ReaderTypes
  <2>4. Len(open) = 0 /\ Len(open') = 1 /\ open'[1] = t
    BY <1>3, <1>4
  <2>5. Pointers' = <<<<>>>>
    BY <2>2 DEF Pointers
  <2>6. Leads'
    <3>1. Pointers'[1] = <<>> /\ 1..Len(open') = {1}
      BY <2>4, <2>5
    <3>2. QED
      BY <2>2, <2>4, <3>1, EmptyPath DEF Leads
  <2>7. at' # "end" /\ cur' # NoPointer /\ Len(open') = Len(stack') + 1
    <3>1. cur' # NoPointer
      BY <2>2, EmptyPath, NoPointerIsNone
    <3>2. Len(stack') = 0
      BY <2>2
    <3>3. QED
      BY <1>0, <2>4, <3>1, <3>2
  <2>8. QED
    BY <1>3, <2>3, <2>6, <2>7 DEF PointerInv, Leads
<1>5. CASE open # <<>>
  <2>1. /\ cur \in DOMAIN value /\ cur \in Paths /\ cur # NoPointer /\ Len(open) \in Nat \ {0}
        /\ Len(stack) = Len(open) - 1
        /\ Pointers \in Seq(Paths) /\ Len(Pointers) = Len(open) /\ Pointers[Len(open)] = cur
    BY <1>5, CurFacts
  <2>2. /\ Added \in Paths /\ Len(Added) = Len(open) /\ Added # NoPointer
        /\ Added = NewPath(value, cur)
        /\ DOMAIN value' = DOMAIN value \cup {Added} /\ IsValue(value')
        /\ value'[Added] = Named(Compound(t), IF value[cur].type = "obj" THEN name ELSE NoName)
        /\ value'[cur].kids = value[cur].kids + 1
        /\ \A i \in 1..Len(open) :
              /\ Pointers[i] \in DOMAIN value'
              /\ value'[Pointers[i]].type = value[Pointers[i]].type
              /\ i # Len(open) => value'[Pointers[i]] = value[Pointers[i]]
    <3>1. AddToCurrent(Compound(t)) /\ Compound(t) \in Parts
      BY <1>0, <1>1
    <3>2. QED
      BY <1>5, <3>1, Adds
  <2>3. stack' = Pointers /\ cur' = Added
    BY <1>0, <2>1 DEF Pointers
  <2>4. ReaderTypes'
    <3>1. stack' \in Seq(Paths) /\ cur' \in Paths
      BY <2>1, <2>2, <2>3
    <3>2. QED
      BY <1>0, <1>2, <1>3, <2>2, <3>1 DEF ReaderTypes
  <2>5. /\ Len(Pointers') = Len(open') /\ Pointers'[Len(open')] = Added
        /\ \A i \in 1..Len(open) : Pointers'[i] = Pointers[i]
    <3>1. /\ Len(Append(Pointers, Added)) = Len(Pointers) + 1
          /\ \A i \in 1..Len(Pointers) : Append(Pointers, Added)[i] = Pointers[i]
          /\ Append(Pointers, Added)[Len(Pointers) + 1] = Added
      BY <2>1, <2>2, AppendFacts
    <3>2. Pointers' = Append(Pointers, Added)
      BY <2>3 DEF Pointers
    <3>3. QED
      BY <1>3, <2>1, <3>1, <3>2
  <2>6. Leads
    BY <1>5 DEF PointerInv, Leads
  <2>7. Leads'
    <3> SUFFICES ASSUME NEW i \in 1..Len(open')
                 PROVE  /\ Pointers'[i] \in DOMAIN value' /\ Len(Pointers'[i]) = i - 1
                        /\ value'[Pointers'[i]].type = Compound(open'[i]).type
                        /\ i # 1 => Pointers'[i] = Append(Pointers'[i - 1], value'[Pointers'[i - 1]].kids)
      BY DEF Leads
    <3>1. CASE i \in 1..Len(open)
      <4>1. /\ Len(Pointers[i]) = i - 1 /\ value[Pointers[i]].type = Compound(open[i]).type
            /\ i # 1 => Pointers[i] = Append(Pointers[i - 1], value[Pointers[i - 1]].kids)
        BY <2>6, <3>1 DEF Leads
      <4>2. Pointers[i] \in DOMAIN value' /\ value'[Pointers[i]].type = value[Pointers[i]].type
        BY <2>2, <3>1
      <4>3. i # 1 => i - 1 \in 1..Len(open) /\ i - 1 # Len(open)
        BY <2>1, <3>1
      <4>4. i # 1 => value'[Pointers[i - 1]] = value[Pointers[i - 1]]
        BY <2>2, <4>3
      <4>5. Pointers'[i] = Pointers[i] /\ open'[i] = open[i] /\ (i # 1 => Pointers'[i - 1] = Pointers[i - 1])
        BY <1>3, <2>5, <3>1, <4>3
      <4>6. QED
        BY <4>1, <4>2, <4>4, <4>5
    <3>2. CASE i \notin 1..Len(open)
      <4>1. i = Len(open') /\ i = Len(open) + 1 /\ i # 1 /\ i - 1 = Len(open) /\ Len(open) \in 1..Len(open)
        BY <1>3, <2>1, <3>2
      <4>2. Pointers'[i] = Added /\ Pointers'[i - 1] = cur /\ open'[i] = t
        BY <1>3, <2>1, <2>5, <4>1
      <4>3. Added = Append(cur, value'[cur].kids)
        BY <2>2 DEF NewPath
      <4>4. value'[Added].type = Compound(t).type
        <5>1. (IF value[cur].type = "obj" THEN name ELSE NoName) \in Names \cup {NoName}
          BY <1>2 DEF ReaderTypes
        <5>2. QED
          BY <1>1, <2>2, <5>1, NamedFacts
      <4>5. Added \in DOMAIN value' /\ Len(Added) = i - 1
        BY <2>2, <4>1
      <4>6. QED
        BY <4>2, <4>3, <4>4, <4>5
    <3>3. QED
      BY <3>1, <3>2
  <2>8. at' # "end" /\ cur' # NoPointer /\ Len(open') = Len(stack') + 1
    BY <1>0, <1>3, <2>1, <2>2, <2>3
  <2>9. QED
    BY <1>3, <2>4, <2>7, <2>8 DEF PointerInv, Leads
<1>6. QED
  BY <1>4, <1>5

LEMMA CloseStep ==
    ASSUME PointerInv, NEW t \in Tokens, ReadClose(t), text' \in Seq(Tokens)
    PROVE  PointerInv'
<1>0. /\ open # <<>> /\ open' = Front(open) /\ at' = AfterValue(Front(open))
      /\ value' = value /\ name' = name
      /\ IF cur = <<>> THEN cur' = cur /\ stack' = stack
         ELSE cur' = Last(stack) /\ stack' = Front(stack)
  BY DEF ReadClose, WantsClose, EndCompound
<1>1. ReaderTypes
  BY DEF PointerInv
<1>2. /\ cur \in DOMAIN value /\ cur \in Paths /\ cur # NoPointer /\ Len(cur) = Len(open) - 1
      /\ Len(open) \in Nat \ {0} /\ Len(stack) = Len(open) - 1
      /\ \A i \in 1..Len(stack) : Pointers[i] = stack[i]
  BY <1>0, CurFacts
<1>3. /\ open' \in Seq(Openings) /\ Len(open') = Len(open) - 1
      /\ \A i \in 1..(Len(open) - 1) : open'[i] = open[i]
  <2>1. open \in Seq(Openings) /\ open # <<>>
    BY <1>0, <1>1 DEF ReaderTypes
  <2>2. /\ Front(open) \in Seq(Openings) /\ Len(Front(open)) = Len(open) - 1
        /\ \A i \in 1..(Len(open) - 1) : Front(open)[i] = open[i]
    BY <2>1, FrontFacts
  <2>3. QED
    BY <1>0, <2>2
<1>4. at' \in {"end", "next"} /\ (at' = "end" <=> open' = <<>>)
  BY <1>0 DEF AfterValue
<1>5. CASE cur = <<>>
  <2>1. Len(open') = 0
    BY <1>2, <1>3, <1>5, EmptyPath
  <2>2. open' = <<>>
    BY <1>3, <2>1
  <2>3. ReaderTypes'
    BY <1>0, <1>1, <1>3, <1>4, <1>5 DEF ReaderTypes
  <2>4. QED
    BY <1>4, <2>2, <2>3 DEF PointerInv
<1>6. CASE cur # <<>>
  <2>1. Len(cur) \in Nat \ {0}
    BY <1>2, <1>6 DEF Paths
  <2>2. stack \in Seq(Paths) /\ stack # <<>>
    BY <1>1, <1>2, <2>1 DEF ReaderTypes
  <2>3. /\ Front(stack) \in Seq(Paths) /\ Last(stack) \in Paths /\ Len(Front(stack)) = Len(stack) - 1
        /\ Append(Front(stack), Last(stack)) = stack
    BY <2>2, FrontFacts
  <2>4. cur' = Last(stack) /\ stack' = Front(stack) /\ Pointers' = stack
    BY <1>0, <1>6, <2>3 DEF Pointers
  <2>5. cur' \in Paths /\ cur' # NoPointer /\ stack' \in Seq(Paths)
    BY <2>3, <2>4, NoPointerIsNone
  <2>6. ReaderTypes'
    BY <1>0, <1>1, <1>3, <1>4, <2>5 DEF ReaderTypes
  <2>7. open' # <<>> /\ Len(open') = Len(stack) /\ Len(open') = Len(stack') + 1
    BY <1>2, <1>3, <2>1, <2>3, <2>4
  <2>8. Leads
    BY <1>0 DEF PointerInv, Leads
  <2>9. Leads'
    <3> SUFFICES ASSUME NEW i \in 1..Len(open')
                 PROVE  /\ stack[i] \in DOMAIN value /\ Len(stack[i]) = i - 1
                        /\ value[stack[i]].type = Compound(open'[i]).type
                        /\ i # 1 => stack[i] = Append(stack[i - 1], value[stack[i - 1]].kids)
      BY <1>0, <2>4 DEF Leads
    <3>1. /\ i \in 1..Len(open) /\ i \in 1..Len(stack) /\ i \in 1..(Len(open) - 1)
          /\ (i # 1 => i - 1 \in 1..Len(stack))
      BY <1>2, <2>7
    <3>2. stack[i] = Pointers[i] /\ open'[i] = open[i] /\ (i # 1 => stack[i - 1] = Pointers[i - 1])
      BY <1>2, <1>3, <3>1
    <3>3. QED
      BY <2>8, <3>1, <3>2 DEF Leads
  <2>10. QED
    BY <1>4, <2>5, <2>6, <2>7, <2>9 DEF PointerInv, Leads
<1>7. QED
  BY <1>5, <1>6

LEMMA PointerInvStep == PointerInv /\ [ReaderNext]_readerVars => PointerInv'
<1> SUFFICES ASSUME PointerInv, [ReaderNext]_readerVars PROVE PointerInv'
  OBVIOUS
<1>1. CASE UNCHANGED readerVars
  BY <1>1 DEF readerVars, PointerInv, ReaderTypes, Pointers
<1>2. ASSUME NEW t \in Tokens, Read(t) PROVE PointerInv'
  <2>1. text' \in Seq(Tokens)
    BY <1>2 DEF Read, PointerInv, ReaderTypes
  <2>2. CASE ReadAtom(t)
    BY <2>1, <2>2, AtomStep
  <2>3. CASE ReadOpen(t)
    BY <2>1, <2>3, OpenStep
  <2>4. CASE ReadClose(t)
    BY <2>1, <2>4, CloseStep
  <2>5. CASE ReadName(t) \/ ReadSeparator(t) \/ ReadUnwanted(t)
    <3>1. UNCHANGED <<value, cur, stack, open>>
      BY <2>5 DEF ReadName, ReadSeparator, ReadUnwanted
    <3>2. name' \in Names \cup {NoName}
      BY <2>5 DEF ReadName, ReadSeparator, ReadUnwanted, PointerInv, ReaderTypes
    <3>3. at' \in {"value", "comma", "colon", "thrown"} /\ (open = <<>> => at' = "thrown")
      <4>1. open = <<>> => at \in {"value", "end", "thrown"}
        BY DEF PointerInv
      <4>2. QED
        BY <2>5, <4>1 DEF ReadName, ReadSeparator, ReadUnwanted, WantsName, InObject
    <3>4. ReaderTypes'
      BY <2>1, <3>1, <3>2, <3>3 DEF PointerInv, ReaderTypes
    <3>5. QED
      BY <3>1, <3>3, <3>4 DEF PointerInv, Pointers
  <2>6. QED
    BY <1>2, <2>2, <2>3, <2>4, <2>5 DEF Read
<1>3. QED
  BY <1>1, <1>2 DEF ReaderNext

\* No vector moves under a pointer of the reader's, whatever it reads: the
\* property PointersValid, of every text.
THEOREM PointersStayValid == ReaderSpec => []PointersValid
<1>1. ASSUME PointerInv PROVE PointersValid
  <2> SUFFICES ASSUME open # <<>>
               PROVE  /\ Len(Pointers) = Len(open) /\ Pointers[1] = <<>>
                      /\ \A i \in 2..Len(Pointers) :
                            Pointers[i] = Append(Pointers[i - 1], value[Pointers[i - 1]].kids)
                      /\ \A i \in DOMAIN Pointers : value[Pointers[i]].type = Compound(open[i]).type
    BY DEF PointersValid, Pointers
  <2>1. Pointers \in Seq(Paths) /\ Len(Pointers) = Len(open) /\ Len(open) \in Nat \ {0}
    BY <1>1, CurFacts
  <2>2. DOMAIN Pointers = 1..Len(open)
    BY <2>1
  <2>3. \A i \in 1..Len(open) :
           /\ Len(Pointers[i]) = i - 1 /\ value[Pointers[i]].type = Compound(open[i]).type
           /\ i # 1 => Pointers[i] = Append(Pointers[i - 1], value[Pointers[i - 1]].kids)
    BY <1>1 DEF PointerInv
  <2>4. Pointers[1] \in Paths /\ Len(Pointers[1]) = 0
    BY <2>1, <2>3
  <2>5. Pointers[1] = <<>>
    BY <2>4 DEF Paths
  <2>6. \A i \in 2..Len(open) : i \in 1..Len(open) /\ i # 1
    BY <2>1
  <2>7. QED
    BY <2>1, <2>2, <2>3, <2>5, <2>6, Zenon
<1>2. QED
  BY <1>1, PointerInvInit, PointerInvStep, PTL DEF ReaderSpec

-----------------------------------------------------------------------------
(* What is written, from the outside of a part to its kids *)

LEMMA WrittenShape ==
    ASSUME NEW v, NEW t, NEW span, t \in Seq(Tokens), Written(v, t, span)
    PROVE  /\ IsValue(v) /\ <<>> \in DOMAIN v /\ v[<<>>].name = NoName
           /\ Len(t) \in Nat \ {0} /\ span[<<>>].first = 1 /\ span[<<>>].last = Len(t)
           /\ \A p \in DOMAIN v :
                /\ p \in Paths /\ v[p] \in Parts
                /\ span[p].first \in 1..Len(t) /\ span[p].last \in 1..Len(t)
                /\ AtomWritten(v, t, span, p) \/ CompoundWritten(v, t, span, p)
           /\ \A p \in DOMAIN v \ {<<>>} : Front(p) \in DOMAIN v /\ Last(p) <= v[Front(p)].kids
<1>1. IsValue(v) /\ <<>> \in DOMAIN v /\ v[<<>>].name = NoName
      /\ span[<<>>] = [first |-> 1, last |-> Len(t)]
  BY DEF Written
<1>2. DOMAIN t = 1..Len(t) /\ Len(t) \in Nat
  OBVIOUS
<1>3. \A p \in DOMAIN v : span[p] \in [first : 1..Len(t), last : 1..Len(t)]
  BY <1>2 DEF Written
<1>4. \A p \in DOMAIN v : span[p].first \in 1..Len(t) /\ span[p].last \in 1..Len(t)
  BY <1>3
<1>5. span[<<>>].first = 1 /\ span[<<>>].last = Len(t)
  BY <1>1
<1>6. Len(t) \in Nat \ {0}
  BY <1>1, <1>2, <1>4, <1>5
<1>7. \A p \in DOMAIN v : p \in Paths /\ v[p] \in Parts
  BY <1>1 DEF IsValue
<1>8. /\ \A p \in DOMAIN v : AtomWritten(v, t, span, p) \/ CompoundWritten(v, t, span, p)
      /\ \A p \in DOMAIN v \ {<<>>} : Front(p) \in DOMAIN v /\ Last(p) <= v[Front(p)].kids
  BY DEF Written
<1>9. QED
  BY <1>1, <1>4, <1>5, <1>6, <1>7, <1>8

\* The token an atom or a compound begins with, and what it makes the part.
LEMMA AtomPart ==
    ASSUME NEW v, NEW t, NEW span, t \in Seq(Tokens), Written(v, t, span),
           NEW p \in DOMAIN v, t[span[p].first] \in Atoms
    PROVE  /\ span[p].last = span[p].first
           /\ v[p].type = Atom(t[span[p].first]).type /\ v[p].atom = Atom(t[span[p].first]).atom
           /\ v[p].kids = 0
<1>1. AtomWritten(v, t, span, p) \/ CompoundWritten(v, t, span, p)
  BY WrittenShape
<1>2. ~CompoundWritten(v, t, span, p)
  BY TokenFacts DEF CompoundWritten
<1>3. QED
  BY <1>1, <1>2 DEF AtomWritten, Atom

LEMMA CompoundPart ==
    ASSUME NEW v, NEW t, NEW span, t \in Seq(Tokens), Written(v, t, span),
           NEW p \in DOMAIN v, t[span[p].first] \notin Atoms
    PROVE  /\ CompoundWritten(v, t, span, p)
           /\ t[span[p].first] \in Openings
           /\ v[p].type = Compound(t[span[p].first]).type
           /\ v[p].atom = NoName
           /\ v[p].kids \in Nat
           /\ span[p].last = (IF v[p].kids = 0 THEN span[p].first
                              ELSE span[Append(p, v[p].kids)].last) + 1
           /\ t[span[p].last] = (IF v[p].type = "obj" THEN EndObj ELSE EndArray)
<1>1. AtomWritten(v, t, span, p) \/ CompoundWritten(v, t, span, p)
  BY WrittenShape
<1>2. CompoundWritten(v, t, span, p)
  BY <1>1 DEF AtomWritten
<1> DEFINE a == t[span[p].first]
           b == t[span[p].last]
           n == v[p].kids
<1>3. /\ \/ a = BeginObj /\ b = EndObj
         \/ a = BeginArray /\ b = EndArray
      /\ v[p].type = Compound(a).type /\ v[p].atom = NoName
      /\ span[p].last = (IF n = 0 THEN span[p].first ELSE span[Append(p, n)].last) + 1
  BY <1>2 DEF CompoundWritten
<1>4. n \in Nat
  <2>1. v[p] \in Parts
    BY WrittenShape
  <2>2. QED
    BY <2>1 DEF Parts
<1>5. a \in Openings /\ b = (IF v[p].type = "obj" THEN EndObj ELSE EndArray)
  BY <1>3, TokenFacts DEF Compound
<1>6. QED
  BY <1>2, <1>3, <1>4, <1>5

\* A kid and the tokens before it.
LEMMA KidPart ==
    ASSUME NEW v, NEW t, NEW span, t \in Seq(Tokens), Written(v, t, span),
           NEW p \in DOMAIN v, NEW i \in 1..v[p].kids
    PROVE  LET q == Append(p, i)
               start == Start(v, span, p, q)
           IN /\ q \in DOMAIN v /\ q # <<>> /\ t[span[p].first] \notin Atoms
              /\ start = (IF i = 1 THEN span[p].first ELSE span[Append(p, i - 1)].last + 1) + 1
              /\ i # 1 => t[start - 1] = Comma
              /\ v[p].type = "obj" => t[start] = v[q].name /\ v[q].name \in Names /\ t[start + 1] = Colon
              /\ v[p].type # "obj" => v[q].name = NoName
<1> DEFINE q == Append(p, i)
           start == Start(v, span, p, q)
<1>1. p \in Paths /\ v[p] \in Parts /\ v[p].kids \in Nat
  BY WrittenShape DEF Parts
<1>2. t[span[p].first] \notin Atoms
  <2> SUFFICES ASSUME t[span[p].first] \in Atoms PROVE FALSE
    OBVIOUS
  <2>1. v[p].kids = 0
    BY AtomPart
  <2>2. QED
    BY <2>1
<1>3. CompoundWritten(v, t, span, p)
  BY <1>2, CompoundPart
<1>4. /\ q \in DOMAIN v
      /\ start = (IF i = 1 THEN span[p].first ELSE span[Append(p, i - 1)].last + 1) + 1
      /\ i # 1 => t[start - 1] = Comma
      /\ IF v[p].type = "obj"
           THEN t[start] = v[q].name /\ v[q].name \in Names /\ t[start + 1] = Colon
           ELSE v[q].name = NoName
  BY <1>3 DEF CompoundWritten, KidWritten
<1>5. q # <<>>
  <2>1. i \in Nat \ {0}
    BY <1>1
  <2>2. QED
    BY <1>1, <2>1, AppendFacts DEF Paths
<1>6. QED
  BY <1>2, <1>4, <1>5

-----------------------------------------------------------------------------
(* Which alternative of the grammar a token takes *)

LEMMA TakesAtom ==
    ASSUME NEW t \in Atoms, Read(t), WantsValue PROVE ReadAtom(t)
<1>1. ~ReadOpen(t) /\ ~ReadClose(t) /\ ~ReadSeparator(t)
  BY TokenFacts DEF ReadOpen, ReadClose, ReadSeparator, Closing
<1>2. ~ReadName(t)
  BY TokenFacts DEF ReadName, WantsName, WantsValue, InObject, InArray
<1>3. ~ReadUnwanted(t)
  BY DEF ReadUnwanted, Wanted
<1>4. QED
  BY <1>1, <1>2, <1>3 DEF Read

LEMMA TakesOpen ==
    ASSUME NEW t \in Openings, Read(t), WantsValue PROVE ReadOpen(t)
<1>1. t \notin Atoms /\ t # Colon /\ t # Comma /\ t # EndObj /\ t # EndArray
  BY TokenFacts
<1>2. QED
  BY <1>1, TokenFacts DEF Read, ReadAtom, ReadClose, ReadSeparator, Closing, ReadName,
     ReadUnwanted, Wanted

LEMMA TakesClose ==
    ASSUME Read(Closing), WantsClose PROVE ReadClose(Closing)
<1>1. Closing \notin Atoms /\ Closing # Colon /\ Closing # Comma /\ Closing \notin Openings
  BY TokenFacts DEF Closing
<1>2. QED
  BY <1>1, TokenFacts DEF Read, ReadAtom, ReadOpen, ReadSeparator, ReadName, ReadUnwanted, Wanted

LEMMA TakesName ==
    ASSUME NEW t \in Names, Read(t), WantsName PROVE ReadName(t)
<1>1. t \in Atoms
  BY TokenFacts
<1>2. ~ReadOpen(t) /\ ~ReadClose(t) /\ ~ReadSeparator(t)
  BY <1>1, TokenFacts DEF ReadOpen, ReadClose, ReadSeparator, Closing
<1>3. ~ReadAtom(t)
  BY TokenFacts DEF ReadAtom, WantsName, WantsValue, InObject, InArray
<1>4. ~ReadUnwanted(t)
  BY DEF ReadUnwanted, Wanted
<1>5. QED
  BY <1>2, <1>3, <1>4 DEF Read

LEMMA TakesColon ==
    ASSUME Read(Colon), at = "colon"
    PROVE  at' = "value" /\ UNCHANGED <<value, cur, stack, name, open>>
<1>1. Colon \notin Atoms /\ Colon \notin Brackets /\ Colon # Comma
  BY TokenFacts
<1>2. ReadSeparator(Colon)
  BY <1>1, TokenFacts DEF Read, ReadAtom, ReadOpen, ReadClose, Closing, ReadName, ReadUnwanted, Wanted
<1>3. QED
  BY <1>1, <1>2 DEF ReadSeparator

LEMMA TakesComma ==
    ASSUME Read(Comma), at = "next"
    PROVE  at' = "comma" /\ UNCHANGED <<value, cur, stack, name, open>>
<1>1. Comma \notin Atoms /\ Comma \notin Brackets /\ Colon # Comma
  BY TokenFacts
<1>2. ReadSeparator(Comma)
  BY <1>1, TokenFacts DEF Read, ReadAtom, ReadOpen, ReadClose, Closing, ReadName, ReadUnwanted, Wanted
<1>3. QED
  BY <1>1, <1>2 DEF ReadSeparator

\* Nothing has the end of the text in it.
LEMMA TakesNul ==
    ASSUME Read(Nul) PROVE at' = "thrown"
<1>1. Nul \notin Atoms /\ Nul \notin Brackets /\ Colon # Nul /\ Comma # Nul
  BY TokenFacts
<1>2. ReadUnwanted(Nul)
  BY <1>1, TokenFacts DEF Read, ReadAtom, ReadOpen, ReadClose, Closing, ReadName, ReadSeparator
<1>3. QED
  BY <1>2 DEF ReadUnwanted

-----------------------------------------------------------------------------
(* A reader that has read a beginning of what is written *)

SamePart(r, s) == r.type = s.type /\ r.atom = s.atom /\ r.name = s.name

OpenParts == IF open = <<>> THEN {} ELSE {stack[i] : i \in DOMAIN stack} \cup {cur}

\* What has been built is v without the last kids of the open parts.
PartOf(v) ==
    /\ DOMAIN value \subseteq DOMAIN v
    /\ \A q \in DOMAIN value :
         /\ SamePart(value[q], v[q]) /\ value[q].kids <= v[q].kids
         /\ \A i \in 1..value[q].kids : Append(q, i) \in DOMAIN value
         /\ value[q].kids = v[q].kids \/ q \in OpenParts

\* Where in t it is: at the place its pointer, the number of kids there and
\* the grammar say.
Place(v, t, span) ==
    LET n == Len(text)
        k == value[cur].kids
        prev == Append(cur, k)
        next == Append(cur, k + 1)
    IN \/ at = "end" /\ open = <<>> /\ n = Len(t)
       \/ at = "first" /\ open # <<>> /\ k = 0 /\ n = span[cur].first
       \/ at = "next" /\ open # <<>> /\ k > 0 /\ n = span[prev].last
       \/ at = "comma" /\ open # <<>> /\ k > 0 /\ k < v[cur].kids /\ n = span[prev].last + 1
       \/ at = "colon" /\ InObject /\ k < v[cur].kids /\ n = span[next].first - 2 /\ name = v[next].name
       \/ at = "value" /\ InObject /\ k < v[cur].kids /\ n = span[next].first - 1 /\ name = v[next].name

Follows(v, t, span) ==
    /\ Len(text) <= Len(t)
    /\ IF text = <<>> THEN at = "value" /\ open = <<>> ELSE PartOf(v) /\ Place(v, t, span)

LEMMA KidAdded ==
    ASSUME PointerInv, open # <<>>, NEW v, IsValue(v), PartOf(v),
           NEW part \in Parts, part.kids = 0, AddToCurrent(part),
           NEW q, q = NewPath(value, cur), q \in DOMAIN v, value[cur].kids < v[cur].kids,
           v[q].type = part.type, v[q].atom = part.atom,
           v[q].name = IF value[cur].type = "obj" THEN name ELSE NoName,
           OpenParts \subseteq OpenParts', v[q].kids = 0 \/ q \in OpenParts'
    PROVE  PartOf(v)' /\ value'[cur].kids = value[cur].kids + 1 /\ value'[q].kids = 0
<1> DEFINE nm == IF value[cur].type = "obj" THEN name ELSE NoName
<1>1. cur \in DOMAIN value /\ cur \in OpenParts
  BY CurFacts DEF OpenParts
<1>2. /\ q \in Paths /\ q # NoPointer /\ Len(q) = Len(open)
      /\ DOMAIN value' = DOMAIN value \cup {q} /\ IsValue(value')
      /\ value'[q] = Named(part, nm)
      /\ value'[cur] = MoreKids(value[cur]) /\ value'[cur].kids = value[cur].kids + 1
      /\ \A r \in DOMAIN value \ {cur, q} : value'[r] = value[r]
  <2>1. /\ Added \in Paths /\ Len(Added) = Len(open) /\ Added # NoPointer
        /\ Added = NewPath(value, cur)
        /\ DOMAIN value' = DOMAIN value \cup {Added} /\ IsValue(value')
        /\ value'[Added] = Named(part, nm)
        /\ value'[cur] = MoreKids(value[cur]) /\ value'[cur].kids = value[cur].kids + 1
        /\ \A r \in DOMAIN value \ {cur, Added} : value'[r] = value[r]
    BY Adds
  <2> HIDE DEF nm
  <2>2. QED
    BY <2>1
<1>3. IsValue(value) /\ name \in Names \cup {NoName}
  BY DEF PointerInv, ReaderTypes
<1>4. value[cur] \in Parts /\ nm \in Names \cup {NoName}
  BY <1>1, <1>3 DEF IsValue
<1> HIDE DEF nm
<1>5. value'[q].name = nm /\ value'[q].type = part.type /\ value'[q].kids = 0 /\ value'[q].atom = part.atom
  BY <1>2, <1>4, NamedFacts
<1>6. /\ value'[cur].type = value[cur].type /\ value'[cur].name = value[cur].name
      /\ value'[cur].atom = value[cur].atom
  BY <1>2, <1>4, MoreKidsFacts
<1>7. cur # q
  <2>1. Len(cur) = Len(open) - 1 /\ Len(open) \in Nat \ {0}
    BY CurFacts
  <2>2. QED
    BY <1>2, <2>1
<1>8. v[q].kids \in Nat /\ v[cur].kids \in Nat /\ value[cur].kids \in Nat
  BY <1>1, <1>3, <1>4 DEF IsValue, Parts, PartOf
<1>9. ASSUME NEW r \in DOMAIN value'
      PROVE  /\ SamePart(value'[r], v[r]) /\ value'[r].kids <= v[r].kids
             /\ \A i \in 1..value'[r].kids : Append(r, i) \in DOMAIN value'
             /\ value'[r].kids = v[r].kids \/ r \in OpenParts'
  <2>1. CASE r = q
    BY <1>5, <1>8, <2>1 DEF SamePart, nm
  <2>2. CASE r = cur
    <3>1. SamePart(value'[r], v[r])
      BY <1>1, <1>6, <2>2 DEF SamePart, PartOf
    <3>2. value'[r].kids <= v[r].kids
      BY <1>2, <1>8, <2>2
    <3>3. ASSUME NEW i \in 1..value'[r].kids PROVE Append(r, i) \in DOMAIN value'
      <4>1. i \in 1..value[cur].kids \/ i = value[cur].kids + 1
        BY <1>2, <1>8, <2>2
      <4>2. i \in 1..value[cur].kids => Append(cur, i) \in DOMAIN value
        BY <1>1 DEF PartOf
      <4>3. i = value[cur].kids + 1 => Append(cur, i) = q
        BY DEF NewPath
      <4>4. QED
        BY <1>2, <2>2, <4>1, <4>2, <4>3
    <3>4. QED
      BY <1>1, <2>2, <3>1, <3>2, <3>3
  <2>3. CASE r # q /\ r # cur
    <3>1. r \in DOMAIN value /\ value'[r] = value[r]
      BY <1>2, <2>3
    <3>2. /\ SamePart(value[r], v[r]) /\ value[r].kids <= v[r].kids
          /\ \A i \in 1..value[r].kids : Append(r, i) \in DOMAIN value
          /\ value[r].kids = v[r].kids \/ r \in OpenParts
      BY <3>1 DEF PartOf
    <3>3. QED
      BY <1>2, <3>1, <3>2
  <2>4. QED
    BY <2>1, <2>2, <2>3
<1>10. DOMAIN value' \subseteq DOMAIN v
  BY <1>2 DEF PartOf
<1>11. PartOf(v)'
  BY <1>9, <1>10 DEF PartOf
<1>12. QED
  BY <1>2, <1>5, <1>11

LEMMA RootAdded ==
    ASSUME cur = NoPointer, NEW v, IsValue(v), <<>> \in DOMAIN v,
           NEW part \in Parts, part.kids = 0, part.name = NoName, AddToCurrent(part),
           v[<<>>].type = part.type, v[<<>>].atom = part.atom, v[<<>>].name = NoName,
           v[<<>>].kids = 0 \/ <<>> \in OpenParts'
    PROVE  PartOf(v)' /\ value'[<<>>].kids = 0
<1>1. DOMAIN value' = {<<>>} /\ value'[<<>>] = part
  BY AddsRoot
<1>2. v[<<>>].kids \in Nat
  BY DEF IsValue, Parts
<1>3. QED
  BY <1>1, <1>2 DEF PartOf, SamePart

\* The first token of the next part: its own or its opening bracket.
LEMMA BeginsPart ==
    ASSUME PointerInv, NEW v, NEW t, NEW span, t \in Seq(Tokens), Written(v, t, span),
           Follows(v, t, span), NEW tk, Read(tk), WantsValue, NEW q,
           open = <<>> => q = <<>>,
           open # <<>> => /\ PartOf(v) /\ value[cur].kids < v[cur].kids
                          /\ q = NewPath(value, cur) /\ q \in DOMAIN v
                          /\ v[q].name = IF value[cur].type = "obj" THEN name ELSE NoName,
           NEW n \in Nat, n = span[q].first, tk = t[n], Len(text') = n
    PROVE  Follows(v, t, span)'
<1>0. /\ IsValue(v) /\ <<>> \in DOMAIN v /\ v[<<>>].name = NoName /\ q \in DOMAIN v
      /\ Len(t) \in Nat \ {0} /\ span[<<>>].last = Len(t) /\ span[q].first \in 1..Len(t)
      /\ v[q].kids \in Nat
  <2>1. /\ IsValue(v) /\ <<>> \in DOMAIN v /\ v[<<>>].name = NoName
        /\ Len(t) \in Nat \ {0} /\ span[<<>>].last = Len(t)
        /\ \A p \in DOMAIN v : v[p] \in Parts /\ span[p].first \in 1..Len(t)
    BY WrittenShape
  <2>2. q \in DOMAIN v
    BY <2>1
  <2>3. QED
    BY <2>1, <2>2 DEF Parts
<1>1. (cur = NoPointer <=> open = <<>>) /\ (open = <<>> => stack = <<>>)
  BY WantsValueFacts
<1>2. Len(text') <= Len(t) /\ text' # <<>>
  <2>1. n \in 1..Len(t)
    BY <1>0
  <2>2. n # 0 /\ n <= Len(t)
    BY <1>0, <2>1
  <2>3. QED
    BY <2>2
<1>3. open # <<>> => cur \in DOMAIN value /\ cur \in Paths /\ value[cur].kids \in Nat
  <2> SUFFICES ASSUME open # <<>> PROVE cur \in DOMAIN value /\ cur \in Paths /\ value[cur].kids \in Nat
    OBVIOUS
  <2>1. cur \in DOMAIN value /\ cur \in Paths
    BY CurFacts
  <2>2. IsValue(value)
    BY DEF PointerInv, ReaderTypes
  <2>3. QED
    BY <2>1, <2>2 DEF IsValue, Parts
<1>4. CASE tk \in Atoms
  <2>0. ReadAtom(tk)
    BY <1>4, TakesAtom
  <2>1. /\ AddToCurrent(Atom(tk)) /\ cur' = (IF cur = NoPointer THEN <<>> ELSE cur)
        /\ at' = AfterValue(open) /\ stack' = stack /\ name' = name /\ open' = open
    BY <2>0 DEF ReadAtom
  <2>2. Atom(tk) \in Parts /\ Atom(tk).kids = 0 /\ Atom(tk).name = NoName
    BY <1>4, AtomTyped DEF Atom
  <2>3. /\ span[q].last = span[q].first
        /\ v[q].type = Atom(tk).type /\ v[q].atom = Atom(tk).atom /\ v[q].kids = 0
    BY <1>0, <1>4, AtomPart
  <2>4. CASE open = <<>>
    <3>1. cur = NoPointer /\ q = <<>>
      BY <1>1, <2>4
    <3>2. PartOf(v)'
      BY <1>0, <2>1, <2>2, <2>3, <3>1, RootAdded
    <3>3. at' = "end" /\ open' = <<>> /\ Len(text') = Len(t)
      BY <1>0, <2>1, <2>3, <2>4, <3>1 DEF AfterValue
    <3>4. Place(v, t, span)'
      BY <3>3 DEF Place
    <3>5. QED
      BY <1>2, <3>2, <3>4 DEF Follows
  <2>5. CASE open # <<>>
    <3>1. cur' = cur /\ at' = "next" /\ OpenParts' = OpenParts
      BY <1>1, <2>1, <2>5 DEF AfterValue, OpenParts
    <3>2. PartOf(v)' /\ value'[cur].kids = value[cur].kids + 1
      BY <1>0, <2>1, <2>2, <2>3, <2>5, <3>1, KidAdded
    <3>3. Append(cur', value'[cur'].kids) = q /\ value'[cur'].kids > 0 /\ open' # <<>>
      BY <1>3, <2>1, <2>5, <3>1, <3>2 DEF NewPath
    <3>4. Len(text') = span[Append(cur', value'[cur'].kids)].last
      BY <2>3, <3>3
    <3>5. Place(v, t, span)'
      BY <3>1, <3>3, <3>4 DEF Place
    <3>6. QED
      BY <1>2, <3>2, <3>5 DEF Follows
  <2>6. QED
    BY <2>4, <2>5
<1>5. CASE tk \notin Atoms
  <2>0. /\ tk \in Openings /\ v[q].type = Compound(tk).type /\ v[q].atom = NoName
    BY <1>0, <1>5, CompoundPart
  <2>1. ReadOpen(tk)
    BY <2>0, TakesOpen
  <2>2. /\ AddToCurrent(Compound(tk))
        /\ stack' = IF cur = NoPointer THEN stack ELSE Append(stack, cur)
        /\ cur' = Added /\ open' = Append(open, tk) /\ at' = "first" /\ name' = name
    BY <2>1 DEF ReadOpen, BeginCompound
  <2>3. /\ Compound(tk) \in Parts /\ Compound(tk).kids = 0 /\ Compound(tk).name = NoName
        /\ Compound(tk).atom = NoName
    BY <2>0, CompoundTyped DEF Compound
  <2>4. open' # <<>>
    <3>1. open \in Seq(Openings)
      BY DEF PointerInv, ReaderTypes
    <3>2. Append(open, tk) # <<>>
      BY <2>0, <3>1, AppendFacts
    <3>3. QED
      BY <2>2, <3>2
  <2>5. Added = q
    BY <1>1 DEF Added, NewPath
  <2>6. q \in OpenParts'
    BY <2>2, <2>4, <2>5 DEF OpenParts
  <2>7. PartOf(v)' /\ value'[q].kids = 0
    <3>1. CASE open = <<>>
      <4>1. cur = NoPointer /\ q = <<>>
        BY <1>1, <3>1
      <4>2. QED
        BY <1>0, <2>0, <2>2, <2>3, <2>6, <4>1, RootAdded
    <3>2. CASE open # <<>>
      <4>1. OpenParts \subseteq OpenParts'
        <5>1. stack' = Append(stack, cur) /\ stack \in Seq(Paths) /\ cur \in Paths
          BY <1>1, <1>3, <2>2, <3>2 DEF PointerInv, ReaderTypes
        <5>2. /\ Append(stack, cur) \in Seq(Paths)
              /\ Len(Append(stack, cur)) = Len(stack) + 1
              /\ \A i \in 1..Len(stack) : Append(stack, cur)[i] = stack[i]
              /\ Append(stack, cur)[Len(stack) + 1] = cur
          BY <5>1, AppendFacts
        <5>3. /\ DOMAIN stack = 1..Len(stack) /\ DOMAIN stack' = 1..(Len(stack) + 1)
              /\ Len(stack) \in Nat
          BY <5>1, <5>2
        <5>4. \A i \in DOMAIN stack : i \in DOMAIN stack' /\ stack'[i] = stack[i]
          BY <5>1, <5>2, <5>3
        <5>5. Len(stack) + 1 \in DOMAIN stack' /\ stack'[Len(stack) + 1] = cur
          BY <5>1, <5>2, <5>3
        <5>6. QED
          BY <2>4, <3>2, <5>4, <5>5, Zenon DEF OpenParts
      <4>2. QED
        BY <1>0, <2>0, <2>2, <2>3, <2>6, <3>2, <4>1, KidAdded
    <3>3. QED
      BY <3>1, <3>2
  <2>8. Place(v, t, span)'
    BY <2>2, <2>4, <2>5, <2>7 DEF Place
  <2>9. QED
    BY <1>2, <2>7, <2>8 DEF Follows
<1>6. QED
  BY <1>4, <1>5

\* The closing bracket of the open part, with all its kids there.
LEMMA EndsPart ==
    ASSUME PointerInv, NEW v, NEW t, NEW span, t \in Seq(Tokens), Written(v, t, span),
           NEW tk, Read(tk), open # <<>>, at \in {"first", "next"},
           PartOf(v), value[cur].kids = v[cur].kids, t[span[cur].first] \notin Atoms,
           NEW n \in Nat, n = span[cur].last, tk = t[n], Len(text') = n
    PROVE  Follows(v, t, span)'
<1>0. /\ cur \in DOMAIN value /\ cur \in Paths /\ Len(cur) = Len(open) - 1
      /\ Len(open) \in Nat \ {0} /\ Len(stack) = Len(open) - 1
      /\ Pointers[Len(open)] = cur
      /\ \A i \in 1..Len(stack) : Pointers[i] = stack[i]
      /\ value[cur].type = Compound(Last(open)).type
  BY CurFacts
<1>1. cur \in DOMAIN v /\ v[cur].type = value[cur].type
  BY <1>0 DEF PartOf, SamePart
<1>2. /\ Len(t) \in Nat \ {0} /\ span[<<>>].last = Len(t) /\ n \in 1..Len(t)
      /\ t[n] = (IF v[cur].type = "obj" THEN EndObj ELSE EndArray)
  BY <1>1, WrittenShape, CompoundPart
<1>3. Len(text') <= Len(t) /\ text' # <<>>
  <2>1. n # 0 /\ n <= Len(t)
    BY <1>2
  <2>2. QED
    BY <2>1
<1>4. open \in Seq(Openings) /\ Last(open) \in Openings
  <2>1. open \in Seq(Openings)
    BY DEF PointerInv, ReaderTypes
  <2>2. QED
    BY <2>1, FrontFacts
<1>5. tk = Closing
  <2>1. InObject <=> v[cur].type = "obj"
    BY <1>0, <1>1, <1>4, TokenFacts DEF InObject, Compound
  <2>2. QED
    BY <1>2, <2>1 DEF Closing
<1>6. /\ value' = value /\ name' = name /\ open' = Front(open) /\ at' = AfterValue(Front(open))
      /\ IF cur = <<>> THEN cur' = cur /\ stack' = stack
         ELSE cur' = Last(stack) /\ stack' = Front(stack)
  <2>1. ReadClose(Closing)
    BY <1>5, TakesClose DEF WantsClose
  <2>2. QED
    BY <2>1 DEF ReadClose, EndCompound
<1>7. Len(Front(open)) = Len(open) - 1 /\ Front(open) \in Seq(Openings)
  BY <1>4, FrontFacts
<1>8. stack \in Seq(Paths)
  BY DEF PointerInv, ReaderTypes
<1>9. ASSUME OpenParts \subseteq OpenParts' \cup {cur} PROVE PartOf(v)'
  <2>1. \A q \in DOMAIN value : q \in OpenParts => q \in OpenParts' \/ q = cur
    BY <1>9
  <2>2. ASSUME NEW q \in DOMAIN value
        PROVE  value[q].kids = v[q].kids \/ q \in OpenParts'
    BY <2>1 DEF PartOf
  <2>3. QED
    BY <1>6, <2>2 DEF PartOf
<1>10. CASE cur = <<>>
  <2>1. Len(open) = 1 /\ Len(stack) = 0 /\ Len(Front(open)) = 0
    BY <1>0, <1>7, <1>10, EmptyPath
  <2>2. open' = <<>> /\ at' = "end"
    BY <1>6, <1>7, <2>1 DEF AfterValue
  <2>3. DOMAIN stack = {}
    BY <1>8, <2>1
  <2>4. PartOf(v)'
    <3>1. OpenParts = {cur}
      BY <2>3 DEF OpenParts
    <3>2. QED
      BY <1>9, <3>1
  <2>5. Place(v, t, span)'
    BY <1>2, <1>10, <2>2 DEF Place
  <2>6. QED
    BY <1>3, <2>4, <2>5 DEF Follows
<1>11. CASE cur # <<>>
  <2>1. Len(cur) \in Nat \ {0}
    BY <1>0, <1>11 DEF Paths
  <2>2. Len(stack) \in Nat \ {0} /\ stack # <<>> /\ Len(Front(open)) # 0
    BY <1>0, <1>7, <1>8, <2>1
  <2>3. Front(open) # <<>>
    BY <2>2
  <2>4. open' # <<>> /\ at' = "next"
    BY <1>6, <2>3 DEF AfterValue
  <2>5. /\ Front(stack) \in Seq(Paths) /\ Last(stack) \in Paths /\ Last(stack) = stack[Len(stack)]
        /\ Len(Front(stack)) = Len(stack) - 1
        /\ \A i \in 1..(Len(stack) - 1) : Front(stack)[i] = stack[i]
    BY <1>8, <2>2, FrontFacts
  <2>6. cur' = stack[Len(stack)] /\ stack' = Front(stack)
    BY <1>6, <1>11, <2>5
  <2>7. OpenParts \subseteq OpenParts' \cup {cur}
    <3>1. /\ DOMAIN stack = 1..Len(stack) /\ DOMAIN stack' = 1..(Len(stack) - 1)
      BY <1>8, <2>2, <2>5, <2>6
    <3>2. \A i \in DOMAIN stack : i = Len(stack) \/ (i \in DOMAIN stack' /\ stack'[i] = stack[i])
      BY <2>2, <2>5, <2>6, <3>1
    <3>3. QED
      BY <2>4, <2>6, <3>2, Zenon DEF OpenParts
  <2>8. cur' \in Paths /\ cur = Append(cur', value[cur'].kids)
    <3>1. /\ Len(open) \in 1..Len(open) /\ Len(open) # 1 /\ Len(open) - 1 = Len(stack)
          /\ Len(stack) \in 1..Len(stack)
      BY <1>0, <2>2
    <3>2. Pointers[Len(open)] = Append(Pointers[Len(open) - 1], value[Pointers[Len(open) - 1]].kids)
      BY <3>1 DEF PointerInv
    <3>3. QED
      BY <1>0, <2>5, <2>6, <3>1, <3>2
  <2>9. cur' \in DOMAIN value
    <3>1. Len(stack) \in 1..Len(open) /\ Len(stack) \in 1..Len(stack)
      BY <1>0, <2>2
    <3>2. Pointers[Len(stack)] \in DOMAIN value
      BY <3>1 DEF PointerInv
    <3>3. QED
      BY <1>0, <2>6, <3>1, <3>2
  <2>10. value[cur'].kids > 0
    <3>1. value[cur'].kids \in Nat
      <4>1. IsValue(value)
        BY DEF PointerInv, ReaderTypes
      <4>2. QED
        BY <2>9, <4>1 DEF IsValue, Parts
    <3> DEFINE k == value[cur'].kids
               up == cur'
    <3>2. up \in Seq(Nat) /\ k \in Nat /\ cur = Append(up, k)
      BY <2>8, <3>1 DEF Paths
    <3> HIDE DEF k, up
    <3>3. cur[Len(up) + 1] = k /\ Len(cur) = Len(up) + 1 /\ Len(up) \in Nat
      BY <3>2
    <3>4. cur[Len(cur)] \in Nat \ {0}
      BY <1>0, <2>1 DEF Paths
    <3>5. k \in Nat \ {0}
      BY <3>3, <3>4
    <3>6. QED
      BY <3>5 DEF k, up
  <2>11. Place(v, t, span)'
    <3>1. Append(cur', value'[cur'].kids) = cur /\ value'[cur'].kids > 0
      BY <1>6, <2>8, <2>10
    <3>2. QED
      BY <2>4, <3>1 DEF Place
  <2>12. QED
    BY <1>3, <1>9, <2>7, <2>11 DEF Follows
<1>12. QED
  BY <1>10, <1>11

LEMMA AtomNoCompound ==
    ASSUME NEW a \in Atoms, NEW c PROVE Atom(a).type # Compound(c).type
<1>1. Compound(c).type \in {"obj", "array"}
  BY DEF Compound
<1>2. Atom(a).type \in {"str", "int", "null", "bool"}
  BY DEF Atom, AtomType, Atoms, Literals
<1>3. QED
  BY <1>1, <1>2

\* The open part, as it has been built and as it is written.
LEMMA OpenPart ==
    ASSUME PointerInv, NEW v, NEW t, NEW span, t \in Seq(Tokens), Written(v, t, span),
           PartOf(v), open # <<>>
    PROVE  /\ cur \in DOMAIN v /\ cur \in Paths /\ v[cur].type = value[cur].type
           /\ value[cur].kids \in Nat /\ v[cur].kids \in Nat /\ value[cur].kids <= v[cur].kids
           /\ t[span[cur].first] \notin Atoms
           /\ (InObject <=> v[cur].type = "obj") /\ (InArray <=> v[cur].type # "obj")
           /\ span[cur].first \in Nat
<1>1. cur \in DOMAIN value /\ cur \in Paths /\ value[cur].type = Compound(Last(open)).type
  BY CurFacts
<1>2. cur \in DOMAIN v /\ v[cur].type = value[cur].type /\ value[cur].kids <= v[cur].kids
  BY <1>1 DEF PartOf, SamePart
<1>3. value[cur].kids \in Nat
  BY <1>1 DEF PointerInv, ReaderTypes, IsValue, Parts
<1>4. v[cur].kids \in Nat /\ span[cur].first \in 1..Len(t)
  <2>1. v[cur] \in Parts /\ span[cur].first \in 1..Len(t)
    BY <1>2, WrittenShape
  <2>2. QED
    BY <2>1 DEF Parts
<1>5. t[span[cur].first] \notin Atoms
  <2> SUFFICES ASSUME t[span[cur].first] \in Atoms PROVE FALSE
    OBVIOUS
  <2>1. v[cur].type = Atom(t[span[cur].first]).type
    BY <1>2, AtomPart
  <2>2. QED
    BY <1>1, <1>2, <2>1, AtomNoCompound
<1>6. Last(open) \in Openings
  <2>1. open \in Seq(Openings)
    BY DEF PointerInv, ReaderTypes
  <2>2. QED
    BY <2>1, FrontFacts
<1>7. (InObject <=> v[cur].type = "obj") /\ (InArray <=> v[cur].type # "obj")
  BY <1>1, <1>2, <1>6, TokenFacts DEF InObject, InArray, Compound
<1>8. QED
  BY <1>1, <1>2, <1>3, <1>4, <1>5, <1>7

LEMMA PartOfStutters ==
    ASSUME NEW v, PartOf(v), UNCHANGED <<value, cur, stack, open>> PROVE PartOf(v)'
BY DEF PartOf, OpenParts

\* The first token of the next kid: of its name, or its own.
LEMMA BeginsKid ==
    ASSUME PointerInv, NEW v, NEW t, NEW span, t \in Seq(Tokens), Written(v, t, span),
           Follows(v, t, span), PartOf(v), NEW tk, Read(tk), open # <<>>, at \in {"first", "comma"},
           value[cur].kids < v[cur].kids,
           NEW n \in Nat, n = span[NewPath(value, cur)].first - Lead(v[cur]), tk = t[n],
           Len(text') = n, n <= Len(t), text' # <<>>
    PROVE  Follows(v, t, span)'
<1> DEFINE q == NewPath(value, cur)
<1>0. /\ cur \in DOMAIN v /\ v[cur].type = value[cur].type
      /\ value[cur].kids \in Nat /\ v[cur].kids \in Nat
      /\ (InObject <=> v[cur].type = "obj") /\ (InArray <=> v[cur].type # "obj")
  BY OpenPart
<1>1. value[cur].kids + 1 \in 1..v[cur].kids
  BY <1>0
<1>2. q = Append(cur, value[cur].kids + 1)
  BY DEF NewPath
<1> HIDE DEF q
<1>3. /\ q \in DOMAIN v
      /\ v[cur].type = "obj" => t[n] = v[q].name /\ v[q].name \in Names
      /\ v[cur].type # "obj" => v[q].name = NoName
  <2>1. n = Start(v, span, cur, q)
    BY DEF q, Start
  <2>2. PICK i \in 1..v[cur].kids : q = Append(cur, i)
    BY <1>1, <1>2
  <2>3. /\ Append(cur, i) \in DOMAIN v
        /\ v[cur].type = "obj" => /\ t[Start(v, span, cur, Append(cur, i))] = v[Append(cur, i)].name
                                  /\ v[Append(cur, i)].name \in Names
        /\ v[cur].type # "obj" => v[Append(cur, i)].name = NoName
    BY <1>0, KidPart
  <2>4. QED
    BY <2>1, <2>2, <2>3
<1>4. CASE v[cur].type = "obj"
  <2>1. ReadName(tk)
    BY <1>0, <1>3, <1>4, TakesName DEF WantsName
  <2>2. name' = v[q].name /\ at' = "colon" /\ UNCHANGED <<value, cur, stack, open>>
    BY <1>3, <1>4, <2>1 DEF ReadName
  <2>3. PartOf(v)'
    BY <2>2, PartOfStutters
  <2>4. InObject' /\ n = span[q].first - 2
    BY <1>0, <1>4, <2>2 DEF InObject, Lead, q
  <2>5. Place(v, t, span)'
    BY <1>2, <2>2, <2>4 DEF Place
  <2>6. QED
    BY <2>3, <2>5 DEF Follows
<1>5. CASE v[cur].type # "obj"
  <2>1. n = span[q].first /\ WantsValue
    <3>1. span[q].first \in 1..Len(t)
      BY <1>3, WrittenShape
    <3>2. QED
      BY <1>0, <1>5, <3>1 DEF Lead, q, WantsValue
  <2>2. v[q].name = IF value[cur].type = "obj" THEN name ELSE NoName
    BY <1>0, <1>3, <1>5
  <2>3. q = NewPath(value, cur)
    BY DEF q
  <2>4. QED
    BY <1>3, <2>1, <2>2, <2>3, BeginsPart
<1>6. QED
  BY <1>4, <1>5

\* The spans around the place where the open part has come to.
LEMMA KidsAround ==
    ASSUME PointerInv, NEW v, NEW t, NEW span, t \in Seq(Tokens), Written(v, t, span),
           PartOf(v), open # <<>>,
           NEW k, k = value[cur].kids, NEW q, q = NewPath(value, cur)
    PROVE  /\ k < v[cur].kids =>
                /\ q \in DOMAIN v /\ span[q].first \in 1..Len(t)
                /\ span[q].first - Lead(v[cur]) = (IF k = 0 THEN span[cur].first ELSE span[Append(cur, k)].last + 1) + 1
                /\ Lead(v[cur]) \in Nat
                /\ k # 0 => t[span[q].first - Lead(v[cur]) - 1] = Comma
                /\ v[cur].type = "obj" => v[q].name \in Names /\ t[span[q].first - 2 + 1] = Colon
           /\ span[cur].last = (IF v[cur].kids = 0 THEN span[cur].first
                                ELSE span[Append(cur, v[cur].kids)].last) + 1
           /\ span[cur].last \in 1..Len(t)
           /\ k > 0 => span[Append(cur, k)].last \in Nat
<1>1. /\ cur \in DOMAIN v /\ cur \in Paths /\ v[cur].type = value[cur].type
      /\ k \in Nat /\ v[cur].kids \in Nat /\ k <= v[cur].kids
      /\ t[span[cur].first] \notin Atoms /\ span[cur].first \in Nat
  BY OpenPart
<1>2. q = Append(cur, k + 1)
  BY DEF NewPath
<1>3. ASSUME k < v[cur].kids
      PROVE  /\ q \in DOMAIN v /\ span[q].first \in 1..Len(t)
             /\ span[q].first - Lead(v[cur]) = (IF k = 0 THEN span[cur].first ELSE span[Append(cur, k)].last + 1) + 1
             /\ k # 0 => t[span[q].first - Lead(v[cur]) - 1] = Comma
             /\ v[cur].type = "obj" => v[q].name \in Names /\ t[span[q].first - 2 + 1] = Colon
  <2>1. PICK i \in 1..v[cur].kids : i = k + 1
    BY <1>1, <1>3
  <2>2. k = i - 1 /\ (k = 0 <=> i = 1) /\ q = Append(cur, i)
    BY <1>1, <1>2, <2>1
  <2>3. PICK start : start = Start(v, span, cur, q)
    OBVIOUS
  <2>4. /\ q \in DOMAIN v
        /\ start = (IF i = 1 THEN span[cur].first ELSE span[Append(cur, i - 1)].last + 1) + 1
        /\ i # 1 => t[start - 1] = Comma
        /\ v[cur].type = "obj" => t[start] = v[q].name /\ v[q].name \in Names /\ t[start + 1] = Colon
    <3>1. /\ Append(cur, i) \in DOMAIN v
          /\ Start(v, span, cur, Append(cur, i))
               = (IF i = 1 THEN span[cur].first ELSE span[Append(cur, i - 1)].last + 1) + 1
          /\ i # 1 => t[Start(v, span, cur, Append(cur, i)) - 1] = Comma
          /\ v[cur].type = "obj" => /\ t[Start(v, span, cur, Append(cur, i))] = v[Append(cur, i)].name
                                    /\ v[Append(cur, i)].name \in Names
                                    /\ t[Start(v, span, cur, Append(cur, i)) + 1] = Colon
      BY <1>1, KidPart
    <3>2. QED
      BY <2>2, <2>3, <3>1
  <2>5. start = span[q].first - Lead(v[cur]) /\ (v[cur].type = "obj" => start = span[q].first - 2)
    BY <2>3 DEF Start, Lead
  <2>6. span[q].first \in 1..Len(t)
    BY <2>4, WrittenShape
  <2>7. QED
    BY <2>2, <2>4, <2>5, <2>6
<1>4. /\ span[cur].last = (IF v[cur].kids = 0 THEN span[cur].first
                           ELSE span[Append(cur, v[cur].kids)].last) + 1
  BY <1>1, CompoundPart
<1>5. ASSUME k > 0 PROVE span[Append(cur, k)].last \in Nat
  <2>1. k \in 1..v[cur].kids
    BY <1>1, <1>5
  <2>2. Append(cur, k) \in DOMAIN v
    BY <1>1, <2>1, KidPart
  <2>3. span[Append(cur, k)].last \in 1..Len(t)
    BY <2>2, WrittenShape
  <2>4. QED
    BY <2>3
<1>6. span[cur].last \in 1..Len(t)
  BY <1>1, WrittenShape
<1>7. Lead(v[cur]) \in Nat
  BY DEF Lead
<1>8. QED
  BY <1>3, <1>4, <1>5, <1>6, <1>7

LEMMA FollowsStep ==
    ASSUME PointerInv, NEW v, NEW t, NEW span, t \in Seq(Tokens), Written(v, t, span),
           Follows(v, t, span), Len(text) < Len(t), Read(t[Len(text) + 1])
    PROVE  Follows(v, t, span)'
<1> DEFINE n == Len(text) + 1
           k == value[cur].kids
           q == NewPath(value, cur)
<1>0. /\ text \in Seq(Tokens) /\ text' = Append(text, t[n]) /\ at \notin {"end", "thrown"}
      /\ Len(t) \in Nat
  BY DEF PointerInv, ReaderTypes, Read
<1>1. n \in Nat /\ Len(text') = n /\ n <= Len(t) /\ text' # <<>> /\ Len(text) \in Nat
  BY <1>0
<1>2. CASE text = <<>>
  <2>1. at = "value" /\ open = <<>> /\ n = 1
    BY <1>2 DEF Follows
  <2>2. <<>> \in DOMAIN v /\ span[<<>>].first = 1
    BY WrittenShape
  <2>3. WantsValue
    BY <2>1 DEF WantsValue
  <2>4. n = span[<<>>].first
    BY <2>1, <2>2
  <2> HIDE DEF n
  <2>5. QED
    BY <1>1, <2>1, <2>3, <2>4, BeginsPart DEF n
<1>3. CASE text # <<>>
  <2>1. PartOf(v) /\ Place(v, t, span)
    BY <1>3 DEF Follows
  <2>2. open # <<>>
    BY <1>0, <2>1 DEF Place, InObject
  <2>3. /\ cur \in DOMAIN v /\ cur \in Paths /\ v[cur].type = value[cur].type
        /\ k \in Nat /\ v[cur].kids \in Nat /\ k <= v[cur].kids
        /\ t[span[cur].first] \notin Atoms /\ span[cur].first \in Nat
        /\ (InObject <=> v[cur].type = "obj") /\ (InArray <=> v[cur].type # "obj")
    BY <2>1, <2>2, OpenPart
  <2>4. q = Append(cur, k + 1)
    BY DEF NewPath
  <2> HIDE DEF q, k, n
  <2>5. /\ k < v[cur].kids =>
             /\ q \in DOMAIN v /\ span[q].first \in 1..Len(t)
             /\ span[q].first - Lead(v[cur]) = (IF k = 0 THEN span[cur].first ELSE span[Append(cur, k)].last + 1) + 1
             /\ Lead(v[cur]) \in Nat
             /\ k # 0 => t[span[q].first - Lead(v[cur]) - 1] = Comma
             /\ v[cur].type = "obj" => v[q].name \in Names /\ t[span[q].first - 2 + 1] = Colon
        /\ span[cur].last = (IF v[cur].kids = 0 THEN span[cur].first
                             ELSE span[Append(cur, v[cur].kids)].last) + 1
        /\ span[cur].last \in 1..Len(t)
        /\ k > 0 => span[Append(cur, k)].last \in Nat
    BY <2>1, <2>2, KidsAround DEF k, q
  <2>8. Read(t[n]) /\ q = NewPath(value, cur) /\ k = value[cur].kids /\ n = Len(text) + 1
    BY DEF q, k, n
  <2>9. CASE at = "first" \/ at = "next"
    <3>1. Len(text) = IF k = 0 THEN span[cur].first ELSE span[Append(cur, k)].last
      BY <2>1, <2>3, <2>8, <2>9 DEF Place
    <3>2. CASE k = v[cur].kids
      <4>1. n = span[cur].last
        BY <2>5, <2>8, <3>1, <3>2
      <4>2. QED
        BY <1>1, <2>1, <2>2, <2>3, <2>8, <2>9, <3>2, <4>1, EndsPart
    <3>3. CASE k < v[cur].kids /\ at = "first"
      <4>1. k = 0
        BY <2>1, <2>8, <3>3 DEF Place
      <4>2. n = span[q].first - Lead(v[cur])
        BY <2>5, <2>8, <3>1, <3>3, <4>1
      <4>3. QED
        BY <1>1, <2>1, <2>2, <2>8, <3>3, <4>2, BeginsKid
    <3>4. CASE k < v[cur].kids /\ at = "next"
      <4>1. k > 0
        BY <2>1, <2>8, <3>4 DEF Place
      <4>2. n = span[q].first - Lead(v[cur]) - 1 /\ n = span[Append(cur, k)].last + 1
        BY <2>5, <2>8, <3>1, <3>4, <4>1
      <4>3. t[n] = Comma
        BY <2>3, <2>5, <3>4, <4>1, <4>2
      <4>4. at' = "comma" /\ UNCHANGED <<value, cur, stack, name, open>>
        BY <2>8, <3>4, <4>3, TakesComma
      <4>5. PartOf(v)'
        BY <2>1, <4>4, PartOfStutters
      <4>6. Place(v, t, span)'
        BY <1>1, <2>2, <2>8, <3>4, <4>1, <4>2, <4>4 DEF Place
      <4>7. QED
        BY <1>1, <4>5, <4>6 DEF Follows
    <3>5. QED
      BY <2>3, <2>9, <3>2, <3>3, <3>4
  <2>10. CASE at = "comma"
    <3>1. k > 0 /\ k < v[cur].kids /\ Len(text) = span[Append(cur, k)].last + 1
      BY <2>1, <2>8, <2>10 DEF Place
    <3>2. n = span[q].first - Lead(v[cur])
      BY <2>5, <2>8, <3>1
    <3>3. QED
      BY <1>1, <2>1, <2>2, <2>8, <2>10, <3>1, <3>2, BeginsKid
  <2>11. CASE at = "colon"
    <3>1. InObject /\ k < v[cur].kids /\ Len(text) = span[q].first - 2 /\ name = v[q].name
      BY <2>1, <2>4, <2>8, <2>11 DEF Place
    <3>2. n = span[q].first - 2 + 1 /\ n = span[q].first - 1
      BY <2>5, <2>8, <3>1
    <3>3. t[n] = Colon
      BY <2>3, <2>5, <3>1, <3>2
    <3>4. at' = "value" /\ UNCHANGED <<value, cur, stack, name, open>>
      BY <2>8, <2>11, <3>3, TakesColon
    <3>5. PartOf(v)'
      BY <2>1, <3>4, PartOfStutters
    <3>6. Place(v, t, span)'
      BY <1>1, <2>4, <2>8, <3>1, <3>2, <3>4 DEF Place, InObject
    <3>7. QED
      BY <1>1, <3>5, <3>6 DEF Follows
  <2>12. CASE at = "value"
    <3>1. InObject /\ k < v[cur].kids /\ Len(text) = span[q].first - 1 /\ name = v[q].name
      BY <2>1, <2>4, <2>8, <2>12 DEF Place
    <3>2. n = span[q].first /\ q \in DOMAIN v
      BY <2>5, <2>8, <3>1
    <3>3. v[q].name = IF value[cur].type = "obj" THEN name ELSE NoName
      BY <2>3, <3>1
    <3>4. WantsValue
      BY <2>12 DEF WantsValue
    <3>5. QED
      BY <1>1, <2>1, <2>2, <2>8, <3>1, <3>2, <3>3, <3>4, BeginsPart
  <2>13. QED
    BY <1>0, <2>1, <2>9, <2>10, <2>11, <2>12 DEF Place
<1>4. QED
  BY <1>2, <1>3

\* It has not ended before the last token, and then it has all of the value.
LEMMA FollowsEnds ==
    ASSUME PointerInv, NEW v, NEW t, NEW span, t \in Seq(Tokens), Written(v, t, span),
           Follows(v, t, span)
    PROVE  /\ at # "thrown" /\ (at = "end" <=> Len(text) = Len(t))
           /\ at = "end" => value = v
<1>0. /\ IsValue(v) /\ <<>> \in DOMAIN v /\ Len(t) \in Nat \ {0} /\ text \in Seq(Tokens)
      /\ \A p \in DOMAIN v \ {<<>>} : Front(p) \in DOMAIN v /\ Last(p) <= v[Front(p)].kids
      /\ IsValue(value) /\ <<>> \in DOMAIN value
  BY WrittenShape DEF PointerInv, ReaderTypes
<1>1. CASE text = <<>>
  <2>1. at = "value" /\ Len(text) = 0
    BY <1>1 DEF Follows
  <2>2. QED
    BY <1>0, <2>1
<1>2. CASE text # <<>> /\ at # "end"
  <2>1. PartOf(v) /\ Place(v, t, span)
    BY <1>2 DEF Follows
  <2>2. open # <<>> /\ at # "thrown"
    BY <1>2, <2>1 DEF Place, InObject
  <2> DEFINE k == value[cur].kids
             q == NewPath(value, cur)
  <2>3. /\ k \in Nat /\ v[cur].kids \in Nat /\ k <= v[cur].kids
        /\ k < v[cur].kids =>
             /\ span[q].first \in 1..Len(t)
             /\ span[q].first - Lead(v[cur]) = (IF k = 0 THEN span[cur].first ELSE span[Append(cur, k)].last + 1) + 1
             /\ Lead(v[cur]) \in Nat
        /\ span[cur].last = (IF v[cur].kids = 0 THEN span[cur].first
                             ELSE span[Append(cur, v[cur].kids)].last) + 1
        /\ span[cur].last \in 1..Len(t)
        /\ k > 0 => span[Append(cur, k)].last \in Nat
        /\ span[cur].first \in Nat
    BY <2>1, <2>2, KidsAround, OpenPart
  <2>4. q = Append(cur, k + 1)
    BY DEF NewPath
  <2> HIDE DEF k, q
  <2>5. k = value[cur].kids
    BY DEF k
  <2>6. Len(text) < Len(t)
    <3>1. CASE at = "first" \/ at = "next"
      <4>1. Len(text) = IF k = 0 THEN span[cur].first ELSE span[Append(cur, k)].last
        BY <2>1, <2>3, <2>5, <3>1 DEF Place
      <4>2. CASE k = v[cur].kids
        BY <1>0, <2>3, <4>1, <4>2
      <4>3. CASE k < v[cur].kids
        BY <1>0, <2>3, <4>1, <4>3, SMTT(30)
      <4>4. QED
        BY <2>3, <4>2, <4>3
    <3>2. CASE at = "comma"
      <4>1. k > 0 /\ k < v[cur].kids /\ Len(text) = span[Append(cur, k)].last + 1
        BY <2>1, <2>5, <3>2 DEF Place
      <4>2. QED
        BY <1>0, <2>3, <4>1, SMTT(30)
    <3>3. CASE at = "colon" \/ at = "value"
      <4>1. k < v[cur].kids /\ (Len(text) = span[q].first - 2 \/ Len(text) = span[q].first - 1)
        BY <2>1, <2>4, <2>5, <3>3 DEF Place
      <4>2. QED
        BY <1>0, <2>3, <4>1
    <3>4. QED
      BY <1>2, <2>1, <3>1, <3>2, <3>3 DEF Place
  <2>7. QED
    BY <1>0, <1>2, <2>2, <2>6
<1>3. CASE text # <<>> /\ at = "end"
  <2>1. PartOf(v) /\ open = <<>> /\ Len(text) = Len(t)
    BY <1>3 DEF Follows, Place
  <2>2. \A p \in DOMAIN value :
          /\ p \in DOMAIN v /\ SamePart(value[p], v[p]) /\ value[p].kids = v[p].kids
          /\ \A i \in 1..v[p].kids : Append(p, i) \in DOMAIN value
    BY <2>1 DEF PartOf, OpenParts
  <2>3. ASSUME NEW p \in DOMAIN v \ DOMAIN value
        PROVE  \E r \in DOMAIN v \ DOMAIN value : Len(r) < Len(p)
    <3>1. p \in Paths /\ p # <<>>
      BY <1>0 DEF IsValue
    <3>2. /\ Front(p) \in Paths /\ Last(p) \in Nat \ {0} /\ Len(Front(p)) = Len(p) - 1
          /\ Len(p) \in Nat \ {0} /\ Append(Front(p), Last(p)) = p
      BY <3>1, FrontFacts DEF Paths
    <3>3. Front(p) \in DOMAIN v /\ Last(p) <= v[Front(p)].kids /\ v[Front(p)].kids \in Nat
      <4>1. Front(p) \in DOMAIN v /\ Last(p) <= v[Front(p)].kids
        BY <1>0, <3>1
      <4>2. QED
        BY <1>0, <4>1 DEF IsValue, Parts
    <3>4. Front(p) \notin DOMAIN value
      <4> SUFFICES ASSUME Front(p) \in DOMAIN value PROVE FALSE
        OBVIOUS
      <4>1. Last(p) \in 1..v[Front(p)].kids
        BY <3>2, <3>3
      <4>2. Append(Front(p), Last(p)) \in DOMAIN value
        BY <2>2, <4>1
      <4>3. QED
        BY <3>2, <4>2
    <3>5. Len(Front(p)) < Len(p)
      BY <3>2
    <3>6. QED
      BY <3>3, <3>4, <3>5
  <2>4. DOMAIN v \ DOMAIN value = {}
    <3> SUFFICES ASSUME DOMAIN v \ DOMAIN value # {} PROVE FALSE
      OBVIOUS
    <3> DEFINE S == {Len(p) : p \in DOMAIN v \ DOMAIN value}
    <3>1. S \in SUBSET Nat /\ S # {}
      <4>1. \A p \in DOMAIN v : p \in Seq(Nat \ {0})
        BY <1>0 DEF IsValue, Paths
      <4>2. \A p \in DOMAIN v : Len(p) \in Nat
        BY <4>1
      <4>3. S # {}
        OBVIOUS
      <4>4. QED
        BY <4>2, <4>3
    <3>2. PICK n \in S : \A m \in S : n <= m
      BY <3>1, LeastNumber
    <3>3. PICK p \in DOMAIN v \ DOMAIN value : n = Len(p)
      BY <3>2
    <3>4. PICK r \in DOMAIN v \ DOMAIN value : Len(r) < Len(p)
      BY <2>3
    <3>5. n \in Nat /\ Len(r) \in Nat /\ n <= Len(r)
      BY <3>1, <3>2, <3>4
    <3>6. QED
      BY <3>3, <3>4, <3>5
  <2>5. DOMAIN value = DOMAIN v
    BY <2>2, <2>4
  <2>6. ASSUME NEW r \in Parts, NEW s \in Parts, SamePart(r, s), r.kids = s.kids PROVE r = s
    BY <2>6 DEF Parts, SamePart
  <2>7. \A p \in DOMAIN v : value[p] \in Parts /\ v[p] \in Parts
    BY <1>0, <2>5 DEF IsValue
  <2>8. \A p \in DOMAIN v : value[p] = v[p]
    BY <2>2, <2>5, <2>6, <2>7
  <2>9. value = [p \in DOMAIN value |-> value[p]] /\ v = [p \in DOMAIN v |-> v[p]]
    BY <1>0 DEF IsValue
  <2>10. value = v
    BY <2>5, <2>8, <2>9
  <2>11. QED
    BY <1>3, <2>1, <2>10
<1>4. QED
  BY <1>1, <1>2, <1>3

LEMMA FollowsInit ==
    ASSUME NEW v, NEW t, NEW span, t \in Seq(Tokens), Written(v, t, span), ReaderInit
    PROVE  Follows(v, t, span)
<1>1. Len(t) \in Nat
  BY WrittenShape
<1>2. QED
  BY <1>1 DEF ReaderInit, Follows

-----------------------------------------------------------------------------

\* text is a beginning of t.
Begins(t) == Len(text) <= Len(t) /\ \A i \in 1..Len(text) : text[i] = t[i]

\* It follows the text t, as long as that is what it gets.
Following(v, t, span) == PointerInv /\ (Begins(t) => Follows(v, t, span))

\* The reader follows the text at first, and with every token.
LEMMA FollowingInit ==
    ASSUME NEW v, NEW t, NEW span, t \in Seq(Tokens), Written(v, t, span), ReaderInit
    PROVE  Following(v, t, span)
BY PointerInvInit, FollowsInit DEF Following

LEMMA FollowingStep ==
    ASSUME NEW v, NEW t, NEW span, t \in Seq(Tokens), Written(v, t, span),
           Following(v, t, span), [ReaderNext]_readerVars
    PROVE  Following(v, t, span)'
<1>1. PointerInv /\ (Begins(t) => Follows(v, t, span))
  BY DEF Following
<1>2. PointerInv'
  BY <1>1, PointerInvStep
<1>3. CASE UNCHANGED readerVars
  BY <1>1, <1>2, <1>3 DEF readerVars, Begins, Follows, PartOf, OpenParts, Place, InObject, Following
<1>4. ASSUME NEW tk \in Tokens, Read(tk), Begins(t)' PROVE Follows(v, t, span)'
  <2>1. text \in Seq(Tokens) /\ text' = Append(text, tk)
    BY <1>1, <1>4 DEF PointerInv, ReaderTypes, Read
  <2>2. /\ Len(text) \in Nat /\ Len(text') = Len(text) + 1 /\ text'[Len(text) + 1] = tk
        /\ \A i \in 1..Len(text) : text'[i] = text[i]
    BY <2>1, AppendFacts
  <2>3. Len(t) \in Nat /\ Len(text) + 1 <= Len(t) /\ \A i \in 1..(Len(text) + 1) : text'[i] = t[i]
    BY <1>4, <2>2 DEF Begins
  <2>4. tk = t[Len(text) + 1] /\ Begins(t) /\ Len(text) < Len(t)
    BY <2>2, <2>3 DEF Begins
  <2>5. QED
    BY <1>1, <1>4, <2>4, FollowsStep
<1>5. QED
  BY <1>2, <1>3, <1>4 DEF ReaderNext, Following

\* What has been read of t when it has been followed.
Understands(v, t) ==
    Begins(t) => /\ at # "thrown"
                 /\ at = "end" <=> text = t
                 /\ at = "end" => value = v

\* What it then makes of the text.
LEMMA FollowingUnderstands ==
    ASSUME NEW v, NEW t, NEW span, t \in Seq(Tokens), Written(v, t, span), Following(v, t, span)
    PROVE  Understands(v, t)
<1> SUFFICES ASSUME Begins(t)
             PROVE  /\ at # "thrown" /\ (at = "end" <=> text = t) /\ (at = "end" => value = v)
  BY DEF Understands
<1>1. PointerInv /\ Follows(v, t, span)
  BY DEF Following
<1>2. /\ at # "thrown" /\ (at = "end" <=> Len(text) = Len(t)) /\ (at = "end" => value = v)
  BY <1>1, FollowsEnds
<1>3. text \in Seq(Tokens)
  BY <1>1 DEF PointerInv, ReaderTypes
<1>4. Len(text) = Len(t) => text = t
  BY <1>3, SeqEqual DEF Begins
<1>5. QED
  BY <1>2, <1>4

\* A text that the writer makes of a value is read as that value, and what is
\* read of it before its last token is neither taken for a value nor refused.
THEOREM WrittenIsRead ==
    ASSUME NEW v, NEW t, NEW span, t \in Seq(Tokens), Written(v, t, span)
    PROVE  ReaderSpec => [](Begins(t) => /\ at # "thrown"
                                         /\ at = "end" <=> text = t
                                         /\ at = "end" => value = v)
<1>1. ReaderInit => Following(v, t, span)
  BY FollowingInit
<1>2. Following(v, t, span) /\ [ReaderNext]_readerVars => Following(v, t, span)'
  BY FollowingStep
<1>3. Following(v, t, span) => Understands(v, t)
  BY FollowingUnderstands
<1>4. QED
  BY <1>1, <1>2, <1>3, PTL DEF ReaderSpec, Understands

-----------------------------------------------------------------------------
(* The places of the tokens of a value: SpansUnique *)

\* The marks of a value, and where they are.
Marks(v) == (DOMAIN v) \X {"first", "last"}
Mark(span, x) == IF x[2] = "first" THEN span[x[1]].first ELSE span[x[1]].last
Origin == <<<<>>, "first">>

\* Positions is the function its definition asks for, where there is one.
LEMMA PositionsFollow ==
    ASSUME NEW v, NEW f,
           f = [x \in Marks(v) |-> IF x = Origin THEN 1 ELSE f[Behind(v, x)] + Distance(v, x)]
    PROVE  Positions(v) = [x \in Marks(v) |->
               IF x = Origin THEN 1 ELSE Positions(v)[Behind(v, x)] + Distance(v, x)]
<1> DEFINE Fits(g) == g = [x \in Marks(v) |-> IF x = Origin THEN 1 ELSE g[Behind(v, x)] + Distance(v, x)]
<1>1. Positions(v) = CHOOSE g : Fits(g)
  BY DEF Positions, Marks, Origin
<1>2. Fits(f)
  OBVIOUS
<1> HIDE DEF Fits
<1>3. Fits(Positions(v))
  BY <1>1, <1>2
<1>4. QED
  BY <1>3 DEF Fits

\* What a mark stands behind is there, and stands before it.
LEMMA MarkBehind ==
    ASSUME NEW v, NEW t, NEW span, t \in Seq(Tokens), Written(v, t, span),
           NEW x \in Marks(v), x # Origin
    PROVE  /\ Behind(v, x) \in Marks(v) /\ Distance(v, x) \in Nat
           /\ Mark(span, x) \in Nat /\ Mark(span, Behind(v, x)) \in Nat
           /\ Mark(span, x) = Mark(span, Behind(v, x)) + Distance(v, x)
           /\ Distance(v, x) = 0 => x[2] = "last" /\ Behind(v, x)[2] = "first"
<1>1. PICK p \in DOMAIN v, e \in {"first", "last"} : x = <<p, e>>
  BY DEF Marks
<1>2. /\ \A q \in DOMAIN v : /\ q \in Paths /\ v[q] \in Parts
                             /\ span[q].first \in 1..Len(t) /\ span[q].last \in 1..Len(t)
      /\ \A q \in DOMAIN v \ {<<>>} : Front(q) \in DOMAIN v /\ Last(q) <= v[Front(q)].kids
      /\ Len(t) \in Nat
  BY WrittenShape
<1>3. p \in Paths /\ v[p] \in Parts /\ v[p].kids \in Nat
  BY <1>2 DEF Parts
<1>4. \A q \in DOMAIN v : span[q].first \in Nat /\ span[q].last \in Nat
  BY <1>2
<1>5. CASE e = "first"
  <2>1. p # <<>>
    BY <1>1, <1>5 DEF Origin
  <2> DEFINE up == Front(p)
             i == Last(p)
  <2>2. up \in DOMAIN v /\ i \in 1..v[up].kids /\ Append(up, i) = p
    <3>1. Front(p) \in DOMAIN v /\ Last(p) <= v[Front(p)].kids /\ v[Front(p)] \in Parts
      BY <1>2, <2>1
    <3>2. Last(p) \in Nat \ {0} /\ Append(Front(p), Last(p)) = p
      BY <1>3, <2>1, FrontFacts DEF Paths
    <3>3. QED
      BY <3>1, <3>2 DEF Parts
  <2> HIDE DEF up, i
  <2>3. Start(v, span, up, p) = (IF i = 1 THEN span[up].first ELSE span[Append(up, i - 1)].last + 1) + 1
    <3>1. Start(v, span, up, Append(up, i))
            = (IF i = 1 THEN span[up].first ELSE span[Append(up, i - 1)].last + 1) + 1
      <4>1. up \in DOMAIN v /\ i \in 1..v[up].kids
        BY <2>2
      <4>2. QED
        BY <4>1, KidPart
    <3>2. QED
      BY <2>2, <3>1
  <2>4. Lead(v[up]) \in Nat
    BY DEF Lead
  <2>5. i # 1 => Append(up, i - 1) \in DOMAIN v
    <3> SUFFICES ASSUME i # 1 PROVE Append(up, i - 1) \in DOMAIN v
      OBVIOUS
    <3>1. PICK j \in 1..v[up].kids : j = i - 1
      <4>1. v[up].kids \in Nat
        BY <1>2, <2>2 DEF Parts
      <4>2. QED
        BY <2>2, <4>1
    <3>2. Append(up, j) \in DOMAIN v
      BY <2>2, KidPart
    <3>3. QED
      BY <3>1, <3>2
  <2>6. span[p].first = (IF i = 1 THEN span[up].first ELSE span[Append(up, i - 1)].last + 1) + 1 + Lead(v[up])
    BY <1>4, <2>2, <2>3, <2>4, <2>5 DEF Start
  <2>7. /\ Behind(v, x) = IF i = 1 THEN <<up, "first">> ELSE <<Append(up, i - 1), "last">>
        /\ Distance(v, x) = Lead(v[up]) + (IF i = 1 THEN 1 ELSE 2)
    BY <1>1, <1>5 DEF Behind, Distance, up, i
  <2>8. Mark(span, x) = span[p].first
    BY <1>1, <1>5 DEF Mark
  <2>9. Distance(v, x) \in Nat \ {0}
    BY <2>4, <2>7
  <2>10. CASE i = 1
    <3>0. Distance(v, x) = Lead(v[up]) + 1
      BY <2>7, <2>10
    <3>1. Behind(v, x) = <<up, "first">>
      BY <2>7, <2>10
    <3>2. Mark(span, Behind(v, x)) = span[up].first /\ Behind(v, x) \in Marks(v)
      BY <2>2, <3>1 DEF Mark, Marks
    <3>3. span[up].first \in Nat /\ span[p].first \in Nat
      BY <1>4, <2>2
    <3>4. Mark(span, x) = span[up].first + 1 + Lead(v[up])
      BY <2>6, <2>8, <2>10
    <3>5. Mark(span, x) = Mark(span, Behind(v, x)) + Distance(v, x)
      BY <2>4, <3>0, <3>2, <3>3, <3>4
    <3>6. QED
      BY <2>8, <2>9, <3>2, <3>3, <3>5
  <2>11. CASE i # 1
    <3>0. Distance(v, x) = Lead(v[up]) + 2
      BY <2>7, <2>11
    <3>2. PICK q \in DOMAIN v : q = Append(up, i - 1)
      BY <2>5, <2>11
    <3>1. Behind(v, x) = <<q, "last">>
      BY <2>7, <2>11, <3>2
    <3>3. Mark(span, Behind(v, x)) = span[q].last /\ Behind(v, x) \in Marks(v)
      BY <3>1 DEF Mark, Marks
    <3>4. span[q].last \in Nat /\ span[p].first \in Nat
      BY <1>4
    <3>5. Mark(span, x) = span[q].last + 1 + 1 + Lead(v[up])
      BY <2>6, <2>8, <2>11, <3>2
    <3>6. Mark(span, x) = Mark(span, Behind(v, x)) + Distance(v, x)
      BY <2>4, <3>0, <3>3, <3>4, <3>5
    <3>7. QED
      BY <2>8, <2>9, <3>3, <3>4, <3>6
  <2>12. QED
    BY <2>10, <2>11
<1>6. CASE e = "last"
  <2>1. Mark(span, x) = span[p].last
    BY <1>1, <1>6 DEF Mark
  <2>2. CASE t[span[p].first] \in Atoms
    <3>1. /\ span[p].last = span[p].first /\ v[p].kids = 0
          /\ v[p].type = Atom(t[span[p].first]).type
      BY <2>2, AtomPart
    <3>2. Distance(v, x) = 0 /\ Behind(v, x) = <<p, "first">>
      <4>1. v[p].type \notin {"obj", "array"}
        BY <2>2, <3>1 DEF Atom, AtomType, Atoms, Literals
      <4>2. QED
        BY <1>1, <1>6, <3>1, <4>1 DEF Distance, Behind
    <3>3. Mark(span, Behind(v, x)) = span[p].first /\ Behind(v, x) \in Marks(v)
      BY <3>2 DEF Mark, Marks
    <3>4. QED
      BY <1>1, <1>4, <1>6, <2>1, <3>1, <3>2, <3>3
  <2>3. CASE t[span[p].first] \notin Atoms
    <3>1. /\ v[p].type = Compound(t[span[p].first]).type
          /\ span[p].last = (IF v[p].kids = 0 THEN span[p].first
                              ELSE span[Append(p, v[p].kids)].last) + 1
      BY <2>3, CompoundPart
    <3>2. Distance(v, x) = 1
      BY <1>1, <1>6, <3>1 DEF Distance, Compound
    <3>3. CASE v[p].kids = 0
      <4>1. Behind(v, x) = <<p, "first">>
        BY <1>1, <1>6, <3>3 DEF Behind
      <4>2. Mark(span, Behind(v, x)) = span[p].first /\ Behind(v, x) \in Marks(v)
        BY <4>1 DEF Mark, Marks
      <4>3. QED
        BY <1>4, <2>1, <3>1, <3>2, <3>3, <4>2
    <3>4. CASE v[p].kids # 0
      <4>1. PICK q \in DOMAIN v : q = Append(p, v[p].kids)
        <5>1. v[p].kids \in 1..v[p].kids
          BY <1>3, <3>4
        <5>2. QED
          BY <5>1, KidPart
      <4>2. Behind(v, x) = <<q, "last">>
        BY <1>1, <1>6, <3>4, <4>1 DEF Behind
      <4>3. Mark(span, Behind(v, x)) = span[q].last /\ Behind(v, x) \in Marks(v)
        BY <4>2 DEF Mark, Marks
      <4>4. QED
        BY <1>4, <2>1, <3>1, <3>2, <3>4, <4>1, <4>3
    <3>5. QED
      BY <3>3, <3>4
  <2>4. QED
    BY <2>2, <2>3
<1>7. QED
  BY <1>5, <1>6

\* There is only one way to write a value.
LEMMA SpansUnique ==
    ASSUME NEW v, NEW t, NEW span, t \in Seq(Tokens), Written(v, t, span)
    PROVE  Spans(v) = span
<1> DEFINE f == [x \in Marks(v) |-> Mark(span, x)]
           P == Positions(v)
<1>0. /\ <<>> \in DOMAIN v /\ span[<<>>].first = 1
      /\ \A q \in DOMAIN v : span[q].first \in 1..Len(t) /\ span[q].last \in 1..Len(t)
      /\ Len(t) \in Nat
  BY WrittenShape
<1>1. Mark(span, Origin) = 1
  BY <1>0 DEF Mark, Origin
<1>2. ASSUME NEW x \in Marks(v)
      PROVE  f[x] = IF x = Origin THEN 1 ELSE f[Behind(v, x)] + Distance(v, x)
  <2>1. CASE x = Origin
    BY <1>1, <2>1
  <2>2. CASE x # Origin
    <3>1. Behind(v, x) \in Marks(v) /\ Mark(span, x) = Mark(span, Behind(v, x)) + Distance(v, x)
      BY <2>2, MarkBehind
    <3>2. QED
      BY <2>2, <3>1
  <2>3. QED
    BY <2>1, <2>2
<1>3. f = [x \in Marks(v) |-> IF x = Origin THEN 1 ELSE f[Behind(v, x)] + Distance(v, x)]
  <2>1. f = [x \in Marks(v) |-> f[x]]
    OBVIOUS
  <2> HIDE DEF f
  <2>2. QED
    BY <1>2, <2>1
<1>4. P = [x \in Marks(v) |-> IF x = Origin THEN 1 ELSE P[Behind(v, x)] + Distance(v, x)]
  <2> HIDE DEF f
  <2>1. QED
    BY <1>3, PositionsFollow
<1> HIDE DEF P
<1>5. \A x \in Marks(v) : P[x] = Mark(span, x)
  <2> DEFINE Wrong == {x \in Marks(v) : P[x] # Mark(span, x)}
             Rank(x) == 2 * Mark(span, x) + (IF x[2] = "first" THEN 0 ELSE 1)
             S == {Rank(x) : x \in Wrong}
  <2> SUFFICES ASSUME Wrong # {} PROVE FALSE
    OBVIOUS
  <2>1. ASSUME NEW x \in Marks(v) PROVE Mark(span, x) \in Nat /\ Rank(x) \in Nat
    <3>1. x[1] \in DOMAIN v
      BY DEF Marks
    <3>2. Mark(span, x) \in Nat
      BY <1>0, <3>1 DEF Mark
    <3>3. QED
      BY <3>2
  <2>2. S \in SUBSET Nat /\ S # {}
    BY <2>1
  <2>3. PICK n \in S : \A m \in S : n <= m
    <3> HIDE DEF S
    <3>1. QED
      BY <2>2, LeastNumber
  <2>4. PICK x \in Wrong : n = Rank(x)
    BY <2>3
  <2>5. x \in Marks(v) /\ P[x] # Mark(span, x)
    BY <2>4
  <2>6. x # Origin
    BY <1>1, <1>4, <2>5
  <2> DEFINE y == Behind(v, x)
             d == Distance(v, x)
  <2>7. /\ y \in Marks(v) /\ d \in Nat
        /\ Mark(span, x) \in Nat /\ Mark(span, y) \in Nat
        /\ Mark(span, x) = Mark(span, y) + d
        /\ d = 0 => x[2] = "last" /\ y[2] = "first"
    BY <2>5, <2>6, MarkBehind
  <2>8. P[x] = P[y] + d
    BY <1>4, <2>5, <2>6
  <2> HIDE DEF y, d, Wrong, S
  <2>9. Rank(y) < Rank(x)
    <3>1. CASE d = 0
      <4>1. x[2] = "last" /\ y[2] = "first" /\ Mark(span, x) = Mark(span, y)
        BY <2>7, <3>1
      <4>2. Rank(y) = 2 * Mark(span, y) /\ Rank(x) = 2 * Mark(span, y) + 1
        BY <2>7, <4>1
      <4>3. QED
        BY <2>7, <4>2
    <3>2. CASE d # 0
      BY <2>7, <3>2
    <3>3. QED
      BY <3>1, <3>2
  <2>10. y \notin Wrong
    <3>1. y \in Wrong => Rank(y) \in S
      BY DEF S
    <3>2. Rank(y) \in Nat /\ Rank(x) \in Nat
      BY <2>1, <2>5, <2>7
    <3> HIDE DEF Rank
    <3>3. QED
      BY <2>3, <2>4, <2>9, <3>1, <3>2
  <2>11. P[y] = Mark(span, y)
    BY <2>7, <2>10 DEF Wrong
  <2>12. QED
    BY <2>5, <2>7, <2>8, <2>11
<1>6. ASSUME NEW p \in DOMAIN v
      PROVE  P[<<p, "first">>] = span[p].first /\ P[<<p, "last">>] = span[p].last
  <2>1. <<p, "first">> \in Marks(v) /\ <<p, "last">> \in Marks(v)
    BY DEF Marks
  <2>2. Mark(span, <<p, "first">>) = span[p].first /\ Mark(span, <<p, "last">>) = span[p].last
    BY DEF Mark
  <2>3. QED
    BY <1>5, <2>1, <2>2
<1>7. span \in [DOMAIN v -> [first : DOMAIN t, last : DOMAIN t]]
  BY DEF Written
<1>8. \A p \in DOMAIN v : span[p] = [first |-> P[<<p, "first">>], last |-> P[<<p, "last">>]]
  BY <1>6, <1>7
<1>9. span = [p \in DOMAIN v |-> span[p]]
  BY <1>7
<1>10. QED
  BY <1>8, <1>9 DEF Spans, P

-----------------------------------------------------------------------------
(* A reader of any text: what it has built so far is what has been written *)

KidsWritten(v, t, span, p) == \A i \in 1..v[p].kids : KidWritten(v, t, span, p, i)

\* A part that has ended, and one that has not.
PartWritten(v, t, span, p) == AtomWritten(v, t, span, p) \/ CompoundWritten(v, t, span, p)
OpenWritten(v, t, span, p) ==
    /\ t[span[p].first] \in Openings
    /\ v[p].type = Compound(t[span[p].first]).type /\ v[p].atom = NoName
    /\ KidsWritten(v, t, span, p)

Sound(span) ==
    /\ span \in [DOMAIN value -> [first : 1..Len(text), last : 1..Len(text)]]
    /\ \A p \in DOMAIN value \ {<<>>} : Front(p) \in DOMAIN value /\ Last(p) <= value[Front(p)].kids
    /\ value[<<>>].name = NoName /\ span[<<>>].first = 1
    /\ \A p \in DOMAIN value :
         /\ p \in OpenParts => OpenWritten(value, text, span, p)
         /\ p \notin OpenParts => PartWritten(value, text, span, p)

\* The token that has to come before another kid of the open part: the bracket
\* that opens it, or the comma behind its last kid.
Edge(span) ==
    LET k == value[cur].kids
    IN IF k = 0 THEN span[cur].first ELSE span[Append(cur, k)].last + 1

\* Where the grammar is in the open part, the kids it has and the name read.
Reached(span) ==
    LET n == Len(text)
        k == value[cur].kids
        edge == Edge(span)
        comma(i) == k # 0 => text[i] = Comma
    IN \/ at = "end" /\ open = <<>> /\ n = span[<<>>].last
       \/ at = "first" /\ open # <<>> /\ k = 0 /\ n = edge
       \/ at = "next" /\ open # <<>> /\ k # 0 /\ n = edge - 1
       \/ at = "comma" /\ open # <<>> /\ k # 0 /\ n = edge /\ comma(n)
       \/ at = "colon" /\ InObject /\ name \in Names /\ n = edge + 1 /\ comma(n - 1) /\ text[n] = name
       \/ at = "value" /\ InObject /\ name \in Names /\ n = edge + 2 /\ comma(n - 2)
          /\ text[n - 1] = name /\ text[n] = Colon

\* The first n tokens of t and u are the same.
Agree(t, u, n) == \A j \in 1..n : u[j] = t[j]

\* What the kids of a part are written as does not change when more is read;
\* of the last one only the beginning matters.
LEMMA KidsKept ==
    ASSUME NEW v, IsValue(v), NEW t, NEW n \in Nat, NEW w, NEW u, NEW sp,
           NEW span \in [DOMAIN v -> [first : 1..n, last : 1..n]],
           NEW p \in DOMAIN v, KidsWritten(v, t, span, p), w[p].type = v[p].type,
           \A q \in DOMAIN v : q \in DOMAIN w /\ w[q].name = v[q].name /\ sp[q].first = span[q].first,
           \A i \in 1..(v[p].kids - 1) : sp[Append(p, i)].last = span[Append(p, i)].last,
           Agree(t, u, n)
    PROVE  \A i \in 1..v[p].kids : KidWritten(w, u, sp, p, i)
<1> SUFFICES ASSUME NEW i \in 1..v[p].kids PROVE KidWritten(w, u, sp, p, i)
  OBVIOUS
<1>0. v[p].kids \in Nat
  BY DEF IsValue, Parts
<1>1. i \in Nat \ {0} /\ KidWritten(v, t, span, p, i)
  BY <1>0 DEF KidsWritten
<1>2. PICK q, r : q = Append(p, i) /\ r = Append(p, i - 1)
  OBVIOUS
<1>3. q \in DOMAIN v
  BY <1>1, <1>2 DEF KidWritten
<1>4. ASSUME i # 1 PROVE sp[r].last = span[r].last /\ span[r].last \in 1..n
  <2>1. PICK j \in 1..v[p].kids : j = i - 1
    BY <1>0, <1>1, <1>4
  <2>2. j \in 1..(v[p].kids - 1) /\ KidWritten(v, t, span, p, j) /\ r = Append(p, j)
    BY <1>0, <1>2, <2>1 DEF KidsWritten
  <2>3. r \in DOMAIN v
    BY <2>2 DEF KidWritten
  <2>4. sp[r].last = span[r].last
    BY <2>2
  <2>5. QED
    BY <2>3, <2>4
<1>5. span[p].first \in 1..n /\ span[q].first \in 1..n
  BY <1>3
<1>6. q \in DOMAIN w /\ w[q].name = v[q].name /\ sp[q].first = span[q].first /\ sp[p].first = span[p].first
  BY <1>3
<1>7. QED
  <2> DEFINE start == span[q].first - Lead(v[p])
  <2>1. /\ start = (IF i = 1 THEN span[p].first ELSE span[r].last + 1) + 1
        /\ i # 1 => t[start - 1] = Comma
        /\ IF v[p].type = "obj"
             THEN t[start] = v[q].name /\ v[q].name \in Names /\ t[start + 1] = Colon
             ELSE v[q].name = NoName
    BY <1>1, <1>2 DEF KidWritten, Start
  <2>2. Lead(w[p]) = Lead(v[p]) /\ Lead(v[p]) \in {0, 2} /\ (v[p].type = "obj" => Lead(v[p]) = 2)
    BY DEF Lead
  <2>3. start = sp[q].first - Lead(w[p])
    BY <1>6, <2>2
  <2>4. i # 1 => start - 1 \in 1..n
    <3>1. i # 1 => span[r].last \in Nat /\ start = span[r].last + 1 + 1 /\ span[r].last <= n
      BY <1>4, <2>1
    <3>2. span[q].first \in Nat /\ span[q].first <= n
      BY <1>5
    <3> HIDE DEF start
    <3>3. start \in Int /\ start <= n
      BY <2>2, <3>2 DEF start
    <3>4. QED
      BY <3>1, <3>3
  <2>5. v[p].type = "obj" => start \in 1..n /\ start + 1 \in 1..n
    <3>1. /\ span[p].first \in Nat /\ (i # 1 => span[r].last \in Nat)
          /\ span[q].first \in Nat /\ span[q].first <= n
      BY <1>4, <1>5
    <3> HIDE DEF start
    <3>2. v[p].type = "obj" => start = span[q].first - 2
      BY <2>2 DEF start
    <3>3. start \in Nat /\ start > 0
      BY <2>1, <3>1
    <3>4. QED
      BY <3>1, <3>2, <3>3
  <2> HIDE DEF start
  <2>6. /\ q \in DOMAIN w
        /\ start = (IF i = 1 THEN sp[p].first ELSE sp[r].last + 1) + 1
        /\ i # 1 => u[start - 1] = Comma
        /\ IF w[p].type = "obj"
             THEN u[start] = w[q].name /\ w[q].name \in Names /\ u[start + 1] = Colon
             ELSE w[q].name = NoName
    <3>1. start = (IF i = 1 THEN sp[p].first ELSE sp[r].last + 1) + 1
      BY <1>4, <1>6, <2>1
    <3>2. i # 1 => u[start - 1] = Comma
      BY <2>1, <2>4 DEF Agree
    <3>3. v[p].type = "obj" => u[start] = t[start] /\ u[start + 1] = t[start + 1]
      BY <2>5 DEF Agree
    <3>4. QED
      BY <1>6, <2>1, <3>1, <3>2, <3>3
  <2>7. QED
    BY <1>2, <2>3, <2>6 DEF KidWritten, Start

\* A part that has ended stays as it is.
LEMMA PartKept ==
    ASSUME NEW v, IsValue(v), NEW t, NEW n \in Nat, NEW w, NEW u, NEW sp,
           NEW span \in [DOMAIN v -> [first : 1..n, last : 1..n]],
           NEW p \in DOMAIN v, PartWritten(v, t, span, p),
           w[p].type = v[p].type, w[p].atom = v[p].atom, w[p].kids = v[p].kids, sp[p].last = span[p].last,
           \A q \in DOMAIN v : q \in DOMAIN w /\ w[q].name = v[q].name /\ sp[q].first = span[q].first,
           \A i \in 1..v[p].kids : sp[Append(p, i)].last = span[Append(p, i)].last,
           Agree(t, u, n)
    PROVE  PartWritten(w, u, sp, p)
<1>0. v[p].kids \in Nat
  BY DEF IsValue, Parts
<1>1. u[span[p].first] = t[span[p].first] /\ u[span[p].last] = t[span[p].last]
  <2>1. span[p].first \in 1..n /\ span[p].last \in 1..n
    OBVIOUS
  <2>2. QED
    BY <2>1 DEF Agree
<1>2. CASE AtomWritten(v, t, span, p)
  BY <1>1, <1>2 DEF AtomWritten, PartWritten
<1>3. CASE CompoundWritten(v, t, span, p)
  <2>1. KidsWritten(v, t, span, p)
    BY <1>3 DEF CompoundWritten, KidsWritten
  <2>2. \A i \in 1..v[p].kids : KidWritten(w, u, sp, p, i)
    <3>1. \A i \in 1..(v[p].kids - 1) : i \in 1..v[p].kids
      BY <1>0
    <3>2. w[p].type = v[p].type /\ \A i \in 1..(v[p].kids - 1) : sp[Append(p, i)].last = span[Append(p, i)].last
      BY <3>1
    <3>3. QED
      BY <2>1, <3>2, KidsKept
  <2>3. v[p].kids # 0 => sp[Append(p, v[p].kids)].last = span[Append(p, v[p].kids)].last
    <3>1. v[p].kids # 0 => v[p].kids \in 1..v[p].kids
      BY <1>0
    <3>2. QED
      BY <3>1
  <2>4. CompoundWritten(w, u, sp, p)
    BY <1>1, <1>3, <2>2, <2>3 DEF CompoundWritten
  <2>5. QED
    BY <2>4 DEF PartWritten
<1>4. QED
  BY <1>2, <1>3 DEF PartWritten

\* The next token.
LEMMA TextGrows ==
    ASSUME PointerInv, NEW tk \in Tokens, Read(tk)
    PROVE  /\ Len(text) \in Nat /\ Len(text') = Len(text) + 1 /\ text'[Len(text) + 1] = tk
           /\ \A j \in 1..Len(text) : text'[j] = text[j]
           /\ text \in Seq(Tokens) /\ text' \in Seq(Tokens)
<1>1. text \in Seq(Tokens) /\ text' = Append(text, tk)
  BY DEF PointerInv, ReaderTypes, Read
<1>2. QED
  BY <1>1, AppendFacts

\* A token that leaves the value as it is.
LEMMA SoundStays ==
    ASSUME PointerInv, NEW tk \in Tokens, Read(tk), NEW span, Sound(span),
           UNCHANGED <<value, cur, stack, open>>
    PROVE  Sound(span)'
<1> DEFINE n == Len(text)
<1>1. n \in Nat /\ Len(text') = n + 1 /\ Agree(text, text', n)
  BY TextGrows DEF Agree
<1>2. IsValue(value) /\ span \in [DOMAIN value -> [first : 1..n, last : 1..n]]
  BY DEF PointerInv, ReaderTypes, Sound
<1>3. OpenParts' = OpenParts
  BY DEF OpenParts
<1>4. ASSUME NEW p \in DOMAIN value
      PROVE  /\ p \in OpenParts => OpenWritten(value, text', span, p)
             /\ p \notin OpenParts => PartWritten(value, text', span, p)
  <2>1. ASSUME OpenWritten(value, text, span, p) PROVE OpenWritten(value, text', span, p)
    <3>1. text'[span[p].first] = text[span[p].first]
      BY <1>1, <1>2 DEF Agree
    <3>2. KidsWritten(value, text, span, p)
      BY <2>1 DEF OpenWritten
    <3> HIDE DEF n
    <3>3. \A i \in 1..value[p].kids : KidWritten(value, text', span, p, i)
      BY <1>1, <1>2, <3>2, KidsKept
    <3>4. QED
      BY <2>1, <3>1, <3>3 DEF OpenWritten, KidsWritten
  <2>2. ASSUME PartWritten(value, text, span, p) PROVE PartWritten(value, text', span, p)
    <3> HIDE DEF n
    <3>1. QED
      BY <1>1, <1>2, <2>2, PartKept
  <2>3. QED
    BY <2>1, <2>2 DEF Sound
<1>5. span \in [DOMAIN value -> [first : 1..(n + 1), last : 1..(n + 1)]]
  <2>1. 1..n \subseteq 1..(n + 1)
    BY <1>1
  <2>2. QED
    BY <1>2, <2>1
<1>6. QED
  BY <1>1, <1>3, <1>4, <1>5 DEF Sound

\* The kids of every part are there, and so are the open parts.
LEMMA SoundFacts ==
    ASSUME PointerInv, NEW span, Sound(span)
    PROVE  /\ IsValue(value) /\ <<>> \in DOMAIN value
           /\ \A p \in DOMAIN value : p \in Paths /\ value[p] \in Parts /\ value[p].kids \in Nat
           /\ \A p \in DOMAIN value : \A i \in 1..value[p].kids : Append(p, i) \in DOMAIN value
           /\ OpenParts \subseteq DOMAIN value
<1>1. IsValue(value) /\ <<>> \in DOMAIN value
  BY DEF PointerInv, ReaderTypes
<1>2. \A p \in DOMAIN value : p \in Paths /\ value[p] \in Parts /\ value[p].kids \in Nat
  BY <1>1 DEF IsValue, Parts
<1>3. ASSUME NEW p \in DOMAIN value, NEW i \in 1..value[p].kids PROVE Append(p, i) \in DOMAIN value
  <2>1. p \in OpenParts => KidsWritten(value, text, span, p)
    BY DEF Sound, OpenWritten
  <2>2. p \notin OpenParts => KidsWritten(value, text, span, p)
    <3>1. AtomWritten(value, text, span, p) => KidsWritten(value, text, span, p)
      BY DEF AtomWritten, KidsWritten
    <3>2. CompoundWritten(value, text, span, p) => KidsWritten(value, text, span, p)
      BY DEF CompoundWritten, KidsWritten
    <3>3. QED
      BY <3>1, <3>2 DEF Sound, PartWritten
  <2>3. QED
    BY <2>1, <2>2 DEF KidsWritten, KidWritten
<1>4. OpenParts \subseteq DOMAIN value
  <2>1. CASE open = <<>>
    BY <2>1 DEF OpenParts
  <2>2. CASE open # <<>>
    <3>1. /\ cur \in DOMAIN value /\ Len(open) \in Nat \ {0} /\ Len(stack) = Len(open) - 1
          /\ \A i \in 1..Len(stack) : Pointers[i] = stack[i]
      BY <2>2, CurFacts
    <3>2. \A i \in 1..Len(open) : Pointers[i] \in DOMAIN value
      BY <2>2 DEF PointerInv
    <3>3. DOMAIN stack = 1..Len(stack)
      BY DEF PointerInv, ReaderTypes
    <3>4. \A i \in DOMAIN stack : stack[i] \in DOMAIN value
      BY <3>1, <3>2, <3>3
    <3>5. QED
      BY <2>2, <3>1, <3>4, Zenon DEF OpenParts
  <2>3. QED
    BY <2>1, <2>2
<1>5. QED
  BY <1>1, <1>2, <1>3, <1>4

\* A part that begins with the token tk.
Begun(part, tk) ==
    \/ tk \in Atoms /\ part = Atom(tk) /\ OpenParts' = OpenParts
    \/ tk \in Openings /\ part = Compound(tk) /\ OpenParts' = OpenParts \cup {Added}

\* A token that begins a kid of the open part.
LEMMA SoundAdds ==
    ASSUME PointerInv, NEW tk \in Tokens, Read(tk), NEW span, Sound(span), open # <<>>,
           NEW part, AddToCurrent(part), Begun(part, tk), NEW q, q = NewPath(value, cur),
           NEW new, new = [p \in DOMAIN value \cup {q} |->
                              IF p = q THEN [first |-> Len(text) + 1, last |-> Len(text) + 1] ELSE span[p]],
           KidWritten(value', text', new, cur, value[cur].kids + 1)
    PROVE  Sound(new)'
<1> DEFINE n == Len(text)
           k == value[cur].kids
<1>0. n \in Nat /\ Len(text') = n + 1 /\ text'[n + 1] = tk /\ Agree(text, text', n)
  BY TextGrows DEF Agree
<1>1. /\ IsValue(value) /\ <<>> \in DOMAIN value
      /\ \A p \in DOMAIN value : p \in Paths /\ value[p] \in Parts /\ value[p].kids \in Nat
      /\ \A p \in DOMAIN value : \A i \in 1..value[p].kids : Append(p, i) \in DOMAIN value
      /\ OpenParts \subseteq DOMAIN value
  BY SoundFacts
<1>2. cur \in DOMAIN value /\ cur \in OpenParts /\ k \in Nat
  BY <1>1, CurFacts DEF OpenParts
<1>3. part \in Parts /\ part.kids = 0 /\ part.name = NoName
  BY AtomTyped, CompoundTyped DEF Begun, Atom, Compound
<1> DEFINE nm == IF value[cur].type = "obj" THEN name ELSE NoName
<1>4. /\ Added = q /\ DOMAIN value' = DOMAIN value \cup {q} /\ value'[q] = Named(part, nm)
      /\ value'[cur] = MoreKids(value[cur]) /\ value'[cur].kids = k + 1
      /\ \A r \in DOMAIN value \ {cur, q} : value'[r] = value[r]
  <2>1. /\ Added = NewPath(value, cur)
        /\ DOMAIN value' = DOMAIN value \cup {Added}
        /\ value'[Added] = Named(part, nm)
        /\ value'[cur] = MoreKids(value[cur]) /\ value'[cur].kids = value[cur].kids + 1
        /\ \A r \in DOMAIN value \ {cur, Added} : value'[r] = value[r]
    BY <1>3, Adds
  <2> HIDE DEF nm
  <2>2. QED
    BY <2>1
<1>5. q # <<>> /\ Front(q) = cur /\ Last(q) = k + 1
  <2>1. cur \in Seq(Nat \ {0}) /\ k + 1 \in Nat \ {0}
    BY <1>1, <1>2 DEF Paths
  <2>2. q = Append(cur, k + 1)
    BY DEF NewPath
  <2>3. QED
    BY <2>1, <2>2, AppendFacts
<1>6. q \notin DOMAIN value
  <2> SUFFICES ASSUME q \in DOMAIN value PROVE FALSE
    OBVIOUS
  <2>1. Last(q) <= value[Front(q)].kids
    BY <1>5 DEF Sound
  <2>2. QED
    BY <1>2, <1>5, <2>1
<1>7. /\ value'[cur].type = value[cur].type /\ value'[cur].name = value[cur].name
      /\ value'[cur].atom = value[cur].atom
  BY <1>1, <1>2, <1>4, MoreKidsFacts
<1>8. /\ value'[q].type = part.type /\ value'[q].kids = 0 /\ value'[q].atom = part.atom
  <2>1. nm \in Names \cup {NoName}
    BY DEF PointerInv, ReaderTypes
  <2> HIDE DEF nm
  <2>2. QED
    BY <1>3, <1>4, <2>1, NamedFacts
<1> HIDE DEF n, k, nm
<1>9. span \in [DOMAIN value -> [first : 1..n, last : 1..n]]
  BY DEF Sound, n
<1>10. new \in [DOMAIN value' -> [first : 1..(n + 1), last : 1..(n + 1)]]
  <2>1. 1..n \subseteq 1..(n + 1) /\ n + 1 \in 1..(n + 1)
    BY <1>0
  <2>2. \A p \in DOMAIN value : span[p] \in [first : 1..(n + 1), last : 1..(n + 1)]
    BY <1>9, <2>1
  <2>3. new = [p \in DOMAIN value \cup {q} |-> IF p = q THEN [first |-> n + 1, last |-> n + 1] ELSE span[p]]
    BY DEF n
  <2>4. QED
    BY <1>4, <2>1, <2>2, <2>3
<1>11. \A p \in DOMAIN value : new[p] = span[p] /\ p \in DOMAIN value' /\ p # q
  BY <1>4, <1>6
<1>12. \A p \in DOMAIN value : value'[p].name = value[p].name /\ value'[p].type = value[p].type
                               /\ value'[p].atom = value[p].atom
  <2>1. \A p \in DOMAIN value : p = cur \/ value'[p] = value[p]
    BY <1>4, <1>6
  <2>2. QED
    BY <1>7, <2>1
<1>13. ASSUME NEW p \in DOMAIN value, KidsWritten(value, text, span, p)
       PROVE  \A i \in 1..value[p].kids : KidWritten(value', text', new, p, i)
  <2>1. \A i \in 1..(value[p].kids - 1) : new[Append(p, i)].last = span[Append(p, i)].last
    <3> SUFFICES ASSUME NEW i \in 1..(value[p].kids - 1)
                 PROVE  new[Append(p, i)].last = span[Append(p, i)].last
      OBVIOUS
    <3>1. value[p].kids \in Nat
      BY <1>1
    <3>2. i \in 1..value[p].kids
      BY <3>1
    <3>3. Append(p, i) \in DOMAIN value
      BY <1>1, <3>2
    <3>4. QED
      BY <1>11, <3>3
  <2>2. \A r \in DOMAIN value : r \in DOMAIN value' /\ value'[r].name = value[r].name
                                /\ new[r].first = span[r].first
    BY <1>11, <1>12
  <2>3. value'[p].type = value[p].type
    BY <1>12
  <2>4. QED
    BY <1>0, <1>1, <1>9, <1>13, <2>1, <2>2, <2>3, KidsKept
<1>14. ASSUME NEW p \in DOMAIN value, p \in OpenParts
       PROVE  OpenWritten(value', text', new, p)
  <2>1. OpenWritten(value, text, span, p)
    BY <1>14 DEF Sound
  <2>2. KidsWritten(value, text, span, p)
    BY <2>1 DEF OpenWritten
  <2>3. \A i \in 1..value[p].kids : KidWritten(value', text', new, p, i)
    BY <1>13, <2>2
  <2>4. KidsWritten(value', text', new, p)
    <3>1. CASE p = cur
      <4>1. \A i \in 1..value'[cur].kids : i \in 1..value[cur].kids \/ i = value[cur].kids + 1
        BY <1>2, <1>4 DEF k
      <4>2. QED
        BY <2>3, <3>1, <4>1 DEF KidsWritten
    <3>2. CASE p # cur
      <4>1. value'[p] = value[p]
        BY <1>4, <1>6, <3>2
      <4>2. QED
        BY <2>3, <4>1 DEF KidsWritten
    <3>3. QED
      BY <3>1, <3>2
  <2>5. text'[new[p].first] = text[span[p].first]
    <3>1. span[p].first \in 1..n /\ new[p] = span[p]
      BY <1>9, <1>11
    <3>2. QED
      BY <1>0, <3>1 DEF Agree
  <2>6. value'[p].type = value[p].type /\ value'[p].atom = value[p].atom
    BY <1>12
  <2>7. QED
    BY <2>1, <2>4, <2>5, <2>6 DEF OpenWritten
<1>15. ASSUME NEW p \in DOMAIN value, p \notin OpenParts
       PROVE  PartWritten(value', text', new, p)
  <2>1. PartWritten(value, text, span, p)
    BY <1>15 DEF Sound
  <2>2. /\ value'[p].type = value[p].type /\ value'[p].atom = value[p].atom
        /\ value'[p].kids = value[p].kids /\ new[p].last = span[p].last
    BY <1>2, <1>4, <1>6, <1>11, <1>15
  <2>3. \A i \in 1..value[p].kids : new[Append(p, i)].last = span[Append(p, i)].last
    BY <1>1, <1>11
  <2>5. \A r \in DOMAIN value : r \in DOMAIN value' /\ value'[r].name = value[r].name
                                 /\ new[r].first = span[r].first
    BY <1>11, <1>12
  <2>6. n \in Nat /\ IsValue(value) /\ Agree(text, text', n)
    BY <1>0, <1>1
  <2>7. QED
    BY <1>9, <2>1, <2>2, <2>3, <2>5, <2>6, PartKept, ZenonT(60)
<1>16. /\ q \in OpenParts' => OpenWritten(value', text', new, q)
       /\ q \notin OpenParts' => PartWritten(value', text', new, q)
  <2>1. new[q] = [first |-> n + 1, last |-> n + 1]
    BY DEF n
  <2>2. text'[new[q].first] = tk /\ new[q].last = new[q].first
    BY <1>0, <2>1
  <2>3. CASE tk \in Atoms /\ part = Atom(tk) /\ OpenParts' = OpenParts
    <3>1. q \notin OpenParts'
      BY <1>1, <1>6, <2>3
    <3>2. value'[q].type = AtomType(tk) /\ value'[q].atom = tk
      BY <1>8, <2>3 DEF Atom
    <3>3. QED
      BY <1>8, <2>2, <2>3, <3>1, <3>2 DEF PartWritten, AtomWritten
  <2>4. CASE tk \in Openings /\ part = Compound(tk) /\ OpenParts' = OpenParts \cup {Added}
    <3>1. q \in OpenParts'
      BY <1>4, <2>4
    <3>2. value'[q].type = Compound(tk).type /\ value'[q].atom = NoName
      BY <1>8, <2>4 DEF Compound
    <3>3. QED
      BY <1>8, <2>2, <2>4, <3>1, <3>2 DEF OpenWritten, KidsWritten
  <2>5. QED
    BY <2>3, <2>4 DEF Begun
<1>17. \A p \in DOMAIN value : p \in OpenParts' <=> p \in OpenParts
  BY <1>4, <1>6 DEF Begun
<1>18. ASSUME NEW p \in DOMAIN value' \ {<<>>}
       PROVE  Front(p) \in DOMAIN value' /\ Last(p) <= value'[Front(p)].kids
  <2>1. CASE p = q
    BY <1>2, <1>4, <1>5, <2>1
  <2>2. CASE p # q
    <3>1. p \in DOMAIN value \ {<<>>}
      BY <1>4, <2>2
    <3>2. Front(p) \in DOMAIN value /\ Last(p) <= value[Front(p)].kids
      BY <3>1 DEF Sound
    <3>3. Front(p) # cur => value'[Front(p)] = value[Front(p)]
      BY <1>4, <1>6, <3>2
    <3>4. Last(p) \in Nat
      <4>1. p \in Seq(Nat \ {0}) /\ p # <<>>
        BY <1>1, <3>1 DEF Paths
      <4>2. QED
        BY <4>1, FrontFacts
    <3>5. Front(p) = cur => Last(p) <= value'[Front(p)].kids
      BY <1>2, <1>4, <3>2, <3>4 DEF k
    <3>6. QED
      BY <1>4, <3>2, <3>3, <3>5
  <2>3. QED
    BY <2>1, <2>2
<1>19. value'[<<>>].name = NoName /\ new[<<>>].first = 1
  BY <1>1, <1>11, <1>12 DEF Sound
<1>20. ASSUME NEW p \in DOMAIN value'
       PROVE  /\ p \in OpenParts' => OpenWritten(value', text', new, p)
              /\ p \notin OpenParts' => PartWritten(value', text', new, p)
  BY <1>4, <1>14, <1>15, <1>16, <1>17
<1>21. QED
  BY <1>0, <1>10, <1>18, <1>19, <1>20 DEF Sound

\* The first token of a text.
LEMMA SoundRoot ==
    ASSUME PointerInv, NEW tk \in Tokens, Read(tk), text = <<>>, cur = NoPointer, open = <<>>,
           NEW part, AddToCurrent(part), Begun(part, tk),
           NEW new, new = [p \in {<<>>} |-> [first |-> 1, last |-> 1]]
    PROVE  Sound(new)' /\ Len(text') = 1
<1>0. Len(text') = 1 /\ text'[1] = tk
  BY TextGrows
<1>1. part \in Parts /\ part.kids = 0 /\ part.name = NoName
  BY AtomTyped, CompoundTyped DEF Begun, Atom, Compound
<1>2. DOMAIN value' = {<<>>} /\ value'[<<>>] = part /\ Added = <<>>
  BY <1>1, AddsRoot
<1>3. new \in [DOMAIN value' -> [first : 1..1, last : 1..1]] /\ new[<<>>].first = 1 /\ new[<<>>].last = 1
  BY <1>2
<1>4. OpenParts = {}
  BY DEF OpenParts
<1>5. CASE tk \in Atoms /\ part = Atom(tk) /\ OpenParts' = OpenParts
  <2>1. part.type = AtomType(tk) /\ part.atom = tk
    BY <1>5 DEF Atom
  <2>2. AtomWritten(value', text', new, <<>>)
    BY <1>0, <1>1, <1>2, <1>3, <1>5, <2>1 DEF AtomWritten
  <2>3. QED
    BY <1>0, <1>1, <1>2, <1>3, <1>4, <1>5, <2>2 DEF Sound, PartWritten
<1>6. CASE tk \in Openings /\ part = Compound(tk) /\ OpenParts' = OpenParts \cup {Added}
  <2>1. part.atom = NoName
    BY <1>6 DEF Compound
  <2>2. OpenWritten(value', text', new, <<>>)
    BY <1>0, <1>1, <1>2, <1>3, <1>6, <2>1 DEF OpenWritten, KidsWritten
  <2>3. QED
    BY <1>0, <1>1, <1>2, <1>3, <1>4, <1>6, <2>2 DEF Sound
<1>7. QED
  BY <1>5, <1>6 DEF Begun

\* The places of the parts when the next token ends the open one.
Ending(span) ==
    [p \in DOMAIN value |->
        [first |-> span[p].first, last |-> IF p = cur THEN Len(text) + 1 ELSE span[p].last]]

\* A token that ends the open part, and the grammar back in the one around it.
LEMMA SoundCloses ==
    ASSUME PointerInv, NEW tk \in Tokens, Read(tk), ReadClose(tk), NEW span, Sound(span), Reached(span),
           NEW new, new = Ending(span)
    PROVE  Sound(new)' /\ Reached(new)'
<1> DEFINE n == Len(text)
           k == value[cur].kids
<1>0. n \in Nat /\ Len(text') = n + 1 /\ text'[n + 1] = tk /\ Agree(text, text', n)
  BY TextGrows DEF Agree
<1>1. /\ WantsClose /\ tk = Closing /\ open # <<>> /\ at \in {"first", "next"}
      /\ value' = value /\ name' = name /\ open' = Front(open) /\ at' = AfterValue(Front(open))
      /\ IF cur = <<>> THEN cur' = cur /\ stack' = stack
         ELSE cur' = Last(stack) /\ stack' = Front(stack)
  BY DEF ReadClose, EndCompound, WantsClose
<1>2. /\ IsValue(value) /\ <<>> \in DOMAIN value
      /\ \A p \in DOMAIN value : p \in Paths /\ value[p] \in Parts /\ value[p].kids \in Nat
      /\ \A p \in DOMAIN value : \A i \in 1..value[p].kids : Append(p, i) \in DOMAIN value
      /\ OpenParts \subseteq DOMAIN value
  BY SoundFacts
<1>3. /\ cur \in DOMAIN value /\ cur \in Paths /\ Len(cur) = Len(open) - 1
      /\ Len(open) \in Nat \ {0} /\ Len(stack) = Len(open) - 1
      /\ Pointers[Len(open)] = cur
      /\ \A i \in 1..Len(stack) : Pointers[i] = stack[i]
      /\ value[cur].type = Compound(Last(open)).type
  BY <1>1, CurFacts
<1>4. \A i \in 1..Len(open) : Pointers[i] \in DOMAIN value /\ Len(Pointers[i]) = i - 1
  BY <1>1 DEF PointerInv
<1>5. cur # <<>> => /\ cur' \in DOMAIN value /\ cur' \in OpenParts
                    /\ cur = Append(cur', value[cur'].kids)
  <2> SUFFICES ASSUME cur # <<>>
               PROVE  cur' \in DOMAIN value /\ cur' \in OpenParts /\ cur = Append(cur', value[cur'].kids)
    OBVIOUS
  <2>1. Len(cur) \in Nat \ {0}
    <3>1. cur \in Seq(Nat \ {0})
      BY <1>3 DEF Paths
    <3>2. QED
      BY <3>1
  <2>2. stack \in Seq(Paths) /\ stack # <<>> /\ Len(stack) \in Nat \ {0}
    BY <1>3, <2>1 DEF PointerInv, ReaderTypes
  <2>3. cur' = stack[Len(stack)]
    BY <1>1, <2>2, FrontFacts
  <2>4. Len(stack) \in DOMAIN stack
    BY <2>2
  <2>5. cur' \in OpenParts
    BY <1>1, <2>3, <2>4 DEF OpenParts
  <2>6. /\ Len(open) \in 1..Len(open) /\ Len(open) # 1 /\ Len(open) - 1 = Len(stack)
        /\ Len(stack) \in 1..Len(stack)
    BY <1>3, <2>1
  <2>7. Pointers[Len(open)] = Append(Pointers[Len(open) - 1], value[Pointers[Len(open) - 1]].kids)
    BY <1>1, <2>6 DEF PointerInv
  <2>8. QED
    BY <1>2, <1>3, <2>3, <2>5, <2>6, <2>7
<1>6. OpenParts' = OpenParts \ {cur}
  <2>1. CASE cur = <<>>
    <3>1. Len(open) = 1 /\ Len(stack) = 0
      BY <1>3, <2>1, EmptyPath
    <3>2. DOMAIN stack = {}
      BY <3>1 DEF PointerInv, ReaderTypes
    <3>3. OpenParts = {cur}
      BY <1>1, <3>2 DEF OpenParts
    <3>4. Front(open) = <<>>
      <4>1. open \in Seq(Openings)
        BY DEF PointerInv, ReaderTypes
      <4>2. Front(open) \in Seq(Openings) /\ Len(Front(open)) = 0
        BY <1>1, <3>1, <4>1, FrontFacts
      <4>3. QED
        BY <4>2
    <3>5. QED
      BY <1>1, <3>3, <3>4 DEF OpenParts
  <2>2. CASE cur # <<>>
    <3>1. Len(cur) \in Nat \ {0}
      <4>1. cur \in Seq(Nat \ {0})
        BY <1>3 DEF Paths
      <4>2. QED
        BY <2>2, <4>1
    <3>2. stack \in Seq(Paths) /\ stack # <<>> /\ Len(stack) \in Nat \ {0}
      BY <1>3, <3>1 DEF PointerInv, ReaderTypes
    <3>3. /\ Front(stack) \in Seq(Paths) /\ Last(stack) = stack[Len(stack)]
          /\ Len(Front(stack)) = Len(stack) - 1
          /\ \A i \in 1..(Len(stack) - 1) : Front(stack)[i] = stack[i]
      BY <3>2, FrontFacts
    <3>4. /\ DOMAIN stack = 1..Len(stack) /\ DOMAIN stack' = 1..(Len(stack) - 1)
          /\ cur' = stack[Len(stack)] /\ stack' = Front(stack)
      BY <1>1, <2>2, <3>2, <3>3
    <3>5. open' # <<>>
      <4>1. open \in Seq(Openings)
        BY DEF PointerInv, ReaderTypes
      <4>2. Front(open) \in Seq(Openings) /\ Len(Front(open)) = Len(open) - 1
        BY <1>1, <4>1, FrontFacts
      <4>3. Len(Front(open)) # 0
        BY <1>3, <3>1, <4>2
      <4>4. QED
        BY <1>1, <4>3
    <3>6. \A i \in DOMAIN stack : stack[i] # cur
      <4> SUFFICES ASSUME NEW i \in DOMAIN stack PROVE stack[i] # cur
        OBVIOUS
      <4>1. i \in 1..Len(stack) /\ i \in 1..Len(open) /\ i - 1 < Len(cur)
        BY <1>3, <3>1, <3>4
      <4>2. Len(Pointers[i]) = i - 1 /\ Pointers[i] = stack[i]
        BY <1>3, <1>4, <4>1
      <4>3. QED
        BY <4>1, <4>2
    <3>7. {stack'[i] : i \in DOMAIN stack'} \cup {cur'} = {stack[i] : i \in DOMAIN stack}
      <4>1. \A i \in DOMAIN stack' : i \in DOMAIN stack /\ stack'[i] = stack[i]
        BY <3>2, <3>3, <3>4
      <4>2. Len(stack) \in DOMAIN stack
        BY <3>2, <3>4
      <4>3. \A i \in DOMAIN stack : i = Len(stack) \/ (i \in DOMAIN stack' /\ stack'[i] = stack[i])
        BY <3>2, <3>3, <3>4
      <4>4. QED
        BY <3>4, <4>1, <4>2, <4>3, Zenon
    <3>8. OpenParts = {stack[i] : i \in DOMAIN stack} \cup {cur}
      BY <1>1 DEF OpenParts
    <3>9. OpenParts' = {stack'[i] : i \in DOMAIN stack'} \cup {cur'}
      BY <3>5 DEF OpenParts
    <3>10. cur \notin {stack[i] : i \in DOMAIN stack}
      BY <3>6
    <3>11. QED
      BY <3>7, <3>8, <3>9, <3>10, Zenon
  <2>3. QED
    BY <2>1, <2>2
<1>7. span \in [DOMAIN value -> [first : 1..n, last : 1..n]]
  BY DEF Sound
<1>8. /\ \A p \in DOMAIN value : new[p].first = span[p].first
      /\ \A p \in DOMAIN value : p # cur => new[p].last = span[p].last
      /\ new[cur].last = n + 1
  BY <1>3 DEF Ending
<1>9. new \in [DOMAIN value -> [first : 1..(n + 1), last : 1..(n + 1)]]
  <2>1. 1..n \subseteq 1..(n + 1) /\ n + 1 \in 1..(n + 1)
    BY <1>0
  <2>2. \A p \in DOMAIN value : span[p].first \in 1..n /\ span[p].last \in 1..n
    BY <1>7
  <2>3. new = [p \in DOMAIN value |-> [first |-> span[p].first,
                                       last |-> IF p = cur THEN n + 1 ELSE span[p].last]]
    BY DEF Ending
  <2> HIDE DEF n
  <2>4. QED
    BY <2>1, <2>2, <2>3
<1> HIDE DEF n, k
\* Only of the part around it is it a kid, and the last one.
<1>10. ASSUME NEW p \in DOMAIN value, NEW i \in 1..value[p].kids, Append(p, i) = cur
       PROVE  p = cur' /\ i = value[p].kids /\ p \in OpenParts
  <2>1. p \in Seq(Nat \ {0}) /\ i \in Nat \ {0}
    BY <1>2 DEF Paths
  <2>2. cur # <<>> /\ Front(cur) = p /\ Last(cur) = i
    <3>1. Append(p, i) # <<>> /\ Front(Append(p, i)) = p /\ Last(Append(p, i)) = i
      <4>1. p \in Seq(Nat) /\ i \in Nat
        BY <2>1
      <4>2. QED
        BY <4>1, AppendFacts
    <3>2. QED
      BY <1>10, <3>1
  <2>3. cur' \in Seq(Nat \ {0}) /\ value[cur'].kids \in Nat /\ Append(cur', value[cur'].kids) = cur
    BY <1>2, <1>5, <2>2 DEF Paths
  <2>4. Front(cur) = cur' /\ Last(cur) = value[cur'].kids
    <3>1. PICK c, m : c = cur' /\ m = value[cur'].kids
      OBVIOUS
    <3>2. c \in Seq(Nat) /\ m \in Nat
      BY <2>3, <3>1
    <3>3. Front(Append(c, m)) = c /\ Last(Append(c, m)) = m
      BY <3>2, AppendFacts
    <3>4. QED
      BY <2>3, <3>1, <3>3
  <2>5. QED
    BY <1>5, <2>2, <2>4
<1>11. \A p \in DOMAIN value : value[p].name = value'[p].name /\ p \in DOMAIN value'
  BY <1>1
<1>12. ASSUME NEW p \in DOMAIN value, KidsWritten(value, text, span, p)
       PROVE  \A i \in 1..value[p].kids : KidWritten(value, text', new, p, i)
  <2>1. \A i \in 1..(value[p].kids - 1) : new[Append(p, i)].last = span[Append(p, i)].last
    <3> SUFFICES ASSUME NEW i \in 1..(value[p].kids - 1)
                 PROVE  new[Append(p, i)].last = span[Append(p, i)].last
      OBVIOUS
    <3>1. value[p].kids \in Nat
      BY <1>2
    <3>2. i \in 1..value[p].kids /\ i # value[p].kids
      BY <3>1
    <3>3. Append(p, i) \in DOMAIN value
      BY <1>2, <3>2
    <3>4. Append(p, i) # cur
      BY <1>10, <3>2
    <3>5. QED
      BY <1>8, <3>3, <3>4
  <2>2. QED
    BY <1>0, <1>2, <1>7, <1>8, <1>12, <2>1, KidsKept
<1>13. ASSUME NEW p \in DOMAIN value, p \in OpenParts
       PROVE  OpenWritten(value, text', new, p)
  <2>1. OpenWritten(value, text, span, p)
    BY <1>13 DEF Sound
  <2>2. \A i \in 1..value[p].kids : KidWritten(value, text', new, p, i)
    BY <1>12, <2>1 DEF OpenWritten
  <2>3. text'[new[p].first] = text[span[p].first]
    <3>1. span[p].first \in 1..n
      BY <1>7
    <3>2. QED
      BY <1>0, <1>8, <3>1 DEF Agree
  <2>4. QED
    BY <2>1, <2>2, <2>3 DEF OpenWritten, KidsWritten
<1>14. ASSUME NEW p \in DOMAIN value, p \notin OpenParts
       PROVE  PartWritten(value, text', new, p)
  <2>1. PartWritten(value, text, span, p)
    BY <1>14 DEF Sound
  <2>2. cur \in OpenParts
    BY <1>1 DEF OpenParts
  <2>3. new[p].last = span[p].last
    BY <1>8, <1>14, <2>2
  <2>4. \A i \in 1..value[p].kids : new[Append(p, i)].last = span[Append(p, i)].last
    <3> SUFFICES ASSUME NEW i \in 1..value[p].kids
                 PROVE  new[Append(p, i)].last = span[Append(p, i)].last
      OBVIOUS
    <3>1. Append(p, i) \in DOMAIN value
      BY <1>2
    <3>2. Append(p, i) # cur
      BY <1>10, <1>14
    <3>3. QED
      BY <1>8, <3>1, <3>2
  <2>5. n \in Nat /\ IsValue(value) /\ Agree(text, text', n)
    BY <1>0, <1>2
  <2>6. \A q \in DOMAIN value : new[q].first = span[q].first
    BY <1>8
  <2>7. QED
    BY <1>7, <2>1, <2>3, <2>4, <2>5, <2>6, PartKept
\* The part that has ended.
<1>15. CompoundWritten(value, text', new, cur)
  <2>1. OpenWritten(value, text', new, cur) /\ cur \in OpenParts
    <3>1. cur \in OpenParts
      BY <1>1 DEF OpenParts
    <3>2. QED
      BY <1>3, <1>13, <3>1
  <2>2. text'[new[cur].last] = tk
    BY <1>0, <1>8
  <2>3. /\ text'[new[cur].first] \in Openings
        /\ value[cur].type = Compound(text'[new[cur].first]).type /\ value[cur].atom = NoName
        /\ \A i \in 1..value[cur].kids : KidWritten(value, text', new, cur, i)
    BY <2>1 DEF OpenWritten, KidsWritten
  <2>4. \/ text'[new[cur].first] = BeginObj /\ tk = EndObj
        \/ text'[new[cur].first] = BeginArray /\ tk = EndArray
    <3>1. Last(open) \in Openings
      <4>1. open \in Seq(Openings)
        BY DEF PointerInv, ReaderTypes
      <4>2. QED
        BY <1>1, <4>1, FrontFacts
    <3>2. text'[new[cur].first] = Last(open)
      BY <1>3, <2>3, <3>1, TokenFacts DEF Compound
    <3>3. QED
      BY <1>1, <3>1, <3>2, TokenFacts DEF Closing, InObject
  <2>5. k \in Nat
    BY <1>2, <1>3 DEF k
  <2>6. n + 1 = (IF k = 0 THEN new[cur].first ELSE new[Append(cur, k)].last) + 1
    <3>1. \/ at = "first" /\ k = 0 /\ n = span[cur].first
          \/ at = "next" /\ k # 0 /\ n = span[Append(cur, k)].last + 1 - 1
      <4>1. \/ at = "first" /\ value[cur].kids = 0 /\ Len(text) = span[cur].first
            \/ at = "next" /\ value[cur].kids # 0 /\ Len(text) = span[Append(cur, value[cur].kids)].last + 1 - 1
        <5>1. CASE at = "first"
          BY <5>1 DEF Reached, Edge
        <5>2. CASE at = "next"
          <6>1. value[cur].kids # 0 /\ Len(text) = Edge(span) - 1
            BY <5>2 DEF Reached
          <6>2. Edge(span) = span[Append(cur, value[cur].kids)].last + 1
            BY <6>1 DEF Edge
          <6>3. span[Append(cur, value[cur].kids)].last \in Nat
            <7>1. value[cur].kids \in 1..value[cur].kids
              BY <2>5, <6>1 DEF k
            <7>2. Append(cur, value[cur].kids) \in DOMAIN value
              BY <1>2, <1>3, <7>1
            <7>3. QED
              BY <1>7, <7>2
          <6>4. QED
            BY <5>2, <6>1, <6>2, <6>3
        <5>3. QED
          BY <1>1, <5>1, <5>2
      <4>2. QED
        BY <4>1 DEF n, k
    <3>2. CASE k = 0
      BY <1>3, <1>8, <3>1, <3>2
    <3>3. CASE k # 0
      <4>1. k \in 1..value[cur].kids
        BY <2>5, <3>3 DEF k
      <4>2. PICK q \in DOMAIN value : q = Append(cur, k)
        BY <1>2, <1>3, <4>1
      <4>3. q # cur
        <5>1. cur \in Seq(Nat \ {0}) /\ k \in Nat \ {0}
          BY <1>3, <2>5, <3>3 DEF Paths
        <5>2. Len(q) = Len(cur) + 1 /\ Len(cur) \in Nat
          BY <4>2, <5>1, AppendFacts
        <5>3. QED
          BY <5>2
      <4>4. new[q].last = span[q].last /\ span[q].last \in Nat
        BY <1>7, <1>8, <4>3
      <4>5. QED
        BY <1>0, <3>1, <3>3, <4>2, <4>4
    <3>4. QED
      BY <3>2, <3>3
  <2>7. QED
    BY <1>8, <2>2, <2>3, <2>4, <2>6 DEF CompoundWritten, k
<1>16. /\ \A p \in DOMAIN value \ {<<>>} : Front(p) \in DOMAIN value /\ Last(p) <= value[Front(p)].kids
       /\ value[<<>>].name = NoName /\ new[<<>>].first = 1
  BY <1>2, <1>8 DEF Sound
<1>17. ASSUME NEW p \in DOMAIN value
       PROVE  /\ p \in OpenParts' => OpenWritten(value, text', new, p)
              /\ p \notin OpenParts' => PartWritten(value, text', new, p)
  BY <1>6, <1>13, <1>14, <1>15 DEF PartWritten
<1>18. Sound(new)'
  BY <1>0, <1>1, <1>9, <1>16, <1>17 DEF Sound
<1>19. Reached(new)'
  <2>1. CASE cur = <<>>
    <3>1. OpenParts' = {}
      <4>1. Len(open) = 1 /\ Len(stack) = 0
        BY <1>3, <2>1, EmptyPath
      <4>2. DOMAIN stack = {}
        BY <4>1 DEF PointerInv, ReaderTypes
      <4>3. OpenParts = {cur}
        BY <1>1, <4>2 DEF OpenParts
      <4>4. QED
        BY <1>6, <4>3
    <3>2. open' = <<>>
      BY <3>1 DEF OpenParts
    <3>3. at' = "end"
      BY <1>1, <3>2 DEF AfterValue
    <3>4. Len(text') = new[<<>>].last
      BY <1>0, <1>8, <2>1
    <3>5. QED
      BY <3>2, <3>3, <3>4 DEF Reached
  <2>2. CASE cur # <<>>
    <3>1. cur' \in DOMAIN value /\ cur' \in OpenParts /\ cur = Append(cur', value[cur'].kids)
      BY <1>5, <2>2
    <3>2. cur' # cur
      <4>1. cur' \in Seq(Nat \ {0}) /\ value[cur'].kids \in Nat
        BY <1>2, <3>1 DEF Paths
      <4>2. cur' \in Seq(Nat)
        BY <4>1
      <4>3. Len(cur) = Len(cur') + 1 /\ Len(cur') \in Nat
        BY <3>1, <4>1, <4>2, AppendFacts
      <4>4. QED
        BY <4>3
    <3>3. open' # <<>>
      <4>1. cur' \in OpenParts'
        BY <1>6, <3>1, <3>2
      <4>2. QED
        BY <4>1 DEF OpenParts
    <3>4. at' = "next"
      BY <1>1, <3>3 DEF AfterValue
    <3>5. value[cur'].kids # 0
      <4>1. value[cur'].kids \in Nat /\ cur' \in Seq(Nat)
        BY <1>2, <3>1 DEF Paths
      <4>2. Last(cur) = value[cur'].kids
        BY <3>1, <4>1, AppendFacts
      <4>3. Last(cur) \in Nat \ {0}
        <5>1. cur \in Seq(Nat \ {0})
          BY <1>3 DEF Paths
        <5>2. QED
          BY <2>2, <5>1, FrontFacts
      <4>4. QED
        BY <4>2, <4>3
    <3>6. Len(text') = Edge(new)' - 1
      <4>1. Edge(new)' = new[Append(cur', value[cur'].kids)].last + 1
        BY <1>1, <3>5 DEF Edge
      <4>2. Edge(new)' = n + 1 + 1
        BY <1>8, <3>1, <4>1
      <4>3. QED
        BY <1>0, <4>2
    <3>7. value'[cur'].kids # 0
      BY <1>1, <3>5
    <3>8. QED
      BY <3>3, <3>4, <3>6, <3>7 DEF Reached
  <2>3. QED
    BY <2>1, <2>2
<1>20. QED
  BY <1>18, <1>19

\* The edge of the open part is among the tokens read, or the next one.
LEMMA EdgeFacts ==
    ASSUME PointerInv, NEW span, Sound(span), open # <<>>
    PROVE  value[cur].kids \in Nat /\ Edge(span) \in Nat \ {0}
<1>1. text \in Seq(Tokens) /\ Len(text) \in Nat
  BY DEF PointerInv, ReaderTypes
<1>2. /\ cur \in DOMAIN value /\ value[cur].kids \in Nat
      /\ \A i \in 1..value[cur].kids : Append(cur, i) \in DOMAIN value
  BY CurFacts, SoundFacts
<1>3. span \in [DOMAIN value -> [first : 1..Len(text), last : 1..Len(text)]]
  BY DEF Sound
<1>4. CASE value[cur].kids = 0
  <2>1. span[cur].first \in Nat \ {0}
    BY <1>1, <1>2, <1>3
  <2>2. QED
    BY <1>2, <1>4, <2>1 DEF Edge
<1>5. CASE value[cur].kids # 0
  <2>1. PICK q \in DOMAIN value : q = Append(cur, value[cur].kids)
    <3>1. value[cur].kids \in 1..value[cur].kids
      BY <1>2, <1>5
    <3>2. QED
      BY <1>2, <3>1
  <2>2. span[q].last \in Nat
    BY <1>1, <1>3
  <2>3. QED
    BY <1>2, <1>5, <2>1, <2>2 DEF Edge
<1>6. QED
  BY <1>4, <1>5

\* What has come before a value that is wanted in an object or an array.
LEMMA BeforeValue ==
    ASSUME PointerInv, NEW span, Sound(span), Reached(span), WantsValue
    PROVE  /\ open # <<>> /\ Edge(span) \in 1..Len(text)
           /\ \/ /\ value[cur].type = "array" /\ Len(text) = Edge(span)
                 /\ value[cur].kids # 0 => text[Len(text)] = Comma
              \/ /\ value[cur].type = "obj" /\ name \in Names /\ Len(text) = Edge(span) + 2
                 /\ value[cur].kids # 0 => text[Len(text) - 2] = Comma
                 /\ text[Len(text) - 1] = name /\ text[Len(text)] = Colon
<1>1. text \in Seq(Tokens) /\ open \in Seq(Openings) /\ Len(text) \in Nat
  BY DEF PointerInv, ReaderTypes
<1>2. open # <<>>
  BY DEF Reached, WantsValue, InObject, InArray
<1>3. value[cur].type = Compound(Last(open)).type
  BY <1>2, CurFacts
<1>4. Edge(span) \in Nat \ {0}
  BY <1>2, EdgeFacts
<1>5. CASE at = "value"
  <2>1. InObject
    BY <1>2, <1>5 DEF Reached
  <2>2. value[cur].type = "obj"
    BY <1>3, <2>1 DEF InObject, Compound
  <2>3. QED
    BY <1>1, <1>2, <1>4, <1>5, <2>2 DEF Reached
<1>6. CASE at # "value"
  <2>1. InArray /\ at \in {"first", "comma"}
    BY <1>6 DEF WantsValue
  <2>2. value[cur].type = "array"
    BY <1>3, <2>1, TokenFacts DEF InArray, Compound
  <2>3. Len(text) = Edge(span) /\ (value[cur].kids # 0 => text[Len(text)] = Comma)
    BY <2>1 DEF Reached
  <2>4. QED
    BY <1>1, <1>2, <1>4, <2>2, <2>3
<1>7. QED
  BY <1>5, <1>6

\* The places of the parts when the next token begins the part at path q.
Beginning(span, q) ==
    [p \in DOMAIN value \cup {q} |->
        IF p = q THEN [first |-> Len(text) + 1, last |-> Len(text) + 1] ELSE span[p]]

\* A value that is wanted goes where the writer would have written it.
LEMMA SoundBegins ==
    ASSUME PointerInv, NEW tk \in Tokens, Read(tk), NEW span, Sound(span), Reached(span), WantsValue,
           NEW part, AddToCurrent(part), Begun(part, tk), NEW q, q = NewPath(value, cur),
           NEW new, new = Beginning(span, q)
    PROVE  Sound(new)'
<1> DEFINE n == Len(text)
           k == value[cur].kids
           e == Edge(span)
           nm == IF value[cur].type = "obj" THEN name ELSE NoName
<1>0. n \in Nat /\ Len(text') = n + 1 /\ text'[n + 1] = tk /\ Agree(text, text', n)
  BY TextGrows DEF Agree
<1>1. /\ open # <<>> /\ e \in 1..n
      /\ \/ value[cur].type = "array" /\ n = e /\ (k # 0 => text[n] = Comma)
         \/ /\ value[cur].type = "obj" /\ name \in Names /\ n = e + 2
            /\ k # 0 => text[n - 2] = Comma
            /\ text[n - 1] = name /\ text[n] = Colon
  BY BeforeValue
<1>2. /\ cur \in DOMAIN value /\ cur \in Paths /\ k \in Nat
      /\ \A i \in 1..k : Append(cur, i) \in DOMAIN value
  BY <1>1, CurFacts, SoundFacts
<1>3. part \in Parts /\ part.kids = 0 /\ part.name = NoName
  BY AtomTyped, CompoundTyped DEF Begun, Atom, Compound
<1>4. /\ DOMAIN value' = DOMAIN value \cup {q} /\ value'[q] = Named(part, nm)
      /\ value'[cur].type = value[cur].type
  <2>1. /\ Added = NewPath(value, cur)
        /\ DOMAIN value' = DOMAIN value \cup {Added}
        /\ value'[Added] = Named(part, nm)
        /\ value'[cur].type = value[cur].type
    BY <1>1, <1>3, Adds
  <2> HIDE DEF nm
  <2>2. QED
    BY <2>1
<1>5. value'[q].name = nm
  <2>1. nm \in Names \cup {NoName}
    BY DEF PointerInv, ReaderTypes
  <2> HIDE DEF nm
  <2>2. QED
    BY <1>3, <1>4, <2>1, NamedFacts
<1>6. new = [p \in DOMAIN value \cup {q} |->
                IF p = q THEN [first |-> Len(text) + 1, last |-> Len(text) + 1] ELSE span[p]]
  BY DEF Beginning
<1>7. Len(q) = Len(cur) + 1 /\ Len(cur) \in Nat /\ \A i \in 1..k : Append(cur, i) # q
  <2>1. cur \in Seq(Nat \ {0}) /\ k + 1 \in Nat \ {0} /\ q = Append(cur, k + 1)
    BY <1>2 DEF Paths, NewPath
  <2>2. ASSUME NEW i \in 1..k PROVE Append(cur, i) # q
    <3>1. i \in Nat \ {0} /\ i # k + 1
      BY <1>2
    <3>2. Last(Append(cur, i)) = i
      BY <2>1, <3>1, AppendFacts
    <3>3. Last(Append(cur, k + 1)) = k + 1
      BY <2>1, AppendFacts
    <3>4. QED
      BY <2>1, <3>1, <3>2, <3>3
  <2>3. Len(q) = Len(cur) + 1 /\ Len(cur) \in Nat
    BY <2>1, AppendFacts
  <2>4. QED
    BY <2>2, <2>3
<1>8. new[q].first = n + 1 /\ e = (IF k + 1 = 1 THEN new[cur].first ELSE new[Append(cur, k)].last + 1)
  <2>1. new[q].first = n + 1 /\ new[cur] = span[cur]
    BY <1>2, <1>6, <1>7
  <2>2. CASE k = 0
    BY <2>1, <2>2 DEF Edge
  <2>3. CASE k # 0
    <3>1. k \in 1..k
      BY <1>2, <2>3
    <3>2. PICK r \in DOMAIN value : r = Append(cur, k) /\ r # q
      BY <1>2, <1>7, <3>1
    <3>3. new[r] = span[r]
      BY <1>6, <3>2
    <3>4. k + 1 # 1
      BY <1>2, <2>3
    <3>5. QED
      BY <2>1, <2>3, <3>2, <3>3, <3>4 DEF Edge
  <2>4. QED
    BY <2>2, <2>3
<1> HIDE DEF n, k, e, nm
<1>9. KidWritten(value', text', new, cur, k + 1)
  <2> DEFINE start == new[q].first - Lead(value'[cur])
  <2>1. start = n + 1 - Lead(value'[cur])
    <3>1. PICK l \in {0, 2} : l = Lead(value'[cur])
      BY DEF Lead
    <3>2. new[q].first - l = n + 1 - l
      <4>1. new[q].first = n + 1
        BY <1>8
      <4>2. QED
        BY <1>0, <4>1
    <3>3. QED
      BY <3>1, <3>2
  <2>2. /\ start = e + 1
        /\ k + 1 # 1 => text'[start - 1] = Comma
        /\ IF value'[cur].type = "obj"
             THEN text'[start] = value'[q].name /\ value'[q].name \in Names /\ text'[start + 1] = Colon
             ELSE value'[q].name = NoName
    <3> HIDE DEF start
    <3>1. CASE value[cur].type = "array"
      <4>1. Lead(value'[cur]) = 0
        BY <1>4, <3>1 DEF Lead
      <4>2. n = e /\ (k # 0 => text[n] = Comma) /\ nm = NoName /\ n \in 1..n
        BY <1>0, <1>1, <3>1 DEF nm
      <4>3. start = e + 1 /\ start - 1 = n
        BY <1>0, <2>1, <4>1, <4>2
      <4>4. k + 1 # 1 => text'[n] = Comma
        BY <1>0, <1>2, <4>2 DEF Agree
      <4>5. QED
        BY <1>4, <1>5, <3>1, <4>2, <4>3, <4>4
    <3>2. CASE value[cur].type = "obj"
      <4>1. Lead(value'[cur]) = 2
        BY <1>4, <3>2 DEF Lead
      <4>2. /\ n = e + 2 /\ (k # 0 => text[n - 2] = Comma) /\ nm = name /\ name \in Names
            /\ text[n - 1] = name /\ text[n] = Colon
            /\ n - 2 \in 1..n /\ n - 1 \in 1..n /\ n \in 1..n
        BY <1>0, <1>1, <3>2 DEF nm
      <4>3. start = e + 1 /\ start - 1 = n - 2 /\ start = n - 1 /\ start + 1 = n
        <5>1. e \in Nat
          BY <1>0, <1>1
        <5>2. start = n + 1 - 2
          BY <2>1, <4>1
        <5>3. QED
          BY <1>0, <4>2, <5>1, <5>2
      <4>4. /\ k + 1 # 1 => text'[n - 2] = Comma
            /\ text'[n - 1] = name /\ text'[n] = Colon
        BY <1>0, <1>2, <4>2 DEF Agree
      <4>5. QED
        BY <1>4, <1>5, <3>2, <4>2, <4>3, <4>4
    <3>3. QED
      BY <1>1, <3>1, <3>2
  <2> HIDE DEF start
  <2>3. PICK i, r : i = k + 1 /\ r = Append(cur, k)
    OBVIOUS
  <2>4. q = Append(cur, i) /\ r = Append(cur, i - 1) /\ q \in DOMAIN value'
    BY <1>2, <1>4, <2>3 DEF NewPath, k
  <2>5. start = (IF i = 1 THEN new[cur].first ELSE new[r].last + 1) + 1 /\ (i # 1 => text'[start - 1] = Comma)
    BY <1>8, <2>2, <2>3
  <2>6. Start(value', new, cur, q) = start
    BY DEF Start, start
  <2>7. KidWritten(value', text', new, cur, i)
    BY <2>2, <2>4, <2>5, <2>6 DEF KidWritten
  <2>8. QED
    BY <2>3, <2>7
<1>10. QED
  BY <1>1, <1>6, <1>9, SoundAdds DEF k

\* Somewhere in the tokens read is every part the reader has built; nothing
\* has been built before the first token.
SoundInv ==
    at # "thrown" =>
        \/ text = <<>> /\ at = "value" /\ open = <<>>
        \/ \E span : Sound(span) /\ Reached(span)

\* A value in one token.
LEMMA SoundAtom ==
    ASSUME PointerInv, SoundInv, NEW tk \in Tokens, Read(tk), ReadAtom(tk)
    PROVE  \E new : Sound(new)' /\ Reached(new)'
<1>1. /\ tk \in Atoms /\ WantsValue /\ AddToCurrent(Atom(tk)) /\ at # "thrown"
      /\ cur' = (IF cur = NoPointer THEN <<>> ELSE cur) /\ at' = AfterValue(open)
      /\ stack' = stack /\ name' = name /\ open' = open
  BY DEF ReadAtom, Read
<1>2. Len(text) \in Nat /\ Len(text') = Len(text) + 1
  BY TextGrows
<1>3. CASE text = <<>> /\ at = "value" /\ open = <<>>
  <2>1. cur = NoPointer
    BY <1>3 DEF PointerInv
  <2>2. OpenParts' = OpenParts
    BY <1>1, <1>3 DEF OpenParts
  <2>3. Begun(Atom(tk), tk)
    BY <1>1, <2>2 DEF Begun
  <2>4. PICK new : new = [p \in {<<>>} |-> [first |-> 1, last |-> 1]]
    OBVIOUS
  <2>5. Sound(new)' /\ Len(text') = 1
    BY <1>1, <1>3, <2>1, <2>3, <2>4, SoundRoot
  <2>6. new[<<>>].last = 1
    BY <2>4
  <2>7. Reached(new)'
    BY <1>1, <1>3, <2>5, <2>6 DEF Reached, AfterValue
  <2>8. QED
    BY <2>5, <2>7
<1>4. ASSUME NEW span, Sound(span), Reached(span) PROVE \E new : Sound(new)' /\ Reached(new)'
  <2>1. open # <<>>
    BY <1>1, <1>4, BeforeValue
  <2>2. cur \in DOMAIN value /\ cur # NoPointer /\ value[cur].kids \in Nat
    BY <1>4, <2>1, CurFacts, SoundFacts
  <2>3. cur' = cur /\ OpenParts' = OpenParts
    BY <1>1, <2>2 DEF OpenParts
  <2>4. Begun(Atom(tk), tk)
    BY <1>1, <2>3 DEF Begun
  <2>5. PICK q, new : q = NewPath(value, cur) /\ new = Beginning(span, q)
    OBVIOUS
  <2>6. Sound(new)'
    BY <1>1, <1>4, <2>4, <2>5, SoundBegins
  <2>7. value'[cur].kids = value[cur].kids + 1 /\ Atom(tk) \in Parts
    BY <1>1, <2>1, Adds, AtomTyped
  <2>8. q = Append(cur, value'[cur].kids) /\ value'[cur].kids # 0
    BY <2>2, <2>5, <2>7 DEF NewPath
  <2>9. new[q].last = Len(text) + 1
    BY <2>5 DEF Beginning
  <2>10. Edge(new)' = Len(text) + 1 + 1
    BY <2>3, <2>8, <2>9 DEF Edge
  <2>11. Len(text') = Edge(new)' - 1
    BY <1>2, <2>10
  <2>12. Reached(new)'
    BY <1>1, <2>1, <2>3, <2>8, <2>11 DEF Reached, AfterValue
  <2>13. QED
    BY <2>6, <2>12
<1>5. QED
  BY <1>1, <1>3, <1>4 DEF SoundInv

\* A bracket that opens an object or an array.
LEMMA SoundOpen ==
    ASSUME PointerInv, SoundInv, NEW tk \in Tokens, Read(tk), ReadOpen(tk)
    PROVE  \E new : Sound(new)' /\ Reached(new)'
<1>1. /\ tk \in Openings /\ WantsValue /\ AddToCurrent(Compound(tk)) /\ at # "thrown"
      /\ stack' = (IF cur = NoPointer THEN stack ELSE Append(stack, cur)) /\ cur' = Added
      /\ at' = "first" /\ name' = name /\ open' = Append(open, tk)
  BY DEF ReadOpen, BeginCompound, Read
<1>2. Len(text) \in Nat /\ Len(text') = Len(text) + 1
  BY TextGrows
<1>3. open' # <<>> /\ stack \in Seq(Paths)
  <2>1. open \in Seq(Openings)
    BY DEF PointerInv, ReaderTypes
  <2>2. QED
    BY <1>1, <2>1, AppendFacts DEF PointerInv, ReaderTypes
<1>4. Compound(tk) \in Parts /\ Compound(tk).kids = 0
  BY <1>1, CompoundTyped DEF Compound
<1>5. CASE text = <<>> /\ at = "value" /\ open = <<>>
  <2>1. cur = NoPointer /\ stack = <<>>
    BY <1>5 DEF PointerInv
  <2>2. value' = Root(Compound(tk)) /\ Added = <<>> /\ value'[<<>>].kids = 0
    BY <1>1, <1>4, <2>1, AddsRoot
  <2>3. OpenParts = {} /\ OpenParts' = {Added}
    BY <1>1, <1>3, <1>5, <2>1 DEF OpenParts
  <2>4. Begun(Compound(tk), tk)
    BY <1>1, <2>3 DEF Begun
  <2>5. PICK new : new = [p \in {<<>>} |-> [first |-> 1, last |-> 1]]
    OBVIOUS
  <2>6. Sound(new)' /\ Len(text') = 1
    BY <1>1, <1>5, <2>1, <2>4, <2>5, SoundRoot
  <2>7. new[<<>>].first = 1
    BY <2>5
  <2>8. Edge(new)' = 1
    BY <1>1, <2>2, <2>7 DEF Edge
  <2>9. Reached(new)'
    BY <1>1, <1>3, <2>2, <2>6, <2>8 DEF Reached
  <2>10. QED
    BY <2>6, <2>9
<1>6. ASSUME NEW span, Sound(span), Reached(span) PROVE \E new : Sound(new)' /\ Reached(new)'
  <2>1. open # <<>>
    BY <1>1, <1>6, BeforeValue
  <2>2. cur \in DOMAIN value /\ cur # NoPointer /\ cur \in Paths
    BY <2>1, CurFacts
  <2>3. OpenParts = {stack[i] : i \in DOMAIN stack} \cup {cur}
    BY <2>1 DEF OpenParts
  <2>4. OpenParts' = {stack'[i] : i \in DOMAIN stack'} \cup {cur'}
    BY <1>3 DEF OpenParts
  <2>5. {stack'[i] : i \in DOMAIN stack'} = {stack[i] : i \in DOMAIN stack} \cup {cur}
    <3>1. stack' = Append(stack, cur)
      BY <1>1, <2>2
    <3>2. /\ Len(stack') = Len(stack) + 1 /\ stack' \in Seq(Paths) /\ stack'[Len(stack) + 1] = cur
          /\ \A i \in 1..Len(stack) : stack'[i] = stack[i]
      BY <1>3, <2>2, <3>1, AppendFacts
    <3>3. DOMAIN stack = 1..Len(stack) /\ DOMAIN stack' = 1..(Len(stack) + 1) /\ Len(stack) \in Nat
      BY <1>3, <3>2
    <3>4. /\ \A i \in DOMAIN stack : i \in DOMAIN stack' /\ stack'[i] = stack[i]
          /\ Len(stack) + 1 \in DOMAIN stack'
          /\ \A i \in DOMAIN stack' : i \in DOMAIN stack \/ i = Len(stack) + 1
      BY <3>2, <3>3
    <3>5. QED
      BY <3>2, <3>4, Zenon
  <2>6. OpenParts' = OpenParts \cup {Added}
    BY <1>1, <2>3, <2>4, <2>5
  <2>7. Begun(Compound(tk), tk)
    BY <1>1, <2>6 DEF Begun
  <2>8. PICK q, new : q = NewPath(value, cur) /\ new = Beginning(span, q)
    OBVIOUS
  <2>9. Sound(new)'
    BY <1>1, <1>6, <2>7, <2>8, SoundBegins
  <2>10. value'[q].kids = 0 /\ cur' = q
    <3>1. PICK nm : /\ nm \in Names \cup {NoName} /\ Added = q
                    /\ value'[Added] = Named(Compound(tk), nm)
      <4>1. name \in Names \cup {NoName}
        BY DEF PointerInv, ReaderTypes
      <4>2. /\ Added = NewPath(value, cur)
            /\ value'[Added] = Named(Compound(tk), IF value[cur].type = "obj" THEN name ELSE NoName)
        BY <1>1, <1>4, <2>1, Adds
      <4>3. QED
        BY <2>8, <4>1, <4>2
    <3>2. QED
      BY <1>1, <1>4, <3>1, NamedFacts
  <2>11. new[q].first = Len(text) + 1
    BY <2>8 DEF Beginning
  <2>12. Edge(new)' = Len(text')
    BY <1>2, <2>10, <2>11 DEF Edge
  <2>13. Reached(new)'
    BY <1>1, <1>3, <2>10, <2>12 DEF Reached
  <2>14. QED
    BY <2>9, <2>13
<1>7. QED
  BY <1>1, <1>5, <1>6 DEF SoundInv

\* A name, a colon or a comma leaves the value as it is.
LEMMA SoundBetween ==
    ASSUME PointerInv, SoundInv, NEW tk \in Tokens, Read(tk), ReadName(tk) \/ ReadSeparator(tk)
    PROVE  \E new : Sound(new)' /\ Reached(new)'
<1>0. /\ Len(text) \in Nat /\ Len(text') = Len(text) + 1 /\ text'[Len(text) + 1] = tk
      /\ \A j \in 1..Len(text) : text'[j] = text[j]
  BY TextGrows
<1>1. value' = value /\ cur' = cur /\ stack' = stack /\ open' = open /\ at # "thrown"
  BY DEF ReadName, ReadSeparator, Read
<1>2. open # <<>>
  <2>1. open = <<>> => at \in {"value", "end", "thrown"}
    BY DEF PointerInv
  <2>2. ReadName(tk) => open # <<>>
    BY DEF ReadName, WantsName, InObject
  <2>3. ReadSeparator(tk) => at \in {"colon", "next"}
    BY DEF ReadSeparator
  <2>4. QED
    BY <2>1, <2>2, <2>3
<1>3. PICK span : Sound(span) /\ Reached(span)
  BY <1>1, <1>2 DEF SoundInv
<1>4. Sound(span)'
  BY <1>1, <1>3, SoundStays
<1>5. Edge(span)' = Edge(span) /\ InObject' = InObject /\ value'[cur'].kids = value[cur].kids
  BY <1>1 DEF Edge, InObject
<1>6. value[cur].kids \in Nat /\ Edge(span) \in Nat \ {0}
  BY <1>2, <1>3, EdgeFacts
<1>7. CASE ReadName(tk)
  <2>1. tk \in Names /\ InObject /\ at \in {"first", "comma"} /\ name' = tk /\ at' = "colon"
    BY <1>7 DEF ReadName, WantsName
  <2>2. Len(text) = Edge(span) /\ (value[cur].kids # 0 => text[Len(text)] = Comma)
    BY <1>3, <2>1 DEF Reached
  <2>3. /\ Len(text') = Edge(span) + 1 /\ text'[Len(text')] = tk
        /\ value[cur].kids # 0 => text'[Len(text') - 1] = Comma
    <3>1. Len(text) \in 1..Len(text) /\ Len(text') - 1 = Len(text)
      BY <1>0, <1>6, <2>2
    <3>2. QED
      BY <1>0, <2>2, <3>1
  <2>4. Reached(span)'
    BY <1>5, <2>1, <2>3 DEF Reached
  <2>5. QED
    BY <1>4, <2>4
<1>8. CASE ReadSeparator(tk) /\ tk = Colon /\ at = "colon"
  <2>1. name' = name /\ at' = "value"
    BY <1>8 DEF ReadSeparator
  <2>2. /\ InObject /\ name \in Names /\ Len(text) = Edge(span) + 1 /\ text[Len(text)] = name
        /\ value[cur].kids # 0 => text[Len(text) - 1] = Comma
    BY <1>3, <1>8 DEF Reached
  <2>3. /\ Len(text') = Edge(span) + 2 /\ text'[Len(text')] = Colon /\ text'[Len(text') - 1] = name
        /\ value[cur].kids # 0 => text'[Len(text') - 2] = Comma
    <3>1. /\ Len(text) \in 1..Len(text) /\ Len(text') - 1 = Len(text)
          /\ Len(text) - 1 \in 1..Len(text) /\ Len(text') - 2 = Len(text) - 1
      BY <1>0, <1>6, <2>2
    <3>2. QED
      BY <1>0, <1>6, <1>8, <2>2, <3>1
  <2>4. Reached(span)'
    BY <1>5, <2>1, <2>2, <2>3 DEF Reached
  <2>5. QED
    BY <1>4, <2>4
<1>9. CASE ReadSeparator(tk) /\ tk = Comma /\ at = "next"
  <2>1. at' = "comma"
    BY <1>9 DEF ReadSeparator
  <2>2. value[cur].kids # 0 /\ Len(text) = Edge(span) - 1
    BY <1>3, <1>9 DEF Reached
  <2>3. Len(text') = Edge(span) /\ text'[Len(text')] = Comma
    BY <1>0, <1>6, <1>9, <2>2
  <2>4. Reached(span)'
    BY <1>1, <1>2, <1>5, <2>1, <2>2, <2>3 DEF Reached
  <2>5. QED
    BY <1>4, <2>4
<1>10. QED
  BY <1>7, <1>8, <1>9 DEF ReadSeparator

\* Every step keeps what has been read sound.
LEMMA SoundStep ==
    ASSUME PointerInv, SoundInv, [ReaderNext]_readerVars
    PROVE  SoundInv'
<1>1. CASE UNCHANGED readerVars
  BY <1>1 DEF readerVars, SoundInv, Sound, Reached, Edge, InObject, OpenParts
<1>2. ASSUME NEW tk \in Tokens, Read(tk) PROVE SoundInv'
  <2>1. CASE ReadAtom(tk)
    BY <1>2, <2>1, SoundAtom DEF SoundInv
  <2>2. CASE ReadOpen(tk)
    BY <1>2, <2>2, SoundOpen DEF SoundInv
  <2>3. CASE ReadClose(tk)
    <3>1. open # <<>> /\ at # "thrown"
      BY <1>2, <2>3 DEF ReadClose, WantsClose, Read
    <3>2. PICK span : Sound(span) /\ Reached(span)
      BY <3>1 DEF SoundInv
    <3>3. PICK new : new = Ending(span)
      OBVIOUS
    <3>4. Sound(new)' /\ Reached(new)'
      BY <1>2, <2>3, <3>2, <3>3, SoundCloses
    <3>5. QED
      BY <3>4 DEF SoundInv
  <2>4. CASE ReadName(tk) \/ ReadSeparator(tk)
    BY <1>2, <2>4, SoundBetween DEF SoundInv
  <2>5. CASE ReadUnwanted(tk)
    BY <2>5 DEF ReadUnwanted, SoundInv
  <2>6. QED
    BY <1>2, <2>1, <2>2, <2>3, <2>4, <2>5 DEF Read
<1>3. QED
  BY <1>1, <1>2 DEF ReaderNext

\* A value that is read is the one that is written as the tokens read.
LEMMA SoundEnds ==
    ASSUME PointerInv, SoundInv, at = "end"
    PROVE  \E span : Written(value, text, span)
<1>1. PICK span : Sound(span) /\ Reached(span)
  BY DEF SoundInv
<1>2. open = <<>> /\ Len(text) = span[<<>>].last
  BY <1>1 DEF Reached
<1>3. OpenParts = {}
  BY <1>2 DEF OpenParts
<1>4. IsValue(value) /\ <<>> \in DOMAIN value /\ text \in Seq(Tokens)
  BY DEF PointerInv, ReaderTypes
<1>5. span \in [DOMAIN value -> [first : DOMAIN text, last : DOMAIN text]]
  <2>1. DOMAIN text = 1..Len(text)
    BY <1>4
  <2>2. QED
    BY <1>1, <2>1 DEF Sound
<1>6. span[<<>>] = [first |-> 1, last |-> Len(text)]
  <2>1. span[<<>>] \in [first : DOMAIN text, last : DOMAIN text] /\ span[<<>>].first = 1
    BY <1>1, <1>4, <1>5 DEF Sound
  <2>2. QED
    BY <1>2, <2>1
<1>7. \A p \in DOMAIN value : AtomWritten(value, text, span, p) \/ CompoundWritten(value, text, span, p)
  BY <1>1, <1>3 DEF Sound, PartWritten
<1>8. QED
  BY <1>1, <1>4, <1>5, <1>6, <1>7 DEF Sound, Written

\* A text that has been read is the text the writer makes of the value read,
\* with every part at the place the writer puts it: the property
\* ReadsWhatIsWritten, of every text.
THEOREM ReadIsWritten == ReaderSpec => []ReadsWhatIsWritten
<1>1. ReaderInit => PointerInv /\ SoundInv
  BY PointerInvInit DEF ReaderInit, SoundInv
<1>2. PointerInv /\ SoundInv /\ [ReaderNext]_readerVars => (PointerInv /\ SoundInv)'
  BY PointerInvStep, SoundStep
<1>3. PointerInv /\ SoundInv => ReadsWhatIsWritten
  <2> SUFFICES ASSUME PointerInv, SoundInv, at = "end" PROVE Written(value, text, Spans(value))
    BY DEF ReadsWhatIsWritten
  <2>1. PICK span : Written(value, text, span)
    BY SoundEnds
  <2>2. text \in Seq(Tokens)
    BY DEF PointerInv, ReaderTypes
  <2>3. Spans(value) = span
    BY <2>1, <2>2, SpansUnique
  <2>4. QED
    BY <2>1, <2>3
<1>4. QED
  BY <1>1, <1>2, <1>3, PTL DEF ReaderSpec

-----------------------------------------------------------------------------
(* The writer's texts *)

\* Two sequences joined, place by place.
LEMMA JoinFacts ==
    ASSUME NEW S, NEW s \in Seq(S), NEW u \in Seq(S)
    PROVE  /\ s \o u \in Seq(S) /\ Len(s \o u) = Len(s) + Len(u)
           /\ \A i \in 1..Len(s) : (s \o u)[i] = s[i]
           /\ \A i \in 1..Len(u) : (s \o u)[Len(s) + i] = u[i]
<1>1. s \o u \in Seq(S) /\ Len(s \o u) = Len(s) + Len(u)
  OBVIOUS
<1>2. \A i \in 1..Len(s) : (s \o u)[i] = s[i]
  OBVIOUS
<1>3. \A i \in 1..Len(u) : (s \o u)[Len(s) + i] = u[i]
  OBVIOUS
<1>4. QED
  BY <1>1, <1>2, <1>3

\* The sequences of s joined, the first n of them at g[n].
Joins(s, g) ==
    /\ g[0] = <<>> /\ g[Len(s)] = FlattenSeq(s)
    /\ \A n \in 1..Len(s) : g[n] = g[n - 1] \o s[n]

\* What FlattenSeq() makes of sequences is one of them after another.
LEMMA FlattenJoins ==
    ASSUME NEW S, NEW s \in Seq(Seq(S))
    PROVE  \E g : Joins(s, g)
<1>0. Len(s) \in Nat /\ \A n \in 1..Len(s) : s[n] \in Seq(S)
  OBVIOUS
<1>1. CASE Len(s) = 0
  <2>1. s = <<>> /\ FlattenSeq(s) = s
    BY <1>1 DEF FlattenSeq
  <2>2. Joins(s, [n \in 0..0 |-> <<>>])
    BY <1>1, <2>1 DEF Joins
  <2>3. QED
    BY <2>2
<1>2. CASE Len(s) # 0
  <2> DEFINE Is(f, n) == f = [k \in 1..n |-> IF k = 1 THEN s[k] ELSE f[k - 1] \o s[k]]
  <2>1. \A n \in Nat : \E f : Is(f, n)
    <3> SUFFICES ASSUME NEW bad \in Nat, ~ \E f : Is(f, bad) PROVE FALSE
      OBVIOUS
    <3> DEFINE Bad == {n \in Nat : ~ \E f : Is(f, n)}
    <3> HIDE DEF Is
    <3>1. PICK n \in Bad : \A m \in Bad : n <= m
      BY LeastNumber
    <3>2. CASE n = 0
      <4>1. Is([k \in 1..0 |-> <<>>], 0)
        BY DEF Is
      <4>2. QED
        BY <3>1, <3>2, <4>1
    <3>3. CASE n # 0
      <4>1. PICK f : Is(f, n - 1)
        BY <3>1, <3>3, SMTT(30)
      <4>2. f = [k \in 1..(n - 1) |-> IF k = 1 THEN s[k] ELSE f[k - 1] \o s[k]]
        BY <4>1 DEF Is
      <4> DEFINE Next1(h, k) == IF k = 1 THEN s[k] ELSE h[k - 1] \o s[k]
                 g == [k \in 1..n |-> IF k = n THEN Next1(f, n) ELSE f[k]]
      <4>3. \A k \in 1..n : g[k] = Next1(g, k)
        <5> SUFFICES ASSUME NEW k \in 1..n PROVE g[k] = Next1(g, k)
          OBVIOUS
        <5>1. k # 1 => k - 1 \in 1..(n - 1) /\ g[k - 1] = f[k - 1]
          OBVIOUS
        <5>2. k # n => k \in 1..(n - 1) /\ g[k] = f[k]
          BY <3>1
        <5>6. k # n => f[k] = Next1(f, k)
          BY <4>2, <5>2
        <5>3. k = n => g[k] = Next1(f, k)
          OBVIOUS
        <5>4. Next1(g, k) = Next1(f, k)
          BY <5>1
        <5>5. QED
          BY <5>2, <5>3, <5>4, <5>6
      <4>4. g = [k \in 1..n |-> g[k]]
        OBVIOUS
      <4> HIDE DEF g
      <4>5. Is(g, n)
        BY <4>3, <4>4 DEF Is
      <4>6. QED
        BY <3>1, <4>5
    <3>4. QED
      BY <3>2, <3>3
  <2>2. FlattenSeq(s) = (CHOOSE f : Is(f, Len(s)))[Len(s)]
    BY <1>2 DEF FlattenSeq
  <2>3. PICK h : Is(h, Len(s))
    BY <1>0, <2>1
  <2> DEFINE f == CHOOSE f : Is(f, Len(s))
  <2> HIDE DEF Is
  <2>4. Is(f, Len(s))
    BY <2>3
  <2>5. FlattenSeq(s) = f[Len(s)]
    BY <2>2
  <2> HIDE DEF f
  <2>6. f = [k \in 1..Len(s) |-> IF k = 1 THEN s[k] ELSE f[k - 1] \o s[k]]
    BY <2>4 DEF Is
  <2>7. \A k \in 1..Len(s) : f[k] = IF k = 1 THEN s[k] ELSE f[k - 1] \o s[k]
    BY <2>6
  <2> DEFINE g == [n \in 0..Len(s) |-> IF n = 0 THEN <<>> ELSE f[n]]
  <2>8. g[0] = <<>> /\ g[Len(s)] = FlattenSeq(s)
    BY <1>0, <1>2, <2>5
  <2>9. ASSUME NEW n \in 1..Len(s) PROVE g[n] = g[n - 1] \o s[n]
    <3>1. g[n] = f[n]
      OBVIOUS
    <3>2. CASE n = 1
      <4>1. g[n - 1] = <<>> /\ f[n] = s[n] /\ s[n] \in Seq(S)
        BY <1>0, <2>7, <3>2
      <4>2. <<>> \o s[n] = s[n]
        BY <4>1
      <4>3. QED
        BY <3>1, <4>1, <4>2
    <3>3. CASE n # 1
      <4>1. n - 1 \in 1..Len(s) /\ g[n - 1] = f[n - 1]
        BY <3>3
      <4>2. f[n] = f[n - 1] \o s[n]
        BY <2>7, <3>3
      <4>3. QED
        BY <3>1, <4>1, <4>2
    <3>4. QED
      BY <3>2, <3>3
  <2> HIDE DEF g
  <2>10. Joins(s, g)
    BY <2>8, <2>9 DEF Joins
  <2>11. QED
    BY <2>10
<1>3. QED
  BY <1>1, <1>2

\* The n-th sequence is in the whole from the place after o[n - 1] to o[n].
Placed(s, u, o) ==
    /\ o[0] = 0 /\ o[Len(s)] = Len(u)
    /\ \A n \in 0..Len(s) : o[n] \in Nat
    /\ \A n \in 1..Len(s) : o[n] = o[n - 1] + Len(s[n]) /\ o[n] <= Len(u)
    /\ \A n \in 1..Len(s) : \A j \in 1..Len(s[n]) : u[o[n - 1] + j] = s[n][j]

\* Where each of them stands in it.
LEMMA FlattenPlaces ==
    ASSUME NEW S, NEW s \in Seq(Seq(S))
    PROVE  FlattenSeq(s) \in Seq(S) /\ \E o : Placed(s, FlattenSeq(s), o)
<1>0. Len(s) \in Nat /\ \A n \in 1..Len(s) : s[n] \in Seq(S) /\ Len(s[n]) \in Nat
  OBVIOUS
<1>1. PICK g : Joins(s, g)
  BY FlattenJoins
<1>2. \A n \in 0..Len(s) : g[n] \in Seq(S)
  <2> SUFFICES ASSUME NEW bad \in 0..Len(s), g[bad] \notin Seq(S) PROVE FALSE
    OBVIOUS
  <2> DEFINE Bad == {n \in 0..Len(s) : g[n] \notin Seq(S)}
  <2>1. PICK n \in Bad : \A m \in Bad : n <= m
    <3>1. Bad \in SUBSET Nat /\ Bad # {}
      BY <1>0
    <3>2. QED
      BY <3>1, LeastNumber
  <2>2. n # 0
    <3>1. g[0] = <<>> /\ <<>> \in Seq(S)
      BY <1>1 DEF Joins
    <3>2. g[n] \notin Seq(S)
      BY <2>1
    <3>3. QED
      BY <3>1, <3>2
  <2>3. n - 1 \in 0..Len(s) /\ n \in 1..Len(s)
    BY <1>0, <2>1, <2>2
  <2>4. g[n - 1] \in Seq(S)
    BY <2>1, <2>3
  <2>5. g[n] = g[n - 1] \o s[n]
    BY <1>1, <2>3 DEF Joins
  <2>6. PICK a, b : a = g[n - 1] /\ b = s[n]
    OBVIOUS
  <2>7. a \in Seq(S) /\ b \in Seq(S)
    BY <1>0, <2>3, <2>4, <2>6
  <2>8. a \o b \in Seq(S)
    BY <2>7, JoinFacts
  <2>9. QED
    BY <2>1, <2>5, <2>6, <2>8
<1> DEFINE u == FlattenSeq(s)
<1>3. u = g[Len(s)] /\ u \in Seq(S)
  BY <1>0, <1>1, <1>2 DEF Joins
\* What has been joined stays.
<1>4. \A n \in 0..Len(s) : Len(g[n]) <= Len(u) /\ \A i \in 1..Len(g[n]) : u[i] = g[n][i]
  <2> DEFINE Keeps(n) == Len(g[n]) <= Len(u) /\ \A i \in 1..Len(g[n]) : u[i] = g[n][i]
             Bad == {k \in 0..Len(s) : ~Keeps(Len(s) - k)}
  <2> SUFFICES ASSUME NEW bad \in 0..Len(s), ~Keeps(bad) PROVE FALSE
    OBVIOUS
  <2> HIDE DEF Keeps
  <2>1. PICK k \in Bad : \A m \in Bad : k <= m
    <3>1. Len(s) - bad \in 0..Len(s) /\ Len(s) - (Len(s) - bad) = bad
      BY <1>0
    <3>2. Len(s) - bad \in Bad
      BY <3>1
    <3>3. Bad \subseteq 0..Len(s) /\ 0..Len(s) \subseteq Nat
      BY <1>0
    <3> HIDE DEF Bad
    <3>4. Bad \in SUBSET Nat /\ Bad # {}
      BY <3>2, <3>3
    <3>5. QED
      BY <3>4, LeastNumber
  <2>2. k # 0
    <3>1. Keeps(Len(s))
      BY <1>3 DEF Keeps
    <3>2. Len(s) - 0 = Len(s)
      BY <1>0
    <3>3. QED
      BY <2>1, <3>1, <3>2
  <2>3. PICK n : n = Len(s) - k
    OBVIOUS
  <2>4. /\ n \in 0..Len(s) /\ n + 1 \in 1..Len(s) /\ n + 1 \in 0..Len(s) /\ (n + 1) - 1 = n
        /\ Len(s) - (k - 1) = n + 1 /\ k - 1 \in 0..Len(s) /\ ~(k <= k - 1)
    BY <1>0, <2>1, <2>2, <2>3
  <2>5. Keeps(n + 1)
    BY <2>1, <2>4
  <2>6. g[n + 1] = g[n] \o s[n + 1]
    BY <1>1, <2>4 DEF Joins
  <2>7. /\ g[n] \in Seq(S) /\ s[n + 1] \in Seq(S)
    BY <1>0, <1>2, <2>4
  <2>8. /\ Len(g[n + 1]) = Len(g[n]) + Len(s[n + 1]) /\ Len(g[n]) \in Nat /\ Len(s[n + 1]) \in Nat
        /\ \A i \in 1..Len(g[n]) : g[n + 1][i] = g[n][i]
    <3>1. PICK a, b : a = g[n] /\ b = s[n + 1]
      OBVIOUS
    <3>2. a \in Seq(S) /\ b \in Seq(S)
      BY <2>7, <3>1
    <3>3. Len(a \o b) = Len(a) + Len(b) /\ \A i \in 1..Len(a) : (a \o b)[i] = a[i]
      BY <3>2, JoinFacts
    <3>4. Len(a) \in Nat /\ Len(b) \in Nat
      BY <3>2
    <3>5. QED
      BY <2>6, <3>1, <3>3, <3>4
  <2>9. Keeps(n)
    <3>1. Len(u) \in Nat
      BY <1>3
    <3>2. Len(g[n + 1]) <= Len(u) /\ \A i \in 1..Len(g[n + 1]) : u[i] = g[n + 1][i]
      BY <2>5 DEF Keeps
    <3> HIDE DEF u
    <3>3. PICK a, b, c : a = g[n] /\ b = g[n + 1] /\ c = Len(s[n + 1])
      OBVIOUS
    <3>6. /\ Len(b) <= Len(u) /\ \A i \in 1..Len(b) : u[i] = b[i]
          /\ Len(b) = Len(a) + c /\ Len(a) \in Nat /\ c \in Nat /\ \A i \in 1..Len(a) : b[i] = a[i]
      BY <2>8, <3>2, <3>3
    <3>4. Len(a) <= Len(u) /\ \A i \in 1..Len(a) : u[i] = a[i]
      <4>1. Len(a) <= Len(b) /\ Len(b) \in Nat
        BY <3>6
      <4>2. \A i \in 1..Len(a) : i \in 1..Len(b)
        BY ONLY <3>6, <4>1
      <4>3. QED
        BY <3>1, <3>6, <4>1, <4>2
    <3>5. QED
      BY <3>3, <3>4 DEF Keeps
  <2>10. QED
    BY <2>1, <2>3, <2>9
<1> DEFINE o == [n \in 0..Len(s) |-> Len(g[n])]
<1>5. o[0] = 0 /\ o[Len(s)] = Len(u)
  <2>1. g[0] = <<>>
    BY <1>1 DEF Joins
  <2>2. QED
    BY <1>0, <1>3, <2>1
<1>6. \A n \in 0..Len(s) : o[n] \in Nat
  BY <1>2
<1>7. ASSUME NEW n \in 1..Len(s)
      PROVE  /\ o[n] = o[n - 1] + Len(s[n]) /\ o[n] <= Len(u)
             /\ \A j \in 1..Len(s[n]) : u[o[n - 1] + j] = s[n][j]
  <2>1. n \in 0..Len(s) /\ n - 1 \in 0..Len(s)
    BY <1>0
  <2>2. g[n] = g[n - 1] \o s[n] /\ g[n - 1] \in Seq(S) /\ s[n] \in Seq(S)
    BY <1>0, <1>1, <1>2, <2>1 DEF Joins
  <2>3. /\ Len(g[n]) = Len(g[n - 1]) + Len(s[n]) /\ Len(g[n - 1]) \in Nat /\ Len(s[n]) \in Nat
        /\ \A j \in 1..Len(s[n]) : g[n][Len(g[n - 1]) + j] = s[n][j]
    <3>1. PICK a, b : a = g[n - 1] /\ b = s[n]
      OBVIOUS
    <3>2. a \in Seq(S) /\ b \in Seq(S)
      BY <2>2, <3>1
    <3>3. Len(a \o b) = Len(a) + Len(b) /\ \A j \in 1..Len(b) : (a \o b)[Len(a) + j] = b[j]
      BY <3>2, JoinFacts
    <3>4. Len(a) \in Nat /\ Len(b) \in Nat
      BY <3>2
    <3>5. QED
      BY <2>2, <3>1, <3>3, <3>4
  <2>4. o[n] = Len(g[n]) /\ o[n - 1] = Len(g[n - 1])
    BY <2>1
  <2>5. Len(g[n]) <= Len(u) /\ \A i \in 1..Len(g[n]) : u[i] = g[n][i]
    BY <1>4, <2>1
  <2> HIDE DEF o, u
  <2>6. PICK a, b, c : a = g[n - 1] /\ b = g[n] /\ c = s[n]
    OBVIOUS
  <2>10. Len(b) = Len(a) + Len(c) /\ Len(a) \in Nat /\ Len(c) \in Nat
    BY <2>3, <2>6
  <2>7. \A j \in 1..Len(c) : Len(a) + j \in 1..Len(b)
    BY ONLY <2>10
  <2>8. \A j \in 1..Len(c) : u[Len(a) + j] = c[j]
    BY <2>3, <2>5, <2>6, <2>7
  <2>9. QED
    BY <2>3, <2>4, <2>5, <2>6, <2>8
<1> HIDE DEF o
<1>8. Placed(s, u, o)
  BY <1>5, <1>6, <1>7 DEF Placed
<1>9. QED
  BY <1>3, <1>8

\* How many tokens separate the n-th kid from what is before it.
Commas(n) == IF n > 1 THEN 1 ELSE 0

\* The text x of the n-th kid's round has the kid's own text t behind the place l.
Round(v, p, n, t, x, l) ==
    /\ x \in Seq(Tokens) /\ Len(x) = l + Len(t) /\ l \in Nat
    /\ n > 1 => x[1] = Comma
    /\ v[p].type = "obj" => x[Commas(n) + 1] = v[Append(p, n)].name /\ x[Commas(n) + 2] = Colon
    /\ \A j \in 1..Len(t) : x[l + j] = t[j]

\* What a round of output_array_or_obj() adds.
LEMMA ListedRound ==
    ASSUME NEW v, NEW p, NEW n \in Nat \ {0}, NEW t \in Seq(Tokens),
           v[p].type = "obj" => v[Append(p, n)].name \in Names
    PROVE  Round(v, p, n, t, Listed(v, p, n, t), Commas(n) + Lead(v[p]))
<1> DEFINE x == Listed(v, p, n, t)
           l == Commas(n) + Lead(v[p])
<1>0. Comma \in Tokens /\ Colon \in Tokens /\ Names \subseteq Tokens
  BY TokenFacts DEF Tokens
<1> DEFINE nm == v[Append(p, n)].name
           a == IF n > 1 THEN <<Comma>> ELSE <<>>
           b == IF v[p].type = "obj" THEN <<nm, Colon>> ELSE <<>>
<1>1. a \in Seq(Tokens) /\ Len(a) = Commas(n) /\ (n > 1 => a[1] = Comma) /\ Commas(n) \in Nat
  BY <1>0 DEF Commas
<1>2. b \in Seq(Tokens) /\ Len(b) = Lead(v[p]) /\ (v[p].type = "obj" => b[1] = nm /\ b[2] = Colon) /\ Lead(v[p]) \in Nat
  <2>1. v[p].type = "obj" => nm \in Tokens
    BY <1>0
  <2> HIDE DEF nm
  <2>2. QED
    BY <1>0, <2>1 DEF Lead
<1>3. x = (a \o b) \o t
  BY DEF Listed
<1> HIDE DEF a, b, x
<1> DEFINE c == a \o b
<1>4. /\ c \in Seq(Tokens) /\ Len(c) = Len(a) + Len(b)
      /\ \A i \in 1..Len(a) : c[i] = a[i]
      /\ \A i \in 1..Len(b) : c[Len(a) + i] = b[i]
  <2>1. a \in Seq(Tokens) /\ b \in Seq(Tokens)
    BY <1>1, <1>2
  <2>2. QED
    BY <2>1, JoinFacts
<1> HIDE DEF c
<1>5. x = c \o t
  BY <1>3 DEF c
<1>6. /\ x \in Seq(Tokens) /\ Len(x) = Len(c) + Len(t)
      /\ \A i \in 1..Len(c) : x[i] = c[i]
      /\ \A j \in 1..Len(t) : x[Len(c) + j] = t[j]
  <2>1. c \in Seq(Tokens)
    BY <1>4
  <2>2. QED
    BY <1>5, <2>1, JoinFacts
<1>7. Len(c) = l /\ l \in Nat
  BY <1>1, <1>2, <1>4
<1>8. n > 1 => x[1] = Comma
  <2>1. n > 1 => Len(a) = 1 /\ Len(c) >= 1
    BY <1>1, <1>2, <1>4 DEF Commas
  <2>2. QED
    BY <1>1, <1>4, <1>6, <1>7, <2>1
<1>9. v[p].type = "obj" => x[Commas(n) + 1] = nm /\ x[Commas(n) + 2] = Colon
  <2> SUFFICES ASSUME v[p].type = "obj" PROVE x[Commas(n) + 1] = nm /\ x[Commas(n) + 2] = Colon
    OBVIOUS
  <2>1. Len(b) = 2 /\ b[1] = nm /\ b[2] = Colon
    BY <1>2 DEF Lead
  <2>2. 1 \in 1..Len(b) /\ 2 \in 1..Len(b)
    BY <2>1
  <2>3. c[Len(a) + 1] = nm /\ c[Len(a) + 2] = Colon
    BY <1>4, <2>1, <2>2
  <2>4. Len(a) + 1 \in 1..Len(c) /\ Len(a) + 2 \in 1..Len(c)
    BY <1>1, <1>4, <2>1
  <2>5. QED
    BY <1>1, <1>6, <2>3, <2>4
<1>10. QED
  BY <1>6, <1>7, <1>8, <1>9 DEF Round, x, l

\* The text t has that of the kid n, which is x, behind the place from and up to the place to.
KidLaid(v, p, n, x, t, from, to) ==
    LET start == from + Commas(n)
    IN /\ to = start + Lead(v[p]) + Len(x)
       /\ n > 1 => t[from + 1] = Comma
       /\ v[p].type = "obj" => t[start + 1] = v[Append(p, n)].name /\ t[start + 2] = Colon
       /\ \A j \in 1..Len(x) : t[start + Lead(v[p]) + j] = x[j]

\* The text t of the part at p: its kids end at the places o.
Laid(v, p, texts, t, o) ==
    /\ o[0] = 1 /\ Len(t) = o[v[p].kids] + 1
    /\ \A n \in 0..v[p].kids : o[n] \in Nat /\ o[n] < Len(t)
    /\ \A n \in 1..v[p].kids : KidLaid(v, p, n, texts[Append(p, n)], t, o[n - 1], o[n])

Bracketed(v, p, t) ==
    \/ v[p].type = "obj" /\ t[1] = BeginObj /\ t[Len(t)] = EndObj
    \/ v[p].type = "array" /\ t[1] = BeginArray /\ t[Len(t)] = EndArray

\* A sequence with a token before and one behind it.
LEMMA Between ==
    ASSUME NEW b \in Tokens, NEW e \in Tokens, NEW u \in Seq(Tokens), NEW t, t = <<b>> \o u \o <<e>>
    PROVE  /\ t \in Seq(Tokens) /\ Len(t) = Len(u) + 2 /\ t[1] = b /\ t[Len(u) + 2] = e
           /\ \A j \in 1..Len(u) : t[1 + j] = u[j]
<1> DEFINE c == <<b>> \o u
<1>1. <<b>> \in Seq(Tokens) /\ Len(<<b>>) = 1 /\ <<b>>[1] = b /\ <<e>> \in Seq(Tokens) /\ Len(<<e>>) = 1 /\ <<e>>[1] = e
  OBVIOUS
<1>2. /\ c \in Seq(Tokens) /\ Len(c) = 1 + Len(u) /\ c[1] = b /\ \A j \in 1..Len(u) : c[1 + j] = u[j]
  <2>1. PICK a : a = <<b>>
    OBVIOUS
  <2>2. a \in Seq(Tokens) /\ Len(a) = 1 /\ a[1] = b /\ c = a \o u
    BY <1>1, <2>1
  <2> HIDE DEF c
  <2>3. /\ a \o u \in Seq(Tokens) /\ Len(a \o u) = Len(a) + Len(u)
        /\ \A i \in 1..Len(a) : (a \o u)[i] = a[i]
        /\ \A i \in 1..Len(u) : (a \o u)[Len(a) + i] = u[i]
    <3>1. a \in Seq(Tokens)
      BY <2>2
    <3>2. QED
      BY <3>1, JoinFacts
  <2>4. QED
    BY <2>2, <2>3
<1>3. t = c \o <<e>>
  OBVIOUS
<1> HIDE DEF c
<1>4. PICK a : a = <<e>>
  OBVIOUS
<1>5. a \in Seq(Tokens) /\ Len(a) = 1 /\ a[1] = e /\ t = c \o a
  BY <1>1, <1>3, <1>4
<1>6. /\ t \in Seq(Tokens) /\ Len(t) = Len(c) + Len(a)
      /\ \A i \in 1..Len(c) : t[i] = c[i]
      /\ \A i \in 1..Len(a) : t[Len(c) + i] = a[i]
  <2>1. c \in Seq(Tokens) /\ a \in Seq(Tokens)
    BY <1>2, <1>5
  <2>2. /\ c \o a \in Seq(Tokens) /\ Len(c \o a) = Len(c) + Len(a)
        /\ \A i \in 1..Len(c) : (c \o a)[i] = c[i]
        /\ \A i \in 1..Len(a) : (c \o a)[Len(c) + i] = a[i]
    BY <2>1, JoinFacts
  <2>3. QED
    BY <1>5, <2>2
<1>7. Len(u) \in Nat
  OBVIOUS
<1>8. \A j \in 1..Len(u) : 1 + j \in 1..Len(c)
  BY <1>2, <1>7
<1>9. \A j \in 1..Len(u) : t[1 + j] = u[j]
  BY <1>2, <1>6, <1>8
<1>10. Len(t) = Len(u) + 2 /\ t[1] = b /\ t[Len(u) + 2] = e
  <2>1. Len(c) + 1 = Len(u) + 2 /\ 1 \in 1..Len(c) /\ 1 \in 1..Len(a)
    BY <1>2, <1>5, <1>7
  <2>2. t[Len(c) + 1] = e
    BY <1>5, <1>6, <2>1
  <2>3. QED
    BY <1>2, <1>5, <1>6, <2>1, <2>2
<1>11. QED
  BY <1>6, <1>9, <1>10

\* The text of an object or an array.
LEMMA OutputLaid ==
    ASSUME NEW v, NEW p, NEW texts, v[p].kids \in Nat, v[p].type \in {"obj", "array"},
           \A n \in 1..v[p].kids : /\ texts[Append(p, n)] \in Seq(Tokens)
                                   /\ v[p].type = "obj" => v[Append(p, n)].name \in Names,
           NEW t, t = Output(v, p, texts)
    PROVE  t \in Seq(Tokens) /\ Bracketed(v, p, t) /\ \E o : Laid(v, p, texts, t, o)
<1> DEFINE k == v[p].kids
           s == [n \in 1..k |-> Listed(v, p, n, texts[Append(p, n)])]
           u == FlattenSeq(s)
           Gap(n) == Commas(n) + Lead(v[p])
<1>1. ASSUME NEW n \in 1..k, NEW x, x = texts[Append(p, n)], NEW y, y = s[n], NEW l, l = Gap(n)
      PROVE  /\ y \in Seq(Tokens) /\ Len(y) = l + Len(x) /\ l \in Nat /\ Len(x) \in Nat
             /\ n > 1 => y[1] = Comma
             /\ v[p].type = "obj" => y[Commas(n) + 1] = v[Append(p, n)].name /\ y[Commas(n) + 2] = Colon
             /\ \A j \in 1..Len(x) : y[l + j] = x[j]
  <2>1. n \in Nat \ {0} /\ x \in Seq(Tokens) /\ (v[p].type = "obj" => v[Append(p, n)].name \in Names)
    BY <1>1
  <2>2. y = Listed(v, p, n, x) /\ l = Commas(n) + Lead(v[p])
    BY <1>1
  <2> HIDE DEF s, Gap, k, u
  <2>3. Round(v, p, n, x, Listed(v, p, n, x), Commas(n) + Lead(v[p]))
    BY <2>1, ListedRound
  <2>4. Round(v, p, n, x, y, l) /\ Len(x) \in Nat
    BY <2>1, <2>2, <2>3
  <2>5. QED
    BY <2>4 DEF Round
<1>2. s \in Seq(Seq(Tokens)) /\ Len(s) = k
  <2>1. \A n \in 1..k : s[n] \in Seq(Tokens)
    <3> SUFFICES ASSUME NEW n \in 1..k PROVE s[n] \in Seq(Tokens)
      OBVIOUS
    <3>1. PICK x, y, l : x = texts[Append(p, n)] /\ y = s[n] /\ l = Gap(n)
      OBVIOUS
    <3> HIDE DEF s, Gap
    <3>2. QED
      BY <1>1, <3>1
  <2>2. s = [n \in 1..k |-> s[n]]
    OBVIOUS
  <2>3. k \in Nat /\ DOMAIN s = 1..k
    OBVIOUS
  <2> HIDE DEF s, k
  <2>4. QED
    BY <2>1, <2>2, <2>3
<1>3. \/ v[p].type = "obj" /\ t = <<BeginObj>> \o u \o <<EndObj>>
      \/ v[p].type = "array" /\ t = <<BeginArray>> \o u \o <<EndArray>>
  BY DEF Output
<1> HIDE DEF s
<1>4. u \in Seq(Tokens) /\ \E o : Placed(s, u, o)
  BY <1>2, FlattenPlaces
<1> HIDE DEF u
<1>5. {BeginObj, EndObj, BeginArray, EndArray} \subseteq Tokens
  BY DEF Tokens, Brackets, Openings
<1>6. PICK b, e : /\ b \in Tokens /\ e \in Tokens /\ t = <<b>> \o u \o <<e>>
                  /\ \/ v[p].type = "obj" /\ b = BeginObj /\ e = EndObj
                     \/ v[p].type = "array" /\ b = BeginArray /\ e = EndArray
  BY <1>3, <1>5
<1>7. /\ t \in Seq(Tokens) /\ Len(t) = Len(u) + 2 /\ t[1] = b /\ t[Len(u) + 2] = e
      /\ \A j \in 1..Len(u) : t[1 + j] = u[j]
  BY <1>4, <1>6, Between
<1>8. Bracketed(v, p, t)
  BY <1>6, <1>7 DEF Bracketed
<1>9. PICK q : Placed(s, u, q)
  BY <1>4
<1> DEFINE o == [n \in 0..k |-> q[n] + 1]
<1>10. /\ q[0] = 0 /\ q[k] = Len(u) /\ \A n \in 0..k : q[n] \in Nat
       /\ \A n \in 1..k : q[n] = q[n - 1] + Len(s[n]) /\ q[n] <= Len(u)
       /\ \A n \in 1..k : \A j \in 1..Len(s[n]) : u[q[n - 1] + j] = s[n][j]
  BY <1>2, <1>9 DEF Placed
<1>11. Len(u) \in Nat /\ k \in Nat
  BY <1>4
<1>12. o[0] = 1 /\ Len(t) = o[k] + 1
  BY <1>7, <1>10, <1>11
<1>13. ASSUME NEW n \in 0..k PROVE o[n] \in Nat /\ o[n] < Len(t)
  <2>1. o[n] = q[n] + 1 /\ q[n] \in Nat
    BY <1>10
  <2>2. q[n] <= Len(u)
    <3>1. n = 0 \/ n \in 1..k
      BY <1>11
    <3>2. QED
      BY <1>10, <1>11, <3>1
  <2>3. QED
    BY <1>7, <1>11, <2>1, <2>2
<1>14. ASSUME NEW n \in 1..k PROVE KidLaid(v, p, n, texts[Append(p, n)], t, o[n - 1], o[n])
  <2>1. PICK x, y, l, c, f : /\ x = texts[Append(p, n)] /\ y = s[n] /\ l = Gap(n) /\ c = Commas(n) /\ f = q[n - 1]
    OBVIOUS
  <2>2. /\ y \in Seq(Tokens) /\ Len(y) = l + Len(x) /\ l \in Nat /\ Len(x) \in Nat
        /\ n > 1 => y[1] = Comma
        /\ v[p].type = "obj" => y[Commas(n) + 1] = v[Append(p, n)].name /\ y[Commas(n) + 2] = Colon
        /\ \A j \in 1..Len(x) : y[l + j] = x[j]
    BY <1>1, <2>1
  <2>3. n - 1 \in 0..k /\ n \in 0..k
    BY <1>11
  <2>4. o[n - 1] = f + 1 /\ o[n] = f + Len(y) + 1 /\ f \in Nat /\ f + Len(y) <= Len(u)
    <3>1. o[n - 1] = f + 1 /\ o[n] = q[n] + 1 /\ f \in Nat
      BY <1>10, <2>1, <2>3
    <3>2. q[n] = f + Len(y) /\ q[n] <= Len(u)
      BY <1>10, <2>1
    <3> HIDE DEF o
    <3>3. QED
      BY <3>1, <3>2
  <2>5. ASSUME NEW j \in 1..Len(y) PROVE t[f + 1 + j] = y[j]
    <3>1. u[f + j] = y[j]
      BY <1>10, <2>1
    <3>2. f + j \in 1..Len(u) /\ 1 + (f + j) = f + 1 + j
      BY <1>11, <2>2, <2>4
    <3>3. t[1 + (f + j)] = u[f + j]
      BY <1>7, <3>2
    <3>4. QED
      BY <3>1, <3>2, <3>3
  <2>6. c \in {0, 1} /\ (n > 1 => c = 1) /\ (v[p].type = "obj" => l = c + 2) /\ l >= c
    BY <2>1 DEF Commas, Lead
  <2>7. n > 1 => t[(f + 1) + 1] = Comma
    <3>1. n > 1 => 1 \in 1..Len(y)
      BY <2>2, <2>6
    <3>2. QED
      BY <2>2, <2>5, <3>1
  <2>8. v[p].type = "obj" => t[(f + 1 + c) + 1] = v[Append(p, n)].name /\ t[(f + 1 + c) + 2] = Colon
    <3> SUFFICES ASSUME v[p].type = "obj"
                 PROVE  t[(f + 1 + c) + 1] = v[Append(p, n)].name /\ t[(f + 1 + c) + 2] = Colon
      OBVIOUS
    <3>1. /\ c + 1 \in 1..Len(y) /\ c + 2 \in 1..Len(y)
          /\ f + 1 + (c + 1) = (f + 1 + c) + 1 /\ f + 1 + (c + 2) = (f + 1 + c) + 2
      BY <2>2, <2>4, <2>6
    <3>2. t[f + 1 + (c + 1)] = y[c + 1] /\ t[f + 1 + (c + 2)] = y[c + 2]
      BY <2>5, <3>1
    <3>3. QED
      BY <2>1, <2>2, <3>1, <3>2
  <2>9. \A j \in 1..Len(x) : t[(f + 1) + l + j] = x[j]
    <3> SUFFICES ASSUME NEW j \in 1..Len(x) PROVE t[(f + 1) + l + j] = x[j]
      OBVIOUS
    <3>1. l + j \in 1..Len(y) /\ f + 1 + (l + j) = (f + 1) + l + j
      BY <2>2, <2>4
    <3>2. t[f + 1 + (l + j)] = y[l + j]
      BY <2>5, <3>1
    <3>3. QED
      BY <2>2, <3>1, <3>2
  <2>10. (f + 1) + c + Lead(v[p]) = (f + 1) + l /\ o[n] = (f + 1) + c + Lead(v[p]) + Len(x)
    <3>1. PICK d : d = Lead(v[p])
      OBVIOUS
    <3>2. l = c + d /\ d \in Nat
      BY <2>1, <3>1 DEF Lead
    <3>3. Len(y) = l + Len(x) /\ Len(x) \in Nat /\ c \in Nat
      BY <2>2, <2>6
    <3>4. PICK z, w : z = Len(x) /\ w = Len(y)
      OBVIOUS
    <3>5. (f + 1) + c + d = (f + 1) + l /\ f + w + 1 = (f + 1) + c + d + z
      BY <2>4, <3>2, <3>3, <3>4
    <3> HIDE DEF o
    <3>6. QED
      BY <2>4, <3>1, <3>4, <3>5
  <2> HIDE DEF o
  <2>11. KidLaid(v, p, n, x, t, f + 1, o[n])
    BY <2>1, <2>7, <2>8, <2>9, <2>10 DEF KidLaid
  <2>12. QED
    BY <2>1, <2>4, <2>11
<1> HIDE DEF o
<1>15. Laid(v, p, texts, t, o)
  BY <1>12, <1>13, <1>14 DEF Laid
<1>16. QED
  BY <1>7, <1>8, <1>15

\* A value that can be written: an atom at each part without kids to have, and
\* the kids of all others, with names where they are members.
JsonPart(v, p) ==
    \/ v[p].atom \in Atoms /\ v[p].type = AtomType(v[p].atom) /\ v[p].kids = 0
    \/ /\ v[p].type \in {"obj", "array"} /\ v[p].atom = NoName
       /\ \A n \in 1..v[p].kids :
            /\ Append(p, n) \in DOMAIN v
            /\ IF v[p].type = "obj" THEN v[Append(p, n)].name \in Names ELSE v[Append(p, n)].name = NoName

Json(v) ==
    /\ IsValue(v) /\ <<>> \in DOMAIN v /\ v[<<>>].name = NoName
    /\ \E h \in Nat : \A p \in DOMAIN v : Len(p) <= h
    /\ \A p \in DOMAIN v \ {<<>>} : Front(p) \in DOMAIN v /\ Last(p) <= v[Front(p)].kids
    /\ \A p \in DOMAIN v : JsonPart(v, p)

\* What is known of a part of a value.
LEMMA JsonFacts ==
    ASSUME NEW v, Json(v), NEW p \in DOMAIN v
    PROVE  /\ p \in Paths /\ Len(p) \in Nat /\ v[p] \in Parts /\ v[p].kids \in Nat
           /\ v[p].type \notin {"obj", "array"} =>
                v[p].atom \in Atoms /\ v[p].type = AtomType(v[p].atom) /\ v[p].kids = 0
           /\ v[p].type \in {"obj", "array"} => v[p].atom = NoName
           /\ \A n \in 1..v[p].kids :
                /\ Append(p, n) \in DOMAIN v /\ Len(Append(p, n)) = Len(p) + 1
                /\ IF v[p].type = "obj" THEN v[Append(p, n)].name \in Names ELSE v[Append(p, n)].name = NoName
<1>1. p \in Paths /\ Len(p) \in Nat /\ v[p] \in Parts /\ v[p].kids \in Nat
  BY DEF Json, IsValue, Paths, Parts
<1>2. JsonPart(v, p)
  BY DEF Json
<1>3. \A t \in Atoms : AtomType(t) \notin {"obj", "array"}
  BY DEF AtomType, Atoms, Literals
<1>4. ASSUME NEW n \in 1..v[p].kids
      PROVE  /\ Append(p, n) \in DOMAIN v /\ Len(Append(p, n)) = Len(p) + 1
             /\ IF v[p].type = "obj" THEN v[Append(p, n)].name \in Names ELSE v[Append(p, n)].name = NoName
  <2>1. v[p].kids # 0
    BY <1>1
  <2>2. n \in Nat \ {0}
    BY <1>1
  <2>3. Len(Append(p, n)) = Len(p) + 1
    BY <1>1, <2>2 DEF Paths
  <2>4. QED
    BY <1>2, <2>1, <2>3 DEF JsonPart
<1>5. QED
  BY <1>1, <1>2, <1>3, <1>4 DEF JsonPart

\* The text of a part depends on those of its kids only.
LEMMA OutputSame ==
    ASSUME NEW v, NEW p, NEW f, NEW g, \A n \in 1..v[p].kids : f[Append(p, n)] = g[Append(p, n)]
    PROVE  Output(v, p, f) = Output(v, p, g)
<1> DEFINE s == [n \in 1..v[p].kids |-> Listed(v, p, n, f[Append(p, n)])]
           t == [n \in 1..v[p].kids |-> Listed(v, p, n, g[Append(p, n)])]
           Around(u) == CASE v[p].type = "obj" -> <<BeginObj>> \o u \o <<EndObj>>
                          [] v[p].type = "array" -> <<BeginArray>> \o u \o <<EndArray>>
                          [] OTHER -> <<v[p].atom>>
<1>1. s = t
  OBVIOUS
<1>2. Output(v, p, f) = Around(FlattenSeq(s)) /\ Output(v, p, g) = Around(FlattenSeq(t))
  BY DEF Output
<1> HIDE DEF s, t, Around
<1>3. QED
  BY <1>1, <1>2

\* The texts of all parts are there, each made of those of its kids.
LEMMA PartTextsAre ==
    ASSUME NEW v, Json(v)
    PROVE  \A p \in DOMAIN v : PartTexts(v)[p] = Output(v, p, PartTexts(v))
<1>1. PICK h \in Nat : \A p \in DOMAIN v : Len(p) <= h
  BY DEF Json
<1> DEFINE Deep(d) == {p \in DOMAIN v : Len(p) + d > h}
           Is(f, D) == f = [p \in D |-> Output(v, p, f)]
<1>2. \A d \in Nat : \E f : Is(f, Deep(d))
  <2> SUFFICES ASSUME NEW bad \in Nat, ~ \E f : Is(f, Deep(bad)) PROVE FALSE
    OBVIOUS
  <2> DEFINE Bad == {d \in Nat : ~ \E f : Is(f, Deep(d))}
  <2> HIDE DEF Is, Deep
  <2>1. PICK d \in Bad : \A m \in Bad : d <= m
    BY LeastNumber
  <2>2. CASE d = 0
    <3>1. Deep(0) = {}
      <4>1. \A p \in DOMAIN v : Len(p) \in Nat /\ ~(Len(p) + 0 > h)
        BY <1>1, JsonFacts
      <4>2. QED
        BY <4>1 DEF Deep
    <3>2. Is([p \in {} |-> 0], {})
      BY DEF Is
    <3>3. QED
      BY <2>1, <2>2, <3>1, <3>2
  <2>3. CASE d # 0
    <3>1. PICK f : Is(f, Deep(d - 1))
      BY <2>1, <2>3
    <3>2. f = [p \in Deep(d - 1) |-> Output(v, p, f)]
      BY <3>1 DEF Is
    <3>3. ASSUME NEW p \in Deep(d), NEW n \in 1..v[p].kids PROVE Append(p, n) \in Deep(d - 1)
      <4>1. p \in DOMAIN v /\ Len(p) + d > h
        BY DEF Deep
      <4>2. Append(p, n) \in DOMAIN v /\ Len(Append(p, n)) = Len(p) + 1 /\ Len(p) \in Nat
        BY <4>1, JsonFacts
      <4>3. Len(p) + 1 + (d - 1) > h
        BY <2>1, <4>1, <4>2
      <4>4. QED
        BY <4>2, <4>3 DEF Deep
    <3>4. Deep(d - 1) \subseteq Deep(d)
      <4>1. ASSUME NEW p \in Deep(d - 1) PROVE p \in Deep(d)
        <5>1. p \in DOMAIN v /\ Len(p) + (d - 1) > h
          BY DEF Deep
        <5>2. Len(p) \in Nat
          BY <5>1, JsonFacts
        <5>3. Len(p) + d > h
          BY <1>1, <2>1, <5>1, <5>2
        <5>4. QED
          BY <5>1, <5>3 DEF Deep
      <4>2. QED
        BY <4>1
    <3> DEFINE g == [p \in Deep(d) |-> Output(v, p, f)]
    <3>5. \A p \in Deep(d - 1) : g[p] = f[p]
      <4> SUFFICES ASSUME NEW p \in Deep(d - 1) PROVE g[p] = f[p]
        OBVIOUS
      <4>1. f[p] = Output(v, p, f)
        BY <3>2
      <4>2. g[p] = Output(v, p, f)
        BY <3>4
      <4>3. QED
        BY <4>1, <4>2
    <3>6. g = [p \in Deep(d) |-> g[p]] /\ \A p \in Deep(d) : g[p] = Output(v, p, f)
      OBVIOUS
    <3> HIDE DEF g
    <3>7. \A p \in Deep(d) : g[p] = Output(v, p, g)
      <4> SUFFICES ASSUME NEW p \in Deep(d) PROVE g[p] = Output(v, p, g)
        OBVIOUS
      <4>1. \A n \in 1..v[p].kids : f[Append(p, n)] = g[Append(p, n)]
        BY <3>3, <3>5
      <4>2. Output(v, p, f) = Output(v, p, g)
        BY <4>1, OutputSame
      <4>3. QED
        BY <3>6, <4>2
    <3>8. Is(g, Deep(d))
      BY <3>6, <3>7 DEF Is
    <3>9. QED
      BY <2>1, <3>8
  <2>4. QED
    BY <2>2, <2>3
<1>3. Deep(h + 1) = DOMAIN v
  <2>1. \A p \in DOMAIN v : Len(p) + (h + 1) > h
    BY JsonFacts
  <2>2. QED
    BY <2>1
<1>4. PartTexts(v) = CHOOSE f : Is(f, DOMAIN v)
  BY DEF PartTexts
<1> HIDE DEF Is, Deep
<1>5. \E f : Is(f, DOMAIN v)
  BY <1>2, <1>3
<1>6. Is(PartTexts(v), DOMAIN v)
  BY <1>4, <1>5
<1>7. PartTexts(v) = [p \in DOMAIN v |-> Output(v, p, PartTexts(v))]
  BY <1>6 DEF Is
<1>8. QED
  BY <1>7

\* The text of an atom is the atom, that of an object or an array is laid out
\* around those of its kids.
TextLaid(v, p) ==
    LET t == PartTexts(v)[p]
    IN /\ t \in Seq(Tokens)
       /\ IF v[p].type \in {"obj", "array"}
            THEN Bracketed(v, p, t) /\ \E o : Laid(v, p, PartTexts(v), t, o)
            ELSE Len(t) = 1 /\ t[1] = v[p].atom

\* By the depth of the part: its text is made of those of its kids.
LEMMA TextsLaid ==
    ASSUME NEW v, Json(v)
    PROVE  \A p \in DOMAIN v : TextLaid(v, p)
<1>1. PICK h \in Nat : \A p \in DOMAIN v : Len(p) <= h
  BY DEF Json
<1> DEFINE Bad == {d \in Nat : \E p \in DOMAIN v : d = h - Len(p) /\ ~TextLaid(v, p)}
<1> SUFFICES ASSUME NEW bad \in DOMAIN v, ~TextLaid(v, bad) PROVE FALSE
  OBVIOUS
<1>2. PICK d \in Bad : \A m \in Bad : d <= m
  <2>1. h - Len(bad) \in Nat
    BY <1>1, JsonFacts
  <2>2. h - Len(bad) \in Bad
    BY <2>1
  <2>3. QED
    BY <2>2, LeastNumber
<1>3. PICK p \in DOMAIN v : d = h - Len(p) /\ ~TextLaid(v, p)
  BY <1>2
<1>4. ASSUME NEW q \in DOMAIN v, Len(q) = Len(p) + 1 PROVE TextLaid(v, q)
  <2>1. h - Len(q) \in Nat /\ ~(d <= h - Len(q))
    BY <1>1, <1>3, <1>4, JsonFacts
  <2>2. h - Len(q) \notin Bad
    BY <1>2, <2>1
  <2>3. QED
    BY <2>1, <2>2
<1> HIDE DEF Bad
<1> DEFINE t == PartTexts(v)[p]
<1>5. t = Output(v, p, PartTexts(v))
  BY PartTextsAre
<1> HIDE DEF t
<1>6. CASE v[p].type \in {"obj", "array"}
  <2>1. \A n \in 1..v[p].kids : /\ PartTexts(v)[Append(p, n)] \in Seq(Tokens)
                                /\ v[p].type = "obj" => v[Append(p, n)].name \in Names
    <3> SUFFICES ASSUME NEW n \in 1..v[p].kids
                 PROVE  /\ PartTexts(v)[Append(p, n)] \in Seq(Tokens)
                        /\ v[p].type = "obj" => v[Append(p, n)].name \in Names
      OBVIOUS
    <3>1. /\ Append(p, n) \in DOMAIN v /\ Len(Append(p, n)) = Len(p) + 1
          /\ v[p].type = "obj" => v[Append(p, n)].name \in Names
      BY JsonFacts
    <3>2. TextLaid(v, Append(p, n))
      BY <1>4, <3>1
    <3>3. QED
      BY <3>1, <3>2 DEF TextLaid
  <2>2. v[p].kids \in Nat
    BY JsonFacts
  <2>3. t \in Seq(Tokens) /\ Bracketed(v, p, t) /\ \E o : Laid(v, p, PartTexts(v), t, o)
    BY <1>5, <1>6, <2>1, <2>2, OutputLaid
  <2>4. QED
    BY <1>3, <1>6, <2>3 DEF TextLaid, t
<1>7. CASE v[p].type \notin {"obj", "array"}
  <2>1. t = <<v[p].atom>>
    BY <1>5, <1>7 DEF Output
  <2>2. v[p].atom \in Tokens
    BY <1>7, JsonFacts DEF Tokens
  <2>3. t \in Seq(Tokens) /\ Len(t) = 1 /\ t[1] = v[p].atom
    BY <2>1, <2>2
  <2>4. QED
    BY <1>3, <1>7, <2>3 DEF TextLaid, t
<1>8. QED
  BY <1>6, <1>7

\* Where the kids of the part at p end in its text, and how far behind the
\* beginning of its parent's text that of a part begins.
KidEnds(v, p) == CHOOSE o : Laid(v, p, PartTexts(v), PartTexts(v)[p], o)
Size(v, p) == Len(PartTexts(v)[p])
Shift(v, p) == KidEnds(v, Front(p))[Last(p)] - Size(v, p)

\* How many tokens are before each part.
Offsets(v, f) ==
    f[<<>>] = 0 /\ \A p \in DOMAIN v \ {<<>>} : f[p] = f[Front(p)] + Shift(v, p)

\* By the depth of the part: it begins behind the parts before it.
LEMMA OffsetsExist ==
    ASSUME NEW v, Json(v)
    PROVE  \E f : Offsets(v, f)
<1>0. <<>> \in DOMAIN v
  BY DEF Json
<1>1. PICK h \in Nat : \A p \in DOMAIN v : Len(p) <= h
  BY DEF Json
<1> DEFINE Top(d) == {p \in DOMAIN v : Len(p) <= d}
           Of(f, p) == IF p = <<>> THEN 0 ELSE f[Front(p)] + Shift(v, p)
           Is(f, D) == f = [p \in D |-> Of(f, p)]
<1>2. ASSUME NEW p \in DOMAIN v, p # <<>>
      PROVE  Front(p) \in DOMAIN v /\ Len(Front(p)) = Len(p) - 1 /\ Len(p) \in Nat \ {0}
  <2>1. p \in Seq(Nat \ {0})
    BY JsonFacts DEF Paths
  <2>2. Len(Front(p)) = Len(p) - 1 /\ Len(p) \in Nat \ {0}
    BY <1>2, <2>1, FrontFacts
  <2>3. QED
    BY <1>2, <2>2 DEF Json
<1>3. \A d \in Nat : \E f : Is(f, Top(d))
  <2> SUFFICES ASSUME NEW bad \in Nat, ~ \E f : Is(f, Top(bad)) PROVE FALSE
    OBVIOUS
  <2> DEFINE Bad == {d \in Nat : ~ \E f : Is(f, Top(d))}
  <2> HIDE DEF Is, Top
  <2>1. PICK d \in Bad : \A m \in Bad : d <= m
    BY LeastNumber
  <2>2. CASE d = 0
    <3>1. \A p \in Top(0) : p = <<>>
      <4>1. \A p \in Top(0) : p \in DOMAIN v /\ Len(p) <= 0
        BY DEF Top
      <4>2. QED
        BY <1>2, <4>1
    <3> DEFINE f == [p \in Top(0) |-> 0]
    <3>2. f = [p \in Top(0) |-> Of(f, p)]
      BY <3>1
    <3>3. Is(f, Top(0))
      BY <3>2 DEF Is
    <3>4. QED
      BY <2>1, <2>2, <3>3
  <2>3. CASE d # 0
    <3>1. PICK f : Is(f, Top(d - 1))
      BY <2>1, <2>3
    <3>2. f = [p \in Top(d - 1) |-> Of(f, p)]
      BY <3>1 DEF Is
    <3>3. ASSUME NEW p \in Top(d), p # <<>> PROVE Front(p) \in Top(d - 1)
      <4>1. p \in DOMAIN v /\ Len(p) <= d
        BY DEF Top
      <4>2. Front(p) \in DOMAIN v /\ Len(Front(p)) = Len(p) - 1 /\ Len(p) \in Nat
        BY <1>2, <3>3, <4>1
      <4>3. Len(Front(p)) <= d - 1
        BY <2>1, <4>1, <4>2
      <4>4. QED
        BY <4>2, <4>3 DEF Top
    <3>4. Top(d - 1) \subseteq Top(d)
      <4>1. ASSUME NEW p \in Top(d - 1) PROVE p \in Top(d)
        <5>1. p \in DOMAIN v /\ Len(p) <= d - 1
          BY DEF Top
        <5>2. Len(p) \in Nat
          BY <5>1, JsonFacts
        <5>3. Len(p) <= d
          BY <2>1, <5>1, <5>2
        <5>4. QED
          BY <5>1, <5>3 DEF Top
      <4>2. QED
        BY <4>1
    <3> DEFINE g == [p \in Top(d) |-> Of(f, p)]
    <3>5. \A p \in Top(d - 1) : g[p] = f[p]
      BY <3>2, <3>4
    <3>6. g = [p \in Top(d) |-> g[p]] /\ \A p \in Top(d) : g[p] = Of(f, p)
      OBVIOUS
    <3> HIDE DEF g
    <3>7. \A p \in Top(d) : g[p] = Of(g, p)
      BY <3>3, <3>5, <3>6
    <3>8. Is(g, Top(d))
      BY <3>6, <3>7 DEF Is
    <3>9. QED
      BY <2>1, <3>8
  <2>4. QED
    BY <2>2, <2>3
<1>4. Top(h) = DOMAIN v
  BY <1>1
<1> HIDE DEF Top
<1>5. PICK f : f = [p \in DOMAIN v |-> Of(f, p)]
  BY <1>1, <1>3, <1>4
<1>6. Offsets(v, f)
  BY <1>0, <1>5 DEF Offsets
<1>7. QED
  BY <1>6

\* The text of an object or an array, with its kids where they end.
LEMMA CompoundLaid ==
    ASSUME NEW v, Json(v), NEW p \in DOMAIN v, v[p].type \in {"obj", "array"}
    PROVE  /\ Bracketed(v, p, PartTexts(v)[p])
           /\ Laid(v, p, PartTexts(v), PartTexts(v)[p], KidEnds(v, p))
<1>1. TextLaid(v, p)
  BY TextsLaid
<1>2. Bracketed(v, p, PartTexts(v)[p]) /\ \E o : Laid(v, p, PartTexts(v), PartTexts(v)[p], o)
  BY <1>1 DEF TextLaid
<1>3. QED
  BY <1>2 DEF KidEnds

\* The offset of a kid, in terms of its parent's.
KidAt(v, f, p, n, q, o, t, x) ==
    /\ q \in DOMAIN v /\ v[p].type \in {"obj", "array"}
    /\ o[n - 1] \in Nat /\ o[n] \in Nat /\ o[n] < Len(t) /\ Len(x) \in Nat /\ Len(t) \in Nat
    /\ KidLaid(v, p, n, x, t, o[n - 1], o[n])
    /\ f[q] = f[p] + o[n - 1] + Commas(n) + Lead(v[p])
    /\ f[q] + Len(x) = f[p] + o[n]

\* A kid begins behind its parent's tokens before it.
LEMMA KidOffset ==
    ASSUME NEW v, Json(v), NEW f, Offsets(v, f), NEW p \in DOMAIN v, f[p] \in Nat,
           NEW n \in 1..v[p].kids
    PROVE  KidAt(v, f, p, n, Append(p, n), KidEnds(v, p), PartTexts(v)[p], PartTexts(v)[Append(p, n)])
<1>0. PICK q, o, t, x : /\ q = Append(p, n) /\ o = KidEnds(v, p)
                        /\ t = PartTexts(v)[p] /\ x = PartTexts(v)[q]
  OBVIOUS
<1>1. v[p].kids \in Nat /\ q \in DOMAIN v /\ p \in Seq(Nat \ {0}) /\ n \in Nat \ {0} /\ v[p].kids # 0
  <2>1. v[p].kids \in Nat /\ q \in DOMAIN v /\ p \in Paths
    BY <1>0, JsonFacts
  <2>2. QED
    BY <2>1 DEF Paths
<1>2. v[p].type \in {"obj", "array"}
  BY <1>1, JsonFacts
<1>3. Laid(v, p, PartTexts(v), t, o)
  BY <1>0, <1>2, CompoundLaid
<1>4. o[n - 1] \in Nat /\ o[n] \in Nat /\ o[n] < Len(t) /\ KidLaid(v, p, n, x, t, o[n - 1], o[n])
  <2>1. n - 1 \in 0..v[p].kids /\ n \in 0..v[p].kids
    BY <1>1
  <2>2. QED
    BY <1>0, <1>3, <2>1 DEF Laid
<1>5. Len(x) \in Nat /\ Len(t) \in Nat
  <2>1. TextLaid(v, p) /\ TextLaid(v, q)
    BY <1>1, TextsLaid
  <2>2. t \in Seq(Tokens) /\ x \in Seq(Tokens)
    BY <1>0, <2>1 DEF TextLaid
  <2>3. QED
    BY <2>2
<1>6. q # <<>> /\ Front(q) = p /\ Last(q) = n
  BY <1>0, <1>1, AppendFacts
<1>7. f[q] = f[p] + (o[n] - Len(x))
  BY <1>0, <1>1, <1>6 DEF Offsets, Shift, Size
<1>8. PICK c, l : c = Commas(n) /\ l = Lead(v[p])
  OBVIOUS
<1>9. c \in Nat /\ l \in Nat
  BY <1>8 DEF Commas, Lead
<1>10. o[n] = o[n - 1] + c + l + Len(x)
  BY <1>4, <1>8 DEF KidLaid
<1>11. f[p] \in Nat
  OBVIOUS
<1>12. f[q] = f[p] + o[n - 1] + c + l /\ f[q] + Len(x) = f[p] + o[n]
  <2>1. PICK a, b, d, e, m : a = f[p] /\ b = f[q] /\ d = o[n - 1] /\ e = o[n] /\ m = Len(x)
    OBVIOUS
  <2>2. /\ a \in Nat /\ d \in Nat /\ e \in Nat /\ m \in Nat
        /\ b = a + (e - m) /\ e = d + c + l + m
    BY <1>4, <1>5, <1>7, <1>10, <1>11, <2>1
  <2>3. b = a + d + c + l /\ b + m = a + e
    BY ONLY <1>9, <2>2
  <2>4. QED
    BY <2>1, <2>3
<1>13. KidAt(v, f, p, n, q, o, t, x)
  BY <1>1, <1>2, <1>4, <1>5, <1>8, <1>12 DEF KidAt
<1>14. QED
  BY <1>0, <1>13

\* The text of the part at p stands in that of the whole value, behind f[p] tokens.
Stands(v, f, p) ==
    LET t == PartTexts(v)[p]
    IN /\ f[p] \in Nat /\ Len(t) \in Nat \ {0} /\ f[p] + Len(t) <= Len(Write(v))
       /\ \A j \in 1..Len(t) : Write(v)[f[p] + j] = t[j]

\* By the depth of the part: it stands in its parent's text.
LEMMA PartsStand ==
    ASSUME NEW v, Json(v), NEW f, Offsets(v, f)
    PROVE  \A p \in DOMAIN v : Stands(v, f, p)
<1> DEFINE W == Write(v)
           Bad == {d \in Nat : \E p \in DOMAIN v : d = Len(p) /\ ~Stands(v, f, p)}
<1> SUFFICES ASSUME NEW bad \in DOMAIN v, ~Stands(v, f, bad) PROVE FALSE
  OBVIOUS
<1>1. PICK d \in Bad : \A m \in Bad : d <= m
  <2>1. Len(bad) \in Bad
    BY JsonFacts
  <2>2. QED
    BY <2>1, LeastNumber
<1>2. PICK p \in DOMAIN v : d = Len(p) /\ ~Stands(v, f, p)
  BY <1>1
<1>3. ASSUME NEW q \in DOMAIN v, Len(q) = Len(p) - 1, Len(q) \in Nat PROVE Stands(v, f, q)
  <2>1. Len(q) \notin Bad
    BY <1>1, <1>2, <1>3
  <2>2. QED
    BY <1>3, <2>1
<1> HIDE DEF Bad
<1>4. PICK t : t = PartTexts(v)[p]
  OBVIOUS
<1>5. Len(t) \in Nat \ {0}
  <2>1. TextLaid(v, p)
    BY TextsLaid
  <2>2. CASE v[p].type \in {"obj", "array"}
    <3>1. Laid(v, p, PartTexts(v), t, KidEnds(v, p))
      BY <1>4, <2>2, CompoundLaid
    <3>2. v[p].kids \in Nat
      BY JsonFacts
    <3>3. v[p].kids \in 0..v[p].kids
      BY <3>2
    <3>4. KidEnds(v, p)[v[p].kids] \in Nat /\ Len(t) = KidEnds(v, p)[v[p].kids] + 1
      BY <3>1, <3>3 DEF Laid
    <3>5. QED
      BY <3>4
  <2>3. CASE v[p].type \notin {"obj", "array"}
    BY <1>4, <2>1, <2>3 DEF TextLaid
  <2>4. QED
    BY <2>2, <2>3
<1>6. CASE p = <<>>
  <2>1. t = Write(v) /\ f[p] = 0
    BY <1>4, <1>6 DEF Write, Offsets
  <2>2. Stands(v, f, p)
    BY <1>4, <1>5, <2>1 DEF Stands
  <2>3. QED
    BY <1>2, <2>2
<1>7. CASE p # <<>>
  <2>1. PICK q, n : q = Front(p) /\ n = Last(p)
    OBVIOUS
  <2>2. /\ q \in DOMAIN v /\ Append(q, n) = p /\ n \in 1..v[q].kids
        /\ Len(q) = Len(p) - 1 /\ Len(q) \in Nat
    <3>1. p \in Seq(Nat \ {0})
      BY JsonFacts DEF Paths
    <3>2. Len(q) = Len(p) - 1 /\ Len(p) \in Nat \ {0} /\ n \in Nat \ {0} /\ Append(q, n) = p
      BY <1>7, <2>1, <3>1, FrontFacts
    <3>3. q \in DOMAIN v /\ n <= v[q].kids
      BY <1>7, <2>1 DEF Json
    <3>4. v[q].kids \in Nat
      BY <3>3, JsonFacts
    <3>5. QED
      BY <3>2, <3>3, <3>4
  <2>3. Stands(v, f, q)
    BY <1>3, <2>2
  <2>4. PICK u, o : u = PartTexts(v)[q] /\ o = KidEnds(v, q)
    OBVIOUS
  <2>5. /\ f[q] \in Nat /\ Len(u) \in Nat /\ f[q] + Len(u) <= Len(W)
        /\ \A j \in 1..Len(u) : W[f[q] + j] = u[j]
    BY <2>3, <2>4 DEF Stands
  <2>6. /\ o[n - 1] \in Nat /\ o[n] \in Nat /\ o[n] < Len(u)
        /\ KidLaid(v, q, n, t, u, o[n - 1], o[n])
        /\ f[p] = f[q] + o[n - 1] + Commas(n) + Lead(v[q])
        /\ f[p] + Len(t) = f[q] + o[n]
    <3>1. f[q] \in Nat /\ q \in DOMAIN v /\ n \in 1..v[q].kids
      BY <2>2, <2>5
    <3>2. KidAt(v, f, q, n, Append(q, n), KidEnds(v, q), PartTexts(v)[q], PartTexts(v)[Append(q, n)])
      BY <3>1, KidOffset
    <3>3. KidAt(v, f, q, n, p, o, u, t)
      BY <1>4, <2>2, <2>4, <3>2
    <3>4. QED
      BY <3>3 DEF KidAt
  <2>7. PICK s : s = o[n - 1] + Commas(n) + Lead(v[q])
    OBVIOUS
  <2>8. /\ s \in Nat /\ f[p] = f[q] + s /\ s + Len(t) = o[n]
        /\ \A j \in 1..Len(t) : u[s + j] = t[j]
    <3>1. Commas(n) \in Nat /\ Lead(v[q]) \in Nat
      BY DEF Commas, Lead
    <3>2. \A j \in 1..Len(t) : u[o[n - 1] + Commas(n) + Lead(v[q]) + j] = t[j]
      BY <2>6 DEF KidLaid
    <3>3. s \in Nat
      BY <2>6, <2>7, <3>1
    <3>4. f[q] \in Nat /\ o[n - 1] \in Nat /\ o[n] \in Nat
          /\ f[p] = f[q] + o[n - 1] + Commas(n) + Lead(v[q]) /\ f[p] + Len(t) = f[q] + o[n]
      BY <2>5, <2>6
    <3>6. f[p] = f[q] + s /\ s + Len(t) = o[n]
      <4>1. PICK a, b, g, e, m, c, l : /\ a = f[q] /\ b = f[p] /\ g = o[n - 1] /\ e = o[n] /\ m = Len(t)
                                       /\ c = Commas(n) /\ l = Lead(v[q])
        OBVIOUS
      <4>2. /\ a \in Nat /\ g \in Nat /\ e \in Nat /\ m \in Nat /\ c \in Nat /\ l \in Nat
            /\ b = a + g + c + l /\ b + m = a + e /\ s = g + c + l
        BY <1>5, <2>7, <3>1, <3>4, <4>1
      <4>3. b = a + s /\ s + m = e
        BY ONLY <4>2
      <4>4. QED
        BY <4>1, <4>3
    <3>5. QED
      BY <2>7, <3>2, <3>3, <3>6
  <2>9. Len(W) \in Int
    <3>1. TextLaid(v, <<>>)
      BY TextsLaid DEF Json
    <3>2. QED
      BY <3>1 DEF TextLaid, Write
  <2>10. f[p] \in Nat /\ f[p] + Len(t) <= Len(W)
    BY <1>5, <2>5, <2>6, <2>8, <2>9
  <2>11. ASSUME NEW j \in 1..Len(t) PROVE W[f[p] + j] = t[j]
    <3>1. s + j \in 1..Len(u) /\ f[p] + j = f[q] + (s + j)
      BY <1>5, <2>5, <2>6, <2>8
    <3>2. W[f[q] + (s + j)] = u[s + j]
      BY <2>5, <3>1
    <3>3. QED
      BY <2>8, <3>1, <3>2
  <2>12. Stands(v, f, p)
    BY <1>4, <1>5, <2>10, <2>11 DEF Stands
  <2>13. QED
    BY <1>2, <2>12
<1>8. QED
  BY <1>6, <1>7

\* The places of the parts in the text of the value.
WriterSpans(v, f) == [p \in DOMAIN v |-> [first |-> f[p] + 1, last |-> f[p] + Size(v, p)]]

SpanOf(v, f, p, t) ==
    /\ f[p] \in Nat /\ Len(t) \in Nat \ {0} /\ f[p] + Len(t) <= Len(Write(v))
    /\ \A j \in 1..Len(t) : Write(v)[f[p] + j] = t[j]
    /\ WriterSpans(v, f)[p].first = f[p] + 1 /\ WriterSpans(v, f)[p].last = f[p] + Len(t)
    /\ WriterSpans(v, f)[p] = [first |-> f[p] + 1, last |-> f[p] + Len(t)]

\* A part is written at its span.
LEMMA SpanFacts ==
    ASSUME NEW v, Json(v), NEW f, Offsets(v, f), NEW p \in DOMAIN v
    PROVE  SpanOf(v, f, p, PartTexts(v)[p])
<1>1. Stands(v, f, p)
  BY PartsStand
<1>2. WriterSpans(v, f)[p] = [first |-> f[p] + 1, last |-> f[p] + Len(PartTexts(v)[p])]
  BY DEF WriterSpans, Size
<1>3. /\ WriterSpans(v, f)[p].first = f[p] + 1
      /\ WriterSpans(v, f)[p].last = f[p] + Len(PartTexts(v)[p])
  BY <1>2
<1>4. QED
  BY <1>1, <1>2, <1>3 DEF Stands, SpanOf

\* The tokens of a kid are where the reader will look for them.
LEMMA KidIsWritten ==
    ASSUME NEW v, Json(v), NEW f, Offsets(v, f), NEW p \in DOMAIN v, NEW i \in 1..v[p].kids
    PROVE  KidWritten(v, Write(v), WriterSpans(v, f), p, i)
<1> DEFINE W == Write(v)
           span == WriterSpans(v, f)
           kid == Append(p, i)
           start == Start(v, span, p, kid)
           before == IF i = 1 THEN span[p].first ELSE span[Append(p, i - 1)].last + 1
<1>1. PICK o, t, x : o = KidEnds(v, p) /\ t = PartTexts(v)[p] /\ x = PartTexts(v)[kid]
  OBVIOUS
<1>2. PICK q : q = kid
  OBVIOUS
<1>3. i \in Nat \ {0} /\ v[p].kids \in Nat
  BY JsonFacts
<1>4. /\ f[p] \in Nat /\ \A j \in 1..Len(t) : W[f[p] + j] = t[j]
      /\ span[p].first = f[p] + 1
  <2>1. SpanOf(v, f, p, t)
    BY <1>1, SpanFacts
  <2>2. QED
    BY <2>1 DEF SpanOf
<1>5. /\ q \in DOMAIN v /\ v[p].type \in {"obj", "array"}
      /\ o[i - 1] \in Nat /\ o[i] \in Nat /\ o[i] < Len(t) /\ Len(x) \in Nat /\ Len(t) \in Nat
      /\ KidLaid(v, p, i, x, t, o[i - 1], o[i])
      /\ f[q] = f[p] + o[i - 1] + Commas(i) + Lead(v[p])
  <2>1. KidAt(v, f, p, i, q, o, t, x)
    <3>1. f[p] \in Nat
      BY <1>4
    <3>2. KidAt(v, f, p, i, Append(p, i), KidEnds(v, p), PartTexts(v)[p], PartTexts(v)[Append(p, i)])
      BY <3>1, KidOffset
    <3>3. QED
      BY <1>1, <1>2, <3>2
  <2>2. QED
    BY <2>1 DEF KidAt
<1>6. span[q].first = f[q] + 1
  <2>1. SpanOf(v, f, q, PartTexts(v)[q])
    BY <1>5, SpanFacts
  <2>2. QED
    BY <2>1 DEF SpanOf
<1>7. PICK c, l : c = Commas(i) /\ l = Lead(v[p])
  OBVIOUS
<1>8. /\ c \in Nat /\ l \in Nat
      /\ c = (IF i > 1 THEN 1 ELSE 0) /\ l = (IF v[p].type = "obj" THEN 2 ELSE 0)
  BY <1>7 DEF Commas, Lead
<1>9. start = f[p] + o[i - 1] + c + 1
  <2>1. start = (f[q] + 1) - l
    <3>1. start = WriterSpans(v, f)[q].first - l
      BY <1>2, <1>7 DEF Start
    <3>2. PICK g : g = WriterSpans(v, f)[q].first
      OBVIOUS
    <3>3. g = f[q] + 1
      BY <1>6, <3>2
    <3>4. start = g - l
      BY <3>1, <3>2
    <3>5. QED
      BY <3>3, <3>4
  <2>2. f[q] = f[p] + o[i - 1] + c + l
    BY <1>5, <1>7
  <2>3. QED
    BY ONLY <1>4, <1>5, <1>8, <2>1, <2>2
<1>10. before = f[p] + o[i - 1] + c
  <2>1. CASE i = 1
    <3>1. Laid(v, p, PartTexts(v), t, o)
      BY <1>1, <1>5, CompoundLaid
    <3>2. o[0] = 1
      BY <3>1 DEF Laid
    <3>3. o[i - 1] = 1 /\ c = 0
      BY <1>8, <2>1, <3>2
    <3>4. QED
      BY <1>4, <2>1, <3>3
  <2>2. CASE i # 1
    <3>1. PICK m, r, y : m = i - 1 /\ r = Append(p, m) /\ y = PartTexts(v)[r]
      OBVIOUS
    <3>2. m \in 1..v[p].kids
      BY <1>3, <2>2, <3>1
    <3>3. r \in DOMAIN v /\ f[r] + Len(y) = f[p] + o[m]
      <4>1. f[p] \in Nat
        BY <1>4
      <4>2. KidAt(v, f, p, m, Append(p, m), KidEnds(v, p), PartTexts(v)[p], PartTexts(v)[Append(p, m)])
        BY <3>2, <4>1, KidOffset
      <4>3. KidAt(v, f, p, m, r, o, t, y)
        BY <1>1, <3>1, <4>2
      <4>4. QED
        BY <4>3 DEF KidAt
    <3>4. span[r].last = f[r] + Len(y)
      <4>1. SpanOf(v, f, r, y)
        BY <3>1, <3>3, SpanFacts
      <4>2. QED
        BY <4>1 DEF SpanOf
    <3>5. before = f[p] + o[m] + 1 /\ c = 1
      BY <1>3, <1>8, <2>2, <3>1, <3>3, <3>4
    <3>6. QED
      BY <3>1, <3>5
  <2>3. QED
    BY <2>1, <2>2
<1>11. start = before + 1
  BY <1>4, <1>5, <1>8, <1>9, <1>10
<1>12. /\ o[i] = o[i - 1] + c + l + Len(x)
       /\ i > 1 => t[o[i - 1] + 1] = Comma
       /\ v[p].type = "obj" => t[o[i - 1] + c + 1] = v[kid].name /\ t[o[i - 1] + c + 2] = Colon
  BY <1>5, <1>7 DEF KidLaid
<1>13. o[i - 1] \in Nat /\ c \in Nat /\ l \in Nat /\ Len(t) \in Nat /\ f[p] \in Nat
       /\ o[i - 1] + c + l < Len(t)
  <2>1. PICK d, e, m, k : d = o[i - 1] /\ e = o[i] /\ m = Len(x) /\ k = Len(t)
    OBVIOUS
  <2>2. /\ d \in Nat /\ e \in Nat /\ m \in Nat /\ k \in Nat /\ e < k
        /\ e = d + c + l + m
    BY <1>5, <1>12, <2>1
  <2>3. d + c + l < k
    BY ONLY <1>8, <2>2
  <2>4. QED
    BY <1>4, <1>8, <2>1, <2>2, <2>3
<1>14. start = f[p] + (o[i - 1] + c + 1)
  <2> HIDE DEF start
  <2>1. QED
    BY <1>9, <1>13
<1> HIDE DEF start
<1>15. i # 1 => W[start - 1] = Comma
  <2> SUFFICES ASSUME i # 1 PROVE W[start - 1] = Comma
    OBVIOUS
  <2>1. PICK j : j = o[i - 1] + 1
    OBVIOUS
  <2>2. i > 1 /\ c = 1
    BY <1>3, <1>8
  <2>3. j \in 1..Len(t) /\ start - 1 = f[p] + j
    BY <1>13, <1>14, <2>1, <2>2, SMTT(30)
  <2>4. W[f[p] + j] = t[j]
    BY <1>4, <2>3
  <2>5. QED
    BY <1>12, <2>1, <2>2, <2>3, <2>4
<1>16. v[p].type = "obj" => W[start] = v[kid].name /\ W[start + 1] = Colon
  <2> SUFFICES ASSUME v[p].type = "obj" PROVE W[start] = v[kid].name /\ W[start + 1] = Colon
    OBVIOUS
  <2>1. PICK j : j = o[i - 1] + c + 1
    OBVIOUS
  <2>2. l = 2
    BY <1>8
  <2>3. /\ j \in 1..Len(t) /\ j + 1 \in 1..Len(t) /\ j + 1 = o[i - 1] + c + 2
        /\ start = f[p] + j /\ start + 1 = f[p] + (j + 1)
    <3>1. PICK a, d, k : a = f[p] /\ d = o[i - 1] /\ k = Len(t)
      OBVIOUS
    <3>2. /\ a \in Nat /\ d \in Nat /\ k \in Nat /\ d + c + l < k
          /\ start = a + (d + c + 1) /\ j = d + c + 1
      BY <1>13, <1>14, <2>1, <3>1
    <3>3. /\ j \in 1..k /\ j + 1 \in 1..k /\ j + 1 = d + c + 2
          /\ start = a + j /\ start + 1 = a + (j + 1)
      BY ONLY <1>8, <2>2, <3>2
    <3>4. QED
      BY <3>1, <3>3
  <2>4. W[f[p] + j] = t[j] /\ W[f[p] + (j + 1)] = t[j + 1]
    BY <1>4, <2>3
  <2>5. t[j] = v[kid].name /\ t[j + 1] = Colon
    BY <1>12, <2>1, <2>3
  <2>6. QED
    BY <2>3, <2>4, <2>5
<1>17. IF v[p].type = "obj" THEN v[kid].name \in Names ELSE v[kid].name = NoName
  BY JsonFacts
<1>18. kid \in DOMAIN v
  BY <1>2, <1>5
<1> HIDE DEF W, span, kid, start, before
<1>19. /\ kid \in DOMAIN v /\ start = before + 1
       /\ i # 1 => W[start - 1] = Comma
       /\ IF v[p].type = "obj" THEN W[start] = v[kid].name /\ v[kid].name \in Names /\ W[start + 1] = Colon
                               ELSE v[kid].name = NoName
  BY <1>11, <1>15, <1>16, <1>17, <1>18
<1>20. QED
  BY <1>19 DEF KidWritten, W, span, kid, start, before

\* Every part is written.
LEMMA PartIsWritten ==
    ASSUME NEW v, Json(v), NEW f, Offsets(v, f), NEW p \in DOMAIN v
    PROVE  \/ AtomWritten(v, Write(v), WriterSpans(v, f), p)
           \/ CompoundWritten(v, Write(v), WriterSpans(v, f), p)
<1> DEFINE W == Write(v)
           span == WriterSpans(v, f)
           first == span[p].first
           last == span[p].last
           n == v[p].kids
<1>1. PICK t : t = PartTexts(v)[p]
  OBVIOUS
<1>2. /\ f[p] \in Nat /\ Len(t) \in Nat \ {0}
      /\ \A j \in 1..Len(t) : W[f[p] + j] = t[j]
      /\ first = f[p] + 1 /\ last = f[p] + Len(t)
  <2>1. SpanOf(v, f, p, t)
    BY <1>1, SpanFacts
  <2>2. QED
    BY <2>1 DEF SpanOf
<1>3. W[first] = t[1] /\ W[last] = t[Len(t)]
  <2>1. 1 \in 1..Len(t) /\ Len(t) \in 1..Len(t)
    BY <1>2
  <2>2. QED
    BY <1>2, <2>1
<1>4. CASE v[p].type \notin {"obj", "array"}
  <2>1. TextLaid(v, p)
    BY TextsLaid
  <2>2. Len(t) = 1 /\ t[1] = v[p].atom
    BY <1>1, <1>4, <2>1 DEF TextLaid
  <2>3. v[p].atom \in Atoms /\ v[p].type = AtomType(v[p].atom) /\ v[p].kids = 0
    BY <1>4, JsonFacts
  <2>4. last = first /\ W[first] = v[p].atom
    BY <1>2, <1>3, <2>2
  <2>5. AtomWritten(v, W, span, p)
    BY <2>3, <2>4 DEF AtomWritten
  <2>6. QED
    BY <2>5
<1>5. CASE v[p].type \in {"obj", "array"}
  <2>1. PICK o : o = KidEnds(v, p)
    OBVIOUS
  <2>2. Bracketed(v, p, t) /\ Laid(v, p, PartTexts(v), t, o)
    BY <1>1, <1>5, <2>1, CompoundLaid
  <2>3. n \in Nat /\ v[p].atom = NoName
    BY <1>5, JsonFacts
  <2>4. o[0] = 1 /\ Len(t) = o[n] + 1 /\ o[n] \in Nat
    <3>1. n \in 0..n
      BY <2>3
    <3>2. QED
      BY <2>2, <3>1 DEF Laid
  <2>5. last = (IF n = 0 THEN first ELSE span[Append(p, n)].last) + 1
    <3>1. CASE n = 0
      BY <1>2, <2>4, <3>1
    <3>2. CASE n # 0
      <4>1. PICK r, x : r = Append(p, n) /\ x = PartTexts(v)[r]
        OBVIOUS
      <4>2. n \in 1..n
        BY <2>3, <3>2
      <4>3. r \in DOMAIN v /\ f[r] + Len(x) = f[p] + o[n]
        <5>1. f[p] \in Nat
          BY <1>2
        <5>2. KidAt(v, f, p, n, Append(p, n), KidEnds(v, p), PartTexts(v)[p], PartTexts(v)[Append(p, n)])
          BY <4>2, <5>1, KidOffset
        <5>3. KidAt(v, f, p, n, r, o, t, x)
          BY <1>1, <2>1, <4>1, <5>2
        <5>4. QED
          BY <5>3 DEF KidAt
      <4>4. span[r].last = f[r] + Len(x)
        <5>1. SpanOf(v, f, r, x)
          BY <4>1, <4>3, SpanFacts
        <5>2. QED
          BY <5>1 DEF SpanOf
      <4>5. last = span[r].last + 1
        BY <1>2, <2>4, <4>3, <4>4
      <4>6. QED
        BY <3>2, <4>1, <4>5
    <3>3. QED
      BY <3>1, <3>2
  <2>6. \A i \in 1..n : KidWritten(v, W, span, p, i)
    BY KidIsWritten
  <2>7. /\ \/ W[first] = BeginObj /\ W[last] = EndObj
           \/ W[first] = BeginArray /\ W[last] = EndArray
        /\ v[p].type = Compound(W[first]).type
    <3>1. BeginArray # BeginObj
      BY TokenFacts
    <3>2. QED
      BY <1>3, <2>2, <3>1 DEF Bracketed, Compound
  <2> HIDE DEF W, span, first, last, n
  <2>8. QED
    BY <2>3, <2>5, <2>6, <2>7 DEF CompoundWritten, W, span, first, last, n
<1>6. QED
  BY <1>4, <1>5

\* What the writer writes of a value is its text.
LEMMA WriteIsWritten ==
    ASSUME NEW v, Json(v)
    PROVE  Write(v) \in Seq(Tokens) /\ \E span : Written(v, Write(v), span)
<1>1. PICK f : Offsets(v, f)
  BY OffsetsExist
<1> DEFINE W == Write(v)
           span == WriterSpans(v, f)
<1>2. <<>> \in DOMAIN v
  BY DEF Json
<1>3. W \in Seq(Tokens)
  <2>1. TextLaid(v, <<>>)
    BY <1>2, TextsLaid
  <2>2. QED
    BY <2>1 DEF TextLaid, Write
<1>4. DOMAIN W = 1..Len(W) /\ Len(W) \in Nat
  BY <1>3
<1>5. \A p \in DOMAIN v : span[p] \in [first : DOMAIN W, last : DOMAIN W]
  <2> SUFFICES ASSUME NEW p \in DOMAIN v PROVE span[p] \in [first : DOMAIN W, last : DOMAIN W]
    OBVIOUS
  <2>1. PICK t : t = PartTexts(v)[p]
    OBVIOUS
  <2>2. /\ f[p] \in Nat /\ Len(t) \in Nat \ {0} /\ f[p] + Len(t) <= Len(W)
        /\ span[p] = [first |-> f[p] + 1, last |-> f[p] + Len(t)]
    <3>1. SpanOf(v, f, p, t)
      BY <1>1, <2>1, SpanFacts
    <3>2. QED
      BY <3>1 DEF SpanOf
  <2>3. f[p] + 1 \in DOMAIN W /\ f[p] + Len(t) \in DOMAIN W
    BY <1>4, <2>2
  <2>4. QED
    BY <2>2, <2>3
<1>6. span \in [DOMAIN v -> [first : DOMAIN W, last : DOMAIN W]]
  BY <1>5 DEF WriterSpans
<1>7. span[<<>>] = [first |-> 1, last |-> Len(W)]
  <2>1. /\ f[<<>>] = 0 /\ PartTexts(v)[<<>>] = W
    BY <1>1 DEF Offsets, Write
  <2>2. span[<<>>] = [first |-> f[<<>>] + 1, last |-> f[<<>>] + Len(W)]
    BY <1>2, <2>1 DEF WriterSpans, Size
  <2>3. QED
    BY <1>4, <2>1, <2>2
<1>8. \A p \in DOMAIN v : AtomWritten(v, W, span, p) \/ CompoundWritten(v, W, span, p)
  BY <1>1, PartIsWritten
<1>9. IsValue(v) /\ v[<<>>].name = NoName
      /\ \A p \in DOMAIN v \ {<<>>} : Front(p) \in DOMAIN v /\ Last(p) <= v[Front(p)].kids
  BY DEF Json
<1> HIDE DEF W, span
<1>10. Written(v, W, span)
  BY <1>2, <1>6, <1>7, <1>8, <1>9 DEF Written
<1>11. QED
  BY <1>3, <1>10 DEF W

\* What the writer writes of a value is read as that value, and what is read
\* of it before its last token is neither taken for a value nor refused.
THEOREM WriterIsRead ==
    ASSUME NEW v, Json(v)
    PROVE  ReaderSpec => [](Begins(Write(v)) => /\ at # "thrown"
                                                /\ at = "end" <=> text = Write(v)
                                                /\ at = "end" => value = v)
<1>1. Write(v) \in Seq(Tokens) /\ \E span : Written(v, Write(v), span)
  BY WriteIsWritten
<1>2. PICK span : Written(v, Write(v), span)
  BY <1>1
<1> DEFINE Inv == Following(v, Write(v), span)
<1>3. ReaderInit => Inv
  BY <1>1, <1>2, FollowingInit
<1>4. Inv /\ [ReaderNext]_readerVars => Inv'
  BY <1>1, <1>2, FollowingStep
<1>5. Inv => Understands(v, Write(v))
  BY <1>1, <1>2, FollowingUnderstands
<1>6. QED
  BY <1>3, <1>4, <1>5, PTL DEF ReaderSpec, Understands

-----------------------------------------------------------------------------
(* How what has been begun can be ended: a text that is not refused *)

\* The part at p is one of those that ps leads to, from the outermost in.
IsOpen(ps, p) == Len(p) < Len(ps) /\ p = ps[Len(p) + 1]

\* t is the beginning of a text of the value v, in which these are open.
Started(v, t, span, ps) ==
    /\ IsValue(v) /\ t \in Seq(Tokens)
    /\ span \in [DOMAIN v -> [first : 1..Len(t), last : 1..Len(t)]]
    /\ \A p \in DOMAIN v \ {<<>>} : Front(p) \in DOMAIN v /\ Last(p) <= v[Front(p)].kids
    /\ <<>> \in DOMAIN v /\ v[<<>>].name = NoName /\ span[<<>>].first = 1
    /\ ps \in Seq(Paths) /\ ps # <<>> /\ ps[1] = <<>>
    /\ \A i \in 1..Len(ps) :
         /\ ps[i] \in DOMAIN v /\ Len(ps[i]) = i - 1
         /\ i # 1 => ps[i] = Append(ps[i - 1], v[ps[i - 1]].kids)
    /\ \A p \in DOMAIN v :
         IF IsOpen(ps, p) THEN OpenWritten(v, t, span, p) ELSE PartWritten(v, t, span, p)

\* The token before the comma or the bracket that ends the part at p.
LastOf(v, span, p) ==
    IF v[p].kids = 0 THEN span[p].first ELSE span[Append(p, v[p].kids)].last

LEMMA StartedFacts ==
    ASSUME NEW v, NEW t, NEW span, NEW ps, Started(v, t, span, ps)
    PROVE  /\ Len(t) \in Nat /\ Len(ps) \in Nat \ {0}
           /\ \A p \in DOMAIN v : p \in Paths /\ Len(p) \in Nat /\ v[p] \in Parts /\ v[p].kids \in Nat
           /\ \A i \in 1..Len(ps) : IsOpen(ps, ps[i])
           /\ \A p : IsOpen(ps, p) /\ Len(p) \in Nat => Len(p) + 1 \in 1..Len(ps)
           /\ \A p \in DOMAIN v : \A i \in 1..v[p].kids :
                IsOpen(ps, Append(p, i)) => IsOpen(ps, p) /\ i = v[p].kids
<1>1. Len(t) \in Nat /\ Len(ps) \in Nat \ {0}
  BY DEF Started
<1>2. \A p \in DOMAIN v : p \in Paths /\ Len(p) \in Nat /\ v[p] \in Parts /\ v[p].kids \in Nat
  <2>1. IsValue(v)
    BY DEF Started
  <2>2. \A p \in DOMAIN v : p \in Paths /\ v[p] \in Parts
    BY <2>1 DEF IsValue
  <2>3. QED
    BY <2>2 DEF Parts, Paths
<1>3. \A i \in 1..Len(ps) : IsOpen(ps, ps[i])
  <2>1. ASSUME NEW i \in 1..Len(ps) PROVE IsOpen(ps, ps[i])
    <3>1. Len(ps[i]) = i - 1
      BY DEF Started
    <3>2. i - 1 < Len(ps) /\ i - 1 + 1 = i
      BY <1>1
    <3>3. QED
      BY <3>1, <3>2 DEF IsOpen
  <2>2. QED
    BY <2>1
<1>4. \A p : IsOpen(ps, p) /\ Len(p) \in Nat => Len(p) + 1 \in 1..Len(ps)
  BY <1>1 DEF IsOpen
<1>5. ASSUME NEW p \in DOMAIN v, NEW i \in 1..v[p].kids, IsOpen(ps, Append(p, i))
      PROVE  IsOpen(ps, p) /\ i = v[p].kids
  <2>1. p \in Seq(Nat \ {0}) /\ i \in Nat \ {0} /\ Len(p) \in Nat
    BY <1>2 DEF Paths
  <2>2. Len(Append(p, i)) = Len(p) + 1 /\ Front(Append(p, i)) = p /\ Last(Append(p, i)) = i
    BY <2>1, AppendFacts
  <2>3. PICK j \in 1..Len(ps) : j = Len(p) + 2 /\ Append(p, i) = ps[j]
    BY <1>1, <1>5, <2>1, <2>2 DEF IsOpen
  <2>4. j - 1 \in 1..Len(ps) /\ j # 1
    BY <1>1, <2>1, <2>3
  <2>5. ps[j] = Append(ps[j - 1], v[ps[j - 1]].kids) /\ ps[j - 1] \in DOMAIN v
    BY <2>4 DEF Started
  <2>6. PICK r \in DOMAIN v : r = ps[j - 1]
    BY <2>5
  <2>7. r \in Seq(Nat \ {0}) /\ v[r].kids \in Nat
    BY <1>2, <2>6 DEF Paths
  <2>8. Append(p, i) = Append(r, v[r].kids)
    BY <2>3, <2>5, <2>6
  <2>9. r \in Seq(Nat)
    <3>1. Nat \ {0} \subseteq Nat
      OBVIOUS
    <3>2. QED
      BY <2>7, <3>1
  <2>10. Front(Append(r, v[r].kids)) = r /\ Last(Append(r, v[r].kids)) = v[r].kids
    BY <2>7, <2>9, AppendFacts
  <2>11. p = r /\ i = v[r].kids
    BY <2>2, <2>8, <2>10
  <2>12. QED
    BY <1>3, <2>4, <2>6, <2>11
<1>6. QED
  BY <1>1, <1>2, <1>3, <1>4, <1>5

\* Behind an element, or the bracket before the first, all that is open can be
\* closed.
LEMMA AllClose ==
    ASSUME NEW v, NEW t, NEW span, NEW ps, Started(v, t, span, ps),
           Len(t) = LastOf(v, span, ps[Len(ps)])
    PROVE  \E u, sp : /\ u \in Seq(Tokens) /\ Written(v, u, sp)
                      /\ Len(t) <= Len(u) /\ Agree(t, u, Len(t))
<1> DEFINE n == Len(t)
           d == Len(ps)
           Closer(p) == IF v[p].type = "obj" THEN EndObj ELSE EndArray
           u == [j \in 1..(n + d) |-> IF j <= n THEN t[j] ELSE Closer(ps[d - (j - n) + 1])]
           sp == [p \in DOMAIN v |->
                     [first |-> span[p].first, last |-> IF IsOpen(ps, p) THEN n + d - Len(p) ELSE span[p].last]]
<1>1. /\ n \in Nat /\ d \in Nat \ {0}
      /\ \A p \in DOMAIN v : p \in Paths /\ Len(p) \in Nat /\ v[p] \in Parts /\ v[p].kids \in Nat
      /\ \A i \in 1..d : IsOpen(ps, ps[i])
      /\ \A p : IsOpen(ps, p) /\ Len(p) \in Nat => Len(p) + 1 \in 1..d
      /\ \A p \in DOMAIN v : \A i \in 1..v[p].kids :
           IsOpen(ps, Append(p, i)) => IsOpen(ps, p) /\ i = v[p].kids
  BY StartedFacts
<1>2. t \in Seq(Tokens) /\ span \in [DOMAIN v -> [first : 1..n, last : 1..n]]
      /\ \A i \in 1..d : ps[i] \in DOMAIN v /\ Len(ps[i]) = i - 1
  BY DEF Started
<1>3. u \in Seq(Tokens) /\ Len(u) = n + d /\ Agree(t, u, n)
      /\ \A i \in 1..d : u[n + d - i + 1] = Closer(ps[i])
  <2> HIDE DEF n, d
  <2>1. \A p : Closer(p) \in Tokens
    BY DEF Tokens, Brackets
  <2>2. \A j \in 1..n : t[j] \in Tokens
    BY <1>2 DEF n
  <2>3. \A j \in 1..(n + d) : u[j] \in Tokens
    <3> HIDE DEF Closer
    <3>1. QED
      BY <1>1, <2>1, <2>2
  <2>4. n + d \in Nat
    BY <1>1
  <2>5. u \in Seq(Tokens) /\ Len(u) = n + d
    <3>1. u = [j \in 1..(n + d) |-> u[j]]
      OBVIOUS
    <3> HIDE DEF u
    <3>2. QED
      BY <2>3, <2>4, <3>1
  <2>6. Agree(t, u, n)
    BY <1>1 DEF Agree
  <2>7. ASSUME NEW i \in 1..d PROVE u[n + d - i + 1] = Closer(ps[i])
    <3> HIDE DEF Closer
    <3>1. n + d - i + 1 \in 1..(n + d) /\ ~(n + d - i + 1 <= n) /\ d - ((n + d - i + 1) - n) + 1 = i
      BY <1>1
    <3>2. QED
      BY <3>1
  <2> HIDE DEF u
  <2>8. QED
    BY <2>5, <2>6, <2>7
<1> HIDE DEF u
<1>4. ASSUME NEW p \in DOMAIN v, IsOpen(ps, p)
      PROVE  n + d - Len(p) \in 1..(n + d) /\ n + d - Len(p) = n + d - (Len(p) + 1) + 1
             /\ Len(p) + 1 \in 1..d /\ p = ps[Len(p) + 1]
  <2>1. Len(p) + 1 \in 1..d /\ Len(p) \in Nat /\ p = ps[Len(p) + 1]
    BY <1>1, <1>4 DEF IsOpen
  <2> HIDE DEF n, d
  <2>2. QED
    BY <1>1, <2>1
<1>5. sp \in [DOMAIN v -> [first : 1..(n + d), last : 1..(n + d)]]
  <2>1. ASSUME NEW p \in DOMAIN v PROVE sp[p] \in [first : 1..(n + d), last : 1..(n + d)]
    <3>1. span[p].first \in 1..n /\ span[p].last \in 1..n
      BY <1>2
    <3> HIDE DEF n, d
    <3>2. 1..n \subseteq 1..(n + d)
      BY <1>1
    <3>3. QED
      BY <1>4, <3>1, <3>2
  <2>2. QED
    BY <2>1
<1>6. \A q \in DOMAIN v : sp[q].first = span[q].first
      /\ sp[q].last = IF IsOpen(ps, q) THEN n + d - Len(q) ELSE span[q].last
  OBVIOUS
<1> HIDE DEF sp
<1>7. ASSUME NEW p \in DOMAIN v, ~IsOpen(ps, p) PROVE PartWritten(v, u, sp, p)
  <2>1. PartWritten(v, t, span, p)
    BY <1>7 DEF Started
  <2>2. sp[p].last = span[p].last
    BY <1>6, <1>7
  <2>3. ASSUME NEW i \in 1..v[p].kids PROVE sp[Append(p, i)].last = span[Append(p, i)].last
    <3>1. Append(p, i) \in DOMAIN v
      <4>1. ~AtomWritten(v, t, span, p)
        BY <1>1 DEF AtomWritten
      <4>2. QED
        BY <2>1, <4>1 DEF PartWritten, CompoundWritten, KidWritten
    <3>2. ~IsOpen(ps, Append(p, i))
      BY <1>1, <1>7
    <3>3. QED
      BY <1>6, <3>1, <3>2
  <2>4. \A q \in DOMAIN v : q \in DOMAIN v /\ v[q].name = v[q].name /\ sp[q].first = span[q].first
    BY <1>6
  <2>5. IsValue(v)
    BY DEF Started
  <2> HIDE DEF n, d
  <2>6. QED
    BY <1>1, <1>2, <1>3, <2>1, <2>2, <2>3, <2>4, <2>5, PartKept
<1>8. ASSUME NEW p \in DOMAIN v, IsOpen(ps, p) PROVE CompoundWritten(v, u, sp, p)
  <2>1. OpenWritten(v, t, span, p)
    BY <1>8 DEF Started
  <2>2. KidsWritten(v, t, span, p) /\ v[p].kids \in Nat
    BY <1>1, <2>1 DEF OpenWritten
  <2>3. \A i \in 1..v[p].kids : Append(p, i) \in DOMAIN v
    BY <2>2 DEF KidsWritten, KidWritten
  <2>4. ASSUME NEW i \in 1..(v[p].kids - 1) PROVE sp[Append(p, i)].last = span[Append(p, i)].last
    <3>1. i \in 1..v[p].kids /\ i # v[p].kids
      BY <2>2
    <3>2. ~IsOpen(ps, Append(p, i))
      BY <1>1, <3>1
    <3>3. QED
      BY <1>6, <2>3, <3>1, <3>2
  <2>5. \A i \in 1..v[p].kids : KidWritten(v, u, sp, p, i)
    <3>1. \A q \in DOMAIN v : q \in DOMAIN v /\ v[q].name = v[q].name /\ sp[q].first = span[q].first
      BY <1>6
    <3>2. IsValue(v)
      BY DEF Started
    <3> HIDE DEF n, d
    <3>3. QED
      BY <1>1, <1>2, <1>3, <2>2, <2>4, <3>1, <3>2, KidsKept
  <2>6. sp[p].last = n + d - Len(p) /\ Len(p) + 1 \in 1..d /\ Len(p) \in Nat /\ p = ps[Len(p) + 1]
    BY <1>1, <1>4, <1>6, <1>8
  <2>7. sp[p].last = LastOf(v, sp, p) + 1
    <3>1. CASE Len(p) + 1 = d
      <4>1. p = ps[d] /\ n = LastOf(v, span, p)
        BY <2>6, <3>1
      <4>2. v[p].kids # 0 => Append(p, v[p].kids) \in DOMAIN v /\ ~IsOpen(ps, Append(p, v[p].kids))
        <5> SUFFICES ASSUME v[p].kids # 0
                     PROVE  Append(p, v[p].kids) \in DOMAIN v /\ ~IsOpen(ps, Append(p, v[p].kids))
          OBVIOUS
        <5>1. v[p].kids \in 1..v[p].kids /\ v[p].kids \in Nat \ {0}
          BY <2>2
        <5>2. Len(Append(p, v[p].kids)) = Len(p) + 1
          BY <1>1, <5>1 DEF Paths
        <5>3. QED
          BY <1>1, <2>3, <3>1, <5>1, <5>2 DEF IsOpen
      <4>3. LastOf(v, sp, p) = LastOf(v, span, p)
        BY <1>6, <4>2 DEF LastOf
      <4>4. n + d - Len(p) = n + 1
        <5> HIDE DEF n, d
        <5>1. QED
          BY <1>1, <2>6, <3>1
      <4>5. QED
        BY <2>6, <4>1, <4>3, <4>4
    <3>2. CASE Len(p) + 1 # d
      <4>1. PICK i \in 1..d : i = Len(p) + 2
        <5> HIDE DEF n, d
        <5>1. QED
          BY <1>1, <2>6, <3>2
      <4>2. ps[i] = Append(ps[i - 1], v[ps[i - 1]].kids) /\ ps[i] \in DOMAIN v /\ Len(ps[i]) = i - 1
            /\ IsOpen(ps, ps[i])
        <5>1. i # 1
          BY <2>6, <4>1
        <5>2. QED
          BY <1>1, <5>1 DEF Started
      <4>3. ps[i - 1] = p /\ i - 1 = Len(p) + 1
        BY <2>6, <4>1
      <4>4. ps[i] = Append(p, v[p].kids) /\ Len(ps[i]) = Len(p) + 1
        BY <4>2, <4>3
      <4>5. v[p].kids # 0
        <5>1. ps[i] \in Seq(Nat \ {0}) /\ ps[i][Len(p) + 1] = v[p].kids
          <6>1. p \in Seq(Nat \ {0}) /\ Nat \ {0} \subseteq Nat
            BY <1>1 DEF Paths
          <6>2. p \in Seq(Nat)
            BY <6>1
          <6>3. Append(p, v[p].kids)[Len(p) + 1] = v[p].kids
            BY <2>2, <6>2, AppendFacts
          <6>4. QED
            BY <1>1, <4>2, <4>4, <6>3 DEF Paths
        <5>2. Len(p) + 1 \in 1..Len(ps[i])
          BY <2>6, <4>4
        <5>3. ps[i][Len(p) + 1] \in Nat \ {0}
          BY <5>1, <5>2
        <5>4. QED
          BY <5>1, <5>3
      <4>6. LastOf(v, sp, p) = n + d - (Len(p) + 1)
        BY <1>6, <4>2, <4>4, <4>5 DEF LastOf
      <4>7. QED
        <5> HIDE DEF n, d
        <5>1. QED
          BY <1>1, <2>6, <4>6
    <3>3. QED
      BY <3>1, <3>2
  <2>8. u[sp[p].first] = t[span[p].first]
    <3>1. span[p].first \in 1..n /\ sp[p].first = span[p].first
      BY <1>2, <1>6
    <3>2. QED
      BY <1>3, <3>1 DEF Agree
  <2>9. u[sp[p].last] = Closer(p)
    <3>1. u[n + d - (Len(p) + 1) + 1] = Closer(ps[Len(p) + 1])
      BY <1>3, <2>6
    <3>2. QED
      BY <1>4, <1>8, <2>6, <3>1
  <2>10. /\ t[span[p].first] \in Openings
         /\ v[p].type = Compound(t[span[p].first]).type /\ v[p].atom = NoName
    BY <2>1 DEF OpenWritten
  <2>11. \/ u[sp[p].first] = BeginObj /\ u[sp[p].last] = EndObj
         \/ u[sp[p].first] = BeginArray /\ u[sp[p].last] = EndArray
    BY <2>8, <2>9, <2>10, TokenFacts DEF Compound
  <2>12. QED
    BY <2>5, <2>7, <2>8, <2>10, <2>11 DEF CompoundWritten, LastOf
<1>9. sp[<<>>] = [first |-> 1, last |-> Len(u)]
  <2>1. <<>> \in DOMAIN v /\ span[<<>>].first = 1 /\ Len(<<>>) = 0
    BY DEF Started
  <2>2. IsOpen(ps, <<>>)
    <3>1. ps[1] = <<>> /\ 1 \in 1..d
      BY <1>1 DEF Started
    <3>2. QED
      BY <1>1, <3>1
  <2>3. sp[<<>>] \in [first : 1..(n + d), last : 1..(n + d)]
    BY <1>5, <2>1
  <2>4. sp[<<>>].first = 1 /\ sp[<<>>].last = n + d - 0
    BY <1>6, <2>1, <2>2
  <2> HIDE DEF n, d
  <2>5. QED
    BY <1>1, <1>3, <2>3, <2>4
<1>10. DOMAIN u = 1..(n + d)
  BY <1>3
<1>11. Written(v, u, sp)
  BY <1>5, <1>7, <1>8, <1>9, <1>10 DEF Written, Started, PartWritten
<1>12. n <= n + d
  <2> HIDE DEF n, d
  <2>1. QED
    BY <1>1
<1>13. QED
  BY <1>3, <1>11, <1>12

\* u goes on from t up to an atom, the next element of the innermost part c
\* that is open, of name x where it is a member; e is where its comma would be.
Continues(v, t, span, c, e, u, x) ==
    /\ u \in Seq(Tokens) /\ Len(t) < Len(u) /\ Agree(t, u, Len(t))
    /\ e = (IF v[c].kids = 0 THEN 0 ELSE 1) + LastOf(v, span, c)
    /\ v[c].kids # 0 => u[e] = Comma
    /\ IF v[c].type = "obj" THEN x \in Names /\ u[e + 1] = x /\ u[e + 2] = Colon ELSE x = NoName
    /\ Len(u) = e + Lead(v[c]) + 1 /\ u[Len(u)] \in Atoms

\* With it the element is there.
LEMMA AtomFits ==
    ASSUME NEW v, NEW t, NEW span, NEW ps, Started(v, t, span, ps),
           NEW c \in DOMAIN v, Len(c) = Len(ps) - 1, IsOpen(ps, c), NEW e, NEW u, NEW x, Continues(v, t, span, c, e, u, x)
    PROVE  \E w, sp : Started(w, u, sp, ps) /\ Len(u) = LastOf(w, sp, c)
<1> DEFINE n == Len(t)
           m == Len(u)
           k == v[c].kids
           q == NewPath(v, c)
           tk == u[m]
           el == Named(Atom(tk), x)
           w == PushBack(v, c, el)
           sp == [p \in DOMAIN v \cup {q} |-> IF p = q THEN [first |-> m, last |-> m] ELSE span[p]]
<1>0. u \in Seq(Tokens) /\ n < m /\ Agree(t, u, n) /\ tk \in Atoms /\ x \in Names \cup {NoName}
  BY DEF Continues
<1>1. /\ n \in Nat /\ Len(ps) \in Nat \ {0}
      /\ \A p \in DOMAIN v : p \in Paths /\ Len(p) \in Nat /\ v[p] \in Parts /\ v[p].kids \in Nat
      /\ \A i \in 1..Len(ps) : IsOpen(ps, ps[i])
      /\ \A p : IsOpen(ps, p) /\ Len(p) \in Nat => Len(p) + 1 \in 1..Len(ps)
  BY StartedFacts
<1>2. /\ IsValue(v) /\ <<>> \in DOMAIN v /\ v[<<>>].name = NoName
      /\ span \in [DOMAIN v -> [first : 1..n, last : 1..n]]
      /\ c \in DOMAIN v /\ Len(c) = Len(ps) - 1 /\ IsOpen(ps, c)
  BY DEF Started
<1>3. c \in Paths /\ k \in Nat /\ m \in Nat /\ m >= n + 1
  BY <1>0, <1>1, <1>2
<1>4. tk \in Atoms /\ x \in Names \cup {NoName}
  BY <1>0
<1>5. Atom(tk) \in Parts /\ el \in Parts /\ el.name = x /\ el.type = AtomType(tk) /\ el.kids = 0
      /\ el.atom = tk
  <2>1. Atom(tk) \in Parts /\ Atom(tk).type = AtomType(tk) /\ Atom(tk).kids = 0 /\ Atom(tk).atom = tk
    BY <1>4, AtomTyped DEF Atom
  <2> HIDE DEF tk
  <2>2. QED
    BY <1>4, <2>1, NamedFacts
<1> HIDE DEF el
<1>6. /\ q \in Paths /\ Len(q) = Len(c) + 1 /\ DOMAIN w = DOMAIN v \cup {q} /\ IsValue(w)
      /\ w[q] = el /\ w[c] = MoreKids(v[c]) /\ w[c].kids = k + 1 /\ w[c].type = v[c].type
      /\ \A p \in DOMAIN v \ {c, q} : w[p] = v[p]
  <2>1. PICK r : r \in Parts /\ r = el
    BY <1>5
  <2>2. /\ NewPath(v, c) \in Paths /\ Len(NewPath(v, c)) = Len(c) + 1
        /\ DOMAIN PushBack(v, c, r) = DOMAIN v \cup {NewPath(v, c)}
        /\ IsValue(PushBack(v, c, r))
        /\ PushBack(v, c, r)[NewPath(v, c)] = r
        /\ PushBack(v, c, r)[c] = MoreKids(v[c])
        /\ PushBack(v, c, r)[c].kids = v[c].kids + 1
        /\ PushBack(v, c, r)[c].type = v[c].type
        /\ \A p \in DOMAIN v \ {c, NewPath(v, c)} : PushBack(v, c, r)[p] = v[p]
    <3>1. IsValue(v) /\ c \in DOMAIN v /\ r \in Parts
      BY <1>2, <2>1
    <3> HIDE DEF n, m, k, q, w, sp, tk
    <3>2. QED
      BY ONLY <3>1, PushBackFacts
  <2>3. QED
    BY <2>1, <2>2
<1>7. q = Append(c, k + 1) /\ q # <<>> /\ Front(q) = c /\ Last(q) = k + 1
  <2>1. c \in Seq(Nat \ {0}) /\ k + 1 \in Nat \ {0}
    BY <1>3 DEF Paths
  <2>2. q = Append(c, k + 1)
    BY DEF NewPath
  <2>3. QED
    BY <2>1, <2>2, AppendFacts
<1>8. q \notin DOMAIN v
  <2> SUFFICES ASSUME q \in DOMAIN v PROVE FALSE
    OBVIOUS
  <2>1. Last(q) <= v[Front(q)].kids
    BY <1>7 DEF Started
  <2>2. QED
    BY <1>3, <1>7, <2>1
<1>9. ~IsOpen(ps, q)
  <2>1. Len(q) = Len(ps)
    BY <1>1, <1>2, <1>6
  <2>2. QED
    BY <1>1, <2>1 DEF IsOpen
<1>10. /\ \A p \in DOMAIN v : sp[p] = span[p] /\ p \in DOMAIN w /\ p # q
       /\ sp[q] = [first |-> m, last |-> m]
  BY <1>6, <1>8
<1>11. \A p \in DOMAIN v : w[p].name = v[p].name /\ w[p].type = v[p].type /\ w[p].atom = v[p].atom
  <2>1. v[c] \in Parts
    BY <1>1, <1>2
  <2>2. w[c].name = v[c].name /\ w[c].type = v[c].type /\ w[c].atom = v[c].atom
    BY <1>6, <2>1, MoreKidsFacts
  <2>3. \A p \in DOMAIN v : p = c \/ w[p] = v[p]
    BY <1>6, <1>8
  <2>4. QED
    BY <2>2, <2>3
<1>12. sp \in [DOMAIN w -> [first : 1..m, last : 1..m]]
  <2>1. 1..n \subseteq 1..m /\ m \in 1..m
    BY <1>1, <1>3
  <2>2. \A p \in DOMAIN v : span[p] \in [first : 1..m, last : 1..m]
    BY <1>2, <2>1
  <2> HIDE DEF w, q, m
  <2>3. QED
    BY <1>6, <2>1, <2>2
<1> HIDE DEF w, sp, q
<1>13. \A r \in DOMAIN v : r \in DOMAIN w /\ w[r].name = v[r].name /\ sp[r].first = span[r].first
  BY <1>10, <1>11
<1>14. ASSUME NEW p \in DOMAIN v, KidsWritten(v, t, span, p)
       PROVE  \A i \in 1..v[p].kids : Append(p, i) \in DOMAIN v /\ sp[Append(p, i)].last = span[Append(p, i)].last
                                      /\ KidWritten(w, u, sp, p, i)
  <2>1. \A i \in 1..v[p].kids : Append(p, i) \in DOMAIN v
    BY <1>14 DEF KidsWritten, KidWritten
  <2>2. \A i \in 1..v[p].kids : sp[Append(p, i)].last = span[Append(p, i)].last
    BY <1>10, <2>1
  <2>3. \A i \in 1..(v[p].kids - 1) : i \in 1..v[p].kids
    BY <1>1
  <2>4. \A i \in 1..(v[p].kids - 1) : sp[Append(p, i)].last = span[Append(p, i)].last
    BY <2>2, <2>3
  <2>5. w[p].type = v[p].type
    BY <1>11
  <2> HIDE DEF n, m
  <2>6. Agree(t, u, n)
    BY <1>0
  <2>7. \A i \in 1..v[p].kids : KidWritten(w, u, sp, p, i)
    BY <1>1, <1>2, <1>13, <1>14, <2>4, <2>5, <2>6, KidsKept
  <2>8. QED
    BY <2>1, <2>2, <2>7
<1>15. KidWritten(w, u, sp, c, k + 1)
  <2>1. q \in DOMAIN w /\ w[q].name = x /\ sp[q].first = m
    BY <1>5, <1>6, <1>10
  <2>2. Lead(w[c]) = Lead(v[c]) /\ Lead(v[c]) \in {0, 2} /\ (v[c].type = "obj" => Lead(v[c]) = 2)
    BY <1>6 DEF Lead
  <2>3. e \in Nat /\ (k = 0 => e = span[c].first) /\ (k # 0 => e = span[Append(c, k)].last + 1)
    <3>1. CASE k = 0
      <4>1. span[c].first \in 1..n
        BY <1>2
      <4>2. QED
        BY <3>1, <4>1 DEF LastOf, Continues
    <3>2. CASE k # 0
      <4>1. OpenWritten(v, t, span, c)
        BY <1>2 DEF Started
      <4>2. k \in 1..v[c].kids
        BY <1>3, <3>2
      <4>3. PICK r \in DOMAIN v : r = Append(c, k)
        BY <4>1, <4>2 DEF OpenWritten, KidsWritten, KidWritten
      <4>4. span[r].last \in 1..n
        BY <1>2
      <4>5. QED
        BY <3>2, <4>3, <4>4 DEF LastOf, Continues
    <3>3. QED
      BY <3>1, <3>2
  <2>4. sp[c].first = span[c].first /\ (k # 0 => sp[Append(c, k)].last = span[Append(c, k)].last)
    <3>1. OpenWritten(v, t, span, c)
      BY <1>2 DEF Started
    <3>2. k # 0 => k \in 1..v[c].kids
      BY <1>3
    <3>3. k # 0 => Append(c, k) \in DOMAIN v
      BY <3>1, <3>2 DEF OpenWritten, KidsWritten, KidWritten
    <3>4. QED
      BY <1>2, <1>10, <3>3
  <2>5. Start(w, sp, c, q) = e + 1
    <3>1. m = e + Lead(v[c]) + 1
      BY DEF Continues
    <3> HIDE DEF m
    <3>2. m - Lead(v[c]) = e + 1
      BY <2>2, <2>3, <3>1
    <3>3. QED
      BY <2>1, <2>2, <3>2 DEF Start
  <2>6. e + 1 = (IF k + 1 = 1 THEN sp[c].first ELSE sp[Append(c, k + 1 - 1)].last + 1) + 1
    <3>1. k + 1 - 1 = k /\ (k + 1 = 1 <=> k = 0)
      BY <1>3
    <3>2. QED
      BY <2>3, <2>4, <3>1
  <2>7. k + 1 # 1 => u[e + 1 - 1] = Comma
    <3>1. e + 1 - 1 = e /\ (k + 1 # 1 => k # 0)
      BY <1>3, <2>3
    <3>2. k # 0 => u[e] = Comma
      BY DEF Continues
    <3>3. QED
      BY <3>1, <3>2
  <2>8. IF w[c].type = "obj"
          THEN u[e + 1] = w[q].name /\ w[q].name \in Names /\ u[e + 1 + 1] = Colon
          ELSE w[q].name = NoName
    <3>1. e + 1 + 1 = e + 2
      BY <2>3
    <3>2. IF v[c].type = "obj" THEN x \in Names /\ u[e + 1] = x /\ u[e + 2] = Colon ELSE x = NoName
      BY DEF Continues
    <3>3. QED
      BY <1>6, <2>1, <3>1, <3>2
  <2>9. QED
    <3>1. PICK i, start : i = k + 1 /\ start = e + 1
      OBVIOUS
    <3>2. Append(c, i) = q /\ Start(w, sp, c, Append(c, i)) = start
      BY <1>7, <2>5, <3>1
    <3>3. /\ start = (IF i = 1 THEN sp[c].first ELSE sp[Append(c, i - 1)].last + 1) + 1
          /\ i # 1 => u[start - 1] = Comma
          /\ IF w[c].type = "obj"
               THEN u[start] = w[q].name /\ w[q].name \in Names /\ u[start + 1] = Colon
               ELSE w[q].name = NoName
      <4>1. i - 1 = k + 1 - 1 /\ (i = 1 <=> k + 1 = 1) /\ start - 1 = e + 1 - 1 /\ start + 1 = e + 1 + 1
        BY <1>3, <2>3, <3>1
      <4>2. start = (IF i = 1 THEN sp[c].first ELSE sp[Append(c, i - 1)].last + 1) + 1
        BY <2>6, <3>1, <4>1
      <4>3. i # 1 => u[start - 1] = Comma
        BY <2>7, <3>1, <4>1
      <4>4. IF w[c].type = "obj"
              THEN u[start] = w[q].name /\ w[q].name \in Names /\ u[start + 1] = Colon
              ELSE w[q].name = NoName
        BY <2>8, <3>1
      <4>5. QED
        BY <4>2, <4>3, <4>4
    <3>4. KidWritten(w, u, sp, c, i)
      BY <2>1, <3>2, <3>3 DEF KidWritten
    <3>5. QED
      BY <3>1, <3>4
<1>16. ASSUME NEW p \in DOMAIN v, IsOpen(ps, p) PROVE OpenWritten(w, u, sp, p)
  <2>1. OpenWritten(v, t, span, p)
    BY <1>16 DEF Started
  <2>2. \A i \in 1..v[p].kids : KidWritten(w, u, sp, p, i)
    BY <1>14, <2>1 DEF OpenWritten
  <2>3. KidsWritten(w, u, sp, p)
    <3>1. CASE p = c
      <4>1. \A i \in 1..w[c].kids : i \in 1..v[c].kids \/ i = k + 1
        BY <1>3, <1>6
      <4>2. QED
        BY <1>15, <2>2, <3>1, <4>1 DEF KidsWritten
    <3>2. CASE p # c
      <4>1. w[p] = v[p]
        BY <1>6, <1>8, <3>2
      <4>2. QED
        BY <2>2, <4>1 DEF KidsWritten
    <3>3. QED
      BY <3>1, <3>2
  <2>4. u[sp[p].first] = t[span[p].first]
    <3>1. span[p].first \in 1..n /\ sp[p] = span[p]
      BY <1>2, <1>10
    <3>2. QED
      BY <1>0, <3>1 DEF Agree
  <2>5. QED
    BY <1>11, <2>1, <2>3, <2>4 DEF OpenWritten
<1>17. ASSUME NEW p \in DOMAIN v, ~IsOpen(ps, p) PROVE PartWritten(w, u, sp, p)
  <2>1. PartWritten(v, t, span, p)
    BY <1>17 DEF Started
  <2>2. p # c
    BY <1>2, <1>17
  <2>3. w[p] = v[p] /\ sp[p] = span[p]
    BY <1>6, <1>8, <1>10, <2>2
  <2>4. KidsWritten(v, t, span, p)
    <3>1. AtomWritten(v, t, span, p) => KidsWritten(v, t, span, p)
      BY DEF AtomWritten, KidsWritten
    <3>2. QED
      BY <2>1, <3>1 DEF PartWritten, CompoundWritten, KidsWritten
  <2>5. \A i \in 1..v[p].kids : sp[Append(p, i)].last = span[Append(p, i)].last
    BY <1>14, <2>4
  <2>6. w[p].type = v[p].type /\ w[p].atom = v[p].atom /\ w[p].kids = v[p].kids /\ sp[p].last = span[p].last
    BY <2>3
  <2> HIDE DEF n, m
  <2>7. Agree(t, u, n)
    BY <1>0
  <2>8. QED
    BY <1>1, <1>2, <1>13, <2>1, <2>5, <2>6, <2>7, PartKept
<1>18. PartWritten(w, u, sp, q)
  BY <1>4, <1>5, <1>6, <1>10 DEF PartWritten, AtomWritten
<1>19. ASSUME NEW p \in DOMAIN w \ {<<>>}
       PROVE  Front(p) \in DOMAIN w /\ Last(p) <= w[Front(p)].kids
  <2>1. CASE p = q
    BY <1>2, <1>3, <1>6, <1>7, <2>1
  <2>2. CASE p # q
    <3>1. p \in DOMAIN v \ {<<>>}
      BY <1>6, <2>2
    <3>2. Front(p) \in DOMAIN v /\ Last(p) <= v[Front(p)].kids
      BY <3>1 DEF Started
    <3>3. Last(p) \in Nat
      <4>1. p \in Seq(Nat \ {0}) /\ p # <<>>
        BY <1>1, <3>1 DEF Paths
      <4>2. Last(p) \in Nat \ {0}
        <5> HIDE DEF n, m, k, tk
        <5>1. QED
          BY <4>1, FrontFacts
      <4>3. QED
        BY <4>2
    <3>4. Front(p) = c => Last(p) <= w[Front(p)].kids
      BY <1>3, <1>6, <3>2, <3>3
    <3>5. Front(p) # c => w[Front(p)] = v[Front(p)]
      BY <1>6, <1>8, <3>2
    <3>6. QED
      BY <1>6, <3>2, <3>4, <3>5
  <2>3. QED
    BY <2>1, <2>2
<1>20. ASSUME NEW i \in 1..Len(ps)
       PROVE  /\ ps[i] \in DOMAIN w /\ Len(ps[i]) = i - 1
              /\ i # 1 => ps[i] = Append(ps[i - 1], w[ps[i - 1]].kids)
  <2>1. /\ ps[i] \in DOMAIN v /\ Len(ps[i]) = i - 1
        /\ i # 1 => ps[i] = Append(ps[i - 1], v[ps[i - 1]].kids)
    BY DEF Started
  <2>2. i # 1 => i - 1 \in 1..Len(ps) /\ i - 2 # Len(ps) - 1
    BY <1>1
  <2>3. i # 1 => ps[i - 1] \in DOMAIN v /\ Len(ps[i - 1]) = i - 2
    <3>1. i # 1 => ps[i - 1] \in DOMAIN v /\ Len(ps[i - 1]) = i - 1 - 1
      BY <2>2 DEF Started
    <3>2. i - 1 - 1 = i - 2
      BY <1>1
    <3>3. QED
      BY <3>1, <3>2
  <2>4. i # 1 => ps[i - 1] # c
    BY <1>2, <2>2, <2>3
  <2>5. i # 1 => w[ps[i - 1]] = v[ps[i - 1]]
    BY <1>6, <1>8, <2>3, <2>4
  <2>6. QED
    BY <1>6, <2>1, <2>5
<1>21. /\ <<>> \in DOMAIN w /\ w[<<>>].name = NoName /\ sp[<<>>].first = 1
       /\ ps \in Seq(Paths) /\ ps # <<>> /\ ps[1] = <<>>
  BY <1>2, <1>10, <1>11 DEF Started
<1>22. ASSUME NEW p \in DOMAIN w
       PROVE  IF IsOpen(ps, p) THEN OpenWritten(w, u, sp, p) ELSE PartWritten(w, u, sp, p)
  BY <1>6, <1>9, <1>16, <1>17, <1>18
<1>23. Started(w, u, sp, ps)
  BY <1>0, <1>6, <1>12, <1>19, <1>20, <1>21, <1>22 DEF Started
<1>24. m = LastOf(w, sp, c)
  <2>1. w[c].kids # 0 /\ Append(c, w[c].kids) = q
    BY <1>3, <1>6, <1>7
  <2>2. QED
    BY <1>10, <2>1 DEF LastOf
<1>25. QED
  BY <1>23, <1>24

\* What the reader has built is the beginning of a text.
LEMMA ReaderStarted ==
    ASSUME PointerInv, NEW span, Sound(span), open # <<>>
    PROVE  /\ Started(value, text, span, Pointers) /\ Pointers[Len(Pointers)] = cur
           /\ Edge(span) = (IF value[cur].kids = 0 THEN 0 ELSE 1) + LastOf(value, span, cur)
           /\ LastOf(value, span, cur) \in Nat
<1>1. /\ cur \in DOMAIN value /\ Len(open) \in Nat \ {0} /\ Len(stack) = Len(open) - 1
      /\ Pointers \in Seq(Paths) /\ Len(Pointers) = Len(open) /\ Pointers[Len(open)] = cur
      /\ \A i \in 1..Len(stack) : Pointers[i] = stack[i]
  BY CurFacts
<1>2. \A i \in 1..Len(open) :
        /\ Pointers[i] \in DOMAIN value /\ Len(Pointers[i]) = i - 1
        /\ i # 1 => Pointers[i] = Append(Pointers[i - 1], value[Pointers[i - 1]].kids)
  BY DEF PointerInv
<1>3. Pointers # <<>> /\ Pointers[1] = <<>>
  <2>1. 1 \in 1..Len(open) /\ 1 - 1 = 0
    BY <1>1
  <2>2. Len(Pointers[1]) = 0 /\ Pointers[1] \in Paths
    BY <1>1, <1>2, <2>1
  <2>3. QED
    BY <1>1, <2>2 DEF Paths
<1>4. ASSUME NEW p \in DOMAIN value PROVE p \in OpenParts <=> IsOpen(Pointers, p)
  <2>1. OpenParts = {stack[i] : i \in DOMAIN stack} \cup {cur} /\ DOMAIN stack = 1..Len(stack)
    BY DEF OpenParts, PointerInv, ReaderTypes
  <2>2. ASSUME p \in OpenParts PROVE IsOpen(Pointers, p)
    <3>1. PICK i \in 1..Len(open) : p = Pointers[i]
      <4>1. CASE p = cur
        <5>1. Len(open) \in 1..Len(open)
          BY <1>1
        <5>2. QED
          BY <1>1, <4>1, <5>1
      <4>2. CASE p # cur
        <5>1. PICK i \in 1..Len(stack) : p = stack[i]
          BY <2>1, <2>2, <4>2
        <5>2. i \in 1..Len(open)
          BY <1>1
        <5>3. QED
          BY <1>1, <5>1, <5>2
      <4>3. QED
        BY <4>1, <4>2
    <3>2. Len(p) = i - 1
      BY <1>2, <3>1
    <3>3. i - 1 < Len(open) /\ i - 1 + 1 = i
      BY <1>1
    <3>4. QED
      BY <1>1, <3>1, <3>2, <3>3 DEF IsOpen
  <2>3. ASSUME IsOpen(Pointers, p) PROVE p \in OpenParts
    <3>1. Len(p) \in Nat
      BY DEF PointerInv, ReaderTypes, IsValue, Paths
    <3>2. PICK i \in 1..Len(open) : p = Pointers[i]
      <4>1. Len(p) + 1 \in 1..Len(open)
        BY <1>1, <2>3, <3>1 DEF IsOpen
      <4>2. QED
        BY <2>3, <4>1 DEF IsOpen
    <3>3. CASE i = Len(open)
      BY <1>1, <2>1, <3>2, <3>3
    <3>4. CASE i # Len(open)
      <4>1. i \in 1..Len(stack)
        BY <1>1, <3>4
      <4>2. QED
        BY <1>1, <2>1, <3>2, <4>1
    <3>5. QED
      BY <3>3, <3>4
  <2>4. QED
    BY <2>2, <2>3
<1>5. IsValue(value) /\ text \in Seq(Tokens) /\ <<>> \in DOMAIN value
  BY DEF PointerInv, ReaderTypes
<1>6. \A p \in DOMAIN value :
        IF IsOpen(Pointers, p) THEN OpenWritten(value, text, span, p) ELSE PartWritten(value, text, span, p)
  BY <1>4 DEF Sound
<1>7. Started(value, text, span, Pointers)
  BY <1>1, <1>2, <1>3, <1>5, <1>6 DEF Started, Sound
<1>8. value[cur].kids \in Nat /\ Edge(span) \in Nat \ {0}
  BY EdgeFacts
<1>9. LastOf(value, span, cur) \in Nat
  <2>1. \A p \in DOMAIN value : span[p].first \in Nat /\ span[p].last \in Nat
    <3>1. Len(text) \in Nat /\ span \in [DOMAIN value -> [first : 1..Len(text), last : 1..Len(text)]]
      BY <1>5 DEF Sound
    <3>2. \A p \in DOMAIN value : span[p].first \in 1..Len(text) /\ span[p].last \in 1..Len(text)
      BY <3>1
    <3>3. QED
      BY <3>1, <3>2
  <2>2. value[cur].kids # 0 => Append(cur, value[cur].kids) \in DOMAIN value
    <3>1. value[cur].kids # 0 => value[cur].kids \in 1..value[cur].kids
      BY <1>8
    <3>2. QED
      BY <1>1, <3>1, SoundFacts
  <2>3. QED
    BY <1>1, <2>1, <2>2 DEF LastOf
<1>10. Edge(span) = (IF value[cur].kids = 0 THEN 0 ELSE 1) + LastOf(value, span, cur)
  BY <1>9 DEF Edge, LastOf
<1>11. QED
  BY <1>1, <1>7, <1>9, <1>10

\* A value, or what is left of a member, and then the brackets that are open.
LEMMA FillsAndCloses ==
    ASSUME PointerInv, NEW span, Sound(span), Reached(span), open # <<>>,
           at \in {"comma", "colon", "value"}
    PROVE  \E w, u, sp : u \in Seq(Tokens) /\ Written(w, u, sp) /\ Begins(u)
<1> DEFINE n == Len(text)
           c == cur
           e == Edge(span)
           last == LastOf(value, span, cur)
<1>1. /\ Started(value, text, span, Pointers) /\ Pointers[Len(Pointers)] = cur
      /\ e = (IF value[cur].kids = 0 THEN 0 ELSE 1) + last /\ last \in Nat
  BY ReaderStarted
<1>2. e \in Nat \ {0} /\ value[cur].kids \in Nat
  BY EdgeFacts
<1>3. text \in Seq(Tokens) /\ n \in Nat
  BY DEF PointerInv, ReaderTypes
<1>4. "null" \in Atoms /\ "null" \in Tokens /\ Colon \in Tokens /\ Names \subseteq Tokens
  BY TokenFacts DEF Atoms, Literals, Tokens
<1>5. value[cur].type = Compound(Last(open)).type /\ cur \in DOMAIN value
  BY CurFacts
<1>6. \/ value[cur].type = "obj" /\ Lead(value[cur]) = 2
      \/ value[cur].type = "array" /\ Lead(value[cur]) = 0
  BY <1>5 DEF Compound, Lead
<1>7. InObject => value[cur].type = "obj"
  BY <1>5 DEF InObject, Compound
<1> HIDE DEF e, n, last
<1>8. \E u, x : Continues(value, text, span, cur, e, u, x)
  <2> SUFFICES \E u \in Seq(Tokens), x \in Names \cup {NoName} :
        /\ n < Len(u) /\ Agree(text, u, n) /\ Len(u) = e + Lead(value[cur]) + 1
        /\ u[Len(u)] \in Atoms /\ (value[cur].kids # 0 => u[e] = Comma)
        /\ IF value[cur].type = "obj" THEN x \in Names /\ u[e + 1] = x /\ u[e + 2] = Colon ELSE x = NoName
    BY <1>1 DEF Continues, n, last
  <2>0. \A s \in Seq(Tokens) : Len(text \o s) = n + Len(s) /\ text \o s \in Seq(Tokens)
                               /\ (\A j \in 1..n : (text \o s)[j] = text[j])
                               /\ (\A j \in 1..Len(s) : (text \o s)[n + j] = s[j])
    BY <1>3 DEF n
  <2>1. CASE at = "comma" /\ value[cur].type = "array"
    <3>1. n = e /\ text[n] = Comma
      BY <2>1 DEF Reached, n, e
    <3>2. PICK s : s = <<"null">>
      OBVIOUS
    <3>3. s \in Seq(Tokens) /\ Len(s) = 1 /\ s[1] = "null"
      BY <1>4, <3>2
    <3>4. PICK u \in Seq(Tokens) : u = text \o s
      BY <2>0, <3>3
    <3>5. /\ Len(u) = n + 1 /\ Agree(text, u, n) /\ u[n + 1] = "null" /\ u[n] = text[n]
      <4>1. n \in 1..n /\ 1 \in 1..Len(s)
        BY <1>2, <3>1, <3>3
      <4>2. QED
        BY <2>0, <3>3, <3>4, <4>1 DEF Agree
    <3>6. QED
      BY <1>2, <1>4, <1>6, <2>1, <3>1, <3>5
  <2>2. CASE at = "comma" /\ value[cur].type = "obj"
    <3>1. n = e /\ text[n] = Comma /\ value[cur].kids # 0
      BY <2>2 DEF Reached, n, e
    <3>2. PICK x \in Names : TRUE
      <4>1. OpenWritten(value, text, span, cur)
        BY <1>5 DEF Sound, OpenParts
      <4>2. value[cur].kids \in 1..value[cur].kids
        BY <1>2, <3>1
      <4>3. value[Append(cur, value[cur].kids)].name \in Names
        BY <2>2, <4>1, <4>2 DEF OpenWritten, KidsWritten, KidWritten
      <4>4. QED
        BY <4>3
    <3>3. PICK s : s = <<x, Colon, "null">>
      OBVIOUS
    <3>4. s \in Seq(Tokens) /\ Len(s) = 3 /\ s[1] = x /\ s[2] = Colon /\ s[3] = "null"
      BY <1>4, <3>3
    <3>5. PICK u \in Seq(Tokens) : u = text \o s
      BY <2>0, <3>4
    <3>6. /\ Len(u) = n + 3 /\ Agree(text, u, n) /\ u[n] = text[n]
          /\ u[n + 1] = x /\ u[n + 2] = Colon /\ u[n + 3] = "null"
      <4>1. n \in 1..n /\ 1 \in 1..Len(s) /\ 2 \in 1..Len(s) /\ 3 \in 1..Len(s)
        BY <1>2, <3>1, <3>4
      <4>2. QED
        BY <2>0, <3>4, <3>5, <4>1 DEF Agree
    <3>7. e + Lead(value[cur]) + 1 = n + 3 /\ n < n + 3
      BY <1>3, <1>6, <2>2, <3>1
    <3>8. QED
      BY <1>4, <2>2, <3>1, <3>6, <3>7
  <2>3. CASE at = "colon"
    <3>1. /\ value[cur].type = "obj" /\ name \in Names /\ n = e + 1 /\ text[n] = name
          /\ value[cur].kids # 0 => text[n - 1] = Comma
      BY <1>7, <2>3 DEF Reached, n, e
    <3>2. PICK s : s = <<Colon, "null">>
      OBVIOUS
    <3>3. s \in Seq(Tokens) /\ Len(s) = 2 /\ s[1] = Colon /\ s[2] = "null"
      BY <1>4, <3>2
    <3>4. PICK u \in Seq(Tokens) : u = text \o s
      BY <2>0, <3>3
    <3>5. /\ Len(u) = n + 2 /\ Agree(text, u, n) /\ u[n] = text[n] /\ u[e] = text[e]
          /\ u[n + 1] = Colon /\ u[n + 2] = "null"
      <4>1. n \in 1..n /\ e \in 1..n /\ 1 \in 1..Len(s) /\ 2 \in 1..Len(s)
        BY <1>2, <3>1, <3>3
      <4>2. QED
        BY <2>0, <3>3, <3>4, <4>1 DEF Agree
    <3>6. n - 1 = e /\ n + 1 = e + 2 /\ e + Lead(value[cur]) + 1 = n + 2 /\ n < n + 2
      BY <1>2, <1>3, <1>6, <3>1
    <3>7. u[e + 1] = name /\ u[e + 2] = Colon /\ (value[cur].kids # 0 => u[e] = Comma)
      BY <3>1, <3>5, <3>6
    <3>8. QED
      BY <1>4, <3>1, <3>5, <3>6, <3>7
  <2>4. CASE at = "value"
    <3>1. /\ value[cur].type = "obj" /\ name \in Names /\ n = e + 2
          /\ text[n - 1] = name /\ text[n] = Colon
          /\ value[cur].kids # 0 => text[n - 2] = Comma
      BY <1>7, <2>4 DEF Reached, n, e
    <3>2. PICK s : s = <<"null">>
      OBVIOUS
    <3>3. s \in Seq(Tokens) /\ Len(s) = 1 /\ s[1] = "null"
      BY <1>4, <3>2
    <3>4. PICK u \in Seq(Tokens) : u = text \o s
      BY <2>0, <3>3
    <3>5. /\ Len(u) = n + 1 /\ Agree(text, u, n) /\ u[n] = text[n] /\ u[e] = text[e] /\ u[e + 1] = text[e + 1]
          /\ u[n + 1] = "null"
      <4>1. n \in 1..n /\ e \in 1..n /\ e + 1 \in 1..n /\ 1 \in 1..Len(s)
        BY <1>2, <3>1, <3>3
      <4>2. QED
        BY <2>0, <3>3, <3>4, <4>1 DEF Agree
    <3>6. n - 2 = e /\ n - 1 = e + 1 /\ n = e + 2 /\ e + Lead(value[cur]) + 1 = n + 1 /\ n < n + 1
      BY <1>2, <1>3, <1>6, <3>1
    <3>7. u[e + 1] = name /\ u[e + 2] = Colon /\ (value[cur].kids # 0 => u[e] = Comma)
      BY <3>1, <3>5, <3>6
    <3>8. QED
      BY <1>4, <3>1, <3>5, <3>6, <3>7
  <2>5. QED
    BY <1>6, <2>1, <2>2, <2>3, <2>4
<1>9. PICK u, x : Continues(value, text, span, cur, e, u, x)
  BY <1>8
<1>10. PICK w, sp : Started(w, u, sp, Pointers) /\ Len(u) = LastOf(w, sp, cur)
  <2>1. cur \in DOMAIN value /\ Len(cur) = Len(Pointers) - 1 /\ IsOpen(Pointers, cur)
    <3>1. Len(Pointers) \in 1..Len(Pointers) /\ IsOpen(Pointers, Pointers[Len(Pointers)])
      BY <1>1, StartedFacts
    <3>2. QED
      BY <1>1, <3>1 DEF Started
  <2>2. QED
    BY <1>1, <1>9, <2>1, AtomFits
<1>11. PICK z, sq : z \in Seq(Tokens) /\ Written(w, z, sq) /\ Len(u) <= Len(z) /\ Agree(u, z, Len(u))
  BY <1>1, <1>10, AllClose
<1>12. Begins(z)
  <2>0. u \in Seq(Tokens) /\ n < Len(u) /\ Agree(text, u, n)
    BY <1>9 DEF Continues, n
  <2>1. Len(u) \in Nat /\ Len(z) \in Nat
    BY <1>11, <2>0
  <2>2. n <= Len(z) /\ \A j \in 1..n : j \in 1..Len(u)
    BY <1>3, <1>11, <2>0, <2>1
  <2>3. \A j \in 1..n : text[j] = z[j]
    BY <1>11, <2>0, <2>2 DEF Agree
  <2>4. QED
    BY <2>2, <2>3 DEF Begins, n
<1>13. QED
  BY <1>11, <1>12

\* What has not been refused can still become a value's text.
LEMMA CanBecomeText ==
    ASSUME PointerInv, SoundInv, at # "thrown"
    PROVE  \E w, u, sp : u \in Seq(Tokens) /\ Written(w, u, sp) /\ Begins(u)
<1>0. text \in Seq(Tokens)
  BY DEF PointerInv, ReaderTypes
<1>1. CASE text = <<>> /\ at = "value" /\ open = <<>>
  <2> DEFINE u == <<"null">>
             sp == [p \in {<<>>} |-> [first |-> 1, last |-> 1]]
  <2>1. "null" \in Atoms /\ "null" \in Tokens
    BY DEF Atoms, Literals, Tokens
  <2>2. u \in Seq(Tokens) /\ Len(u) = 1 /\ u[1] = "null" /\ DOMAIN u = {1}
    BY <2>1
  <2>3. /\ DOMAIN Null = {<<>>} /\ Null[<<>>] = Atom("null") /\ Atom("null") \in Parts
        /\ Atom("null").type = AtomType("null") /\ Atom("null").atom = "null" /\ Atom("null").kids = 0
        /\ Atom("null").name = NoName
    BY <2>1, AtomTyped DEF Null, Root, Atom
  <2>4. IsValue(Null)
    <3>1. <<>> \in Paths
      BY EmptyPath
    <3>2. Null = [p \in {<<>>} |-> Atom("null")]
      BY DEF Null, Root
    <3>3. QED
      BY <2>3, <3>1, <3>2 DEF IsValue
  <2>5. AtomWritten(Null, u, sp, <<>>)
    BY <2>1, <2>2, <2>3 DEF AtomWritten
  <2>6. sp \in [DOMAIN Null -> [first : DOMAIN u, last : DOMAIN u]] /\ sp[<<>>] = [first |-> 1, last |-> Len(u)]
    BY <2>2, <2>3
  <2> HIDE DEF sp, u
  <2>7. Written(Null, u, sp)
    BY <2>3, <2>4, <2>5, <2>6 DEF Written
  <2>8. Begins(u)
    BY <1>1, <2>2 DEF Begins
  <2>9. QED
    BY <2>2, <2>7, <2>8
<1>2. ASSUME NEW span, Sound(span), Reached(span)
      PROVE  \E w, u, sp : u \in Seq(Tokens) /\ Written(w, u, sp) /\ Begins(u)
  <2>1. CASE at = "end"
    <3>1. PICK sp : Written(value, text, sp)
      BY <2>1, SoundEnds
    <3>2. Begins(text)
      BY <1>0 DEF Begins
    <3>3. QED
      BY <1>0, <3>1, <3>2
  <2>2. CASE at \in {"first", "next"}
    <3>1. open # <<>> /\ Len(text) = LastOf(value, span, cur)
      <4>1. open # <<>>
        BY <1>2, <2>2 DEF Reached
      <4>2. Edge(span) = (IF value[cur].kids = 0 THEN 0 ELSE 1) + LastOf(value, span, cur)
            /\ LastOf(value, span, cur) \in Nat
        BY <1>2, <4>1, ReaderStarted
      <4>3. \/ value[cur].kids = 0 /\ Len(text) = Edge(span)
            \/ value[cur].kids # 0 /\ Len(text) = Edge(span) - 1
        BY <1>2, <2>2 DEF Reached
      <4>4. QED
        BY <4>1, <4>2, <4>3
    <3>2. Started(value, text, span, Pointers) /\ Pointers[Len(Pointers)] = cur
      BY <1>2, <3>1, ReaderStarted
    <3>3. PICK u, sp : u \in Seq(Tokens) /\ Written(value, u, sp)
                       /\ Len(text) <= Len(u) /\ Agree(text, u, Len(text))
      BY <3>1, <3>2, AllClose
    <3>4. Begins(u)
      BY <3>3 DEF Begins, Agree
    <3>5. QED
      BY <3>3, <3>4
  <2>3. CASE at \in {"comma", "colon", "value"}
    <3>1. open # <<>>
      BY <1>2, <2>3 DEF Reached, InObject
    <3>2. QED
      BY <1>2, <2>3, <3>1, FillsAndCloses
  <2>4. QED
    BY <2>1, <2>2, <2>3 DEF PointerInv, ReaderTypes
<1>3. QED
  BY <1>1, <1>2 DEF SoundInv

\* A part stands behind those around it, so a value has no more depths than
\* its text has tokens.
LEMMA DepthBound ==
    ASSUME NEW v, NEW t, NEW span, t \in Seq(Tokens), Written(v, t, span)
    PROVE  \A p \in DOMAIN v : Len(p) < span[p].first
<1> DEFINE Weight(x) == 2 * Mark(span, x) + (IF x[2] = "last" THEN 1 ELSE 0)
           Good(x) == Len(x[1]) < Mark(span, x)
           Bad == {w \in Nat : \E x \in Marks(v) : w = Weight(x) /\ ~Good(x)}
<1>0. /\ \A p \in DOMAIN v : /\ p \in Paths /\ v[p] \in Parts /\ v[p].kids \in Nat /\ Len(p) \in Nat
                             /\ span[p].first \in Nat /\ span[p].last \in Nat
      /\ <<>> \in DOMAIN v /\ span[<<>>].first = 1
  <2>1. /\ \A p \in DOMAIN v : p \in Paths /\ v[p] \in Parts
        /\ \A p \in DOMAIN v : span[p].first \in 1..Len(t) /\ span[p].last \in 1..Len(t)
        /\ Len(t) \in Nat /\ <<>> \in DOMAIN v /\ span[<<>>].first = 1
    BY WrittenShape
  <2>2. QED
    BY <2>1 DEF Paths, Parts
<1>1. \A x \in Marks(v) : /\ x[1] \in DOMAIN v /\ x[2] \in {"first", "last"} /\ x = <<x[1], x[2]>>
                          /\ Mark(span, x) \in Nat /\ Weight(x) \in Nat
  BY <1>0 DEF Marks, Mark
<1> SUFFICES ASSUME NEW bad \in DOMAIN v, ~(Len(bad) < span[bad].first) PROVE FALSE
  OBVIOUS
<1>2. PICK w \in Bad : \A m \in Bad : w <= m
  <2>1. PICK y : y = <<bad, "first">>
    OBVIOUS
  <2>2. y \in Marks(v) /\ ~Good(y)
    BY <2>1 DEF Marks, Mark
  <2>3. Weight(y) \in Bad
    BY <1>1, <2>2
  <2> HIDE DEF Bad
  <2>4. Bad \in SUBSET Nat
    BY DEF Bad
  <2>5. QED
    BY <2>3, <2>4, LeastNumber
<1>3. PICK x \in Marks(v) : w = Weight(x) /\ ~Good(x)
  BY <1>2
<1>4. x # Origin
  BY <1>0, <1>3 DEF Origin, Mark
<1>5. PICK b : b = Behind(v, x)
  OBVIOUS
<1>6. /\ b \in Marks(v) /\ Distance(v, x) \in Nat /\ Mark(span, x) = Mark(span, b) + Distance(v, x)
      /\ Distance(v, x) = 0 => x[2] = "last" /\ b[2] = "first"
  BY <1>4, <1>5, MarkBehind
<1>7. Weight(b) < Weight(x)
  <2>1. PICK mb \in Nat, d \in Nat : mb = Mark(span, b) /\ d = Distance(v, x)
    BY <1>1, <1>6
  <2>2. Mark(span, x) = mb + d
    BY <1>6, <2>1
  <2>3. CASE d = 0
    <3>1. x[2] = "last" /\ b[2] = "first"
      BY <1>6, <2>1, <2>3
    <3>2. QED
      BY <2>1, <2>2, <2>3, <3>1
  <2>4. CASE d # 0
    <3>1. 2 * mb + 1 < 2 * (mb + d)
      BY <2>4
    <3>2. Weight(b) = 2 * mb \/ Weight(b) = 2 * mb + 1
      BY <2>1
    <3>3. Weight(x) = 2 * (mb + d) \/ Weight(x) = 2 * (mb + d) + 1
      BY <2>2
    <3> HIDE DEF Weight
    <3>4. QED
      BY <3>1, <3>2, <3>3
  <2>5. QED
    BY <2>3, <2>4
<1>8. Good(b)
  <2>1. Weight(b) \in Nat /\ ~(Weight(x) <= Weight(b))
    BY <1>1, <1>3, <1>6, <1>7
  <2>2. Weight(b) \notin Bad
    BY <1>2, <1>3, <2>1
  <2> HIDE DEF Good
  <2>3. QED
    BY <1>6, <2>1, <2>2
<1>9. Len(x[1]) <= Len(b[1]) + Distance(v, x)
  <2>1. PICK p \in DOMAIN v : p = x[1]
    BY <1>1
  <2>2. CASE x[2] = "first"
    <3>1. p # <<>>
      BY <1>1, <1>4, <2>1, <2>2 DEF Origin
    <3>2. /\ Front(p) \in DOMAIN v /\ Len(Front(p)) = Len(p) - 1 /\ Last(p) \in Nat \ {0}
          /\ p \in Seq(Nat \ {0}) /\ Front(p) \in Seq(Nat \ {0})
      BY <1>0, <3>1, FrontFacts, WrittenShape DEF Paths
    <3>3. Lead(v[Front(p)]) \in Nat
      BY DEF Lead
    <3>4. CASE Last(p) = 1
      <4>1. b[1] = Front(p) /\ Distance(v, x) = Lead(v[Front(p)]) + 1
        BY <1>5, <2>1, <2>2, <3>4 DEF Behind, Distance
      <4>2. QED
        BY <1>0, <2>1, <3>2, <3>3, <4>1
    <3>5. CASE Last(p) # 1
      <4>1. b[1] = Append(Front(p), Last(p) - 1) /\ Distance(v, x) = Lead(v[Front(p)]) + 2
        BY <1>5, <2>1, <2>2, <3>5 DEF Behind, Distance
      <4>2. Last(p) - 1 \in Nat \ {0}
        BY <3>2, <3>5
      <4>3. Len(b[1]) = Len(Front(p)) + 1
        BY <3>2, <4>1, <4>2
      <4>4. QED
        BY <1>0, <2>1, <3>2, <3>3, <4>1, <4>3
    <3>6. QED
      BY <3>4, <3>5
  <2>3. CASE x[2] = "last"
    <3>1. b[1] = p \/ (v[p].kids # 0 /\ b[1] = Append(p, v[p].kids))
      BY <1>5, <2>1, <2>3 DEF Behind
    <3>2. Len(p) <= Len(b[1])
      <4>1. v[p].kids # 0 => Len(Append(p, v[p].kids)) = Len(p) + 1
        BY <1>0 DEF Paths
      <4>2. QED
        BY <1>0, <3>1, <4>1
    <3>3. Len(b[1]) \in Nat
      BY <1>0, <1>1, <1>6
    <3>4. QED
      BY <1>0, <1>6, <2>1, <3>2, <3>3
  <2>4. QED
    BY <1>1, <2>2, <2>3
<1>10. QED
  <2>1. PICK la \in Nat, lb \in Nat, mb \in Nat, d \in Nat :
           la = Len(x[1]) /\ lb = Len(b[1]) /\ mb = Mark(span, b) /\ d = Distance(v, x)
    BY <1>0, <1>1, <1>6
  <2>2. lb < mb /\ la <= lb + d /\ Mark(span, x) = mb + d
    BY <1>6, <1>8, <1>9, <2>1
  <2>3. la < mb + d
    BY <2>2
  <2>4. QED
    BY <1>3, <2>1, <2>2, <2>3

\* What has a text can be written.
LEMMA WrittenIsJson ==
    ASSUME NEW v, NEW t, NEW span, t \in Seq(Tokens), Written(v, t, span)
    PROVE  Json(v)
<1>1. /\ IsValue(v) /\ <<>> \in DOMAIN v /\ v[<<>>].name = NoName
      /\ \A p \in DOMAIN v \ {<<>>} : Front(p) \in DOMAIN v /\ Last(p) <= v[Front(p)].kids
  BY WrittenShape
<1>2. Len(t) \in Nat /\ \A p \in DOMAIN v : Len(p) <= Len(t)
  <2>1. Len(t) \in Nat /\ \A p \in DOMAIN v : p \in Paths /\ span[p].first \in 1..Len(t)
    BY WrittenShape
  <2>2. \A p \in DOMAIN v : Len(p) \in Nat
    BY <2>1 DEF Paths
  <2>3. \A p \in DOMAIN v : Len(p) < span[p].first
    BY DepthBound
  <2>4. QED
    BY <2>1, <2>2, <2>3
<1>3. ASSUME NEW p \in DOMAIN v PROVE JsonPart(v, p)
  <2>1. CASE AtomWritten(v, t, span, p)
    BY <2>1 DEF AtomWritten, JsonPart
  <2>2. CASE CompoundWritten(v, t, span, p)
    <3>1. v[p].type \in {"obj", "array"} /\ v[p].atom = NoName
      BY <2>2 DEF CompoundWritten, Compound
    <3>2. \A n \in 1..v[p].kids :
            /\ Append(p, n) \in DOMAIN v
            /\ IF v[p].type = "obj" THEN v[Append(p, n)].name \in Names ELSE v[Append(p, n)].name = NoName
      BY <2>2 DEF CompoundWritten, KidWritten
    <3>3. QED
      BY <3>1, <3>2 DEF JsonPart
  <2>3. QED
    BY <2>1, <2>2, WrittenShape
<1>4. QED
  BY <1>1, <1>2, <1>3 DEF Json

\* The tokens a part begins and ends with.
FirstToken(part) ==
    IF part.type = "obj" THEN BeginObj ELSE IF part.type = "array" THEN BeginArray ELSE part.atom

LEMMA EndTokens ==
    ASSUME NEW v, NEW t, NEW span, t \in Seq(Tokens), Written(v, t, span), NEW p \in DOMAIN v
    PROVE  /\ t[span[p].first] = FirstToken(v[p])
           /\ v[p].type \in {"obj", "array"} =>
                t[span[p].last] = (IF v[p].type = "obj" THEN EndObj ELSE EndArray)
<1>1. CASE t[span[p].first] \in Atoms
  <2>1. v[p].type = AtomType(t[span[p].first]) /\ v[p].atom = t[span[p].first]
    BY <1>1, AtomPart DEF Atom
  <2>2. \A a \in Atoms : AtomType(a) \notin {"obj", "array"}
    BY DEF AtomType, Atoms, Literals
  <2>3. QED
    BY <1>1, <2>1, <2>2 DEF FirstToken
<1>2. CASE t[span[p].first] \notin Atoms
  <2>1. /\ t[span[p].first] \in Openings
        /\ v[p].type = Compound(t[span[p].first]).type
        /\ t[span[p].last] = (IF v[p].type = "obj" THEN EndObj ELSE EndArray)
    BY <1>2, CompoundPart
  <2>2. QED
    BY <2>1, TokenFacts DEF FirstToken, Compound
<1>3. QED
  BY <1>1, <1>2

LEMMA KidOfText ==
    ASSUME NEW v, NEW t, NEW span, t \in Seq(Tokens), Written(v, t, span),
           NEW p \in DOMAIN v, NEW i \in 1..v[p].kids
    PROVE  KidWritten(v, t, span, p, i)
<1>1. v[p] \in Parts /\ (AtomWritten(v, t, span, p) \/ CompoundWritten(v, t, span, p))
  BY WrittenShape
<1>2. v[p].kids \in Nat /\ v[p].kids # 0
  BY <1>1 DEF Parts
<1>3. QED
  BY <1>1, <1>2 DEF AtomWritten, CompoundWritten

\* A value has one text.
LEMMA TextsUnique ==
    ASSUME NEW v, NEW t, NEW span, t \in Seq(Tokens), Written(v, t, span),
           NEW u, NEW sp, u \in Seq(Tokens), Written(v, u, sp)
    PROVE  t = u
<1>1. sp = span
  BY SpansUnique
<1>2. Written(v, u, span)
  BY <1>1
<1> DEFINE Weight(x) == 2 * Mark(span, x) + (IF x[2] = "last" THEN 1 ELSE 0)
<1>3. /\ <<>> \in DOMAIN v /\ Len(t) \in Nat /\ Len(u) \in Nat
      /\ span[<<>>].first = 1 /\ span[<<>>].last = Len(t) /\ span[<<>>].last = Len(u)
      /\ \A p \in DOMAIN v : /\ p \in Paths /\ v[p] \in Parts /\ v[p].kids \in Nat
                             /\ span[p].first \in Nat /\ span[p].last \in Nat
      /\ \A p \in DOMAIN v \ {<<>>} : Front(p) \in DOMAIN v /\ Last(p) <= v[Front(p)].kids
  <2>1. /\ <<>> \in DOMAIN v /\ Len(t) \in Nat
        /\ span[<<>>].first = 1 /\ span[<<>>].last = Len(t)
        /\ \A p \in DOMAIN v : p \in Paths /\ v[p] \in Parts
        /\ \A p \in DOMAIN v : span[p].first \in 1..Len(t) /\ span[p].last \in 1..Len(t)
        /\ \A p \in DOMAIN v \ {<<>>} : Front(p) \in DOMAIN v /\ Last(p) <= v[Front(p)].kids
    BY WrittenShape
  <2>2. Len(u) \in Nat /\ span[<<>>].last = Len(u)
    BY <1>2, WrittenShape
  <2>3. QED
    BY <2>1, <2>2 DEF Parts
<1>4. \A x \in Marks(v) : /\ x[1] \in DOMAIN v /\ x[2] \in {"first", "last"} /\ x = <<x[1], x[2]>>
                          /\ Mark(span, x) \in Nat /\ Weight(x) \in Nat
  BY <1>3 DEF Marks, Mark
<1>5. \A p \in DOMAIN v : /\ t[span[p].first] = u[span[p].first]
                          /\ v[p].type \in {"obj", "array"} => t[span[p].last] = u[span[p].last]
  BY <1>2, EndTokens
<1>6. ASSUME NEW j \in 1..Len(t) PROVE t[j] = u[j]
  <2> DEFINE Later == {w \in Nat : \E x \in Marks(v) : w = Weight(x) /\ j <= Mark(span, x)}
  <2>1. PICK w \in Later : \A m \in Later : w <= m
    <3>1. PICK y : y = <<<<>>, "last">>
      OBVIOUS
    <3>2. y \in Marks(v) /\ j <= Mark(span, y)
      BY <1>3, <3>1 DEF Marks, Mark
    <3>3. Weight(y) \in Later
      BY <1>4, <3>2
    <3> HIDE DEF Later
    <3>4. Later \in SUBSET Nat
      BY DEF Later
    <3>5. QED
      BY <3>3, <3>4, LeastNumber
  <2>2. PICK x \in Marks(v) : w = Weight(x) /\ j <= Mark(span, x)
    BY <2>1
  <2>3. CASE x = Origin
    <3>1. Mark(span, x) = 1
      BY <1>3, <2>3 DEF Mark, Origin
    <3>2. j = span[<<>>].first
      BY <1>3, <2>2, <3>1
    <3>3. QED
      BY <1>3, <1>5, <3>2
  <2>4. CASE x # Origin
    <3>1. PICK b : b = Behind(v, x)
      OBVIOUS
    <3>2. /\ b \in Marks(v) /\ Distance(v, x) \in Nat /\ Mark(span, x) = Mark(span, b) + Distance(v, x)
          /\ Distance(v, x) = 0 => x[2] = "last" /\ b[2] = "first"
      BY <2>4, <3>1, MarkBehind
    <3>3. PICK mb \in Nat, d \in Nat : mb = Mark(span, b) /\ d = Distance(v, x)
      BY <1>4, <3>2
    <3>4. Weight(b) < Weight(x)
      <4>1. Mark(span, x) = mb + d
        BY <3>2, <3>3
      <4>2. CASE d = 0
        <5>1. x[2] = "last" /\ b[2] = "first"
          BY <3>2, <3>3, <4>2
        <5>2. QED
          BY <3>3, <4>1, <4>2, <5>1
      <4>3. CASE d # 0
        <5>1. 2 * mb + 1 < 2 * (mb + d)
          BY <4>3
        <5>2. Weight(b) = 2 * mb \/ Weight(b) = 2 * mb + 1
          BY <3>3
        <5>3. Weight(x) = 2 * (mb + d) \/ Weight(x) = 2 * (mb + d) + 1
          BY <4>1
        <5> HIDE DEF Weight
        <5>4. QED
          BY <5>1, <5>2, <5>3
      <4>4. QED
        BY <4>2, <4>3
    <3>5. mb < j /\ j <= mb + d
      <4>1. Weight(b) \in Nat /\ ~(Weight(x) <= Weight(b))
        BY <1>4, <3>2, <3>4
      <4>2. Weight(b) \notin Later
        BY <2>1, <2>2, <4>1
      <4>3. ~(j <= mb)
        <5> HIDE DEF Weight
        <5>1. QED
          BY <3>2, <3>3, <4>1, <4>2
      <4>4. QED
        BY <2>2, <3>2, <3>3, <4>3
    <3>6. PICK p \in DOMAIN v : p = x[1]
      BY <1>4
    <3>7. CASE x[2] = "last"
      <4>1. v[p].type \in {"obj", "array"} /\ d = 1
        BY <3>3, <3>5, <3>6, <3>7 DEF Distance
      <4>2. Mark(span, x) = span[p].last
        BY <3>6, <3>7 DEF Mark
      <4>3. j = span[p].last
        BY <3>2, <3>3, <3>5, <4>1, <4>2
      <4>4. QED
        BY <1>5, <4>1, <4>3
    <3>8. CASE x[2] = "first"
      <4>1. p # <<>>
        BY <1>4, <2>4, <3>6, <3>8 DEF Origin
      <4>2. PICK up \in DOMAIN v, i \in Nat \ {0} :
               up = Front(p) /\ i = Last(p) /\ p = Append(up, i) /\ i <= v[up].kids
        BY <1>3, <4>1, FrontFacts DEF Paths
      <4>3. i \in 1..v[up].kids
        BY <1>3, <4>2
      <4>4. PICK s : s = Start(v, span, up, p)
        OBVIOUS
      <4>5. /\ i # 1 => t[s - 1] = Comma
            /\ v[up].type = "obj" => t[s] = v[p].name /\ t[s + 1] = Colon
        <5>1. KidWritten(v, t, span, up, i)
          BY <4>3, KidOfText
        <5>2. QED
          BY <4>2, <4>4, <5>1 DEF KidWritten
      <4>6. /\ i # 1 => u[s - 1] = Comma
            /\ v[up].type = "obj" => u[s] = v[p].name /\ u[s + 1] = Colon
        <5>1. KidWritten(v, u, span, up, i)
          BY <1>2, <4>3, KidOfText
        <5>2. QED
          BY <4>2, <4>4, <5>1 DEF KidWritten
      <4>7. Mark(span, x) = span[p].first
        BY <3>6, <3>8 DEF Mark
      <4>8. s = span[p].first - Lead(v[up])
        BY <4>4 DEF Start
      <4>9. Lead(v[up]) \in {0, 2} /\ (Lead(v[up]) = 2 <=> v[up].type = "obj")
        BY DEF Lead
      <4>10. d = Lead(v[up]) + (IF i = 1 THEN 1 ELSE 2)
        BY <3>3, <3>6, <3>8, <4>2 DEF Distance
      <4>11. span[p].first = mb + d /\ span[p].first \in Nat /\ j \in Nat
        BY <1>3, <3>2, <3>3, <4>7
      <4>12. \/ j = span[p].first
             \/ v[up].type = "obj" /\ (j = s \/ j = s + 1)
             \/ i # 1 /\ j = s - 1
        <5>1. PICK f \in Nat : f = span[p].first
          BY <4>11
        <5>2. f = mb + d /\ mb < j /\ j <= mb + d /\ s = f - Lead(v[up])
          BY <3>5, <4>8, <4>11, <5>1
        <5>3. CASE Lead(v[up]) = 0
          <6>1. s = f /\ (i = 1 => d = 1) /\ (i # 1 => d = 2)
            BY <4>10, <5>2, <5>3
          <6>2. j = f \/ (i # 1 /\ j = f - 1)
            BY <4>11, <5>2, <6>1
          <6>3. QED
            BY <5>1, <6>1, <6>2
        <5>4. CASE Lead(v[up]) = 2
          <6>1. s = f - 2 /\ (i = 1 => d = 3) /\ (i # 1 => d = 4)
            BY <4>10, <5>2, <5>4
          <6>2. j = f \/ j = f - 2 \/ j = f - 1 \/ (i # 1 /\ j = f - 3)
            BY <4>11, <5>2, <6>1
          <6>3. s + 1 = f - 1 /\ s - 1 = f - 3
            BY <6>1
          <6>4. QED
            BY <4>9, <5>1, <5>4, <6>1, <6>2, <6>3
        <5>5. QED
          BY <4>9, <5>3, <5>4
      <4>13. QED
        BY <1>5, <4>5, <4>6, <4>12
    <3>9. QED
      BY <1>4, <3>7, <3>8
  <2>5. QED
    BY <2>3, <2>4
<1>7. QED
  BY <1>3, <1>6, SeqEqual

\* Whatever the text of a value, it is followed as long as it is what comes.
FollowsAll ==
    \A v, t, span : t \in Seq(Tokens) /\ Written(v, t, span) => Following(v, t, span)

LEMMA FollowsAllStep ==
    ASSUME FollowsAll, [ReaderNext]_readerVars PROVE FollowsAll'
<1>1. ASSUME NEW v, NEW t, NEW span, t \in Seq(Tokens), Written(v, t, span)
      PROVE  Following(v, t, span)'
  BY <1>1, FollowingStep DEF FollowsAll
<1>2. QED
  BY <1>1 DEF FollowsAll

\* The reader throws at the first token after which the text is no beginning
\* of what the writer makes of any value, and at no other token: the words
\* throw_not_value() and its like stand for, of texts of every length.
THEOREM ThrowsWhenNoneFollows ==
    ReaderSpec => [](at = "thrown" <=> ~\E v : Json(v) /\ Begins(Write(v)))
<1> DEFINE Inv == PointerInv /\ SoundInv /\ FollowsAll
<1>1. ReaderInit => Inv
  BY PointerInvInit, FollowingInit DEF ReaderInit, SoundInv, FollowsAll
<1>2. Inv /\ [ReaderNext]_readerVars => Inv'
  BY PointerInvStep, SoundStep, FollowsAllStep
<1>3. Inv => (at = "thrown" <=> ~\E v : Json(v) /\ Begins(Write(v)))
  <2> SUFFICES ASSUME Inv PROVE at = "thrown" <=> ~\E v : Json(v) /\ Begins(Write(v))
    OBVIOUS
  <2>1. ASSUME NEW v, Json(v), Begins(Write(v)) PROVE at # "thrown"
    <3>1. PICK span : Write(v) \in Seq(Tokens) /\ Written(v, Write(v), span)
      BY <2>1, WriteIsWritten
    <3>2. PICK t : t = Write(v)
      OBVIOUS
    <3>3. t \in Seq(Tokens) /\ Written(v, t, span) /\ Begins(t)
      BY <2>1, <3>1, <3>2
    <3>4. Following(v, t, span)
      BY <3>3 DEF FollowsAll
    <3>5. QED
      BY <3>3, <3>4, FollowingUnderstands DEF Understands
  <2>2. ASSUME at # "thrown" PROVE \E v : Json(v) /\ Begins(Write(v))
    <3>1. PICK v, t, span : t \in Seq(Tokens) /\ Written(v, t, span) /\ Begins(t)
      BY <2>2, CanBecomeText
    <3>2. Json(v)
      BY <3>1, WrittenIsJson
    <3>3. PICK sp : Write(v) \in Seq(Tokens) /\ Written(v, Write(v), sp)
      BY <3>2, WriteIsWritten
    <3>4. PICK u : u = Write(v)
      OBVIOUS
    <3>5. t = u
      BY <3>1, <3>3, <3>4, TextsUnique
    <3>6. QED
      BY <3>1, <3>2, <3>4, <3>5
  <2>3. QED
    BY <2>1, <2>2
<1>4. QED
  BY <1>1, <1>2, <1>3, PTL DEF ReaderSpec

\* The reader is through at the whole text of a value and nowhere else, and
\* then what it has read is what the writer makes of the value it has built:
\* the two are inverse to each other, on texts of every length.
THEOREM EndsOnTextOfValue ==
    ReaderSpec => [](/\ at = "end" <=> \E v : Json(v) /\ text = Write(v)
                     /\ at = "end" => Json(value) /\ text = Write(value))
<1> DEFINE Inv == PointerInv /\ SoundInv /\ FollowsAll
<1>1. ReaderInit => Inv
  BY PointerInvInit, FollowingInit DEF ReaderInit, SoundInv, FollowsAll
<1>2. Inv /\ [ReaderNext]_readerVars => Inv'
  BY PointerInvStep, SoundStep, FollowsAllStep
<1>3. Inv => /\ at = "end" <=> \E v : Json(v) /\ text = Write(v)
             /\ at = "end" => Json(value) /\ text = Write(value)
  <2> SUFFICES ASSUME Inv
               PROVE  /\ (\E v : Json(v) /\ text = Write(v)) => at = "end"
                      /\ at = "end" => Json(value) /\ text = Write(value)
    OBVIOUS
  <2>1. text \in Seq(Tokens)
    BY DEF PointerInv, ReaderTypes
  <2>2. ASSUME NEW v, Json(v), text = Write(v) PROVE at = "end"
    <3>1. PICK span : Written(v, text, span)
      BY <2>2, WriteIsWritten
    <3>2. Following(v, text, span)
      BY <2>1, <3>1 DEF FollowsAll
    <3>3. Begins(text)
      BY <2>1 DEF Begins
    <3>4. QED
      BY <2>1, <3>1, <3>2, <3>3, FollowingUnderstands DEF Understands
  <2>3. ASSUME at = "end" PROVE Json(value) /\ text = Write(value)
    <3>1. PICK span : Written(value, text, span)
      BY <2>3, SoundEnds
    <3>2. Json(value)
      BY <2>1, <3>1, WrittenIsJson
    <3>3. PICK u, sp : u = Write(value) /\ u \in Seq(Tokens) /\ Written(value, u, sp)
      BY <3>2, WriteIsWritten
    <3>4. text = u
      BY <2>1, <3>1, <3>3, TextsUnique
    <3>5. QED
      BY <3>2, <3>3, <3>4
  <2>4. QED
    BY <2>2, <2>3
<1>4. QED
  BY <1>1, <1>2, <1>3, PTL DEF ReaderSpec

-----------------------------------------------------------------------------
(* Objects and arrays of given members and elements *)

\* A path with one more step before it.
Prefixed(S, i, q, p) ==
    /\ p \in Seq(S) /\ p # <<>> /\ Len(p) = Len(q) + 1 /\ Head(p) = i /\ Tail(p) = q /\ p[1] = i
    /\ SubSeq(p, 2, Len(p)) = q
    /\ q = <<>> => p = <<i>> /\ Front(p) = <<>> /\ Last(p) = i
    /\ q # <<>> => Front(p) = <<i>> \o Front(q) /\ Last(p) = Last(q)
    /\ \A x \in S : Append(p, x) = <<i>> \o Append(q, x)

\* What it then is.
LEMMA StepBefore ==
    ASSUME NEW S, NEW i \in S, NEW q \in Seq(S)
    PROVE  Prefixed(S, i, q, <<i>> \o q)
<1>0. PICK p : p = <<i>> \o q
  OBVIOUS
<1>1. /\ p \in Seq(S) /\ Len(p) = Len(q) + 1 /\ p[1] = i /\ Len(q) \in Nat
      /\ \A j \in 1..Len(q) : p[j + 1] = q[j]
  BY <1>0
<1>2. p # <<>> /\ Head(p) = i
  BY <1>1
<1>3. Tail(p) = q
  <2>1. Tail(p) \in Seq(S) /\ Len(Tail(p)) = Len(q) /\ \A j \in 1..Len(q) : Tail(p)[j] = p[j + 1]
    BY <1>1, <1>2
  <2>2. QED
    BY <1>1, <2>1, SeqEqual
<1>4. SubSeq(p, 2, Len(p)) = q
  <2>1. SubSeq(p, 2, Len(p)) = Tail(p)
    BY <1>1, <1>2
  <2>2. QED
    BY <1>3, <2>1
<1>5. q = <<>> => p = <<i>> /\ Front(p) = <<>> /\ Last(p) = i
  <2> SUFFICES ASSUME q = <<>> PROVE p = <<i>> /\ Front(p) = <<>> /\ Last(p) = i
    OBVIOUS
  <2>1. p = Append(<<>>, i) /\ <<>> \in Seq(S)
    BY <1>0
  <2>2. Front(Append(<<>>, i)) = <<>> /\ Last(Append(<<>>, i)) = i
    BY <2>1, AppendFacts
  <2>3. QED
    BY <2>1, <2>2
<1>6. \A x \in S : Append(p, x) = <<i>> \o Append(q, x)
  BY <1>0
<1>7. q # <<>> => Front(p) = <<i>> \o Front(q) /\ Last(p) = Last(q)
  <2> SUFFICES ASSUME q # <<>> PROVE Front(p) = <<i>> \o Front(q) /\ Last(p) = Last(q)
    OBVIOUS
  <2>1. PICK u, x : u = Front(q) /\ x = Last(q)
    OBVIOUS
  <2>2. u \in Seq(S) /\ x \in S /\ Append(u, x) = q
    BY <2>1, FrontFacts
  <2>3. p = Append(<<i>> \o u, x) /\ <<i>> \o u \in Seq(S)
    BY <1>0, <2>2
  <2>4. PICK w : w = <<i>> \o u
    OBVIOUS
  <2>6. w \in Seq(S) /\ p = Append(w, x)
    BY <2>3, <2>4
  <2>7. Front(Append(w, x)) = w /\ Last(Append(w, x)) = x
    BY <2>2, <2>6, AppendFacts
  <2>5. QED
    BY <2>1, <2>4, <2>6, <2>7
<1>8. QED
  BY <1>0, <1>1, <1>2, <1>3, <1>4, <1>5, <1>6, <1>7 DEF Prefixed

\* Members or elements that make a value.
CanBuild(t, kids) ==
    /\ t \in Openings /\ Len(kids) \in Nat /\ DOMAIN kids = 1..Len(kids)
    /\ \A i \in 1..Len(kids) :
         /\ Json(kids[i].value)
         /\ IF t = BeginObj THEN kids[i].name \in Names ELSE kids[i].name = NoName

KidPaths(kids) == UNION {{<<i>> \o q : q \in DOMAIN kids[i].value} : i \in DOMAIN kids}
BuiltKid(kids, i, q) ==
    IF q = <<>> THEN [kids[i].value[q] EXCEPT !.name = kids[i].name] ELSE kids[i].value[q]

BuiltAs(b, t, kids) ==
    /\ DOMAIN b = {<<>>} \cup KidPaths(kids)
    /\ b[<<>>] = [Compound(t) EXCEPT !.kids = Len(kids)]
    /\ \A i \in 1..Len(kids) : \A q \in DOMAIN kids[i].value :
         /\ <<i>> \o q \in KidPaths(kids) /\ b[<<i>> \o q] = BuiltKid(kids, i, q)

\* What Build() puts at each path.
LEMMA BuiltParts ==
    ASSUME NEW t, NEW kids, CanBuild(t, kids), NEW b, b = Build(t, kids)
    PROVE  BuiltAs(b, t, kids)
<1> DEFINE D == {<<>>} \cup KidPaths(kids)
           At(p) == LET part == kids[Head(p)].value[Tail(p)]
                    IN IF Len(p) = 1 THEN [part EXCEPT !.name = kids[Head(p)].name] ELSE part
<1>1. b = [p \in D |-> IF p = <<>> THEN [Compound(t) EXCEPT !.kids = Len(kids)] ELSE At(p)]
  BY DEF Build, KidPaths
<1>2. ASSUME NEW i \in 1..Len(kids), NEW q \in DOMAIN kids[i].value
      PROVE  <<i>> \o q \in KidPaths(kids)
  BY DEF CanBuild, KidPaths
<1>3. ASSUME NEW i \in 1..Len(kids), NEW q \in DOMAIN kids[i].value
      PROVE  <<i>> \o q # <<>> /\ At(<<i>> \o q) = BuiltKid(kids, i, q)
  <2>1. q \in Seq(Nat \ {0})
    BY DEF CanBuild, Json, IsValue, Paths
  <2>2. i \in Nat \ {0}
    BY DEF CanBuild
  <2>3. PICK p : p = <<i>> \o q
    OBVIOUS
  <2>4. p # <<>> /\ Head(p) = i /\ Tail(p) = q /\ Len(p) = Len(q) + 1
    <3>1. Prefixed(Nat \ {0}, i, q, p)
      BY <2>1, <2>2, <2>3, StepBefore
    <3>2. QED
      BY <3>1 DEF Prefixed
  <2>5. Len(p) = 1 <=> q = <<>>
    BY <2>1, <2>4
  <2>6. At(p) = BuiltKid(kids, i, q)
    BY <2>4, <2>5 DEF BuiltKid
  <2>7. QED
    BY <2>3, <2>4, <2>6
<1> HIDE DEF At, D
<1>4. DOMAIN b = D /\ b[<<>>] = [Compound(t) EXCEPT !.kids = Len(kids)]
  <2>1. <<>> \in D
    BY DEF D
  <2>2. QED
    BY <1>1, <2>1
<1>5. ASSUME NEW i \in 1..Len(kids), NEW q \in DOMAIN kids[i].value
      PROVE  b[<<i>> \o q] = BuiltKid(kids, i, q)
  <2>1. <<i>> \o q \in D /\ <<i>> \o q # <<>>
    BY <1>2, <1>3 DEF D
  <2>2. b[<<i>> \o q] = At(<<i>> \o q)
    BY <1>1, <2>1
  <2>3. QED
    BY <1>3, <2>2
<1>6. QED
  BY <1>2, <1>4, <1>5 DEF D, BuiltAs

\* A path that is not the root's leads into a kid.
InKid(kids, p) == \E i \in 1..Len(kids) : \E q \in DOMAIN kids[i].value : p = <<i>> \o q

LEMMA KidPathsLead ==
    ASSUME NEW t, NEW kids, CanBuild(t, kids), NEW p \in KidPaths(kids)
    PROVE  InKid(kids, p)
BY DEF CanBuild, KidPaths, InKid

\* What is built of values is one, and its kids are those values.
LEMMA BuiltTyped ==
    ASSUME NEW t, NEW kids, CanBuild(t, kids), NEW i \in 1..Len(kids), NEW q \in DOMAIN kids[i].value,
           NEW v, v = kids[i].value
    PROVE  /\ Json(v) /\ q \in Seq(Nat \ {0}) /\ q \in Paths /\ v[q] \in Parts /\ i \in Nat \ {0}
           /\ BuiltKid(kids, i, q) \in Parts
           /\ BuiltKid(kids, i, q).type = v[q].type /\ BuiltKid(kids, i, q).atom = v[q].atom
           /\ BuiltKid(kids, i, q).kids = v[q].kids
           /\ BuiltKid(kids, i, q).name = IF q = <<>> THEN kids[i].name ELSE v[q].name
<1>1. Json(v) /\ i \in Nat \ {0}
  BY DEF CanBuild
<1>2. q \in Paths /\ v[q] \in Parts /\ q \in Seq(Nat \ {0})
  BY <1>1, JsonFacts DEF Paths
<1>3. kids[i].name \in Names \cup {NoName}
  BY DEF CanBuild
<1>4. PICK part, n : part = v[q] /\ n = kids[i].name
  OBVIOUS
<1>5. LET r == [part EXCEPT !.name = n]
      IN r \in Parts /\ r.type = part.type /\ r.atom = part.atom /\ r.kids = part.kids /\ r.name = n
  BY <1>2, <1>3, <1>4 DEF Parts
<1>6. BuiltKid(kids, i, q) = IF q = <<>> THEN [part EXCEPT !.name = n] ELSE part
  BY <1>4 DEF BuiltKid
<1>7. PICK r : r = BuiltKid(kids, i, q)
  OBVIOUS
<1>8. /\ r \in Parts /\ r.type = part.type /\ r.atom = part.atom /\ r.kids = part.kids
      /\ r.name = IF q = <<>> THEN n ELSE part.name
  BY <1>2, <1>4, <1>5, <1>6, <1>7
<1>9. QED
  BY <1>1, <1>2, <1>4, <1>7, <1>8

\* By their number: the kids together have a depth.
LEMMA HeightsBound ==
    ASSUME NEW t, NEW kids, CanBuild(t, kids)
    PROVE  \E h \in Nat : \A i \in 1..Len(kids) : \A q \in DOMAIN kids[i].value : Len(q) <= h
<1> DEFINE High(h, n) == \A i \in 1..n : \A q \in DOMAIN kids[i].value : Len(q) <= h
           Bad == {n \in Nat : n <= Len(kids) /\ ~ \E h \in Nat : High(h, n)}
<1>0. Len(kids) \in Nat
  BY DEF CanBuild
<1> SUFFICES ASSUME ~ \E h \in Nat : High(h, Len(kids)) PROVE FALSE
  OBVIOUS
<1> HIDE DEF High
<1>1. PICK n \in Bad : \A m \in Bad : n <= m
  <2>1. Len(kids) \in Bad
    BY <1>0
  <2>2. QED
    BY <2>1, LeastNumber
<1>2. n \in Nat /\ n <= Len(kids) /\ ~ \E h \in Nat : High(h, n)
  BY <1>1
<1>3. CASE n = 0
  <2>1. High(0, 0)
    BY DEF High
  <2>2. QED
    BY <1>2, <1>3, <2>1
<1>4. CASE n # 0
  <2>1. n - 1 \in Nat /\ n - 1 <= Len(kids) /\ n - 1 \notin Bad
    BY <1>0, <1>1, <1>2, <1>4
  <2>2. PICK g \in Nat : High(g, n - 1)
    BY <2>1
  <2>3. Json(kids[n].value)
    BY <1>0, <1>2, <1>4 DEF CanBuild
  <2>4. PICK h \in Nat : \A q \in DOMAIN kids[n].value : Len(q) <= h
    BY <2>3 DEF Json
  <2>5. High(g + h, n)
    <3> SUFFICES ASSUME NEW i \in 1..n, NEW q \in DOMAIN kids[i].value PROVE Len(q) <= g + h
      BY DEF High
    <3>1. Json(kids[i].value)
      BY <1>0, <1>2 DEF CanBuild
    <3>2. Len(q) \in Nat
      BY <3>1, JsonFacts
    <3>3. CASE i = n
      <4>1. Len(q) <= h
        BY <2>4, <3>3
      <4>2. QED
        BY <3>2, <4>1
    <3>4. CASE i # n
      <4>1. i \in 1..(n - 1)
        BY <1>2, <3>4
      <4>2. Len(q) <= g
        BY <2>2, <4>1 DEF High
      <4>3. QED
        BY <3>2, <4>2
    <3>5. QED
      BY <3>3, <3>4
  <2>6. g + h \in Nat
    OBVIOUS
  <2>7. QED
    BY <1>2, <2>5, <2>6
<1>5. QED
  BY <1>3, <1>4

\* The root of what is built.
LEMMA BuiltRoot ==
    ASSUME NEW t, NEW kids, CanBuild(t, kids), NEW r, r = [Compound(t) EXCEPT !.kids = Len(kids)]
    PROVE  /\ r \in Parts /\ r.type = Compound(t).type /\ r.type \in {"obj", "array"}
           /\ r.atom = NoName /\ r.name = NoName /\ r.kids = Len(kids) /\ Len(kids) \in Nat
           /\ r.type = "obj" <=> t = BeginObj
<1>1. Len(kids) \in Nat
  BY DEF CanBuild
<1>2. PICK k : k = Len(kids)
  OBVIOUS
<1>3. r = [Compound(t) EXCEPT !.kids = k] /\ k \in Nat
  BY <1>1, <1>2
<1>4. PICK o : o = (t = BeginObj)
  OBVIOUS
<1>5. Compound(t) = [type |-> IF o THEN "obj" ELSE "array", atom |-> NoName, name |-> NoName, kids |-> 0]
  BY <1>4 DEF Compound
<1>6. /\ r \in Parts /\ r.type = Compound(t).type /\ r.type \in {"obj", "array"}
      /\ r.atom = NoName /\ r.name = NoName /\ r.kids = k
      /\ r.type = "obj" <=> o
  BY <1>3, <1>5 DEF Parts
<1>7. QED
  BY <1>1, <1>2, <1>4, <1>6

\* What a kid of b has is where the kid is in b.
BuiltOf(b, kids, i, q) ==
    LET p == <<i>> \o q
    IN /\ p \in DOMAIN b /\ b[p] = BuiltKid(kids, i, q)
       /\ p \in Paths /\ p # <<>> /\ Len(p) = Len(q) + 1 /\ Len(q) \in Nat
       /\ q = <<>> => p = <<i>> /\ Front(p) = <<>> /\ Last(p) = i
       /\ q # <<>> => Front(p) = <<i>> \o Front(q) /\ Last(p) = Last(q)
       /\ \A x \in Nat \ {0} : Append(p, x) = <<i>> \o Append(q, x)
       /\ p[1] = i /\ SubSeq(p, 2, Len(p)) = q

\* Each part of a kid is in what is built of it, one step deeper.
LEMMA BuiltPlaces ==
    ASSUME NEW t, NEW kids, CanBuild(t, kids), NEW b, b = Build(t, kids),
           NEW i \in 1..Len(kids), NEW q \in DOMAIN kids[i].value
    PROVE  BuiltOf(b, kids, i, q)
<1>1. PICK p : p = <<i>> \o q
  OBVIOUS
<1>2. q \in Seq(Nat \ {0}) /\ i \in Nat \ {0}
  BY BuiltTyped
<1>3. p \in DOMAIN b /\ b[p] = BuiltKid(kids, i, q)
  <2>1. BuiltAs(b, t, kids)
    BY BuiltParts
  <2>2. QED
    BY <1>1, <2>1 DEF BuiltAs
<1>4. /\ p \in Seq(Nat \ {0}) /\ p # <<>> /\ Len(p) = Len(q) + 1 /\ p[1] = i
      /\ SubSeq(p, 2, Len(p)) = q
      /\ q = <<>> => p = <<i>> /\ Front(p) = <<>> /\ Last(p) = i
      /\ q # <<>> => Front(p) = <<i>> \o Front(q) /\ Last(p) = Last(q)
      /\ \A x \in Nat \ {0} : Append(p, x) = <<i>> \o Append(q, x)
  <2>1. Prefixed(Nat \ {0}, i, q, p)
    BY <1>1, <1>2, StepBefore
  <2>2. QED
    BY <2>1 DEF Prefixed
<1>5. Len(q) \in Nat
  BY <1>2
<1>6. QED
  BY <1>1, <1>3, <1>4, <1>5 DEF BuiltOf, Paths

\* Every path of it is the root's or in a kid.
LEMMA BuiltPaths ==
    ASSUME NEW t, NEW kids, CanBuild(t, kids), NEW b, b = Build(t, kids), NEW p \in DOMAIN b, p # <<>>
    PROVE  InKid(kids, p)
<1>1. p \in KidPaths(kids)
  <2>1. BuiltAs(b, t, kids)
    BY BuiltParts
  <2>2. QED
    BY <2>1 DEF BuiltAs
<1>2. QED
  BY <1>1, KidPathsLead

\* What is built of values is a value.
LEMMA BuiltJson ==
    ASSUME NEW t, NEW kids, CanBuild(t, kids), NEW b, b = Build(t, kids)
    PROVE  Json(b)
<1> DEFINE n == Len(kids)
           r == [Compound(t) EXCEPT !.kids = n]
<1>1. <<>> \in DOMAIN b /\ b[<<>>] = r
  <2>1. BuiltAs(b, t, kids)
    BY BuiltParts
  <2>2. QED
    BY <2>1 DEF BuiltAs
<1>2. /\ r \in Parts /\ r.type \in {"obj", "array"} /\ r.atom = NoName /\ r.name = NoName
      /\ r.kids = n /\ n \in Nat /\ (r.type = "obj" <=> t = BeginObj)
  BY BuiltRoot
<1> HIDE DEF r
<1>3. ASSUME NEW p \in DOMAIN b PROVE p \in Paths /\ b[p] \in Parts
  <2>1. CASE p = <<>>
    BY <1>1, <1>2, <2>1, EmptyPath
  <2>2. CASE p # <<>>
    <3>1. PICK i \in 1..n : \E q \in DOMAIN kids[i].value : p = <<i>> \o q
      <4>1. InKid(kids, p)
        BY <2>2, BuiltPaths
      <4>2. QED
        BY <4>1 DEF InKid
    <3>2. PICK q \in DOMAIN kids[i].value : p = <<i>> \o q
      BY <3>1
    <3>3. BuiltOf(b, kids, i, q) /\ BuiltKid(kids, i, q) \in Parts
      BY BuiltPlaces, BuiltTyped
    <3>4. QED
      BY <3>2, <3>3 DEF BuiltOf
  <2>3. QED
    BY <2>1, <2>2
<1>4. b \in [DOMAIN b -> Parts]
  <2>1. b = [p \in DOMAIN b |-> b[p]]
    BY DEF Build
  <2>2. QED
    BY <1>3, <2>1
<1>5. \E h \in Nat : \A p \in DOMAIN b : Len(p) <= h
  <2>1. PICK h \in Nat : \A i \in 1..n : \A q \in DOMAIN kids[i].value : Len(q) <= h
    BY HeightsBound
  <2>2. ASSUME NEW p \in DOMAIN b PROVE Len(p) <= h + 1
    <3>1. CASE p = <<>>
      BY <3>1
    <3>2. CASE p # <<>>
      <4>1. PICK i \in 1..n : \E q \in DOMAIN kids[i].value : p = <<i>> \o q
        <5>1. InKid(kids, p)
          BY <3>2, BuiltPaths
        <5>2. QED
          BY <5>1 DEF InKid
      <4>2. PICK q \in DOMAIN kids[i].value : p = <<i>> \o q
        BY <4>1
      <4>3. BuiltOf(b, kids, i, q)
        BY BuiltPlaces
      <4>4. Len(p) = Len(q) + 1 /\ Len(q) \in Nat /\ Len(q) <= h
        BY <2>1, <4>2, <4>3 DEF BuiltOf
      <4>5. QED
        BY <4>4
    <3>3. QED
      BY <3>1, <3>2
  <2>3. h + 1 \in Nat
    OBVIOUS
  <2>4. QED
    BY <2>2, <2>3
<1>6. ASSUME NEW p \in DOMAIN b, p # <<>> PROVE Front(p) \in DOMAIN b /\ Last(p) <= b[Front(p)].kids
  <2>1. PICK i \in 1..n : \E q \in DOMAIN kids[i].value : p = <<i>> \o q
    <3>1. InKid(kids, p)
      BY <1>6, BuiltPaths
    <3>2. QED
      BY <3>1 DEF InKid
  <2>2. PICK q \in DOMAIN kids[i].value : p = <<i>> \o q
    BY <2>1
  <2>3. BuiltOf(b, kids, i, q)
    BY BuiltPlaces
  <2>4. CASE q = <<>>
    <3>1. Front(p) = <<>> /\ Last(p) = i
      BY <2>2, <2>3, <2>4 DEF BuiltOf
    <3>2. i <= n
      BY <1>2
    <3>3. QED
      BY <1>1, <1>2, <3>1, <3>2
  <2>5. CASE q # <<>>
    <3>1. PICK u : u = Front(q)
      OBVIOUS
    <3>2. Front(p) = <<i>> \o u /\ Last(p) = Last(q)
      BY <2>2, <2>3, <2>5, <3>1 DEF BuiltOf
    <3>3. u \in DOMAIN kids[i].value /\ Last(q) <= kids[i].value[u].kids
      <4>1. Json(kids[i].value)
        BY BuiltTyped
      <4>2. QED
        BY <2>5, <3>1, <4>1 DEF Json
    <3>4. BuiltOf(b, kids, i, u) /\ BuiltKid(kids, i, u).kids = kids[i].value[u].kids
      BY <3>3, BuiltPlaces, BuiltTyped
    <3>5. <<i>> \o u \in DOMAIN b /\ b[<<i>> \o u].kids = kids[i].value[u].kids
      BY <3>4 DEF BuiltOf
    <3>6. QED
      BY <3>2, <3>3, <3>5
  <2>6. QED
    BY <2>4, <2>5
<1>7. ASSUME NEW i \in 1..n PROVE <<i>> \in DOMAIN b /\ b[<<i>>].name = kids[i].name
  <2>1. <<>> \in DOMAIN kids[i].value
    BY DEF CanBuild, Json
  <2>2. BuiltOf(b, kids, i, <<>>) /\ BuiltKid(kids, i, <<>>).name = kids[i].name
    BY <2>1, BuiltPlaces, BuiltTyped
  <2>3. QED
    BY <2>2 DEF BuiltOf
<1>8. JsonPart(b, <<>>)
  <2>1. ASSUME NEW m \in 1..b[<<>>].kids
        PROVE  /\ Append(<<>>, m) \in DOMAIN b
               /\ IF b[<<>>].type = "obj" THEN b[Append(<<>>, m)].name \in Names ELSE b[Append(<<>>, m)].name = NoName
    <3>1. m \in 1..n /\ Append(<<>>, m) = <<m>>
      BY <1>1, <1>2
    <3>2. <<m>> \in DOMAIN b /\ b[<<m>>].name = kids[m].name
      BY <1>7, <3>1
    <3>3. IF t = BeginObj THEN kids[m].name \in Names ELSE kids[m].name = NoName
      BY <3>1 DEF CanBuild
    <3>4. QED
      BY <1>1, <1>2, <3>1, <3>2, <3>3
  <2>2. QED
    BY <1>1, <1>2, <2>1 DEF JsonPart
<1>9. ASSUME NEW p \in DOMAIN b, p # <<>> PROVE JsonPart(b, p)
  <2>1. PICK i \in 1..n : \E q \in DOMAIN kids[i].value : p = <<i>> \o q
    <3>1. InKid(kids, p)
      BY <1>9, BuiltPaths
    <3>2. QED
      BY <3>1 DEF InKid
  <2>2. PICK q \in DOMAIN kids[i].value : p = <<i>> \o q
    BY <2>1
  <2>3. PICK v : v = kids[i].value
    OBVIOUS
  <2>4. BuiltOf(b, kids, i, q)
    BY BuiltPlaces
  <2>5. /\ b[p].type = v[q].type /\ b[p].atom = v[q].atom /\ b[p].kids = v[q].kids
        /\ Json(v) /\ q \in DOMAIN v
    <3>1. /\ BuiltKid(kids, i, q).type = v[q].type /\ BuiltKid(kids, i, q).atom = v[q].atom
          /\ BuiltKid(kids, i, q).kids = v[q].kids /\ Json(v)
      BY <2>3, BuiltTyped
    <3>2. QED
      BY <2>2, <2>3, <2>4, <3>1 DEF BuiltOf
  <2>6. ASSUME NEW m \in 1..v[q].kids
        PROVE  Append(p, m) \in DOMAIN b /\ b[Append(p, m)].name = v[Append(q, m)].name
    <3>1. PICK u : u = Append(q, m)
      OBVIOUS
    <3>2. q \in Seq(Nat \ {0}) /\ m \in Nat \ {0}
      <4>1. q \in Paths /\ v[q].kids \in Nat
        BY <2>5, JsonFacts
      <4>2. QED
        BY <4>1 DEF Paths
    <3>3. u \in DOMAIN v /\ u # <<>>
      <4>1. u \in DOMAIN v
        BY <2>5, <3>1, JsonFacts
      <4>2. u # <<>>
        BY <3>1, <3>2, AppendFacts
      <4>3. QED
        BY <4>1, <4>2
    <3>4. BuiltOf(b, kids, i, u) /\ BuiltKid(kids, i, u).name = v[u].name
      BY <2>3, <3>3, BuiltPlaces, BuiltTyped
    <3>5. Append(p, m) = <<i>> \o u
      BY <2>2, <2>4, <3>1, <3>2 DEF BuiltOf
    <3>6. QED
      BY <3>1, <3>4, <3>5 DEF BuiltOf
  <2>7. JsonPart(v, q)
    BY <2>5 DEF Json
  <2>8. QED
    BY <2>5, <2>6, <2>7 DEF JsonPart
<1>10. QED
  BY <1>1, <1>2, <1>3, <1>4, <1>5, <1>6, <1>8, <1>9 DEF Json, IsValue

\* A kid of it is what it was built of.
LEMMA PartOfBuilt ==
    ASSUME NEW t, NEW kids, CanBuild(t, kids), NEW b, b = Build(t, kids), NEW i \in 1..Len(kids)
    PROVE  Part(b, <<i>>) = kids[i].value
<1> DEFINE v == kids[i].value
           D == {SubSeq(r, Len(<<i>>) + 1, Len(r)) : r \in {s \in DOMAIN b : IsPrefix(<<i>>, s)}}
<1>0. Json(v) /\ i \in Nat \ {0} /\ <<>> \in DOMAIN v
  BY DEF CanBuild, Json
<1>1. ASSUME NEW q \in DOMAIN v PROVE q \in D
  <2>1. PICK p : p = <<i>> \o q
    OBVIOUS
  <2>2. p \in DOMAIN b /\ p \in Paths /\ Len(p) = Len(q) + 1 /\ Len(q) \in Nat /\ p[1] = i /\ SubSeq(p, 2, Len(p)) = q
    <3>1. BuiltOf(b, kids, i, q)
      BY BuiltPlaces
    <3>2. QED
      BY <2>1, <3>1 DEF BuiltOf
  <2>3. IsPrefix(<<i>>, p)
    BY <2>2 DEF IsPrefix, Paths
  <2>4. SubSeq(p, Len(<<i>>) + 1, Len(p)) = q
    BY <2>2
  <2>5. QED
    BY <2>2, <2>3, <2>4
<1>2. ASSUME NEW q \in D PROVE q \in DOMAIN v
  <2>1. PICK p \in DOMAIN b : IsPrefix(<<i>>, p) /\ q = SubSeq(p, Len(<<i>>) + 1, Len(p))
    OBVIOUS
  <2>2. Len(p) >= 1 /\ q = SubSeq(p, 2, Len(p)) /\ SubSeq(p, 1, 1) = SubSeq(<<i>>, 1, 1)
    BY <2>1 DEF IsPrefix
  <2>3. p # <<>>
    BY <2>2
  <2>4. PICK j \in 1..Len(kids) : \E u \in DOMAIN kids[j].value : p = <<j>> \o u
    <3>1. InKid(kids, p)
      BY <2>3, BuiltPaths
    <3>2. QED
      BY <3>1 DEF InKid
  <2>5. PICK u \in DOMAIN kids[j].value : p = <<j>> \o u
    BY <2>4
  <2>6. BuiltOf(b, kids, j, u)
    BY BuiltPlaces
  <2>7. p \in Paths /\ p[1] = j /\ SubSeq(p, 2, Len(p)) = u /\ Len(p) \in Nat
    BY <2>5, <2>6 DEF BuiltOf, Paths
  <2>8. i = j
    BY <2>2, <2>7 DEF Paths
  <2>9. QED
    BY <2>2, <2>5, <2>7, <2>8
<1>3. D = DOMAIN v
  BY <1>1, <1>2
<1> DEFINE at_(q) == IF q = <<>> THEN [b[<<i>>] EXCEPT !.name = NoName] ELSE b[<<i>> \o q]
<1>4. Part(b, <<i>>) = [q \in D |-> at_(q)]
  BY DEF Part
<1> HIDE DEF D
<1>5. ASSUME NEW q \in DOMAIN v PROVE at_(q) = v[q]
  <2>1. BuiltOf(b, kids, i, q)
    BY BuiltPlaces
  <2>2. CASE q = <<>>
    <3>1. b[<<i>>] = [v[q] EXCEPT !.name = kids[i].name]
      BY <2>1, <2>2 DEF BuiltOf, BuiltKid
    <3>2. v[q] \in Parts /\ v[q].name = NoName
      BY <1>0, <2>2, JsonFacts DEF Json
    <3>3. PICK part, m : part = v[q] /\ m = kids[i].name
      OBVIOUS
    <3>4. [[part EXCEPT !.name = m] EXCEPT !.name = NoName] = part
      BY <3>2, <3>3 DEF Parts
    <3>5. QED
      BY <2>2, <3>1, <3>3, <3>4
  <2>3. CASE q # <<>>
    BY <2>1, <2>3 DEF BuiltOf, BuiltKid
  <2>4. QED
    BY <2>2, <2>3
<1>6. v = [q \in DOMAIN v |-> v[q]]
  BY <1>0 DEF Json, IsValue
<1> HIDE DEF at_
<1>7. QED
  BY <1>3, <1>4, <1>5, <1>6

\* The member of a name that no other has.
LEMMA MemberFound ==
    ASSUME NEW t, NEW kids, CanBuild(t, kids), NEW b, b = Build(t, kids), NEW i \in 1..Len(kids),
           \A j \in 1..Len(kids) : kids[j].name = kids[i].name => j = i
    PROVE  FindValue(b, kids[i].name) = kids[i].value
<1> DEFINE n == kids[i].name
           S == {j \in 1..b[<<>>].kids : b[<<j>>].name = n}
<1>1. b[<<>>].kids = Len(kids) /\ Len(kids) \in Nat
  <2>1. b[<<>>] = [Compound(t) EXCEPT !.kids = Len(kids)]
    <3>1. BuiltAs(b, t, kids)
      BY BuiltParts
    <3>2. QED
      BY <3>1 DEF BuiltAs
  <2>2. QED
    BY <2>1, BuiltRoot
<1>2. ASSUME NEW j \in 1..Len(kids) PROVE b[<<j>>].name = kids[j].name
  <2>1. <<>> \in DOMAIN kids[j].value
    BY DEF CanBuild, Json
  <2>2. BuiltOf(b, kids, j, <<>>) /\ BuiltKid(kids, j, <<>>).name = kids[j].name
    BY <2>1, BuiltPlaces, BuiltTyped
  <2>3. QED
    BY <2>2 DEF BuiltOf
<1>3. S = {i}
  BY <1>1, <1>2
<1>4. FindValue(b, n) = IF S = {} THEN Null ELSE Part(b, <<CHOOSE k \in S : \A j \in S : k <= j>>)
  BY DEF FindValue
<1> HIDE DEF S, n
<1>5. (CHOOSE k \in S : \A j \in S : k <= j) = i /\ S # {}
  <2>1. i <= i
    BY <1>1
  <2>2. \E k \in S : \A j \in S : k <= j
    BY <1>3, <2>1
  <2>3. (CHOOSE k \in S : \A j \in S : k <= j) \in S
    BY <2>2
  <2>4. QED
    BY <1>3, <2>3
<1>6. FindValue(b, n) = Part(b, <<i>>)
  BY <1>4, <1>5
<1>7. QED
  BY <1>6, PartOfBuilt DEF n

\* An atom is a value.
LEMMA AtomJson ==
    ASSUME NEW t \in Atoms
    PROVE  Json(Root(Atom(t)))
<1>1. PICK v : v = Root(Atom(t))
  OBVIOUS
<1>2. /\ DOMAIN v = {<<>>} /\ v[<<>>] = Atom(t) /\ v \in [{<<>>} -> Parts]
      /\ <<>> \in Paths /\ Len(<<>>) = 0
  BY <1>1, AtomTyped, EmptyPath DEF Root
<1>3. v[<<>>].name = NoName /\ v[<<>>].atom = t /\ v[<<>>].kids = 0 /\ v[<<>>].type = AtomType(t)
  BY <1>2 DEF Atom
<1>4. \A p \in DOMAIN v : Len(p) <= 0
  BY <1>2
<1>5. JsonPart(v, <<>>)
  BY <1>3 DEF JsonPart
<1>6. Json(v)
  BY <1>2, <1>3, <1>4, <1>5 DEF Json, IsValue
<1>7. QED
  BY <1>1, <1>6

\* An array has the values it was made of.
ArrayOf(a, values, n) ==
    Json(a) /\ a[<<>>].kids = n /\ \A i \in 1..n : Part(a, <<i>>) = values[i]

\* An array of values is one, and has them in their order.
LEMMA ArrayHolds ==
    ASSUME NEW n \in Nat, NEW values, DOMAIN values = 1..n, \A i \in 1..n : Json(values[i])
    PROVE  ArrayOf(Array(values), values, n)
<1>1. PICK kids : kids = [i \in 1..n |-> Member(NoName, values[i])]
  OBVIOUS
<1>2. PICK a : a = Build(BeginArray, kids)
  OBVIOUS
<1>3. Array(values) = a
  BY <1>1, <1>2 DEF Array
<1>4. Len(kids) = n /\ DOMAIN kids = 1..n
  BY <1>1
<1>5. \A i \in 1..n : kids[i].value = values[i] /\ kids[i].name = NoName
  BY <1>1 DEF Member
<1>6. CanBuild(BeginArray, kids)
  <2>1. BeginArray \in Openings /\ BeginArray # BeginObj
    BY TokenFacts
  <2>2. QED
    BY <1>4, <1>5, <2>1 DEF CanBuild
<1>7. Json(a)
  BY <1>2, <1>6, BuiltJson
<1>8. a[<<>>].kids = n
  <2>1. BuiltAs(a, BeginArray, kids)
    BY <1>2, <1>6, BuiltParts
  <2>2. a[<<>>] = [Compound(BeginArray) EXCEPT !.kids = Len(kids)]
    BY <2>1 DEF BuiltAs
  <2>3. a[<<>>].kids = Len(kids)
    BY <1>6, <2>2, BuiltRoot
  <2>4. QED
    BY <1>4, <2>3
<1>9. ASSUME NEW i \in 1..n PROVE Part(a, <<i>>) = values[i]
  <2>1. i \in 1..Len(kids)
    BY <1>4
  <2>2. Part(a, <<i>>) = kids[i].value
    BY <1>2, <1>6, <2>1, PartOfBuilt
  <2>3. QED
    BY <1>5, <2>2
<1>10. QED
  BY <1>3, <1>7, <1>8, <1>9 DEF ArrayOf
=============================================================================
