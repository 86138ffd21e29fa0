----------------------------- MODULE JsonValue -----------------------------
(***************************************************************************)
(* JSON values as the handler reads them: the type tests and getters of    *)
(* json_spirit_value.h and getJsonObjValue() of wrap.h.  Payloads are      *)
(* numbers: a string is a number, "" is 0.  An object is a function of the *)
(* names of its members.                                                   *)
(***************************************************************************)
EXTENDS MachineInt, Sequences

JsonValue(type, v) == [type |-> type, v |-> v, kids |-> <<>>]
JsonNull == JsonValue("null", 0)
JsonArray(kids) == [type |-> "array", v |-> 0, kids |-> kids]

\* find_value(): a name that is missing gives null.
Find(obj, n) == IF n \in DOMAIN obj THEN obj[n] ELSE JsonNull

\* check_type(): the getter of another type throws.
CheckType(v, type) == v.type = type

\* get_int(): a value of 64 bits is cut to an int.
GetInt(v) == ToInt(v.v)

\* getJsonObjValue(): a number or an array of another type is zero or empty.
JsonInt(obj, n) == IF CheckType(Find(obj, n), "int") THEN GetInt(Find(obj, n)) ELSE 0
JsonInt64(obj, n) == IF CheckType(Find(obj, n), "int") THEN Find(obj, n).v ELSE 0
JsonDouble(obj, n) == IF CheckType(Find(obj, n), "real") THEN Find(obj, n).v ELSE 0

JsonKids(obj, n) == IF CheckType(Find(obj, n), "array") THEN Find(obj, n).kids ELSE <<>>

\* The string it was is what it stays when there is none; an array is given
\* as its text, which is not empty.
ArrayText == 1
JsonString(obj, n, old) ==
    CASE CheckType(Find(obj, n), "array") -> ArrayText
      [] CheckType(Find(obj, n), "str") -> Find(obj, n).v
      [] OTHER -> old
=============================================================================
