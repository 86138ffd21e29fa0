---------------------------- MODULE Conversions ----------------------------
(***************************************************************************)
(* The program's pure functions: the jobs of RpcRequest, Records and       *)
(* Texts, and                                                              *)
(*   json      any text read as JSON                                       *)
(***************************************************************************)
EXTENDS RpcRequest, JsonLanguage, Records, Texts

CONSTANTS
    Jobs,       \* the jobs that are checked
    MaxTokens   \* the length of a text that is read

ASSUME BoundsAssumption == MaxTokens \in Nat

vars == <<jobVars, readerVars>>

JsonTokens == {"ab", "id", "#7"} \cup Literals \cup Brackets \cup {Comma, Colon, Nul}

JsonInit == ReaderInit /\ job = "json" /\ in = <<>> /\ pc = "read" /\ out = <<>>

Init ==
    /\ job \in Jobs
    /\ RequestInit \/ JsonInit \/ (ReaderInit /\ (RecordInit \/ TextInit))

ReadToken ==
    /\ job = "json" /\ Len(text) < MaxTokens
    /\ \E t \in JsonTokens : Read(t)
    /\ UNCHANGED jobVars

\* A step of a function that is no token of the reader.
Convert == (RecordNext \/ TextNext) /\ UNCHANGED readerVars

Next == RequestNext \/ ReadToken \/ Convert

Spec == Init /\ [][Next]_vars
=============================================================================
