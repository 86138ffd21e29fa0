---------------------------- MODULE MCRpcClient ----------------------------
(***************************************************************************)
(* A call that is answered with a result, an error, or something that is   *)
(* neither; "71" is the number that can be cut to another one.             *)
(***************************************************************************)
EXTENDS RpcClient, JsonWriter

Value(t) == Root(Atom(t))

Values ==
    {Object(<<Member("result", Value("71")), Member("error", Null)>>),
     Object(<<Member("result", Array(<<Value("71")>>))>>),
     Object(<<Member("result", Object(<<Member("error", Value("7"))>>))>>),
     Object(<<Member("result", Null), Member("error", Object(<<Member("code", Value("71"))>>))>>),
     Object(<<Member("error", Object(<<>>)), Member("result", Value("7"))>>),
     Object(<<Member("error", Value("code"))>>),
     Object(<<>>), Array(<<Null>>), Value("71")}

MCReplies == {[value |-> v, text |-> Write(v)] : v \in Values}

MCRest(t) ==
    CASE t = "71" -> {"7", Nul}
      [] t \in Atoms \ {"7", "71"} -> {Nul}
      [] OTHER -> {}
=============================================================================
