----------------------------- MODULE FidConfig -----------------------------
(***************************************************************************)
(* The configuration: the file config.cpp writes and parses into mapArgs,  *)
(* and the getters (utils.cpp, config.cpp) with which initDb() and         *)
(* CallRPC() read it.  A file is the sequence of sections under "fid", a   *)
(* section a name and a function from its keys to their values.            *)
(***************************************************************************)
EXTENDS Integers, Sequences

\* The key of a section that each argument is taken from.
KeyFor == [
    mysql |-> [a \in {"-database", "-dbname", "-dbpasswd", "-dburl", "-dbport"} |->
        CASE a = "-database" -> "database" [] a = "-dbname" -> "dbname" [] a = "-dbpasswd" -> "dbpasswd"
          [] a = "-dburl" -> "dburl" [] a = "-dbport" -> "dbport"],
    rpc |-> [a \in {"-rpcuser", "-rpcpassword", "-rpcconnect"} |->
        CASE a = "-rpcuser" -> "rpcuser" [] a = "-rpcpassword" -> "rpcpasswd"
          [] a = "-rpcconnect" -> "rpcconnect"]]

KnownSections == DOMAIN KeyFor
KeysOf(n) == {KeyFor[n][a] : a \in DOMAIN KeyFor[n]}

Default == "default"

\* generate_defaultfidconfig()
GeneratedFile ==
    <<[name |-> "mysql", items |-> [k \in KeysOf("mysql") |-> "generated"]],
      [name |-> "rpc", items |-> [k \in KeysOf("rpc") |-> "generated"]]>>

SectionArgs(s) ==
    [a \in DOMAIN KeyFor[s.name] |->
        LET v == s.items[KeyFor[s.name][a]] IN IF v = "" THEN Default ELSE v]

\* The log line's mapArgs["database"], mapArgs["rpcuser"] adds these.
Logged(n) == [a \in {IF n = "mysql" THEN "database" ELSE "rpcuser"} |-> ""]

\* Mutant of Insert: assignment in place of map::insert().
InsertOver(args, new) ==
    [a \in DOMAIN args \cup DOMAIN new |-> IF a \in DOMAIN new THEN new[a] ELSE args[a]]

\* map::insert() keeps what is there.
Insert(args, new) ==
    [a \in DOMAIN args \cup DOMAIN new |-> IF a \in DOMAIN args THEN args[a] ELSE new[a]]

\* One round of the loop over the sections; a key that is missing throws.
ParseSection(acc, s) ==
    IF acc.thrown \/ s.name \notin KnownSections THEN acc
    ELSE IF ~(KeysOf(s.name) \subseteq DOMAIN s.items) THEN [acc EXCEPT !.thrown = TRUE]
    ELSE [acc EXCEPT !.args = Insert(Insert(acc.args, SectionArgs(s)), Logged(s.name))]

\* The rounds of the loop.
Parsing(file) ==
    LET acc[n \in 0..Len(file)] ==
            IF n = 0 THEN [args |-> <<>>, thrown |-> FALSE] ELSE ParseSection(acc[n - 1], file[n])
    IN acc

\* parse_fidconfig(): the arguments and the return code, or an exception.
ParseFidConfig(file) ==
    LET acc == Parsing(file)[Len(file)]
    IN [args |-> acc.args, thrown |-> acc.thrown, ret |-> IF file = <<>> THEN -1 ELSE Len(file)]

\* get_fidconfig(), GetArg(), GetBoolArg()
GetFidConfig(args, a) == IF a \in DOMAIN args THEN args[a] ELSE ""
GetArg(args, a, default) == IF a \in DOMAIN args THEN args[a] ELSE default
GetBoolArg(args, a, default) == IF a \in DOMAIN args THEN args[a] \in {"", "1"} ELSE default

\* What initDb() and CallRPC() read: mapArgs["-rpcuser"] is "" when missing.
Settings(args) ==
    [a \in DOMAIN KeyFor["mysql"] \cup {"-rpcuser", "-rpcpassword", "-rpcconnect", "-rpcport"} |->
        CASE a \in DOMAIN KeyFor["mysql"] -> GetFidConfig(args, a)
          [] a \in {"-rpcuser", "-rpcpassword"} -> GetArg(args, a, "")
          [] a = "-rpcconnect" -> GetArg(args, a, "127.0.0.1")
          [] a = "-rpcport" -> GetArg(args, a, "19772")]

Switches(args) == [a \in {"-rpcssl", "-rpcwait"} |-> GetBoolArg(args, a, FALSE)]

\* CallRPC() refuses to call without a login.
NoLogin(args) == GetArg(args, "-rpcuser", "") = "" /\ GetArg(args, "-rpcpassword", "") = ""
=============================================================================
