------------------------------- MODULE Texts -------------------------------
(***************************************************************************)
(* The conversions of texts that are no replies, each as a job over any    *)
(* input that its constant allows.                                         *)
(*   login     the configured login to Base64 and back                     *)
(*   base64    any text decoded                                            *)
(*   string    a string written as JSON and read back                      *)
(*   config    a configuration file to the settings the program reads      *)
(***************************************************************************)
EXTENDS Job, Base64, JsonText, FidConfig, SequencesExt

CONSTANTS
    Logins,       \* what is encoded
    CodedTexts,   \* what is decoded
    ByteStrings,  \* what is written as a JSON string
    Sections,     \* sections of a configuration file
    Files         \* configuration files

ASSUME BytesAssumption ==
    Logins \subseteq Seq(0..255) /\ CodedTexts \subseteq Seq(0..255) /\ ByteStrings \subseteq Seq(0..255)
ASSUME FilesAssumption == Files \subseteq Seq(Sections)

TextInputs(j) ==
    CASE j = "login" -> Logins
      [] j = "base64" -> CodedTexts
      [] j = "string" -> ByteStrings
      [] j = "config" -> Files

TextStart == [login |-> "encode", base64 |-> "decode", string |-> "write", config |-> "parse"]
TextJobs == DOMAIN TextStart

TextInit ==
    /\ job \in TextJobs
    /\ in \in TextInputs(job)
    /\ pc = TextStart[job]
    /\ out = <<>>

Encode == Step("encode", EncodeBase64(in), "decode")
Decode == Step("decode", DecodeBase64(IF job = "login" THEN out ELSE in), "done")

WriteText == Step("write", WriteString(in), "readString")
ReadText == Step("readString", ReadStringAt(out \o <<44, Quote>>), "done")

ParseFile == Step("parse", ParseFidConfig(in), "settings")
\* main() ends at -1 and at an exception.
UseConfig ==
    /\ pc = "settings" /\ ~out.thrown /\ out.ret # -1
    /\ Step("settings", [settings |-> Settings(out.args), switches |-> Switches(out.args),
                         noLogin |-> NoLogin(out.args)], "done")

TextNext == Encode \/ Decode \/ WriteText \/ ReadText \/ ParseFile \/ UseConfig

TextSpec == TextInit /\ [][TextNext]_jobVars

-----------------------------------------------------------------------------
(* Properties *)

\* The login the daemon decodes is the login that was configured, whatever
\* its bytes and however many (rpcclient.cpp:63, utils.cpp:91-135).
LoginRoundTrip == Done("login") => out = [bytes |-> in, invalid |-> FALSE]

\* A text that decodes is the encoding of what it decodes to, up to what
\* follows its padding: no two logins have one text (utils.cpp:201-220).
Base64AcceptsOnlyEncodings ==
    Done("base64") /\ ~out.invalid => IsPrefix(EncodeBase64(out.bytes), in)

\* A string is read back from a text as it was written, and ends at its own
\* quote, whatever quotes, backslashes and control bytes it has: block
\* hashes, scripts and the arrays stored as text.
StringRoundTrip == Done("string") => out = [bytes |-> in, rest |-> <<44, Quote>>]

\* A setting is that of the first section of its name, the default when the
\* value there is empty, and the getter's own when there is no such section;
\* a section without one of its keys ends the program wherever it stands.
SettingsOfFirstSection ==
    LET Named(n) == {i \in DOMAIN in : in[i].name = n}
        First(n) == CHOOSE i \in Named(n) : \A j \in Named(n) : i <= j
        InFile(n, k) == LET v == in[First(n)].items[k] IN IF v = "" THEN Default ELSE v
        Built(a) == IF a = "-rpcconnect" THEN "127.0.0.1" ELSE ""
        Complete(s) == s.name \in KnownSections => KeysOf(s.name) \subseteq DOMAIN s.items
    IN /\ job = "config" /\ pc = "settings" => out.thrown = ~(\A i \in DOMAIN in : Complete(in[i]))
       /\ Done("config") =>
            /\ \A n \in KnownSections : \A a \in DOMAIN KeyFor[n] :
                 out.settings[a] = IF Named(n) # {} THEN InFile(n, KeyFor[n][a]) ELSE Built(a)
            /\ out.noLogin = (Named("rpc") = {})
            /\ out.settings["-rpcport"] = "19772" /\ TRUE \notin Range(out.switches)
=============================================================================
