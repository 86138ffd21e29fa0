-------------------------------- MODULE Rpc --------------------------------
(***************************************************************************)
(* What a call promises the handler (wrap.cpp:33-67), and all that the     *)
(* model of the process takes of it: when the call ends it has failed, or  *)
(* it yields what the daemon's reply says, whole and unchanged.            *)
(***************************************************************************)
CONSTANTS
    Replies,      \* what a daemon can reply
    Meaning(_),   \* what a reply says: an answer, an error, or no reply at all
    Failed        \* the call threw

VARIABLES
    said,   \* the replies the daemon has given: none yet, or one
    got     \* what calls have come back with: none yet, or one

vars == <<said, got>>

Init == said = {} /\ got = {}

Say(r) == said = {} /\ got = {} /\ said' = {r} /\ UNCHANGED got

End == got = {} /\ got' \in {{Meaning(r)} : r \in said} \cup {{Failed}} /\ UNCHANGED said

Next == (\E r \in Replies : Say(r)) \/ End

Spec == Init /\ [][Next]_vars
=============================================================================
