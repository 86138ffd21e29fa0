-------------------------------- MODULE Job --------------------------------
(***************************************************************************)
(* A job: an input, and the functions of the program that handle it one    *)
(* after another.                                                          *)
(***************************************************************************)

VARIABLES
    job,   \* which
    in,    \* its input
    out,   \* what has been made of it
    pc     \* the function that is next, or "done"

jobVars == <<job, in, out, pc>>

\* The function that is next is f: it makes result, and the next is g.
Step(f, result, g) ==
    /\ pc = f
    /\ out' = result
    /\ pc' = g
    /\ UNCHANGED <<job, in>>

Done(j) == job = j /\ pc = "done"
=============================================================================
