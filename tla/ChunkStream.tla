------------------------------ MODULE ChunkStream ------------------------------
(***************************************************************************)
(* What the stream of one inference promises to the caller of an SDK's     *)
(* chat: the chunks of the response one by one and in order, none of them  *)
(* missing when the stream says it is done; or an error at any point.      *)
(***************************************************************************)
EXTENDS Naturals

CONSTANT Chunks     \* how many chunks the response has

VARIABLES
    given,          \* the caller was given chunks 1..given
    end             \* "open", "done" or "failed"

vars == <<given, end>>

Init == given = 0 /\ end = "open"

Give ==
    /\ end = "open" /\ given < Chunks
    /\ given' = given + 1
    /\ UNCHANGED end

Finish ==
    /\ end = "open" /\ given = Chunks
    /\ end' = "done"
    /\ UNCHANGED given

Fail ==
    /\ end = "open"
    /\ end' = "failed"
    /\ UNCHANGED given

Next == Give \/ Finish \/ Fail

Spec == Init /\ [][Next]_vars
=============================================================================
