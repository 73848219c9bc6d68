-------------------------------- MODULE Call --------------------------------
(***************************************************************************)
(* What one request and its response over TCP promise: the request reaches *)
(* the server whole or not at all and is handled at most once, perhaps     *)
(* after the caller gave up; the caller is answered only by a server that  *)
(* has handled it.  Module Network builds the system on these steps.       *)
(***************************************************************************)

VARIABLES
    request,  \* "unsent", "pending", "handled" or "lost"
    outcome   \* "none" while the caller is in the call, "answered" or "failed"

callVars == <<request, outcome>>

Init == request = "unsent" /\ outcome = "none"

Send == request = "unsent" /\ request' = "pending" /\ UNCHANGED outcome

\* Nobody will handle it any more.
Lose == request \in {"unsent", "pending"} /\ request' = "lost" /\ UNCHANGED outcome

Handle == request = "pending" /\ request' = "handled" /\ UNCHANGED outcome

Answer ==
    /\ request = "handled"
    /\ outcome = "none" /\ outcome' = "answered"
    /\ UNCHANGED request

\* A caller that fails sends no more; what it has sent goes its way.
Fail ==
    /\ outcome = "none" /\ outcome' = "failed"
    /\ request' = IF request = "unsent" THEN "lost" ELSE request

Spec == Init /\ [][Send \/ Lose \/ Handle \/ Answer \/ Fail]_callVars

=============================================================================
