----------------------------- MODULE WaitCall ------------------------------
(***************************************************************************)
(* What one call of wait_for_server looks like from outside: it waits, it  *)
(* probes, and once the server is known to run it settles the client's     *)
(* answers, to be forwarded or closed. The connections of Login go through *)
(* these phases; WaitLoop shows the loop that implements them.             *)
(***************************************************************************)
VARIABLE phase

Init == phase = "wait"

Probes == phase = "wait" /\ phase' = "probing"
ProbeFails == phase = "probing" /\ phase' = "wait"
Ready == phase \in {"wait", "probing"} /\ phase' = "answers"
Forwards == phase = "answers" /\ phase' = "forward"
GivesUp == phase \in {"wait", "answers"} /\ phase' = "closed"

Next == Probes \/ ProbeFails \/ Ready \/ Forwards \/ GivesUp

Spec == Init /\ [][Next]_phase
=============================================================================
