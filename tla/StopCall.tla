----------------------------- MODULE StopCall ------------------------------
(***************************************************************************)
(* What DockerClient::stop promises the idle timer, whatever it does       *)
(* inside: success is reported only for a container that went down after   *)
(* the call began, and an error may come before or after that. It is the   *)
(* stop that SharedState builds on: "stopping" and "exited" of a timer are *)
(* the phases here, and a panic takes the caller with it.                  *)
(***************************************************************************)
VARIABLE phase

Init == phase = "stopping"

GoesDown == phase = "stopping" /\ phase' = "exited"
Succeeds == phase = "exited" /\ phase' = "ok"
Fails == phase \in {"stopping", "exited"} /\ phase' = "err"
Panics == phase = "stopping" /\ phase' = "panicked"

Next == GoesDown \/ Succeeds \/ Fails \/ Panics

Spec == Init /\ [][Next]_phase
=============================================================================
