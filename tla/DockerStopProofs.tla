------------------------- MODULE DockerStopProofs --------------------------
(***************************************************************************)
(* DockerStop implements StopCall, for any number of polls, with or        *)
(* without RCON, and however its peer answers.                             *)
(***************************************************************************)
EXTENDS DockerStop, TLAPS

(* Why success is never premature: nothing has been seen of the container  *)
(* before it is told to go, and whatever stops afterwards is noted.        *)
IInv ==
    /\ TypeOK
    /\ pc = "polling" => polls < MaxPolls
    /\ pc \in {"called", "auth"} => down = "no" /\ polls = 0
    /\ pc = "polling" /\ container = "stopped" => down = "yes"
    /\ pc = "forced" => down = "yes"

LEMMA InitIInv == Init => IInv
BY MaxPollsAssumption DEF Init, IInv, TypeOK, PC

LEMMA IInvStep == IInv /\ [Next]_vars => IInv'
<1> SUFFICES ASSUME IInv, [Next]_vars PROVE IInv'
  OBVIOUS
<1> USE MaxPollsAssumption DEF IInv, TypeOK, PC, At, Notes
<1>1. CASE Call
  BY <1>1 DEF Call
<1>2. CASE RconAccepted
  BY <1>2 DEF RconAccepted
<1>3. CASE RconFails \/ RconPanics
  BY <1>3 DEF RconFails, RconPanics
<1>4. CASE PollSeesStopped \/ PollSeesRunning
  BY <1>4 DEF PollSeesStopped, PollSeesRunning
<1>5. CASE ForceStop \/ ForceReturns \/ ForceFails
  BY <1>5 DEF ForceStop, ForceReturns, ForceFails
<1>6. CASE ContainerMoves
  BY <1>6 DEF ContainerMoves
<1>7. CASE UNCHANGED vars
  BY <1>7 DEF vars
<1> QED
  BY <1>1, <1>2, <1>3, <1>4, <1>5, <1>6, <1>7 DEF Next, StopStep

(* The stop's state stays in its types.                                    *)
THEOREM TypeCorrect == Spec => []TypeOK
<1>1. IInv => TypeOK
  BY DEF IInv
<1> QED
  BY <1>1, InitIInv, IInvStep, PTL DEF Spec

(* RCON, polls and fallback together are the single stop call the idle     *)
(* timer relies on.                                                        *)
THEOREM Implements == Spec => ImplementsStopCall
<1>1. Init => Promise!Init
  BY DEF Init, Promise!Init, stopPhase
<1>2. IInv /\ [Next]_vars => [Promise!Next]_stopPhase
  <2> SUFFICES ASSUME IInv, [Next]_vars, stopPhase' # stopPhase
               PROVE  Promise!Next
    OBVIOUS
  <2> USE DEF IInv, At, Notes, stopPhase, Promise!Next, Promise!GoesDown,
              Promise!Succeeds, Promise!Fails, Promise!Panics
  <2>1. CASE Call \/ RconFails \/ RconPanics
    BY <2>1 DEF Call, RconFails, RconPanics
  <2>2. CASE RconAccepted \/ ContainerMoves
    BY <2>2 DEF RconAccepted, ContainerMoves
  <2>3. CASE PollSeesStopped \/ PollSeesRunning
    BY <2>3 DEF PollSeesStopped, PollSeesRunning
  <2>4. CASE ForceStop \/ ForceReturns \/ ForceFails
    BY <2>4 DEF ForceStop, ForceReturns, ForceFails, TypeOK
  <2>5. CASE UNCHANGED vars
    BY <2>5 DEF vars
  <2> QED
    BY <2>1, <2>2, <2>3, <2>4, <2>5 DEF Next, StopStep
<1> QED
  BY <1>1, <1>2, InitIInv, IInvStep, PTL DEF Spec, ImplementsStopCall, Promise!Spec

(* With a RCON peer that never sends a reply of fewer than ten bytes, the  *)
(* stop always ends as its comment says: such replies are all that breaks  *)
(* it.                                                                     *)
THEOREM FallsBackOnWholeReplies ==
    ASSUME ReplyLengths \cap 0..9 = {}
    PROVE  Spec => []AlwaysFallsBack
<1>1. \A length \in ReplyLengths : RconRecv(length) # "panic"
  BY ReplyLengthsAssumption DEF RconRecv
<1>2. Init => AlwaysFallsBack
  BY DEF Init, AlwaysFallsBack
<1>3. AlwaysFallsBack /\ [Next]_vars => AlwaysFallsBack'
  BY <1>1 DEF AlwaysFallsBack, Next, StopStep, Call, RconAccepted, RconFails,
     RconPanics, PollSeesStopped, PollSeesRunning, ForceStop, ForceReturns,
     ForceFails, ContainerMoves, At, vars
<1> QED
  BY <1>2, <1>3, PTL DEF Spec
=============================================================================
