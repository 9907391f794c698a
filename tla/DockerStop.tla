---------------------------- MODULE DockerStop -----------------------------
(***************************************************************************)
(* DockerClient::stop in src/docker.rs: a RCON /stop if one is configured, *)
(* up to 30 polls of the container, and docker stop as the fallback, while *)
(* the container may be operated by others. It implements StopCall.        *)
(***************************************************************************)
EXTENDS Integers

CONSTANTS
    Rcon,         \* config.rcon is Some
    ReplyLengths, \* length fields the RCON peer may answer the login with
    MaxPolls      \* polls after a RCON stop: 30 in the code

ASSUME RconAssumption == Rcon \in BOOLEAN
ASSUME ReplyLengthsAssumption == ReplyLengths \subseteq Int
ASSUME MaxPollsAssumption == MaxPolls \in Nat \ {0}

VARIABLES
    pc,         \* where the call stands
    polls,      \* polls done
    container,  \* "leaving": told to stop over RCON, saving the world
    down        \* the container went down while the call was at work on it

vars == <<pc, polls, container, down>>

PC == {"called", "auth", "polling", "force", "forced", "ok", "err", "panicked"}

Init ==
    /\ pc = "called"
    /\ polls = 0
    /\ container \in {"up", "stopped"}
    /\ down = "no"

At(from, to) == pc = from /\ pc' = to

(* Once the container has been asked to go, seeing it down counts.         *)
Notes(state) ==
    down' = IF pc' \in {"polling", "forced"} /\ state = "stopped" THEN "yes" ELSE down

---------------------------------------------------------------------------
(* RCON                                                                    *)

MaxRconPacketLen == 4096 + 10

(* rcon_recv on a reply of this length: the length is checked from above,  *)
(* then the body is sliced for the id, the type and a payload before two   *)
(* final zeros, ten bytes in all.                                          *)
RconRecv(length) ==
    IF length < 0 \/ length > MaxRconPacketLen THEN "err"
    ELSE IF length < 4 + 4 + 2 THEN "panic"
    ELSE "ok"

Call ==
    /\ At("called", IF Rcon THEN "auth" ELSE "force")
    /\ UNCHANGED <<polls, container, down>>

(* Authenticated: the command is sent, its answer not awaited; the server  *)
(* acts on it or not.                                                      *)
RconAccepted ==
    /\ \E length \in ReplyLengths : RconRecv(length) = "ok"
    /\ At("auth", "polling")
    /\ \/ UNCHANGED container
       \/ container = "up" /\ container' = "leaving"
    /\ Notes(container')
    /\ UNCHANGED polls

(* No connection, a length out of bounds, an id of -1, no answer within    *)
(* ten seconds.                                                            *)
RconFails ==
    /\ At("auth", "force")
    /\ UNCHANGED <<polls, container, down>>

RconPanics ==
    /\ \E length \in ReplyLengths : RconRecv(length) = "panic"
    /\ At("auth", "panicked")
    /\ UNCHANGED <<polls, container, down>>

PollSeesStopped_Unchecked ==
    /\ At("polling", "ok")
    /\ UNCHANGED <<polls, container, down>>

PollSeesStopped ==
    /\ container = "stopped"
    /\ At("polling", "ok")
    /\ UNCHANGED <<polls, container, down>>

PollSeesRunning_Forever ==
    /\ At("polling", "polling")
    /\ polls' = (polls + 1) % MaxPolls
    /\ UNCHANGED <<container, down>>

PollSeesRunning_OneMore ==
    /\ polls' = polls + 1
    /\ At("polling", IF polls > MaxPolls THEN "force" ELSE "polling")
    /\ UNCHANGED <<container, down>>

(* Still running, or no answer from the daemon: unwrap_or(true).           *)
PollSeesRunning ==
    /\ polls' = polls + 1
    /\ At("polling", IF polls + 1 = MaxPolls THEN "force" ELSE "polling")
    /\ UNCHANGED <<container, down>>

(* docker stop takes effect at the daemon.                                 *)
ForceStop ==
    /\ At("force", "forced")
    /\ container' = "stopped"
    /\ down' = "yes"
    /\ UNCHANGED polls

ForceReturns ==
    /\ At("forced", "ok")
    /\ UNCHANGED <<polls, container, down>>

(* The daemon refuses, or its reply is lost.                               *)
ForceFails ==
    /\ At("force", "err") \/ At("forced", "err")
    /\ UNCHANGED <<polls, container, down>>

---------------------------------------------------------------------------
(* The container: it leaves when told, it crashes, others operate it.      *)

ContainerMoves ==
    /\ \/ container \in {"up", "leaving"} /\ container' = "stopped"
       \/ container = "stopped" /\ container' = "up"
    /\ UNCHANGED <<pc, polls>>
    /\ Notes(container')

StopStep ==
    \/ Call \/ RconAccepted \/ RconFails \/ RconPanics
    \/ PollSeesStopped \/ PollSeesRunning
    \/ ForceStop \/ ForceReturns \/ ForceFails

Next == StopStep \/ ContainerMoves

Spec == Init /\ [][Next]_vars

(* The task runs, RCON is under a timeout, the daemon answers.             *)
FairSpec == Spec /\ WF_vars(StopStep)

---------------------------------------------------------------------------
(* Properties                                                              *)

TypeOK ==
    /\ pc \in PC
    /\ polls \in 0..MaxPolls
    /\ container \in {"up", "leaving", "stopped"}
    /\ down \in {"no", "yes"}

(* The stop, RCON and polls included, is the single call SharedState takes *)
(* it for: it reports success only over a container that went down after   *)
(* the stop was asked for, even if others start it again (docker.rs:55-82).*)
stopPhase ==
    IF pc \in {"ok", "err", "panicked"} THEN pc
    ELSE IF down = "yes" THEN "exited" ELSE "stopping"

Promise == INSTANCE StopCall WITH phase <- stopPhase
ImplementsStopCall == Promise!Spec

(* Every stop comes to an end, however the polls, the RCON peer and the    *)
(* container behave (docker.rs:62-80).                                     *)
StopEnds == <>(pc \in {"ok", "err", "panicked"})

(* "send RCON /stop if configured, fall back to docker stop"               *)
(* (docker.rs:55): no answer of the RCON peer ends the call otherwise.     *)
AlwaysFallsBack == pc # "panicked"
=============================================================================
