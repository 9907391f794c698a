---------------------------- MODULE SharedState ----------------------------
(***************************************************************************)
(* The state every task of redoxide shares (src/state.rs) and the          *)
(* operations on it: the watch channel that publishes the server's         *)
(* lifecycle state, the session count, the idle-shutdown timer, and the    *)
(* effect of a `docker stop` on the container.                             *)
(*                                                                         *)
(* tokio's multi-threaded runtime may interleave the tasks between any two *)
(* accesses to shared data, so one action is one access (or a block that   *)
(* holds the lock guarding everything it reads and writes).                *)
(***************************************************************************)
EXTENDS Integers, FiniteSets

CONSTANTS
    Conns,      \* connection tasks; an id is reused when its task has ended
    Timers,     \* spawned idle-timer tasks whose effects are still possible
    Starts,     \* docker.start() calls that can be in flight at once
    None,       \* an empty Option<JoinHandle>, a free mutex
    Faults,     \* what the environment may do wrong, any number of times
    SlowPolls,  \* may a poll under way last longer than a whole idle sleep?
    MaxArmers,  \* bound: no connection is accepted past this many armers
    MaxCrashes  \* bound: exits of the redoxide process

ASSUME ConnsAssumption == IsFiniteSet(Conns) /\ None \notin Conns
ASSUME TimersAssumption == None \notin Timers
ASSUME FaultsAssumption == Faults \subseteq 
    {"start_fails", "stop_fails", "stop_panics", "external"}
ASSUME SlowPollsAssumption == SlowPolls \in BOOLEAN
ASSUME BoundsAssumption == MaxArmers \in Nat /\ MaxCrashes \in Nat

VARIABLES
    server,      \* server_tx: the published ServerState
    unseen,      \* connections whose watch receiver has a change to report
    playerCount, \* player_count
    idleTimer,   \* idle_timer: the task the handle names, or None
    timer,       \* where each idle-timer task stands
    armers,      \* SessionGuard::drop tasks spawned and not yet run
    startLock,   \* start_mutex: the connection that holds it, or None
    conn,        \* where each connection task stands
    start,       \* where each docker.start() call stands
    container    \* external: what the container really does

watchVars == <<server, unseen>>
timerVars == <<idleTimer, timer>>
sessionVars == <<playerCount, armers>>
loginVars == <<startLock, conn>>
dockerVars == <<start, container>>
sharedVars == <<watchVars, timerVars, sessionVars, loginVars, dockerVars>>

ServerState == {"Stopped", "Starting", "Running", "Stopping"}

(* An idle-timer task: sleeping; past the count check; in docker.stop()    *)
(* with the container still alive ("stopping") or gone ("exited"). A       *)
(* "doomed" task was aborted between its count check and its next await; a *)
(* "stray" is a stop request the daemon holds and nobody waits for.        *)
TimerState == {"free", "sleeping", "counted", "doomed", "stopping", "exited", "stray"}

(* "booting": the process runs but answers no status ping; "up": it does.  *)
ContainerState == {"stopped", "booting", "up"}

---------------------------------------------------------------------------
(* The watch channel                                                       *)

Watching == {c \in Conns : conn[c] \in {"wait", "probing"}}

SetState(s) ==
    /\ server' = s
    /\ unseen' = Watching

---------------------------------------------------------------------------
(* Sessions                                                                *)

AddPlayer == playerCount' = playerCount + 1

PlayersLeft_Twice == playerCount - 2

(* fetch_update(saturating_sub) and the saturating value it returns.       *)
PlayersLeft == IF playerCount = 0 THEN 0 ELSE playerCount - 1

DropSession_NoArmer ==
    /\ playerCount' = PlayersLeft
    /\ armers' = armers

DropSession ==
    /\ playerCount' = PlayersLeft
    /\ armers' = IF PlayersLeft = 0 THEN armers + 1 ELSE armers

---------------------------------------------------------------------------
(* The idle timer. JoinHandle::abort takes effect at the task's next await *)
(* and drops the future there: a stop request already sent is not recalled.*)

Aborted(s) ==
    IF s \in {"sleeping", "exited"} THEN "free"
    ELSE IF s = "counted" THEN "doomed"
    ELSE IF s = "stopping" THEN "stray"
    ELSE s

TimersAfterAbort ==
    IF idleTimer = None THEN timer
                        ELSE [timer EXCEPT ![idleTimer] = Aborted(@)]

CancelIdleTimer ==
    /\ timer' = TimersAfterAbort
    /\ idleTimer' = None

ScheduleIdleShutdown_NoAbort ==
    \E t \in Timers :
        /\ timer[t] = "free"
        /\ timer' = [timer EXCEPT ![t] = "sleeping"]
        /\ idleTimer' = t

(* schedule_idle_shutdown, whole: it holds the idle_timer mutex throughout *)
(* and awaits nothing once it has it. It does not look at the state.       *)
ScheduleIdleShutdown ==
    \E t \in Timers :
        /\ TimersAfterAbort[t] = "free"
        /\ timer' = [TimersAfterAbort EXCEPT ![t] = "sleeping"]
        /\ idleTimer' = t

(* The drop task of the last session of a moment reaches its turn.         *)
ArmerRuns ==
    /\ armers > 0
    /\ armers' = armers - 1
    /\ ScheduleIdleShutdown
    /\ UNCHANGED <<watchVars, playerCount, loginVars, dockerVars>>

TimerAt(t, from, to) ==
    /\ timer[t] = from
    /\ timer' = [timer EXCEPT ![t] = to]
    /\ UNCHANGED <<idleTimer, sessionVars, loginVars, start>>

(* The sleep ends and the count is read: with anyone here, do nothing. A   *)
(* doomed task is in the middle of one poll on another thread; unless      *)
(* SlowPolls, it is through before a sleep armed since then has passed.    *)
TimerFires(t) ==
    /\ SlowPolls \/ \A u \in Timers : timer[u] # "doomed"
    /\ TimerAt(t, "sleeping", IF playerCount > 0 THEN "free" ELSE "counted")
    /\ UNCHANGED <<watchVars, container>>

(* Stopping is published, then the stop request goes out.                  *)
TimerStops(t) ==
    /\ TimerAt(t, "counted", "stopping")
    /\ SetState("Stopping")
    /\ UNCHANGED container

(* An abort between the count check and the next await still publishes     *)
(* Stopping; the request may or may not have left by then.                 *)
TimerDies(t) ==
    /\ \E left \in {"stray", "free"} : TimerAt(t, "doomed", left)
    /\ SetState("Stopping")
    /\ UNCHANGED container

(* docker.stop() takes effect; a stray's reply interests nobody.           *)
StopApplied(t) ==
    /\ \/ TimerAt(t, "stopping", "exited")
       \/ TimerAt(t, "stray", "free")
    /\ container' = "stopped"
    /\ UNCHANGED watchVars

(* The daemon or the server drops a request whose sender has gone.         *)
StrayLost(t) ==
    /\ TimerAt(t, "stray", "free")
    /\ UNCHANGED <<watchVars, container>>

StopReturns(t) ==
    /\ TimerAt(t, "exited", "free")
    /\ SetState("Stopped")
    /\ UNCHANGED container

(* Err: the state goes back to Running and nothing is armed.               *)
StopFails(t) ==
    /\ "stop_fails" \in Faults
    /\ \E from \in {"stopping", "exited"} : TimerAt(t, from, "free")
    /\ SetState("Running")
    /\ UNCHANGED container

(* rcon_recv slices a body shorter than its header: the task is gone, the  *)
(* state it published stays.                                               *)
StopPanics(t) ==
    /\ "stop_panics" \in Faults
    /\ TimerAt(t, "stopping", "free")
    /\ UNCHANGED <<watchVars, container>>

TimerStep(t) ==
    \/ TimerFires(t) \/ TimerStops(t) \/ TimerDies(t)
    \/ StopApplied(t) \/ StrayLost(t) \/ StopReturns(t) \/ StopFails(t)
    \/ StopPanics(t)

=============================================================================
