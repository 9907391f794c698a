----------------------------- MODULE Lifecycle -----------------------------
(***************************************************************************)
(* The whole on-demand lifecycle: any number of logins (Login), the idle   *)
(* timer (SharedState), the startup adoption and the 15-second sync task   *)
(* of src/main.rs, a container that boots, dies and is operated by others, *)
(* and a redoxide process that may exit and be restarted.                  *)
(***************************************************************************)
EXTENDS Login

VARIABLES
    monitor,    \* where main and then its sync task stand
    crashes     \* exits of the process so far

procVars == <<monitor, crashes>>
vars == <<sharedVars, procVars>>

(* boot: main before it listens. idle: between two polls. sawUp, sawDown:  *)
(* is_running() has answered. lost: about to publish Stopped. adopt,       *)
(* count, arm: the three steps of adopt_running.                           *)
MonitorState == {"boot", "idle", "sawUp", "sawDown", "lost", "adopt", "count", "arm"}

Init ==
    /\ server = "Stopped"
    /\ unseen = {}
    /\ playerCount = 0
    /\ idleTimer = None
    /\ timer = [t \in Timers |-> "free"]
    /\ armers = 0
    /\ startLock = None
    /\ conn = [c \in Conns |-> "idle"]
    /\ start = [s \in Starts |-> "free"]
    /\ container \in ContainerState
    /\ monitor = "boot"
    /\ crashes = 0

---------------------------------------------------------------------------
(* main: one inspection, an error taken for "not running", then adoption.  *)
(* Nothing else runs yet, so adopt_running is one step here.               *)
Boot ==
    /\ monitor = "boot"
    /\ \/ UNCHANGED <<watchVars, timerVars>>
       \/ /\ container # "stopped"
          /\ SetState("Running")
          /\ ScheduleIdleShutdown
    /\ monitor' = "idle"
    /\ UNCHANGED <<sessionVars, loginVars, dockerVars, crashes>>

Accept(c) ==
    /\ monitor # "boot"
    /\ armers < MaxArmers
    /\ Goto(c, "idle", "login")
    /\ UNCHANGED <<watchVars, timerVars, sessionVars, startLock, dockerVars, procVars>>

---------------------------------------------------------------------------
(* The sync task                                                           *)

MonitorAt(from, to) ==
    /\ monitor = from
    /\ monitor' = to
    /\ UNCHANGED <<sessionVars, loginVars, dockerVars, crashes>>

(* A tick that gets an answer; one that gets an error changes nothing.     *)
Poll ==
    /\ MonitorAt("idle", IF container = "stopped" THEN "sawDown" ELSE "sawUp")
    /\ UNCHANGED <<watchVars, timerVars>>

Compare_RunningOnly ==
    /\ \/ MonitorAt("sawDown", "idle")
       \/ MonitorAt("sawUp", IF server = "Stopped" THEN "adopt" ELSE "idle")
    /\ UNCHANGED <<watchVars, timerVars>>

(* The answer, possibly stale by now, meets the current state.             *)
Compare ==
    /\ \/ MonitorAt("sawDown", IF server = "Running" THEN "lost" ELSE "idle")
       \/ MonitorAt("sawUp", IF server = "Stopped" THEN "adopt" ELSE "idle")
    /\ UNCHANGED <<watchVars, timerVars>>

PublishLost ==
    /\ MonitorAt("lost", "idle")
    /\ SetState("Stopped")
    /\ UNCHANGED timerVars

(* adopt_running: send_if_modified, then the count, then the timer.        *)
Adopt ==
    /\ MonitorAt("adopt", IF server = "Stopped" THEN "count" ELSE "idle")
    /\ IF server = "Stopped" THEN SetState("Running") ELSE UNCHANGED watchVars
    /\ UNCHANGED timerVars

Count_NeverArms ==
    /\ MonitorAt("count", "idle")
    /\ UNCHANGED <<watchVars, timerVars>>

Count ==
    /\ MonitorAt("count", IF playerCount = 0 THEN "arm" ELSE "idle")
    /\ UNCHANGED <<watchVars, timerVars>>

Arm ==
    /\ MonitorAt("arm", "idle")
    /\ ScheduleIdleShutdown
    /\ UNCHANGED watchVars

MonitorStep == Poll \/ Compare \/ PublishLost \/ Adopt \/ Count \/ Arm

---------------------------------------------------------------------------
(* The environment                                                         *)

Boots ==
    /\ container = "booting"
    /\ container' = "up"
    /\ UNCHANGED <<watchVars, timerVars, sessionVars, loginVars, start, procVars>>

(* Somebody else starts the container, stops it, or it crashes.            *)
External ==
    /\ "external" \in Faults
    /\ container' = IF container = "stopped" THEN "booting" ELSE "stopped"
    /\ UNCHANGED <<watchVars, timerVars, sessionVars, loginVars, start, procVars>>

(* What is left of a request at the daemon when its sender is gone.        *)
Orphan(s) == IF s \in {"sent", "stopping", "stray"} THEN "stray" ELSE "free"

(* The process exits (accept failed, it was killed) and is restarted. All  *)
(* of SharedState is volatile; the container and the daemon's work are not.*)
Crash ==
    /\ crashes < MaxCrashes
    /\ crashes' = crashes + 1
    /\ server' = "Stopped"
    /\ unseen' = {}
    /\ playerCount' = 0
    /\ idleTimer' = None
    /\ timer' = [t \in Timers |-> Orphan(timer[t])]
    /\ armers' = 0
    /\ startLock' = None
    /\ conn' = [c \in Conns |-> "idle"]
    /\ start' = [s \in Starts |-> Orphan(start[s])]
    /\ monitor' = "boot"
    /\ UNCHANGED container

---------------------------------------------------------------------------

SharedStep ==
    \/ ArmerRuns
    \/ \E t \in Timers : TimerStep(t)
    \/ \E s \in Starts : StartStep(s)
    \/ \E c \in Conns : LoginStep(c)

Next ==
    \/ SharedStep /\ UNCHANGED procVars
    \/ Boot
    \/ \E c \in Conns : Accept(c)
    \/ MonitorStep
    \/ Boots
    \/ External
    \/ Crash

Spec == Init /\ [][Next]_vars

(* Every task tokio has made runnable runs, a sleep ends, and the daemon   *)
(* answers. start_mutex is FIFO, and a wait's deadline, once past, is seen *)
(* at the next turn of its loop although probes keep interrupting it: both *)
(* are strong. No client, no boot and no fault is owed to anybody.         *)
Fairness ==
    /\ WF_vars(Boot)
    /\ WF_vars(MonitorStep)
    /\ WF_vars(ArmerRuns /\ UNCHANGED procVars)
    /\ \A t \in Timers : WF_vars(TimerStep(t) /\ UNCHANGED procVars)
    /\ \A s \in Starts : WF_vars(StartStep(s) /\ UNCHANGED procVars)
    /\ \A c \in Conns : /\ WF_vars(LoginTask(c) /\ UNCHANGED procVars)
                        /\ SF_vars(AcquireLock(c) /\ UNCHANGED procVars)
                        /\ SF_vars(Deadline(c) /\ UNCHANGED procVars)

FairSpec == Spec /\ Fairness

---------------------------------------------------------------------------
(* Properties                                                              *)

(* Every variable holds a value of its type in every reachable state.      *)
TypeOK ==
    /\ server \in ServerState
    /\ unseen \subseteq Conns
    /\ playerCount \in Nat
    /\ idleTimer \in Timers \cup {None}
    /\ timer \in [Timers -> TimerState]
    /\ armers \in Nat
    /\ startLock \in Conns \cup {None}
    /\ conn \in [Conns -> ConnState]
    /\ start \in [Starts -> {"free", "sent", "applied", "stray"}]
    /\ container \in ContainerState
    /\ monitor \in MonitorState
    /\ crashes \in 0..MaxCrashes

(* player_count is the number of logins between begin_session and the drop *)
(* of their guard, so the saturating subtraction in remove_player          *)
(* (state.rs:77-84) never hides a lost or doubled decrement.               *)
SessionsCounted == playerCount = Cardinality(Sessions)

(* The handle names the idle-timer task that has not been aborted, if      *)
(* there is one, and no other: two never run side by side, and an arming   *)
(* or a cancel reaches the one that does, in whatever order drops, logins  *)
(* and adoptions come (state.rs:167-207). What is left of an aborted one   *)
(* is out of reach: it may yet publish Stopping ("doomed") and its stop    *)
(* may reach the container ("stray"), next to a stop of the task named.    *)
HandleNamesLive ==
    \A t \in Timers :
        /\ timer[t] \in {"sleeping", "counted", "stopping", "exited"} => idleTimer = t
        /\ timer[t] \in {"doomed", "stray"} => idleTimer # t

(* A container redoxide thinks is on, with no session, is always about to  *)
(* be noticed: a timer has yet to stop it, a drop task or the sync task is *)
(* about to arm one, or a login that cancelled one is about to count. This *)
(* is the gap begin_session's comment says is closed (state.rs:128-137).   *)
Covered ==
    \/ \E t \in Timers : timer[t] \in {"sleeping", "counted", "doomed"}
    \/ armers > 0
    \/ monitor \in {"count", "arm"}
    \/ \E c \in Conns : conn[c] = "begin"

IdleCovered ==
    server \in {"Starting", "Running"} /\ Sessions = {} => Covered

(* The idle timer decides to stop the server only while no login is        *)
(* between begin_session and the drop of its guard, however the drops, the *)
(* armers and the adoptions that armed it were ordered (state.rs:179-183,  *)
(* README.md:33). A login may still begin before the stop goes out.        *)
OnlyEmptyIsStopped ==
    [][ \A t \in Timers :
            timer[t] = "sleeping" /\ timer'[t] = "counted" => Sessions = {} ]_vars

(* A failed start is never missed: a login in its wait that has not yet    *)
(* been told the state is Stopped has the change pending, whether the      *)
(* failure came before or after it subscribed (proxy.rs:216-231).          *)
NoLostFailure ==
    \A c \in Conns :
        conn[c] \in {"wait", "probing"} /\ server = "Stopped" => c \in unseen

(* start_mutex: only its holder stands between reading the state and       *)
(* spawning docker.start() (proxy.rs:122-149).                             *)
LockHeld ==
    \A c \in Conns : conn[c] \in {"held", "decide", "start"} <=> startLock = c

(* From its first look at the state to forwarding or the end, each login   *)
(* goes through the phases WaitLoop implements: answers are settled before *)
(* it is forwarded, and nobody ends a probe in progress (proxy.rs:192-322).*)
WaitPhase(c) ==
    IF conn[c] \in {"wait", "probing", "answers", "forward"} THEN conn[c]
    ELSE IF conn[c] = "ready" THEN "answers"
    ELSE "closed"

Wait(c) == INSTANCE WaitCall WITH phase <- WaitPhase(c)

LoginWaits ==
    [][ \A c \in Conns :
            conn[c] \in {"wait", "probing", "ready", "answers"} /\ UNCHANGED crashes
                => Wait(c)!Next \/ UNCHANGED WaitPhase(c) ]_vars

(* When sessions end for good, nobody comes and others leave the container *)
(* alone, redoxide finds its way to a stopped container and says so,       *)
(* whatever stop, start, adoption or late timer was in flight, whatever    *)
(* others did to the container and even if redoxide was restarted          *)
(* meanwhile: its duty to shut an empty server down (README.md:19, 33).    *)
IdleSettles ==
    <>[](Sessions = {}) /\ <>[][~External]_vars
        => []<>(container = "stopped" /\ server = "Stopped")

(* A published state the container contradicts does not last: Running over *)
(* a dead container, Stopped over a live one (main.rs:47).                 *)
SyncConverges ==
    /\ (server = "Running" /\ container = "stopped")
          ~> (server # "Running" \/ container # "stopped")
    /\ (server = "Stopped" /\ container # "stopped")
          ~> (server # "Stopped" \/ container = "stopped")

---------------------------------------------------------------------------
(* What the source says of itself and the code does not keep               *)

(* A login that waits out a stop proceeds "instead of being stuck behind   *)
(* Stopping forever" (state.rs:196-199): a stop is never abandoned half    *)
(* way ("let it finish instead", state.rs:92-95) with nobody left to say   *)
(* how it ended.                                                           *)
HeldLoginProceeds == \A c \in Conns : conn[c] = "held" ~> conn[c] # "held"

(* Stopping is published before the stop "so a login arriving during the   *)
(* stop sees a state other than Running and waits instead of being         *)
(* forwarded into a container that's shutting down" (state.rs:186-189): no *)
(* login is being forwarded while Stopping is published.                   *)
NoForwardIntoStop ==
    \A c \in Conns : conn[c] = "forward" => server # "Stopping"

(* "Wait for a status reply", since a login forwarded before the server    *)
(* gives one "is dropped without a word" (proxy.rs:245-247): none is       *)
(* forwarded to a server that still boots.                                 *)
ForwardsToReady ==
    [][ \A c \in Conns :
            conn[c] # "forward" /\ conn'[c] = "forward" => container # "booting" ]_vars

=============================================================================
