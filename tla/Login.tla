------------------------------- MODULE Login -------------------------------
(***************************************************************************)
(* A login, from its Login Start packet to the end of the connection       *)
(* (handle_login, wait_for_server and forward in src/proxy.rs), and the    *)
(* docker.start() call it may spawn. One action per access to the shared   *)
(* state. The keepalive traffic of the wait is left out here: it touches   *)
(* nothing another task can see.                                           *)
(***************************************************************************)
EXTENDS SharedState

(* idle: no task. login: reading Login Start. cancel: found the state not  *)
(* Stopping, about to take the idle timer. begin: about to count itself.   *)
(* lock: waiting for start_mutex. held: waiting out Stopping under it.     *)
(* decide: past that wait. start: saw Stopped. check: mutex released.      *)
(* enter: about to subscribe. wait: in select!. probing: in its probe      *)
(* branch. ready: the probe succeeded. answers: collecting keepalive       *)
(* answers. forward: copying bytes to the target.                          *)
SessionState == {"lock", "held", "decide", "start", "check", "enter", "wait",
                 "probing", "ready", "answers", "forward"}
ConnState == {"idle", "login", "cancel", "begin"} \cup SessionState

Sessions == {c \in Conns : conn[c] \in SessionState}

Goto(c, from, to) ==
    /\ conn[c] = from
    /\ conn' = [conn EXCEPT ![c] = to]

---------------------------------------------------------------------------
(* Before the session counts                                               *)

ReadLoginStartFails(c) ==
    /\ Goto(c, "login", "idle")
    /\ UNCHANGED <<watchVars, timerVars, sessionVars, startLock, dockerVars>>

(* cancel_idle_shutdown reads the state first ...                          *)
CancelCheck(c) ==
    /\ Goto(c, "login", IF server = "Stopping" THEN "begin" ELSE "cancel")
    /\ UNCHANGED <<watchVars, timerVars, sessionVars, startLock, dockerVars>>

(* ... and aborts the timer under the idle_timer mutex, later.             *)
CancelAbort(c) ==
    /\ Goto(c, "cancel", "begin")
    /\ CancelIdleTimer
    /\ UNCHANGED <<watchVars, sessionVars, startLock, dockerVars>>

BeginSession_Uncounted(c) ==
    /\ Goto(c, "begin", "lock")
    /\ UNCHANGED <<watchVars, timerVars, sessionVars, startLock, dockerVars>>

BeginSession(c) ==
    /\ Goto(c, "begin", "lock")
    /\ AddPlayer
    /\ UNCHANGED <<watchVars, timerVars, armers, startLock, dockerVars>>

---------------------------------------------------------------------------
(* Under start_mutex                                                       *)

AcquireLock_NoMutex(c) ==
    /\ Goto(c, "lock", "held")
    /\ startLock' = c
    /\ UNCHANGED <<watchVars, timerVars, sessionVars, dockerVars>>

AcquireLock(c) ==
    /\ startLock = None
    /\ Goto(c, "lock", "held")
    /\ startLock' = c
    /\ UNCHANGED <<watchVars, timerVars, sessionVars, dockerVars>>

(* The loop over state_rx.changed(): leaves when it reads another state.   *)
WaitOutStop(c) ==
    /\ server # "Stopping"
    /\ Goto(c, "held", "decide")
    /\ UNCHANGED <<watchVars, timerVars, sessionVars, startLock, dockerVars>>

Decide_IgnoresStarting(c) ==
    \/ /\ server \in {"Stopped", "Starting"}
       /\ Goto(c, "decide", "start")
       /\ UNCHANGED <<watchVars, timerVars, sessionVars, startLock, dockerVars>>
    \/ /\ server \notin {"Stopped", "Starting"}
       /\ Goto(c, "decide", "check")
       /\ startLock' = None
       /\ UNCHANGED <<watchVars, timerVars, sessionVars, dockerVars>>

Decide(c) ==
    \/ /\ server = "Stopped"
       /\ Goto(c, "decide", "start")
       /\ UNCHANGED <<watchVars, timerVars, sessionVars, startLock, dockerVars>>
    \/ /\ server # "Stopped"
       /\ Goto(c, "decide", "check")
       /\ startLock' = None
       /\ UNCHANGED <<watchVars, timerVars, sessionVars, dockerVars>>

(* Starting is published, docker.start() spawned, the mutex released.      *)
IssueStart(c) ==
    /\ Goto(c, "start", "check")
    /\ SetState("Starting")
    /\ \E s \in Starts :
          /\ start[s] = "free"
          /\ start' = [start EXCEPT ![s] = "sent"]
    /\ startLock' = None
    /\ UNCHANGED <<timerVars, sessionVars, container>>

---------------------------------------------------------------------------
(* The wait for the backend                                                *)

CheckRunning(c) ==
    /\ Goto(c, "check", IF server = "Running" THEN "forward" ELSE "enter")
    /\ UNCHANGED <<watchVars, timerVars, sessionVars, startLock, dockerVars>>

(* Leaving the function drops the receiver and the SessionGuard.           *)
EndSession(c, from) ==
    /\ Goto(c, from, "idle")
    /\ unseen' = unseen \ {c}
    /\ DropSession
    /\ UNCHANGED <<server, timerVars, startLock, dockerVars>>

EnterWait_NoSnapshot(c) ==
    /\ Goto(c, "enter", "wait")
    /\ unseen' = unseen \ {c}
    /\ UNCHANGED <<server, timerVars, sessionVars, startLock, dockerVars>>

(* subscribe() and the look at the value it starts from.                   *)
EnterWait(c) ==
    \/ server = "Stopped" /\ EndSession(c, "enter")
    \/ /\ server # "Stopped"
       /\ Goto(c, "enter", "wait")
       /\ unseen' = unseen \ {c}
       /\ UNCHANGED <<server, timerVars, sessionVars, startLock, dockerVars>>

NoticeChange_SkipsAnswers(c) ==
    /\ c \in unseen
    /\ \/ server = "Stopped" /\ EndSession(c, "wait")
       \/ /\ server # "Stopped"
          /\ Goto(c, "wait", IF server = "Running" THEN "forward" ELSE "wait")
          /\ unseen' = unseen \ {c}
          /\ UNCHANGED <<server, timerVars, sessionVars, startLock, dockerVars>>

(* state_rx.changed() resolves and the current value is read.              *)
NoticeChange(c) ==
    /\ c \in unseen
    /\ \/ server = "Stopped" /\ EndSession(c, "wait")
       \/ /\ server # "Stopped"
          /\ Goto(c, "wait", IF server = "Running" THEN "answers" ELSE "wait")
          /\ unseen' = unseen \ {c}
          /\ UNCHANGED <<server, timerVars, sessionVars, startLock, dockerVars>>

Deadline(c) == EndSession(c, "wait")

Probe(c) ==
    /\ Goto(c, "wait", "probing")
    /\ UNCHANGED <<watchVars, timerVars, sessionVars, startLock, dockerVars>>

(* Only a container that serves status replies makes a probe succeed, and  *)
(* any probe may fail. Success leaves the loop: changes no longer matter.  *)
ProbeReturns(c) ==
    /\ \/ Goto(c, "probing", "wait") /\ UNCHANGED unseen
       \/ /\ container = "up"
          /\ Goto(c, "probing", "ready")
          /\ unseen' = unseen \ {c}
    /\ UNCHANGED <<server, timerVars, sessionVars, startLock, dockerVars>>

(* update_version_info was awaited in between; the state is not re-read.   *)
PublishRunning(c) ==
    /\ Goto(c, "ready", "answers")
    /\ SetState("Running")
    /\ UNCHANGED <<timerVars, sessionVars, startLock, dockerVars>>

(* Every keepalive answered: forward. One missing past its timeout: drop.  *)
CollectAnswers(c) ==
    \/ /\ Goto(c, "answers", "forward")
       /\ UNCHANGED <<watchVars, timerVars, sessionVars, startLock, dockerVars>>
    \/ EndSession(c, "answers")

(* The client leaves a wait, or either side ends the forwarded stream. A   *)
(* client that leaves while its login is under start_mutex goes unnoticed. *)
PeerCloses(c) == \E from \in {"wait", "forward"} : EndSession(c, from)

---------------------------------------------------------------------------
(* The spawned docker.start() call                                         *)

StartApplied(s) ==
    /\ start[s] \in {"sent", "stray"}
    /\ start' = [start EXCEPT ![s] = IF @ = "sent" THEN "applied" ELSE "free"]
    /\ container' = IF container = "stopped" THEN "booting" ELSE container
    /\ UNCHANGED <<watchVars, timerVars, sessionVars, loginVars>>

StartReturns(s) ==
    /\ start[s] = "applied"
    /\ start' = [start EXCEPT ![s] = "free"]
    /\ UNCHANGED <<watchVars, timerVars, sessionVars, loginVars, container>>

(* An error may come although the daemon did act (a lost reply).           *)
StartFails(s) ==
    /\ "start_fails" \in Faults
    /\ start[s] \in {"sent", "applied"}
    /\ start' = [start EXCEPT ![s] = "free"]
    /\ SetState("Stopped")
    /\ UNCHANGED <<timerVars, sessionVars, loginVars, container>>

StartLost(s) ==
    /\ start[s] = "stray"
    /\ start' = [start EXCEPT ![s] = "free"]
    /\ UNCHANGED <<watchVars, timerVars, sessionVars, loginVars, container>>

StartStep(s) == StartApplied(s) \/ StartReturns(s) \/ StartFails(s) \/ StartLost(s)

(* What the connection's own task does, its peers aside.                   *)
LoginTask(c) ==
    \/ CancelCheck(c) \/ CancelAbort(c) \/ BeginSession(c)
    \/ AcquireLock(c) \/ WaitOutStop(c) \/ Decide(c) \/ IssueStart(c)
    \/ CheckRunning(c) \/ EnterWait(c) \/ NoticeChange(c) \/ Deadline(c)
    \/ Probe(c) \/ ProbeReturns(c) \/ PublishRunning(c) \/ CollectAnswers(c)

LoginStep(c) == LoginTask(c) \/ ReadLoginStartFails(c) \/ PeerCloses(c)

=============================================================================
