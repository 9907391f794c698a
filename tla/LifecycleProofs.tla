-------------------------- MODULE LifecycleProofs --------------------------
(***************************************************************************)
(* Proofs about Lifecycle for any set of connections, timers and start     *)
(* calls, every combination of faults and every bound.                     *)
(***************************************************************************)
EXTENDS Lifecycle, FiniteSetTheorems, TLAPS

USE ConnsAssumption, TimersAssumption, BoundsAssumption

LEMMA TypeOKStep ==
    ASSUME TypeOK, [Next]_vars
    PROVE  TypeOK'
<1> USE DEF TypeOK, ServerState, TimerState, ConnState, SessionState,
            ContainerState, MonitorState, sharedVars, watchVars, timerVars,
            sessionVars, loginVars, dockerVars, procVars
<1>1. CASE ArmerRuns /\ UNCHANGED procVars
  BY <1>1 DEF ArmerRuns, ScheduleIdleShutdown, TimersAfterAbort, Aborted
<1>2. ASSUME NEW t \in Timers, TimerStep(t), UNCHANGED procVars
      PROVE  TypeOK'
  BY <1>2 DEF TimerStep, TimerFires, TimerStops, TimerDies, StopApplied,
              StrayLost, StopReturns, StopFails, StopPanics, TimerAt, SetState, Watching
<1>3. ASSUME NEW s \in Starts, StartStep(s), UNCHANGED procVars
      PROVE  TypeOK'
  BY <1>3 DEF StartStep, StartApplied, StartReturns, StartFails, StartLost,
              SetState, Watching
<1>4. ASSUME NEW c \in Conns, LoginStep(c), UNCHANGED procVars
      PROVE  TypeOK'
  BY <1>4 DEF LoginStep, LoginTask, CancelCheck, CancelAbort, BeginSession,
              AcquireLock, WaitOutStop, Decide, IssueStart, CheckRunning,
              EnterWait, NoticeChange, Deadline, Probe, ProbeReturns,
              PublishRunning, CollectAnswers, ReadLoginStartFails, PeerCloses,
              EndSession, DropSession, PlayersLeft, AddPlayer, CancelIdleTimer,
              TimersAfterAbort, Aborted, Goto, SetState, Watching
<1>5. CASE Boot
  BY <1>5 DEF Boot, ScheduleIdleShutdown, TimersAfterAbort, Aborted, SetState, Watching
<1>6. ASSUME NEW c \in Conns, Accept(c)
      PROVE  TypeOK'
  BY <1>6 DEF Accept, Goto
<1>7. CASE MonitorStep
  BY <1>7 DEF MonitorStep, Poll, Compare, PublishLost, Adopt, Count, Arm, MonitorAt,
              ScheduleIdleShutdown, TimersAfterAbort, Aborted, SetState, Watching
<1>8. CASE Boots \/ External
  BY <1>8 DEF Boots, External
<1>9. CASE Crash
  BY <1>9 DEF Crash, Orphan
<1>10. CASE UNCHANGED vars
  BY <1>10 DEF vars
<1> QED
  BY <1>1, <1>2, <1>3, <1>4, <1>5, <1>6, <1>7, <1>8, <1>9, <1>10 DEF Next, SharedStep

LEMMA LockHeldStep ==
    ASSUME TypeOK, LockHeld, [Next]_vars
    PROVE  LockHeld'
<1> USE DEF LockHeld, sharedVars, loginVars, procVars
<1>1. CASE UNCHANGED loginVars
  BY <1>1
<1>2. ASSUME NEW c \in Conns, LoginStep(c)
      PROVE  LockHeld'
  <2>1. conn \in [Conns -> ConnState] /\ startLock \in Conns \cup {None}
    BY DEF TypeOK
  <2> QED
    BY <1>2, <2>1 DEF LoginStep, LoginTask, CancelCheck, CancelAbort, BeginSession,
           AcquireLock, WaitOutStop, Decide, IssueStart, CheckRunning,
           EnterWait, NoticeChange, Deadline, Probe, ProbeReturns,
           PublishRunning, CollectAnswers, ReadLoginStartFails, PeerCloses,
           EndSession, Goto, ConnState, SessionState
<1>3. ASSUME NEW c \in Conns, Accept(c)
      PROVE  LockHeld'
  BY <1>3 DEF Accept, Goto, TypeOK
<1>4. CASE Crash
  BY <1>4 DEF Crash
<1> QED
  BY <1>1, <1>2, <1>3, <1>4 DEF Next, SharedStep, ArmerRuns,
     TimerStep, TimerFires, TimerStops, TimerDies, StopApplied, StrayLost,
     StopReturns, StopFails, StopPanics, TimerAt, StartStep, StartApplied, StartReturns,
     StartFails, StartLost, Boot, MonitorStep, Poll, Compare, PublishLost, Adopt,
     Count, Arm, MonitorAt, Boots, External, vars

---------------------------------------------------------------------------
(* The idle timer                                                          *)

LEMMA ScheduleNamesLive ==
    ASSUME TypeOK, HandleNamesLive, ScheduleIdleShutdown
    PROVE  HandleNamesLive'
BY DEF TypeOK, HandleNamesLive, ScheduleIdleShutdown, TimersAfterAbort, Aborted, TimerState

LEMMA CancelNamesLive ==
    ASSUME TypeOK, HandleNamesLive, CancelIdleTimer
    PROVE  HandleNamesLive'
BY DEF TypeOK, HandleNamesLive, CancelIdleTimer, TimersAfterAbort, Aborted, TimerState

LEMMA HandleNamesLiveStep ==
    ASSUME TypeOK, HandleNamesLive, [Next]_vars
    PROVE  HandleNamesLive'
<1> USE DEF sharedVars, timerVars, procVars
<1>1. CASE UNCHANGED timerVars
  BY <1>1 DEF HandleNamesLive
<1>2. CASE ScheduleIdleShutdown
  BY <1>2, ScheduleNamesLive
<1>3. CASE CancelIdleTimer
  BY <1>3, CancelNamesLive
<1>4. ASSUME NEW t \in Timers, TimerStep(t)
      PROVE  HandleNamesLive'
  BY <1>4 DEF TimerStep, TimerFires, TimerStops, TimerDies, StopApplied,
     StrayLost, StopReturns, StopFails, StopPanics, TimerAt, HandleNamesLive, TypeOK
<1>5. CASE Crash
  BY <1>5 DEF Crash, Orphan, HandleNamesLive
<1>6. ASSUME NEW c \in Conns, LoginStep(c)
      PROVE  CancelIdleTimer \/ UNCHANGED timerVars
  BY <1>6 DEF LoginStep, LoginTask, CancelCheck, CancelAbort,
     BeginSession, AcquireLock, WaitOutStop, Decide, IssueStart, CheckRunning,
     EnterWait, NoticeChange, Deadline, Probe, ProbeReturns,
     PublishRunning, CollectAnswers, ReadLoginStartFails, PeerCloses, EndSession
<1> QED
  BY <1>1, <1>2, <1>3, <1>4, <1>5, <1>6 DEF Next, SharedStep, ArmerRuns,
     StartStep, StartApplied, StartReturns, StartFails, StartLost,
     Boot, Accept, MonitorStep, Poll, Compare, PublishLost, Adopt,
     Count, Arm, Boots, External, vars

---------------------------------------------------------------------------
(* A failed start reaches every waiting login                              *)

LEMMA NoLostFailureStep ==
    ASSUME TypeOK, NoLostFailure, [Next]_vars
    PROVE  NoLostFailure'
<1> USE DEF NoLostFailure, Watching, sharedVars, watchVars, loginVars, procVars
<1>1. ASSUME UNCHANGED conn, UNCHANGED watchVars \/ \E s \in ServerState : SetState(s)
      PROVE  NoLostFailure'
  BY <1>1 DEF SetState
<1>2. ASSUME NEW c \in Conns, LoginStep(c)
      PROVE  NoLostFailure'
  <2>1. conn \in [Conns -> ConnState]
    BY DEF TypeOK
  <2> QED
    BY <1>2, <2>1 DEF LoginStep, LoginTask, CancelCheck, CancelAbort,
       BeginSession, AcquireLock, WaitOutStop, Decide, IssueStart, CheckRunning,
       EnterWait, NoticeChange, Deadline, Probe, ProbeReturns,
       PublishRunning, CollectAnswers, ReadLoginStartFails, PeerCloses,
       EndSession, Goto, SetState, ConnState, SessionState
<1>3. ASSUME NEW c \in Conns, Accept(c)
      PROVE  NoLostFailure'
  BY <1>3 DEF Accept, Goto, TypeOK
<1>4. CASE Crash
  BY <1>4 DEF Crash
<1> QED
  BY <1>1, <1>2, <1>3, <1>4 DEF Next, SharedStep, ArmerRuns,
     TimerStep, TimerFires, TimerStops, TimerDies, StopApplied, StrayLost,
     StopReturns, StopFails, StopPanics, TimerAt, StartStep, StartApplied, StartReturns,
     StartFails, StartLost, Boot, MonitorStep, Poll, Compare, PublishLost, Adopt,
     Count, Arm, MonitorAt, Boots, External, ServerState, vars

---------------------------------------------------------------------------
(* Sessions and their count                                                *)

LEMMA SessionsFinite == IsFiniteSet(Sessions) /\ Cardinality(Sessions) \in Nat
BY FS_Subset, FS_CardinalityType DEF Sessions

(* With the count right, "nobody is here" is the same for both.            *)
LEMMA EmptyMeansZero ==
    ASSUME SessionsCounted
    PROVE  Sessions = {} <=> playerCount = 0
BY SessionsFinite, FS_EmptySet DEF SessionsCounted

LEMMA BeginIsCounted ==
    ASSUME TypeOK, SessionsCounted, NEW c \in Conns, BeginSession(c)
    PROVE  SessionsCounted'
<1>1. c \notin Sessions /\ Sessions' = Sessions \cup {c}
  BY DEF TypeOK, BeginSession, Goto, Sessions, SessionState, ConnState
<1>2. Cardinality(Sessions') = Cardinality(Sessions) + 1
  BY <1>1, SessionsFinite, FS_AddElement
<1> QED
  BY <1>2 DEF SessionsCounted, BeginSession, AddPlayer

LEMMA EndIsCounted ==
    ASSUME TypeOK, SessionsCounted, NEW c \in Conns,
           NEW from \in SessionState, EndSession(c, from)
    PROVE  /\ SessionsCounted'
           /\ playerCount' = 0 => armers' > 0
<1>1. c \in Sessions /\ Sessions' = Sessions \ {c}
  BY DEF TypeOK, EndSession, Goto, Sessions, SessionState, ConnState
<1>2. Cardinality(Sessions') = Cardinality(Sessions) - 1
  BY <1>1, SessionsFinite, FS_RemoveElement
<1>3. playerCount # 0 /\ playerCount \in Nat
  BY <1>1, EmptyMeansZero DEF TypeOK
<1> QED
  BY <1>2, <1>3 DEF SessionsCounted, EndSession, DropSession, PlayersLeft, TypeOK

(* What a login step does to its session: begin it, end it, or neither.    *)
LEMMA LoginStepSessions ==
    ASSUME TypeOK, NEW c \in Conns, LoginStep(c)
    PROVE  \/ BeginSession(c)
           \/ \E from \in SessionState : EndSession(c, from)
           \/ UNCHANGED <<sessionVars, Sessions>>
<1>1. CASE ReadLoginStartFails(c) \/ CancelCheck(c) \/ CancelAbort(c)
  BY <1>1 DEF TypeOK, ReadLoginStartFails, CancelCheck, CancelAbort, Goto,
     Sessions, SessionState, ConnState
<1>2. CASE \/ AcquireLock(c) \/ WaitOutStop(c) \/ Decide(c) \/ IssueStart(c)
           \/ CheckRunning(c) \/ Probe(c) \/ ProbeReturns(c) \/ PublishRunning(c)
  BY <1>2 DEF TypeOK, AcquireLock, WaitOutStop, Decide, IssueStart, CheckRunning,
     Probe, ProbeReturns, PublishRunning, Goto, Sessions, SessionState, ConnState,
     sessionVars
<1>3. CASE EnterWait(c) \/ NoticeChange(c) \/ CollectAnswers(c)
  BY <1>3 DEF TypeOK, EnterWait, NoticeChange, CollectAnswers, Goto,
     Sessions, SessionState, ConnState, sessionVars
<1>4. CASE Deadline(c) \/ PeerCloses(c)
  BY <1>4 DEF Deadline, PeerCloses, SessionState
<1> QED
  BY <1>1, <1>2, <1>3, <1>4 DEF LoginStep, LoginTask

LEMMA SessionsCountedStep ==
    ASSUME TypeOK, SessionsCounted, [Next]_vars
    PROVE  SessionsCounted'
<1> USE DEF sharedVars, sessionVars, loginVars, procVars
<1>1. CASE UNCHANGED <<playerCount, Sessions>>
  BY <1>1 DEF SessionsCounted
<1>2. CASE UNCHANGED <<playerCount, conn>>
  BY <1>1, <1>2 DEF Sessions
<1>3. ASSUME NEW c \in Conns, LoginStep(c)
      PROVE  SessionsCounted'
  BY <1>1, <1>3, LoginStepSessions, BeginIsCounted, EndIsCounted
<1>4. ASSUME NEW c \in Conns, Accept(c)
      PROVE  SessionsCounted'
  <2>1. Sessions' = Sessions
    BY <1>4 DEF Accept, Goto, TypeOK, Sessions, SessionState, ConnState
  <2> QED
    BY <1>1, <1>4, <2>1 DEF Accept
<1>5. CASE Crash
  <2>1. Sessions' = {}
    BY <1>5 DEF Crash, Sessions, SessionState
  <2> QED
    BY <1>5, <2>1, FS_EmptySet DEF Crash, SessionsCounted
<1> QED
  BY <1>2, <1>3, <1>4, <1>5 DEF Next, SharedStep, ArmerRuns,
     TimerStep, TimerFires, TimerStops, TimerDies, StopApplied, StrayLost,
     StopReturns, StopFails, StopPanics, TimerAt, StartStep, StartApplied, StartReturns,
     StartFails, StartLost, Boot, MonitorStep, Poll, Compare, PublishLost, Adopt,
     Count, Arm, MonitorAt, Boots, External, vars

---------------------------------------------------------------------------
(* An empty server that counts as on is always about to be noticed         *)

LEMMA ScheduleCovers ==
    ASSUME TypeOK, ScheduleIdleShutdown
    PROVE  IdleCovered'
BY DEF TypeOK, ScheduleIdleShutdown, TimersAfterAbort, IdleCovered, Covered

LEMMA IdleCoveredStep ==
    ASSUME "stop_fails" \notin Faults,
           TypeOK, TypeOK', SessionsCounted, SessionsCounted', IdleCovered, [Next]_vars
    PROVE  IdleCovered'
<1> USE DEF IdleCovered, Covered, sharedVars, watchVars, timerVars, sessionVars,
            loginVars, dockerVars, procVars
<1>1. Sessions = {} <=> playerCount = 0
  BY EmptyMeansZero
<1>2. Sessions' = {} <=> playerCount' = 0
  <2>1. IsFiniteSet(Sessions')
    BY FS_Subset DEF Sessions
  <2> QED
    BY <2>1, FS_EmptySet DEF SessionsCounted
<1>3. CASE ScheduleIdleShutdown
  BY <1>3, ScheduleCovers
<1>4. ASSUME NEW t \in Timers, TimerStep(t), UNCHANGED procVars
      PROVE  IdleCovered'
  <2>1. CASE TimerFires(t)
    (* It gives up only over a session. *)
    BY <1>1, <1>2, <1>4, <2>1 DEF TimerFires, TimerAt, TypeOK
  <2>2. CASE TimerStops(t) \/ TimerDies(t) \/ StopReturns(t)
    BY <2>2 DEF TimerStops, TimerDies, StopReturns, SetState
  <2>3. CASE StopApplied(t) \/ StrayLost(t) \/ StopPanics(t)
    BY <1>1, <1>2, <1>4, <2>3 DEF StopApplied, StrayLost, StopPanics, TimerAt, TypeOK
  <2>4. CASE StopFails(t)
    BY <2>4 DEF StopFails
  <2> QED
    BY <1>4, <2>1, <2>2, <2>3, <2>4 DEF TimerStep
<1>5. ASSUME NEW s \in Starts, StartStep(s), UNCHANGED procVars
      PROVE  IdleCovered'
  BY <1>1, <1>2, <1>5 DEF StartStep, StartApplied, StartReturns, StartFails,
     StartLost, SetState
<1>6. ASSUME NEW c \in Conns, LoginStep(c), UNCHANGED procVars
      PROVE  IdleCovered'
  <2>1. CASE BeginSession(c)
    <3>1. c \in Sessions'
      BY <2>1 DEF BeginSession, Goto, TypeOK, Sessions, SessionState
    <3> QED
      BY <3>1
  <2>2. ASSUME NEW from \in SessionState, EndSession(c, from)
        PROVE  IdleCovered'
    BY <1>2, <2>2, EndIsCounted
  <2>3. CASE CancelAbort(c)
    BY <2>3 DEF CancelAbort, Goto, TypeOK
  <2>4. CASE CancelCheck(c) \/ ReadLoginStartFails(c)
    BY <1>1, <1>2, <1>6, <2>4 DEF CancelCheck, ReadLoginStartFails, Goto, TypeOK
  <2>5. ASSUME c \in Sessions, UNCHANGED Sessions
        PROVE  IdleCovered'
    BY <2>5
  <2>6. c \in Sessions \/ conn[c] \in {"idle", "login", "cancel", "begin"}
    BY DEF TypeOK, ConnState, Sessions
  <2> QED
    BY <1>6, <2>1, <2>2, <2>3, <2>4, <2>5, <2>6, LoginStepSessions DEF LoginStep, LoginTask,
       AcquireLock, WaitOutStop, Decide, IssueStart, CheckRunning, EnterWait,
       NoticeChange, Deadline, Probe, ProbeReturns, PublishRunning,
       CollectAnswers, PeerCloses, EndSession, Goto, SessionState
<1>7. CASE Boot
  BY <1>1, <1>2, <1>3, <1>7 DEF Boot
<1>8. ASSUME NEW c \in Conns, Accept(c)
      PROVE  IdleCovered'
  BY <1>1, <1>2, <1>8 DEF Accept, Goto, TypeOK
<1>9. CASE MonitorStep
  (* adopt_running skips the timer only over a session. *)
  BY <1>1, <1>2, <1>3, <1>9 DEF MonitorStep, Poll, Compare, PublishLost, Adopt,
     Count, Arm, MonitorAt, SetState, TypeOK
<1>10. CASE Boots \/ External \/ UNCHANGED vars
  BY <1>1, <1>2, <1>10 DEF Boots, External, vars
<1>11. CASE Crash
  BY <1>11 DEF Crash
<1> QED
  BY <1>3, <1>4, <1>5, <1>6, <1>7, <1>8, <1>9, <1>10, <1>11
  DEF Next, SharedStep, ArmerRuns

---------------------------------------------------------------------------
(* The inductive invariant, and what follows from it                       *)

IInv ==
    /\ TypeOK
    /\ SessionsCounted
    /\ HandleNamesLive
    /\ NoLostFailure
    /\ LockHeld

LEMMA InitIInv == Init => IInv
<1> SUFFICES ASSUME Init PROVE IInv
  OBVIOUS
<1>1. TypeOK
  BY DEF Init, TypeOK, ServerState, TimerState, ConnState, ContainerState, MonitorState
<1>2. Sessions = {}
  BY DEF Init, Sessions, SessionState
<1>3. SessionsCounted
  BY <1>2, FS_EmptySet DEF Init, SessionsCounted
<1>4. HandleNamesLive /\ NoLostFailure /\ LockHeld
  BY DEF Init, HandleNamesLive, NoLostFailure, LockHeld
<1> QED
  BY <1>1, <1>3, <1>4 DEF IInv

LEMMA IInvStep == IInv /\ [Next]_vars => IInv'
BY TypeOKStep, SessionsCountedStep, HandleNamesLiveStep, NoLostFailureStep,
   LockHeldStep DEF IInv

THEOREM Inductive == Spec => []IInv
BY InitIInv, IInvStep, PTL DEF Spec

(* Every variable keeps its type, whatever fails and whenever.             *)
THEOREM TypeCorrect == Spec => []TypeOK
<1>1. IInv => TypeOK
  BY DEF IInv
<1> QED
  BY <1>1, Inductive, PTL

(* player_count is exactly the number of open sessions.                    *)
THEOREM CountIsExact == Spec => []SessionsCounted
<1>1. IInv => SessionsCounted
  BY DEF IInv
<1> QED
  BY <1>1, Inductive, PTL

(* The handle names the one idle-timer task not aborted, and no aborted one.*)
THEOREM HandleIsTrue == Spec => []HandleNamesLive
<1>1. IInv => HandleNamesLive
  BY DEF IInv
<1> QED
  BY <1>1, Inductive, PTL

(* Every waiting login learns of a failed start.                           *)
THEOREM FailureReachesWaiters == Spec => []NoLostFailure
<1>1. IInv => NoLostFailure
  BY DEF IInv
<1> QED
  BY <1>1, Inductive, PTL

(* start_mutex is held by exactly the login that may call docker.start().  *)
THEOREM StartMutexHeld == Spec => []LockHeld
<1>1. IInv => LockHeld
  BY DEF IInv
<1> QED
  BY <1>1, Inductive, PTL

(* No idle timer decides to stop the server over an open session.          *)
THEOREM StopsOnlyEmpty == Spec => OnlyEmptyIsStopped
<1> DEFINE Decides(t) == timer[t] = "sleeping" /\ timer'[t] = "counted"
<1>1. ASSUME TypeOK, SessionsCounted, [Next]_vars, NEW t \in Timers, Decides(t)
      PROVE  Sessions = {}
  <2>1. ASSUME NEW u \in Timers, TimerStep(u)
        PROVE  u = t /\ playerCount = 0
    (* Only the end of its own sleep moves a timer on. *)
    BY <1>1, <2>1 DEF TypeOK, TimerStep, TimerFires, TimerStops, TimerDies,
       StopApplied, StrayLost, StopReturns, StopFails, StopPanics, TimerAt
  <2>2. ~ScheduleIdleShutdown /\ ~CancelIdleTimer /\ ~Crash /\ ~UNCHANGED timer
    BY <1>1 DEF TypeOK, ScheduleIdleShutdown, CancelIdleTimer, TimersAfterAbort,
       Aborted, Crash, Orphan
  <2>3. ASSUME NEW c \in Conns, LoginStep(c)
        PROVE  FALSE
    BY <2>2, <2>3 DEF LoginStep, LoginTask, CancelCheck, CancelAbort,
       BeginSession, AcquireLock, WaitOutStop, Decide, IssueStart, CheckRunning,
       EnterWait, NoticeChange, Deadline, Probe, ProbeReturns, PublishRunning,
       CollectAnswers, ReadLoginStartFails, PeerCloses, EndSession, timerVars
  <2>4. playerCount = 0
    BY <1>1, <2>1, <2>2, <2>3 DEF Next, SharedStep, ArmerRuns, StartStep,
       StartApplied, StartReturns, StartFails, StartLost, Boot, Accept,
       MonitorStep, Poll, Compare, PublishLost, Adopt, Count, Arm, Boots, External,
       timerVars, sharedVars, vars
  <2> QED
    BY <1>1, <2>4, EmptyMeansZero
<1>2. IInv /\ [Next]_vars =>
        [\A t \in Timers :
            timer[t] = "sleeping" /\ timer'[t] = "counted" => Sessions = {}]_vars
  BY <1>1 DEF IInv
<1> QED
  BY <1>2, Inductive, PTL DEF Spec, OnlyEmptyIsStopped

(* Every login waits as WaitCall says, until redoxide exits.               *)
THEOREM WaitsInPhases == Spec => LoginWaits
<1> DEFINE Phases ==
      \A c \in Conns :
          conn[c] \in {"wait", "probing", "ready", "answers"} /\ UNCHANGED crashes
              => Wait(c)!Next \/ UNCHANGED WaitPhase(c)
<1>1. ASSUME TypeOK, [Next]_vars
      PROVE  Phases
  <2> SUFFICES ASSUME NEW c \in Conns, UNCHANGED crashes,
                      conn[c] \in {"wait", "probing", "ready", "answers"}
               PROVE  Wait(c)!Next \/ UNCHANGED WaitPhase(c)
    OBVIOUS
  <2> USE DEF WaitPhase, Wait!Next, Wait!Probes, Wait!ProbeFails, Wait!Ready,
              Wait!Forwards, Wait!GivesUp
  <2>1. CASE conn'[c] = conn[c]
    BY <2>1
  <2>2. CASE LoginStep(c)
    BY <1>1, <2>2 DEF TypeOK, LoginStep, LoginTask, CancelCheck, CancelAbort,
       BeginSession, AcquireLock, WaitOutStop, Decide, IssueStart, CheckRunning,
       EnterWait, NoticeChange, Deadline, Probe, ProbeReturns, PublishRunning,
       CollectAnswers, ReadLoginStartFails, PeerCloses, EndSession, Goto
  <2>3. ASSUME NEW d \in Conns, d # c, LoginStep(d) \/ Accept(d)
        PROVE  conn'[c] = conn[c]
    BY <1>1, <2>3 DEF TypeOK, LoginStep, LoginTask, CancelCheck, CancelAbort,
       BeginSession, AcquireLock, WaitOutStop, Decide, IssueStart, CheckRunning,
       EnterWait, NoticeChange, Deadline, Probe, ProbeReturns, PublishRunning,
       CollectAnswers, ReadLoginStartFails, PeerCloses, EndSession, Goto, Accept
  <2>4. ~Accept(c)
    BY DEF Accept, Goto
  <2>5. ~Crash
    BY <1>1 DEF Crash, TypeOK
  <2> QED
    BY <1>1, <2>1, <2>2, <2>3, <2>4, <2>5 DEF Next, SharedStep, ArmerRuns,
       TimerStep, TimerFires, TimerStops, TimerDies, StopApplied, StrayLost,
       StopReturns, StopFails, StopPanics, TimerAt, StartStep, StartApplied,
       StartReturns, StartFails, StartLost, Boot, MonitorStep, Poll, Compare,
       PublishLost, Adopt, Count, Arm, MonitorAt, Boots, External, vars,
       sharedVars, loginVars
<1>2. TypeOK /\ [Next]_vars => [Phases]_vars
  BY <1>1
<1> QED
  BY <1>2, TypeCorrect, PTL DEF Spec, LoginWaits

(* As long as no docker stop fails, an empty server redoxide counts as on  *)
(* always has something pending that will arm or fire the idle timer.      *)
THEOREM EmptyServerIsCovered ==
    ASSUME "stop_fails" \notin Faults
    PROVE  Spec => []IdleCovered
<1>1. Init => IdleCovered
  BY DEF Init, IdleCovered
<1>2. IInv /\ IInv' /\ IdleCovered /\ [Next]_vars => IdleCovered'
  BY IdleCoveredStep DEF IInv
<1> QED
  BY <1>1, <1>2, Inductive, PTL DEF Spec

=============================================================================
