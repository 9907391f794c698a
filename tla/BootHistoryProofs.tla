------------------------- MODULE BootHistoryProofs -------------------------
(***************************************************************************)
(* Proofs about BootHistory: what is proved of Lifecycle holds with the    *)
(* history, and no boot gets two starts.                                   *)
(***************************************************************************)
EXTENDS BootHistory, LifecycleProofs

(* A login that has seen Stopped is about to send the first start of a     *)
(* boot: it holds start_mutex, so no other has sent one since.             *)
FirstToStart == \A c \in Conns : conn[c] = "start" => ~boot

BInv == boot \in BOOLEAN /\ FirstToStart

(* The history restricts nothing.                                          *)
LEMMA Forgets == BootSpec => Spec
<1>1. BootInit => Init
  BY DEF BootInit
<1>2. [BootNext]_bootVars => [Next]_vars
  BY DEF BootNext, bootVars
<1> QED
  BY <1>1, <1>2, PTL DEF BootSpec, Spec

LEMMA OnlyIssueStartSends ==
    ASSUME TypeOK, [Next]_vars, Sends
    PROVE  \E c \in Conns : IssueStart(c)
BY DEF Sends, Next, SharedStep, ArmerRuns, TimerStep, TimerFires, TimerStops,
   TimerDies, StopApplied, StrayLost, StopReturns, StopFails, StopPanics, TimerAt,
   StartStep, StartApplied, StartReturns, StartFails, StartLost,
   LoginStep, LoginTask, CancelCheck, CancelAbort, BeginSession,
   AcquireLock, WaitOutStop, Decide, CheckRunning, EnterWait,
   NoticeChange, Deadline, Probe, ProbeReturns, PublishRunning,
   CollectAnswers, ReadLoginStartFails, PeerCloses, EndSession,
   Boot, Accept, MonitorStep, Poll, Compare, PublishLost, Adopt, Count, Arm,
   MonitorAt, Boots, External, Crash, Orphan, TypeOK, vars, sharedVars, dockerVars

(* A login is about to start only on having just read Stopped.             *)
LEMMA StartsFromStopped ==
    ASSUME TypeOK, [Next]_vars, NEW c \in Conns, conn'[c] = "start"
    PROVE  conn[c] = "start" \/ server' = "Stopped"
<1>1. ASSUME NEW d \in Conns, LoginStep(d) \/ Accept(d)
      PROVE  conn[c] = "start" \/ server' = "Stopped"
  BY <1>1 DEF TypeOK, LoginStep, LoginTask, CancelCheck, CancelAbort,
     BeginSession, AcquireLock, WaitOutStop, Decide, IssueStart, CheckRunning,
     EnterWait, NoticeChange, Deadline, Probe, ProbeReturns, PublishRunning,
     CollectAnswers, ReadLoginStartFails, PeerCloses, EndSession, Goto, Accept,
     watchVars
<1>2. ASSUME UNCHANGED conn
      PROVE  conn[c] = "start"
  BY <1>2
<1>3. CASE Crash
  BY <1>3 DEF Crash
<1> QED
  BY <1>1, <1>2, <1>3 DEF Next, SharedStep, ArmerRuns,
     TimerStep, TimerFires, TimerStops, TimerDies, StopApplied, StrayLost,
     StopReturns, StopFails, StopPanics, TimerAt, StartStep, StartApplied,
     StartReturns, StartFails, StartLost, Boot, MonitorStep, Poll, Compare,
     PublishLost, Adopt, Count, Arm, MonitorAt, Boots, External, vars,
     sharedVars, loginVars

LEMMA FirstToStartStep ==
    ASSUME TypeOK, LockHeld, BInv, [BootNext]_bootVars
    PROVE  BInv'
<1>1. CASE UNCHANGED bootVars
  BY <1>1 DEF BInv, FirstToStart, bootVars, vars, sharedVars, loginVars
<1>2. CASE BootNext
  <2>1. boot' \in BOOLEAN
    BY <1>2 DEF BootNext, BInv
  <2>2. CASE Sends
    (* Any other login at "start" would hold the same mutex.               *)
    <3>1. PICK d \in Conns : IssueStart(d)
      BY <1>2, <2>2, OnlyIssueStartSends DEF BootNext
    <3>2. \A c \in Conns : conn'[c] # "start"
      BY <3>1 DEF IssueStart, Goto, LockHeld, TypeOK
    <3> QED
      BY <2>1, <3>2 DEF BInv, FirstToStart
  <2>3. CASE ~Sends
    <3>1. ASSUME NEW c \in Conns, conn'[c] = "start"
          PROVE  ~boot'
      BY <1>2, <2>3, <3>1, StartsFromStopped DEF BootNext, BInv, FirstToStart
    <3> QED
      BY <2>1, <3>1 DEF BInv, FirstToStart
  <2> QED
    BY <2>2, <2>3
<1> QED
  BY <1>1, <1>2

(* Between two docker.start() calls Stopped has been published, for any    *)
(* number of logins and of calls in flight, and under every fault.         *)
THEOREM StartsOnce == BootSpec => OneStartPerBoot
<1>1. BootInit => BInv
  BY DEF BootInit, Init, BInv, FirstToStart
<1>2. IInv /\ BInv /\ [BootNext]_bootVars => BInv'
  BY FirstToStartStep DEF IInv
<1>3. IInv /\ BInv /\ [BootNext]_bootVars => [Sends => ~boot]_bootVars
  <2> SUFFICES ASSUME IInv, BInv, BootNext, Sends
               PROVE  ~boot
    OBVIOUS
  <2>1. PICK c \in Conns : IssueStart(c)
    BY OnlyIssueStartSends DEF IInv, BootNext
  <2> QED
    BY <2>1 DEF IssueStart, Goto, BInv, FirstToStart
<1> QED
  BY <1>1, <1>2, <1>3, Forgets, Inductive, PTL DEF BootSpec, OneStartPerBoot
=============================================================================
