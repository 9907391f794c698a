-------------------------- MODULE WaitLoopProofs ---------------------------
(***************************************************************************)
(* Unless a read is torn, a wait hands over a clean stream, and torn or    *)
(* not it is the wait of WaitCall, for any number of keepalives and of     *)
(* other packets.                                                          *)
(***************************************************************************)
EXTENDS WaitLoop, TLAPS

(* As long as no read is torn, the count is true, and forwarding begins    *)
(* according to it; no read is then pending.                               *)
IInv ==
    /\ TypeOK
    /\ CountIsOutstanding
    /\ pc = "forward" => unanswered = 0
    /\ pc = "answers" /\ half # "none" => unanswered > 0
    /\ pc \in {"probing", "forward"} => half = "none"

LEMMA InitIInv == Init => IInv
BY BoundsAssumption DEF Init, IInv, TypeOK, PC, Kinds, CountIsOutstanding, Outstanding

LEMMA IInvStep ==
    ASSUME IInv, [Next]_vars
    PROVE  IInv'
<1> USE BoundsAssumption
    DEF IInv, TypeOK, PC, Kinds, CountIsOutstanding, Outstanding
<1>1. CASE ClientAnswers \/ ClientSends
  BY <1>1 DEF ClientAnswers, ClientSends
<1>2. CASE SendKeepalive
  BY <1>2 DEF SendKeepalive, DropRead
<1>3. CASE Probe \/ ProbeReturns \/ NoticeChange
  BY <1>3 DEF Probe, ProbeReturns, NoticeChange, LeaveLoop, DropRead
<1>4. ASSUME NEW k \in Kinds, ReadPacket(k)
      PROVE  IInv'
  <2>1. CASE k = "answer"
    (* An answer in the stream is one the count includes. *)
    BY <1>4, <2>1 DEF ReadPacket, Reading, Collecting, Took
  <2>2. CASE k = "other"
    BY <1>4, <2>2 DEF ReadPacket, Reading, Collecting, Took
  <2> QED
    BY <2>1, <2>2
<1>5. CASE ReadSecondHalf \/ \E k \in Kinds : ReadFirstHalf(k)
  BY <1>5 DEF ReadSecondHalf, ReadFirstHalf, Reading, Collecting, Took
<1>6. CASE ReadTorn
  BY <1>6 DEF ReadTorn, Reading, Collecting, Took
<1>7. CASE Deadline \/ AnswerTimeout \/ ClientLeaves
  BY <1>7 DEF Deadline, AnswerTimeout, ClientLeaves, Close
<1>8. CASE Forward
  BY <1>8 DEF Forward
<1>9. CASE UNCHANGED vars
  BY <1>9 DEF vars
<1> QED
  BY <1>1, <1>2, <1>3, <1>4, <1>5, <1>6, <1>7, <1>8, <1>9 DEF Next, Loop

(* The wait's state stays in its types.                                    *)
THEOREM TypeCorrect == Spec => []TypeOK
<1>1. IInv /\ [Next]_vars => IInv'
  BY IInvStep
<1>2. IInv => TypeOK
  BY DEF IInv
<1> QED
  BY <1>1, <1>2, InitIInv, PTL DEF Spec

(* The code's count of unanswered keepalives is the true one.              *)
THEOREM CountIsTrue == Spec => []CountIsOutstanding
<1>1. IInv /\ [Next]_vars => IInv'
  BY IInvStep
<1>2. IInv => CountIsOutstanding
  BY DEF IInv
<1> QED
  BY <1>1, <1>2, InitIInv, PTL DEF Spec

(* A forwarded stream holds no answer to a redoxide query, and none is     *)
(* still to come.                                                          *)
THEOREM HandoverIsClean == Spec => []CleanUnlessTorn
<1>1. IInv /\ [Next]_vars => IInv'
  BY IInvStep
<1>2. IInv => CleanUnlessTorn
  <2> SUFFICES ASSUME IInv, pc = "forward", torn = "never"
               PROVE  queries = 0 /\ stream["answer"] = 0
    BY DEF CleanUnlessTorn, CleanHandover, IInv
  <2>1. queries + stream["answer"] = 0
    BY DEF IInv, CountIsOutstanding, Outstanding, TypeOK, Kinds
  <2> QED
    BY <2>1 DEF IInv, TypeOK, Kinds
<1> QED
  BY <1>1, <1>2, InitIInv, PTL DEF Spec

(* The loop, whatever it sends, reads and tears, goes through the phases   *)
(* of the wait Login is built on.                                          *)
THEOREM Implements == Spec => ImplementsWaitCall
<1>1. Init => Wait!Init
  BY DEF Init, Wait!Init, waitPhase
<1>2. TypeOK /\ [Next]_vars => [Wait!Next]_waitPhase
  <2> SUFFICES ASSUME TypeOK, [Next]_vars, waitPhase' # waitPhase
               PROVE  Wait!Next
    OBVIOUS
  <2> USE DEF waitPhase, Wait!Next, Wait!Probes, Wait!ProbeFails, Wait!Ready,
              Wait!Forwards, Wait!GivesUp
  <2>1. CASE ClientAnswers \/ ClientSends \/ SendKeepalive
    BY <2>1 DEF ClientAnswers, ClientSends, SendKeepalive
  <2>2. CASE Probe \/ ProbeReturns \/ NoticeChange
    BY <2>2 DEF Probe, ProbeReturns, NoticeChange, LeaveLoop
  <2>3. ASSUME NEW k \in Kinds, ReadPacket(k) \/ ReadFirstHalf(k)
        PROVE  Wait!Next
    BY <2>3 DEF ReadPacket, ReadFirstHalf, Took
  <2>4. CASE ReadSecondHalf
    BY <2>4 DEF ReadSecondHalf, Took
  <2>5. CASE ReadTorn
    BY <2>5 DEF ReadTorn, Reading, Collecting, Took
  <2>6. CASE Forward \/ Deadline \/ AnswerTimeout \/ ClientLeaves
    BY <2>6 DEF Forward, Deadline, AnswerTimeout, ClientLeaves, Close, Reading, Collecting
  <2>7. CASE UNCHANGED vars
    BY <2>7 DEF vars
  <2> QED
    BY <2>1, <2>2, <2>3, <2>4, <2>5, <2>6, <2>7 DEF Next, Loop
<1> QED
  BY <1>1, <1>2, TypeCorrect, PTL DEF Spec, ImplementsWaitCall, Wait!Spec
=============================================================================
