----------------------------- MODULE WaitLoop ------------------------------
(***************************************************************************)
(* One login's wait for the backend (wait_for_server_with in               *)
(* src/proxy.rs): keepalive queries to the client, the packets it sends    *)
(* meanwhile, and the hand-over of its stream to the real server, which    *)
(* kicks a login for an answer to a query it never sent.                   *)
(*                                                                         *)
(* The client's stream is counted by kind of packet; their order matters   *)
(* to nothing here. A packet may arrive in two halves, and a branch of     *)
(* select! that wins in between drops the half already read.               *)
(*                                                                         *)
(* It implements WaitCall, the wait that Login builds on.                  *)
(***************************************************************************)
EXTENDS Integers

CONSTANTS
    MaxKeepalives,  \* bound: keepalives sent
    MaxOthers       \* bound: packets that are no answer, sent and not yet read

ASSUME BoundsAssumption == MaxKeepalives \in Nat /\ MaxOthers \in Nat

VARIABLES
    pc,          \* where the wait stands
    unanswered,  \* the code's count of keepalives without an answer
    sent,        \* keepalives sent: keepalive_id
    queries,     \* keepalives on their way to the client, or in its hands
    stream,      \* whole packets of the client not yet read, by kind
    half,        \* the packet of which the pending read holds the first half
    torn         \* the stream starts inside a packet: never, now, or did

vars == <<pc, unanswered, sent, queries, stream, half, torn>>

Kinds == {"answer", "other"}
PC == {"select", "probing", "answers", "forward", "closed"}

Init ==
    /\ pc = "select"
    /\ unanswered = 0
    /\ sent = 0
    /\ queries = 0
    /\ stream = [k \in Kinds |-> 0]
    /\ half = "none"
    /\ torn = "never"

---------------------------------------------------------------------------
(* The client answers each query once and may send something else.         *)

ClientAnswers ==
    /\ queries > 0
    /\ queries' = queries - 1
    /\ stream' = [stream EXCEPT !["answer"] = @ + 1]
    /\ UNCHANGED <<pc, unanswered, sent, half, torn>>

ClientSends ==
    /\ stream["other"] < MaxOthers
    /\ stream' = [stream EXCEPT !["other"] = @ + 1]
    /\ UNCHANGED <<pc, unanswered, sent, queries, half, torn>>

---------------------------------------------------------------------------
(* Another branch of select! wins: the read_packet future is dropped, and  *)
(* with it whatever it had taken from the stream.                          *)
DropRead ==
    /\ half' = "none"
    /\ torn' = IF half = "none" THEN torn ELSE "now"

SendKeepalive_Uncounted ==
    /\ pc = "select"
    /\ sent < MaxKeepalives
    /\ sent' = sent + 1
    /\ queries' = queries + 1
    /\ DropRead
    /\ UNCHANGED <<pc, unanswered, stream>>

SendKeepalive ==
    /\ pc = "select"
    /\ sent < MaxKeepalives
    /\ sent' = sent + 1
    /\ unanswered' = unanswered + 1
    /\ queries' = queries + 1
    /\ DropRead
    /\ UNCHANGED <<pc, stream>>

(* The loop is over: the answers still out come first.                     *)
LeaveLoop_Eager ==
    /\ pc' = "forward"
    /\ UNCHANGED <<unanswered, sent, queries, stream>>

LeaveLoop ==
    /\ pc' = "answers"
    /\ UNCHANGED <<unanswered, sent, queries, stream>>

Probe ==
    /\ pc = "select"
    /\ pc' = "probing"
    /\ DropRead
    /\ UNCHANGED <<unanswered, sent, queries, stream>>

ProbeReturns ==
    /\ pc = "probing"
    /\ LeaveLoop \/ (pc' = "select" /\ UNCHANGED <<unanswered, sent, queries, stream>>)
    /\ UNCHANGED <<half, torn>>

(* state_rx.changed(): Running, Stopped, or a state to go on waiting in.   *)
NoticeChange ==
    /\ pc = "select"
    /\ \/ LeaveLoop
       \/ pc' \in {"closed", "select"} /\ UNCHANGED <<unanswered, sent, queries, stream>>
    /\ DropRead

---------------------------------------------------------------------------
(* read_packet, in the loop and after it                                   *)

(* A packet of kind k is taken: an answer lowers the count, which          *)
(* saturates at zero.                                                      *)
Took_AnyPacket(k) ==
    /\ unanswered' = unanswered - 1
    /\ UNCHANGED <<pc, sent, queries>>

Took(k) ==
    /\ unanswered' = IF k = "answer" /\ unanswered > 0 THEN unanswered - 1 ELSE unanswered
    /\ UNCHANGED <<pc, sent, queries>>

Collecting == pc = "answers" /\ unanswered > 0

Reading == pc = "select" \/ Collecting

ReadPacket(k) ==
    /\ Reading /\ half = "none" /\ torn # "now"
    /\ stream[k] > 0
    /\ stream' = [stream EXCEPT ![k] = @ - 1]
    /\ Took(k)
    /\ UNCHANGED <<half, torn>>

ReadFirstHalf(k) ==
    /\ Reading /\ half = "none" /\ torn # "now"
    /\ stream[k] > 0
    /\ stream' = [stream EXCEPT ![k] = @ - 1]
    /\ half' = k
    /\ UNCHANGED <<pc, unanswered, sent, queries, torn>>

ReadSecondHalf ==
    /\ Reading /\ half # "none"
    /\ half' = "none"
    /\ Took(half)
    /\ UNCHANGED <<stream, torn>>

(* What is left of a torn packet is no packet: a framing error, or bytes   *)
(* that happen to read as one of either kind.                              *)
ReadTorn ==
    /\ Reading /\ half = "none" /\ torn = "now"
    /\ torn' = "past"
    /\ \/ pc' = "closed" /\ UNCHANGED <<unanswered, sent, queries>>
       \/ \E k \in Kinds : Took(k)
    /\ UNCHANGED <<stream, half>>

(* `while unanswered > 0` is over; the stream goes to the server.          *)
Forward ==
    /\ pc = "answers" /\ unanswered = 0
    /\ pc' = "forward"
    /\ UNCHANGED <<unanswered, sent, queries, stream, half, torn>>

---------------------------------------------------------------------------
(* Ways out without the server                                             *)

Close ==
    /\ pc' = "closed"
    /\ UNCHANGED <<unanswered, sent, queries, stream, half, torn>>

(* The startup deadline, seen at the top of the loop.                      *)
Deadline == pc = "select" /\ Close

AnswerTimeout_Retries == Collecting /\ UNCHANGED vars

(* answer_timeout without a packet.                                        *)
AnswerTimeout == Collecting /\ Close

(* The client leaves, or cannot be written to.                             *)
ClientLeaves == Reading /\ Close

Loop ==
    \/ SendKeepalive \/ Probe \/ ProbeReturns \/ NoticeChange
    \/ \E k \in Kinds : ReadPacket(k) \/ ReadFirstHalf(k)
    \/ ReadSecondHalf \/ ReadTorn \/ Forward \/ Deadline \/ AnswerTimeout

Next == Loop \/ ClientAnswers \/ ClientSends \/ ClientLeaves

Spec == Init /\ [][Next]_vars

(* The loop turns, and its deadline, once past, is seen at its next turn.  *)
(* The timeout of the last wait starts again with every packet: it is owed *)
(* only when nothing comes. The client owes nothing.                       *)
Silence == half = "none" /\ \A k \in Kinds : stream[k] = 0

Fairness ==
    /\ WF_vars(Loop)
    /\ SF_vars(Deadline)
    /\ WF_vars(AnswerTimeout /\ Silence)

FairSpec == Spec /\ Fairness

---------------------------------------------------------------------------
(* Properties                                                              *)

TypeOK ==
    /\ pc \in PC
    /\ unanswered \in Nat
    /\ sent \in 0..MaxKeepalives
    /\ queries \in Nat
    /\ stream \in [Kinds -> Nat]
    /\ half \in Kinds \cup {"none"}
    /\ torn \in {"never", "now", "past"}

(* The count the code keeps is the number of keepalives whose answer has   *)
(* not been consumed: still with the client, in its stream, or half read   *)
(* (proxy.rs:211-214). A torn read is the only thing that can break it.    *)
Outstanding == queries + stream["answer"] + (IF half = "answer" THEN 1 ELSE 0)

CountIsOutstanding ==
    pc # "closed" /\ torn = "never" => unanswered = Outstanding

(* "consume its answer here so forward() starts the client stream cleanly" *)
(* (proxy.rs:306-307): what is forwarded holds no answer to a redoxide     *)
(* query, now or later, and starts at the beginning of a packet.           *)
CleanHandover ==
    pc = "forward" =>
        queries = 0 /\ stream["answer"] = 0 /\ half = "none" /\ torn # "now"

(* The same, for a wait in which no read was torn.                         *)
CleanUnlessTorn == torn = "never" => CleanHandover

(* Once the client has nothing more to say of its own, the wait is over at *)
(* last, whatever the backend and the probes do and whether or not it has  *)
(* answered (proxy.rs:234, 311).                                           *)
WaitEnds ==
    <>[](stream["other"] = 0) => <>(pc \in {"forward", "closed"})

(* The keepalives, packets and halves of this wait are the detail of the   *)
(* wait Login takes its part in: it is forwarded only past the answers     *)
(* phase, and a probe in progress is neither given up nor overtaken        *)
(* (proxy.rs:233-321).                                                     *)
waitPhase == IF pc = "select" THEN "wait" ELSE pc

Wait == INSTANCE WaitCall WITH phase <- waitPhase
ImplementsWaitCall == Wait!Spec
=============================================================================
