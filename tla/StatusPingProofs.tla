-------------------------- MODULE StatusPingProofs --------------------------
(***************************************************************************)
(* What redoxide knows, caches and shows of its server's version, for any  *)
(* releases, any number of probing tasks and of pings.                     *)
(***************************************************************************)
EXTENDS StatusPing, TLAPS

USE ReleasesAssumption, BoundsAssumption

(* The cache holds what some probe has met, and so does every update.      *)
RealInv ==
    /\ TypeOK
    /\ CacheIsReal
    /\ release \in served
    /\ \A p \in Probers : stage[p] # "idle" => saw[p] \in served

LEMMA ConfigIsPair ==
    /\ ConfigInfo \in Pairs
    /\ \A r \in Releases : r.protocol \in Protocols /\ r.name \in Names
<1>1. ConfigInfo.protocol \in Protocols /\ ConfigInfo.name \in Names
  BY DEF Protocols, Names
<1>2. ConfigInfo = [protocol |-> ConfigInfo.protocol, name |-> ConfigInfo.name]
  OBVIOUS
<1> QED
  BY <1>1, <1>2 DEF Protocols, Names, Pairs

LEMMA InitReal == Init => RealInv
<1> SUFFICES ASSUME Init PROVE RealInv
  OBVIOUS
<1>1. /\ protocol \in Protocols
      /\ name \in Names \cup {None}
  <2>1. CASE file \in Releases
    BY <2>1 DEF Init, Protocols, Names
  <2>2. CASE file \notin Releases
    BY <2>2 DEF Init, Protocols, Names
  <2> QED
    BY <2>1, <2>2
<1>2. TypeOK
  <2>1. upgrades \in 0..MaxUpgrades /\ crashes \in 0..MaxCrashes
    BY DEF Init
  <2>2. release \in Releases /\ served \subseteq Releases
    BY DEF Init
  <2>3. shown \in [Pings -> Pairs]
    BY ConfigIsPair DEF Init
  <2> QED
    BY <1>1, <2>1, <2>2, <2>3 DEF Init, TypeOK, Stages, PingStages
<1> QED
  BY <1>2 DEF Init, RealInv, CacheIsReal

LEMMA TypeOKStep ==
    ASSUME TypeOK, [Next]_vars
    PROVE  TypeOK'
<1> USE DEF TypeOK, Stages, PingStages, infoVars, proberVars, historyVars,
            pingVars, boundVars
<1>1. ASSUME NEW p \in Probers, ProbeAnswers(p) \/ UpdateStep(p),
             UNCHANGED <<pingVars, boundVars>>
      PROVE  TypeOK'
  <2> USE DEF Goes, Completes
  <2>1. CASE ProbeAnswers(p) \/ CompareProtocol(p) \/ CompareName(p)
    BY <1>1, <2>1, ConfigIsPair DEF ProbeAnswers, CompareProtocol, CompareName
  <2>2. CASE StoreProtocol(p)
    BY <1>1, <2>2, ConfigIsPair DEF StoreProtocol
  <2>5. CASE StoreName(p)
    <3>1. name' \in Names
      BY <2>5, ConfigIsPair DEF StoreName
    <3>2. changed' \in [Probers -> BOOLEAN] /\ probed' \in BOOLEAN
      BY <2>5 DEF StoreName
    <3>3. stage' \in [Probers -> Stages]
      BY <2>5 DEF StoreName
    <3> QED
      BY <1>1, <2>5, <3>1, <3>2, <3>3 DEF StoreName
  <2>3. CASE SaveFails(p) \/ Truncate(p)
    BY <1>1, <2>3 DEF SaveFails, Truncate
  <2>4. CASE Write(p) \/ WriteFails(p)
    BY <1>1, <2>4 DEF Write, WriteFails
  <2> QED
    BY <1>1, <2>1, <2>2, <2>3, <2>4, <2>5 DEF UpdateStep
<1>2. ASSUME NEW c \in Pings, PingStep(c)
      PROVE  TypeOK'
  <2>1. CASE Accept(c) \/ Handshake(c) \/ StatusRequest(c) \/ HelloTimeout(c)
    BY <2>1 DEF Accept, Handshake, StatusRequest, HelloTimeout, PingGoes
  <2>2. Known \in Pairs
    BY ConfigIsPair DEF Known, Pairs
  <2>3. /\ [shown[c] EXCEPT !.protocol = Known.protocol] \in Pairs
        /\ [shown[c] EXCEPT !.name = Known.name] \in Pairs
    BY <2>2 DEF Pairs
  <2>4. CASE ReadProtocol(c) \/ ReadName(c) \/ Pong(c)
    <3>1. shown' \in [Pings -> Pairs]
      BY <2>3, <2>4, ConfigIsPair DEF ReadProtocol, ReadName, Pong
    <3> QED
      BY <2>4, <3>1 DEF ReadProtocol, ReadName, Pong, PingGoes
  <2> QED
    BY <1>2, <2>1, <2>4 DEF PingStep, PingTask
<1>3. CASE Upgrade
  <2>1. upgrades' \in 0..MaxUpgrades
    BY <1>3 DEF Upgrade
  <2>2. release' \in Releases /\ served' \subseteq Releases
    BY <1>3 DEF Upgrade
  <2>3. fresh' \in [Pings -> BOOLEAN] /\ probed' \in BOOLEAN
    BY <1>3 DEF Upgrade
  <2> QED
    BY <1>3, <2>1, <2>2, <2>3 DEF Upgrade
<1>4. CASE Crash
  <2>1. /\ protocol' \in Protocols
        /\ name' \in Names \cup {None}
    <3>1. CASE file' \in Releases
      BY <1>4, <3>1 DEF Crash, Reload, Protocols, Names
    <3>2. CASE file' \notin Releases
      BY <1>4, <3>2 DEF Crash, Reload, Protocols, Names
    <3> QED
      BY <3>1, <3>2
  <2>2. crashes' \in 0..MaxCrashes
    BY <1>4 DEF Crash
  <2> QED
    BY <1>4, <2>1, <2>2, ConfigIsPair DEF Crash
<1>5. CASE UNCHANGED vars
  BY <1>5 DEF vars
<1> QED
  BY <1>1, <1>2, <1>3, <1>4, <1>5 DEF Next

LEMMA RealStep ==
    ASSUME RealInv, [Next]_vars
    PROVE  RealInv'
<1>1. TypeOK'
  BY TypeOKStep DEF RealInv
<1> SUFFICES (CacheIsReal /\ release \in served
                /\ \A p \in Probers : stage[p] # "idle" => saw[p] \in served)'
  BY <1>1 DEF RealInv
<1> USE DEF RealInv, TypeOK, CacheIsReal, infoVars, proberVars, historyVars,
            pingVars, boundVars
<1>2. ASSUME NEW p \in Probers, ProbeAnswers(p) \/ UpdateStep(p)
      PROVE  (CacheIsReal /\ release \in served
                /\ \A q \in Probers : stage[q] # "idle" => saw[q] \in served)'
  <2> USE DEF Goes
  <2>1. CASE ProbeAnswers(p) \/ CompareProtocol(p) \/ CompareName(p)
    BY <2>1 DEF ProbeAnswers, CompareProtocol, CompareName
  <2>2. CASE StoreProtocol(p) \/ StoreName(p) \/ SaveFails(p) \/ Truncate(p)
    BY <2>2 DEF StoreProtocol, StoreName, SaveFails, Truncate
  <2>3. CASE Write(p) \/ WriteFails(p)
    BY <2>3 DEF Write, WriteFails
  <2> QED
    BY <1>2, <2>1, <2>2, <2>3 DEF UpdateStep
<1>3. ASSUME NEW c \in Pings, PingStep(c)
      PROVE  UNCHANGED <<file, release, served, stage, saw>>
  BY <1>3 DEF PingStep, PingTask, Accept, Handshake, StatusRequest, HelloTimeout,
              ReadProtocol, ReadName, Pong, PingGoes
<1>4. CASE Upgrade
  BY <1>4 DEF Upgrade
<1>5. CASE Crash
  BY <1>5 DEF Crash, Reload
<1>6. CASE UNCHANGED vars
  BY <1>6 DEF vars
<1> QED
  BY <1>2, <1>3, <1>4, <1>5, <1>6 DEF Next

THEOREM Real == Spec => []RealInv
<1>1. RealInv /\ [Next]_vars => RealInv'
  BY RealStep
<1> QED
  BY <1>1, InitReal, PTL DEF Spec

(* Every variable keeps its type.                                          *)
THEOREM TypeCorrect == Spec => []TypeOK
<1>1. RealInv => TypeOK
  BY DEF RealInv
<1> QED
  BY <1>1, Real, PTL

(* The cache never parses as a pair no server has reported, whatever       *)
(* overlaps, fails or exits.                                               *)
THEOREM CacheHoldsARelease == Spec => []CacheIsReal
<1>1. RealInv => CacheIsReal
  BY DEF RealInv
<1> QED
  BY <1>1, Real, PTL

---------------------------------------------------------------------------
(* When no update outlasts an upgrade                                      *)

Current == protocol = release.protocol /\ name = release.name

(* Every update under way is about the release that runs; the further it   *)
(* is, the more of that release is already known.                          *)
UpdatesAreCurrent ==
    \A p \in Probers :
        /\ stage[p] # "idle" => saw[p] = release
        /\ stage[p] \in {"compareN", "storeN"} => protocol = release.protocol
        /\ stage[p] \in {"storeP", "storeN"} /\ ~changed[p] => Current
        /\ stage[p] \in {"save", "write"} => Current

RepliesAreCurrent ==
    \A c \in Pings :
        fresh[c] =>
            /\ probed
            /\ ping[c] \in {"name", "pong"} => shown[c].protocol = release.protocol
            /\ ping[c] = "pong" => shown[c].name = release.name

CurrentInv ==
    /\ TypeOK
    /\ UpdatesAreCurrent
    /\ probed => Current
    /\ CacheMatches
    /\ RepliesAreCurrent

LEMMA CurrentIsKnown ==
    ASSUME TypeOK, Current
    PROVE  Known = release /\ name # None
BY DEF TypeOK, Current, Known

(* A step of an update: what it does to what is known, and to the others.  *)
LEMMA UpdatesStep ==
    ASSUME CurrentInv, NEW p \in Probers, ProbeAnswers(p) \/ UpdateStep(p)
    PROVE  UpdatesAreCurrent' /\ (probed => Current)'
<1> USE DEF CurrentInv, UpdatesAreCurrent, TypeOK, Current, Goes, Completes,
            infoVars, historyVars
<1>1. CASE ProbeAnswers(p) \/ CompareProtocol(p)
  BY <1>1 DEF ProbeAnswers, CompareProtocol
<1>2. CASE CompareName(p)
  BY <1>2 DEF CompareName
<1>3. CASE StoreProtocol(p)
  BY <1>3 DEF StoreProtocol
<1>4. CASE StoreName(p)
  BY <1>4 DEF StoreName
<1>5. CASE SaveFails(p) \/ Truncate(p) \/ Write(p) \/ WriteFails(p)
  BY <1>5 DEF SaveFails, Truncate, Write, WriteFails
<1> QED
  BY <1>1, <1>2, <1>3, <1>4, <1>5 DEF UpdateStep

LEMMA CacheStep ==
    ASSUME CurrentInv, NEW p \in Probers, ProbeAnswers(p) \/ UpdateStep(p)
    PROVE  CacheMatches'
<1> USE DEF CurrentInv, CacheMatches, Pending, TypeOK, Goes, Completes,
            infoVars, historyVars
<1>1. CASE ProbeAnswers(p) \/ CompareProtocol(p) \/ CompareName(p)
  BY <1>1 DEF ProbeAnswers, CompareProtocol, CompareName, Known
<1>2. CASE StoreProtocol(p)
  (* Without a change there is nothing to store. *)
  BY <1>2 DEF StoreProtocol, UpdatesAreCurrent, Current, Known
<1>3. CASE StoreName(p)
  BY <1>3 DEF StoreName, UpdatesAreCurrent, Current, Known
<1>4. CASE SaveFails(p) \/ WriteFails(p)
  BY <1>4 DEF SaveFails, WriteFails
<1>5. CASE Truncate(p)
  BY <1>5 DEF Truncate
<1>6. CASE Write(p)
  <2>1. Known' = saw[p]
    BY <1>6, CurrentIsKnown DEF Write, UpdatesAreCurrent, Known
  <2> QED
    BY <1>6, <2>1 DEF Write
<1> QED
  BY <1>1, <1>2, <1>3, <1>4, <1>5, <1>6 DEF UpdateStep

LEMMA RepliesStep ==
    ASSUME CurrentInv, NEW c \in Pings, PingStep(c)
    PROVE  RepliesAreCurrent'
<1> USE DEF CurrentInv, RepliesAreCurrent, TypeOK, PingGoes, historyVars
<1>1. CASE Accept(c) \/ Handshake(c) \/ StatusRequest(c) \/ HelloTimeout(c)
  BY <1>1 DEF Accept, Handshake, StatusRequest, HelloTimeout
<1>2. CASE ReadProtocol(c)
  BY <1>2 DEF ReadProtocol, Current, Known, Pairs
<1>3. CASE ReadName(c)
  BY <1>3, CurrentIsKnown DEF ReadName, Pairs
<1>4. CASE Pong(c)
  BY <1>4 DEF Pong
<1> QED
  BY <1>1, <1>2, <1>3, <1>4 DEF PingStep, PingTask

LEMMA CurrentStep ==
    ASSUME ~SlowUpdates, CurrentInv, [Next]_vars
    PROVE  CurrentInv'
<1>1. TypeOK'
  BY TypeOKStep DEF CurrentInv
<1>2. ASSUME NEW p \in Probers, ProbeAnswers(p) \/ UpdateStep(p),
             UNCHANGED <<pingVars, boundVars>>
      PROVE  CurrentInv'
  <2>1. UNCHANGED release /\ (probed => probed')
    BY <1>2 DEF UpdateStep, ProbeAnswers, CompareProtocol, CompareName, StoreProtocol,
       StoreName, SaveFails, Truncate, Write, WriteFails, Completes, historyVars
  <2>2. RepliesAreCurrent'
    BY <1>2, <2>1 DEF CurrentInv, RepliesAreCurrent, pingVars
  <2> QED
    BY <1>1, <1>2, <2>2, UpdatesStep, CacheStep DEF CurrentInv
<1>3. ASSUME NEW c \in Pings, PingStep(c)
      PROVE  CurrentInv'
  <2>1. UNCHANGED <<infoVars, proberVars, file, release, historyVars>>
    BY <1>3 DEF PingStep, PingTask, Accept, Handshake, StatusRequest, HelloTimeout,
                ReadProtocol, ReadName, Pong, PingGoes
  <2> QED
    BY <1>1, <1>3, <2>1, RepliesStep DEF CurrentInv, UpdatesAreCurrent, Current,
       CacheMatches, Pending, Known, infoVars, proberVars, historyVars
<1>4. CASE Upgrade
  <2>1. \A p \in Probers : stage[p] = "idle" /\ stage'[p] = "idle"
    BY <1>4 DEF Upgrade, proberVars
  <2>2. CacheMatches'
    BY <1>4, <2>1 DEF Upgrade, CurrentInv, CacheMatches, Pending, Known, infoVars, proberVars
  <2> QED
    BY <1>1, <1>4, <2>1, <2>2 DEF Upgrade, CurrentInv, UpdatesAreCurrent, RepliesAreCurrent
<1>5. CASE Crash
  <2>1. CacheMatches'
    BY <1>5 DEF Crash, Reload, CacheMatches, Known
  <2> QED
    BY <1>1, <1>5, <2>1 DEF Crash, CurrentInv, UpdatesAreCurrent, RepliesAreCurrent
<1>6. CASE UNCHANGED vars
  BY <1>6 DEF vars, CurrentInv, TypeOK, UpdatesAreCurrent, Current, CacheMatches, Pending,
              Known, RepliesAreCurrent, infoVars, proberVars, historyVars, pingVars, boundVars
<1> QED
  BY <1>2, <1>3, <1>4, <1>5, <1>6 DEF Next

LEMMA InitCurrent == Init => CurrentInv
<1> SUFFICES ASSUME Init PROVE CurrentInv
  OBVIOUS
<1>1. TypeOK
  BY InitReal DEF RealInv
<1>2. CacheMatches
  BY DEF Init, CacheMatches, Known
<1> QED
  BY <1>1, <1>2 DEF Init, CurrentInv, UpdatesAreCurrent, RepliesAreCurrent

LEMMA CurrentGives ==
    ASSUME CurrentInv
    PROVE  KnownIsCurrent /\ CacheMatches /\ PingIsCurrent
<1>1. KnownIsCurrent
  BY CurrentIsKnown DEF CurrentInv, KnownIsCurrent
<1>2. PingIsCurrent
  BY DEF CurrentInv, TypeOK, RepliesAreCurrent, PingIsCurrent, Pairs
<1> QED
  BY <1>1, <1>2 DEF CurrentInv

(* If no update outlasts an upgrade of the server, what is known is what   *)
(* runs, from the first complete update to the next upgrade.               *)
THEOREM KnowsWhatRuns ==
    ASSUME ~SlowUpdates
    PROVE  Spec => []KnownIsCurrent
<1>1. CurrentInv /\ [Next]_vars => CurrentInv'
  BY CurrentStep
<1> QED
  BY <1>1, InitCurrent, CurrentGives, PTL DEF Spec

(* Then the cache is what is known, save during an update or after a save  *)
(* that failed.                                                            *)
THEOREM CacheKeepsUp ==
    ASSUME ~SlowUpdates
    PROVE  Spec => []CacheMatches
<1>1. CurrentInv /\ [Next]_vars => CurrentInv'
  BY CurrentStep
<1> QED
  BY <1>1, InitCurrent, CurrentGives, PTL DEF Spec

(* And a reply never mixes two releases, unless an upgrade overtakes it.   *)
THEOREM RepliesAreWhole ==
    ASSUME ~SlowUpdates
    PROVE  Spec => []PingIsCurrent
<1>1. CurrentInv /\ [Next]_vars => CurrentInv'
  BY CurrentStep
<1> QED
  BY <1>1, InitCurrent, CurrentGives, PTL DEF Spec
=============================================================================
