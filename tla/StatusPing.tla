----------------------------- MODULE StatusPing -----------------------------
(***************************************************************************)
(* Status pings (handle_connection_inner and handle_ping in src/proxy.rs)  *)
(* against the detected version they report, with a server that is         *)
(* upgraded now and then and a redoxide that may be restarted. The state,  *)
(* the motd and the player count of the reply are left out: a ping reads   *)
(* each by itself and nothing relates them.                                *)
(***************************************************************************)
EXTENDS VersionInfo

CONSTANTS
    Pings,        \* connections; an id is reused when its task has ended
    SlowUpdates,  \* may an update under way outlast an upgrade of the server?
    MaxUpgrades,  \* bound: upgrades of the server
    MaxCrashes    \* bound: exits of the redoxide process

ASSUME SlowUpdatesAssumption == SlowUpdates \in BOOLEAN
ASSUME BoundsAssumption == MaxUpgrades \in Nat /\ MaxCrashes \in Nat

VARIABLES
    ping,      \* where each connection stands
    shown,     \* the pair its reply reports
    fresh,     \* history: its reply was begun with probed true, and has not
               \* been overtaken by an upgrade since
    upgrades,  \* upgrades so far
    crashes    \* exits so far

pingVars == <<ping, shown, fresh>>
boundVars == <<upgrades, crashes>>
vars == <<infoVars, proberVars, file, release, historyVars, pingVars, boundVars>>

(* hello: reading the handshake. request: reading the status request.      *)
(* protocol, name: composing the reply. pong: reply sent, reading the ping.*)
PingStages == {"idle", "hello", "request", "protocol", "name", "pong"}

Init ==
    /\ release \in Releases
    /\ file \in Releases \cup {None, Torn}
    /\ protocol = IF file \in Releases THEN file.protocol ELSE ConfigInfo.protocol
    /\ name = IF file \in Releases THEN file.name ELSE None
    /\ served = {release} \cup ({file} \cap Releases)
    /\ stage = [p \in Probers |-> "idle"]
    /\ saw = [p \in Probers |-> release]
    /\ changed = [p \in Probers |-> FALSE]
    /\ probed = FALSE
    /\ missed = FALSE
    /\ ping = [c \in Pings |-> "idle"]
    /\ shown = [c \in Pings |-> ConfigInfo]
    /\ fresh = [c \in Pings |-> FALSE]
    /\ upgrades = 0
    /\ crashes = 0

---------------------------------------------------------------------------
(* A connection                                                            *)

PingGoes(c, from, to) ==
    /\ ping[c] = from
    /\ ping' = [ping EXCEPT ![c] = to]
    /\ UNCHANGED <<infoVars, proberVars, file, release, historyVars, boundVars>>

Accept(c) ==
    /\ PingGoes(c, "idle", "hello")
    /\ UNCHANGED <<shown, fresh>>

(* A handshake for this server that asks for its status goes on. One for   *)
(* another address, of no known kind or not parsed is closed; a login      *)
(* becomes Login's.                                                        *)
Handshake(c) ==
    /\ \E to \in {"request", "idle"} : PingGoes(c, "hello", to)
    /\ UNCHANGED <<shown, fresh>>

StatusRequest(c) ==
    /\ \E to \in {"protocol", "idle"} : PingGoes(c, "request", to)
    /\ UNCHANGED <<shown, fresh>>

HelloTimeout_OnceOnly(c) ==
    /\ PingGoes(c, "hello", "idle")
    /\ UNCHANGED <<shown, fresh>>

(* handshake_timeout_secs, for each of the two reads, or the client leaves.*)
HelloTimeout(c) ==
    /\ \E from \in {"hello", "request"} : PingGoes(c, from, "idle")
    /\ UNCHANGED <<shown, fresh>>

ReadProtocol(c) ==
    /\ PingGoes(c, "protocol", "name")
    /\ shown' = [shown EXCEPT ![c].protocol = Known.protocol]
    /\ fresh' = [fresh EXCEPT ![c] = probed]

ReadName_Config(c) ==
    /\ PingGoes(c, "name", "pong")
    /\ shown' = [shown EXCEPT ![c].name = ConfigInfo.name]
    /\ UNCHANGED fresh

(* The name is read, awaiting its lock, and the reply goes out.            *)
ReadName(c) ==
    /\ PingGoes(c, "name", "pong")
    /\ shown' = [shown EXCEPT ![c].name = Known.name]
    /\ UNCHANGED fresh

(* The ping is echoed, is no ping, or the client has gone. This read has   *)
(* no timeout.                                                             *)
Pong(c) ==
    /\ PingGoes(c, "pong", "idle")
    /\ shown' = [shown EXCEPT ![c] = ConfigInfo]
    /\ fresh' = [fresh EXCEPT ![c] = FALSE]

PingTask(c) == HelloTimeout(c) \/ ReadProtocol(c) \/ ReadName(c)

PingStep(c) ==
    Accept(c) \/ Handshake(c) \/ StatusRequest(c) \/ PingTask(c) \/ Pong(c)

---------------------------------------------------------------------------
(* The server is off, and back as another release. An update takes no      *)
(* longer than a probe's last await, a restart of the server many seconds: *)
(* unless SlowUpdates, none is under way.                                  *)
Upgrade ==
    /\ upgrades < MaxUpgrades
    /\ SlowUpdates \/ \A p \in Probers : stage[p] = "idle"
    /\ upgrades' = upgrades + 1
    /\ release' \in Releases \ {release}
    /\ served' = served \cup {release'}
    /\ probed' = FALSE
    /\ fresh' = [c \in Pings |-> FALSE]
    /\ UNCHANGED <<infoVars, proberVars, file, missed, ping, shown, crashes>>

(* The process exits and is restarted: only the file is left.              *)
Crash ==
    /\ crashes < MaxCrashes
    /\ crashes' = crashes + 1
    /\ Reload
    /\ stage' = [p \in Probers |-> "idle"]
    /\ probed' = FALSE
    /\ missed' = FALSE
    /\ changed' = [p \in Probers |-> FALSE]
    /\ ping' = [c \in Pings |-> "idle"]
    /\ shown' = [c \in Pings |-> ConfigInfo]
    /\ fresh' = [c \in Pings |-> FALSE]
    /\ UNCHANGED <<saw, release, served, upgrades>>

Next ==
    \/ \E p \in Probers : (ProbeAnswers(p) \/ UpdateStep(p)) /\ UNCHANGED <<pingVars, boundVars>>
    \/ \E c \in Pings : PingStep(c)
    \/ Upgrade
    \/ Crash

Spec == Init /\ [][Next]_vars

(* tokio runs its tasks and timers. Nothing is owed by a client, nor by a  *)
(* probe: pings do not wait for an update.                                 *)
FairSpec == Spec /\ \A c \in Pings : WF_vars(PingTask(c))

---------------------------------------------------------------------------
(* Properties                                                              *)

Protocols == {r.protocol : r \in Releases \cup {ConfigInfo}}
Names == {r.name : r \in Releases \cup {ConfigInfo}}
Pairs == [protocol : Protocols, name : Names]

TypeOK ==
    /\ release \in Releases
    /\ protocol \in Protocols
    /\ name \in Names \cup {None}
    /\ stage \in [Probers -> Stages]
    /\ saw \in [Probers -> Releases]
    /\ changed \in [Probers -> BOOLEAN]
    /\ served \subseteq Releases
    /\ probed \in BOOLEAN
    /\ missed \in BOOLEAN
    /\ ping \in [Pings -> PingStages]
    /\ shown \in [Pings -> Pairs]
    /\ fresh \in [Pings -> BOOLEAN]
    /\ upgrades \in 0..MaxUpgrades
    /\ crashes \in 0..MaxCrashes

(* Whatever overlaps and however redoxide exits, the file never parses as  *)
(* a pair no server has reported: a restart believes a release that ran,   *)
(* or none (version_cache.rs:12-15, 28).                                   *)
CacheIsReal == file \in {None, Torn} \/ file \in served

(* Once an update is complete, and as long as no other release has run,    *)
(* what is known is that release, although updates compare and store its   *)
(* halves in separate steps (state.rs:115-120, "overrides config value     *)
(* once known", state.rs:28).                                              *)
KnownIsCurrent == probed => Known = release

(* With no update under way and none of its saves lost, the process would  *)
(* be restarted into what it knows (state.rs:123-125).                     *)
Pending ==
    \E p \in Probers :
        stage[p] \in {"save", "write"} \/ (changed[p] /\ stage[p] \in {"storeP", "storeN"})

CacheMatches == name # None /\ ~missed /\ ~Pending => file = Known

(* A reply begun when the version was known, and not overtaken by an       *)
(* upgrade, reports it whole, although its halves are read in two steps    *)
(* between those of any update (proxy.rs:73-76).                           *)
PingIsCurrent == \A c \in Pings : ping[c] = "pong" /\ fresh[c] => shown[c] = release

(* A client that says hello, or says nothing, is answered or closed        *)
(* (proxy.rs:24, 56; config.rs:22-24).                                     *)
HelloEnds == \A c \in Pings : ping[c] = "hello" ~> ping[c] \in {"pong", "idle"}
=============================================================================
