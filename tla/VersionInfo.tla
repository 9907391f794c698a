---------------------------- MODULE VersionInfo ----------------------------
(***************************************************************************)
(* The version redoxide shows while its server is off: what probes detect  *)
(* (update_version_info in src/state.rs), and the file it is kept in over  *)
(* restarts (src/version_cache.rs). Any login, main and the sync task may  *)
(* be in an update at once; one action is one access to what they share.   *)
(***************************************************************************)
EXTENDS Integers

CONSTANTS
    Probers,     \* tasks that may probe the server and record its version
    Releases,    \* server releases: [protocol, name], as a status reply says
    ConfigInfo,  \* the same pair in config.toml
    None,        \* no name detected; a cache file that is absent or empty
    Torn,        \* a cache file that holds something but does not parse
    Faults       \* what the environment may do wrong, any number of times

ASSUME ReleasesAssumption ==
    /\ \A r \in Releases \cup {ConfigInfo} :
          r = [protocol |-> r.protocol, name |-> r.name] /\ r.name # None
    /\ {None, Torn} \cap Releases = {}
ASSUME FaultsAssumption == Faults \subseteq {"save_fails"}

VARIABLES
    protocol,  \* detected_protocol
    name,      \* detected_version
    stage,     \* where each prober stands in update_version_info
    saw,       \* the pair it was called with
    changed,   \* its local of that name
    file,      \* external: the cache file, as load would parse it
    release,   \* external: what the server is
    served,    \* history: every release a probe may have met
    probed,    \* history: an update is complete since release last changed
    missed     \* history: the last save of this process went wrong

infoVars == <<protocol, name>>
proberVars == <<stage, saw, changed>>
historyVars == <<served, probed, missed>>

Stages == {"idle", "compareP", "compareN", "storeP", "storeN", "save", "write"}

Known_Unresolved == [protocol |-> protocol, name |-> name]

(* What protocol_version() and version_name() return.                      *)
Known == [protocol |-> protocol,
          name |-> IF name = None THEN ConfigInfo.name ELSE name]

Goes(p, from, to) ==
    /\ stage[p] = from
    /\ stage' = [stage EXCEPT ![p] = to]

(* An update is over, and its local gone.                                  *)
Completes(p) ==
    /\ probed' = TRUE
    /\ changed' = [changed EXCEPT ![p] = FALSE]

---------------------------------------------------------------------------
(* update_version_info                                                     *)

(* The server has answered a probe.                                        *)
ProbeAnswers(p) ==
    /\ Goes(p, "idle", "compareP")
    /\ saw' = [saw EXCEPT ![p] = release]
    /\ UNCHANGED <<infoVars, changed, file, release, historyVars>>

CompareProtocol_IsEnough(p) ==
    /\ Goes(p, "compareP", IF protocol = saw[p].protocol THEN "idle" ELSE "storeP")
    /\ changed' = [changed EXCEPT ![p] = TRUE]
    /\ probed' = TRUE
    /\ UNCHANGED <<infoVars, saw, file, release, served, missed>>

(* `||` skips the name when the protocols already differ.                  *)
CompareProtocol(p) ==
    /\ Goes(p, "compareP", IF protocol = saw[p].protocol THEN "compareN" ELSE "storeP")
    /\ changed' = [changed EXCEPT ![p] = TRUE]
    /\ UNCHANGED <<infoVars, saw, file, release, historyVars>>

CompareName_Ignored(p) ==
    /\ Goes(p, "compareN", "storeP")
    /\ changed' = [changed EXCEPT ![p] = FALSE]
    /\ UNCHANGED <<infoVars, saw, file, release, historyVars>>

CompareName(p) ==
    /\ Goes(p, "compareN", "storeP")
    /\ changed' = [changed EXCEPT ![p] = name # saw[p].name]
    /\ UNCHANGED <<infoVars, saw, file, release, historyVars>>

StoreProtocol(p) ==
    /\ Goes(p, "storeP", "storeN")
    /\ protocol' = saw[p].protocol
    /\ UNCHANGED <<name, saw, changed, file, release, historyVars>>

StoreName_FirstOnly(p) ==
    /\ Goes(p, "storeN", IF changed[p] THEN "save" ELSE "idle")
    /\ name' = IF name = None THEN saw[p].name ELSE name
    /\ IF changed[p] THEN UNCHANGED <<changed, probed>> ELSE Completes(p)
    /\ UNCHANGED <<protocol, saw, file, release, served, missed>>

StoreName(p) ==
    /\ Goes(p, "storeN", IF changed[p] THEN "save" ELSE "idle")
    /\ name' = saw[p].name
    /\ IF changed[p] THEN UNCHANGED <<changed, probed>> ELSE Completes(p)
    /\ UNCHANGED <<protocol, saw, file, release, served, missed>>

---------------------------------------------------------------------------
(* version_cache::save                                                     *)

(* The directory or the file cannot be had.                                *)
SaveFails(p) ==
    /\ "save_fails" \in Faults
    /\ Goes(p, "save", "idle")
    /\ missed' = TRUE
    /\ Completes(p)
    /\ UNCHANGED <<infoVars, saw, file, release, served>>

(* fs::write opens the file, which empties it, and then writes.            *)
Truncate(p) ==
    /\ Goes(p, "save", "write")
    /\ file' = None
    /\ UNCHANGED <<infoVars, saw, changed, release, historyVars>>

Write_ConfigName(p) ==
    /\ Goes(p, "write", "idle")
    /\ file' = [saw[p] EXCEPT !.name = ConfigInfo.name]
    /\ missed' = (file' # saw[p])
    /\ Completes(p)
    /\ UNCHANGED <<infoVars, saw, release, served>>

(* Over another task's text, written since, a shorter one leaves its tail. *)
Write(p) ==
    /\ Goes(p, "write", "idle")
    /\ \/ file' = saw[p]
       \/ file \notin {None, saw[p]} /\ file' = Torn
    /\ missed' = (file' # saw[p])
    /\ Completes(p)
    /\ UNCHANGED <<infoVars, saw, release, served>>

(* The disk is full: some of the text is there, or none.                   *)
WriteFails(p) ==
    /\ "save_fails" \in Faults
    /\ Goes(p, "write", "idle")
    /\ file' \in {file, Torn}
    /\ missed' = TRUE
    /\ Completes(p)
    /\ UNCHANGED <<infoVars, saw, release, served>>

UpdateStep(p) ==
    \/ CompareProtocol(p) \/ CompareName(p) \/ StoreProtocol(p) \/ StoreName(p)
    \/ SaveFails(p) \/ Truncate(p) \/ Write(p) \/ WriteFails(p)

---------------------------------------------------------------------------
(* SharedState::new and version_cache::load: the cached pair, or the       *)
(* protocol of the configuration and no name. An exit in the middle of a   *)
(* write may have left part of it.                                         *)
Reload ==
    /\ file' \in {file} \cup (IF \E p \in Probers : stage[p] = "write" THEN {Torn} ELSE {})
    /\ protocol' = IF file' \in Releases THEN file'.protocol ELSE ConfigInfo.protocol
    /\ name' = IF file' \in Releases THEN file'.name ELSE None
=============================================================================
