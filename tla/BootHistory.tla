---------------------------- MODULE BootHistory ----------------------------
(***************************************************************************)
(* Lifecycle with a memory of what redoxide believes of the container's    *)
(* boots: one begins when a login sends docker.start() and lasts until     *)
(* Stopped is published, rightly or not, or redoxide is restarted, which   *)
(* begins with Stopped (state.rs:37).                                      *)
(***************************************************************************)
EXTENDS Lifecycle

VARIABLE boot  \* history: a boot has begun and is not over

bootVars == <<vars, boot>>

Sends == \E s \in Starts : start[s] = "free" /\ start'[s] = "sent"

BootInit == Init /\ boot = FALSE

BootNext == Next /\ boot' = (Sends \/ (boot /\ server' # "Stopped"))

BootSpec == BootInit /\ [][BootNext]_bootVars

(* A boot gets one start: between two docker.start() calls Stopped has     *)
(* been published, however logins, timers, the sync task and late failures *)
(* overlap, although a login reads Stopped in one step and writes Starting *)
(* in another (proxy.rs:120-149, README.md:36). It is the boot redoxide    *)
(* believes in: a Stopped that comes late, from a stop, a stale answer or  *)
(* a failed start, ends it while the container may still come up, and the  *)
(* next login sends a start of its own.                                    *)
OneStartPerBoot == [][ Sends => ~boot ]_bootVars
=============================================================================
