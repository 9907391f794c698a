# A verification project for redoxide

redoxide is a Minecraft reverse proxy that starts its server's container when a
player logs in and stops it when everybody has left. What is hard in it is time.
Logins, an idle timer, a periodic sync task, spawned `docker start` calls and
drop tasks all read and write one small shared state, on tokio's multi-threaded
runtime, around a container that others may operate and a process that may be
restarted. These TLA+ modules model that concurrency,
the version redoxide learns and remembers, and the wire format it reads and
writes. TLC checks them on small instances, and TLAPS proves their invariants
for any number of connections, timers, calls and probes.

Paths such as `state.rs:91` are relative to the repository's `src/`.

## The system

| part | state | operations | interacts with |
|---|---|---|---|
| **Shared state** (`state.rs`) | a `watch` channel of `ServerState`, `player_count`, the `idle_timer` handle, `start_mutex`, the detected version | `set_state`, `subscribe`, `begin_session` / drop, `cancel_idle_shutdown`, `schedule_idle_shutdown`, `adopt_running`, `update_version_info` | every task holds it |
| **Login path** (`proxy.rs:87-365`) | one task per connection: where it stands, its keepalive count, its watch receiver | cancel the timer, begin a session, decide about a start under `start_mutex`, wait for the backend, forward | shared state, docker, the client, the backend |
| **Idle timer** (`state.rs:167-207`) | one task per arming | sleep, check the count, publish Stopping, stop, publish the outcome | shared state, docker |
| **Startup, sync task, accept loop** (`main.rs`) | none of their own | adopt at startup; every 15 s compare docker with the published state; accept | shared state, docker |
| **Docker client** (`docker.rs`) | none | `is_running`, `start`, `stop` (RCON, thirty polls, `docker stop`) | the daemon, the server's RCON port |
| **Status ping and routing** (`proxy.rs:14-85`) | none | route a handshake, answer a ping from the shared state | reads the shared state |
| **Detected version and cache** (`state.rs:103-126`, `version_cache.rs`) | protocol, name, a file | update, save, load | pings, probes |
| **Wire protocol** (`protocol/`) | none | VarInt, packet framing, handshake, login start | both peers |
| **Configuration** (`config.rs`) | read once | `config.toml`, overrides from `server.properties` | everybody, read-only |
| **Encoding** (`status.rs`) | none | JSON of a status or a disconnect | - |

What is hard in it, and what makes each part correct:

* *Interleaving.* No lock spans a read of the state and the write that depends
  on it, `start_mutex` aside, and that one excludes logins only. Correct means:
  no second `docker start` for a boot that has not been given up; one live idle
  timer; no login forwarded into a stop.
* *Late tasks.* `Drop` cannot await, so the timer is armed by a task that runs
  any time after the last session ended; a start's error arrives whenever it
  arrives. Correct means: an empty server that counts as on is never forgotten,
  and a waiting login always learns of a failed start.
* *Cancellation.* `abort` stops a task at its next await; `select!` drops the
  losing futures. Correct means: a stop is never abandoned half way, and a
  client's stream is handed over at a packet boundary.
* *Halves.* The detected version is two fields, compared, stored, saved and read
  in separate steps. Correct means: pings and restarts see pairs that were.
* *Bytes.* A stream is cut anywhere; lengths have signs and limits. Correct
  means: one packet is read the same however it comes, and what redoxide writes
  or passes on is read as what it was.
* *Failure.* Docker calls fail, or fail after they took effect; the container
  crashes or is operated by others; redoxide exits and is restarted. Correct
  means: the published state comes back to what the container does.

`PROJECT.json` lists every such hazard at the line where it bites, with the
properties that would catch it going wrong, and a note where none would.

## The modules

    SharedState  <-  Login  <-  Lifecycle    <-  LifecycleProofs   (TLAPS)
                    Lifecycle  <-  BootHistory  <-  MCBootHistory     (TLC)
                                                <-  BootHistoryProofs (TLAPS,
                                                    with LifecycleProofs)
    WaitCall     <=(implements)=  each login of Lifecycle
                 <=(implements)=  WaitLoop    <-  WaitLoopProofs
    StopCall     <=(implements)=  DockerStop  <-  DockerStopProofs
    VersionInfo  <-  StatusPing  <-  MCStatusPing
                                 <-  StatusPingProofs
    Wire         <-  WireProofs
    Wire, Config <-  Inputs  <-  MCInputs
                             <-  InputsProofs  (with WireProofs)

**SharedState** models `state.rs` as the tasks see it. `server` is the value in
the watch channel and `unseen` the receivers with a change pending; `SetState`
is `set_state`, which notifies whoever has subscribed. `playerCount` saturates
as the code's does. `idleTimer` is the handle, `timer` where each spawned timer
task stands, `armers` the drop tasks that have not run yet.
`ScheduleIdleShutdown` is one action because the code holds the `idle_timer`
mutex throughout and awaits nothing under it. `Aborted` says what
`JoinHandle::abort` does at each point of the task: a sleeping task is gone; one
past its count check still publishes Stopping before its next await
("doomed"); one in `docker.stop()` leaves a request with the daemon that may or
may not take effect ("stray").

**Login** models `handle_login` and the wait as other tasks see them: one action
per access to the shared state, from the check in `cancel_idle_shutdown` to the
drop of the `SessionGuard`. The start call it spawns is `start`, one slot per
call in flight. A login that waits under `start_mutex` does not read its client,
so only a wait or a forwarded stream can be closed by the peer.

**Lifecycle** adds `main.rs` (adoption at startup, the sync task in separate
steps because it awaits between them, accept), the container, and `Crash`: the
process exits and is restarted, all of the shared state is lost, the container
and the requests the daemon already has are not. It composes everything into
`Next` and holds the properties. **BootHistory** adds one history variable,
`boot`: a boot begins when a login sends `docker.start()` and lasts until Stopped
is published, by whomever and rightly or not, or redoxide is restarted.

**DockerStop** is `DockerClient::stop` in detail and **StopCall** what the
lifecycle relies on. The phases "stopping" and "exited" of StopCall are the
timer states of the same names in SharedState, so
`DockerStop => StopCall` justifies the single stop call there. `RconRecv` says
what the length of a reply does: refused, sliced out of bounds, or read.

**WaitLoop** is one login's wait as its client sees it: keepalives out, answers
and other packets in, and the hand-over of the stream. It counts packets by
kind, since their order matters to nothing it does. Every packet may arrive in
two halves; `torn` tells whether a branch of `select!` that won in between left
the stream in the middle of a packet. **WaitCall** is the wait without all this,
five steps over one phase. WaitLoop implements it, and so does every login of
Lifecycle (`LoginWaits`): the two views of the same loop go through the same
phases.

**VersionInfo** is `update_version_info`, one action per access to the two
fields, `version_cache::save`, which empties the file and then writes it, and
what a restart loads. **StatusPing** composes it with pings, which read the two
fields in two steps, with a server that is upgraded and with exits of redoxide.
`served`, `probed`, `missed` and `fresh` are history variables for the
properties.

**Wire** is the wire format as operators on sequences of bytes: each reader
takes what has come and answers "ok", "bad" or "more". **Config** is
`apply_server_properties`: the locals it starts from, what one line does to
them, and what it makes of them after the loop. **Inputs** feeds both every
stream and every file up to a bound, a byte or a line at a time; `found` holds
the locals of the loop after the lines read so far, so that the code's loop is
the behaviour of the module and not a fold.

A definition whose name ends in `_Something` next to one without it
(`DropSession_NoArmer`) is a plausible bug in that code; the property the
project names for it fails when the bug is put in. No specification uses it.

## What is checked

| run | question | instance | result |
|---|---|---|---|
| `safety` | exact session count, a handle that names the live idle timer, no missed failure, the mutex, no second start within a boot, no stop over an open session, the phases of a wait | 2 logins, 2 timer slots, 1 start slot, 1 restart, all faults | holds, 2.1 million states |
| `idle` | an empty server that counts as on is always about to be dealt with, and ends up stopped and published so; the sync task repairs the state | 1 login, 1 restart, failing starts, outside operators, fair tasks | holds, 201 thousand states |
| `stop` | RCON, polls and fallback implement one stop call; every call ends | the code's 30 polls, every kind of RCON reply | holds |
| `wait` | the wait implements WaitCall; true keepalive count and clean hand-over until a read is torn; the wait ends once the client has no more to say | 3 keepalives, 2 other packets unread, packets in halves | holds |
| `version` | the cache never holds a pair no server reported; a complete update stays until another release runs; file and memory agree unless a save went wrong; a ping over a known version reports it whole; a silent client is closed | 2 probers, 1 ping, 3 releases of which 2 share a protocol, 2 upgrades, 1 restart, failing saves | holds, 565 thousand states |
| `inputs` | VarInts over i32; packets, raw forms, names, routes and replies; the overrides of server.properties | streams of 6 of 7 bytes, files of 4 of 12 lines, 2 configs | holds, 320 thousand states |
| `held_login` | state.rs:92-95, 196-199: a stop is not aborted mid-way, no login is stuck behind Stopping for ever | 1 login, no fault, fair tasks | **violated** |
| `forward_into_stop` | state.rs:186-189: no login forwarded into a stop | 1 login, no fault | **violated** |
| `forward_unready` | proxy.rs:245-247: no login is forwarded to a server that still boots | 1 login, no fault | **violated** |
| `failed_stop` | README.md:19, 33: the server is stopped when everyone has left | 1 login, failing stop | **violated** |
| `stop_short_reply` | docker.rs:55: RCON trouble falls back to docker stop | a reply shorter than ten bytes | **violated** |
| `wait_split` | proxy.rs:306-307: the client stream starts cleanly | a packet in two segments | **violated** |

The violated ones are disagreements between the code and what it says of
itself; `PROJECT.json` (findings) gives the lines on both sides. Those of
`held_login` and `forward_into_stop` share one root: the timer's count check, its
Stopping and its stop are separate steps, and neither `cancel_idle_shutdown`,
`schedule_idle_shutdown` nor the Running check of a login decides and acts under
one lock. An abort that lands after Stopping was published leaves nobody to
leave Stopping. Each begins in a window a few instructions wide that needs a
second worker thread. Once a login has been forwarded into a stop, though, its
leaving at any time during that stop aborts it, through the drop task that arms
a timer (`state.rs:172`). `forward_unready` needs no race: redoxide restarted
while its server boots takes a running container for a ready one.

Met while modelling, without a run of its own:

* README.md:51 and `docs/superpowers/specs/2026-05-28-redoxide-design.md:48` say
  that `server_address` must match the handshake exactly; `proxy.rs:29-30` lowers
  both, so letter case is ignored. `HandshakeIsRouted` states what the code does.
* README.md:136 and `config.example.toml:18` promise RCON whenever
  server.properties has `enable-rcon=true`; `config.rs:111` also asks for a
  password that is not empty. `LastLineWins` states what the code does.
* README.md:36 promises one `docker start` for players who connect together. That
  holds as long as nobody publishes Stopped (`OneStartPerBoot`). A Stopped that
  comes late (the end of a stop, an answer the sync task got earlier, a start
  whose effect came but whose reply failed) may do so while the container boots,
  and the next login then sends a second start for it.
* Aborting the idle timer does not stop what it has begun: a task past its count
  check still publishes Stopping, and a stop sent to the daemon may still take
  effect, next to those of the task that replaced it.
* The comment at `config.rs:55` says server.properties overrides `version_name`;
  the code overrides `online_motd` and may enable RCON.
* The raw form of a packet has a length prefix of redoxide's own, so a client's
  overlong prefix is not forwarded byte for byte (`packet.rs:30`, README.md:42);
  the server cannot tell (`ForwardedIsRead`).
* A save that failed is not tried again, since `changed` compares with memory
  (`state.rs:116`), so a restart may go back to an older version.
* The sync task compares and then sets Stopped unconditionally
  (`main.rs:56-62`), which may overwrite a Stopping published in between.
* The last wait for answers restarts its timeout with every packet
  (`proxy.rs:311`), so a client that keeps sending others is never dropped there,
  where `proxy.rs:308-309` says that one which never answers is.

### Bounds

Connection ids are reused, so two of them stand for any number of logins of
which two overlap: every race of the core is between two logins, or a login and
the timer, or either and the sync task. Two timer slots hold one live task and
one aborted or stray one, which is all an abort can leave at a time; with both
taken a new arming waits for a stray to resolve. One start slot: a second start
while one is in flight waits likewise, so that the late error of an earlier start
during a later one is not met by this run; with two slots `safety` holds as well
(5.2 million states), and the theorems are for any number. `MaxArmers = 1` stops accepting while a
drop task is pending; drop tasks still pile up from sessions already open.
`MaxCrashes = 1`: a restart keeps only the container and stray requests, so a
second one meets nothing the first did not. `idle` has one login, because its
liveness graph with two is out of reach; `IdleCovered` for any number of
logins, and for every fault but a failing stop, is a theorem. In DockerStop the
bound is the code's own 30. In WaitLoop `MaxKeepalives` bounds what is sent and
`MaxOthers` only what is unread at once, so a client may send for ever. The
theorems need none of these bounds.

In `version` three releases and two upgrades allow a change of either half and
a return to a release seen before. In `inputs` the limits of 2097151 and 131072
bytes are constants, set to 12 and 4 so that streams and the packets made of
them reach both sides of each, and a stream of six bytes holds a prefix of five,
with bits that 32 lose, and something behind it;
the numbers are every i32 at which a VarInt changes length, and their
neighbours; the bytes include NUL, a letter in both cases, small lengths and
continuation bits. `SlowUpdates = FALSE` says that no update, which is
microseconds and a small file, is under way while the server is taken down and
comes back as another release.

`SlowPolls` says whether a task in the middle of one poll on another thread may
be outrun by a whole idle sleep. The invariants are checked and proved without
that assumption; the runs with liveness, and those that look for a violation,
assume it cannot, so that they show nothing that only an absurd schedule would.

### Fairness

Weak fairness for every task tokio has made runnable (logins, timers, drop
tasks, the sync task) and for the daemon's answers: tokio's scheduler and its
timers guarantee the first, and without the second nothing can be promised.
Strong fairness for `start_mutex`, which tokio serves first come first served,
and for the deadline of a wait: it is a fixed instant, and once past it is seen
at the next turn of the loop, which probes interrupt again and again. In
WaitLoop `AnswerTimeout` is owed only under silence, since each packet restarts
it. In StatusPing the reads' timeouts and the composing of a reply are owed; the
last read of a ping, which has none, is not. No client, no boot of the server,
no fault and no outside operator is owed to anybody.

`held_login` is checked with all of this and still fails. `idle` is conditional
on sessions ending: a login stuck behind Stopping is a session for ever. It is
conditional, too, on others leaving the container alone in the end, since whoever
keeps starting it keeps it from being found stopped.

## What is proved

**LifecycleProofs**, for any finite set of connections, any timers, start slots,
faults and bounds. The inductive invariant `IInv` joins `TypeOK`,
`SessionsCounted`, `HandleNamesLive`, `NoLostFailure` and `LockHeld`, one lemma
per conjunct.

* `TypeCorrect`, `CountIsExact`: the count is `Cardinality(Sessions)`. Each step
  begins a session, ends one, or leaves the set alone (`LoginStepSessions`), and
  the library's facts about adding and removing an element do the rest. The
  saturation never acts.
* `HandleIsTrue`: the handle names the idle timer that has not been aborted, and
  never one that has been. Arming and cancelling both abort whatever the handle
  names (`ScheduleNamesLive`, `CancelNamesLive`), and no step revives a task. It
  says nothing of what an aborted task has already set going.
* `FailureReachesWaiters`, `StartMutexHeld`.
* `WaitsInPhases`: each step of Lifecycle maps, for each login, to a step of
  WaitCall or a stutter.
* `StopsOnlyEmpty`, the action property `OnlyEmptyIsStopped`: the end of its
  own sleep is all that takes a timer to its decision, it takes it at a count of
  zero, and by `SessionsCounted` that is an empty set of sessions.
* `EmptyServerIsCovered`, assuming no stop fails. It rests on `SessionsCounted`:
  the timer and `adopt_running` give up only over a positive count, which must
  be a session, whose end will spawn an armer. A task already in `docker.stop()`
  is deliberately not counted as cover: it may be aborted or panic.

**BootHistoryProofs**: `StartsOnce`, the action property `OneStartPerBoot`.
`LockHeld` alone does not give it: the state is read in one step and written in
the next. The proof adds `FirstToStart`, that no boot is under way while a login
stands between the two: it stands there on having read Stopped, which ends a
boot, and only a holder of the mutex could have begun another. `Forgets` says
that the history restricts nothing, which brings the invariant of
LifecycleProofs in.

**DockerStopProofs**: `Implements`, every step of DockerStop maps to a step of
StopCall or a stutter, and `TypeCorrect`. The invariant says that nothing is
noted of the container before it is told to go, and that one found stopped by a
poll has been noted. `FallsBackOnWholeReplies`: with no reply of fewer than ten
bytes among `ReplyLengths` the call never panics, so the short replies of
`stop_short_reply` are the whole reason why `AlwaysFallsBack` fails.

**WaitLoopProofs**: `CountIsTrue`, that the code's count is the number of
answers still to be consumed until a read is torn, and `HandoverIsClean` from
it: forwarding begins only at a count of zero. Torn reads do break a hand-over
(`wait_split`). `TypeCorrect`, and `Implements`: the wait is WaitCall.

**StatusPingProofs**: `TypeCorrect`, and `CacheHoldsARelease`, since whatever is
saved was seen in one probe and is written in one piece or not at all. Three
more assume `~SlowUpdates`, without which an update of an old release may finish
after one of the new: `KnowsWhatRuns`, by an invariant that says how much of the
release each update already has in place (`UpdatesAreCurrent`), `CacheKeepsUp`,
and `RepliesAreWhole`: halves read at two times are of one release when both
times are.

**WireProofs**, about the operators of Wire, for any limits and any bytes:

* `VarintsRoundTrip`, for every i32 and whatever bytes follow. The groups of
  seven bits make the value up again, the fifth with the sign
  (`GroupsMakeValue`, linear arithmetic over a division by constants), a value
  has no groups beyond its length, and only the last byte is unmarked, so
  reading ends there. `ReadVarintResult` bounds what is read of any bytes: it is
  an i32, which is what lets a length read from a peer be written again.
* `PacketsRoundTrip` and `HandshakesRoundTrip`: what `encode_packet` and
  `probe_server_version` write is what `read_packet` and `parse_handshake` read.
  They cut a stream where it was joined (`CutOut`, `CutMiddle`, `CutTail`).
* `RawIsReadAgain`, for any stream whatever, not only one redoxide wrote: the
  prefix of the raw form is minimal, what follows it is the stream's, and the id
  stands at the same distance from it.

**InputsProofs** states them for the states of the run, for every stream, file,
config and number, with no bound: `EveryNumberIsReadBack`, `ForwardedStaysRead`,
`LoginNameIsAlwaysFound`, `HandshakeIsAlwaysRouted`, `RepliesAreAlwaysRead`.
`FramingStays` is an action property: an ending once seen stays the only one
when a byte is appended, so the length, and with it the packet, is read again as
it was. `LastLineAlwaysWins` is an induction, but over the steps that add a line
and not over data: the invariant `FoundIsExpected` says that each local is the
last value of its key among the lines so far, and a new line either is that last
one or leaves it (the greatest index of a finite set, `LastExists`, comes from
the library's well-founded minimum).

Every safety invariant and every action property of the passing runs is a
theorem, one of them (`IdleCovered`) under the condition its run has too.
Assumed are only the named ASSUMEs on the constants: finitely many connections,
`None` apart from the ids, bounds that are numbers, limits a VarInt can hold
(`LimitsAssumption`), numbers that are i32s, bytes below 256 that lead no
multi-byte character, lines that are pairs of strings, and an empty value that
parses as no number (`NumberAssumption`, what Rust's `parse` does).

Model-checked only: liveness (`IdleSettles`, `SyncConverges`, `StopEnds`,
`WaitEnds`, `HelloEnds`), since fairness and ENABLED are out of the prover's
reach.

## What is not modelled

Durations (which of two timeouts is shorter, how late a keepalive gets while a
probe blocks the loop); memory orderings (SeqCst but for the detected protocol,
whose relaxed accesses are taken one at a time); JSON, of which only that it is
text; text that UTF-8 encodes in more than one byte a character; how TOML and
the lines of server.properties are split and trimmed; what `rcon_send` writes;
logging. A client is assumed to answer each keepalive at most once. Of a ping's
reply the version is modelled; the state's motd and the player count are read by
themselves and relate to nothing. `negotiate_version` and the build files change
no state.

## Plan

Done: the core (SharedState, Login, Lifecycle), DockerStop and StopCall,
WaitLoop and WaitCall, VersionInfo and StatusPing, Wire, Config and Inputs, each
with its proofs.

Left, in this order:

1. Multi-byte UTF-8 in Wire, with `LoginNameIsFound` and `HandshakeIsRouted`
   proved for it.
2. The RCON frames of `rcon_send` and `rcon_recv`, with the round trip that
   DockerStop takes for granted.
