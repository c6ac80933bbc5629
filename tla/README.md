# Aurora VPN: TLA+ models and proofs

Aurora VPN is a desktop and Android client that runs a tunnel core
(sing-box, or the project's own `engine`) and decides, on the user's behalf,
which server carries the traffic, what goes around the tunnel, and what happens
when a core, a server, the app or its service fails.  This directory holds TLA+
models of the parts that make these decisions, the TLC runs that check them on
small instances, and the theorems TLAPS proves about them for every instance.

Contents: 1 the system, 2 the modules, 3 the runs, 4 findings, 5 proofs,
6 what is only model-checked, 7 what is not modelled, 8 what could come next,
9 how to run it.

## 1. The system

| component | code | state it keeps | operations | hard because |
|---|---|---|---|---|
| Balancer | `core/balancer.rs`, loop in `commands.rs` (`spawn_balancer`) | strategy, primary, routed node, health of every node, sweep, pending switch, counters | `next`, `report_batch`, `commit`, `abort`, `mark_dead`, `inherit` | one machine driven by a loop with awaits, replaced under it by commands; time; starvation; strategies that must not flap |
| Connection session | `commands.rs` (`connect_inner`, `attach_session`, `shutdown`, `handle_core_death`, poller), `core/process.rs`, `state.rs` | status, session number, core process, config file, client and balancer, system proxy, crash counter | connect, disconnect, save settings, core death, reconnects by tasks | several connects in flight, shutdown in the middle of a connect, tasks with old session numbers, failures at every step |
| Server selection | `commands.rs` (`set_active_server`, `apply_switch`), `core/clash.rs` | active and routed server, the core's selector | pick, switch, change of strategy | the core is asked outside the lock, answers come late |
| System proxy, orphan core | `sys/sysproxy.rs`, `core/process.rs` (`kill_orphan`), `lib.rs` (exit) | three registry values, backup file, pid file, child | enable, disable, restore, start, stop, kill | the app killed between any two writes; failing writes; process numbers used again |
| Servers and subscriptions | `commands.rs`, `state.rs`, `store.rs` | two lists, the pinned server, three files | add, delete, refresh, merge, reorder, save | a refresh waits for the network while the list changes; files saved one by one |
| Android tunnel | `core/android.rs`, `AuroraVpnService.kt`, `VpnState.kt`, `VpnPlugin.kt` | phase, service, server of libbox, events, adoption | start, stop, revoke, adopt, kill | a service with a life of its own, a starting thread racing a stop, events in no order |
| Rules: document and router | `core/config.rs` (`build`), `engine/src/router.rs`, `engine.rs`, `dns.rs` (`handle_query`) | the rules, the mode, what is known of a connection | look up, connect, sniff, resolve, first match, change the mode | two lists of rules over different facts at two times; the order is everything |
| Engine: TUN | `engine/src/inbound/tun/nat.rs`, `mod.rs` | flow and port tables, UDP sessions | create, sweep, dispatch, end | port reuse at the limit, ends announced on a channel of their own |
| Engine: DNS | `engine/src/dns.rs` | fake addresses, kept streams, kept replies | allocate, ask, give up | an index that wraps, replies that come after the question was given up |
| Engine: groups | `engine/src/outbound/group.rs` | measuring loop, best member | touch, round, end | a loop that ends itself while it is being used |
| Veil server | `veil/src/server.rs`, `subs.rs`, `crypto.rs` | nonces, granted subscriptions, users | auth, housekeeping, grant, revoke, reload | clocks; awaits between reading and writing |

The components without a model, and those modelled in part, are in section 7.

How they interact.  A *connect* builds the document, starts the core, installs
a client of the core's control API and a *balancer*, turns the system proxy on
and spawns three tasks that carry the number of the session: the traffic
poller, the balancer's loop and the retry of the rule sets.  The poller finds
a dead core and starts another connect; commands (`save_settings` and its
like) start one to apply a change; the engine probe and the rule set retry
start one when they have something to apply.  A *disconnect* bumps the session
number, stops the core and undoes the rest; whoever holds an older number is
expected to stand back.  The balancer's loop asks the machine what to do,
probes servers or moves the core's selector, and reports back; picking a
server or strategy replaces the machine while the loop may be in the middle of
a probe or a switch.  On Android the core lives in a service that the system,
the tile and the widgets start and stop too, and Rust adopts what it finds.
Inside the engine each connection meets the rules of the document on its own;
it shares the port table, the fake addresses and the mode with the others.

What must hold.  Balancer: traffic moves only for a reason the strategy names,
to a server that is verified; a server whose failed dial brings the core down
is never dialled behind the user's back; the current server is watched on
schedule; giving up is justified and temporary; the primary gets its traffic
back.  Session: what the screen shows is what runs; nothing runs that the user
took down; a dead core is answered, but a boot loop ends; what is saved is in
force; what was turned on is turned off.  Recovery: the user's proxy settings
come back whatever died; a core that outlived the app stays known; no
stranger's process is ended.  Lists: files and memory agree at rest, nothing is
orphaned, a refresh keeps ids and order.  Android: the service and Rust tell
the same true story; a stop is final and no crash.  Rules: the second engine
goes around, what is blocked is unreached, a name is looked up on the side its
traffic takes.  Engine and Veil: no two flows share a port, no reply answers
another's question, no token counts twice, the revoked are kept out.

## 2. The modules

| module | what it is |
|---|---|
| `Brain`, `MCBrain` | the balancer's machine and the loop that drives it |
| `Steering` | what the balancer promises about traffic, strategy by strategy; `Brain` implements it |
| `Session` | a connection from Connect to Disconnect, with several connects in flight |
| `Selection` | picks, switches and the core's selector |
| `Recovery`, `MCRecovery` | the system proxy, its backup, the pid file, over kills of the app |
| `Lists` | servers, subscriptions, the pinned server and their files |
| `MCDesk` | `Recovery`, `Lists` and the overlapping connects of `Session`, one in each behaviour |
| `AndroidTunnel`, `MCAndroid` | the service, its threads, and Rust's side |
| `Routing`, `MCRouting` | the rules of the document, and the engine that follows them |
| `PortTable`, `UdpSessions` | the TUN inbound: TCP ports, UDP sessions |
| `DnsServer` | fake addresses, kept streams and replies |
| `UrlTest` | the measuring loop of a group |
| `VeilTokens`, `VeilSubs` | the Veil server's door: tokens once, users by subscription |
| `MCNetwork` | the engine's and the Veil server's parts, one in each behaviour |
| `BrainProofs` | theorems about `Brain` |
| `SessionProofs` | theorems about `Session` |
| `RecoveryProofs` | theorems about `Recovery` |
| `ListsProofs`, `TidyProofs` | theorems about `Lists` |
| `AndroidProofs` | theorems about `AndroidTunnel` |
| `EngineProofs` | theorems about `PortTable`, `DnsServer` and `Routing` |
| `VeilProofs` | theorems about `VeilTokens` and `VeilSubs` |

`MCDesk` and `MCNetwork` put several parts into one run.  The parts share no
state in the code; a variable `focus` lets one move in each behaviour and the
others rest, so that nothing is lost and no product of their states is built.

### Brain and Steering

The machine's fields are the variables of the same names (`routed`,
`candidates`, `health`, `sweep`, `pending`, `primaryOk`, ...).  `fn next` is
the disjunction `Decide`: carry a pending switch on (`NextPending`), decide on
a new one (`NextDecide`), watch (`NextWatch`), sweep (`NextSweep`) or idle
(`NextIdle`).  What `next` returned is `step`; while it is not `Ready` the loop
is outside the lock, busy with a probe, a switch or a nap, and anything else
may happen.  `Report`, `Commit`, `Abort` and `Log` are what follows the await,
applied to whatever machine is installed by then; `PickServer`,
`PickStrategy` and `CoreDeath` replace the machine (`Install`, which is
`Brain::new` and `inherit`).

Abstractions: instants are ages in ticks of five seconds (`RETRY_AFTER`), which
stop growing beyond every threshold; queues are sets with the order in which
the code pops them (`Precedes`); "probed since the decision" is the set
`checked`; sweep counters, only compared for equality in the code, are two
flags; counters saturate where the code stops telling their values apart.  A
step (a probe or a call to the core) takes at most `LongestStep` ticks, which
stands for its timeout.

`Steering` is the contract in the header of `balancer.rs` without any of the
mechanism: traffic moves to an allowed server that answered its last check,
because the current one is dead, because the backup strategy returns home, or
because "fastest" or "rotate" follow their rule from a live server.  The user
may choose anything at any time.  The one exception is honest: a switch the old
machine had asked for when it was replaced lands on the new one (`overtaken`,
`Late`).

### Session

A run of `connect_inner` is a job with a program counter; a stretch of code
without an await, and without giving up a lock somebody else waits for, is one
action: `Begin`, `Prepare`, `Spawn`, `Answer`, `Install`, `Enable`, `Announce`,
and `GiveUp` wherever the code calls `shutdown` with a message.  (In `Begin`
the status and the session number, written one after the other, are one step:
no reader of the model looks at both.)  `shutdown` is two steps, `StopAll` and
`ShowDown`, since it waits for the engines to stop between them.  A number is
only ever compared with the present one, so each carrier (job, poller, errand)
keeps one bit, `current`.  A document is the settings it was built from, the
servers among them (`settings`, with a version); `servers` says whether there is
one at all.  `BeginRefused` is the early returns of `connect_inner`, for want of a
server or of rights, which leave everything as it was.  What changes the document
(`SaveSettings`, `DeleteServer`) is saved, or ends there (`FailToSave`), and is
applied by a restart of a connection that is shown (`Apply`); an import or a
refresh (`RefreshServers`) restarts nothing.  `Disable` and `Enable` may be failed
by the registry, wholly or half-way.  `slips` is history: a refused restart, an
unsaved change and a failed registry are remembered there until the next connect
that begins, or the next time the registry obeys.  The poller is `Asleep`, `Asking`,
`Burying` or `Closing`; `handle_core_death` is
`LeaveBe`, `Surrender` and `Revive`.  The rule set retry and the engine probe
are the `errand`.

`Brisk` is an assumption about time: a core spawned while a shutdown is under
way takes longer to answer (it has to bind its ports and its control API) than
that shutdown takes to end.  Section 4 says what happens without it.

### Selection

`Pick` and `ShowPicked` are `set_active_server` up to its call to the core,
`Takes` the moment the call takes effect there, `Returns` the rest;
`SetStrategy`, `Decide`, `Told` and `ShowSwitched` are the balancer's side.
Whom the balancer switches to, and when, is `Brain`'s; here it is any server.

### Recovery

One write is one step: the three registry values (`Write`, in the order the
code makes them), the backup (`SaveBackup`, `Written`), the pid file (`Record`,
`ForgetCore`).  Between any two the app may be killed (`Killed`), after which
`Launch` is `AppState::new`: `KillOrphan`, then `RestoreAfterCrash`.  `Exit` is
the orderly end.  The user edits his settings (`UserEdits`) and processes come
and go under the same numbers (`ProcessesChange`).  A behaviour meets one kind
of fault, `fault`: none, an unwritable disk (`disk`), a failing registry write
(`write`), a kill that does not take (`kill`), an app killed between the spawn
and the record (`gap`), or a mode switched while connected (`switch`); each
property says which it survives.

### Lists

A command is a job, a sequence of *sections*: the stretch of code under one
lock, one save of a file, or one exchange with a provider.  `AddLinks`,
`AddSubscription`, `AddFreePool`, `Refresh`, `DeleteSubscription`,
`DeleteServer`, `UpdateServer`, `ReorderServers`, `ReorderSubscriptions` and
`SetActiveServer` are the commands; `Merge` is `merge_subscription_nodes`, with
`Claim` its pairing of incoming servers with old ones.  `Restart` reads the
files back.  `hitch` says what a behaviour may meet: nothing, commands side by
side, or a kill between two sections.

### AndroidTunnel

The handlers of the service run one at a time on the main thread, in the order
of `inbox` (`Deliver`, `OnDestroy`, `Stopped`); the thread that brings libbox up
is `ReadConfig`, `MakeServer`, `Begin`, `CameUp`, `FailedToStart`; Rust's connect
is `Consent` to `AttachSession`, its adoption `Adopt`, `Compare`, `Probe`; the
events of the service are handled in any order, the poller looks on its own.
`plan` says when the user and the system act: at rest only (`serial`), or at any
moment (`overlap`).  libbox is external: it comes up, fails, or is closed while
it comes up, when either answer may follow.

### Routing

The document is two ordered lists of rules (`RouteOrder`, `DnsOrder`), of which
the settings leave some out (`RouteRules`, `DnsRules`) and to which they give an
effect (`RouteDoes`, `DnsDoes`).  A rule is named for what it looks for; a name
or an address has the lists it is on (`ListsOf`); so a rule matches if its name
is among the `Facts` known of the connection, and `Router::next` is the first of
`Matching`.  One connection is followed, with the lookup it came from: `LookUp`
is the query that arrives as a packet of its own, and is itself routed before
it is answered (`Hijacked`, `Answer`); `Connect`, `ConnectUnasked`,
`ConnectByName` and `ConnectByAddress` are the ways a connection comes in;
`Route` is one turn of the loop in `handle_tcp` and `open_udp` (`Sniff`,
`Resolve`, or the end), between two of which `SetMode` may fall.  What the
engine cannot know is chosen: whose process a connection is (`Attributions`),
whether its first bytes show its name, whether a resolve succeeds.

### The engine's and the Veil server's tables

`PortTable`: one reader (`hand`) takes a packet, looks its flow up or creates
it, rewrites and forwards; the sweep falls between any two of its steps.  Ports
are numbers, since the search for a free one runs along them from `cursor`.
`UdpSessions`: packets, and the ends of sessions on a channel of their own
(`Hear`).  `DnsServer`: `Allocate` is `FakeIp::index_for`, with the wrapping
`next`; `Ask`, `Open`, `Reply`, `Again`, `GiveUp` are `exchange` on kept streams,
where a reply may lie unread.  `UrlTest`: `Touch` and `Swap` are the two writes of
`touch`, `Check` and `Clear` the two steps in which the loop ends.
`VeilTokens`: `Auth` and `Retain`, with a clock that may be set back by `Setback`.
`VeilSubs`: `subs` is changed first (`Noted`, `RevokeAll`), saved next, and taken
into the users last (`ApplyNoted`, `ApplyRevoked`), with awaits in between;
`Reload` and `RestartServer` come at any time.  Of the configuration it keeps a
version and whether it has a section of subscriptions, without which nobody is
let in by one (`LetIn`), requests are not served and the check is skipped.

## 3. The runs

Twelve runs; what each property says is stated in the comment above it.

| run | module | what it checks and shows |
|---|---|---|
| `brain_replaced` | `MCBrain` | `TypeOK`, `FragileLeftAlone`, `SwitchIsVerified`, `BrainRefines` (the contract `Steering`): two servers, one of them fragile (not in `Safe`), all four strategies, latencies beyond the tolerance, the median over two samples, the machine replaced at any moment, refused switches |
| `brain_live` | `MCBrain` | `WatchedOnTime`, and under fairness `ReturnsHome`, `EveryoneIsMeasured`, `RotationVisitsAll`, `DeadIsLeft`: three servers of which one always answers; backup, fastest and rotation |
| `session_serial` | `Session` | `DownWhenAskedFor`, `ConnectedIsWatched`, `SettingsApplied`, `ProxyFlagIsTrue`, and under fairness `DeathIsAnswered`, `BootLoopStops`: connects do not overlap and commands wait for them; one mode, the system proxy's; the last server may be deleted and others come, saving may fail, the registry may refuse, and every step of a connect may fail |
| `session_cancelled` | `Session` | finding 1 |
| `session_stranded` | `Session` | finding 6 |
| `desk` | `MCDesk` | `BackupIsUsers`, `UsersAtRest`, `OrphanIsKnown`, `StrangersLive`: kills between any two writes and one kind of fault besides; `DiskCatchesUp`, `NoStrays`, `RefreshIsStable`, `OrderChoosesNothing`: two commands on the lists, one after the other, side by side, or cut off; `NothingLeftRunning`: two connects in flight, commands at any moment, both modes, rights and servers that come and go |
| `recovery_mode_switch` | `MCRecovery` | finding 2 |
| `android` | `MCAndroid` | `Agree`, `StopIsNoCrash`, `StartIsAnswered`, `DeadIsNoticed`: acts of the user, the tile, the widgets and the system, at rest and at any moment, kills included |
| `android_ghost` | `MCAndroid` | finding 3 |
| `network` | `MCNetwork` | `PortsAgree`, `SynIsServed`, `NothingIsLeft`, `AnswerHolds`, `RightAnswer`, `UsedIsMeasured`, `AcceptedOnce`, `UsersFollow`, `DisabledIsRevoked`, `SecondGoesAround`, `BlockedIsUnreached`, `LookupFollowsTraffic`: the engine's and the Veil server's parts, each to its own bounds |
| `route_fake_ip` | `MCRouting` | finding 4 |
| `selection` | `Selection` | finding 5 |

**Bounds of Brain.**  Five seconds are a tick.  The thresholds keep the order
they have in the code (`RETRY_AFTER` < `PROBE_EVERY` < `FRESH`), shortened to 1,
2 and 3; `Interval`, minutes in the settings, is 2: a sweep that is due sooner
only competes more with the watch.  `FAIL_LIMIT` and `STREAK` are the code's 2;
`RECOVER_BASE` is its 3 where a return is the question and 2 elsewhere; `CHUNK` is 1 instead of 8, so that a
sweep takes several steps; one doubling instead of five reaches the saturation
of `RecoverNeeded`.  Two or three servers are enough for a current one, a
primary and a third to be starved or rotated to.  Two samples (of the code's
three) are the least for which the median differs from the last one.
`MaxInstalls` = 1 lets an answer arrive at another machine than the one that
asked.

**Bounds of Session.**  `FAST_CRASH_LIMIT` is 3, as in the code.  Two jobs are
the least that overlap (in `desk`); `MaxRequests` bounds commands and errands
together: 4 in `session_serial` (a connect, two changes and one command more), 3 in
`desk`, 2 where a finding is to be shown.  Core deaths are not bounded.  One
disconnect is under way at a time
(`leaving`): the screen's button waits for it.

**Bounds of the desk.**  Two settings of the user's, one of them a proxy of his
own; two ports; two process numbers, so that one comes to be used again.  Kills
and the user's edits are not bounded.  Two commands (`MaxCommands`) on two jobs,
lists that begin empty, mixed, or with a pinned server that is gone; a provider
that lists up to two servers with up to two fingerprints, hence duplicates.

**Bounds of Android.**  Three lives of the service and three threads, two tasks
of Rust, two unhandled events of a kind, and, besides what they set off, six acts
where calls come one after another and two where they overlap (`MCActs`).

**Bounds of the network.**  More flows than ports and a clock that outruns both
idle limits; more names than fake addresses; three streams for two questions;
two users of a group and an idle limit of one; a clock set back by as much as
tokens may differ; two subscriptions, one request beside the housekeeping, three
versions of the configuration (the section may go and come back) and one trouble.  The rules: four names and four
addresses, each on lists that contradict each other, so that their order shows;
23 documents (`MCSetups`), some of them with a set that cannot be read; one change of the mode.

**Deadlock** is checked in the runs of Brain and in `recovery_mode_switch`.  In
the others the model comes to rest when the bounded acts are used up, as the
app does when nobody touches it.

**Fairness.**  Always of the program's own steps, never of users, servers, the
panel, the system or failures.

  - Brain: `WF_vars(Drive)`.  The loop of `spawn_balancer` runs as long as the
    session, every probe and call has a timeout and every nap ends.  In
    `brain_live` the core refuses nothing, since a refused switch is asked for
    again without time passing, which would starve everything else; and one
    server always answers, because without it the sweep is starved (section 4).
    A server that answers for good is the premise of the properties.
  - Session: `WF_vars(Proceed(j))`, since every await of `connect_inner` has a
    timeout; `WF_vars(Watch)`, since the poller is woken by a clock;
    `WF_vars(EndDisconnect)`, since the engines' end is forced.
  - Android: the main thread handles what is in its inbox, a thread of libbox
    comes to an answer, Rust's tasks have timeouts, events are handled, the
    poller is woken by a clock.
  - Network: the dispatcher and every UDP session run (a session ends after its
    idle time), the measuring loop and the second write of `touch` come, the
    housekeeping and a request being served go on, by an error if need be.

**Mutants.**  Each property of a passing run is broken by at least one small
mistake in the code it is about (`FreshMutant` forgets the age of a
measurement, `GiveUpMutant` does not stop the core, `RouteOrderMutant` looks at
the mode first, ...); the definitions named `...Mutant` stand beside the ones
they replace, and `PROJECT.json` pairs them.

## 4. Findings

Six disagreements between the code and what it, its comments or its strings
say; each is a run whose counterexample is short enough to read.

1. `session_cancelled` (`commands.rs:1310`).  `connect_inner` never looks at its
   session number again.  A disconnect during a connect (which the screen
   offers) stops what there is; the connect then starts a core and shows
   Connected, unwatched.
2. `recovery_mode_switch` (`commands.rs:1449`).  A restart into TUN sets
   `status.system_proxy` to false without turning the proxy off; neither a
   later shutdown nor the exit turns it off, and the machine stays pointed at
   a dead listener until the next start of the app.
3. `android_ghost` (`AuroraVpnService.kt:181`).  A stop that finds the start thread
   before it has stored its server closes nothing; the thread then brings the
   tunnel up with no service left that could take it down.
4. `route_fake_ip` (`router.rs:95`).  The range of fake addresses counts as
   private, and private addresses are bypassed by default: with Fake-IP on,
   every connection to a fake address goes direct before its name is looked at.
5. `selection` (`commands.rs:1107`).  A pick by hand while the balancer waits for
   the core's answer: the answer overwrites status and machine, which then name
   another server than the one the traffic goes through.
6. `session_stranded` (`commands.rs:1279`).  The last server is deleted while
   connected; the restart is refused before the status is touched.  When the core
   dies its restart is refused the same way, the poller has ended, and Connected
   stays over a dead core, although the comment at 580-581 says that a failed
   restart reports itself in the status.  Missing rights (1285) do the same.

The models show more, without a run of its own; each is had by the change named.

*Balancer.*  After a refused switch (`CoreRefuses`) the same switch is asked for
at once, on the same measurements (`balancer.rs:342`; the comment at 340 promises
new ones).  With `SteadyUp <- AnyServers` in `brain_live`, `EveryoneIsMeasured`
fails: two silent servers with a schedule of their own, the current one and the
primary, starve the sweep (`balancer.rs:358`), since a probe takes as long as the
time after which the other is due.  `RotationVisitsAll` says nothing while a
server keeps dying: fleeing from it may lead back to where the last round
began.  `WatchedOnTime` is about a core that takes every switch: with one that refuses,
a return to the primary is asked for again and again without a look at the
current server in between, and the watch is put off for as long as that lasts.
Its bound grows with the number of servers, since every one of them may be
verified, a step each, before the watch gets its turn.

*Session.*  Where a restart was refused, the settings saved and the servers deleted
meanwhile are not in force, and a core that dies is not watched any more: the
invariants of `session_serial` say so (`"Refused"`, `Stranded`), and finding 6 is what
it looks like.  Settings that could not be saved stay in memory unapplied
(`commands.rs:1715`).  A `disable` that fails is dropped and the flag cleared all
the same (851, 865), and a failed `enable` may have written a half
(`sysproxy.rs:114-116`): what is left on is then known to the backup only, which
`UsersAtRest` is about.  Further, `session_serial` with

  - `Jobs = {j1, j2}`, `Overlap` and `Brisk`: `ConnectedIsWatched` fails.  Of two
    overlapping connects the second fails and shuts down; the first, waiting for
    the selector, announces a connection without a core (1441).
  - `Overlap` and `Brisk`: `SettingsApplied` fails.  Settings saved while a connect is
    in flight start no restart, since the status is not yet Connected, and the
    connect has already built its document.
  - two jobs, `Overlap`, no `Brisk`: `NothingLeftRunning` fails.  A connect spawns its
    core and announces it between the two steps of a shutdown, which then writes
    Disconnected over it.
  - both modes: `ProxyFlagIsTrue` fails, which is finding 2.  The other three
    invariants hold, without the rights too.

*Selection.*  With `MaxRefused = 1` one refused pick leaves the status wrong
(`commands.rs:1799`); with two commands, two picks in a row reach the core in
another order than they are shown.

*Recovery.*  `OrphanIsKnown` excepts the faults `kill` and `gap`.  A stop that does
not take forgets the process all the same: at the exit (`lib.rs:642`), in a
shutdown (`commands.rs:842`) and in a connect whose spawn overwrites the pid
file (1362), whereas `kill_orphan` takes care to keep it (`process.rs:350`); and a
core spawned by an app that is killed before it writes the number is known to
nobody.  What `OrphanIsKnown` does check is that in every other history, over kills
and restarts, the number in the file is the core's.

*Lists.*  Side by side, an order sent before the last server was deleted may be
applied after others came: the pin found nobody to name, and the first of the
list, whom a connect would choose, changes with the order (`commands.rs:2191`).
`OrderChoosesNothing` leaves that out.  `NoStrays` speaks of commands one after the other.  Side by side, a
refresh that waits while its subscription is deleted leaves servers of a
subscription that is gone, and two calls of `add_free_pool` leave two pools.
Two savers of one file share one temporary file (`store.rs`); the model saves
in one step.

*Android.*  `Agree` and `DeadIsNoticed` speak of acts that find the system at
rest, and of a consent and servers that are not taken away under a connection: a
consent taken back while the core is dead leaves Connected, as in finding 6.

*Rules.*  In Global or Direct mode lookups still follow the rules of Rule mode.
The comments at `config.rs:9` and `docs/architecture.ru.md:129` put the mode before
the blocklists, the code behind them (709-727).  A lookup of a second engine's
server by the system's resolver is sniffed with its name, so the rule for that
name sends the packet direct, to the tunnel's own DNS address, before it could
be hijacked (the stage `lost` of `LookUp`; `config.rs:531` expects the direct
resolver to answer it).  A connection of the second engine whose process is not
found, to a server known by name whose first bytes show another name, enters
the tunnel again: `Around` leaves it out, `config.rs:694` says nothing may.  Of two
rule sets of a country one unreadable set half-applies the switch
(`ReadableSets`), and takes the names of both countries out of the DNS rules
(`DirectSites`); `config.rs:321` wants neither.  `sniff_stream` knows TLS and HTTP
only, so DNS over TCP is never hijacked.

*Engine.*  A flow that was closing and is opened again gets the same port if the
cursor stands right before it; one half closed for longer than the short limit
is swept.  A stream whose server has gone silent uses up the whole time of a
question, so that the second attempt promised at `dns.rs:544` is never made.
`UsedIsMeasured` speaks of the uses after the one that meets the end of the loop:
that one gets no round.  The end of an old UDP session removes the newer one of
the same pair and cuts it off (`mod.rs:361`); `NothingIsLeft` is about what stays
in the table, not about that loss.

*Veil.*  Nonces are lost at a restart; `AcceptedOnce` is about one life of the
server.  `serve_subscription` applies the configuration it read before its await
(`server.rs:504`), so that a reload in between is undone until the next one, and a
section of subscriptions that was taken out comes back.  Taken out, the section
leaves `subs` in memory (281): put in again by a reload it lets the old ones in at once, whereas a server that was
restarted in between knows none of them, and its next save drops them from the file.
`check_subs` ends at the first error of the panel with nobody revoked, and may
revoke what was granted again meanwhile, until the next request: no property
forbids it.  The path of the state file is taken to stay the same.

## 5. Proofs

The proof modules prove, for every value of the constants that satisfies the
named assumptions of the modules, what the runs check on small instances.  An
assumption beyond those is part of the theorem's statement.

**BrainProofs.**  The inductive invariant is

    IInv == TypeOK /\ FragileLeftAlone /\ FragileUncounted /\ PendingInv

`FragileLeftAlone` is not inductive alone.  The machine may be replaced during
a probe, so that the primary of the new machine is being probed although
traffic is elsewhere; `FragileUncounted` says that a primary the core must not
dial has no successes counted towards a return, and `PendingInv` says what a
pending switch guarantees about its queue and about a switch already asked
for: the target is alive and in the queue, and what it was decided on still
holds (fleeing means that the current server is dead, a return means Failover
and the primary, and so on).  One lemma per action, one step per conjunct.
From it: `TypeCorrect`, `FragileIsLeftAlone`, `SwitchesAreVerified`, and
`KeepsContract`, that `Spec => BrainRefines`: initial states map to initial
states, and each action to `Hear`, `Steer`, `Late`, `Refuse`, `Choose` or a
stutter.

Once the invariant is there, more follows step by step.  That giving up is justified (`GivingUpIsJustified`) is
decided long before the machine gives up.  `FleeInv` says that throughout a
flight the machine is not stranded and whoever is outside the queue has
failed: the queue starts with every candidate that has not failed
(`VerdictFlees`) and loses only those checked in vain; a report may add to
what is known of a candidate in the queue only; a new machine has no flight.
When the queue is empty, everybody has failed.  `DeadFragileIsNotDialled`
rests on one more fact (`CalmIsStranded`): a machine that watches, sweeps or
idles although its current server is dead has given it up, or it would have
decided to leave.  These two are proved and in no run.

`WatchedIsOnTime` assumes `~CoreRefuses` and `MaxInstalls = 0`; either may put the
watch off for longer (section 4).  It counts time.  `OnTimeInv` gives every phase
of the machine its `Lateness`: idle, the watch is not due; ready, it is late by
one step at most, and by one more for each candidate verified since the decision
(`Verifying`).  These are checked once each, and no decision is taken twice
(`NothingIsDecidedTwice`): a round is judged once, a return that came to nothing
counts anew.  `Allowance` bounds the sum by the number of the other candidates,
the one place where a cardinality is needed.

**SessionProofs.**  The inductive invariant is

    IInv == TypeOK /\ CoreInv /\ ClosingInv

`CoreInv` says why a core may exist while the screen shows no connection: some
job has spawned it and has yet to announce it or give up.  `ClosingInv` says
what is known in the middle of a shutdown; it is here that `Brisk` is used: no
job gets past `Await` while a shutdown is under way, so the status it is about
to write covers no connection announced meanwhile.  From it: `SessionInvariance`,
`SessionTypeCorrect`, and `NothingIsLeftRunning` with `Brisk` as its
assumption, for any number of overlapping connects, whereas the run has two.

`StaysDown` assumes `~Overlap`, without which it is false
(finding 1).  `DownInv` says that while the user wants nothing, every
job is free, every poller and errand knows its session is over and no core
exists; Connected may still be shown until the shutdown under way ends.

Its second part, on what a connection keeps, assumes `Serial`: one connect at a time,
commands that wait for it, and a crash limit above 1; the proxy's also `OneMode`.
Without the wait or the one mode they are false (section 4); with a limit of 1 a
poller may surrender while an errand's reconnect is about to begin.  They need no
`Brisk`, and the run has none; rights, servers, saving and the registry may fail
as they like, and what that leaves is said by `slips` in the properties.  The
argument is in two layers.  `CalmInv`: a shutdown and a connect exclude one
another, because what starts a connect waits for shutdowns, is the present
poller itself, or has just forgiven the crashes, so that the present poller will
not surrender; and a present poller that buries (`BuryInv`) has found the core
not running.  `SerialInv` then follows the one connect in flight (`FlightInv`): from
`Begin` on it is the present session and no poller is; from `Spawn` on the document
on disk is of the present settings, from `Await` on so is the core's.  `ShownInv` is
what it leaves behind: a document that is behind the settings is owed a restart, or
a slip is remembered (`Owed`), and a connection without its poller has a dead core
and a restart that was refused (`Alone`).  `ProxyInv` relates the proxy, the flag and
what the registry refused at each of its steps.

**RecoveryProofs.**  Two invariants that do not need each other.  `ProxyInv`: a
readable backup holds what the user set last, without one the registry does,
and a write under way finds one; `RestInv` adds what the flag must say for a
shutdown to undo what was done.  They give `BackupStaysUsers` and
`UsersHaveTheirs`.  `CoreInv`: a core is the child or the one in the pid file, at
every step but between spawn and record.  It gives `OrphansAreKnown` and, with
the kill guarded by `same_exe`, `StrangersLiveOn`.

**ListsProofs.**  `FilesCatchUp` reads what the jobs still have to do.  `Covered`:
behind every section that changes a list there is a save of its file, and
nothing between the two that could drop the rest of the job (a refused fetch, a
server that is gone); behind a fetch there may be anything, since its end
replaces it.  `DiskInv`: a file that is behind memory is owed a save by some job
(`Owes`), whoever's change it was.  A section that changes a list makes its own
job owe the save, a save of any job pays for all, and the kill makes memory what
the files say.

**TidyProofs.**  The same reading of what a job has still to do, for commands that
wait for each other.  `Orderly` says in which order sections may stand: behind
every change of the lists comes the look at what to show, behind a dropped
subscription the drop of its servers, nothing that moves the pin between a sort
and what comes after (`Straight`, by the pairs that do not occur, `Wrong`).  Every
command begins with such a list (`Plans`), and a section either goes on along it
or drops it for another one (`SectionWays`), with what it does to lists, files
and status on the way (`Frame` and the three effects).  With one job moving,
`NeatInv` then says why nothing is astray for good: what is shown is right or
will be shown anew (`Showing`), servers without a subscription are those this
job is about to drop (`Kept`), a pool is added only where none was found
(`OnePool`).  At rest that is `NoStrays` (`NobodyIsLeftBehind`), from starts in
which nobody is astray.  `OrderInv` says that until the lines are in their new
order the file has the servers memory has and the pin, once made, points at one
of them; hence `OrderKeepsTheChoice`, also across a kill in the middle and, as
long as the pinned server is there, for commands side by side.  What filters,
sorts and merges do to a list of any length (`OnlyFacts`, `SortFacts`,
`MergeFacts`) is proved without induction over an operator: the positions up to
which a recursive function does as stated form a set that holds the first one
and climbs to the last (`Climb`, from the least number not in it).

**AndroidProofs.**  `Agree` speaks of rest, so what has to be proved is how rest is
reached.  In the `serial` plan the service is in one of four scenes (`Gone`,
`Leaving`, `Starting`, `Running`), each with what may be in its inbox then; Rust is
`AtRest`, waiting for events that fit the scene, or has one task (`AtWork`), whose
every point fits some of them (`Busy`).  Each handler takes scene and point to
scene and point (`SerialInv`), and at rest only those are left of which `Agree`
holds (`AtRestTheyAgree`).  `StopInv` adds which events may still come once a
stop is all that was asked for: never one that Rust takes for a crash
(`StopsAreNoCrash`).  A new thread or life takes the least number that is free; that there is a
least one is the induction of the library (`NatLessThanWellFounded`).

**EngineProofs.**  *Ports*: `PortInv`, the types and that the two tables are inverse
to each other, is inductive (`TablesAgree`); `SynIsLostOnlyWhenFull` is an action
property that rests on a lemma of its own, that the search passes every port of
the range wherever it begins.  *Answers*: `FakeInv`, that a name is kept only at
an address that still leads to it (`AnswersHold`); `StreamInv`, that a stream in
the pool has nothing unread and no two questions share one (`AnswersAreRight`).
*Rules*: neither property of the rules is inductive; `RouteInv` says that an
answered name is not blocked, that a name the first bytes show is known from
the second call on, and that whatever `Must` be decided early is not yet past
its second call.  `FirstCall` shows that the first call finds the sniff, and
`SecondCall` that the second finds the rule that decides, since `FirstIsEarly` finds
none after it and nothing before it matches.  Hence `SecondEngineGoesAround` and
`BlockedStaysUnreached` in every mode, for any lists, documents and changes.
`LookupsFollowTraffic` compares the two lists rule by rule: `FollowInv` says that a
connection which follows an answer was answered as the rules of lookups say of
its name, and that in Rule mode a name the first bytes show has met none of the
rules before its own; from the first rule that matches in one list it follows
where the first one of the other is.  It needs
`SitesAreRead`: a rule set of names that cannot be read takes the lookups of both
countries with it, not their traffic (section 4).

**VeilProofs.**  `TokensInv`: a nonce that was thrown away is of a token too old on
any clock that may still come, since the horizon is two skews and the clock is
set back by one at most (`TokensAreAcceptedOnce`).  `SubsInv`: whoever changes the
subscriptions has a step of its own left that takes them into the users, as far as
the configuration it goes by has a section for them (`UsersFollowSubs`).

## 6. What is only model-checked

Liveness (`ReturnsHome`, `EveryoneIsMeasured`, `RotationVisitsAll`, `DeadIsLeft`,
`DeathIsAnswered`, `BootLoopStops`, `StartIsAnswered`, `DeadIsNoticed`,
`NothingIsLeft`, `UsedIsMeasured`, `DisabledIsRevoked`) is beyond the prover and
stays with TLC.  Of the invariants and action properties one is without a
theorem: `RefreshIsStable` of `Lists`, which counts the servers a merge keeps and
adds.  `MergeFacts` says of a merge only where its servers come from.

## 7. What is not modelled

`PROJECT.json` lists every component with its status.  In part only: the session
leaves the start of the second engine to one outcome; the selection leaves out
the mode of routing; Android the consent dialog, the log's tail, the counters
and the delivery of the status to the widgets; the router the matching of
suffixes, ranges and rule set files and the parsing of first bytes; the document
builder everything but its rules; the engine's DNS the transports that open a
connection per question.  In `Routing`, UDP through the local proxy is left out:
it is sniffed like a packet of the tunnel.

Not at all, and why:

  - wire formats and cryptography (outbounds, transports, TLS, the Veil codec):
    byte layouts with a buffer as their only state; most of the engine's lines;
  - parsing and formatting (links, models, settings), QR codes, one HTTP exchange
    each (WARP, free servers, rule sets): no state over more than one call;
  - calls of the operating system (autostart, elevation, processes, screen);
  - counters (tracker) and the log ring: nothing depends on them;
  - the download of updates (`download_resumable`): one call after another on one
    buffer.  It does not look at the offset of a partial answer, takes a file
    that changed between two attempts for one, and a range that begins at the
    full length is refused with 416;
  - the front ends, which show what commands and events say;
  - `spike-slint/`, a second shell around copies of the same core files: what is
    modelled of the original holds for the copies as far as they agree;
  - the vendored renderer, installers and scripts.

The last three, with the first, are the larger part of the repository's lines.

## 8. What could come next

A theorem about `RefreshIsStable`; the delivery of the status to the widgets; the pool of
connections of `veil/src/client.rs` (a second attempt may take another old
connection, and the limit of streams may be passed, at 96 and 122); Xray's start
with its retries; an abstract specification of the Android tunnel, up or down by
the user's last act, refined by `AndroidTunnel` in the `serial` plan.

## 9. Running it

    tlc -workers 2 -config session_serial.cfg Session.tla
    tlapm EngineProofs.tla

Each run has the `.cfg` of its name and the module of the table in section 3.
The longest takes under two minutes on two cores.
