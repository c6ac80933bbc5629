------------------------------ MODULE Session ------------------------------
(***************************************************************************)
(* A connection of Aurora VPN from "Connect" to "Disconnect": connect,      *)
(* connect_inner, attach_session, shutdown, handle_core_death, the traffic  *)
(* poller and the tasks that reconnect on their own, of                     *)
(* src-tauri/src/commands.rs, with the core process of core/process.rs.     *)
(*                                                                          *)
(* Commands run on a pool of threads.  Each run of connect_inner is a job;  *)
(* between its awaits and its locks other jobs and commands interleave.     *)
(* Every connect and every shutdown bumps `state.session`; whoever carries  *)
(* an older number is to stand back.  Numbers are only compared with the    *)
(* present one, so each carrier keeps whether its number is `current`.      *)
(*                                                                          *)
(* A document is the settings it was built from.  The clash client and the  *)
(* balancer are installed and dropped together: `panel`.  The balancer's    *)
(* loop lives as long as the poller and is the subject of Brain.            *)
(***************************************************************************)
EXTENDS Naturals, FiniteSets

CONSTANTS
  Jobs,             \* runs of connect_inner that may be in flight together
  Modes,            \* tunnel modes the user chooses from: Tun, SystemProxy
  Elevated,         \* is the core sure to be allowed a virtual adapter?
  Overlap,          \* do commands arrive while a connect is in flight?
  Brisk,            \* does a core spawned in the middle of a shutdown take
                    \* longer to answer than that shutdown to end?
  FAST_CRASH_LIMIT,
  MaxRequests       \* bound: commands, and reconnects by a task

ASSUME JobsAssumption == Jobs # {}
ASSUME ModesAssumption == Modes \subseteq {"Tun", "SystemProxy"} /\ Modes # {}
ASSUME LimitsAssumption ==
  /\ FAST_CRASH_LIMIT \in Nat \ {0} /\ MaxRequests \in Nat
  /\ {Elevated, Overlap, Brisk} \subseteq BOOLEAN

VARIABLES
  status,       \* what the screen shows; `proxy` is status.system_proxy
  since,        \* uptime: none, under or over FAST_CRASH_WINDOW_MS
  settings,     \* what a connection is owed: a version and the tunnel mode
  file,         \* the settings config.json was last built from
  core,         \* the child process and the document it runs
  panel,        \* a clash client and a balancer are installed
  osProxy,      \* the system's proxy points at this app
  fastCrashes,
  job,          \* the runs of connect_inner
  pollers,      \* the traffic pollers alive
  errand,       \* a task that will reconnect when it is done
  leaving,      \* a disconnect is in the middle of its shutdown
  servers,      \* there is a server to connect to
  wish,         \* history: whether the user last asked for a connection
  slips,        \* history: what went wrong and was not made good since
  requests      \* how many commands and errands there have been

vars == <<status, since, settings, file, core, panel, osProxy, fastCrashes,
          job, pollers, errand, leaving, servers, wish, slips, requests>>

Settings == [version : Nat, mode : Modes]

NoCore == [state |-> "None"]
Run(doc) == [state |-> "Running", doc |-> doc]

At(pc, current, mode) == [pc |-> pc, current |-> current, mode |-> mode]
Off == At("Off", FALSE, "None")
Poller(pc, current, mature) == [pc |-> pc, current |-> current, mature |-> mature]

Free(j) == job[j].pc = "Off"
Closing ==
  \/ leaving
  \/ \E j \in Jobs : job[j].pc = "Closing"
  \/ \E p \in pollers : p.pc = "Closing"
Quiet == (\A j \in Jobs : Free(j)) /\ ~Closing

(* A new number: nobody carries it yet.                                    *)
Outdated(jobs) == [j \in Jobs |-> [jobs[j] EXCEPT !.current = FALSE]]
OutdatedPollers(ps) == {[p EXCEPT !.current = FALSE] : p \in ps}
OutdatedErrand == IF errand = "None" THEN "None" ELSE "Stale"

-----------------------------------------------------------------------------
(* fn shutdown, by a job or a poller that is left as given: nobody talks   *)
(* to the core any more.                                                   *)
StopAll(jobs, left) ==
  /\ job' = Outdated(jobs)
  /\ pollers' = OutdatedPollers(left)
  /\ errand' = OutdatedErrand
  /\ core' = NoCore
  /\ panel' = FALSE
  /\ UNCHANGED <<status, since, settings, file, servers>>

(* The system's proxy is switched off, as far as the system lets it be.    *)
Disable ==
  \/ osProxy' = FALSE /\ slips' = slips \ {"Registry"}
  \/ osProxy' \in {osProxy, FALSE} /\ slips' = slips \cup {"Registry"}

(* Its second half, once the other engines have stopped.  The system proxy *)
(* is touched only if the status says that this app switched it on; that   *)
(* it could not be switched off is dropped, and so is the flag.            *)
ShowDownMutant(result) ==
  /\ UNCHANGED <<osProxy, slips>>
  /\ status' = [state |-> result, proxy |-> FALSE]
  /\ since' = "None"
  /\ UNCHANGED <<settings, file, core, panel, fastCrashes, errand, servers, wish, requests>>
ShowDown(result) ==
  /\ IF status.proxy THEN Disable ELSE UNCHANGED <<osProxy, slips>>
  /\ status' = [state |-> result, proxy |-> FALSE]
  /\ since' = "None"
  /\ UNCHANGED <<settings, file, core, panel, fastCrashes, errand, servers, wish, requests>>

(* A job gives up: shutdown with a message, which shows as an error.       *)
GiveUpMutant(j) ==
  /\ job' = [job EXCEPT ![j] = At("Closing", FALSE, "None")]
  /\ UNCHANGED <<status, since, settings, file, core, panel, fastCrashes,
                 pollers, errand, leaving, servers, wish, requests>>
GiveUp(j) ==
  /\ StopAll([job EXCEPT ![j] = At("Closing", FALSE, "None")], pollers)
  /\ UNCHANGED <<fastCrashes, leaving, wish, requests>>

EndJob(j) ==
  /\ job[j].pc = "Closing"
  /\ job' = [job EXCEPT ![j] = Off]
  /\ ShowDown("Error")
  /\ UNCHANGED <<pollers, leaving>>

-----------------------------------------------------------------------------
(* connect_inner, step by step.                                            *)

Enter(j) == job' = [job EXCEPT ![j] = At("Begin", FALSE, "None")]
Goto(j, pc) == job' = [job EXCEPT ![j].pc = pc]

(* Refused before anything is touched, the status included: there is no    *)
(* server, or the adapter needs rights, which come and go with the file of *)
(* the core (tun_allowed).                                                 *)
BeginRefused(j) ==
  /\ job[j].pc = "Begin"
  /\ ~servers \/ (settings.mode = "Tun" /\ ~Elevated)
  /\ job' = [job EXCEPT ![j] = Off]
  /\ slips' = slips \cup {"Refused"}
  /\ UNCHANGED <<status, since, settings, file, core, panel, osProxy, fastCrashes,
                 pollers, errand, leaving, servers, wish, requests>>

Begin(j) ==
  /\ job[j].pc = "Begin"
  /\ servers
  /\ status' = [status EXCEPT !.state = "Connecting"]
  /\ job' = [Outdated(job) EXCEPT ![j] = At("Fetch", TRUE, settings.mode)]
  /\ pollers' = OutdatedPollers(pollers)
  /\ errand' = OutdatedErrand
  /\ slips' = slips \ {"Refused", "Unsaved"}
  /\ UNCHANGED <<since, settings, file, core, panel, osProxy, fastCrashes, leaving, servers, wish,
                 requests>>

(* The rule sets are there or not: the old core goes, Xray comes up and    *)
(* the document is written.                                                *)
Prepare(j) ==
  /\ job[j].pc = "Fetch"
  /\ \/ /\ core' = NoCore
        /\ file' = settings
        /\ Goto(j, "Spawn")
        /\ UNCHANGED <<status, since, settings, panel, osProxy, fastCrashes,
                       pollers, errand, leaving, servers, wish, slips, requests>>
     \/ GiveUp(j) /\ UNCHANGED <<osProxy, slips>>

(* Under the lock of the core: whatever runs is stopped, the document is   *)
(* checked and the core spawned.                                           *)
Spawn(j) ==
  /\ job[j].pc = "Spawn"
  /\ \/ /\ core' = Run(file)
        /\ Goto(j, "Await")
        /\ UNCHANGED <<status, since, settings, file, panel, osProxy, fastCrashes,
                       pollers, errand, leaving, servers, wish, slips, requests>>
     \/ GiveUp(j) /\ UNCHANGED <<osProxy, slips>>

(* await_control_plane: the panel answers; or the core is not running, or  *)
(* has not answered in thirty seconds.                                     *)
Answer(j) ==
  /\ job[j].pc = "Await"
  /\ core.state = "Running"
  /\ Brisk => ~Closing
  /\ Goto(j, "Install")
  /\ UNCHANGED <<status, since, settings, file, core, panel, osProxy, fastCrashes,
                 pollers, errand, leaving, servers, wish, slips, requests>>

NoAnswer(j) == job[j].pc = "Await" /\ GiveUp(j) /\ UNCHANGED <<osProxy, slips>>

(* attach_session, up to its await: the client and the balancer.           *)
Install(j) ==
  /\ job[j].pc = "Install"
  /\ panel' = TRUE
  /\ Goto(j, "Select")
  /\ UNCHANGED <<status, since, settings, file, core, osProxy, fastCrashes,
                 pollers, errand, leaving, servers, wish, slips, requests>>

(* The selector has answered, well or not: the system proxy.  Where it     *)
(* cannot be switched on it may be half on, on where the user had another. *)
Enable(j) ==
  /\ job[j].pc = "Select"
  /\ \/ /\ job[j].mode = "SystemProxy"
        /\ osProxy' = TRUE
        /\ slips' = slips \ {"Registry"}
        /\ Goto(j, "Announce")
        /\ UNCHANGED <<status, since, settings, file, core, panel, fastCrashes,
                       pollers, errand, leaving, servers, wish, requests>>
     \/ /\ job[j].mode = "SystemProxy"
        /\ GiveUp(j)
        /\ osProxy' \in {osProxy, TRUE}
        /\ slips' = slips \cup {"Registry"}
     \/ /\ job[j].mode # "SystemProxy"
        /\ Goto(j, "Announce")
        /\ UNCHANGED <<status, since, settings, file, core, panel, osProxy, fastCrashes,
                       pollers, errand, leaving, servers, wish, slips, requests>>

(* Connected.  The tasks of the session carry the number of the job.  One  *)
(* of them may have to reconnect: the engine probe, or the retry of the    *)
(* rule sets.                                                              *)
AnnounceMutant(j) ==
  /\ job[j].pc = "Announce"
  /\ status' = [state |-> "Connected", proxy |-> job[j].mode = "SystemProxy"]
  /\ since' = "Young"
  /\ pollers' = pollers \cup {Poller("Asleep", FALSE, FALSE)}
  /\ errand' \in {errand, IF job[j].current THEN "Ours" ELSE "Stale"}
  /\ job' = [job EXCEPT ![j] = Off]
  /\ UNCHANGED <<settings, file, core, panel, osProxy, fastCrashes, leaving, servers, wish, slips, requests>>
Announce(j) ==
  /\ job[j].pc = "Announce"
  /\ status' = [state |-> "Connected", proxy |-> job[j].mode = "SystemProxy"]
  /\ since' = "Young"
  /\ pollers' = pollers \cup {Poller("Asleep", job[j].current, FALSE)}
  /\ errand' \in {errand, IF job[j].current THEN "Ours" ELSE "Stale"}
  /\ job' = [job EXCEPT ![j] = Off]
  /\ UNCHANGED <<settings, file, core, panel, osProxy, fastCrashes, leaving, servers, wish, slips, requests>>

Proceed(j) ==
  \/ BeginRefused(j) \/ Begin(j) \/ Prepare(j) \/ Spawn(j) \/ Answer(j)
  \/ NoAnswer(j) \/ Install(j) \/ Enable(j) \/ Announce(j) \/ EndJob(j)

-----------------------------------------------------------------------------
(* The traffic poller (spawn_traffic_poller), once a second: is the        *)
(* session still ours?  What time of life it is when the core is asked     *)
(* decides later whether a crash was a fast one.                           *)
Ours(p) == p.current /\ status.state = "Connected" /\ panel

PollerWakes(p) ==
  /\ p.pc = "Asleep"
  /\ IF Ours(p)
     THEN /\ pollers' = (pollers \ {p}) \cup {Poller("Asking", p.current, since = "Mature")}
          /\ fastCrashes' = IF since = "Mature" THEN 0 ELSE fastCrashes
     ELSE pollers' = pollers \ {p} /\ UNCHANGED fastCrashes
  /\ UNCHANGED <<status, since, settings, file, core, panel, osProxy, job, errand, leaving, servers, wish, slips, requests>>

(* An answer; or none, though the core is alive.                           *)
PollerHears(p) ==
  /\ p.pc = "Asking"
  /\ core.state = "Running"
  /\ pollers' = (pollers \ {p}) \cup {Poller("Asleep", p.current, FALSE)}
  /\ UNCHANGED <<status, since, settings, file, core, panel, osProxy, fastCrashes,
                 job, errand, leaving, servers, wish, slips, requests>>

PollerMissesMutant(p) ==
  /\ p.pc = "Asking"
  /\ core.state = "None"
  /\ pollers' = (pollers \ {p}) \cup {Poller("Burying", p.current, p.mature)}
  /\ UNCHANGED <<status, since, settings, file, core, panel, osProxy, fastCrashes,
                 job, errand, leaving, servers, wish, slips, requests>>
PollerMisses(p) ==
  /\ p.pc = "Asking"
  /\ core.state # "Running"
  /\ pollers' = (pollers \ {p}) \cup {Poller("Burying", p.current, p.mature)}
  /\ UNCHANGED <<status, since, settings, file, core, panel, osProxy, fastCrashes,
                 job, errand, leaving, servers, wish, slips, requests>>

(* handle_core_death.  The count stops where it makes no difference.       *)
StrikesMutant(p) == 1
Strikes(p) ==
  IF p.mature THEN 0
  ELSE IF fastCrashes < FAST_CRASH_LIMIT THEN fastCrashes + 1 ELSE fastCrashes

(* The user reconnected or disconnected meanwhile: not our business.       *)
LeaveBe(p) ==
  /\ p.pc = "Burying" /\ ~p.current
  /\ pollers' = pollers \ {p}
  /\ UNCHANGED <<status, since, settings, file, core, panel, osProxy, fastCrashes,
                 job, errand, leaving, servers, wish, slips, requests>>

Surrender(p) ==
  /\ p.pc = "Burying" /\ p.current
  /\ Strikes(p) >= FAST_CRASH_LIMIT
  /\ fastCrashes' = Strikes(p)
  /\ StopAll(job, (pollers \ {p}) \cup {Poller("Closing", FALSE, FALSE)})
  /\ UNCHANGED <<osProxy, leaving, wish, slips, requests>>

EndPoller(p) ==
  /\ p.pc = "Closing"
  /\ pollers' = pollers \ {p}
  /\ ShowDown("Error")
  /\ UNCHANGED <<job, leaving>>

ReviveMutant(p) ==
  /\ p.pc = "Burying"
  /\ Strikes(p) < FAST_CRASH_LIMIT
  /\ fastCrashes' = Strikes(p)
  /\ pollers' = pollers \ {p}
  /\ \E j \in Jobs : Free(j) /\ Enter(j)
  /\ UNCHANGED <<status, since, settings, file, core, panel, osProxy, errand, leaving, servers, wish, slips, requests>>
Revive(p) ==
  /\ p.pc = "Burying" /\ p.current
  /\ Strikes(p) < FAST_CRASH_LIMIT
  /\ fastCrashes' = Strikes(p)
  /\ pollers' = pollers \ {p}
  /\ \E j \in Jobs : Free(j) /\ Enter(j)
  /\ UNCHANGED <<status, since, settings, file, core, panel, osProxy, errand, leaving, servers, wish, slips, requests>>

Watch ==
  \E p \in pollers :
    PollerWakes(p) \/ PollerHears(p) \/ PollerMisses(p) \/ LeaveBe(p) \/ Surrender(p) \/ Revive(p)
    \/ EndPoller(p)

(* The engine probe or the retry of the rule sets has something to apply,  *)
(* and reconnects if the session is still its own.                         *)
FinishErrand ==
  /\ errand # "None"
  /\ requests < MaxRequests /\ requests' = requests + 1
  /\ errand' = "None"
  /\ IF errand = "Ours"
     THEN fastCrashes' = 0 /\ \E j \in Jobs : Free(j) /\ Enter(j)
     ELSE UNCHANGED <<fastCrashes, job>>
  /\ UNCHANGED <<status, since, settings, file, core, panel, osProxy, pollers, leaving, servers, wish, slips>>

-----------------------------------------------------------------------------
(* Commands.                                                               *)

Requested == requests < MaxRequests /\ requests' = requests + 1 /\ (Overlap \/ Quiet)

Connect ==
  /\ Requested
  /\ wish' = "On"
  /\ fastCrashes' = 0
  /\ \E j \in Jobs : Free(j) /\ Enter(j)
  /\ UNCHANGED <<status, since, settings, file, core, panel, osProxy, pollers, errand, leaving, servers, slips>>

Disconnect ==
  /\ Requested
  /\ ~leaving
  /\ wish' = "Off"
  /\ StopAll(job, pollers)
  /\ leaving' = TRUE
  /\ UNCHANGED <<osProxy, fastCrashes, slips>>

EndDisconnect ==
  /\ leaving
  /\ leaving' = FALSE
  /\ ShowDown("Disconnected")
  /\ UNCHANGED <<job, pollers>>

(* What the document is built from was changed, and is applied by a        *)
(* restart, if there is a connection to restart (restart_if_running); or   *)
(* it cannot be saved, and the command ends there.                         *)
IsRunningMutant == status.state = "Connecting"
IsRunning == status.state = "Connected"

Apply ==
  /\ IF IsRunning
     THEN fastCrashes' = 0 /\ \E j \in Jobs : Free(j) /\ Enter(j)
     ELSE UNCHANGED <<fastCrashes, job>>
  /\ UNCHANGED slips
FailToSave == slips' = slips \cup {"Unsaved"} /\ UNCHANGED <<fastCrashes, job>>

SaveSettings ==
  /\ Requested
  /\ \E m \in Modes : settings' = [version |-> settings.version + 1, mode |-> m]
  /\ Apply \/ FailToSave
  /\ UNCHANGED <<status, since, file, core, panel, osProxy, pollers, errand, leaving, servers, wish>>

(* delete_server, delete_subscription: maybe the last server.              *)
DeleteServer ==
  /\ Requested
  /\ servers /\ servers' \in BOOLEAN
  /\ settings' = [settings EXCEPT !.version = @ + 1]
  /\ Apply \/ FailToSave
  /\ UNCHANGED <<status, since, file, core, panel, osProxy, pollers, errand, leaving, wish>>

(* An import or a refresh, which restart nothing: the first servers, or a  *)
(* subscription that has none any more.  The refresh comes by itself.      *)
RefreshServers ==
  /\ requests < MaxRequests /\ requests' = requests + 1
  /\ servers' = ~servers
  /\ UNCHANGED <<status, since, settings, file, core, panel, osProxy, fastCrashes, job,
                 pollers, errand, leaving, wish, slips>>

-----------------------------------------------------------------------------
(* The core dies on its own.                                               *)
CoreDies ==
  /\ core.state = "Running"
  /\ core' = [core EXCEPT !.state = "Dead"]
  /\ UNCHANGED <<status, since, settings, file, panel, osProxy, fastCrashes, job,
                 pollers, errand, leaving, servers, wish, slips, requests>>

(* The tunnel has been up for FAST_CRASH_WINDOW_MS.                        *)
GrowUp ==
  /\ since = "Young"
  /\ since' = "Mature"
  /\ UNCHANGED <<status, settings, file, core, panel, osProxy, fastCrashes, job,
                 pollers, errand, leaving, servers, wish, slips, requests>>

Init ==
  /\ status = [state |-> "Disconnected", proxy |-> FALSE]
  /\ since = "None"
  /\ settings \in [version : {0}, mode : Modes]
  /\ file = settings
  /\ core = NoCore
  /\ panel = FALSE
  /\ osProxy = FALSE
  /\ fastCrashes = 0
  /\ job = [j \in Jobs |-> Off]
  /\ pollers = {}
  /\ errand = "None"
  /\ leaving = FALSE
  /\ servers \in BOOLEAN
  /\ wish = "Off"
  /\ slips = {}
  /\ requests = 0

Next ==
  \/ \E j \in Jobs : Proceed(j)
  \/ Watch \/ FinishErrand
  \/ Connect \/ Disconnect \/ EndDisconnect
  \/ SaveSettings \/ DeleteServer \/ RefreshServers
  \/ CoreDies \/ GrowUp

Spec == Init /\ [][Next]_vars

(* Every await has a timeout, the poller is woken by a clock, and a         *)
(* shutdown waits for nobody.                                              *)
FairSpec ==
  Spec /\ (\A j \in Jobs : WF_vars(Proceed(j))) /\ WF_vars(Watch) /\ WF_vars(EndDisconnect)

-----------------------------------------------------------------------------
(* Properties.                                                             *)

Up == {"Install", "Select", "Announce"}

StatusType == [state : {"Disconnected", "Connecting", "Connected", "Error"}, proxy : BOOLEAN]
CoreType == {NoCore} \cup [state : {"Running", "Dead"}, doc : Settings]
JobType == [pc : {"Off", "Begin", "Fetch", "Spawn", "Await", "Closing"} \cup Up,
            current : BOOLEAN, mode : Modes \cup {"None"}]
PollerType == [pc : {"Asleep", "Asking", "Burying", "Closing"}, current : BOOLEAN, mature : BOOLEAN]

(* Every variable stays in its range.                                      *)
TypeOK ==
  /\ status \in StatusType
  /\ since \in {"None", "Young", "Mature"}
  /\ settings \in Settings /\ file \in Settings
  /\ core \in CoreType
  /\ panel \in BOOLEAN /\ osProxy \in BOOLEAN
  /\ fastCrashes \in 0..FAST_CRASH_LIMIT
  /\ job \in [Jobs -> JobType]
  /\ pollers \subseteq PollerType
  /\ errand \in {"None", "Ours", "Stale"}
  /\ leaving \in BOOLEAN /\ servers \in BOOLEAN /\ wish \in {"On", "Off"}
  /\ slips \subseteq {"Refused", "Unsaved", "Registry"}
  /\ requests \in 0..MaxRequests

Down == status.state \in {"Disconnected", "Error"}

(* However connects, shutdowns and deaths interleave: once the dust has    *)
(* settled and the screen shows no connection, no core is left behind to   *)
(* go on routing the machine's traffic (shutdown).                         *)
NothingLeftRunning == Quiet /\ Down => core = NoCore

(* Nothing brings a tunnel up that the user has taken down: a poller that  *)
(* finds the core gone after a disconnect lets it be (handle_core_death),  *)
(* and so does a task of an old session.                                   *)
DownWhenAskedFor == Quiet /\ wish = "Off" => status.state # "Connected" /\ core = NoCore

(* A reconnect that was refused has left a connection to itself.           *)
Stranded == Quiet /\ "Refused" \in slips /\ \A p \in pollers : ~p.current

(* Somebody watches over every connection the user wants: a tunnel that is *)
(* up has a poller of the present session, a client to ask the core with,  *)
(* and a core that was started, however it fared since (attach_session).   *)
(* Only a dead core may be without the poller, which ended with a refused  *)
(* restart: a core that runs is watched (connect_inner, its first returns).*)
ConnectedIsWatched ==
  Quiet /\ wish = "On" /\ status.state = "Connected" =>
    /\ panel /\ core # NoCore
    /\ (\E p \in pollers : p.current) \/ ("Refused" \in slips /\ core.state = "Dead")

(* A core that died under a connection is replaced, or the screen says so, *)
(* or the restart was refused and nobody is left to say it.                *)
DeathIsAnswered ==
  (status.state = "Connected" /\ core.state # "Running")
    ~> (status.state # "Connected" \/ core.state = "Running" \/ Stranded)

(* Whatever became of the restart, the screen says so: "о неудаче он тоже   *)
(* сообщает сам ... причина остаётся в статусе «Ошибка»" (the comment of    *)
(* handle_core_death on its connect_inner).                                *)
DeathIsReported ==
  (status.state = "Connected" /\ core.state # "Running")
    ~> (status.state # "Connected" \/ core.state = "Running")

(* A core that keeps dying young is not started over and over, whatever    *)
(* else reconnected before (FAST_CRASH_LIMIT).                             *)
BootLoopStops == <>[](since # "Mature") => <>[](core.state # "Dead" \/ Stranded)

(* The settings saved last, and the servers left by the last deletion, are *)
(* what the tunnel runs with, unless the command could not save them or    *)
(* the restart was refused (save_settings, delete_server,                  *)
(* restart_if_running); the next connect makes up for both.  A refresh     *)
(* waits for the next connect anyway.                                      *)
SettingsApplied ==
  Quiet /\ status.state = "Connected" =>
    /\ core.state # "None"
    /\ core.doc = settings \/ "Unsaved" \in slips \/ "Refused" \in slips

(* status.system_proxy says whether this app turned the system proxy on:   *)
(* shutdown goes by it.  It never claims what is not; and a proxy that is  *)
(* on is known, unless the system failed the app the last time it was      *)
(* asked (sysproxy::enable, disable).                                      *)
ProxyFlagIsTrue ==
  Quiet => /\ status.proxy => osProxy
           /\ osProxy => status.proxy \/ "Registry" \in slips
=============================================================================
