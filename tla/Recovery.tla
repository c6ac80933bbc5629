------------------------------ MODULE Recovery ------------------------------
(***************************************************************************)
(* What must survive the death of the desktop app: the user's own proxy     *)
(* settings (sys/sysproxy.rs) and the knowledge of a core left behind       *)
(* (kill_orphan of core/process.rs), through start-up (AppState::new),      *)
(* connects, shutdowns, the orderly exit (RunEvent::Exit of lib.rs) and a   *)
(* kill at any moment.                                                      *)
(*                                                                          *)
(* One connect is in flight at a time; what overlapping ones do is for      *)
(* Session.  Here every write to the registry, the backup and the pid file  *)
(* is a step of its own, since the app may be killed between any two.       *)
(***************************************************************************)
EXTENDS Naturals, Sequences

CONSTANTS
  Configs,      \* proxy settings the user may have had before the app came
  Ports,        \* addresses of the app's own listener
  Bypass,       \* DEFAULT_BYPASS
  Pids,         \* process numbers of the machine, used again and again
  NoPid, Garbage, NoBackup, Torn,
  Modes,        \* tunnel modes: "Tun", "SystemProxy"
  Faults        \* what may go wrong in a run, one kind in each (see fault)

Fields == {"server", "bypass", "on"}
ASSUME RecoveryAssumption ==
  /\ \A v \in Configs : DOMAIN v = Fields /\ v.server \notin Ports
                        /\ v = [f \in Fields |-> v[f]]
  /\ {NoBackup, Torn} \cap Configs = {} /\ NoBackup # Torn
  /\ {NoPid, Garbage} \cap Pids = {} /\ NoPid # Garbage
  /\ Modes \subseteq {"Tun", "SystemProxy"} /\ Modes # {} /\ Ports # {}
  /\ Faults \subseteq {"none", "disk", "write", "kill", "gap", "switch"}

VARIABLES
  registry,  \* the three values of Internet Settings
  backup,    \* sysproxy-backup.json
  flag,      \* status.system_proxy: this app turned the proxy on
  mode, port,\* settings.tunnel_mode, settings.mixed_port
  procs,     \* what runs under each process number
  child,     \* CoreSupervisor.child
  pidFile,
  at,        \* where the app is; "off" when it does not run
  todo,      \* registry values still to be written, in order
  target,    \* what is written into them
  then,      \* what follows the writes
  wish,      \* (history) the settings the user made last
  fault      \* what this machine is prone to:
             \*   disk    the backup may fail to be written,
             \*   write   a value of the registry may fail to be written,
             \*   kill    an orphan may survive the three seconds it is given,
             \*   gap     the app may die between the spawn of a core and its record,
             \*   switch  the user changes the tunnel mode while connected

proxyVars == <<registry, backup, todo, target, then>>
coreVars == <<procs, child, pidFile>>
machine == <<wish, fault>>
recoveryVars == <<proxyVars, coreVars, machine, flag, mode, port, at>>

Ours(p) == [server |-> p, bypass |-> Bypass, on |-> TRUE]
Off == [registry EXCEPT !.on = FALSE]
Values == Configs \cup [server : Ports \cup {v.server : v \in Configs},
                        bypass : {Bypass} \cup {v.bypass : v \in Configs}, on : BOOLEAN]
Readable == backup \notin {NoBackup, Torn}  \* read_backup: absent or unparsable is None
Pointing == registry.on /\ registry.server \in Ports
Cores == {p \in Pids : procs[p] = "core"}

(***************************************************************************)
(* The registry.                                                            *)
(***************************************************************************)
Order == <<"server", "bypass", "on">>

Assign(values, sequence, next) ==
  /\ target' = values /\ todo' = sequence /\ then' = next /\ at' = "write"

(* enable, up to the first registry value: the backup is taken unless there *)
(* is one that can be read.  Writing it truncates the file first.           *)
MustSaveMutant == TRUE
MustSave == ~Readable

EnableProxy ==
  /\ at = "attach" /\ mode = "SystemProxy"
  /\ IF MustSave
     THEN /\ at' = "save" /\ backup' \in IF fault = "disk" THEN {backup, Torn} ELSE {Torn}
          /\ UNCHANGED <<todo, target, then>>
     ELSE Assign(Ours(port), Order, "announce") /\ UNCHANGED backup
  /\ UNCHANGED <<registry, coreVars, machine, flag, mode, port>>

SaveBackup ==
  /\ at = "save"
  /\ backup' = registry \/ (fault = "disk" /\ UNCHANGED backup)
  /\ Assign(Ours(port), Order, "announce")
  /\ UNCHANGED <<registry, coreVars, machine, flag, mode, port>>

Write ==
  /\ at = "write" /\ todo # <<>>
  /\ registry' = [registry EXCEPT ![Head(todo)] = target[Head(todo)]]
  /\ todo' = Tail(todo)
  /\ UNCHANGED <<backup, target, then, coreVars, machine, flag, mode, port, at>>

(* disable: everything back from the backup, or, without one, just off.     *)
DisableProxy(next) ==
  IF Readable THEN Assign(backup, Order, next) ELSE Assign(Off, <<"on">>, next)

Written ==
  /\ at = "write" /\ todo = <<>>
  /\ at' = then
  /\ backup' = IF then = "announce" THEN backup ELSE NoBackup
  /\ UNCHANGED <<registry, todo, target, then, coreVars, machine, flag, mode, port>>

(* A failed write ends enable, and the connect with it; a failed disable is *)
(* ignored and leaves the backup.                                           *)
WriteFails ==
  /\ fault = "write" /\ at = "write" /\ todo # <<>>
  /\ at' = IF then = "announce" THEN "shutdown" ELSE then
  /\ todo' = <<>>
  /\ UNCHANGED <<registry, backup, target, then, coreVars, machine, flag, mode, port>>

(***************************************************************************)
(* Start-up, AppState::new: the orphan first, then the proxy.               *)
(***************************************************************************)
RecordedMutant == pidFile \in Pids /\ procs[pidFile] # "free"
Recorded == pidFile \in Pids /\ procs[pidFile] = "core"

Launch ==
  /\ at = "off" /\ at' = "orphan" /\ flag' = FALSE /\ then' = "idle"
  /\ UNCHANGED <<registry, backup, todo, target, coreVars, machine, mode, port>>

KillOrphan ==
  /\ at = "orphan" /\ at' = "restore"
  /\ \/ pidFile' = NoPid
        /\ procs' = IF Recorded THEN [procs EXCEPT ![pidFile] = "free"] ELSE procs
     \/ fault = "kill" /\ Recorded /\ UNCHANGED <<pidFile, procs>>
  /\ UNCHANGED <<proxyVars, child, machine, flag, mode, port>>

RestoreAfterCrash ==
  /\ at = "restore"
  /\ IF Readable \/ (registry.on /\ registry.server = port)
     THEN DisableProxy("idle")
     ELSE at' = "idle" /\ UNCHANGED <<target, todo, then>>
  /\ UNCHANGED <<registry, backup, coreVars, machine, flag, mode, port>>

(***************************************************************************)
(* A connection: connect_inner and attach_session.                          *)
(***************************************************************************)
Free(pid) == IF pid = NoPid THEN procs ELSE [procs EXCEPT ![pid] = "free"]

(* Also the restart of a connection that is up.                             *)
Connect ==
  /\ at \in {"idle", "up"} /\ at' = "spawn"
  /\ procs' = Free(child) /\ child' = NoPid
  /\ \/ UNCHANGED <<mode, port>>
     \/ /\ port' \in Ports
        /\ mode' \in IF fault = "switch" \/ at = "idle" THEN Modes ELSE {mode}
  /\ UNCHANGED <<proxyVars, pidFile, machine, flag>>

Spawn ==
  /\ at = "spawn"
  /\ \/ \E p \in Pids : /\ procs[p] = "free"
                        /\ procs' = [procs EXCEPT ![p] = "core"] /\ child' = p
                        /\ at' = "record"
     \/ at' = "shutdown" /\ UNCHANGED <<procs, child>>
  /\ UNCHANGED <<proxyVars, pidFile, machine, flag, mode, port>>

Record ==
  /\ at = "record" /\ at' = "await" /\ pidFile' = child
  /\ UNCHANGED <<proxyVars, procs, child, machine, flag, mode, port>>

(* A core can only come up when no other holds the lock of the cache file.  *)
AwaitControlPlane ==
  /\ at = "await"
  /\ at' = IF procs[child] = "core" /\ Cores = {child} THEN "attach" ELSE "shutdown"
  /\ UNCHANGED <<proxyVars, coreVars, machine, flag, mode, port>>

GiveUp ==
  /\ at = "await" \/ (at = "attach" /\ mode = "SystemProxy" /\ fault = "write")
  /\ at' = "shutdown"
  /\ UNCHANGED <<proxyVars, coreVars, machine, flag, mode, port>>

WithoutProxy ==
  /\ at = "attach" /\ mode = "Tun" /\ at' = "announce"
  /\ UNCHANGED <<proxyVars, coreVars, machine, flag, mode, port>>

Announce ==
  /\ at = "announce" /\ at' = "up" /\ flag' = (mode = "SystemProxy")
  /\ UNCHANGED <<proxyVars, coreVars, machine, mode, port>>

(***************************************************************************)
(* The end of a connection: shutdown, the exit, a kill.                     *)
(***************************************************************************)
ForgetCoreMutant == UNCHANGED procs /\ child' = NoPid /\ pidFile' = NoPid
ForgetCore == procs' = Free(child) /\ child' = NoPid /\ pidFile' = NoPid

(* Whether the end of a connection has a proxy to undo.                     *)
UndoNeededMutant == mode = "SystemProxy"
UndoNeeded == flag

Disconnect ==
  /\ at = "up" /\ at' = "shutdown"
  /\ UNCHANGED <<proxyVars, coreVars, machine, flag, mode, port>>

Shutdown ==
  /\ at = "shutdown"
  /\ ForgetCore
  /\ IF UndoNeeded THEN DisableProxy("down") ELSE at' = "down" /\ UNCHANGED <<todo, target, then>>
  /\ UNCHANGED <<registry, backup, machine, flag, mode, port>>

Down ==
  /\ at = "down" /\ at' = "idle" /\ flag' = FALSE
  /\ UNCHANGED <<proxyVars, coreVars, machine, mode, port>>

Exit ==
  /\ at \in {"idle", "up"}
  /\ IF UndoNeeded THEN DisableProxy("exit") ELSE at' = "exit" /\ UNCHANGED <<todo, target, then>>
  /\ UNCHANGED <<registry, backup, coreVars, machine, flag, mode, port>>

Exited ==
  /\ at = "exit" /\ at' = "off"
  /\ ForgetCore
  /\ UNCHANGED <<proxyVars, machine, flag, mode, port>>

(* The app is killed; the core, a detached process, lives on.               *)
Killed ==
  /\ at # "off" /\ (at = "record" => fault = "gap")
  /\ at' = "off" /\ child' = NoPid /\ todo' = <<>>
  /\ procs' = [p \in Pids |-> IF procs[p] = "dead" THEN "free" ELSE procs[p]]
  /\ UNCHANGED <<registry, backup, target, then, pidFile, machine, flag, mode, port>>

(***************************************************************************)
(* The rest of the machine.                                                 *)
(***************************************************************************)
(* The user edits the settings, but not while the app has hold of them.     *)
UserEdits ==
  /\ at \in {"off", "idle", "up"} /\ ~Readable /\ ~flag /\ ~Pointing
  /\ registry' \in Configs /\ wish' = registry'
  /\ UNCHANGED <<backup, todo, target, then, coreVars, flag, mode, port, at, fault>>

ProcessesChange ==
  /\ \E p \in Pids : \/ procs[p] = "free" /\ procs' = [procs EXCEPT ![p] = "other"]
                     \/ procs[p] # "free" /\ procs' = [procs EXCEPT ![p] = "free"]
                        /\ child # p
  /\ UNCHANGED <<proxyVars, child, pidFile, machine, flag, mode, port, at>>

(* A child that died is a zombie until it is reaped: its number is not free. *)
CoreDies ==
  /\ child # NoPid /\ procs[child] = "core" /\ procs' = [procs EXCEPT ![child] = "dead"]
  /\ UNCHANGED <<proxyVars, child, pidFile, machine, flag, mode, port, at>>

RecoveryInit ==
  /\ registry \in Configs /\ wish = registry /\ backup = NoBackup /\ flag = FALSE
  /\ mode \in Modes /\ port \in Ports
  /\ procs = [p \in Pids |-> "free"] /\ child = NoPid /\ pidFile \in {NoPid, Garbage}
  /\ at = "off" /\ todo = <<>> /\ target = registry /\ then = "idle" /\ fault \in Faults

RecoveryNext ==
  \/ EnableProxy \/ SaveBackup \/ Write \/ Written \/ WriteFails
  \/ Launch \/ KillOrphan \/ RestoreAfterCrash
  \/ Connect \/ Spawn \/ Record \/ AwaitControlPlane \/ GiveUp \/ WithoutProxy \/ Announce
  \/ Disconnect \/ Shutdown \/ Down \/ Exit \/ Exited \/ Killed
  \/ UserEdits \/ ProcessesChange \/ CoreDies

RecoverySpec == RecoveryInit /\ [][RecoveryNext]_recoveryVars

(* The backup holds what the user had, whatever restarts and kills came     *)
(* between: an enable without a disable before it must not overwrite it     *)
(* with our own values (the comment in enable).  A backup that could not be *)
(* written is made up for by the next enable, with ours.                    *)
BackupIsUsers == fault # "disk" /\ Readable => backup = wish

(* The app at rest has given the user his own settings back, all three      *)
(* values, after a shutdown, a failed connect or a start that follows a     *)
(* kill (restore_after_crash); a proxy of his own survives a disconnect     *)
(* (the comment in shutdown).  After a switch of the mode while connected   *)
(* only a start does so, see NoDeadListener.                                *)
UsersAtRest ==
  /\ at = "idle" /\ fault \notin {"disk", "write"}
  /\ fault = "switch" => then = "idle"
  => registry = wish

(* The app at rest leaves nobody pointed at a listener that is gone.        *)
NoDeadListener == at = "idle" => ~Pointing

(* A core the app has no handle on is the one in the pid file: this is the  *)
(* only record of it (the comment on kill_orphan).                          *)
OrphanIsKnown ==
  fault \notin {"kill", "gap"} => \A p \in Cores : p = child \/ p = pidFile

(* Process numbers are used again: what runs under the recorded one by now  *)
(* is left alone unless it is our core (same_exe).                          *)
StrangersLive ==
  [][at' # at => \A p \in Pids : procs[p] = "other" => procs'[p] = "other"]_recoveryVars
=============================================================================
