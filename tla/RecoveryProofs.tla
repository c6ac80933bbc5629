-------------------------- MODULE RecoveryProofs --------------------------
(***************************************************************************)
(* What survives the death of the app, for any settings, ports and process  *)
(* numbers and kills at any step.  Two invariants that do not need each     *)
(* other: ProxyInv and RestInv of the registry and its backup, CoreInv of   *)
(* the cores and the pid file.                                              *)
(***************************************************************************)
EXTENDS Recovery, TLAPS

Todos == {<<>>, <<"on">>, <<"bypass", "on">>, Order}
LeftOf(s) == CASE s = Order -> Fields
               [] s = <<"bypass", "on">> -> {"bypass", "on"}
               [] s = <<"on">> -> {"on"}
               [] OTHER -> {}

ProxyTypeOK ==
  /\ registry = [f \in Fields |-> registry[f]] /\ wish \in Configs
  /\ port \in Ports /\ todo \in Todos

\* A write of the values the user had: what is not written yet is still to be.
Undoing == target = wish /\ \A f \in Fields : registry[f] = wish[f] \/ f \in LeftOf(todo)

ProxyInv ==
  fault # "disk" =>
    /\ ProxyTypeOK
    /\ BackupIsUsers
    /\ ~Readable => registry = wish
    /\ flag /\ at \notin {"down", "exit", "off"} => Readable
    /\ at \in {"orphan", "restore"} \/ (at = "write" /\ then = "idle") => ~flag
    /\ at = "write" => Readable /\ then \in {"announce", "idle", "down", "exit"}
    /\ at = "write" /\ then # "announce" => Undoing
    /\ at = "announce" /\ mode = "SystemProxy" => Readable
    /\ at = "save" => ~Readable

----------------------------------------------------------------------------
(* The registry and the backup.                                             *)

\* A backup is told from none by what the user can have had.
LEMMA ConfigIsBackup == ASSUME NEW v \in Configs PROVE v # NoBackup /\ v # Torn
BY RecoveryAssumption

LEMMA ConfigIsSetting ==
  ASSUME NEW v \in Configs
  PROVE  v = [f \in Fields |-> v[f]] /\ v.server \notin Ports
BY RecoveryAssumption

\* One value is written, the others are left.
LEMMA NextLeft ==
  ASSUME NEW s \in Todos, s # <<>>
  PROVE  /\ Tail(s) \in Todos /\ Head(s) \in Fields
         /\ \A f \in LeftOf(s) : f = Head(s) \/ f \in LeftOf(Tail(s))
<1>1. CASE s = Order
  <2>1. Head(s) = "server" /\ Tail(s) = <<"bypass", "on">>
    BY <1>1 DEF Order
  <2>2. LeftOf(Tail(s)) = {"bypass", "on"}
    BY <2>1 DEF LeftOf, Order
  <2>3. LeftOf(s) = Fields
    BY <1>1 DEF LeftOf, Order
  <2>. QED  BY <2>1, <2>2, <2>3 DEF Fields, Todos
<1>2. CASE s = <<"bypass", "on">>
  <2>1. Head(s) = "bypass" /\ Tail(s) = <<"on">>
    BY <1>2
  <2>2. LeftOf(Tail(s)) = {"on"}
    BY <2>1 DEF LeftOf, Order
  <2>3. LeftOf(s) = {"bypass", "on"}
    BY <1>2 DEF LeftOf, Order
  <2>. QED  BY <2>1, <2>2, <2>3 DEF Fields, Todos
<1>3. CASE s = <<"on">>
  <2>1. Head(s) = "on" /\ Tail(s) = <<>>
    BY <1>3
  <2>2. LeftOf(s) = {"on"}
    BY <1>3 DEF LeftOf, Order
  <2>. QED  BY <2>1, <2>2 DEF Fields, Todos
<1>. QED  BY <1>1, <1>2, <1>3 DEF Todos

LEMMA NothingLeft == LeftOf(<<>>) = {} /\ LeftOf(Order) = Fields
BY DEF LeftOf, Order

LEMMA InitiallyProxy == RecoveryInit => ProxyInv
<1> SUFFICES ASSUME RecoveryInit PROVE ProxyInv
  OBVIOUS
<1>1. ProxyTypeOK
  BY ConfigIsSetting DEF RecoveryInit, ProxyTypeOK, Todos
<1>. QED  BY <1>1 DEF RecoveryInit, ProxyInv, BackupIsUsers, Readable

\* The beginning of a write: of our values, or of the user's.
LEMMA BeginsOurs ==
  ASSUME ProxyInv, Readable', backup' = wish, UNCHANGED <<registry, wish, fault, flag, mode, port>>,
         Assign(Ours(port), Order, "announce")
  PROVE  ProxyInv'
BY DEF ProxyInv, ProxyTypeOK, Assign, BackupIsUsers, Readable, Todos

LEMMA BeginsTheirs ==
  ASSUME ProxyInv, Readable, NEW next \in {"idle", "down", "exit"}, next = "idle" => ~flag,
         DisableProxy(next), UNCHANGED <<registry, backup, wish, fault, flag, mode, port>>
  PROVE  ProxyInv'
<1> SUFFICES ASSUME fault # "disk" PROVE ProxyInv'
  BY DEF ProxyInv
<1>1. Assign(wish, Order, next)
  BY DEF DisableProxy, ProxyInv, BackupIsUsers
<1>2. ProxyTypeOK' /\ Undoing'
  BY <1>1, NothingLeft DEF Assign, Undoing, ProxyInv, ProxyTypeOK, Todos
<1>. QED  BY <1>1, <1>2 DEF Assign, ProxyInv, BackupIsUsers, Readable

LEMMA WriteKeeps == ASSUME ProxyInv, Write PROVE ProxyInv'
<1> SUFFICES ASSUME fault # "disk" PROVE ProxyInv'
  BY DEF ProxyInv, Write, machine
<1> DEFINE f == Head(todo)
<1>1. todo \in Todos /\ todo # <<>>
  BY DEF ProxyInv, ProxyTypeOK, Write
<1>2. /\ f \in Fields /\ todo' \in Todos
      /\ \A g \in LeftOf(todo) : g = f \/ g \in LeftOf(todo')
  BY <1>1, NextLeft DEF Write
<1>3. registry' = [registry EXCEPT ![f] = target[f]]
  BY DEF Write
<1> HIDE DEF f
<1>4. /\ registry' = [g \in Fields |-> registry'[g]]
      /\ \A g \in Fields : registry'[g] = IF g = f THEN target[f] ELSE registry[g]
  BY <1>2, <1>3 DEF ProxyInv, ProxyTypeOK
<1>5. Undoing => Undoing'
  BY <1>2, <1>4 DEF Undoing, Write, machine
<1>. QED  BY <1>2, <1>4, <1>5 DEF Write, machine, ProxyInv, ProxyTypeOK, BackupIsUsers, Readable

LEMMA WrittenKeeps == ASSUME ProxyInv, Written PROVE ProxyInv'
<1> SUFFICES ASSUME fault # "disk" PROVE ProxyInv'
  BY DEF ProxyInv, Written, machine
<1>1. CASE then = "announce"
  BY <1>1 DEF Written, machine, ProxyInv, ProxyTypeOK, BackupIsUsers, Readable
<1>2. CASE then # "announce"
  <2>1. \A f \in Fields : registry[f] = wish[f]
    BY <1>2, NothingLeft DEF Written, ProxyInv, Undoing
  <2>2. registry = wish
    BY <2>1, ConfigIsSetting DEF ProxyInv, ProxyTypeOK
  <2>. QED  BY <1>2, <2>2 DEF Written, machine, ProxyInv, ProxyTypeOK, BackupIsUsers, Readable
<1>. QED  BY <1>1, <1>2

LEMMA ProxyStep == ProxyInv /\ [RecoveryNext]_recoveryVars => ProxyInv'
<1> SUFFICES ASSUME ProxyInv, [RecoveryNext]_recoveryVars PROVE ProxyInv'
  OBVIOUS
<1>0. CASE fault = "disk"
  <2>1. UNCHANGED fault
    BY DEF RecoveryNext, recoveryVars, machine, EnableProxy, SaveBackup, Write, Written, WriteFails,
           Launch, KillOrphan, RestoreAfterCrash, Connect, Spawn, Record, AwaitControlPlane, GiveUp,
           WithoutProxy, Announce, Disconnect, Shutdown, Down, Exit, Exited, Killed, UserEdits,
           ProcessesChange, CoreDies
  <2>. QED  BY <1>0, <2>1 DEF ProxyInv
<1> SUFFICES ASSUME fault # "disk" PROVE ProxyInv'
  BY <1>0
<1> USE DEF machine
<1>1. CASE EnableProxy
  <2>1. CASE MustSave
    BY <1>1, <2>1 DEF EnableProxy, MustSave, ProxyInv, ProxyTypeOK, BackupIsUsers, Readable
  <2>2. CASE ~MustSave
    BY <1>1, <2>2, BeginsOurs DEF EnableProxy, MustSave, ProxyInv, BackupIsUsers, Readable
  <2>. QED  BY <2>1, <2>2
<1>2. CASE SaveBackup
  <2>1. backup' = wish /\ Readable'
    BY <1>2, ConfigIsBackup DEF SaveBackup, ProxyInv, ProxyTypeOK, Readable
  <2>. QED  BY <1>2, <2>1, BeginsOurs DEF SaveBackup
<1>3. CASE WriteFails
  BY <1>3 DEF WriteFails, ProxyInv, ProxyTypeOK, BackupIsUsers, Readable, Todos
<1>4. CASE RestoreAfterCrash
  <2>1. CASE Readable
    BY <1>4, <2>1, BeginsTheirs DEF RestoreAfterCrash, ProxyInv
  <2>2. CASE ~Readable
    <3>1. registry.server # port
      BY <2>2, ConfigIsSetting DEF ProxyInv, ProxyTypeOK
    <3>. QED  BY <1>4, <2>2, <3>1 DEF RestoreAfterCrash, ProxyInv, ProxyTypeOK, BackupIsUsers, Readable
  <2>. QED  BY <2>1, <2>2
<1>5. CASE Shutdown
  <2>1. CASE flag
    BY <1>5, <2>1, BeginsTheirs DEF Shutdown, UndoNeeded, ProxyInv
  <2>2. CASE ~flag
    BY <1>5, <2>2 DEF Shutdown, UndoNeeded, ProxyInv, ProxyTypeOK, BackupIsUsers, Readable
  <2>. QED  BY <2>1, <2>2
<1>6. CASE Exit
  <2>1. CASE flag
    BY <1>6, <2>1, BeginsTheirs DEF Exit, UndoNeeded, ProxyInv
  <2>2. CASE ~flag
    BY <1>6, <2>2 DEF Exit, UndoNeeded, ProxyInv, ProxyTypeOK, BackupIsUsers, Readable
  <2>. QED  BY <2>1, <2>2
<1>7. CASE UserEdits
  BY <1>7, ConfigIsSetting DEF UserEdits, ProxyInv, ProxyTypeOK, BackupIsUsers, Readable
<1>8. CASE Killed
  BY <1>8 DEF Killed, ProxyInv, ProxyTypeOK, BackupIsUsers, Readable, Todos
<1>9. CASE Connect
  BY <1>9 DEF Connect, proxyVars, ProxyInv, ProxyTypeOK, BackupIsUsers, Readable
<1>10. CASE Announce \/ Down \/ WithoutProxy
  BY <1>10 DEF Announce, Down, WithoutProxy, proxyVars, ProxyInv, ProxyTypeOK, BackupIsUsers, Readable
<1>11. CASE Launch \/ KillOrphan \/ Exited
  BY <1>11 DEF Launch, KillOrphan, Exited, proxyVars, ProxyInv, ProxyTypeOK, BackupIsUsers, Readable
<1>12. CASE Spawn \/ Record \/ AwaitControlPlane \/ GiveUp \/ Disconnect
  BY <1>12 DEF Spawn, Record, AwaitControlPlane, GiveUp, Disconnect, proxyVars,
               ProxyInv, ProxyTypeOK, BackupIsUsers, Readable
<1>13. CASE ProcessesChange \/ CoreDies
  BY <1>13 DEF ProcessesChange, CoreDies, proxyVars,
               ProxyInv, ProxyTypeOK, BackupIsUsers, Readable, Undoing
<1>14. CASE UNCHANGED recoveryVars
  BY <1>14 DEF recoveryVars, proxyVars, ProxyInv, ProxyTypeOK, BackupIsUsers, Readable, Undoing
<1>. QED  BY <1>1, <1>2, <1>3, <1>4, <1>5, <1>6, <1>7, <1>8, <1>9, <1>10, <1>11, <1>12, <1>13, <1>14,
             WriteKeeps, WrittenKeeps DEF RecoveryNext

(* The backup holds what the user had, through kills between any two writes *)
(* (enable and restore_after_crash of sysproxy.rs).                         *)
THEOREM BackupStaysUsers == RecoverySpec => []BackupIsUsers
<1>1. ProxyInv => BackupIsUsers
  BY DEF ProxyInv, BackupIsUsers
<1>. QED  BY InitiallyProxy, ProxyStep, <1>1, PTL DEF RecoverySpec

----------------------------------------------------------------------------
(* At rest.  Without a failing write a backup that is there is either being *)
(* written back or belongs to a connection that has the flag set, or will.  *)

Settled == at \notin {"off", "orphan", "restore", "write"}

RestInv ==
  fault \notin {"disk", "write"} =>
    /\ Settled /\ Readable /\ fault = "switch" => then # "idle"
    /\ Settled /\ Readable /\ fault # "switch" =>
         mode = "SystemProxy" /\ (flag \/ at = "announce") /\ at \notin {"idle", "down", "exit"}
    /\ at = "write" /\ then = "announce" /\ fault # "switch" => mode = "SystemProxy"
    /\ at = "save" => mode = "SystemProxy"

LEMMA InitiallyRest == RecoveryInit => RestInv
BY DEF RecoveryInit, RestInv, Settled

LEMMA RestStep == ProxyInv /\ RestInv /\ [RecoveryNext]_recoveryVars => RestInv'
<1> SUFFICES ASSUME ProxyInv, RestInv, [RecoveryNext]_recoveryVars PROVE RestInv'
  OBVIOUS
<1>1. UNCHANGED fault
  BY DEF RecoveryNext, recoveryVars, machine, EnableProxy, SaveBackup, Write, Written, WriteFails,
         Launch, KillOrphan, RestoreAfterCrash, Connect, Spawn, Record, AwaitControlPlane, GiveUp,
         WithoutProxy, Announce, Disconnect, Shutdown, Down, Exit, Exited, Killed, UserEdits,
         ProcessesChange, CoreDies
<1> SUFFICES ASSUME fault \notin {"disk", "write"} PROVE RestInv'
  BY <1>1 DEF RestInv
<1>2. CASE EnableProxy
  BY <1>1, <1>2 DEF EnableProxy, MustSave, Assign, RestInv, Settled, Readable
<1>3. CASE SaveBackup \/ Write
  BY <1>1, <1>3 DEF SaveBackup, Write, Assign, RestInv, Settled, Readable, ProxyInv
<1>4. CASE Written
  <2>1. then \in {"announce", "idle", "down", "exit"}
    BY <1>4 DEF Written, ProxyInv
  <2>. QED  BY <1>1, <1>4, <2>1 DEF Written, RestInv, Settled, Readable
<1>5. CASE WriteFails
  BY <1>5 DEF WriteFails
<1>6. CASE RestoreAfterCrash
  BY <1>1, <1>6 DEF RestoreAfterCrash, DisableProxy, Assign, RestInv, Settled, Readable
<1>7. CASE Shutdown
  BY <1>1, <1>7 DEF Shutdown, UndoNeeded, DisableProxy, Assign, RestInv, Settled, Readable
<1>8. CASE Exit
  BY <1>1, <1>8 DEF Exit, UndoNeeded, DisableProxy, Assign, RestInv, Settled, Readable
<1>9. CASE Connect
  BY <1>1, <1>9 DEF Connect, proxyVars, RestInv, Settled, Readable
<1>10. CASE Announce
  BY <1>1, <1>10 DEF Announce, proxyVars, RestInv, Settled, Readable
<1>11. CASE Down \/ WithoutProxy \/ Launch \/ KillOrphan \/ Exited \/ Killed
  BY <1>1, <1>11 DEF Down, WithoutProxy, Launch, KillOrphan, Exited, Killed, proxyVars,
                     RestInv, Settled, Readable
<1>12. CASE Spawn \/ Record \/ AwaitControlPlane \/ GiveUp \/ Disconnect
  BY <1>1, <1>12 DEF Spawn, Record, AwaitControlPlane, GiveUp, Disconnect, proxyVars,
                     RestInv, Settled, Readable
<1>13. CASE ProcessesChange \/ CoreDies \/ UserEdits \/ UNCHANGED recoveryVars
  BY <1>1, <1>13 DEF ProcessesChange, CoreDies, UserEdits, recoveryVars, proxyVars,
                     RestInv, Settled, Readable
<1>. QED  BY <1>2, <1>3, <1>4, <1>5, <1>6, <1>7, <1>8, <1>9, <1>10, <1>11, <1>12, <1>13
          DEF RecoveryNext

(* The app at rest has given the user his settings back (disable,           *)
(* restore_after_crash and shutdown), whatever they are and whenever the    *)
(* app was killed before.                                                   *)
THEOREM UsersHaveTheirs == RecoverySpec => []UsersAtRest
<1>1. ProxyInv /\ RestInv => UsersAtRest
  BY DEF ProxyInv, RestInv, UsersAtRest, Settled
<1>. QED  BY InitiallyProxy, InitiallyRest, ProxyStep, RestStep, <1>1, PTL DEF RecoverySpec

----------------------------------------------------------------------------
(* The cores.                                                               *)

CoreTypeOK ==
  /\ procs \in [Pids -> {"free", "other", "core", "dead"}]
  /\ child \in Pids \cup {NoPid}

\* Whoever has no handle on a core has its number in the file.
CoreInv ==
  /\ CoreTypeOK
  /\ child # NoPid => procs[child] \in {"core", "dead"}
  /\ at \in {"off", "orphan", "spawn"} => child = NoPid
  /\ at = "write" => then \in {"announce", "idle", "down", "exit"}
  /\ fault \notin {"kill", "gap"} =>
       /\ at \notin {"off", "orphan"} => Cores \subseteq {child}
       /\ at # "record" => Cores \subseteq {pidFile}

LEMMA InitiallyCores == RecoveryInit => CoreInv
BY DEF RecoveryInit, CoreInv, CoreTypeOK, Cores

LEMMA NoPidIsNone == NoPid \notin Pids
BY RecoveryAssumption

\* What freeing the child leaves.
LEMMA FreeChild ==
  ASSUME CoreInv, procs' = Free(child)
  PROVE  /\ procs' \in [Pids -> {"free", "other", "core", "dead"}]
         /\ Cores' = Cores \ {child}
         /\ \A p \in Pids : procs[p] = "other" => procs'[p] = "other"
<1>1. CASE child = NoPid
  BY <1>1, NoPidIsNone DEF Free, CoreInv, CoreTypeOK, Cores
<1>2. CASE child # NoPid
  <2>1. procs' = [procs EXCEPT ![child] = "free"] /\ child \in Pids
    BY <1>2 DEF Free, CoreInv, CoreTypeOK
  <2>. QED  BY <2>1, <1>2 DEF CoreInv, CoreTypeOK, Cores
<1>. QED  BY <1>1, <1>2

LEMMA CoreStep ==
  ASSUME CoreInv, [RecoveryNext]_recoveryVars
  PROVE  /\ CoreInv'
         /\ at' # at => \A p \in Pids : procs[p] = "other" => procs'[p] = "other"
<1> USE DEF machine
<1>1. CASE KillOrphan
  <2>1. CASE Recorded /\ procs' = [procs EXCEPT ![pidFile] = "free"]
    <3>1. Cores' = Cores \ {pidFile}
      BY <2>1 DEF Recorded, Cores, CoreInv, CoreTypeOK
    <3>. QED  BY <1>1, <2>1, <3>1 DEF KillOrphan, Recorded, CoreInv, CoreTypeOK
  <2>2. CASE ~Recorded /\ procs' = procs
    <3>1. Cores \subseteq {pidFile} => Cores = {}
      BY <2>2 DEF Recorded, Cores
    <3>. QED  BY <1>1, <2>2, <3>1 DEF KillOrphan, CoreInv, CoreTypeOK, Cores
  <2>3. CASE fault = "kill" /\ UNCHANGED <<pidFile, procs>>
    BY <1>1, <2>3 DEF KillOrphan, CoreInv, CoreTypeOK, Cores
  <2>. QED  BY <1>1, <2>1, <2>2, <2>3 DEF KillOrphan
<1>2. CASE Connect
  BY <1>2, FreeChild DEF Connect, CoreInv, CoreTypeOK
<1>3. CASE Spawn
  <2>1. ASSUME NEW p \in Pids, procs[p] = "free", procs' = [procs EXCEPT ![p] = "core"],
               child' = p, at' = "record", UNCHANGED fault
        PROVE  /\ CoreInv'
               /\ \A q \in Pids : procs[q] = "other" => procs'[q] = "other"
    <3>1. Cores' = Cores \cup {p}
      BY <2>1 DEF Cores, CoreInv, CoreTypeOK
    <3>2. fault \notin {"kill", "gap"} => Cores = {}
      BY <1>3, NoPidIsNone DEF Spawn, CoreInv, Cores
    <3>. QED  BY <2>1, <3>1, <3>2 DEF CoreInv, CoreTypeOK
  <2>2. CASE at' = "shutdown" /\ UNCHANGED <<procs, child>>
    BY <1>3, <2>2 DEF Spawn, CoreInv, CoreTypeOK, Cores
  <2>. QED  BY <1>3, <2>1, <2>2 DEF Spawn
<1>4. CASE Record
  BY <1>4 DEF Record, CoreInv, CoreTypeOK, Cores
<1>5. CASE Shutdown \/ Exited
  <2>1. ForgetCore /\ UNCHANGED fault
    BY <1>5 DEF Shutdown, Exited
  <2>2. Cores \subseteq {child} => Cores' = {}
    BY <2>1, FreeChild DEF ForgetCore
  <2>3. at \notin {"off", "orphan"} /\ at' # "spawn"
    BY <1>5 DEF Shutdown, Exited, DisableProxy, Assign
  <2>4. at' = "write" => then' \in {"announce", "idle", "down", "exit"}
    BY <1>5 DEF Shutdown, Exited, DisableProxy, Assign
  <2>. QED  BY <2>1, <2>2, <2>3, <2>4, FreeChild DEF ForgetCore, CoreInv, CoreTypeOK
<1>6. CASE Killed
  <2>1. procs' = [p \in Pids |-> IF procs[p] = "dead" THEN "free" ELSE procs[p]]
    BY <1>6 DEF Killed
  <2>2. /\ procs' \in [Pids -> {"free", "other", "core", "dead"}]
        /\ Cores' = Cores
        /\ \A p \in Pids : procs[p] = "other" => procs'[p] = "other"
    BY <2>1 DEF Cores, CoreInv, CoreTypeOK
  <2>. QED  BY <1>6, <2>2 DEF Killed, CoreInv, CoreTypeOK
<1>7. CASE ProcessesChange
  <2>1. PICK p \in Pids : \/ procs[p] = "free" /\ procs' = [procs EXCEPT ![p] = "other"]
                          \/ procs' = [procs EXCEPT ![p] = "free"] /\ child # p
    BY <1>7 DEF ProcessesChange
  <2>2. procs' \in [Pids -> {"free", "other", "core", "dead"}] /\ Cores' \subseteq Cores
    BY <2>1 DEF Cores, CoreInv, CoreTypeOK
  <2>3. child # NoPid => procs'[child] = procs[child]
    BY <2>1 DEF CoreInv, CoreTypeOK
  <2>. QED  BY <1>7, <2>2, <2>3 DEF ProcessesChange, proxyVars, CoreInv, CoreTypeOK
<1>8. CASE CoreDies
  <2>1. procs' = [procs EXCEPT ![child] = "dead"] /\ child \in Pids
    BY <1>8 DEF CoreDies, CoreInv, CoreTypeOK
  <2>2. procs' \in [Pids -> {"free", "other", "core", "dead"}] /\ Cores' \subseteq Cores
    BY <2>1 DEF Cores, CoreInv, CoreTypeOK
  <2>. QED  BY <1>8, <2>1, <2>2 DEF CoreDies, proxyVars, CoreInv, CoreTypeOK
<1>9. ASSUME UNCHANGED <<coreVars, fault>>, at' # "spawn",
             at \in {"off", "orphan"} <=> at' \in {"off", "orphan"},
             at = "record" => at' = "record",
             at' = "write" => then' \in {"announce", "idle", "down", "exit"}
      PROVE  CoreInv' /\ \A p \in Pids : procs[p] = "other" => procs'[p] = "other"
  BY <1>9 DEF coreVars, CoreInv, CoreTypeOK, Cores
<1>10. CASE EnableProxy \/ SaveBackup \/ Write \/ WithoutProxy \/ Announce \/ Disconnect \/ Down \/ UserEdits
  BY <1>9, <1>10 DEF EnableProxy, SaveBackup, Write, WithoutProxy, Announce, Disconnect, Down,
                     UserEdits, Assign, proxyVars, CoreInv
<1>11. CASE Launch \/ AwaitControlPlane \/ GiveUp
  BY <1>9, <1>11 DEF Launch, AwaitControlPlane, GiveUp, proxyVars
<1>12. CASE RestoreAfterCrash
  BY <1>9, <1>12 DEF RestoreAfterCrash, DisableProxy, Assign
<1>13. CASE Exit
  BY <1>9, <1>13 DEF Exit, DisableProxy, Assign
<1>14. CASE Written \/ WriteFails
  BY <1>9, <1>14 DEF Written, WriteFails, CoreInv
<1>15. CASE UNCHANGED recoveryVars
  BY <1>15 DEF recoveryVars, proxyVars, coreVars, CoreInv, CoreTypeOK, Cores
<1>. QED  BY <1>1, <1>2, <1>3, <1>4, <1>5, <1>6, <1>7, <1>8, <1>10, <1>11, <1>12, <1>13, <1>14, <1>15
          DEF RecoveryNext

(* A core the app has no handle on is in the pid file, unless a kill did not *)
(* take or the app died between the spawn and its record (kill_orphan and    *)
(* start of process.rs), for any process numbers.                            *)
THEOREM OrphansAreKnown == RecoverySpec => []OrphanIsKnown
<1>1. CoreInv => OrphanIsKnown
  BY DEF CoreInv, OrphanIsKnown, Cores
<1>2. CoreInv /\ [RecoveryNext]_recoveryVars => CoreInv'
  BY CoreStep
<1>. QED  BY InitiallyCores, <1>1, <1>2, PTL DEF RecoverySpec

(* No step of the app ends a process of somebody else (same_exe and stop of  *)
(* process.rs), however the numbers are used again.                          *)
THEOREM StrangersLiveOn == RecoverySpec => StrangersLive
<1>1. CoreInv /\ [RecoveryNext]_recoveryVars => CoreInv'
  BY CoreStep
<1>2. CoreInv /\ [RecoveryNext]_recoveryVars =>
        [at' # at => \A p \in Pids : procs[p] = "other" => procs'[p] = "other"]_recoveryVars
  BY CoreStep
<1>. QED  BY InitiallyCores, <1>1, <1>2, PTL DEF RecoverySpec, StrangersLive
=============================================================================
