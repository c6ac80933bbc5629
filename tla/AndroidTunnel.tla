--------------------------- MODULE AndroidTunnel ---------------------------
(***************************************************************************)
(* The tunnel on Android: the service that owns it (AuroraVpnService.kt,    *)
(* VpnState.kt, VpnPlugin.kt), the threads on which libbox comes up, and    *)
(* Rust's connects, disconnects, adoption, events and poller (commands.rs,  *)
(* core/android.rs).                                                        *)
(*                                                                          *)
(* The service's handlers run one at a time on the main thread, in the      *)
(* order of `inbox`; a plugin call of Rust and a click of the tile run there*)
(* too, between any two of them.  libbox itself is external: it comes up,   *)
(* fails, or is closed while it comes up, when either answer may follow.    *)
(***************************************************************************)
EXTENDS Naturals, FiniteSets, Sequences

CONSTANTS
  Threads,   \* libbox-start threads, each with the server it may create
  Instances, \* lives of the service
  Tasks,     \* connects and adoptions of Rust in flight
  MaxActs,   \* bound: in each plan, acts of the user and the system
  MaxSessions, \* bound: past it a core that died is given up
  MaxEvents, \* bound: events of a kind not handled yet
  Plans      \* "serial": acts at rest only; "overlap": at any moment

ASSUME AndroidAssumption ==
  /\ Threads \subseteq Nat \ {0} /\ Instances \subseteq Nat \ {0} /\ Tasks \subseteq Nat \ {0}
  /\ IsFiniteSet(Threads) /\ IsFiniteSet(Instances)
  /\ 1 \in Threads \cap Instances \* the tunnel that is up in the beginning
  /\ MaxSessions \in Nat /\ MaxEvents \in Nat \ {0} /\ Plans \subseteq {"serial", "overlap"}
  /\ MaxActs \in [Plans -> Nat]

VARIABLES
  phase, stopReason, callback, \* VpnState
  instance,  \* VpnState.service, 0 when there is none
  inbox,     \* intents and the end of the service, on their way to the main thread
  engine,    \* of each instance, its server: the thread that created it, or 0
  box,       \* of each thread, the libbox server it created
  threads,
  rust, conn, session, \* Is the runtime there?  Status.state, AppState.session
  lock,      \* the task that holds AppState.core while it waits for a start
  tasks, events, pollers,
  left, plan,
  wish       \* what the last act asked for: "down" or "any" thing else (plan "serial")

kotlin == <<phase, stopReason, callback, instance, inbox, engine, box, threads>>
runtime == <<rust, conn, session, lock, tasks, events, pollers>>
bounds == <<left, plan, wish>>
vars == <<kotlin, runtime, bounds>>

NoThread == [pc |-> "free", home |-> 0, server |-> 0, external |-> FALSE]
NoTask == [pc |-> "idle", session |-> 0]
Kinds == {"started", "user", "revoked", "request", "down"}

Up == {t \in Threads : box[t] = "up"}
Live == conn \in {"connecting", "connected"}

EmitMutant(kind, known) == known
Emit(kind, known) == \* to the sink of VpnPlugin.watch, one task each
  IF rust /\ kind \in Kinds /\ known[kind] < MaxEvents
  THEN [known EXCEPT ![kind] = @ + 1] ELSE known

(***************************************************************************)
(* The service.                                                             *)
(***************************************************************************)
FinishStart(outcome) == IF callback = "armed" THEN outcome ELSE callback

(* stopSelf: what is on its way to this life of the service still arrives,  *)
(* then the service ends; later intents start the next life.                *)
Ending(queue) ==
  IF "destroy" \in {queue[n] : n \in DOMAIN queue} THEN queue ELSE Append(queue, "destroy")
StopSelf(i, queue) == IF i = instance THEN Ending(queue) ELSE queue

CloseBox(i) ==
  /\ box' = IF engine[i] = 0 THEN box ELSE [box EXCEPT ![engine[i]] = "closed"]
  /\ engine' = [engine EXCEPT ![i] = 0]
  /\ phase' = "idle"

WasUp(i) == phase # "idle" \/ engine[i] # 0

Reason(i, reason) == IF WasUp(i) THEN reason ELSE stopReason

(* The queue is what is left of the inbox when the stop runs.               *)
StopTunnel(i, reason, queue) ==
  /\ CloseBox(i)
  /\ stopReason' = Reason(i, reason)
  /\ inbox' = StopSelf(i, queue)
  /\ events' = IF WasUp(i) THEN Emit(reason, events) ELSE events

NewThread == {t \in Threads :
  /\ threads[t] = NoThread /\ box[t] \in {"none", "closed"}
  /\ \A u \in Threads : threads[u].server # t}
NewInstance == {i \in Instances :
  i # instance /\ engine[i] = 0 /\ \A t \in Threads : threads[t].home # i}
Least(S) == CHOOSE x \in S : \A y \in S : x <= y

Launch(i, external) ==
  /\ NewThread # {}
  /\ phase' = "starting" /\ stopReason' = "none"
  /\ LET t == Least(NewThread) IN
     /\ threads' = [threads EXCEPT ![t] =
          [pc |-> "read", home |-> i, server |-> 0, external |-> external]]
     /\ box' = [box EXCEPT ![t] = "none"]
  /\ UNCHANGED engine

(* No saved document or no consent: the service gives up.                   *)
StartFromSaved(i, queue) ==
  \/ /\ phase # "idle"
     /\ inbox' = queue /\ UNCHANGED <<phase, stopReason, engine, box, threads>>
  \/ /\ phase = "idle" /\ Launch(i, TRUE) /\ inbox' = queue
  \/ /\ phase = "idle" /\ stopReason' = "error"
     /\ inbox' = Ending(queue)
     /\ UNCHANGED <<phase, engine, box, threads>>

(* onStartCommand, after onCreate where there is no service.                *)
Deliver ==
  /\ inbox # <<>> /\ Head(inbox) # "destroy"
  /\ instance = 0 => NewInstance # {}
  /\ LET i == IF instance = 0 THEN Least(NewInstance) ELSE instance
         rest == Tail(inbox)
         Toggled == Head(inbox) = "toggle" /\ phase # "idle"
     IN /\ instance' = i
        /\ \/ /\ Head(inbox) = "start"
              /\ Launch(i, FALSE) /\ inbox' = rest /\ UNCHANGED events
           \/ /\ Head(inbox) \in {"toggle", "connect"} /\ ~Toggled
              /\ StartFromSaved(i, rest) /\ UNCHANGED events
           \/ /\ Toggled \/ Head(inbox) = "stop"
              /\ CloseBox(i) /\ stopReason' = Reason(i, "user")
              /\ inbox' = Ending(rest)
              /\ events' = IF WasUp(i) THEN Emit("user", events) ELSE events
              /\ UNCHANGED threads
  /\ UNCHANGED <<callback, rust, conn, session, lock, tasks, pollers, bounds>>

OnDestroy ==
  /\ inbox # <<>> /\ Head(inbox) = "destroy"
  /\ CloseBox(instance) /\ instance' = 0 /\ inbox' = Tail(inbox)
  /\ UNCHANGED <<stopReason, callback, threads, runtime, bounds>>

(***************************************************************************)
(* The libbox-start thread.                                                 *)
(***************************************************************************)
Move(t, pc) == threads' = [threads EXCEPT ![t].pc = pc]

ReadConfig(t) ==
  /\ threads[t].pc = "read"
  /\ LET s == engine[threads[t].home] IN
     threads' = [threads EXCEPT ![t].pc = IF s = 0 THEN "make" ELSE "begin", ![t].server = s]
  /\ UNCHANGED <<phase, stopReason, callback, instance, inbox, engine, box, runtime, bounds>>

MakeServer(t) ==
  /\ threads[t].pc = "make"
  /\ engine' = [engine EXCEPT ![threads[t].home] = t]
  /\ box' = [box EXCEPT ![t] = "open"]
  /\ threads' = [threads EXCEPT ![t].pc = "begin", ![t].server = t]
  /\ UNCHANGED <<phase, stopReason, callback, instance, inbox, runtime, bounds>>

Begin(t) ==
  /\ threads[t].pc = "begin"
  /\ Move(t, IF box[threads[t].server] = "closed" THEN "failing" ELSE "coming")
  /\ UNCHANGED <<phase, stopReason, callback, instance, inbox, engine, box, runtime, bounds>>

CameUp(t) ==
  /\ threads[t].pc = "coming"
  /\ LET s == threads[t].server IN
     box' = IF box[s] = "closed" THEN box ELSE [box EXCEPT ![s] = "up"]
  /\ phase' = "running"
  /\ callback' = FinishStart("ok")
  /\ events' = IF threads[t].external THEN Emit("started", events) ELSE events
  /\ threads' = [threads EXCEPT ![t] = NoThread]
  /\ UNCHANGED <<stopReason, instance, inbox, engine, rust, conn, session, lock, tasks,
                 pollers, bounds>>

FailedToStartMutant(t) ==
  /\ threads[t].pc \in {"coming", "failing"}
  /\ StopTunnel(threads[t].home, "error", inbox)
  /\ threads' = [threads EXCEPT ![t] = NoThread]
  /\ UNCHANGED <<callback, instance, rust, conn, session, lock, tasks, pollers, bounds>>
FailedToStart(t) ==
  /\ threads[t].pc \in {"coming", "failing"}
  /\ callback' = FinishStart("error")
  /\ StopTunnel(threads[t].home, "error", inbox)
  /\ threads' = [threads EXCEPT ![t] = NoThread]
  /\ UNCHANGED <<instance, rust, conn, session, lock, tasks, pollers, bounds>>

(***************************************************************************)
(* Rust.                                                                    *)
(***************************************************************************)
Goto(r, pc) == tasks' = [tasks EXCEPT ![r].pc = pc]
Finish(r) == tasks' = [tasks EXCEPT ![r] = NoTask]
Spawn(pc) == \* a task begins, when the bound has one left
  \E r \in Tasks : tasks[r] = NoTask /\ tasks' = [tasks EXCEPT ![r].pc = pc]

(* VpnPlugin.stop: Rust's own decision, and nothing where no service lives. *)
PluginStop(queue) ==
  IF instance = 0
  THEN inbox' = queue /\ UNCHANGED <<phase, stopReason, engine, box>>
  ELSE /\ CloseBox(instance) /\ stopReason' = Reason(instance, "none")
       /\ inbox' = StopSelf(instance, queue)

(* A refusal leaves everything alone; the shortcut's connect then shuts     *)
(* down what there is.                                                      *)
Consent(r) ==
  /\ tasks[r].pc \in {"consent", "shortcut"}
  /\ \/ /\ conn' = "connecting" /\ session' = session + 1
        /\ tasks' = [tasks EXCEPT ![r] = [pc |-> "stop", session |-> session']]
     \/ /\ Up = {} \* an app whose tunnel is up has the consent
        /\ plan = "serial" => conn # "connected" \* none took it while the core died
        /\ IF tasks[r].pc = "shortcut" THEN Goto(r, "down") ELSE Finish(r)
        /\ UNCHANGED <<conn, session>>
  /\ UNCHANGED <<kotlin, rust, lock, events, pollers, bounds>>

StopOld(r) ==
  /\ tasks[r].pc = "stop" /\ lock = 0
  /\ PluginStop(inbox)
  /\ \/ Goto(r, "start")
     \/ Goto(r, "down") \* the document cannot be built
  /\ UNCHANGED <<callback, instance, threads, rust, conn, session, lock, events, pollers, bounds>>

Start(r) ==
  /\ tasks[r].pc = "start" /\ lock = 0
  /\ IF instance = 0
     THEN inbox' = Append(inbox, "start") /\ UNCHANGED <<phase, stopReason, engine, box>>
     ELSE /\ CloseBox(instance) /\ stopReason' = Reason(instance, "none")
          /\ inbox' = Append(StopSelf(instance, inbox), "start")
  /\ callback' = "armed" /\ lock' = r /\ Goto(r, "wait")
  /\ UNCHANGED <<instance, threads, rust, conn, session, events, pollers, bounds>>

Answered(r) ==
  /\ tasks[r].pc = "wait" /\ callback \in {"ok", "error"}
  /\ callback' = "none" /\ lock' = 0
  /\ Goto(r, IF callback = "ok" THEN "panel" ELSE "down")
  /\ UNCHANGED <<phase, stopReason, instance, inbox, engine, box, threads,
                 rust, conn, session, events, pollers, bounds>>

(* await_control_plane: the panel answers, the core is found dead, or thirty*)
(* seconds pass.                                                            *)
AwaitPanel(r) ==
  /\ tasks[r].pc = "panel"
  /\ \/ Up # {} /\ Goto(r, "attach")
     \/ Up = {} /\ lock = 0 /\ Goto(r, "down")
  /\ UNCHANGED <<kotlin, rust, conn, session, lock, events, pollers, bounds>>

AttachSessionMutant(r) ==
  /\ tasks[r].pc = "attach"
  /\ conn' = "connected" /\ UNCHANGED pollers
  /\ Finish(r)
  /\ UNCHANGED <<kotlin, rust, session, lock, events, bounds>>
AttachSession(r) ==
  /\ tasks[r].pc = "attach"
  /\ conn' = "connected" /\ pollers' = pollers \cup {tasks[r].session}
  /\ Finish(r)
  /\ UNCHANGED <<kotlin, rust, session, lock, events, bounds>>

Shutdown ==
  /\ lock = 0
  /\ PluginStop(inbox)
  /\ session' = session + 1 /\ conn' = "down"
  /\ UNCHANGED <<callback, instance, threads, rust, lock, pollers, bounds>>

GiveUp(r) == tasks[r].pc = "down" /\ Shutdown /\ Finish(r) /\ UNCHANGED events

(* adopt_running_tunnel: the status and the service are looked at, the      *)
(* document is compared, the panel asked, and then the tunnel is ours.      *)
Adopt(r) ==
  /\ tasks[r].pc = "adopt" /\ lock = 0
  /\ IF ~Live /\ phase = "running" THEN Goto(r, "compare") ELSE Finish(r)
  /\ UNCHANGED <<kotlin, rust, conn, session, lock, events, pollers, bounds>>

Compare(r) ==
  /\ tasks[r].pc = "compare"
  /\ Goto(r, "probe") \/ Goto(r, "consent")
  /\ UNCHANGED <<kotlin, rust, conn, session, lock, events, pollers, bounds>>

Probe(r) ==
  /\ tasks[r].pc = "probe"
  /\ IF Up # {}
     THEN /\ conn' = "connecting" /\ session' = session + 1
          /\ tasks' = [tasks EXCEPT ![r] = [pc |-> "attach", session |-> session']]
     ELSE Goto(r, "consent") /\ UNCHANGED <<conn, session>>
  /\ UNCHANGED <<kotlin, rust, lock, events, pollers, bounds>>

(* on_service_event: each event is a task of its own, in no order.          *)
Take(kind) == events[kind] > 0 /\ events' = [events EXCEPT ![kind] = @ - 1]

HandleStarted ==
  /\ Take("started") /\ Spawn("adopt")
  /\ UNCHANGED <<kotlin, rust, conn, session, lock, pollers, bounds>>

HandleStopped(reason) ==
  /\ events[reason] > 0
  /\ events' = [events EXCEPT ![reason] = @ - 1, !["down"] = @ + (IF Live THEN 1 ELSE 0)]
  /\ UNCHANGED <<kotlin, rust, conn, session, lock, tasks, pollers, bounds>>

HandleRequest ==
  /\ Take("request")
  /\ IF Live THEN UNCHANGED tasks ELSE Spawn("shortcut")
  /\ UNCHANGED <<kotlin, rust, conn, session, lock, pollers, bounds>>

ShutDown == Take("down") /\ Shutdown /\ UNCHANGED tasks

(* The poller: it ends with its session, and hands a dead core over to      *)
(* handle_core_death, which tells a stop by the user or the system from a   *)
(* crash to recover from, or, the third time in a row, to give up on.       *)
Ours(s) == session = s /\ conn = "connected"
Dead == Up = {} /\ phase # "running"

RecoversMutant == TRUE
Recovers == stopReason \notin {"user", "revoked"}

PollerEnds(s) ==
  /\ s \in pollers /\ ~Ours(s)
  /\ pollers' = pollers \ {s}
  /\ UNCHANGED <<kotlin, rust, conn, session, lock, tasks, events, bounds>>

HandleCoreDeath(s) ==
  /\ s \in pollers /\ Ours(s) /\ Dead /\ lock = 0
  /\ pollers' = pollers \ {s}
  /\ \/ Recovers /\ session < MaxSessions /\ Spawn("consent") /\ UNCHANGED events
     \/ events' = [events EXCEPT !["down"] = @ + 1] /\ UNCHANGED tasks
  /\ UNCHANGED <<kotlin, rust, conn, session, lock, bounds>>

(***************************************************************************)
(* The user and the system.                                                 *)
(***************************************************************************)
Quiet ==
  /\ inbox = <<>> /\ \A t \in Threads : threads[t] = NoThread
  /\ \A r \in Tasks : tasks[r] = NoTask
  /\ \A kind \in Kinds : events[kind] = 0
  /\ \A s \in pollers : Ours(s) /\ ~Dead

Act(what) ==
  /\ left > 0 /\ left' = left - 1 /\ (plan = "serial" => Quiet) /\ UNCHANGED plan
  /\ wish' = (IF plan = "serial" THEN what ELSE "any")

UserConnects ==
  /\ Act("any") /\ rust /\ ~Live /\ Spawn("consent")
  /\ UNCHANGED <<kotlin, rust, conn, session, lock, events, pollers>>

UserDisconnects ==
  /\ Act("down") /\ rust /\ Live /\ events["down"] < MaxEvents
  /\ events' = [events EXCEPT !["down"] = @ + 1]
  /\ UNCHANGED <<kotlin, rust, conn, session, lock, tasks, pollers>>

(* A widget, the tile or the notification.                                  *)
Send(message) ==
  /\ Act(IF message = "stop" \/ (message = "toggle" /\ phase # "idle") THEN "down" ELSE "any")
  /\ inbox' = Append(inbox, message)
  /\ UNCHANGED <<phase, stopReason, callback, instance, engine, box, threads, runtime>>

Outside ==
  \/ Send("toggle")
  \/ phase = "idle" /\ Send("connect")
  \/ instance # 0 /\ Send("stop")

Request ==
  /\ Act("any") /\ rust /\ events' = Emit("request", events)
  /\ UNCHANGED <<kotlin, rust, conn, session, lock, tasks, pollers>>

(* The tile's own call, the system's revocation and libbox's own stop.      *)
Stopped(reason) ==
  /\ Act(IF reason = "core" THEN "any" ELSE "down")
  /\ instance # 0 /\ (reason # "user" => Up # {})
  /\ StopTunnel(instance, reason, inbox)
  /\ UNCHANGED <<callback, instance, threads, rust, conn, session, lock, tasks, pollers>>

(* The system kills the process, and restarts the sticky service with no    *)
(* intent; the user opens the app.                                          *)
Killed ==
  /\ Act("any") /\ (rust \/ instance # 0)
  /\ phase' = "idle" /\ stopReason' = "none" /\ callback' = "none" /\ instance' = 0
  /\ inbox' = IF instance # 0 /\ phase # "idle" THEN <<"connect">> ELSE <<>>
  /\ engine' = [i \in Instances |-> 0] /\ box' = [t \in Threads |-> "none"]
  /\ threads' = [t \in Threads |-> NoThread]
  /\ rust' = FALSE /\ conn' = "down" /\ session' = 0 /\ lock' = 0
  /\ tasks' = [r \in Tasks |-> NoTask] /\ events' = [kind \in Kinds |-> 0] /\ pollers' = {}

OpenApp ==
  /\ Act("any") /\ ~rust
  /\ rust' = TRUE /\ Spawn("adopt")
  /\ UNCHANGED <<kotlin, conn, session, lock, events, pollers>>

(* The tunnel is down, with the app open or not, or it is up and Rust's.    *)
Init ==
  /\ plan \in Plans /\ left = MaxActs[plan] /\ wish = "any"
  /\ stopReason = "none" /\ callback = "none" /\ inbox = <<>> /\ lock = 0
  /\ threads = [t \in Threads |-> NoThread]
  /\ tasks = [r \in Tasks |-> NoTask] /\ events = [kind \in Kinds |-> 0]
  /\ \E up \in BOOLEAN :
       /\ phase = (IF up THEN "running" ELSE "idle")
       /\ conn = (IF up THEN "connected" ELSE "down")
       /\ instance = (IF up THEN 1 ELSE 0)
       /\ session = instance /\ pollers = {session} \ {0}
       /\ engine = [i \in Instances |-> IF up /\ i = 1 THEN 1 ELSE 0]
       /\ box = [t \in Threads |-> IF up /\ t = 1 THEN "up" ELSE "none"]
       /\ rust \in {TRUE, up}

Service == Deliver \/ OnDestroy
Thread(t) == ReadConfig(t) \/ MakeServer(t) \/ Begin(t) \/ CameUp(t) \/ FailedToStart(t)
Task(r) ==
  \/ Consent(r) \/ StopOld(r) \/ Start(r) \/ Answered(r) \/ AwaitPanel(r)
  \/ AttachSession(r) \/ GiveUp(r) \/ Adopt(r) \/ Compare(r) \/ Probe(r)
Events ==
  \/ HandleStarted \/ HandleStopped("user") \/ HandleStopped("revoked") \/ HandleRequest
  \/ ShutDown
Poller == \E s \in pollers : PollerEnds(s) \/ HandleCoreDeath(s)
World ==
  \/ UserConnects \/ UserDisconnects \/ Outside \/ Request \/ Killed \/ OpenApp
  \/ \E reason \in {"user", "revoked", "core"} : Stopped(reason)

Next ==
  \/ Service \/ Events \/ Poller \/ World
  \/ \E t \in Threads : Thread(t)
  \/ \E r \in Tasks : Task(r)

Fairness ==
  /\ WF_vars(Service) /\ WF_vars(Events) /\ WF_vars(Poller)
  /\ \A t \in Threads : WF_vars(Thread(t))
  /\ \A r \in Tasks : WF_vars(Task(r))

Spec == Init /\ [][Next]_vars /\ Fairness

(***************************************************************************)
(* What must hold.                                                          *)
(***************************************************************************)
(* At rest, after acts that each found the system at rest, the service and  *)
(* Rust tell the same story, and it is true: one box and one service when   *)
(* there is a tunnel, none when there is none.                              *)
Agree ==
  plan = "serial" /\ Quiet =>
    /\ phase # "starting" /\ conn # "connecting"
    /\ (phase = "running") <=> (Up # {})
    /\ (phase = "running") <=> (instance # 0)
    /\ Cardinality(Up) <= 1
    /\ rust => ((conn = "connected") <=> (phase = "running"))

(* A stop by the user, in the app or outside it, or a revocation is no      *)
(* crash to recover from: when all that it set off has come to rest, nothing*)
(* is up and Rust does not try to bring it up again.                        *)
StopIsNoCrash == wish = "down" /\ Quiet => phase = "idle" /\ Up = {} /\ ~Live

(* Rust's start is answered whatever happens to the service meanwhile: the  *)
(* lock of the core, which every shutdown needs, is given back.             *)
StartIsAnswered == lock # 0 ~> lock = 0

(* A tunnel that is gone is noticed: "connected" over nothing does not last.*)
DeadIsNoticed ==
  (plan = "serial" /\ conn = "connected" /\ Dead) ~> (conn # "connected" \/ ~Dead)

(* stopTunnel: "Take the tunnel down"; closeBox: "a stale `null` here is a  *)
(* tunnel left up with every route still pointing into it".                 *)
StopIsFinal == Quiet /\ stopReason \in {"user", "revoked"} => Up = {}
=============================================================================
