--------------------------- MODULE AndroidProofs ---------------------------
(***************************************************************************)
(* Proofs about AndroidTunnel, for any number of threads, lives of the      *)
(* service, tasks and acts: at rest the service and Rust agree, and a stop  *)
(* is no crash, when each act finds the system at rest.                     *)
(*                                                                          *)
(* Both speak of rest only; what is proved is what an act sets off until    *)
(* then.  The service is in one of four scenes, Gone, Leaving, Starting and *)
(* Running, and what is on its way to it fits the scene.  Rust waits for    *)
(* events (AtRest) or has one task (AtWork), and each point of that task    *)
(* fits some of the scenes (Busy).  A tunnel that is gone while Rust takes  *)
(* itself for connected has a poller to notice it, or an event on its way.  *)
(***************************************************************************)
EXTENDS AndroidTunnel, SequenceTheorems, FiniteSetTheorems, WellFoundedInduction, TLAPS

Pcs == {"idle", "consent", "shortcut", "stop", "start", "wait", "panel", "attach", "down",
        "adopt", "compare", "probe"}
ThreadType ==
  [pc : {"free", "read", "make", "begin", "coming", "failing"},
   home : Instances \cup {0}, server : Threads \cup {0}, external : BOOLEAN]
TaskType == [pc : Pcs, session : Nat]

Types ==
  /\ instance \in Instances \cup {0}
  /\ engine \in [Instances -> Threads \cup {0}]
  /\ box \in [Threads -> {"none", "open", "up", "closed"}]
  /\ threads \in [Threads -> ThreadType]
  /\ tasks \in [Tasks -> TaskType]
  /\ events \in [Kinds -> Nat] /\ session \in Nat

-----------------------------------------------------------------------------
(* The scenes of the service.                                              *)

Free == \A t \in Threads : threads[t] = NoThread
Closed(T) == \A t \in T : box[t] \in {"none", "closed"}
Owns(t) == engine = [i \in Instances |-> IF i = instance THEN t ELSE 0]
Bare == Owns(0) /\ Closed(Threads)
Held(t, state) == Owns(t) /\ box[t] = state /\ Closed(Threads \ {t})

Gone == instance = 0 /\ phase = "idle" /\ Free /\ Bare
Leaving == instance \in Instances /\ phase = "idle" /\ Free /\ Bare

Launching(t, external) ==
  /\ \A u \in Threads \ {t} : threads[u] = NoThread
  /\ threads[t].home = instance /\ threads[t].external = external
  /\ \/ threads[t].pc \in {"read", "make"} /\ threads[t].server = 0 /\ Bare
     \/ threads[t].pc \in {"begin", "coming"} /\ threads[t].server = t /\ Held(t, "open")
Starting(external) ==
  /\ instance \in Instances /\ phase = "starting" /\ inbox = <<>>
  /\ \E t \in Threads : Launching(t, external)

Running ==
  /\ instance \in Instances /\ phase = "running" /\ Free
  /\ \E t \in Threads : Held(t, "up")

(* No tunnel and none to come, and a tunnel nobody is about to stop.       *)
Empty == Gone /\ inbox = <<>>
Off ==
  \/ Empty
  \/ Leaving /\ inbox = <<"destroy">>
On == Running /\ inbox = <<>>

-----------------------------------------------------------------------------
(* What Rust is about meanwhile.                                           *)

NoTasks == \A r \in Tasks : tasks[r] = NoTask
Silent(kinds) == \A kind \in Kinds \ kinds : events[kind] = 0

(* Nothing of this is Rust's, and nobody has told it yet.                  *)
Apart ==
  /\ conn = "down" /\ Silent({})
  /\ \/ Off
     \/ Gone /\ inbox \in {<<"connect">>, <<"toggle">>}
     \/ Starting(TRUE)
     \/ ~rust /\ Running /\ inbox \in {<<>>, <<"stop">>, <<"toggle">>}
Told == rust /\ conn = "down" /\ On /\ Silent({"started"}) /\ events["started"] = 1

(* The tunnel is Rust's.                                                   *)
Connected ==
  /\ rust /\ conn = "connected" /\ session \in pollers /\ Running
  /\ \/ Silent({}) /\ inbox \in {<<>>, <<"stop">>, <<"toggle">>}
     \/ Silent({"down"}) /\ inbox = <<>>
     \/ Silent({"request"}) /\ inbox = <<>>

(* It is gone, which the poller or an event will tell.                     *)
Lost ==
  /\ rust /\ Off /\ Silent({"user", "revoked", "down"}) /\ conn \in {"down", "connected"}
  /\ conn = "connected" =>
       IF session \in pollers THEN Silent({}) \/ ~Recovers ELSE events["down"] > 0

Asked == rust /\ conn = "down" /\ Empty /\ Silent({"request"}) /\ events["request"] = 1

Unlocked == lock = 0 /\ callback = "none"
AtRest == NoTasks /\ Unlocked /\ (Apart \/ Told \/ Connected \/ Lost \/ Asked)

(* The points of a task.                                                   *)
Current(r) == tasks[r].session = session /\ conn = "connecting"
Waits ==
  \/ callback = "armed" /\ Gone /\ inbox = <<"start">>
  \/ callback = "armed" /\ Leaving /\ inbox = <<"destroy", "start">>
  \/ callback = "armed" /\ Starting(FALSE)
  \/ callback = "error" /\ Off
  \/ callback = "ok" /\ On

Busy(r) ==
  \/ tasks[r].pc = "consent" /\ Unlocked /\ conn = "down" /\ (Empty \/ On)
  \/ tasks[r].pc = "consent" /\ Unlocked /\ conn = "connected" /\ session \notin pollers /\ Off
  \/ tasks[r].pc = "shortcut" /\ Unlocked /\ conn = "down" /\ Empty
  \/ tasks[r].pc = "stop" /\ Unlocked /\ Current(r) /\ (Off \/ On)
  \/ tasks[r].pc = "start" /\ Unlocked /\ Current(r) /\ Off
  \/ tasks[r].pc = "wait" /\ lock = r /\ Current(r) /\ Waits
  \/ tasks[r].pc \in {"panel", "attach"} /\ Unlocked /\ Current(r) /\ On
  \/ tasks[r].pc = "down" /\ Unlocked /\ conn \in {"down", "connecting"} /\ Off
  \/ tasks[r].pc = "adopt" /\ Unlocked /\ conn = "down" /\ (Empty \/ On)
  \/ tasks[r].pc \in {"compare", "probe"} /\ Unlocked /\ conn = "down" /\ On

Alone(r) == \A o \in Tasks \ {r} : tasks[o] = NoTask
AtWork == rust /\ Silent({}) /\ \E r \in Tasks : Alone(r) /\ Busy(r)

SerialInv == plan = "serial" => Types /\ (AtRest \/ AtWork)

-----------------------------------------------------------------------------
(* What is on its way to the service.                                      *)

LEMMA ShortQueues ==
  ASSUME NEW S
  PROVE  /\ << >> \in Seq(S)
         /\ \A m \in S : /\ <<m>> \in Seq(S) /\ <<m>> # << >> /\ Append(<< >>, m) = <<m>>
                        /\ Head(<<m>>) = m /\ Tail(<<m>>) = << >>
         /\ \A m, n \in S : /\ <<m, n>> \in Seq(S) /\ <<m, n>> # << >>
                           /\ Head(<<m, n>>) = m /\ Tail(<<m, n>>) = <<n>>
                           /\ <<m>> = <<n>> => m = n
<1>1. ASSUME NEW m \in S
      PROVE  /\ <<m>> \in Seq(S) /\ <<m>> # << >> /\ Append(<< >>, m) = <<m>>
             /\ Head(<<m>>) = m /\ Tail(<<m>>) = << >>
  OBVIOUS
<1>2. ASSUME NEW m \in S, NEW n \in S
      PROVE  /\ <<m, n>> \in Seq(S) /\ <<m, n>> # << >>
             /\ Head(<<m, n>>) = m /\ Tail(<<m, n>>) = <<n>>
             /\ <<m>> = <<n>> => m = n
  OBVIOUS
<1>3. << >> \in Seq(S)
  OBVIOUS
<1>. QED  BY <1>1, <1>2, <1>3

LEMMA LongerQueue == ASSUME NEW S, NEW m \in S, NEW n \in S PROVE Append(<<m>>, n) = <<m, n>>
<1>1. <<m>> \in Seq(S) /\ Len(<<m>>) = 1 /\ <<m>>[1] = m
  OBVIOUS
<1>2. /\ Append(<<m>>, n) \in Seq(S) /\ Len(Append(<<m>>, n)) = 2
      /\ Append(<<m>>, n)[1] = m /\ Append(<<m>>, n)[2] = n
  BY <1>1
<1>3. <<m, n>> \in Seq(S) /\ Len(<<m, n>>) = 2 /\ <<m, n>>[1] = m /\ <<m, n>>[2] = n
  OBVIOUS
<1>4. \A i \in 1..2 : i = 1 \/ i = 2
  OBVIOUS
<1>. QED  BY <1>2, <1>3, <1>4, SeqEqual

Messages == {"start", "stop", "toggle", "connect", "destroy"}

LEMMA Queues ==
  /\ Ending(<< >>) = <<"destroy">> /\ Ending(<<"destroy">>) = <<"destroy">>
  /\ Append(<<"destroy">>, "start") = <<"destroy", "start">>
  /\ <<"destroy", "start">> # << >>
  /\ Head(<<"destroy", "start">>) = "destroy" /\ Tail(<<"destroy", "start">>) = <<"start">>
  /\ \A m \in Messages : /\ <<m>> # << >> /\ Append(<< >>, m) = <<m>>
                         /\ Head(<<m>>) = m /\ Tail(<<m>>) = << >>
<1>1. "destroy" \in Messages /\ "start" \in Messages
  BY DEF Messages
<1>2. Append(<<"destroy">>, "start") = <<"destroy", "start">>
  BY <1>1, LongerQueue
<1>3. /\ <<"destroy", "start">> # << >>
      /\ Head(<<"destroy", "start">>) = "destroy" /\ Tail(<<"destroy", "start">>) = <<"start">>
      /\ \A m \in Messages : /\ <<m>> # << >> /\ Append(<< >>, m) = <<m>>
                             /\ Head(<<m>>) = m /\ Tail(<<m>>) = << >>
  BY <1>1, ShortQueues
<1>4. Ending(<< >>) = <<"destroy">>
  BY <1>1, <1>3 DEF Ending
<1>5. Ending(<<"destroy">>) = <<"destroy">>
  BY DEF Ending
<1>. QED  BY <1>2, <1>3, <1>4, <1>5

-----------------------------------------------------------------------------
(* Scenes and tasks.                                                       *)

LEMMA SceneFacts ==
  ASSUME Types
  PROVE  /\ Off => phase = "idle" /\ Up = {} /\ Free /\ Bare
         /\ Empty => Off /\ Gone /\ instance = 0
         /\ Running => phase = "running" /\ Up # {} /\ instance # 0 /\ Free
         /\ On => Running /\ inbox = << >>
         /\ Leaving => instance # 0
         /\ \A external \in BOOLEAN : Starting(external) => phase = "starting" /\ ~Free
<1>1. 0 \notin Instances /\ 0 \notin Threads
  BY AndroidAssumption
<1>2. Closed(Threads) => Up = {}
  BY DEF Closed, Up
<1>3. Running => Up # {}
  BY DEF Running, Held, Up
<1>4. ASSUME NEW external \in BOOLEAN, Starting(external) PROVE ~Free
  BY <1>4 DEF Starting, Launching, Free, NoThread
<1>. QED  BY <1>1, <1>2, <1>3, <1>4 DEF Off, Empty, On, Gone, Leaving, Running, Starting, Bare

(* A step that leaves the service alone leaves its scene.                  *)
LEMMA Frame ==
  ASSUME UNCHANGED <<phase, instance, inbox, engine, box, threads>>
  PROVE  /\ (Off' <=> Off) /\ (Empty' <=> Empty) /\ (On' <=> On) /\ Up' = Up
         /\ (Gone' <=> Gone) /\ (Leaving' <=> Leaving) /\ (Running' <=> Running)
         /\ \A external \in BOOLEAN : Starting(external)' <=> Starting(external)
<1>1. /\ (Bare' <=> Bare) /\ (Free' <=> Free)
      /\ \A t, state : Held(t, state)' <=> Held(t, state)
  BY DEF Bare, Free, Held, Owns, Closed
<1>. QED  BY <1>1 DEF Off, Empty, On, Gone, Leaving, Running, Starting, Launching, Up

LEMMA TasksMove ==
  ASSUME Types, NEW r \in Tasks, Alone(r), NEW pc \in Pcs, Goto(r, pc)
  PROVE  /\ tasks' \in [Tasks -> TaskType] /\ Alone(r)'
         /\ tasks'[r].pc = pc /\ tasks'[r].session = tasks[r].session
<1>1. tasks[r] \in TaskType /\ tasks' = [tasks EXCEPT ![r] = [tasks[r] EXCEPT !.pc = pc]]
  BY DEF Types, Goto
<1>2. [tasks[r] EXCEPT !.pc = pc] \in TaskType
  BY <1>1 DEF TaskType
<1>3. tasks'[r] = [tasks[r] EXCEPT !.pc = pc] /\ tasks' \in [Tasks -> TaskType]
  BY <1>1, <1>2 DEF Types
<1>4. [tasks[r] EXCEPT !.pc = pc].pc = pc /\ [tasks[r] EXCEPT !.pc = pc].session = tasks[r].session
  BY <1>1 DEF TaskType
<1>5. Alone(r)'
  BY <1>1 DEF Alone, Types
<1>. QED  BY <1>3, <1>4, <1>5

LEMMA TasksFinish ==
  ASSUME Types, NEW r \in Tasks, Alone(r), Finish(r)
  PROVE  tasks' \in [Tasks -> TaskType] /\ NoTasks'
<1>1. NoTask \in TaskType
  BY DEF NoTask, TaskType, Pcs
<1>. QED  BY <1>1 DEF Types, Finish, Alone, NoTasks

LEMMA TasksSpawn ==
  ASSUME Types, NoTasks, NEW pc \in Pcs, Spawn(pc)
  PROVE  /\ tasks' \in [Tasks -> TaskType]
         /\ \E r \in Tasks : Alone(r)' /\ tasks'[r].pc = pc
<1>1. PICK r \in Tasks : Goto(r, pc)
  BY DEF Spawn, Goto
<1>2. Alone(r)
  BY DEF Alone, NoTasks
<1>. QED  BY <1>1, <1>2, TasksMove

(* Whoever is at work is the only one.                                     *)
LEMMA Worker ==
  ASSUME plan = "serial", SerialInv, NEW r \in Tasks, tasks[r].pc # "idle"
  PROVE  Types /\ rust /\ Silent({}) /\ Alone(r) /\ Busy(r)
<1>1. tasks[r] # NoTask
  BY DEF NoTask
<1>2. Types /\ AtWork
  BY <1>1 DEF SerialInv, AtRest, NoTasks
<1>. QED  BY <1>1, <1>2 DEF AtWork, Alone

(* Rust's own steps leave the service and the events alone.                *)
Ashore ==
  /\ UNCHANGED <<phase, instance, inbox, engine, box, threads>>
  /\ UNCHANGED <<rust, events, plan>>

LEMMA StillTyped ==
  ASSUME Types, Ashore, tasks' \in [Tasks -> TaskType], session' \in Nat
  PROVE  Types'
  BY DEF Types, Ashore

LEMMA StillSilent == ASSUME UNCHANGED events, NEW kinds, Silent(kinds) PROVE Silent(kinds)'
  BY DEF Silent

-----------------------------------------------------------------------------
(* The task of Rust, one lemma per point.                                  *)

LEMMA ConsentStep ==
  ASSUME plan = "serial", SerialInv, NEW r \in Tasks, Consent(r) PROVE SerialInv'
<1>1. Types /\ rust /\ Silent({}) /\ Alone(r) /\ Busy(r)
  BY Worker DEF Consent
<1>2. Ashore /\ UNCHANGED <<callback, lock>>
  BY DEF Consent, kotlin, bounds, Ashore
<1>3. Unlocked /\ ((conn = "down" /\ (Empty \/ On)) \/ (conn = "connected" /\ Off))
      /\ (tasks[r].pc = "shortcut" => conn = "down" /\ Empty)
  BY <1>1, SceneFacts DEF Consent, Busy
<1>4. Unlocked' /\ Silent({})'
  BY <1>1, <1>2, <1>3, StillSilent DEF Unlocked, Ashore
<1>5. CASE conn' = "connecting" /\ session' = session + 1
           /\ tasks' = [tasks EXCEPT ![r] = [pc |-> "stop", session |-> session']]
  <2>1. session' \in Nat /\ [pc |-> "stop", session |-> session'] \in TaskType
    BY <1>1, <1>5 DEF Types, TaskType, Pcs
  <2>2. tasks' \in [Tasks -> TaskType] /\ Alone(r)' /\ tasks'[r] = [pc |-> "stop", session |-> session']
    BY <1>1, <1>5, <2>1 DEF Types, Alone
  <2>3. Current(r)' /\ (Off \/ On)' /\ tasks'[r].pc = "stop"
    BY <1>1, <1>2, <1>3, <1>5, <2>2, SceneFacts, Frame DEF Current, Ashore
  <2>4. Types'
    BY <1>1, <1>2, <2>1, <2>2, StillTyped
  <2>. QED  BY <1>1, <1>2, <1>4, <2>2, <2>3, <2>4 DEF SerialInv, AtWork, Busy, Ashore
<1>6. CASE Up = {} /\ conn # "connected" /\ UNCHANGED <<conn, session>>
           /\ IF tasks[r].pc = "shortcut" THEN Goto(r, "down") ELSE Finish(r)
  <2>1. Empty /\ Off /\ conn = "down"
    BY <1>1, <1>3, <1>6, SceneFacts
  <2>2. Empty' /\ Off' /\ conn' = "down"
    BY <1>2, <1>6, <2>1, Frame DEF Ashore
  <2>3. CASE tasks[r].pc = "shortcut"
    <3>1. tasks' \in [Tasks -> TaskType] /\ Alone(r)' /\ tasks'[r].pc = "down"
      BY <1>1, <1>6, <2>3, TasksMove DEF Pcs
    <3>2. Types'
      BY <1>1, <1>2, <1>6, <3>1, StillTyped DEF Types
    <3>. QED  BY <1>1, <1>2, <1>4, <2>2, <3>1, <3>2 DEF SerialInv, AtWork, Busy, Ashore
  <2>4. CASE tasks[r].pc # "shortcut"
    <3>1. tasks' \in [Tasks -> TaskType] /\ NoTasks'
      BY <1>1, <1>6, <2>4, TasksFinish
    <3>2. Types'
      BY <1>1, <1>2, <1>6, <3>1, StillTyped DEF Types
    <3>. QED  BY <1>4, <2>2, <3>1, <3>2 DEF SerialInv, AtRest, Apart
  <2>. QED  BY <2>3, <2>4
<1>. QED  BY <1>5, <1>6 DEF Consent

(* A task that goes on by itself.                                          *)
LEMMA GoesOn ==
  ASSUME plan = "serial", SerialInv, NEW r \in Tasks, tasks[r].pc # "idle",
         Ashore, UNCHANGED session, NEW pc \in Pcs, Goto(r, pc), Busy(r)'
  PROVE  SerialInv'
<1>1. Types /\ rust /\ Silent({}) /\ Alone(r)
  BY Worker
<1>2. tasks' \in [Tasks -> TaskType] /\ Alone(r)'
  BY <1>1, TasksMove
<1>3. Types'
  BY <1>1, <1>2, StillTyped DEF Types
<1>. QED  BY <1>1, <1>2, <1>3, StillSilent DEF SerialInv, AtWork, Ashore

(* Answered, AwaitPanel, Adopt where it goes on, and Compare.              *)
LEMMA MoveFacts ==
  ASSUME plan = "serial", SerialInv, NEW r \in Tasks, tasks[r].pc # "idle", NEW pc \in Pcs, Goto(r, pc)
  PROVE  tasks'[r].pc = pc /\ tasks'[r].session = tasks[r].session
  BY Worker, TasksMove

LEMMA AnsweredStep ==
  ASSUME plan = "serial", SerialInv, NEW r \in Tasks, Answered(r) PROVE SerialInv'
<1> DEFINE pc == IF callback = "ok" THEN "panel" ELSE "down"
<1>1. tasks[r].pc = "wait" /\ Goto(r, pc) /\ pc \in Pcs
  BY DEF Answered, Pcs
<1>2. Ashore /\ UNCHANGED <<session, conn>> /\ Unlocked'
  BY DEF Answered, bounds, Ashore, Unlocked
<1>3. Current(r) /\ Waits
  BY <1>1, Worker DEF Busy
<1>4. tasks'[r].pc = pc /\ tasks'[r].session = tasks[r].session
  BY <1>1, MoveFacts
<1>5. IF callback = "ok" THEN On' ELSE Off'
  BY <1>2, <1>3, Frame DEF Answered, Waits, Ashore
<1>6. Busy(r)'
  BY <1>2, <1>3, <1>4, <1>5 DEF Busy, Current
<1>. QED  BY <1>1, <1>2, <1>6, GoesOn

LEMMA AwaitPanelStep ==
  ASSUME plan = "serial", SerialInv, NEW r \in Tasks, AwaitPanel(r) PROVE SerialInv'
<1>1. tasks[r].pc = "panel" /\ Ashore /\ UNCHANGED <<session, conn, lock, callback>>
  BY DEF AwaitPanel, kotlin, bounds, Ashore
<1>2. Types /\ Unlocked /\ Current(r) /\ On
  BY <1>1, Worker DEF Busy
<1>3. Up # {} /\ Goto(r, "attach") /\ "attach" \in Pcs
  BY <1>2, SceneFacts DEF AwaitPanel, Pcs
<1>4. tasks'[r].pc = "attach" /\ tasks'[r].session = tasks[r].session
  BY <1>1, <1>3, MoveFacts
<1>5. On' /\ Unlocked' /\ Current(r)'
  BY <1>1, <1>2, <1>4, Frame DEF Ashore, Unlocked, Current
<1>. QED  BY <1>1, <1>3, <1>4, <1>5, GoesOn DEF Busy

LEMMA AttachSessionStep ==
  ASSUME plan = "serial", SerialInv, NEW r \in Tasks, AttachSession(r) PROVE SerialInv'
<1>1. tasks[r].pc = "attach" /\ Ashore /\ UNCHANGED <<session, lock, callback>>
      /\ Finish(r) /\ conn' = "connected" /\ tasks[r].session \in pollers'
  BY DEF AttachSession, kotlin, bounds, Ashore
<1>2. Types /\ rust /\ Silent({}) /\ Alone(r) /\ Unlocked /\ Current(r) /\ On
  BY <1>1, Worker DEF Busy
<1>3. tasks' \in [Tasks -> TaskType] /\ NoTasks'
  BY <1>1, <1>2, TasksFinish
<1>4. Types'
  BY <1>1, <1>2, <1>3, StillTyped DEF Types
<1>5. Connected'
  <2>1. Running' /\ inbox' = << >> /\ Silent({})' /\ rust'
    BY <1>1, <1>2, Frame, StillSilent DEF Ashore, On
  <2>. QED  BY <1>1, <1>2, <2>1 DEF Connected, Current
<1>. QED  BY <1>1, <1>2, <1>3, <1>4, <1>5 DEF SerialInv, AtRest, Unlocked

LEMMA AdoptStep ==
  ASSUME plan = "serial", SerialInv, NEW r \in Tasks, Adopt(r) PROVE SerialInv'
<1>1. tasks[r].pc = "adopt" /\ Ashore /\ UNCHANGED <<session, conn, lock, callback>>
  BY DEF Adopt, kotlin, bounds, Ashore
<1>2. Types /\ rust /\ Silent({}) /\ Alone(r) /\ Unlocked /\ conn = "down" /\ (Empty \/ On)
  BY <1>1, Worker DEF Busy
<1>3. CASE On
  <2>1. Goto(r, "compare") /\ "compare" \in Pcs
    BY <1>2, <1>3, SceneFacts DEF Adopt, Live, Pcs
  <2>2. tasks'[r].pc = "compare"
    BY <1>1, <2>1, MoveFacts
  <2>3. On' /\ Unlocked' /\ conn' = "down"
    BY <1>1, <1>2, <1>3, Frame DEF Ashore, Unlocked
  <2>. QED  BY <1>1, <2>1, <2>2, <2>3, GoesOn DEF Busy
<1>4. CASE Empty
  <2>1. Finish(r)
    BY <1>2, <1>4, SceneFacts DEF Adopt
  <2>2. tasks' \in [Tasks -> TaskType] /\ NoTasks'
    BY <1>2, <2>1, TasksFinish
  <2>3. Types'
    BY <1>1, <1>2, <2>2, StillTyped DEF Types
  <2>4. Off' /\ Silent({})' /\ Unlocked' /\ conn' = "down"
    BY <1>1, <1>2, <1>4, Frame, SceneFacts, StillSilent DEF Ashore, Unlocked
  <2>. QED  BY <2>2, <2>3, <2>4 DEF SerialInv, AtRest, Apart
<1>. QED  BY <1>2, <1>3, <1>4

LEMMA CompareStep ==
  ASSUME plan = "serial", SerialInv, NEW r \in Tasks, Compare(r) PROVE SerialInv'
<1>1. tasks[r].pc = "compare" /\ Ashore /\ UNCHANGED <<session, conn, lock, callback>>
  BY DEF Compare, kotlin, bounds, Ashore
<1>2. Unlocked /\ conn = "down" /\ On
  BY <1>1, Worker DEF Busy
<1>3. On' /\ Unlocked' /\ conn' = "down"
  BY <1>1, <1>2, Frame DEF Ashore, Unlocked
<1>4. ASSUME NEW pc \in {"probe", "consent"}, Goto(r, pc) PROVE SerialInv'
  <2>1. pc \in Pcs
    BY DEF Pcs
  <2>2. tasks'[r].pc = pc
    BY <1>1, <1>4, <2>1, MoveFacts
  <2>3. Busy(r)'
    BY <1>3, <2>2 DEF Busy
  <2>. QED  BY <1>1, <1>4, <2>1, <2>3, GoesOn
<1>. QED  BY <1>4 DEF Compare

LEMMA ProbeStep ==
  ASSUME plan = "serial", SerialInv, NEW r \in Tasks, Probe(r) PROVE SerialInv'
<1>1. tasks[r].pc = "probe" /\ Ashore /\ UNCHANGED <<lock, callback>>
  BY DEF Probe, kotlin, bounds, Ashore
<1>2. Types /\ rust /\ Silent({}) /\ Alone(r) /\ Unlocked /\ On
  BY <1>1, Worker DEF Busy
<1>3. conn' = "connecting" /\ session' = session + 1
      /\ tasks' = [tasks EXCEPT ![r] = [pc |-> "attach", session |-> session']]
  BY <1>2, SceneFacts DEF Probe
<1>4. session' \in Nat /\ [pc |-> "attach", session |-> session'] \in TaskType
  BY <1>2, <1>3 DEF Types, TaskType, Pcs
<1>5. tasks' \in [Tasks -> TaskType] /\ Alone(r)' /\ tasks'[r] = [pc |-> "attach", session |-> session']
  BY <1>2, <1>3, <1>4 DEF Types, Alone
<1>6. Current(r)' /\ On' /\ Unlocked' /\ Silent({})' /\ tasks'[r].pc = "attach"
  BY <1>1, <1>2, <1>3, <1>5, Frame, StillSilent DEF Current, Ashore, Unlocked
<1>7. Types'
  BY <1>1, <1>2, <1>4, <1>5, StillTyped
<1>. QED  BY <1>1, <1>2, <1>5, <1>6, <1>7 DEF SerialInv, AtWork, Busy, Ashore

-----------------------------------------------------------------------------
(* Taking the tunnel down leaves nothing of it.                            *)

LEMMA Closing ==
  ASSUME Types, instance \in Instances, CloseBox(instance),
         Bare \/ \E t \in Threads, state \in {"open", "up"} : Held(t, state)
  PROVE  /\ phase' = "idle" /\ Bare'
         /\ engine' \in [Instances -> Threads \cup {0}]
         /\ box' \in [Threads -> {"none", "open", "up", "closed"}]
<1>1. 0 \notin Threads
  BY AndroidAssumption
<1>2. phase' = "idle" /\ engine' = [engine EXCEPT ![instance] = 0]
      /\ box' = IF engine[instance] = 0 THEN box ELSE [box EXCEPT ![engine[instance]] = "closed"]
  BY DEF CloseBox
<1>3. engine[instance] \in Threads \cup {0}
  BY DEF Types
<1>4. /\ engine' \in [Instances -> Threads \cup {0}]
      /\ box' \in [Threads -> {"none", "open", "up", "closed"}]
  BY <1>2, <1>3 DEF Types
<1>5. \A i \in Instances : i # instance => engine[i] = 0
  BY DEF Bare, Held, Owns
<1>6. Owns(0)'
  BY <1>2, <1>4, <1>5 DEF Owns, Types
<1>7. Closed(Threads)'
  <2>1. CASE Bare
    <3>1. engine[instance] = 0
      BY <2>1 DEF Bare, Owns
    <3>. QED  BY <1>2, <2>1, <3>1 DEF Bare, Closed
  <2>2. ASSUME NEW t \in Threads, NEW state \in {"open", "up"}, Held(t, state) PROVE Closed(Threads)'
    <3>1. engine[instance] = t
      BY <2>2 DEF Held, Owns
    <3>. QED  BY <1>1, <1>2, <2>2, <3>1 DEF Held, Closed, Types
  <2>. QED  BY <2>1, <2>2
<1>. QED  BY <1>2, <1>4, <1>6, <1>7 DEF Bare

(* VpnPlugin.stop, where nothing is on its way but the end.                *)
LEMMA PluginStops ==
  ASSUME Types, Off \/ On, PluginStop(inbox), UNCHANGED <<instance, threads>>
  PROVE  /\ Off' /\ (Empty => Empty')
         /\ engine' \in [Instances -> Threads \cup {0}]
         /\ box' \in [Threads -> {"none", "open", "up", "closed"}]
<1>1. CASE instance = 0
  <2>1. UNCHANGED <<phase, engine, box, inbox>> /\ Off
    BY <1>1, SceneFacts DEF PluginStop, On
  <2>. QED  BY <2>1, Frame DEF Types
<1>2. CASE instance # 0
  <2>1. instance \in Instances /\ Free /\ ~Empty
    BY <1>2, SceneFacts DEF Types
  <2>2. inbox' = <<"destroy">>
    BY <1>2, <2>1, Queues DEF PluginStop, StopSelf, Off, On
  <2>3. Bare \/ \E t \in Threads, state \in {"open", "up"} : Held(t, state)
    BY <2>1 DEF Off, Leaving, On, Running
  <2>4. CloseBox(instance)
    BY <1>2 DEF PluginStop
  <2>5. /\ phase' = "idle" /\ Bare'
        /\ engine' \in [Instances -> Threads \cup {0}]
        /\ box' \in [Threads -> {"none", "open", "up", "closed"}]
    BY <2>1, <2>3, <2>4, Closing
  <2>6. Free'
    BY <2>1 DEF Free
  <2>. QED  BY <2>1, <2>2, <2>5, <2>6 DEF Off, Leaving
<1>. QED  BY <1>1, <1>2

LEMMA StopOldStep ==
  ASSUME plan = "serial", SerialInv, NEW r \in Tasks, StopOld(r) PROVE SerialInv'
<1>1. /\ tasks[r].pc = "stop" /\ PluginStop(inbox)
      /\ UNCHANGED <<instance, threads, rust, conn, session, lock, callback, events, plan>>
  BY DEF StopOld, bounds
<1>2. Types /\ rust /\ Silent({}) /\ Alone(r) /\ Unlocked /\ Current(r) /\ (Off \/ On)
  BY <1>1, Worker DEF Busy
<1>3. /\ Off' /\ engine' \in [Instances -> Threads \cup {0}]
      /\ box' \in [Threads -> {"none", "open", "up", "closed"}]
  BY <1>1, <1>2, PluginStops
<1>4. ASSUME NEW pc \in {"start", "down"}, Goto(r, pc) PROVE SerialInv'
  <2>1. pc \in Pcs
    BY DEF Pcs
  <2>2. /\ tasks' \in [Tasks -> TaskType] /\ Alone(r)'
        /\ tasks'[r].pc = pc /\ tasks'[r].session = tasks[r].session
    BY <1>2, <1>4, <2>1, TasksMove
  <2>3. Types'
    BY <1>1, <1>2, <1>3, <2>2 DEF Types
  <2>4. Busy(r)'
    BY <1>1, <1>2, <1>3, <2>2 DEF Busy, Unlocked, Current
  <2>. QED  BY <1>1, <1>2, <2>2, <2>3, <2>4, StillSilent DEF SerialInv, AtWork
<1>. QED  BY <1>4 DEF StopOld

LEMMA StartStep ==
  ASSUME plan = "serial", SerialInv, NEW r \in Tasks, Start(r) PROVE SerialInv'
<1>1. /\ tasks[r].pc = "start" /\ callback' = "armed" /\ lock' = r /\ Goto(r, "wait")
      /\ UNCHANGED <<instance, threads, rust, conn, session, events, plan>>
  BY DEF Start, bounds
<1>2. Types /\ rust /\ Silent({}) /\ Alone(r) /\ Unlocked /\ Current(r) /\ Off
  BY <1>1, Worker DEF Busy
<1>3. /\ tasks' \in [Tasks -> TaskType] /\ Alone(r)'
      /\ tasks'[r].pc = "wait" /\ tasks'[r].session = tasks[r].session
  BY <1>1, <1>2, TasksMove DEF Pcs
<1>4. /\ Waits' /\ engine' \in [Instances -> Threads \cup {0}]
      /\ box' \in [Threads -> {"none", "open", "up", "closed"}]
  <2>1. CASE instance = 0
    <3>1. UNCHANGED <<phase, engine, box>> /\ inbox' = Append(inbox, "start")
      BY <2>1 DEF Start
    <3>2. Gone /\ inbox = << >>
      BY <1>2, <2>1, SceneFacts DEF Off, Empty
    <3>3. inbox' = <<"start">>
      BY <3>1, <3>2, Queues DEF Messages
    <3>4. Gone'
      BY <1>1, <3>1, <3>2 DEF Gone, Free, Bare, Owns, Closed
    <3>. QED  BY <1>1, <1>2, <3>1, <3>3, <3>4 DEF Waits, Types
  <2>2. CASE instance # 0
    <3>1. Leaving /\ inbox = <<"destroy">> /\ instance \in Instances
      BY <1>2, <2>2, SceneFacts DEF Off, Leaving
    <3>2. inbox' = <<"destroy", "start">>
      BY <2>2, <3>1, Queues DEF Start, StopSelf
    <3>3. CloseBox(instance) /\ Bare
      BY <2>2, <3>1 DEF Start, Leaving
    <3>4. /\ phase' = "idle" /\ Bare'
          /\ engine' \in [Instances -> Threads \cup {0}]
          /\ box' \in [Threads -> {"none", "open", "up", "closed"}]
      BY <1>2, <3>1, <3>3, Closing
    <3>5. Leaving'
      BY <1>1, <3>1, <3>4 DEF Leaving, Free
    <3>. QED  BY <1>1, <3>2, <3>4, <3>5 DEF Waits
  <2>. QED  BY <2>1, <2>2
<1>5. Types'
  BY <1>1, <1>2, <1>3, <1>4 DEF Types
<1>6. Busy(r)'
  BY <1>1, <1>2, <1>3, <1>4 DEF Busy, Current
<1>. QED  BY <1>1, <1>2, <1>3, <1>5, <1>6, StillSilent DEF SerialInv, AtWork

(* A shutdown at rest, or by a task that gives up.                         *)
LEMMA Shuts ==
  ASSUME Types, Off \/ On, Shutdown, events' \in [Kinds -> Nat], tasks' \in [Tasks -> TaskType]
  PROVE  /\ Types' /\ Off' /\ conn' = "down" /\ (Unlocked => Unlocked')
         /\ UNCHANGED <<rust, plan>>
<1>1. /\ PluginStop(inbox) /\ session' = session + 1 /\ conn' = "down"
      /\ UNCHANGED <<callback, instance, threads, rust, lock, plan>>
  BY DEF Shutdown, bounds
<1>2. /\ Off' /\ engine' \in [Instances -> Threads \cup {0}]
      /\ box' \in [Threads -> {"none", "open", "up", "closed"}]
  BY <1>1, PluginStops
<1>. QED  BY <1>1, <1>2 DEF Types, Unlocked

LEMMA GiveUpStep ==
  ASSUME plan = "serial", SerialInv, NEW r \in Tasks, GiveUp(r) PROVE SerialInv'
<1>1. tasks[r].pc = "down" /\ Shutdown /\ Finish(r) /\ UNCHANGED events
  BY DEF GiveUp
<1>2. Types /\ Silent({}) /\ Alone(r) /\ Unlocked /\ Off
  BY <1>1, Worker DEF Busy
<1>3. tasks' \in [Tasks -> TaskType] /\ NoTasks' /\ events' \in [Kinds -> Nat]
  BY <1>1, <1>2, TasksFinish DEF Types
<1>4. Types' /\ Off' /\ conn' = "down" /\ Unlocked' /\ Silent({})'
  BY <1>1, <1>2, <1>3, Shuts, StillSilent
<1>. QED  BY <1>3, <1>4 DEF SerialInv, AtRest, Apart

LEMMA TaskStep ==
  ASSUME plan = "serial", SerialInv, NEW r \in Tasks, Task(r) PROVE SerialInv'
  BY ConsentStep, StopOldStep, StartStep, AnsweredStep, AwaitPanelStep, AttachSessionStep,
     GiveUpStep, AdoptStep, CompareStep, ProbeStep DEF Task

-----------------------------------------------------------------------------
(* The libbox-start thread.                                                *)

(* Who waits for a thread: nobody in the app, or the one task of Rust.     *)
Awaited(external) ==
  \/ external = TRUE /\ NoTasks /\ Unlocked /\ conn = "down" /\ Silent({})
  \/ /\ external = FALSE /\ rust /\ Silent({}) /\ callback = "armed"
     /\ \E r \in Tasks : Alone(r) /\ tasks[r].pc = "wait" /\ lock = r /\ Current(r)

LEMMA Starter ==
  ASSUME plan = "serial", SerialInv, NEW t \in Threads, threads[t].pc # "free"
  PROVE  /\ Types /\ instance \in Instances /\ phase = "starting" /\ inbox = << >>
         /\ Launching(t, threads[t].external) /\ Awaited(threads[t].external)
<1>1. Types /\ ~Free
  BY DEF SerialInv, Free, NoThread
<1>2. ~Off /\ ~Running /\ ~Gone /\ ~Leaving /\ ~On
  BY <1>1, SceneFacts DEF Gone, Leaving
<1>3. PICK external \in BOOLEAN : Starting(external) /\ Awaited(external)
  <2>1. CASE AtRest
    BY <1>2, <2>1, SceneFacts DEF AtRest, Apart, Told, Connected, Lost, Asked, Empty, Awaited
  <2>2. CASE AtWork
    <3>1. PICK r \in Tasks : Alone(r) /\ Busy(r)
      BY <2>2 DEF AtWork
    <3>2. tasks[r].pc = "wait" /\ lock = r /\ Current(r) /\ callback = "armed" /\ Starting(FALSE)
      BY <1>2, <3>1 DEF Busy, Waits, Empty
    <3>. QED  BY <2>2, <3>1, <3>2 DEF AtWork, Awaited
  <2>. QED  BY <2>1, <2>2 DEF SerialInv
<1>4. PICK u \in Threads : Launching(u, external)
  BY <1>3 DEF Starting
<1>5. u = t
  BY <1>4 DEF Launching, NoThread
<1>. QED  BY <1>1, <1>3, <1>4, <1>5 DEF Starting, Launching

(* A thread on its way.                                                    *)
LEMMA StillStarting ==
  ASSUME plan = "serial", SerialInv, NEW t \in Threads, threads[t].pc # "free",
         UNCHANGED <<phase, callback, instance, inbox, runtime, bounds>>,
         Types', threads'[t].external = threads[t].external,
         Launching(t, threads[t].external)'
  PROVE  SerialInv'
<1>1. /\ instance \in Instances /\ phase = "starting" /\ inbox = << >>
      /\ Awaited(threads[t].external)
  BY Starter
<1>2. UNCHANGED <<rust, conn, session, lock, tasks, events, plan>>
  BY DEF runtime, bounds
<1>3. Awaited(threads[t].external)'
  BY <1>1, <1>2 DEF Awaited, NoTasks, Unlocked, Silent, Alone, Current
<1>4. Starting(threads[t].external)'
  BY <1>1 DEF Starting
<1>. QED  BY <1>3, <1>4 DEF Awaited, SerialInv, AtRest, Apart, AtWork, Busy, Waits

LEMMA ReadConfigStep ==
  ASSUME plan = "serial", SerialInv, NEW t \in Threads, ReadConfig(t) PROVE SerialInv'
<1>1. /\ threads[t].pc = "read"
      /\ UNCHANGED <<phase, callback, instance, inbox, engine, box, runtime, bounds>>
  BY DEF ReadConfig
<1>2. Types /\ instance \in Instances /\ Launching(t, threads[t].external)
  BY <1>1, Starter
<1>3. engine[threads[t].home] = 0
  BY <1>1, <1>2 DEF Launching, Bare, Owns
<1> DEFINE new == [threads[t] EXCEPT !.pc = "make", !.server = 0]
<1>4. threads' = [threads EXCEPT ![t] = new]
  BY <1>3 DEF ReadConfig
<1>5. /\ new \in ThreadType /\ new.pc = "make" /\ new.server = 0
      /\ new.home = threads[t].home /\ new.external = threads[t].external
  <2>1. threads[t] \in ThreadType
    BY <1>2 DEF Types
  <2>. QED  BY <2>1 DEF ThreadType
<1> HIDE DEF new
<1>6. threads' \in [Threads -> ThreadType] /\ threads'[t] = new
  BY <1>2, <1>4, <1>5 DEF Types
<1>7. Types'
  BY <1>1, <1>2, <1>6 DEF Types, runtime
<1>8. Launching(t, threads[t].external)'
  BY <1>1, <1>2, <1>4, <1>5, <1>6 DEF Launching, Bare, Owns, Closed, Types
<1>. QED  BY <1>1, <1>5, <1>6, <1>7, <1>8, StillStarting

LEMMA MakeServerStep ==
  ASSUME plan = "serial", SerialInv, NEW t \in Threads, MakeServer(t) PROVE SerialInv'
<1>1. /\ threads[t].pc = "make"
      /\ engine' = [engine EXCEPT ![threads[t].home] = t]
      /\ box' = [box EXCEPT ![t] = "open"]
      /\ UNCHANGED <<phase, callback, instance, inbox, runtime, bounds>>
  BY DEF MakeServer
<1>2. Types /\ instance \in Instances /\ Launching(t, threads[t].external)
  BY <1>1, Starter
<1>3. threads[t].home = instance /\ Bare
  BY <1>1, <1>2 DEF Launching
<1> DEFINE new == [threads[t] EXCEPT !.pc = "begin", !.server = t]
<1>4. threads' = [threads EXCEPT ![t] = new]
  BY DEF MakeServer
<1>5. /\ new \in ThreadType /\ new.pc = "begin" /\ new.server = t
      /\ new.home = threads[t].home /\ new.external = threads[t].external
  <2>1. threads[t] \in ThreadType
    BY <1>2 DEF Types
  <2>. QED  BY <2>1 DEF ThreadType
<1> HIDE DEF new
<1>6. threads' \in [Threads -> ThreadType] /\ threads'[t] = new
  BY <1>2, <1>4, <1>5 DEF Types
<1>7. Types'
  BY <1>1, <1>2, <1>3, <1>6 DEF Types, runtime
<1>8. Held(t, "open")'
  BY <1>1, <1>2, <1>3 DEF Held, Bare, Owns, Closed, Types
<1>9. Launching(t, threads[t].external)'
  BY <1>1, <1>2, <1>3, <1>4, <1>5, <1>6, <1>8 DEF Launching, Types
<1>. QED  BY <1>1, <1>5, <1>6, <1>7, <1>9, StillStarting

LEMMA BeginStep ==
  ASSUME plan = "serial", SerialInv, NEW t \in Threads, Begin(t) PROVE SerialInv'
<1>1. /\ threads[t].pc = "begin"
      /\ UNCHANGED <<phase, callback, instance, inbox, engine, box, runtime, bounds>>
  BY DEF Begin
<1>2. Types /\ instance \in Instances /\ Launching(t, threads[t].external)
  BY <1>1, Starter
<1>3. threads[t].server = t /\ Held(t, "open")
  BY <1>1, <1>2 DEF Launching
<1> DEFINE new == [threads[t] EXCEPT !.pc = "coming"]
<1>4. threads' = [threads EXCEPT ![t] = new]
  BY <1>3 DEF Begin, Move, Held
<1>5. /\ new \in ThreadType /\ new.pc = "coming" /\ new.server = t
      /\ new.home = threads[t].home /\ new.external = threads[t].external
  <2>1. threads[t] \in ThreadType
    BY <1>2 DEF Types
  <2>. QED  BY <1>3, <2>1 DEF ThreadType
<1> HIDE DEF new
<1>6. threads' \in [Threads -> ThreadType] /\ threads'[t] = new
  BY <1>2, <1>4, <1>5 DEF Types
<1>7. Types'
  BY <1>1, <1>2, <1>6 DEF Types, runtime
<1>8. Launching(t, threads[t].external)'
  BY <1>1, <1>2, <1>3, <1>4, <1>5, <1>6 DEF Launching, Held, Owns, Closed, Types
<1>. QED  BY <1>1, <1>5, <1>6, <1>7, <1>8, StillStarting

(* The thread ends, and what waits for it hears of it.                     *)
LEMMA ThreadEnds ==
  ASSUME Types, NEW t \in Threads, Launching(t, threads[t].external),
         threads' = [threads EXCEPT ![t] = NoThread]
  PROVE  Free' /\ threads' \in [Threads -> ThreadType]
<1>1. NoThread \in ThreadType
  BY DEF NoThread, ThreadType
<1>. QED  BY <1>1 DEF Types, Launching, Free

LEMMA Emits ==
  ASSUME Types, Silent({}), NEW kind \in Kinds, events' = Emit(kind, events)
  PROVE  /\ events' \in [Kinds -> Nat] /\ Silent({kind})'
         /\ events'[kind] = IF rust THEN 1 ELSE 0
         /\ ~rust => Silent({})'
<1>1. events \in [Kinds -> Nat] /\ events[kind] = 0
  BY DEF Types, Silent
<1>2. 0 < MaxEvents
  BY AndroidAssumption
<1>. QED  BY <1>1, <1>2 DEF Emit, Silent

LEMMA CameUpStep ==
  ASSUME plan = "serial", SerialInv, NEW t \in Threads, CameUp(t) PROVE SerialInv'
<1>1. /\ threads[t].pc = "coming" /\ phase' = "running" /\ callback' = FinishStart("ok")
      /\ events' = IF threads[t].external THEN Emit("started", events) ELSE events
      /\ threads' = [threads EXCEPT ![t] = NoThread]
      /\ UNCHANGED <<instance, inbox, engine, rust, conn, session, lock, tasks, plan>>
  BY DEF CameUp, bounds
<1>2. /\ Types /\ instance \in Instances /\ inbox = << >>
      /\ Launching(t, threads[t].external) /\ Awaited(threads[t].external)
  BY <1>1, Starter
<1>3. threads[t].server = t /\ Held(t, "open")
  BY <1>1, <1>2 DEF Launching
<1>4. box' = [box EXCEPT ![t] = "up"]
  BY <1>3 DEF CameUp, Held
<1>5. Held(t, "up")' /\ box' \in [Threads -> {"none", "open", "up", "closed"}]
  BY <1>1, <1>2, <1>3, <1>4 DEF Held, Owns, Closed, Types
<1>6. Free' /\ threads' \in [Threads -> ThreadType]
  BY <1>1, <1>2, ThreadEnds
<1>7. On' /\ Running'
  BY <1>1, <1>2, <1>5, <1>6 DEF On, Running
<1>8. CASE threads[t].external = TRUE
  <2>1. NoTasks /\ Unlocked /\ conn = "down" /\ Silent({})
    BY <1>2, <1>8 DEF Awaited
  <2>2. events' = Emit("started", events) /\ "started" \in Kinds
    BY <1>1, <1>8 DEF Kinds
  <2>3. /\ events' \in [Kinds -> Nat] /\ Silent({"started"})'
        /\ events'["started"] = (IF rust THEN 1 ELSE 0) /\ (~rust => Silent({})')
    BY <1>2, <2>1, <2>2, Emits
  <2>4. Types'
    BY <1>1, <1>2, <1>5, <1>6, <2>3 DEF Types
  <2>5. NoTasks' /\ Unlocked' /\ conn' = "down" /\ (rust' <=> rust)
    BY <1>1, <2>1 DEF NoTasks, Unlocked, FinishStart
  <2>6. Told' \/ Apart'
    BY <1>1, <1>2, <1>7, <2>3, <2>5 DEF Told, Apart
  <2>. QED  BY <2>4, <2>5, <2>6 DEF SerialInv, AtRest
<1>9. CASE threads[t].external = FALSE
  <2>1. rust /\ Silent({}) /\ callback = "armed"
    BY <1>2, <1>9 DEF Awaited
  <2>2. PICK r \in Tasks : Alone(r) /\ tasks[r].pc = "wait" /\ lock = r /\ Current(r)
    BY <1>2, <1>9 DEF Awaited
  <2>3. events' = events /\ callback' = "ok"
    BY <1>1, <1>9, <2>1 DEF FinishStart
  <2>4. Types'
    BY <1>1, <1>2, <1>5, <1>6, <2>3 DEF Types
  <2>5. Alone(r)' /\ Busy(r)'
    BY <1>1, <1>7, <2>2, <2>3 DEF Alone, Busy, Waits, Current
  <2>. QED  BY <1>1, <2>1, <2>3, <2>4, <2>5, StillSilent DEF SerialInv, AtWork
<1>. QED  BY <1>2, <1>8, <1>9 DEF Types, ThreadType

LEMMA FailedToStartStep ==
  ASSUME plan = "serial", SerialInv, NEW t \in Threads, FailedToStart(t) PROVE SerialInv'
<1>1. /\ threads[t].pc \in {"coming", "failing"} /\ callback' = FinishStart("error")
      /\ StopTunnel(threads[t].home, "error", inbox)
      /\ threads' = [threads EXCEPT ![t] = NoThread]
      /\ UNCHANGED <<instance, rust, conn, session, lock, tasks, plan>>
  BY DEF FailedToStart, bounds
<1>2. /\ Types /\ instance \in Instances /\ inbox = << >>
      /\ Launching(t, threads[t].external) /\ Awaited(threads[t].external)
  BY <1>1, Starter
<1>3. threads[t].home = instance /\ Held(t, "open")
  BY <1>1, <1>2 DEF Launching
<1>4. CloseBox(instance) /\ inbox' = StopSelf(instance, inbox)
  BY <1>1, <1>3 DEF StopTunnel
<1>5. inbox' = <<"destroy">>
  BY <1>2, <1>4, Queues DEF StopSelf
<1>6. events' = events
  BY <1>1 DEF StopTunnel, Emit, Kinds
<1>7. /\ phase' = "idle" /\ Bare'
      /\ engine' \in [Instances -> Threads \cup {0}]
      /\ box' \in [Threads -> {"none", "open", "up", "closed"}]
  BY <1>2, <1>3, <1>4, Closing
<1>8. Free' /\ threads' \in [Threads -> ThreadType]
  BY <1>1, <1>2, ThreadEnds
<1>9. Off'
  BY <1>1, <1>2, <1>5, <1>7, <1>8 DEF Off, Leaving
<1>10. Types'
  BY <1>1, <1>2, <1>6, <1>7, <1>8 DEF Types
<1>11. CASE threads[t].external = TRUE
  <2>1. NoTasks /\ Unlocked /\ conn = "down" /\ Silent({})
    BY <1>2, <1>11 DEF Awaited
  <2>2. NoTasks' /\ Unlocked' /\ conn' = "down" /\ Silent({})'
    BY <1>1, <1>6, <2>1, StillSilent DEF NoTasks, Unlocked, FinishStart
  <2>. QED  BY <1>9, <1>10, <2>2 DEF SerialInv, AtRest, Apart
<1>12. CASE threads[t].external = FALSE
  <2>1. rust /\ Silent({}) /\ callback = "armed"
    BY <1>2, <1>12 DEF Awaited
  <2>2. PICK r \in Tasks : Alone(r) /\ tasks[r].pc = "wait" /\ lock = r /\ Current(r)
    BY <1>2, <1>12 DEF Awaited
  <2>3. callback' = "error"
    BY <1>1, <2>1 DEF FinishStart
  <2>4. Alone(r)' /\ Busy(r)'
    BY <1>1, <1>9, <2>2, <2>3 DEF Alone, Busy, Waits, Current
  <2>. QED  BY <1>1, <1>6, <1>10, <2>1, <2>4, StillSilent DEF SerialInv, AtWork
<1>. QED  BY <1>2, <1>11, <1>12 DEF Types, ThreadType

LEMMA ThreadStep ==
  ASSUME plan = "serial", SerialInv, NEW t \in Threads, Thread(t) PROVE SerialInv'
  BY ReadConfigStep, MakeServerStep, BeginStep, CameUpStep, FailedToStartStep DEF Thread

-----------------------------------------------------------------------------
(* The handlers of the service.                                            *)

LEMMA LeastNumber == ASSUME NEW T, T \subseteq Nat, T # {} PROVE Least(T) \in T
<1> DEFINE R == OpToRel(<, Nat)
<1>1. \A i, j \in Nat : i < j => <<i, j>> \in R
  BY DEF OpToRel
<1>2. \E x \in T : \A y \in T : ~ (<<y, x>> \in R)
  BY NatLessThanWellFounded, WFMin, Zenon
<1> HIDE DEF R
<1>3. \E x \in T : \A y \in T : x <= y
  <2>1. \E x \in T : \A y \in T : ~ (y < x)
    BY <1>1, <1>2
  <2>. QED  BY <2>1
<1>. QED  BY <1>3 DEF Least

(* What finds whom: a message on its way, and the scene it is for.         *)
Waiting(r) ==
  /\ rust /\ Silent({}) /\ Alone(r) /\ tasks[r].pc = "wait" /\ lock = r /\ Current(r)
  /\ callback = "armed"
Unheard ==
  \/ ~rust /\ conn = "down" /\ Silent({})
  \/ rust /\ conn = "connected" /\ session \in pollers /\ Silent({})

LEMMA Arrivals ==
  ASSUME plan = "serial", SerialInv, inbox # << >>
  PROVE  /\ Types
         /\ \/ Leaving /\ inbox = <<"destroy">> /\ Off /\ ~Empty
            \/ Leaving /\ inbox = <<"destroy", "start">> /\ \E r \in Tasks : Waiting(r)
            \/ Gone /\ inbox = <<"start">> /\ \E r \in Tasks : Waiting(r)
            \/ /\ Gone /\ inbox \in {<<"connect">>, <<"toggle">>}
               /\ NoTasks /\ Unlocked /\ conn = "down" /\ Silent({})
            \/ /\ Running /\ inbox \in {<<"stop">>, <<"toggle">>}
               /\ NoTasks /\ Unlocked /\ Unheard
<1>1. Types /\ ~Empty /\ ~On /\ \A external \in BOOLEAN : ~Starting(external)
  BY DEF SerialInv, Empty, On, Starting
<1>2. Off => Leaving /\ inbox = <<"destroy">>
  BY <1>1 DEF Off
<1>3. CASE AtRest
  BY <1>1, <1>2, <1>3 DEF AtRest, Apart, Told, Connected, Lost, Asked, Unheard
<1>4. CASE AtWork
  <2>1. PICK r \in Tasks : Alone(r) /\ Busy(r)
    BY <1>4 DEF AtWork
  <2>2. Off \/ (tasks[r].pc = "wait" /\ lock = r /\ Current(r) /\ callback = "armed" /\
          ((Gone /\ inbox = <<"start">>) \/ (Leaving /\ inbox = <<"destroy", "start">>)))
    BY <1>1, <2>1 DEF Busy, Waits
  <2>. QED  BY <1>1, <1>2, <1>4, <2>1, <2>2 DEF AtWork, Waiting
<1>. QED  BY <1>1, <1>3, <1>4 DEF SerialInv

LEMMA OnDestroyStep ==
  ASSUME plan = "serial", SerialInv, OnDestroy
  PROVE  SerialInv' /\ (Off => Off')
<1>1. /\ inbox # << >> /\ Head(inbox) = "destroy" /\ CloseBox(instance) /\ instance' = 0
      /\ inbox' = Tail(inbox)
      /\ UNCHANGED <<stopReason, callback, threads, rust, conn, session, lock, tasks, events,
                     pollers, plan>>
  BY DEF OnDestroy, runtime, bounds
<1>2. /\ Types /\ Leaving
      /\ \/ inbox = <<"destroy">> /\ Off /\ ~Empty
         \/ inbox = <<"destroy", "start">> /\ \E r \in Tasks : Waiting(r)
  BY <1>1, Arrivals, Queues DEF Messages
<1>3. instance \in Instances /\ Bare /\ Free /\ 0 \notin Instances
  BY <1>2, AndroidAssumption DEF Leaving
<1>4. engine[instance] = 0
  BY <1>3 DEF Bare, Owns
<1>5. phase' = "idle" /\ box' = box /\ engine' = engine
  BY <1>1, <1>2, <1>3, <1>4 DEF CloseBox, Types
<1>6. Gone' /\ Types'
  <2>1. Bare'
    BY <1>1, <1>3, <1>5 DEF Bare, Owns, Closed
  <2>. QED  BY <1>1, <1>2, <1>3, <1>5, <2>1 DEF Gone, Free, Types
<1>7. CASE inbox = <<"destroy">> /\ Off /\ ~Empty
  <2>2. Off' /\ ~On /\ ~Running
    BY <1>1, <1>2, <1>3, <1>6, <1>7, Queues, SceneFacts DEF Off, Empty, On, Leaving, Messages
  <2>3. ~Starting(TRUE) /\ ~Starting(FALSE) /\ ~Gone
    BY <1>2, <1>3, SceneFacts DEF Leaving, Gone
  <2>4. CASE AtRest
    <3>1. NoTasks' /\ Unlocked' /\ UNCHANGED <<rust, conn, session, pollers>>
          /\ (Recovers' <=> Recovers) /\ \A kinds : Silent(kinds)' <=> Silent(kinds)
      BY <1>1, <2>4 DEF AtRest, NoTasks, Unlocked, Recovers, Silent
    <3>2. Apart \/ Lost
      BY <1>7, <2>2, <2>4 DEF AtRest, Told, Connected, Asked
    <3>3. Apart' \/ Lost'
      <4>1. CASE Apart
        BY <2>2, <3>1, <4>1 DEF Apart
      <4>2. CASE Lost
        BY <1>1, <2>2, <3>1, <4>2 DEF Lost
      <4>. QED  BY <3>2, <4>1, <4>2
    <3>. QED  BY <1>6, <2>2, <3>1, <3>3 DEF SerialInv, AtRest
  <2>5. CASE AtWork
    <3>1. PICK r \in Tasks : Alone(r) /\ Busy(r)
      BY <2>5 DEF AtWork
    <3>2. /\ Alone(r)' /\ (Unlocked' <=> Unlocked) /\ (Current(r)' <=> Current(r))
          /\ UNCHANGED <<tasks, conn, session, pollers, lock, callback, rust, events>>
      BY <1>1, <3>1 DEF Alone, Unlocked, Current
    <3>3. \/ tasks[r].pc = "consent" /\ Unlocked /\ conn = "connected" /\ session \notin pollers
          \/ tasks[r].pc \in {"stop", "start"} /\ Unlocked /\ Current(r)
          \/ tasks[r].pc = "wait" /\ lock = r /\ Current(r) /\ callback = "error"
          \/ tasks[r].pc = "down" /\ Unlocked /\ conn \in {"down", "connecting"}
      BY <1>7, <2>2, <2>3, <3>1, SceneFacts DEF Busy, Waits
    <3>4. Busy(r)'
      BY <2>2, <3>2, <3>3 DEF Busy, Waits
    <3>. QED  BY <1>6, <2>2, <2>5, <3>2, <3>4, StillSilent DEF SerialInv, AtWork
  <2>. QED  BY <2>4, <2>5 DEF SerialInv
<1>8. CASE inbox = <<"destroy", "start">> /\ \E r \in Tasks : Waiting(r)
  <2>1. PICK r \in Tasks : Waiting(r)
    BY <1>8
  <2>2. inbox' = <<"start">>
    BY <1>1, <1>8, Queues
  <2>3. Alone(r)' /\ Busy(r)' /\ rust' /\ Silent({})'
    BY <1>1, <1>6, <2>1, <2>2, StillSilent DEF Waiting, Alone, Busy, Waits, Current
  <2>4. ~Off
    <3>1. inbox # << >> /\ Head(inbox) = "destroy" /\ Tail(inbox) = <<"start">>
      BY <1>8, Queues
    <3>. QED  BY <3>1, Queues DEF Off, Empty, Messages
  <2>. QED  BY <1>6, <2>3, <2>4 DEF SerialInv, AtWork
<1>. QED  BY <1>2, <1>7, <1>8

(* A thread begins where there is no tunnel.                               *)
LEMMA Launches ==
  ASSUME Types, Gone, NEW i \in Instances, instance' = i, NEW external \in BOOLEAN,
         Launch(i, external), inbox' = << >>,
         UNCHANGED <<tasks, events, session>>
  PROVE  Types' /\ Starting(external)'
<1>1. PICK t \in Threads : t = Least(NewThread)
  <2>1. NewThread # {} /\ NewThread \subseteq Nat /\ NewThread \subseteq Threads
    BY AndroidAssumption DEF Launch, NewThread
  <2>. QED  BY <2>1, LeastNumber
<1> DEFINE new == [pc |-> "read", home |-> i, server |-> 0, external |-> external]
<1>2. /\ phase' = "starting" /\ engine' = engine
      /\ threads' = [threads EXCEPT ![t] = new] /\ box' = [box EXCEPT ![t] = "none"]
  BY <1>1 DEF Launch
<1>3. /\ new \in ThreadType /\ new.pc = "read" /\ new.home = i /\ new.server = 0
      /\ new.external = external
  BY DEF ThreadType
<1> HIDE DEF new
<1>4. Bare'
  BY <1>2 DEF Types, Gone, Bare, Owns, Closed
<1>5. Launching(t, external)'
  BY <1>2, <1>3, <1>4 DEF Launching, Gone, Free, Types
<1>6. Types'
  BY <1>2, <1>3 DEF Types
<1>. QED  BY <1>2, <1>5, <1>6 DEF Starting

(* A tunnel is taken down, and the service ends.                           *)
LEMMA TakenDown ==
  ASSUME Types, Running, CloseBox(instance), inbox' = <<"destroy">>,
         UNCHANGED <<instance, threads, tasks, session>>, events' \in [Kinds -> Nat]
  PROVE  Types' /\ Off' /\ Leaving'
<1>1. instance \in Instances /\ Free /\ \E t \in Threads, state \in {"open", "up"} : Held(t, state)
  BY DEF Running
<1>2. /\ phase' = "idle" /\ Bare'
      /\ engine' \in [Instances -> Threads \cup {0}]
      /\ box' \in [Threads -> {"none", "open", "up", "closed"}]
  BY <1>1, Closing
<1>3. Free'
  BY <1>1 DEF Free
<1>. QED  BY <1>1, <1>2, <1>3 DEF Types, Off, Leaving

(* The event of a stop, and what it makes of Rust's state.                 *)
LEMMA Heard ==
  ASSUME Types, NoTasks, Unlocked, Unheard, NEW kind \in {"user", "revoked", "core"},
         events' = Emit(kind, events), stopReason' = kind,
         UNCHANGED <<rust, conn, session, pollers, tasks, callback, lock>>
  PROVE  /\ events' \in [Kinds -> Nat] /\ Silent({"user", "revoked", "down"})' /\ NoTasks'
         /\ Off' => AtRest'
<1>1. Silent({}) /\ NoTasks' /\ Unlocked'
  BY DEF Unheard, NoTasks, Unlocked
<1>2. CASE kind # "core"
  <2>1. kind \in Kinds
    BY <1>2 DEF Kinds
  <2>2. events' \in [Kinds -> Nat] /\ Silent({kind})' /\ (~rust => Silent({})')
    BY <1>1, <2>1, Emits
  <2>3. Silent({"user", "revoked", "down"})'
    BY <1>2, <2>2 DEF Silent
  <2>4. ~Recovers'
    BY <1>2 DEF Recovers
  <2>. QED  BY <1>1, <2>2, <2>3, <2>4 DEF AtRest, Unheard, Apart, Lost
<1>3. CASE kind = "core"
  <2>1. events' = events
    BY <1>3 DEF Emit, Kinds
  <2>2. Silent({})' /\ Silent({"user", "revoked", "down"})'
    BY <1>1, <2>1 DEF Silent
  <2>. QED  BY <1>1, <2>1, <2>2 DEF AtRest, Unheard, Apart, Lost, Types
<1>. QED  BY <1>2, <1>3

(* A stop on its way arrives.                                              *)
LEMMA StopDelivered ==
  ASSUME Types, NoTasks, Unlocked, Unheard, Running, inbox \in {<<"stop">>, <<"toggle">>}, Deliver
  PROVE  /\ Types' /\ AtRest' /\ Off' /\ ~Recovers' /\ NoTasks'
         /\ Silent({"user", "revoked", "down"})'
<1>1. Head(inbox) \in {"stop", "toggle"} /\ Tail(inbox) = << >>
  BY Queues DEF Messages
<1>2. phase = "running" /\ instance # 0
  BY SceneFacts
<1>3. /\ CloseBox(instance) /\ stopReason' = Reason(instance, "user") /\ inbox' = Ending(<< >>)
      /\ events' = (IF WasUp(instance) THEN Emit("user", events) ELSE events)
      /\ UNCHANGED <<threads, instance>>
  BY <1>1, <1>2 DEF Deliver
<1>4. stopReason' = "user" /\ inbox' = <<"destroy">> /\ events' = Emit("user", events)
  BY <1>2, <1>3, Queues DEF Reason, WasUp
<1>5. UNCHANGED <<rust, conn, session, pollers, tasks, callback, lock>>
  BY DEF Deliver
<1>6. /\ events' \in [Kinds -> Nat] /\ Silent({"user", "revoked", "down"})' /\ NoTasks'
      /\ (Off' => AtRest')
  BY <1>4, <1>5, Heard
<1>7. Types' /\ Off'
  BY <1>3, <1>4, <1>5, <1>6, TakenDown
<1>. QED  BY <1>4, <1>6, <1>7 DEF Recovers

LEMMA DeliverStep == ASSUME plan = "serial", SerialInv, Deliver PROVE SerialInv'
<1> DEFINE i == IF instance = 0 THEN Least(NewInstance) ELSE instance
           Toggled == Head(inbox) = "toggle" /\ phase # "idle"
<1>1. /\ inbox # << >> /\ Head(inbox) # "destroy" /\ instance' = i
      /\ UNCHANGED <<callback, rust, conn, session, lock, tasks, pollers, plan>>
  BY DEF Deliver, bounds
<1>2. \/ Head(inbox) = "start" /\ Launch(i, FALSE) /\ inbox' = Tail(inbox) /\ UNCHANGED events
      \/ /\ Head(inbox) \in {"toggle", "connect"} /\ ~Toggled
         /\ StartFromSaved(i, Tail(inbox)) /\ UNCHANGED events
      \/ /\ Toggled \/ Head(inbox) = "stop"
         /\ CloseBox(i) /\ stopReason' = Reason(i, "user") /\ inbox' = Ending(Tail(inbox))
         /\ events' = IF WasUp(i) THEN Emit("user", events) ELSE events
         /\ UNCHANGED threads
  BY DEF Deliver
<1>3. i \in Instances
  <2>1. CASE instance = 0
    <3>1. NewInstance # {} /\ NewInstance \subseteq Nat /\ NewInstance \subseteq Instances
      BY <2>1, AndroidAssumption DEF Deliver, NewInstance
    <3>. QED  BY <2>1, <3>1, LeastNumber
  <2>2. CASE instance # 0
    BY <1>1, <2>2 DEF SerialInv, Types
  <2>. QED  BY <2>1, <2>2
<1>4. /\ Types
      /\ \/ Gone /\ inbox = <<"start">> /\ \E r \in Tasks : Waiting(r)
         \/ /\ Gone /\ inbox \in {<<"connect">>, <<"toggle">>}
            /\ NoTasks /\ Unlocked /\ conn = "down" /\ Silent({})
         \/ /\ Running /\ inbox \in {<<"stop">>, <<"toggle">>}
            /\ NoTasks /\ Unlocked /\ Unheard
  BY <1>1, Arrivals, Queues DEF Messages
<1>5. \A m \in Messages : Head(<<m>>) = m /\ Tail(<<m>>) = << >>
  BY Queues
<1>6. CASE Gone /\ inbox = <<"start">> /\ \E r \in Tasks : Waiting(r)
  <2>1. PICK r \in Tasks : Waiting(r)
    BY <1>6
  <2>2. Head(inbox) = "start" /\ Tail(inbox) = << >>
    BY <1>5, <1>6 DEF Messages
  <2>3. Launch(i, FALSE) /\ inbox' = << >> /\ UNCHANGED events
    BY <1>2, <2>2
  <2> HIDE DEF i
  <2>4. Types' /\ Starting(FALSE)'
    BY <1>1, <1>3, <1>4, <1>6, <2>3, Launches
  <2>5. Alone(r)' /\ Busy(r)' /\ rust' /\ Silent({})'
    BY <1>1, <2>1, <2>3, <2>4, StillSilent DEF Waiting, Alone, Busy, Waits, Current
  <2>. QED  BY <2>4, <2>5 DEF SerialInv, AtWork
<1>7. CASE /\ Gone /\ inbox \in {<<"connect">>, <<"toggle">>}
           /\ NoTasks /\ Unlocked /\ conn = "down" /\ Silent({})
  <2>1. Head(inbox) \in {"connect", "toggle"} /\ Tail(inbox) = << >>
    BY <1>5, <1>7 DEF Messages
  <2>2. phase = "idle"
    BY <1>7 DEF Gone
  <2>3. StartFromSaved(i, << >>) /\ UNCHANGED events
    BY <1>2, <2>1, <2>2
  <2> HIDE DEF i
  <2>4. NoTasks' /\ Unlocked' /\ conn' = "down" /\ Silent({})'
    BY <1>1, <1>7, <2>3, StillSilent DEF NoTasks, Unlocked
  <2>5. CASE Launch(i, TRUE) /\ inbox' = << >>
    <3>1. Types' /\ Starting(TRUE)'
      BY <1>1, <1>3, <1>4, <1>7, <2>3, <2>5, Launches
    <3>. QED  BY <2>4, <3>1 DEF SerialInv, AtRest, Apart
  <2>6. CASE inbox' = Ending(<< >>) /\ UNCHANGED <<phase, engine, box, threads>>
    <3>1. inbox' = <<"destroy">>
      BY <2>6, Queues
    <3>2. Bare'
      BY <1>1, <1>3, <1>4, <1>7, <2>6 DEF Types, Gone, Bare, Owns, Closed
    <3>3. Off' /\ Types'
      BY <1>1, <1>3, <1>4, <1>7, <2>3, <2>6, <3>1, <3>2 DEF Off, Leaving, Gone, Free, Types
    <3>. QED  BY <2>4, <3>3 DEF SerialInv, AtRest, Apart
  <2>. QED  BY <2>2, <2>3, <2>5, <2>6 DEF StartFromSaved
<1>8. CASE Running /\ inbox \in {<<"stop">>, <<"toggle">>} /\ NoTasks /\ Unlocked /\ Unheard
  BY <1>1, <1>4, <1>8, StopDelivered DEF SerialInv
<1>. QED  BY <1>4, <1>6, <1>7, <1>8

-----------------------------------------------------------------------------
(* The events and the poller of Rust.                                      *)

LEMMA TakeFacts ==
  ASSUME Types, NEW kind \in Kinds, Take(kind)
  PROVE  /\ events[kind] > 0 /\ events' \in [Kinds -> Nat] /\ events'[kind] = events[kind] - 1
         /\ \A other \in Kinds \ {kind} : events'[other] = events[other]
<1>1. events \in [Kinds -> Nat] /\ events[kind] \in Nat /\ events[kind] > 0
  BY DEF Types, Take
<1>2. events' = [events EXCEPT ![kind] = events[kind] - 1] /\ events[kind] - 1 \in Nat
  BY <1>1 DEF Take
<1>. QED  BY <1>1, <1>2

(* A task is born of an event or of a click.                               *)
LEMMA Born ==
  ASSUME Types, NoTasks, NEW pc \in Pcs, Spawn(pc), UNCHANGED kotlin, session' = session,
         events' \in [Kinds -> Nat], Silent({})', rust',
         \A r \in Tasks : tasks'[r].pc = pc => Busy(r)'
  PROVE  Types' /\ AtWork'
<1>1. tasks' \in [Tasks -> TaskType] /\ \E r \in Tasks : Alone(r)' /\ tasks'[r].pc = pc
  BY TasksSpawn
<1>2. Types'
  BY <1>1 DEF Types, kotlin
<1>. QED  BY <1>1, <1>2 DEF AtWork

LEMMA HandleStartedStep == ASSUME plan = "serial", SerialInv, HandleStarted PROVE SerialInv'
<1>1. /\ Take("started") /\ Spawn("adopt") /\ "adopt" \in Pcs
      /\ UNCHANGED <<kotlin, rust, conn, session, lock, plan>>
  BY DEF HandleStarted, bounds, Pcs
<1>2. /\ Types /\ events["started"] > 0 /\ events' \in [Kinds -> Nat]
      /\ events'["started"] = events["started"] - 1
      /\ \A other \in Kinds \ {"started"} : events'[other] = events[other]
  BY <1>1, TakeFacts DEF SerialInv, Kinds
<1>3. \A kinds : Silent(kinds) => "started" \in kinds
  BY <1>2 DEF Silent, Kinds
<1>4. NoTasks /\ Unlocked /\ Told
  BY <1>3 DEF SerialInv, AtWork, AtRest, Apart, Connected, Lost, Asked
<1>5. Silent({})'
  BY <1>2, <1>4 DEF Told, Silent
<1>6. On' /\ Unlocked' /\ conn' = "down" /\ rust'
  BY <1>1, <1>4, Frame DEF kotlin, Told, Unlocked
<1>7. \A r \in Tasks : tasks'[r].pc = "adopt" => Busy(r)'
  BY <1>6 DEF Busy
<1>8. Types' /\ AtWork'
  BY <1>1, <1>2, <1>4, <1>5, <1>6, <1>7, Born
<1>. QED  BY <1>8 DEF SerialInv

LEMMA HandleStoppedStep ==
  ASSUME plan = "serial", SerialInv, NEW reason \in {"user", "revoked"}, HandleStopped(reason)
  PROVE  SerialInv' /\ Silent({"user", "revoked", "down"})' /\ (On => events'["down"] = events["down"])
<1> DEFINE more == IF Live THEN 1 ELSE 0
<1>1. /\ events[reason] > 0
      /\ events' = [events EXCEPT ![reason] = events[reason] - 1, !["down"] = events["down"] + more]
      /\ UNCHANGED <<kotlin, rust, conn, session, lock, tasks, pollers, plan>>
  BY DEF HandleStopped, bounds, Kinds
<1>2. Types /\ reason \in Kinds /\ "down" \in Kinds /\ more \in Nat
  BY DEF SerialInv, Kinds
<1> HIDE DEF more
<1>3. events[reason] \in Nat /\ events["down"] \in Nat
  BY <1>2 DEF Types
<1>4. /\ events' \in [Kinds -> Nat] /\ events'["down"] = events["down"] + more
      /\ \A other \in Kinds \ {"user", "revoked", "down"} : events'[other] = events[other]
  BY <1>1, <1>2, <1>3 DEF Types
<1>5. \A kinds : Silent(kinds) => reason \in kinds
  BY <1>1, <1>2 DEF Silent
<1>6. NoTasks /\ Unlocked /\ Lost
  BY <1>5 DEF SerialInv, AtWork, AtRest, Apart, Told, Connected, Asked
<1>7. Silent({"user", "revoked", "down"})' /\ ~Silent({})
  BY <1>4, <1>5, <1>6 DEF Silent, Lost
<1>8. Off' /\ NoTasks' /\ Unlocked' /\ (Recovers' <=> Recovers) /\ Types'
  BY <1>1, <1>2, <1>4, <1>6, Frame DEF kotlin, Lost, NoTasks, Unlocked, Recovers, Types
<1>9. Lost'
  BY <1>1, <1>2, <1>3, <1>4, <1>6, <1>7, <1>8 DEF Lost
<1>10. ~On
  BY <1>6, SceneFacts, <1>2 DEF Lost
<1>. QED  BY <1>7, <1>8, <1>9, <1>10 DEF SerialInv, AtRest

LEMMA HandleRequestStep == ASSUME plan = "serial", SerialInv, HandleRequest PROVE SerialInv'
<1>1. /\ Take("request") /\ IF Live THEN UNCHANGED tasks ELSE Spawn("shortcut")
      /\ "shortcut" \in Pcs
      /\ UNCHANGED <<kotlin, rust, conn, session, lock, pollers, plan>>
  BY DEF HandleRequest, bounds, Pcs
<1>2. /\ Types /\ events["request"] > 0 /\ events' \in [Kinds -> Nat]
      /\ events'["request"] = events["request"] - 1
      /\ \A other \in Kinds \ {"request"} : events'[other] = events[other]
  BY <1>1, TakeFacts DEF SerialInv, Kinds
<1>3. \A kinds : Silent(kinds) => "request" \in kinds
  BY <1>2 DEF Silent, Kinds
<1>4. NoTasks /\ Unlocked /\ ((Connected /\ Silent({"request"}) /\ inbox = << >>) \/ Asked)
  BY <1>3 DEF SerialInv, AtWork, AtRest, Apart, Told, Connected, Lost
<1>5. CASE Connected /\ Silent({"request"}) /\ inbox = << >>
  <2>1. UNCHANGED tasks /\ Silent({"request"})'
    BY <1>1, <1>2, <1>5 DEF Connected, Live, Silent
  <2>2. Running' /\ inbox' = << >>
    BY <1>1, <1>5, Frame DEF kotlin, Connected
  <2>3. Connected'
    BY <1>1, <1>5, <2>1, <2>2 DEF Connected
  <2>. QED  BY <1>1, <1>2, <1>4, <2>1, <2>3 DEF SerialInv, AtRest, NoTasks, Unlocked, Types, kotlin
<1>6. CASE Asked
  <2>1. Spawn("shortcut") /\ Silent({})'
    BY <1>1, <1>2, <1>6 DEF Asked, Live, Silent
  <2>2. Empty' /\ Unlocked' /\ conn' = "down" /\ rust'
    BY <1>1, <1>4, <1>6, Frame DEF kotlin, Asked, Unlocked
  <2>3. \A r \in Tasks : tasks'[r].pc = "shortcut" => Busy(r)'
    BY <2>2 DEF Busy
  <2>4. Types' /\ AtWork'
    BY <1>1, <1>2, <1>4, <2>1, <2>2, <2>3, Born
  <2>. QED  BY <2>4 DEF SerialInv
<1>. QED  BY <1>4, <1>5, <1>6

LEMMA ShutDownStep ==
  ASSUME plan = "serial", SerialInv, ShutDown
  PROVE  SerialInv' /\ Off' /\ conn' = "down" /\ NoTasks' /\ Silent({"user", "revoked", "down"})'
<1>1. Take("down") /\ Shutdown /\ UNCHANGED <<tasks, plan>>
  BY DEF ShutDown, Shutdown, bounds
<1>2. /\ Types /\ events["down"] > 0 /\ events' \in [Kinds -> Nat]
      /\ \A other \in Kinds \ {"down"} : events'[other] = events[other]
  BY <1>1, TakeFacts DEF SerialInv, Kinds
<1>3. \A kinds : Silent(kinds) => "down" \in kinds
  BY <1>2 DEF Silent, Kinds
<1>4. NoTasks /\ Unlocked /\ ((Connected /\ Silent({"down"}) /\ inbox = << >>) \/ Lost)
  BY <1>3 DEF SerialInv, AtWork, AtRest, Apart, Told, Connected, Asked
<1>5. rust /\ (Off \/ On) /\ Silent({"user", "revoked", "down"})
  BY <1>4 DEF Connected, Lost, On, Silent
<1>6. Types' /\ Off' /\ conn' = "down" /\ Unlocked' /\ rust'
  BY <1>1, <1>2, <1>4, <1>5, Shuts DEF Types
<1>7. NoTasks' /\ Silent({"user", "revoked", "down"})'
  BY <1>1, <1>2, <1>4, <1>5 DEF NoTasks, Silent
<1>. QED  BY <1>6, <1>7 DEF SerialInv, AtRest, Lost

LEMMA PollerEndsStep ==
  ASSUME plan = "serial", SerialInv, NEW s \in pollers, PollerEnds(s)
  PROVE  SerialInv'
<1>1. /\ ~Ours(s) /\ pollers' = pollers \ {s} /\ Ashore
      /\ UNCHANGED <<conn, session, lock, tasks, callback, stopReason>>
  BY DEF PollerEnds, kotlin, bounds, Ashore
<1>2. Types' /\ \A kinds : Silent(kinds)' <=> Silent(kinds)
  BY <1>1 DEF SerialInv, Types, Silent, Ashore
<1>3. conn = "connected" => (session \in pollers <=> session \in pollers')
  BY <1>1 DEF Ours
<1>4. /\ (Unlocked' <=> Unlocked) /\ (NoTasks' <=> NoTasks) /\ (Recovers' <=> Recovers)
      /\ \A r \in Tasks : (Alone(r)' <=> Alone(r)) /\ (Current(r)' <=> Current(r))
  BY <1>1 DEF Unlocked, NoTasks, Recovers, Alone, Current
<1>5. /\ UNCHANGED <<phase, instance, inbox, engine, box, threads, rust, events>>
      /\ (Off' <=> Off) /\ (Empty' <=> Empty) /\ (On' <=> On) /\ (Running' <=> Running)
      /\ (Gone' <=> Gone) /\ (Leaving' <=> Leaving)
      /\ (Starting(TRUE)' <=> Starting(TRUE)) /\ (Starting(FALSE)' <=> Starting(FALSE))
  BY <1>1, Frame DEF Ashore
<1>6. CASE AtRest
  <2>1. /\ (Apart' <=> Apart) /\ (Told' <=> Told) /\ (Asked' <=> Asked)
        /\ (Connected => Connected') /\ (Lost => Lost')
    BY <1>1, <1>2, <1>3, <1>4, <1>5 DEF Apart, Told, Connected, Lost, Asked
  <2>. QED  BY <1>2, <1>4, <1>6, <2>1 DEF SerialInv, AtRest
<1>7. CASE AtWork
  <2>1. PICK r \in Tasks : Alone(r) /\ Busy(r)
    BY <1>7 DEF AtWork
  <2>2. Waits' <=> Waits
    BY <1>1, <1>5 DEF Waits
  <2>3. Busy(r)'
    BY <1>1, <1>3, <1>4, <1>5, <2>1, <2>2 DEF Busy
  <2>. QED  BY <1>2, <1>4, <1>5, <1>7, <2>1, <2>3 DEF SerialInv, AtWork
<1>. QED  BY <1>6, <1>7 DEF SerialInv

LEMMA HandleCoreDeathStep ==
  ASSUME plan = "serial", SerialInv, NEW s \in pollers, HandleCoreDeath(s)
  PROVE  /\ SerialInv' /\ Off' /\ session \in pollers /\ session \notin pollers'
         /\ ~Recovers => NoTasks' /\ Silent({"user", "revoked", "down"})'
<1>1. /\ session = s /\ conn = "connected" /\ Up = {} /\ phase # "running"
      /\ session \in pollers /\ pollers' = pollers \ {session}
      /\ \/ Recovers /\ Spawn("consent") /\ UNCHANGED events
         \/ events' = [events EXCEPT !["down"] = @ + 1] /\ UNCHANGED tasks
      /\ UNCHANGED <<kotlin, rust, conn, session, lock, plan>>
  BY DEF HandleCoreDeath, Ours, Dead, bounds
<1>2. /\ Types /\ UNCHANGED <<phase, callback, instance, inbox, engine, box, threads>>
      /\ "consent" \in Pcs
  BY <1>1 DEF SerialInv, kotlin, Pcs
<1>3. NoTasks /\ Unlocked /\ Lost
  <2>1. ~Connected /\ ~Apart /\ ~Told /\ ~Asked
    BY <1>1, <1>2, SceneFacts DEF Connected, Apart, Told, Asked
  <2>2. \A r \in Tasks : ~Busy(r)
    BY <1>1 DEF Busy, Current
  <2>. QED  BY <2>1, <2>2 DEF SerialInv, AtRest, AtWork
<1>4. Off' /\ Unlocked' /\ rust' /\ conn' = "connected" /\ session \notin pollers' /\ session' = session
  BY <1>1, <1>2, <1>3, Frame DEF Lost, Unlocked
<1>5. CASE Recovers /\ Spawn("consent") /\ UNCHANGED events
  <2>1. Silent({})'
    BY <1>1, <1>3, <1>5, StillSilent DEF Lost
  <2>2. \A r \in Tasks : tasks'[r].pc = "consent" => Busy(r)'
    BY <1>4 DEF Busy
  <2>3. Types' /\ AtWork'
    BY <1>1, <1>2, <1>3, <1>4, <1>5, <2>1, <2>2, Born DEF Types
  <2>. QED  BY <1>1, <1>4, <1>5, <2>3 DEF SerialInv
<1>6. CASE events' = [events EXCEPT !["down"] = @ + 1] /\ UNCHANGED tasks
  <2>1. "down" \in Kinds /\ events["down"] \in Nat
    BY <1>2 DEF Types, Kinds
  <2>2. /\ events' \in [Kinds -> Nat] /\ events'["down"] > 0
        /\ \A other \in Kinds \ {"down"} : events'[other] = events[other]
    BY <1>2, <1>6, <2>1 DEF Types
  <2>3. NoTasks' /\ Types' /\ Silent({"user", "revoked", "down"})'
    BY <1>1, <1>2, <1>3, <1>6, <2>2 DEF NoTasks, Types, Silent, Lost
  <2>. QED  BY <1>1, <1>4, <2>2, <2>3 DEF SerialInv, AtRest, Lost
<1>. QED  BY <1>1, <1>5, <1>6

-----------------------------------------------------------------------------
(* The user and the system, who act at rest.                               *)

LEMMA RestFacts ==
  ASSUME plan = "serial", SerialInv, Quiet
  PROVE  /\ Types /\ NoTasks /\ Unlocked /\ Silent({}) /\ inbox = << >>
         /\ \/ conn = "down" /\ Empty
            \/ conn = "down" /\ ~rust /\ On
            \/ rust /\ conn = "connected" /\ session \in pollers /\ On
<1>1. inbox = << >> /\ NoTasks /\ Silent({}) /\ Free /\ (\A s \in pollers : Ours(s) /\ ~Dead)
  BY DEF Quiet, NoTasks, Silent, Free
<1>2. Types /\ AtRest
  <2>1. \A r \in Tasks : ~Busy(r)
    BY <1>1 DEF Busy, NoTasks, NoTask
  <2>. QED  BY <2>1 DEF SerialInv, AtWork
<1>3. Off => Empty /\ Up = {} /\ phase = "idle"
  BY <1>1, <1>2, SceneFacts, Queues DEF Off, Messages
<1>4. \A external \in BOOLEAN : ~Starting(external)
  BY <1>1, <1>2, SceneFacts
<1>5. ~Told /\ ~Asked
  BY <1>1 DEF Told, Asked, Silent, Kinds
<1>6. Lost => conn = "down" /\ Empty
  BY <1>1, <1>3 DEF Lost, Dead, Silent, Kinds
<1>7. Apart => conn = "down" /\ (Empty \/ (~rust /\ On))
  BY <1>1, <1>3, <1>4, Queues DEF Apart, On, Messages
<1>8. Connected => rust /\ conn = "connected" /\ session \in pollers /\ On
  BY <1>1 DEF Connected, On
<1>. QED  BY <1>1, <1>2, <1>5, <1>6, <1>7, <1>8 DEF AtRest

LEMMA ActFacts ==
  ASSUME plan = "serial", NEW what, Act(what)
  PROVE  Quiet /\ plan' = "serial" /\ wish' = what
  BY DEF Act

LEMMA UserConnectsStep ==
  ASSUME plan = "serial", SerialInv, UserConnects PROVE SerialInv' /\ wish' = "any"
<1>1. /\ Quiet /\ wish' = "any" /\ rust /\ ~Live /\ Spawn("consent") /\ "consent" \in Pcs
      /\ UNCHANGED <<kotlin, rust, conn, session, lock, events>>
  BY ActFacts DEF UserConnects, Pcs
<1>2. Types /\ NoTasks /\ Unlocked /\ Silent({}) /\ conn = "down" /\ Empty
  BY <1>1, RestFacts DEF Live
<1>3. Empty' /\ Unlocked' /\ Silent({})' /\ conn' = "down" /\ rust'
  BY <1>1, <1>2, Frame, StillSilent DEF kotlin, Unlocked
<1>4. \A r \in Tasks : tasks'[r].pc = "consent" => Busy(r)'
  BY <1>3 DEF Busy
<1>5. Types' /\ AtWork'
  BY <1>1, <1>2, <1>3, <1>4, Born DEF Types
<1>. QED  BY <1>1, <1>5 DEF SerialInv

LEMMA UserDisconnectsStep ==
  ASSUME plan = "serial", SerialInv, UserDisconnects
  PROVE  /\ SerialInv' /\ wish' = "down" /\ NoTasks' /\ Silent({"down"})'
         /\ Running' /\ events'["down"] > 0
<1>1. /\ Quiet /\ wish' = "down" /\ rust /\ Live
      /\ events' = [events EXCEPT !["down"] = @ + 1]
      /\ UNCHANGED <<kotlin, rust, conn, session, lock, tasks, pollers>>
  BY ActFacts DEF UserDisconnects
<1>2. /\ Types /\ NoTasks /\ Unlocked /\ Silent({}) /\ conn = "connected"
      /\ session \in pollers /\ On /\ "down" \in Kinds
  BY <1>1, RestFacts DEF Live, Kinds
<1>3. events["down"] = 0 /\ events \in [Kinds -> Nat]
  BY <1>2 DEF Silent, Types
<1>4. events' \in [Kinds -> Nat] /\ Silent({"down"})' /\ events'["down"] > 0
  BY <1>1, <1>2, <1>3 DEF Silent
<1>5. Running' /\ inbox' = << >> /\ NoTasks' /\ Unlocked' /\ Types'
  BY <1>1, <1>2, <1>4, Frame DEF kotlin, On, NoTasks, Unlocked, Types
<1>6. Connected'
  BY <1>1, <1>2, <1>4, <1>5 DEF Connected
<1>. QED  BY <1>1, <1>4, <1>5, <1>6 DEF SerialInv, AtRest

LEMMA OutsideStep ==
  ASSUME plan = "serial", SerialInv, Outside
  PROVE  /\ SerialInv'
         /\ wish' = "any" \/ (wish' = "down" /\ NoTasks' /\ Silent({})' /\ Running' /\ inbox' # << >>)
<1>1. PICK message \in {"toggle", "connect", "stop"} :
        /\ Send(message) /\ (message = "connect" => phase = "idle")
        /\ (message = "stop" => instance # 0)
  BY DEF Outside
<1>2. /\ Quiet /\ inbox' = Append(inbox, message)
      /\ wish' = IF message = "stop" \/ (message = "toggle" /\ phase # "idle") THEN "down" ELSE "any"
      /\ UNCHANGED <<phase, callback, instance, engine, box, threads>>
      /\ UNCHANGED <<rust, conn, session, lock, tasks, events, pollers>>
  BY <1>1, ActFacts DEF Send, runtime
<1>3. Types /\ NoTasks /\ Unlocked /\ Silent({}) /\ inbox = << >>
  BY <1>2, RestFacts
<1>4. inbox' = <<message>> /\ inbox' # << >>
  BY <1>2, <1>3, Queues DEF Messages
<1>5. Types' /\ NoTasks' /\ Unlocked' /\ Silent({})'
  BY <1>2, <1>3, StillSilent DEF Types, NoTasks, Unlocked
<1>6. (Gone' <=> Gone) /\ (Running' <=> Running)
  BY <1>2 DEF Gone, Running, Bare, Held, Owns, Closed, Free
<1>7. CASE conn = "down" /\ Empty
  <2>1. message # "stop" /\ Gone /\ phase = "idle"
    BY <1>1, <1>3, <1>7, SceneFacts DEF Gone
  <2>2. Apart'
    BY <1>2, <1>4, <1>5, <1>6, <1>7, <2>1 DEF Apart
  <2>. QED  BY <1>2, <1>5, <2>1, <2>2 DEF SerialInv, AtRest
<1>8. CASE On
  <2>1. message # "connect" /\ Running /\ phase = "running"
    BY <1>1, <1>3, <1>8, SceneFacts
  <2>2. wish' = "down"
    BY <1>1, <1>2, <2>1
  <2>3. \/ conn = "down" /\ ~rust
        \/ rust /\ conn = "connected" /\ session \in pollers
    BY <1>2, <1>3, <1>8, <2>1, SceneFacts, RestFacts
  <2>4. Apart' \/ Connected'
    BY <1>1, <1>2, <1>4, <1>5, <1>6, <2>1, <2>3 DEF Apart, Connected
  <2>. QED  BY <1>4, <1>5, <1>6, <2>1, <2>2, <2>4 DEF SerialInv, AtRest
<1>. QED  BY <1>2, <1>7, <1>8, RestFacts

LEMMA RequestStep ==
  ASSUME plan = "serial", SerialInv, Request PROVE SerialInv' /\ wish' = "any"
<1>1. /\ Quiet /\ wish' = "any" /\ rust /\ events' = Emit("request", events)
      /\ UNCHANGED <<kotlin, rust, conn, session, lock, tasks, pollers>>
  BY ActFacts DEF Request
<1>2. Types /\ NoTasks /\ Unlocked /\ Silent({}) /\ inbox = << >> /\ "request" \in Kinds
  BY <1>1, RestFacts DEF Kinds
<1>3. events' \in [Kinds -> Nat] /\ Silent({"request"})' /\ events'["request"] = 1
  BY <1>1, <1>2, Emits
<1>4. /\ Types' /\ NoTasks' /\ Unlocked' /\ inbox' = << >>
      /\ (Empty' <=> Empty) /\ (Running' <=> Running)
  BY <1>1, <1>2, <1>3, Frame DEF Types, kotlin, NoTasks, Unlocked
<1>5. (conn = "down" /\ Empty) \/ (conn = "connected" /\ session \in pollers /\ Running)
  BY <1>1, RestFacts DEF On
<1>6. Asked' \/ Connected'
  BY <1>1, <1>3, <1>4, <1>5 DEF Asked, Connected
<1>. QED  BY <1>1, <1>4, <1>6 DEF SerialInv, AtRest

LEMMA StoppedStep ==
  ASSUME plan = "serial", SerialInv, NEW reason \in {"user", "revoked", "core"}, Stopped(reason)
  PROVE  /\ SerialInv' /\ Off' /\ NoTasks' /\ Silent({"user", "revoked", "down"})'
         /\ reason # "core" => ~Recovers'
         /\ reason = "core" => wish' = "any"
<1>1. /\ Quiet /\ wish' = (IF reason = "core" THEN "any" ELSE "down")
      /\ instance # 0 /\ StopTunnel(instance, reason, inbox)
      /\ UNCHANGED <<callback, instance, threads, rust, conn, session, lock, tasks, pollers>>
  BY ActFacts DEF Stopped
<1>2. Types /\ NoTasks /\ Unlocked /\ inbox = << >> /\ Running /\ Unheard /\ phase = "running"
  BY <1>1, RestFacts, SceneFacts DEF On, Unheard
<1>3. /\ CloseBox(instance) /\ stopReason' = reason /\ inbox' = <<"destroy">>
      /\ events' = Emit(reason, events)
  BY <1>1, <1>2, Queues DEF StopTunnel, Reason, WasUp, StopSelf
<1>4. /\ events' \in [Kinds -> Nat] /\ Silent({"user", "revoked", "down"})' /\ NoTasks'
      /\ (Off' => AtRest')
  BY <1>1, <1>2, <1>3, Heard
<1>5. Types' /\ Off'
  BY <1>1, <1>2, <1>3, <1>4, TakenDown
<1>. QED  BY <1>1, <1>3, <1>4, <1>5 DEF SerialInv, Recovers

LEMMA KilledStep == ASSUME plan = "serial", SerialInv, Killed PROVE SerialInv' /\ wish' = "any"
<1>1. /\ wish' = "any" /\ phase' = "idle" /\ callback' = "none" /\ instance' = 0
      /\ inbox' \in {<<"connect">>, << >>}
      /\ engine' = [i \in Instances |-> 0] /\ box' = [t \in Threads |-> "none"]
      /\ threads' = [t \in Threads |-> NoThread]
      /\ rust' = FALSE /\ conn' = "down" /\ session' = 0 /\ lock' = 0
      /\ tasks' = [r \in Tasks |-> NoTask] /\ events' = [kind \in Kinds |-> 0]
  BY ActFacts DEF Killed
<1>2. NoThread \in ThreadType /\ NoTask \in TaskType
  BY DEF NoThread, ThreadType, NoTask, TaskType, Pcs
<1>3. Types'
  BY <1>1, <1>2 DEF Types
<1>4. Bare' /\ Free'
  BY <1>1 DEF Bare, Owns, Closed, Free
<1>5. Gone' /\ Silent({})' /\ NoTasks' /\ Unlocked'
  BY <1>1, <1>4 DEF Gone, Silent, NoTasks, Unlocked
<1>6. Apart'
  BY <1>1, <1>5 DEF Apart, Off, Empty
<1>. QED  BY <1>1, <1>3, <1>5, <1>6 DEF SerialInv, AtRest

LEMMA OpenAppStep == ASSUME plan = "serial", SerialInv, OpenApp PROVE SerialInv' /\ wish' = "any"
<1>1. /\ Quiet /\ wish' = "any" /\ ~rust /\ rust' /\ Spawn("adopt") /\ "adopt" \in Pcs
      /\ UNCHANGED <<kotlin, conn, session, lock, events>>
  BY ActFacts DEF OpenApp, Pcs
<1>2. Types /\ NoTasks /\ Unlocked /\ Silent({}) /\ conn = "down" /\ (Empty \/ On)
  BY <1>1, RestFacts
<1>3. (Empty \/ On)' /\ Unlocked' /\ Silent({})' /\ conn' = "down"
  BY <1>1, <1>2, Frame, StillSilent DEF kotlin, Unlocked
<1>4. \A r \in Tasks : tasks'[r].pc = "adopt" => Busy(r)'
  BY <1>3 DEF Busy
<1>5. Types' /\ AtWork'
  BY <1>1, <1>2, <1>3, <1>4, Born DEF Types
<1>. QED  BY <1>1, <1>5 DEF SerialInv

-----------------------------------------------------------------------------
(* The invariant.                                                          *)

LEMMA InitSerial == Init => SerialInv
<1> SUFFICES ASSUME Init PROVE Types /\ AtRest
  BY DEF SerialInv
<1>1. PICK up \in BOOLEAN :
        /\ phase = (IF up THEN "running" ELSE "idle")
        /\ conn = (IF up THEN "connected" ELSE "down")
        /\ instance = (IF up THEN 1 ELSE 0)
        /\ session = instance /\ pollers = {session} \ {0}
        /\ engine = [i \in Instances |-> IF up /\ i = 1 THEN 1 ELSE 0]
        /\ box = [t \in Threads |-> IF up /\ t = 1 THEN "up" ELSE "none"]
        /\ rust \in {TRUE, up}
  BY DEF Init
<1>2. /\ inbox = << >> /\ Unlocked /\ Free /\ NoTasks /\ Silent({})
      /\ threads = [t \in Threads |-> NoThread] /\ tasks = [r \in Tasks |-> NoTask]
      /\ events = [kind \in Kinds |-> 0]
  BY DEF Init, Unlocked, Free, NoTasks, Silent
<1>3. 1 \in Threads /\ 1 \in Instances /\ 0 \notin Instances
  BY AndroidAssumption
<1>4. NoThread \in ThreadType /\ NoTask \in TaskType
  BY DEF NoThread, ThreadType, NoTask, TaskType, Pcs
<1>5. Types
  BY <1>1, <1>2, <1>3, <1>4 DEF Types
<1>6. CASE up
  <2>1. Held(1, "up")
    BY <1>1, <1>3, <1>6 DEF Held, Owns, Closed
  <2>2. Running
    BY <1>1, <1>2, <1>3, <1>6, <2>1 DEF Running
  <2>3. rust /\ conn = "connected" /\ session \in pollers
    BY <1>1, <1>3, <1>6
  <2>. QED  BY <1>2, <1>5, <2>2, <2>3 DEF AtRest, Connected
<1>7. CASE ~up
  <2>1. Bare
    BY <1>1, <1>3, <1>7 DEF Bare, Owns, Closed
  <2>. QED  BY <1>1, <1>2, <1>5, <1>7, <2>1 DEF AtRest, Apart, Off, Empty, Gone
<1>. QED  BY <1>6, <1>7

LEMMA PlanStays == [Next]_vars => plan' = plan
<1> SUFFICES ASSUME [Next]_vars PROVE plan' = plan
  OBVIOUS
<1>1. CASE Service
  BY <1>1 DEF Service, Deliver, OnDestroy, bounds
<1>2. CASE Events
  BY <1>2 DEF Events, HandleStarted, HandleStopped, HandleRequest, ShutDown, Shutdown, bounds
<1>3. CASE Poller
  BY <1>3 DEF Poller, PollerEnds, HandleCoreDeath, bounds
<1>4. CASE World
  BY <1>4 DEF World, UserConnects, UserDisconnects, Outside, Send, Request, Stopped, Killed,
              OpenApp, Act
<1>5. ASSUME NEW t \in Threads, Thread(t) PROVE plan' = plan
  BY <1>5 DEF Thread, ReadConfig, MakeServer, Begin, CameUp, FailedToStart, bounds
<1>6. ASSUME NEW r \in Tasks, Task(r) PROVE plan' = plan
  BY <1>6 DEF Task, Consent, StopOld, Start, Answered, AwaitPanel, AttachSession, GiveUp,
              Shutdown, Adopt, Compare, Probe, bounds
<1>7. CASE UNCHANGED vars
  BY <1>7 DEF vars, bounds
<1>. QED  BY <1>1, <1>2, <1>3, <1>4, <1>5, <1>6, <1>7 DEF Next

LEMMA WorldStep == ASSUME plan = "serial", SerialInv, World PROVE SerialInv'
<1>1. ASSUME NEW reason \in {"user", "revoked", "core"}, Stopped(reason) PROVE SerialInv'
  BY <1>1, StoppedStep
<1>. QED  BY <1>1, UserConnectsStep, UserDisconnectsStep, OutsideStep, RequestStep, KilledStep,
             OpenAppStep DEF World

LEMMA EventsStep == ASSUME plan = "serial", SerialInv, Events PROVE SerialInv'
<1>1. ASSUME NEW reason \in {"user", "revoked"}, HandleStopped(reason) PROVE SerialInv'
  BY <1>1, HandleStoppedStep
<1>. QED  BY <1>1, HandleStartedStep, HandleRequestStep, ShutDownStep DEF Events

LEMMA PollerStep == ASSUME plan = "serial", SerialInv, Poller PROVE SerialInv'
<1>1. PICK s \in pollers : PollerEnds(s) \/ HandleCoreDeath(s)
  BY DEF Poller
<1>. QED  BY <1>1, PollerEndsStep, HandleCoreDeathStep

(* Scenes, tasks and events are state; nothing else is needed of a stutter.*)
LEMMA SerialStutters == ASSUME SerialInv, UNCHANGED vars PROVE SerialInv'
<1>1. /\ UNCHANGED <<phase, stopReason, callback, instance, inbox, engine, box, threads>>
      /\ UNCHANGED <<rust, conn, session, lock, tasks, events, pollers, plan>>
  BY DEF vars, kotlin, runtime, bounds
<1>2. Types' <=> Types
  BY <1>1 DEF Types
<1>3. /\ (Unlocked' <=> Unlocked) /\ (NoTasks' <=> NoTasks) /\ (Recovers' <=> Recovers)
      /\ \A kinds : Silent(kinds)' <=> Silent(kinds)
      /\ \A r \in Tasks : (Alone(r)' <=> Alone(r)) /\ (Current(r)' <=> Current(r))
  BY <1>1 DEF Unlocked, NoTasks, Recovers, Silent, Alone, Current
<1>4. /\ (Off' <=> Off) /\ (Empty' <=> Empty) /\ (On' <=> On) /\ (Running' <=> Running)
      /\ (Gone' <=> Gone) /\ (Leaving' <=> Leaving)
      /\ (Starting(TRUE)' <=> Starting(TRUE)) /\ (Starting(FALSE)' <=> Starting(FALSE))
  BY <1>1, Frame
<1>5. /\ (Apart' <=> Apart) /\ (Told' <=> Told) /\ (Connected' <=> Connected)
      /\ (Lost' <=> Lost) /\ (Asked' <=> Asked)
  BY <1>1, <1>3, <1>4 DEF Apart, Told, Connected, Lost, Asked
<1>6. Waits' <=> Waits
  BY <1>1, <1>4 DEF Waits
<1>7. \A r \in Tasks : Busy(r)' <=> Busy(r)
  BY <1>1, <1>3, <1>4, <1>6 DEF Busy
<1>8. (AtRest' <=> AtRest) /\ (AtWork' <=> AtWork)
  BY <1>1, <1>3, <1>5, <1>7 DEF AtRest, AtWork
<1>. QED  BY <1>1, <1>2, <1>8 DEF SerialInv

LEMMA SerialStep == SerialInv /\ [Next]_vars => SerialInv'
<1> SUFFICES ASSUME SerialInv, [Next]_vars PROVE SerialInv'
  OBVIOUS
<1>1. CASE plan # "serial"
  BY <1>1, PlanStays DEF SerialInv
<1>2. CASE plan = "serial"
  <2>1. CASE Service
    BY <1>2, <2>1, DeliverStep, OnDestroyStep DEF Service
  <2>2. CASE UNCHANGED vars
    BY <2>2, SerialStutters
  <2>. QED  BY <1>2, <2>1, <2>2, EventsStep, PollerStep, WorldStep, ThreadStep, TaskStep DEF Next
<1>. QED  BY <1>1, <1>2

(* At rest the service and Rust tell the same story, and it is true, for   *)
(* any number of threads, lives of the service, tasks, sessions and acts.  *)
THEOREM AtRestTheyAgree == Spec => []Agree
<1>1. ASSUME SerialInv PROVE Agree
  <2> SUFFICES ASSUME plan = "serial", Quiet
               PROVE  /\ phase # "starting" /\ conn # "connecting"
                      /\ (phase = "running") <=> (Up # {})
                      /\ (phase = "running") <=> (instance # 0)
                      /\ Cardinality(Up) <= 1
                      /\ rust => ((conn = "connected") <=> (phase = "running"))
    BY DEF Agree
  <2>1. Types /\ \/ conn = "down" /\ Empty
                 \/ conn = "down" /\ ~rust /\ On
                 \/ rust /\ conn = "connected" /\ On
    BY <1>1, RestFacts
  <2>2. CASE Empty
    <3>1. phase = "idle" /\ Up = {} /\ instance = 0
      BY <2>1, <2>2, SceneFacts
    <3>. QED  BY <2>1, <2>2, <3>1, FS_EmptySet, SceneFacts
  <2>3. CASE On
    <3>1. phase = "running" /\ Up # {} /\ instance # 0 /\ ~Empty
      BY <2>1, <2>3, SceneFacts
    <3>2. PICK t \in Threads : Held(t, "up")
      BY <2>3 DEF On, Running
    <3>3. Up = {t}
      BY <3>2 DEF Held, Closed, Up
    <3>4. Cardinality(Up) = 1
      BY <3>3, FS_Singleton
    <3>. QED  BY <2>1, <3>1, <3>4
  <2>. QED  BY <2>1, <2>2, <2>3
<1>. QED  BY <1>1, InitSerial, SerialStep, PTL DEF Spec

-----------------------------------------------------------------------------
(* A stop is no crash.                                                     *)

(* What the user or the system stopped is down, and what may still bring   *)
(* it up has been told; or the stop is still on its way to it.             *)
StopInv ==
  wish = "down" =>
    /\ plan = "serial" /\ NoTasks /\ Silent({"user", "revoked", "down"})
    /\ \/ Off /\ (conn = "connected" /\ session \in pollers => ~Recovers)
       \/ Running /\ (inbox # << >> \/ events["down"] > 0)

LEMMA WishStays == ASSUME [Next]_vars, ~World PROVE wish' = wish
<1>1. CASE Service
  BY <1>1 DEF Service, Deliver, OnDestroy, bounds
<1>2. CASE Events
  BY <1>2 DEF Events, HandleStarted, HandleStopped, HandleRequest, ShutDown, Shutdown, bounds
<1>3. CASE Poller
  BY <1>3 DEF Poller, PollerEnds, HandleCoreDeath, bounds
<1>4. ASSUME NEW t \in Threads, Thread(t) PROVE wish' = wish
  BY <1>4 DEF Thread, ReadConfig, MakeServer, Begin, CameUp, FailedToStart, bounds
<1>5. ASSUME NEW r \in Tasks, Task(r) PROVE wish' = wish
  BY <1>5 DEF Task, Consent, StopOld, Start, Answered, AwaitPanel, AttachSession, GiveUp,
              Shutdown, Adopt, Compare, Probe, bounds
<1>6. CASE UNCHANGED vars
  BY <1>6 DEF vars, bounds
<1>. QED  BY <1>1, <1>2, <1>3, <1>4, <1>5, <1>6 DEF Next

LEMMA WorldStops == ASSUME plan = "serial", SerialInv, World PROVE StopInv'
<1>1. plan' = "serial"
  BY PlanStays DEF Next
<1>2. CASE UserDisconnects
  <2>1. /\ wish' = "down" /\ NoTasks' /\ Silent({"down"})' /\ Running' /\ events'["down"] > 0
    BY <1>2, UserDisconnectsStep
  <2>2. Silent({"user", "revoked", "down"})'
    BY <2>1 DEF Silent
  <2>. QED  BY <1>1, <2>1, <2>2 DEF StopInv
<1>3. CASE Outside
  <2>1. wish' = "any" \/ (wish' = "down" /\ NoTasks' /\ Silent({})' /\ Running' /\ inbox' # << >>)
    BY <1>3, OutsideStep
  <2>2. Silent({})' => Silent({"user", "revoked", "down"})'
    BY DEF Silent
  <2>. QED  BY <1>1, <2>1, <2>2 DEF StopInv
<1>4. ASSUME NEW reason \in {"user", "revoked", "core"}, Stopped(reason) PROVE StopInv'
  BY <1>1, <1>4, StoppedStep DEF StopInv
<1>5. ASSUME wish' = "any" PROVE StopInv'
  BY <1>5 DEF StopInv
<1>. QED  BY <1>2, <1>3, <1>4, <1>5, UserConnectsStep, RequestStep, KilledStep, OpenAppStep
          DEF World

LEMMA StopStep == SerialInv /\ StopInv /\ [Next]_vars => StopInv'
<1> SUFFICES ASSUME SerialInv, StopInv, [Next]_vars PROVE StopInv'
  OBVIOUS
<1>1. CASE World
  <2>1. CASE plan = "serial"
    BY <1>1, <2>1, WorldStops
  <2>2. CASE plan # "serial"
    <3>1. wish' = "any"
      BY <1>1, <2>2 DEF World, UserConnects, UserDisconnects, Outside, Send, Request, Stopped,
                        Killed, OpenApp, Act
    <3>. QED  BY <3>1 DEF StopInv
  <2>. QED  BY <2>1, <2>2
<1>2. CASE ~World /\ wish # "down"
  BY <1>2, WishStays DEF StopInv
<1>3. CASE ~World /\ wish = "down"
  <2>1. /\ plan = "serial" /\ Types /\ NoTasks /\ Silent({"user", "revoked", "down"})
        /\ \/ Off /\ (conn = "connected" /\ session \in pollers => ~Recovers)
           \/ Running /\ (inbox # << >> \/ events["down"] > 0)
    BY <1>3 DEF StopInv, SerialInv
  <2>2. plan' = "serial"
    BY <2>1, PlanStays
  <2>3. CASE Deliver
    <3>1. inbox # << >> /\ Head(inbox) # "destroy"
      BY <2>3 DEF Deliver
    <3>2. Running /\ inbox \in {<<"stop">>, <<"toggle">>} /\ Unlocked /\ Unheard
      <4>1. ~Off
        BY <3>1, Queues DEF Off, Empty, Messages
      <4>2. Running
        BY <2>1, <4>1
      <4>. QED  BY <2>1, <3>1, <4>2, Arrivals, SceneFacts DEF Gone, Leaving
    <3>3. /\ Off' /\ ~Recovers' /\ NoTasks' /\ Silent({"user", "revoked", "down"})'
      BY <2>1, <2>3, <3>2, StopDelivered
    <3>. QED  BY <2>2, <3>3 DEF StopInv
  <2>4. CASE OnDestroy
    <3>1. inbox # << >> /\ Head(inbox) = "destroy"
          /\ UNCHANGED <<conn, session, tasks, pollers, stopReason, events>>
      BY <2>4 DEF OnDestroy, runtime
    <3>2. ~Running
      <4>1. \A r \in Tasks : ~Waiting(r)
        BY <2>1 DEF Waiting, NoTasks, NoTask
      <4>2. inbox \notin {<<"stop">>, <<"toggle">>}
        BY <3>1, Queues DEF Messages
      <4>. QED  BY <2>1, <3>1, <4>1, <4>2, Arrivals, SceneFacts DEF Leaving, Gone
    <3>3. Off'
      BY <2>1, <2>4, <3>2, OnDestroyStep
    <3>4. NoTasks' /\ Silent({"user", "revoked", "down"})' /\ (Recovers' <=> Recovers)
      BY <2>1, <3>1, StillSilent DEF NoTasks, Recovers
    <3>. QED  BY <2>1, <2>2, <3>1, <3>2, <3>3, <3>4 DEF StopInv
  <2>5. CASE Events
    <3>1. \A kind \in {"started", "request"} : ~Take(kind)
      BY <2>1 DEF Take, Silent, Kinds
    <3>2. ASSUME NEW reason \in {"user", "revoked"}, HandleStopped(reason) PROVE StopInv'
      <4>1. /\ UNCHANGED <<kotlin, conn, session, tasks, pollers>>
            /\ Silent({"user", "revoked", "down"})' /\ (On => events'["down"] = events["down"])
        BY <2>1, <3>2, HandleStoppedStep DEF HandleStopped
      <4>2. /\ NoTasks' /\ (Off' <=> Off) /\ (Running' <=> Running) /\ inbox' = inbox
            /\ (Recovers' <=> Recovers)
        BY <2>1, <4>1, Frame DEF kotlin, NoTasks, Recovers
      <4>3. Running => inbox # << >> \/ On
        BY DEF On
      <4>. QED  BY <2>1, <2>2, <4>1, <4>2, <4>3 DEF StopInv
    <3>3. CASE ShutDown
      <4>1. Off' /\ conn' = "down" /\ NoTasks' /\ Silent({"user", "revoked", "down"})'
        BY <2>1, <3>3, ShutDownStep
      <4>. QED  BY <2>2, <4>1 DEF StopInv
    <3>. QED  BY <2>5, <3>1, <3>2, <3>3 DEF Events, HandleStarted, HandleRequest
  <2>6. CASE Poller
    <3>1. PICK s \in pollers : PollerEnds(s) \/ HandleCoreDeath(s)
      BY <2>6 DEF Poller
    <3>2. CASE PollerEnds(s)
      <4>1. /\ UNCHANGED <<kotlin, conn, session, tasks, events>> /\ pollers' \subseteq pollers
        BY <3>2 DEF PollerEnds
      <4>2. /\ NoTasks' /\ (Off' <=> Off) /\ (Running' <=> Running) /\ inbox' = inbox
            /\ (Recovers' <=> Recovers) /\ Silent({"user", "revoked", "down"})'
        BY <2>1, <4>1, Frame, StillSilent DEF kotlin, NoTasks, Recovers
      <4>. QED  BY <2>1, <2>2, <4>1, <4>2 DEF StopInv
    <3>3. CASE HandleCoreDeath(s)
      <4>1. ~Running /\ conn = "connected" /\ session' = session
        BY <2>1, <3>3, SceneFacts DEF HandleCoreDeath, Ours, Dead
      <4>2. /\ Off' /\ session \in pollers /\ session \notin pollers'
            /\ (~Recovers => NoTasks' /\ Silent({"user", "revoked", "down"})')
        BY <2>1, <3>3, HandleCoreDeathStep
      <4>. QED  BY <2>1, <2>2, <4>1, <4>2 DEF StopInv
    <3>. QED  BY <3>1, <3>2, <3>3
  <2>7. ASSUME NEW t \in Threads, Thread(t) PROVE FALSE
    <3>1. Free
      BY <2>1, SceneFacts
    <3>. QED  BY <2>7, <3>1 DEF Free, NoThread, Thread, ReadConfig, MakeServer, Begin, CameUp, FailedToStart
  <2>8. ASSUME NEW r \in Tasks, Task(r) PROVE FALSE
    BY <2>1, <2>8 DEF NoTasks, NoTask, Task, Consent, StopOld, Start, Answered, AwaitPanel,
                      AttachSession, GiveUp, Adopt, Compare, Probe
  <2>9. CASE UNCHANGED vars
    <3>1. UNCHANGED <<kotlin, conn, session, tasks, events, pollers>>
      BY <2>9 DEF vars, runtime
    <3>2. /\ NoTasks' /\ (Off' <=> Off) /\ (Running' <=> Running) /\ inbox' = inbox
          /\ (Recovers' <=> Recovers) /\ Silent({"user", "revoked", "down"})'
      BY <2>1, <3>1, Frame, StillSilent DEF kotlin, NoTasks, Recovers
    <3>. QED  BY <2>1, <2>2, <3>1, <3>2 DEF StopInv
  <2>. QED  BY <1>3, <2>3, <2>4, <2>5, <2>6, <2>7, <2>8, <2>9 DEF Next, Service
<1>. QED  BY <1>1, <1>2, <1>3

(* When a stop by the user or the system is all that was asked for, nothing*)
(* is up at rest and Rust does not try again, for any number of threads,   *)
(* lives of the service, tasks, sessions and acts.                         *)
THEOREM StopsAreNoCrash == Spec => []StopIsNoCrash
<1>1. Init => StopInv
  BY DEF Init, StopInv
<1>2. ASSUME SerialInv, StopInv PROVE StopIsNoCrash
  <2> SUFFICES ASSUME wish = "down", Quiet PROVE phase = "idle" /\ Up = {} /\ ~Live
    BY DEF StopIsNoCrash
  <2>1. plan = "serial"
    BY <1>2 DEF StopInv
  <2>2. /\ Types /\ inbox = << >> /\ Silent({}) /\ "down" \in Kinds
        /\ \/ conn = "down" /\ Empty
           \/ On
    BY <1>2, <2>1, RestFacts DEF Kinds
  <2>3. ~Running
    <3>1. events["down"] = 0
      BY <2>2 DEF Silent
    <3>. QED  BY <1>2, <2>2, <3>1, SceneFacts DEF StopInv
  <2>. QED  BY <2>2, <2>3, SceneFacts DEF On, Live
<1>. QED  BY <1>1, <1>2, InitSerial, SerialStep, StopStep, PTL DEF Spec
=============================================================================
