--------------------------- MODULE SessionProofs ---------------------------
(***************************************************************************)
(* Session never leaves a core behind, for any number of connects in       *)
(* flight together, any limits and any number of commands; and what a      *)
(* connection keeps while connects wait for each other.                    *)
(*                                                                          *)
(* The inductive invariant says where a running core can be: a connection  *)
(* shown or being made, or some connect_inner past its spawn.  What it has  *)
(* to survive is a shutdown by one job in the middle of another.            *)
(***************************************************************************)
EXTENDS Session, TLAPS

(* A core is there only while the screen shows a connection, or for a job  *)
(* past its spawn.                                                         *)
CoreInv ==
  Brisk /\ core.state # "None" => ~Down \/ \E j \in Jobs : job[j].pc \in {"Await"} \cup Up

(* A core that is there although a shutdown is under way was spawned after *)
(* that shutdown stopped the one before, and has not answered yet.         *)
ClosingInv ==
  Brisk /\ core.state # "None" /\ Closing => \E j \in Jobs : job[j].pc = "Await"

IInv == TypeOK /\ CoreInv /\ ClosingInv

(* The session starts in the invariant.                                    *)
LEMMA Initially == Init => IInv
<1> SUFFICES ASSUME Init PROVE TypeOK /\ CoreInv /\ ClosingInv
  BY DEF IInv
<1>1. settings \in Settings /\ file \in Settings
  BY LimitsAssumption DEF Init, Settings
<1>2. status \in StatusType /\ job \in [Jobs -> JobType] /\ core \in CoreType
  BY DEF Init, Off, At, StatusType, JobType, CoreType
<1>3. fastCrashes \in 0..FAST_CRASH_LIMIT /\ requests \in 0..MaxRequests
  BY LimitsAssumption DEF Init
<1>4. TypeOK
  BY <1>1, <1>2, <1>3 DEF Init, TypeOK
<1>5. CoreInv /\ ClosingInv
  BY DEF Init, CoreInv, ClosingInv, NoCore
<1> QED BY <1>4, <1>5

-----------------------------------------------------------------------------
(* A shutdown is under way only after one has begun.                       *)
LEMMA NoneBegins ==
  ASSUME leaving' = leaving,
         \A i \in Jobs : job'[i].pc = "Closing" => job[i].pc = "Closing",
         \A p \in pollers' : p.pc = "Closing" => \E q \in pollers : q.pc = "Closing"
  PROVE  Closing' => Closing
  BY DEF Closing

(* Moving a job, a new number and a shutdown keep everything typed.        *)

LEMMA JobMoves ==
  ASSUME TypeOK, NEW j \in Jobs
  PROVE  /\ Outdated(job) \in [Jobs -> JobType]
         /\ [job EXCEPT ![j] = Off] \in [Jobs -> JobType]
         /\ [job EXCEPT ![j] = At("Closing", FALSE, "None")] \in [Jobs -> JobType]
         /\ Enter(j) => job' \in [Jobs -> JobType]
         /\ \A pc \in {"Spawn", "Await"} \cup Up : Goto(j, pc) => job' \in [Jobs -> JobType]
<1> job \in [Jobs -> JobType]
  BY DEF TypeOK
<1>1. /\ Off \in JobType
      /\ At("Begin", FALSE, "None") \in JobType /\ At("Closing", FALSE, "None") \in JobType
  BY DEF Off, At, JobType
<1>2. \A i \in Jobs : [job[i] EXCEPT !.current = FALSE] \in JobType
  BY DEF JobType
<1>3. \A pc \in {"Spawn", "Await"} \cup Up : [job[j] EXCEPT !.pc = pc] \in JobType
  BY DEF JobType
<1>4. Outdated(job) \in [Jobs -> JobType]
  BY <1>2 DEF Outdated
<1>5. /\ [job EXCEPT ![j] = Off] \in [Jobs -> JobType]
      /\ [job EXCEPT ![j] = At("Closing", FALSE, "None")] \in [Jobs -> JobType]
      /\ Enter(j) => job' \in [Jobs -> JobType]
  BY <1>1 DEF Enter
<1>6. ASSUME NEW pc \in {"Spawn", "Await"} \cup Up, Goto(j, pc)
      PROVE  job' \in [Jobs -> JobType]
  BY <1>3, <1>6 DEF Goto
<1> QED BY <1>4, <1>5, <1>6

LEMMA PollersAge ==
  ASSUME NEW ps, ps \subseteq PollerType
  PROVE  OutdatedPollers(ps) \subseteq PollerType
  BY DEF OutdatedPollers, PollerType

LEMMA StopType ==
  ASSUME TypeOK, NEW jobs \in [Jobs -> JobType], NEW left \in SUBSET PollerType,
         StopAll(jobs, left)
  PROVE  /\ job' \in [Jobs -> JobType] /\ pollers' \subseteq PollerType
         /\ core' \in CoreType /\ panel' \in BOOLEAN
         /\ errand' \in {"None", "Ours", "Stale"}
<1>1. job' \in [Jobs -> JobType]
  BY DEF StopAll, Outdated, JobType
<1>2. pollers' \subseteq PollerType
  BY PollersAge DEF StopAll
<1> QED BY <1>1, <1>2 DEF StopAll, TypeOK, CoreType, OutdatedErrand

(* Where a shutdown begins there is no core.                               *)
LEMMA StopClears ==
  ASSUME NEW jobs, NEW left, StopAll(jobs, left)
  PROVE  CoreInv' /\ ClosingInv'
  BY DEF StopAll, CoreInv, ClosingInv, NoCore

(* Where it ends there is none either, or one that is yet to answer: the   *)
(* job or poller that ends is none of those that wait for an answer.       *)
LEMMA ShowDownKeeps ==
  ASSUME IInv, Closing, NEW result \in {"Disconnected", "Error"}, ShowDown(result),
         job' \in [Jobs -> JobType], pollers' \subseteq pollers, leaving' \in BOOLEAN,
         \A i \in Jobs : job[i].pc = "Await" => job'[i] = job[i]
  PROVE  IInv'
<1>1. status' \in StatusType /\ osProxy' \in BOOLEAN
      /\ slips' \subseteq {"Refused", "Unsaved", "Registry"}
  BY DEF ShowDown, Disable, StatusType, IInv, TypeOK
<1>2. TypeOK'
  BY <1>1 DEF ShowDown, IInv, TypeOK
<1>3. CoreInv' /\ ClosingInv'
  BY DEF ShowDown, IInv, CoreInv, ClosingInv
<1> QED BY <1>2, <1>3 DEF IInv

LEMMA GiveUpKeeps ==
  ASSUME TypeOK, NEW j \in Jobs, GiveUp(j), osProxy' \in BOOLEAN,
         slips' \subseteq {"Refused", "Unsaved", "Registry"}
  PROVE  IInv'
<1>1. /\ StopAll([job EXCEPT ![j] = At("Closing", FALSE, "None")], pollers)
      /\ UNCHANGED <<status, since, settings, file, fastCrashes, leaving, servers, wish, requests>>
  BY DEF GiveUp, StopAll
<1>2. /\ [job EXCEPT ![j] = At("Closing", FALSE, "None")] \in [Jobs -> JobType]
      /\ pollers \in SUBSET PollerType
  BY JobMoves DEF TypeOK
<1>3. TypeOK'
  BY <1>1, <1>2, StopType DEF TypeOK
<1>4. CoreInv' /\ ClosingInv'
  BY <1>1, StopClears
<1> QED BY <1>3, <1>4 DEF IInv

-----------------------------------------------------------------------------
(* Every step of connect_inner keeps the invariant: a core is only spawned *)
(* by a job that is then past its spawn.                                   *)
LEMMA ProceedKeeps ==
  ASSUME IInv, NEW j \in Jobs, Proceed(j)
  PROVE  IInv'
<1> USE DEF IInv
<1>0. job \in [Jobs -> JobType]
  BY DEF TypeOK
<1>1. CASE BeginRefused(j)
  <2>1. TypeOK'
    BY <1>1, JobMoves DEF BeginRefused, TypeOK
  <2>2. job'[j].pc = "Off" /\ \A i \in Jobs : i # j => job'[i] = job[i]
    BY <1>1, <1>0 DEF BeginRefused, Off, At
  <2>3. CoreInv' /\ ClosingInv'
    BY <1>1, <2>2 DEF BeginRefused, CoreInv, ClosingInv, Closing, Down, Up
  <2> QED BY <2>1, <2>3
<1>2. CASE Begin(j)
  <2>1. status' \in StatusType /\ status'.state = "Connecting"
    BY <1>2 DEF Begin, TypeOK, StatusType
  <2>2. settings.mode \in Modes
    BY DEF TypeOK, Settings
  <2>3. At("Fetch", TRUE, settings.mode) \in JobType
    BY <2>2 DEF At, JobType
  <2>4. job' \in [Jobs -> JobType]
    BY <1>2, <2>3, JobMoves DEF Begin
  <2>5. pollers' \subseteq PollerType /\ errand' \in {"None", "Ours", "Stale"}
    BY <1>2, PollersAge DEF Begin, TypeOK, OutdatedErrand
  <2>6. TypeOK'
    BY <1>2, <2>1, <2>4, <2>5 DEF Begin, TypeOK
  <2>7. /\ job'[j].pc = "Fetch" /\ job[j].pc = "Begin"
        /\ \A i \in Jobs : i # j => job'[i].pc = job[i].pc
    BY <1>2, <1>0 DEF Begin, Outdated, At, JobType
  <2>8. \A q \in pollers' : q.pc = "Closing" => \E o \in pollers : o.pc = "Closing"
    BY <1>2 DEF Begin, OutdatedPollers, TypeOK, PollerType
  <2>9. Closing' => Closing
    BY <1>2, <2>7, <2>8, NoneBegins DEF Begin
  <2>10. CoreInv' /\ ClosingInv'
    BY <1>2, <2>1, <2>7, <2>9 DEF Begin, CoreInv, ClosingInv, Down
  <2> QED BY <2>6, <2>10
<1>3. CASE Prepare(j)
  <2>1. CASE GiveUp(j) /\ UNCHANGED <<osProxy, slips>>
    BY <2>1, GiveUpKeeps DEF TypeOK
  <2>2. CASE ~(GiveUp(j) /\ UNCHANGED <<osProxy, slips>>)
    <3>1. /\ job[j].pc = "Fetch" /\ core' = NoCore /\ file' = settings /\ Goto(j, "Spawn")
          /\ UNCHANGED <<status, since, settings, panel, osProxy, fastCrashes,
                         pollers, errand, leaving, servers, wish, slips, requests>>
      BY <1>3, <2>2 DEF Prepare
    <3>2. TypeOK'
      BY <3>1, JobMoves DEF TypeOK, CoreType
    <3>3. \A i \in Jobs : i # j => job'[i] = job[i]
      BY <3>1, <1>0 DEF Goto
    <3>4. CoreInv' /\ ClosingInv'
      BY <3>1, <3>3 DEF CoreInv, ClosingInv, Closing, Down, Up, NoCore
    <3> QED BY <3>2, <3>4
  <2> QED BY <2>1, <2>2
<1>4. CASE Spawn(j)
  <2>1. CASE GiveUp(j) /\ UNCHANGED <<osProxy, slips>>
    BY <2>1, GiveUpKeeps DEF TypeOK
  <2>2. CASE ~(GiveUp(j) /\ UNCHANGED <<osProxy, slips>>)
    <3>1. /\ job[j].pc = "Spawn" /\ core' = Run(file) /\ Goto(j, "Await")
          /\ UNCHANGED <<status, since, settings, file, panel, osProxy, fastCrashes,
                         pollers, errand, leaving, servers, wish, slips, requests>>
      BY <1>4, <2>2 DEF Spawn
    <3>2. core' \in CoreType
      BY <3>1 DEF TypeOK, CoreType, Run
    <3>3. TypeOK'
      BY <3>1, <3>2, JobMoves DEF TypeOK
    <3>4. job'[j].pc = "Await" /\ \A i \in Jobs : i # j => job'[i] = job[i]
      BY <3>1, <1>0 DEF Goto, JobType
    <3>5. CoreInv' /\ ClosingInv'
      BY <3>1, <3>4 DEF CoreInv, ClosingInv, Closing, Down, Up
    <3> QED BY <3>3, <3>5
  <2> QED BY <2>1, <2>2
<1>5. CASE Answer(j)
  <2>1. TypeOK'
    BY <1>5, JobMoves DEF Answer, TypeOK, Up
  <2>2. job'[j].pc = "Install" /\ \A i \in Jobs : i # j => job'[i] = job[i]
    BY <1>5, <1>0 DEF Answer, Goto, JobType
  <2>3. CoreInv' /\ ClosingInv'
    BY <1>5, <2>2 DEF Answer, CoreInv, ClosingInv, Closing, Down, Up
  <2> QED BY <2>1, <2>3
<1>6. CASE NoAnswer(j)
  BY <1>6, GiveUpKeeps DEF NoAnswer, TypeOK
<1>7. CASE Install(j)
  <2>1. TypeOK'
    BY <1>7, JobMoves DEF Install, TypeOK, Up
  <2>2. job'[j].pc = "Select" /\ \A i \in Jobs : i # j => job'[i] = job[i]
    BY <1>7, <1>0 DEF Install, Goto, JobType
  <2>3. CoreInv' /\ ClosingInv'
    BY <1>7, <2>2 DEF Install, CoreInv, ClosingInv, Closing, Down, Up
  <2> QED BY <2>1, <2>3
<1>8. CASE Enable(j)
  <2>0. osProxy' \in BOOLEAN /\ slips' \subseteq {"Refused", "Unsaved", "Registry"}
    BY <1>8 DEF Enable, TypeOK
  <2>1. CASE GiveUp(j)
    BY <2>0, <2>1, GiveUpKeeps
  <2>2. CASE ~GiveUp(j)
    <3>1. /\ job[j].pc = "Select" /\ Goto(j, "Announce")
          /\ osProxy' \in BOOLEAN /\ slips' \subseteq {"Refused", "Unsaved", "Registry"}
          /\ UNCHANGED <<status, since, settings, file, core, panel, fastCrashes,
                         pollers, errand, leaving, servers, wish, requests>>
      BY <1>8, <2>0, <2>2 DEF Enable
    <3>2. TypeOK'
      BY <3>1, JobMoves DEF TypeOK, Up
    <3>3. job'[j].pc = "Announce" /\ \A i \in Jobs : i # j => job'[i] = job[i]
      BY <3>1, <1>0 DEF Goto, JobType
    <3>4. CoreInv' /\ ClosingInv'
      BY <3>1, <3>3 DEF CoreInv, ClosingInv, Closing, Down, Up
    <3> QED BY <3>2, <3>4
  <2> QED BY <2>1, <2>2
<1>9. CASE Announce(j)
  <2>1. status' \in StatusType /\ status'.state = "Connected"
    BY <1>9 DEF Announce, StatusType
  <2>2. Poller("Asleep", job[j].current, FALSE) \in PollerType
    BY <1>0 DEF Poller, PollerType, JobType
  <2>3. TypeOK'
    BY <1>9, <2>1, <2>2, JobMoves DEF Announce, TypeOK
  <2>4. /\ job'[j].pc = "Off" /\ job[j].pc = "Announce"
        /\ \A i \in Jobs : i # j => job'[i] = job[i]
    BY <1>9, <1>0 DEF Announce, Off, At
  <2>5. Closing' => Closing
    BY <1>9, <2>4, NoneBegins DEF Announce, Poller
  <2>6. CoreInv' /\ ClosingInv'
    BY <1>9, <2>1, <2>4, <2>5 DEF Announce, CoreInv, ClosingInv, Down
  <2> QED BY <2>3, <2>6
<1>10. CASE EndJob(j)
  <2>1. /\ job[j].pc = "Closing" /\ job' = [job EXCEPT ![j] = Off] /\ ShowDown("Error")
        /\ UNCHANGED <<pollers, leaving>>
    BY <1>10 DEF EndJob
  <2>2. job' \in [Jobs -> JobType] /\ leaving' \in BOOLEAN
    BY <2>1, JobMoves DEF TypeOK
  <2>3. \A i \in Jobs : job[i].pc = "Await" => job'[i] = job[i]
    BY <1>0, <2>1
  <2>4. Closing
    BY <2>1 DEF Closing
  <2> QED BY <2>1, <2>2, <2>3, <2>4, ShowDownKeeps
<1> QED BY <1>1, <1>2, <1>3, <1>4, <1>5, <1>6, <1>7, <1>8, <1>9, <1>10 DEF Proceed

-----------------------------------------------------------------------------
(* A job that starts had nothing to do with the core before.               *)
LEMMA EnterKeeps ==
  ASSUME IInv, NEW j \in Jobs, Free(j), Enter(j), UNCHANGED <<status, core, leaving>>,
         pollers' \subseteq pollers
  PROVE  job' \in [Jobs -> JobType] /\ CoreInv' /\ ClosingInv'
<1>1. job' \in [Jobs -> JobType]
  BY JobMoves DEF IInv
<1>2. job'[j].pc = "Begin" /\ \A i \in Jobs : i # j => job'[i] = job[i]
  BY DEF Enter, IInv, TypeOK, At
<1>3. Closing' => Closing
  BY <1>2, NoneBegins
<1>4. CoreInv' /\ ClosingInv'
  BY <1>2, <1>3 DEF IInv, CoreInv, ClosingInv, Free, Down, Up
<1> QED BY <1>1, <1>4

LEMMA StrikesType ==
  ASSUME TypeOK, NEW p \in PollerType
  PROVE  Strikes(p) \in 0..FAST_CRASH_LIMIT
  BY LimitsAssumption DEF TypeOK, Strikes

(* The poller only restarts through connect_inner, or shuts down.          *)
LEMMA WatchKeeps ==
  ASSUME IInv, Watch
  PROVE  IInv'
<1> USE DEF IInv
<1> PICK p \in pollers :
      PollerWakes(p) \/ PollerHears(p) \/ PollerMisses(p) \/ LeaveBe(p) \/ Surrender(p) \/ Revive(p)
      \/ EndPoller(p)
  BY DEF Watch
<1>0. p \in PollerType /\ pollers \ {p} \in SUBSET PollerType
  BY DEF TypeOK
<1>1. \A pc \in {"Asleep", "Asking", "Burying"}, mature \in BOOLEAN :
        Poller(pc, p.current, mature) \in PollerType
  BY <1>0 DEF Poller, PollerType
<1>2. p.mature \in BOOLEAN
  BY <1>0 DEF PollerType
<1>3. 0 \in 0..FAST_CRASH_LIMIT
  BY LimitsAssumption
<1>11. ASSUME UNCHANGED <<status, core, job, leaving>>,
              \A q \in pollers' \ pollers : q.pc # "Closing"
       PROVE  CoreInv' /\ ClosingInv'
  <2>1. Closing' => Closing
    BY <1>11 DEF Closing
  <2> QED BY <1>11, <2>1 DEF CoreInv, ClosingInv, Down
<1>4. CASE PollerWakes(p)
  <2>1. pollers' \subseteq PollerType
    BY <1>0, <1>1, <1>4 DEF PollerWakes
  <2>2. TypeOK'
    BY <2>1, <1>3, <1>4 DEF PollerWakes, TypeOK
  <2>3. CoreInv' /\ ClosingInv'
    BY <1>4, <1>11 DEF PollerWakes, Poller
  <2> QED BY <2>2, <2>3
<1>5. CASE PollerHears(p)
  <2>1. TypeOK'
    BY <1>0, <1>1, <1>5 DEF PollerHears, TypeOK
  <2>2. CoreInv' /\ ClosingInv'
    BY <1>5, <1>11 DEF PollerHears, Poller
  <2> QED BY <2>1, <2>2
<1>6. CASE PollerMisses(p)
  <2>1. TypeOK'
    BY <1>0, <1>1, <1>2, <1>6 DEF PollerMisses, TypeOK
  <2>2. CoreInv' /\ ClosingInv'
    BY <1>6, <1>11 DEF PollerMisses, Poller
  <2> QED BY <2>1, <2>2
<1>7. CASE LeaveBe(p)
  <2>1. TypeOK'
    BY <1>0, <1>7 DEF LeaveBe, TypeOK
  <2>2. CoreInv' /\ ClosingInv'
    BY <1>7, <1>11 DEF LeaveBe, Poller
  <2> QED BY <2>1, <2>2
<1>8. CASE Surrender(p)
  <2>1. /\ StopAll(job, (pollers \ {p}) \cup {Poller("Closing", FALSE, FALSE)})
        /\ job \in [Jobs -> JobType]
    BY <1>8 DEF Surrender, TypeOK
  <2>0. Poller("Closing", FALSE, FALSE) \in PollerType
    BY DEF Poller, PollerType
  <2>2. (pollers \ {p}) \cup {Poller("Closing", FALSE, FALSE)} \in SUBSET PollerType
    BY <1>0, <2>0
  <2>3. fastCrashes' \in 0..FAST_CRASH_LIMIT
    BY <1>8, <1>0, StrikesType DEF Surrender
  <2>4. TypeOK'
    BY <1>8, <2>1, <2>2, <2>3, StopType DEF Surrender, StopAll, TypeOK
  <2> QED BY <2>1, <2>4, StopClears
<1>9. CASE Revive(p)
  <2>1. PICK j \in Jobs : Free(j) /\ Enter(j)
    BY <1>9 DEF Revive
  <2>2. fastCrashes' \in 0..FAST_CRASH_LIMIT
    BY <1>9, <1>0, StrikesType DEF Revive
  <2>3. job' \in [Jobs -> JobType] /\ CoreInv' /\ ClosingInv'
    BY <1>9, <2>1, EnterKeeps DEF Revive
  <2>4. TypeOK'
    BY <1>0, <1>9, <2>2, <2>3 DEF Revive, TypeOK
  <2> QED BY <2>3, <2>4
<1>10. CASE EndPoller(p)
  <2>1. /\ p.pc = "Closing" /\ pollers' = pollers \ {p} /\ ShowDown("Error")
        /\ UNCHANGED <<job, leaving>>
    BY <1>10 DEF EndPoller
  <2>2. Closing
    BY <2>1 DEF Closing
  <2>3. job' \in [Jobs -> JobType] /\ leaving' \in BOOLEAN
    BY <2>1 DEF TypeOK
  <2> QED BY <2>1, <2>2, <2>3, ShowDownKeeps
<1> QED BY <1>4, <1>5, <1>6, <1>7, <1>8, <1>9, <1>10

LEMMA ChangeType ==
  ASSUME TypeOK, SaveSettings \/ DeleteServer
  PROVE  settings' \in Settings
<1>1. CASE SaveSettings
  <2>1. PICK m \in Modes : settings' = [version |-> settings.version + 1, mode |-> m]
    BY <1>1 DEF SaveSettings
  <2> QED BY <2>1 DEF TypeOK, Settings
<1>2. CASE DeleteServer
  BY <1>2 DEF DeleteServer, TypeOK, Settings
<1> QED BY <1>1, <1>2

(* A task of the session, or a command.                                    *)
LEMMA RequestKeeps ==
  ASSUME IInv,
         \/ FinishErrand \/ Connect \/ Disconnect \/ EndDisconnect
         \/ SaveSettings \/ DeleteServer \/ RefreshServers
  PROVE  IInv'
<1> USE DEF IInv
<1>1. 0 \in 0..FAST_CRASH_LIMIT
  BY LimitsAssumption
<1>2. requests < MaxRequests /\ requests' = requests + 1 => requests' \in 0..MaxRequests
  BY LimitsAssumption DEF TypeOK
<1>3. CASE FinishErrand
  <2>1. CASE errand = "Ours"
    <3>1. PICK j \in Jobs : Free(j) /\ Enter(j)
      BY <1>3, <2>1 DEF FinishErrand
    <3>2. job' \in [Jobs -> JobType] /\ CoreInv' /\ ClosingInv'
      BY <1>3, <3>1, EnterKeeps DEF FinishErrand
    <3>3. TypeOK'
      BY <1>1, <1>2, <1>3, <2>1, <3>2 DEF FinishErrand, TypeOK
    <3> QED BY <3>2, <3>3
  <2>2. CASE errand # "Ours"
    <3>1. TypeOK'
      BY <1>2, <1>3, <2>2 DEF FinishErrand, TypeOK
    <3>2. CoreInv' /\ ClosingInv'
      BY <1>3, <2>2 DEF FinishErrand, CoreInv, ClosingInv, Closing, Down
    <3> QED BY <3>1, <3>2
  <2> QED BY <2>1, <2>2
<1>4. CASE Connect
  <2>1. PICK j \in Jobs : Free(j) /\ Enter(j)
    BY <1>4 DEF Connect
  <2>2. job' \in [Jobs -> JobType] /\ CoreInv' /\ ClosingInv'
    BY <1>4, <2>1, EnterKeeps DEF Connect
  <2>3. TypeOK'
    BY <1>1, <1>2, <1>4, <2>2 DEF Connect, Requested, TypeOK
  <2> QED BY <2>2, <2>3
<1>5. CASE Disconnect
  <2>1. StopAll(job, pollers) /\ job \in [Jobs -> JobType] /\ pollers \in SUBSET PollerType
    BY <1>5 DEF Disconnect, TypeOK
  <2>2. TypeOK'
    BY <1>2, <1>5, <2>1, StopType DEF Disconnect, Requested, StopAll, TypeOK
  <2> QED BY <2>1, <2>2, StopClears
<1>7. CASE EndDisconnect
  <2>1. Closing /\ ShowDown("Disconnected") /\ leaving' \in BOOLEAN /\ UNCHANGED <<job, pollers>>
    BY <1>7 DEF EndDisconnect, Closing
  <2>2. job' \in [Jobs -> JobType]
    BY <2>1 DEF TypeOK
  <2> QED BY <2>1, <2>2, ShowDownKeeps
<1>6. CASE SaveSettings \/ DeleteServer
  <2>0. settings' \in Settings /\ servers' \in BOOLEAN
        /\ requests < MaxRequests /\ requests' = requests + 1 /\ (Apply \/ FailToSave)
        /\ UNCHANGED <<status, since, file, core, panel, osProxy, pollers, errand, leaving, wish>>
    BY <1>6, ChangeType DEF SaveSettings, DeleteServer, Requested, TypeOK
  <2>1. CASE Apply /\ IsRunning
    <3>1. PICK j \in Jobs : Free(j) /\ Enter(j)
      BY <2>1 DEF Apply
    <3>2. job' \in [Jobs -> JobType] /\ CoreInv' /\ ClosingInv'
      BY <2>0, <3>1, EnterKeeps
    <3>3. TypeOK'
      BY <1>1, <1>2, <2>0, <2>1, <3>2 DEF Apply, TypeOK
    <3> QED BY <3>2, <3>3
  <2>2. CASE ~(Apply /\ IsRunning)
    <3>0. UNCHANGED <<fastCrashes, job>> /\ slips' \subseteq {"Refused", "Unsaved", "Registry"}
      BY <2>0, <2>2 DEF Apply, FailToSave, TypeOK
    <3>1. TypeOK'
      BY <1>2, <2>0, <3>0 DEF TypeOK
    <3>2. CoreInv' /\ ClosingInv'
      BY <2>0, <3>0 DEF CoreInv, ClosingInv, Closing, Down
    <3> QED BY <3>1, <3>2
  <2> QED BY <2>1, <2>2
<1>8. CASE RefreshServers
  <2>1. TypeOK'
    BY <1>2, <1>8 DEF RefreshServers, TypeOK
  <2>2. CoreInv' /\ ClosingInv'
    BY <1>8 DEF RefreshServers, CoreInv, ClosingInv, Closing, Down
  <2> QED BY <2>1, <2>2
<1> QED BY <1>3, <1>4, <1>5, <1>6, <1>7, <1>8

-----------------------------------------------------------------------------
LEMMA CoreDiesKeeps ==
  ASSUME IInv, CoreDies
  PROVE  IInv'
<1>1. core' \in CoreType /\ core'.state = "Dead"
  BY DEF IInv, TypeOK, CoreDies, CoreType, NoCore
<1>2. TypeOK'
  BY <1>1 DEF IInv, TypeOK, CoreDies
<1>3. CoreInv' /\ ClosingInv'
  BY DEF IInv, CoreDies, CoreInv, ClosingInv, Closing, Down
<1> QED BY <1>2, <1>3 DEF IInv

LEMMA GrowUpKeeps ==
  ASSUME IInv, GrowUp
  PROVE  IInv'
  BY DEF IInv, TypeOK, GrowUp, CoreInv, ClosingInv, Closing, Down

LEMMA StutterKeeps ==
  ASSUME IInv, UNCHANGED vars
  PROVE  IInv'
  BY DEF IInv, TypeOK, vars, CoreInv, ClosingInv, Closing, Down

(* The invariant holds of every behaviour.                                 *)
THEOREM SessionInvariance == Spec => []IInv
<1>1. IInv /\ [Next]_vars => IInv'
  BY ProceedKeeps, WatchKeeps, RequestKeeps, CoreDiesKeeps, GrowUpKeeps, StutterKeeps DEF Next
<1> QED BY Initially, <1>1, PTL DEF Spec

(* Session is well typed; in particular the count of fast crashes stops at *)
(* its limit (handle_core_death).                                          *)
THEOREM SessionTypeCorrect == Spec => []TypeOK
<1>1. IInv => TypeOK
  BY DEF IInv
<1> QED BY <1>1, SessionInvariance, PTL

(* Once no connect or shutdown is in flight and the screen shows no        *)
(* connection, the core is gone: shutdown cleans up after every other      *)
(* connect too, however they interleave, if only a core takes longer to    *)
(* answer than a shutdown to end.                                          *)
THEOREM NothingIsLeftRunning ==
  ASSUME Brisk
  PROVE  Spec => []NothingLeftRunning
<1>1. IInv => NothingLeftRunning
  <2> SUFFICES ASSUME IInv, Quiet, Down PROVE core = NoCore
    BY DEF NothingLeftRunning
  <2>1. core.state = "None"
    BY DEF IInv, CoreInv, Quiet, Free, Up
  <2>2. core \in CoreType
    BY DEF IInv, TypeOK
  <2> QED BY <2>1, <2>2 DEF CoreType
<1> QED BY <1>1, SessionInvariance, PTL

(***************************************************************************)
(* A tunnel taken down stays down, if commands wait for a connect in       *)
(* flight, whatever tasks of the connection are still about.  Without that *)
(* wait it does not (the run session_cancelled).                           *)
(***************************************************************************)
(* Down is down: nobody is connecting, and nobody may connect, since every *)
(* task that is left knows that its session is over.                       *)
DownInv ==
  ~Overlap /\ wish = "Off" =>
    /\ \A j \in Jobs : Free(j)
    /\ \A p \in pollers : ~p.current
    /\ errand # "Ours"
    /\ core = NoCore
    /\ status.state = "Connected" => leaving

LEMMA InitiallyDown == Init => DownInv
  BY DEF Init, DownInv, Free, Off, At

LEMMA CommandKeepsDown ==
  ASSUME TypeOK, DownInv,
         \/ Connect \/ Disconnect \/ EndDisconnect
         \/ SaveSettings \/ DeleteServer \/ RefreshServers
  PROVE  DownInv'
<1>1. CASE Connect
  BY <1>1 DEF Connect, DownInv
<1>2. CASE Disconnect
  <2>1. ~Overlap => \A j \in Jobs : job'[j].pc = "Off"
    <3>1. ~Overlap => \A j \in Jobs : job[j].pc = "Off"
      BY <1>2 DEF Disconnect, Requested, Quiet, Free
    <3>2. \A j \in Jobs : job[j] \in JobType
      BY DEF TypeOK
    <3>3. \A j \in Jobs : job'[j] = [job[j] EXCEPT !.current = FALSE]
      BY <1>2 DEF Disconnect, StopAll, Outdated
    <3>. QED  BY <3>1, <3>2, <3>3 DEF JobType
  <2>2. \A p \in pollers' : ~p.current
    <3>1. \A p \in pollers : [p EXCEPT !.current = FALSE].current = FALSE
      BY DEF TypeOK, PollerType
    <3>. QED  BY <3>1, <1>2 DEF Disconnect, StopAll, OutdatedPollers
  <2>3. errand' # "Ours" /\ core' = NoCore /\ leaving'
    BY <1>2 DEF Disconnect, StopAll, OutdatedErrand
  <2>. QED  BY <2>1, <2>2, <2>3 DEF DownInv, Free
<1>3. CASE EndDisconnect
  BY <1>3 DEF EndDisconnect, ShowDown, DownInv, Free
<1>4. CASE SaveSettings \/ DeleteServer
  <2> SUFFICES ASSUME ~Overlap, wish' = "Off" PROVE DownInv'
    BY DEF DownInv
  <2>1. /\ wish = "Off" /\ ~leaving /\ (Apply \/ FailToSave)
        /\ UNCHANGED <<status, core, pollers, errand, leaving>>
    BY <1>4 DEF SaveSettings, DeleteServer, Requested, Quiet, Closing
  <2>2. ~IsRunning
    BY <2>1 DEF IsRunning, DownInv
  <2>3. UNCHANGED job
    BY <2>1, <2>2 DEF Apply, FailToSave
  <2>. QED  BY <2>1, <2>3 DEF DownInv, Free
<1>5. CASE RefreshServers
  BY <1>5 DEF RefreshServers, DownInv, Free
<1>. QED  BY <1>1, <1>2, <1>3, <1>4, <1>5

(* Tasks of a session that is over leave everything as it is.              *)
LEMMA TaskKeepsDown ==
  ASSUME TypeOK, DownInv, (\E j \in Jobs : Proceed(j)) \/ Watch \/ FinishErrand \/ CoreDies \/ GrowUp
  PROVE  DownInv'
<1> SUFFICES ASSUME ~Overlap, wish' = "Off" PROVE DownInv'
  BY DEF DownInv
<1>1. ASSUME NEW j \in Jobs, Proceed(j) PROVE DownInv'
  <2>1. wish = "Off"
    BY <1>1 DEF Proceed, BeginRefused, Begin, Prepare, Spawn, Answer, NoAnswer, Install, Enable,
                Announce, EndJob, GiveUp, ShowDown
  <2>2. job[j].pc = "Off"
    BY <2>1 DEF DownInv, Free
  <2>. QED  BY <1>1, <2>2 DEF Proceed, BeginRefused, Begin, Prepare, Spawn, Answer, NoAnswer,
                               Install, Enable, Announce, EndJob
<1>2. CASE Watch
  <2>1. PICK p \in pollers :
          PollerWakes(p) \/ PollerHears(p) \/ PollerMisses(p) \/ LeaveBe(p) \/ Surrender(p)
          \/ Revive(p) \/ EndPoller(p)
    BY <1>2 DEF Watch
  <2>2. wish = "Off"
    BY <2>1 DEF PollerWakes, PollerHears, PollerMisses, LeaveBe, Surrender, Revive, EndPoller, ShowDown
  <2>3. ~p.current
    BY <2>1, <2>2 DEF DownInv
  <2>4. CASE PollerWakes(p) \/ PollerHears(p) \/ PollerMisses(p) \/ LeaveBe(p)
    <3>1. \A q \in pollers' : ~q.current
      BY <2>2, <2>3, <2>4 DEF PollerWakes, PollerHears, PollerMisses, LeaveBe, Poller, DownInv
    <3>2. UNCHANGED <<job, errand, core, status, leaving>>
      BY <2>4 DEF PollerWakes, PollerHears, PollerMisses, LeaveBe
    <3>. QED  BY <2>2, <3>1, <3>2 DEF DownInv, Free
  <2>5. CASE EndPoller(p)
    BY <2>2, <2>5 DEF EndPoller, ShowDown, DownInv, Free
  <2>. QED  BY <2>1, <2>3, <2>4, <2>5 DEF Surrender, Revive
<1>3. CASE FinishErrand
  BY <1>3 DEF FinishErrand, DownInv, Free
<1>4. CASE CoreDies
  BY <1>4 DEF CoreDies, DownInv, NoCore
<1>5. CASE GrowUp
  BY <1>5 DEF GrowUp, DownInv, Free
<1>. QED  BY <1>1, <1>2, <1>3, <1>4, <1>5

(* Nothing brings a tunnel up that the user has taken down, if commands    *)
(* wait: neither the poller of the old session, which finds its core gone  *)
(* (handle_core_death), nor the retry of the rule sets.                    *)
THEOREM StaysDown ==
  ASSUME ~Overlap
  PROVE  Spec => []DownWhenAskedFor
<1>1. TypeOK /\ DownInv /\ [Next]_vars => DownInv'
  <2>1. ASSUME DownInv, UNCHANGED vars PROVE DownInv'
    BY <2>1 DEF vars, DownInv, Free
  <2>. QED  BY <2>1, CommandKeepsDown, TaskKeepsDown DEF Next
<1>2. DownInv => DownWhenAskedFor
  BY DEF DownInv, DownWhenAskedFor, Quiet, Closing
<1>. QED  BY <1>1, <1>2, InitiallyDown, SessionTypeCorrect, PTL DEF Spec

-----------------------------------------------------------------------------
(***************************************************************************)
(* What a connection keeps while connects do not overlap and commands wait *)
(* for them, whatever dies or fails on the way: it is watched, it runs     *)
(* with the settings saved last, and the system proxy is what the status   *)
(* says; as long as no restart was refused, no save failed and the system  *)
(* did as it was told.  What is left of it then is in the same formulas.   *)
(* With overlapping connects it does not, nor, as for the proxy, with a    *)
(* change of the mode (README, section 4).                                 *)
(*                                                                          *)
(* The invariant follows the one connect in flight: from Begin on it is    *)
(* the present session, it runs what it has written, and once its core has *)
(* answered no shutdown is under way any more.                             *)
(***************************************************************************)
Serial == ~Overlap /\ FAST_CRASH_LIMIT > 1 /\ \A i, j \in Jobs : i = j
OneMode == \A m, n \in Modes : m = n

Begun == {"Fetch", "Spawn", "Await"} \cup Up

(* A shutdown under way is alone: one that a poller starts finds no connect *)
(* about to begin, because what starts one forgives the crashes so far or  *)
(* is that poller.                                                         *)
CalmInv ==
  /\ Closing => /\ errand # "Ours" /\ \A p \in pollers : ~p.current
                /\ \A j \in Jobs : job[j].pc \in {"Off", "Closing"}
  /\ \A p, q \in pollers : p.current /\ q.current => p = q
  /\ \A j \in Jobs : job[j].pc = "Begin" => fastCrashes = 0 \/ \A p \in pollers : ~p.current
  /\ \A j \in Jobs : job[j].pc \in Begun => \A p \in pollers : ~p.current

(* The connect in flight.                                                  *)
FlightInv ==
  \A j \in Jobs :
    /\ job[j].pc \in Begun => job[j].current /\ \A p \in pollers : ~p.current
    /\ job[j].pc \in {"Spawn", "Await"} \cup Up => file = settings
    /\ job[j].pc \in {"Await"} \cup Up => core.state # "None" /\ core.doc = settings
    /\ job[j].pc \in Up => ~Closing
    /\ job[j].pc \in {"Select", "Announce"} => panel

(* A poller that has found the core gone has found it dead, and it stays so *)
(* for as long as the poller is of the present session.                    *)
BuryInv == \A p \in pollers : p.current /\ p.pc = "Burying" => core.state # "Running"

(* A connection that is shown, none having begun: whatever it lacks, a      *)
(* connect is about to bring, or was refused.                              *)
Entered == \E j \in Jobs : job[j].pc = "Begin"
Owed == Entered \/ "Unsaved" \in slips \/ "Refused" \in slips
Alone == core.state = "Dead" /\ (Entered \/ "Refused" \in slips)
ShownInv ==
  (\A j \in Jobs : job[j].pc \notin Begun) /\ ~Closing /\ status.state = "Connected" =>
    /\ panel /\ core.state # "None"
    /\ core.doc = settings \/ Owed
    /\ (\E p \in pollers : p.current) \/ Alone

(* The system proxy, which a connect turns on before it says so.  What the *)
(* system refused is remembered until it obeys.                            *)
ProxyInv ==
  /\ osProxy => "SystemProxy" \in Modes
  /\ \A j \in Jobs : job[j].pc \in Begun => job[j].mode \in Modes
  /\ \A j \in Jobs : job[j].pc = "Announce" => osProxy = (job[j].mode = "SystemProxy")
  /\ status.proxy => osProxy
  /\ (\A j \in Jobs : job[j].pc # "Announce") =>
       (osProxy => status.proxy \/ "Registry" \in slips)

SerialInv == Serial => FlightInv /\ BuryInv /\ ShownInv /\ (OneMode => ProxyInv)

-----------------------------------------------------------------------------
(* A shutdown and a connect exclude one another.                           *)
LEMMA InitiallyCalm == Init => CalmInv
<1> SUFFICES ASSUME Init PROVE CalmInv
  OBVIOUS
<1>1. pollers = {} /\ ~leaving /\ \A j \in Jobs : job[j].pc = "Off"
  BY DEF Init, Off, At
<1>. QED  BY <1>1 DEF CalmInv, Closing, Begun, Up

(* What stops everything outdates everybody.                               *)
LEMMA StopCalm ==
  ASSUME TypeOK, NEW jobs, NEW left, StopAll(jobs, left), jobs \in [Jobs -> JobType],
         left \subseteq PollerType, \A j \in Jobs : jobs[j].pc \in {"Off", "Closing"}
  PROVE  CalmInv'
<1>1. \A j \in Jobs : job'[j].pc \in {"Off", "Closing"}
  <2>1. \A j \in Jobs : job'[j] = [jobs[j] EXCEPT !.current = FALSE]
    BY DEF StopAll, Outdated
  <2>. QED  BY <2>1 DEF JobType
<1>2. \A p \in pollers' : ~p.current
  BY DEF StopAll, OutdatedPollers, PollerType
<1>3. errand' # "Ours"
  BY DEF StopAll, OutdatedErrand
<1>. QED  BY <1>1, <1>2, <1>3 DEF CalmInv, Begun, Up

(* A connect that something starts.                                        *)
LEMMA EnterCalm ==
  ASSUME TypeOK, CalmInv, Serial, NEW j \in Jobs, Free(j), Enter(j), ~Closing, UNCHANGED leaving,
         pollers' \subseteq pollers, fastCrashes' = 0 \/ \A p \in pollers' : ~p.current
  PROVE  CalmInv'
<1>1. job'[j].pc = "Begin" /\ \A i \in Jobs : i = j
  BY DEF Free, Enter, At, TypeOK, Serial
<1>2. ~Closing'
  BY <1>1 DEF Closing
<1>. QED  BY <1>1, <1>2 DEF CalmInv, Begun, Up

(* Pollers that go on, or go, and shutdowns that end.                      *)
LEMMA OthersCalm ==
  ASSUME TypeOK, CalmInv, Closing' => Closing,
         \A i \in Jobs : job'[i].pc \in {job[i].pc, "Off"},
         errand' \in {errand, "None"}, fastCrashes' \in {0, fastCrashes},
         \/ pollers' \subseteq pollers
         \/ \E p \in pollers : \E q : pollers' = (pollers \ {p}) \cup {q} /\ q.current = p.current
  PROVE  CalmInv'
<1>1. (\A p \in pollers : ~p.current) => \A p \in pollers' : ~p.current
  OBVIOUS
<1>2. \A p, q \in pollers' : p.current /\ q.current => p = q
  BY DEF CalmInv
<1>. QED  BY <1>1, <1>2 DEF CalmInv, Begun, Up

LEMMA ProceedCalm ==
  ASSUME TypeOK, CalmInv, Serial, NEW j \in Jobs, Proceed(j) PROVE CalmInv'
<1>0. /\ \A i \in Jobs : i = j
      /\ job[j] \in JobType /\ job \in [Jobs -> JobType] /\ pollers \subseteq PollerType
  BY DEF Serial, TypeOK
<1>1. CASE BeginRefused(j)
  <2>1. job'[j].pc = "Off" /\ ~Closing /\ UNCHANGED <<pollers, errand, fastCrashes, leaving>>
    BY <1>0, <1>1 DEF BeginRefused, Off, At, CalmInv
  <2>2. ~Closing'
    BY <1>0, <2>1 DEF Closing
  <2>. QED  BY <1>0, <2>1, <2>2, OthersCalm
<1>2. CASE Begin(j)
  <2>1. job'[j].pc = "Fetch" /\ ~Closing
    BY <1>0, <1>2 DEF Begin, Outdated, At, CalmInv
  <2>2. \A p \in pollers : [p EXCEPT !.current = FALSE].current = FALSE
                           /\ [p EXCEPT !.current = FALSE].pc = p.pc
    BY <1>0 DEF PollerType
  <2>3. \A p \in pollers' : ~p.current /\ p.pc # "Closing"
    <3>1. \A p \in pollers : p.pc # "Closing"
      BY <2>1 DEF Closing
    <3>2. pollers' = {[p EXCEPT !.current = FALSE] : p \in pollers}
      BY <1>2 DEF Begin, OutdatedPollers
    <3>. QED  BY <2>2, <3>1, <3>2
  <2>4. ~Closing'
    BY <1>0, <2>1, <2>3, <1>2 DEF Begin, Closing
  <2>. QED  BY <1>0, <2>1, <2>3, <2>4 DEF CalmInv
(* A step along the way, or the end of it.                                 *)
<1>3. ASSUME NEW pc \in Begun, job[j].pc \in Begun, Goto(j, pc), UNCHANGED <<pollers, leaving>>
      PROVE  CalmInv'
  <2>1. job'[j].pc = pc
    BY <1>0, <1>3 DEF Goto, JobType
  <2>2. ~Closing' /\ \A p \in pollers : ~p.current
    BY <1>0, <1>3, <2>1 DEF CalmInv, Closing, Begun, Up
  <2>. QED  BY <1>0, <1>3, <2>1, <2>2 DEF CalmInv
<1>4. ASSUME GiveUp(j) PROVE CalmInv'
  <2> DEFINE jobs == [job EXCEPT ![j] = At("Closing", FALSE, "None")]
  <2>1. jobs \in [Jobs -> JobType] /\ jobs[j].pc = "Closing"
    BY <1>0 DEF At, JobType
  <2>2. StopAll(jobs, pollers)
    BY <1>4 DEF GiveUp
  <2> HIDE DEF jobs
  <2>. QED  BY <1>0, <2>1, <2>2, StopCalm
<1>5. CASE Prepare(j) \/ Spawn(j) \/ Answer(j) \/ NoAnswer(j) \/ Install(j) \/ Enable(j)
  BY <1>3, <1>4, <1>5 DEF Prepare, Spawn, Answer, NoAnswer, Install, Enable, Begun, Up
<1>6. CASE Announce(j)
  <2> DEFINE q == Poller("Asleep", job[j].current, FALSE)
  <2>1. job'[j].pc = "Off" /\ pollers' = pollers \cup {q} /\ q.pc # "Closing" /\ UNCHANGED leaving
    BY <1>0, <1>6 DEF Announce, Off, At, Poller
  <2>2. ~Closing /\ \A p \in pollers : ~p.current
    BY <1>6 DEF Announce, CalmInv, Begun, Up
  <2> HIDE DEF q
  <2>3. ~Closing'
    BY <1>0, <2>1, <2>2 DEF Closing
  <2>. QED  BY <1>0, <2>1, <2>2, <2>3 DEF CalmInv, Begun, Up
<1>7. CASE EndJob(j)
  <2>1. job'[j].pc = "Off" /\ Closing /\ UNCHANGED <<pollers, errand, fastCrashes, leaving>>
    BY <1>0, <1>7 DEF EndJob, ShowDown, Off, At, Closing
  <2>. QED  BY <1>0, <2>1, OthersCalm
<1>. QED  BY <1>1, <1>2, <1>5, <1>6, <1>7 DEF Proceed

LEMMA WatchCalm ==
  ASSUME TypeOK, CalmInv, Serial, Watch PROVE CalmInv'
<1> PICK p \in pollers :
      PollerWakes(p) \/ PollerHears(p) \/ PollerMisses(p) \/ LeaveBe(p) \/ Surrender(p) \/ Revive(p)
      \/ EndPoller(p)
  BY DEF Watch
<1>1. ASSUME NEW q, q.current = p.current, q.pc # "Closing", UNCHANGED <<job, errand, leaving>>,
             fastCrashes' \in {0, fastCrashes},
             pollers' = (pollers \ {p}) \cup {q} \/ pollers' \subseteq pollers
      PROVE  CalmInv'
  BY <1>1, OthersCalm DEF Closing
<1>2. CASE PollerWakes(p)
  <2> DEFINE q == Poller("Asking", p.current, since = "Mature")
  <2>1. q.current = p.current /\ q.pc # "Closing"
    BY DEF Poller
  <2>2. /\ UNCHANGED <<job, errand, leaving>> /\ fastCrashes' \in {0, fastCrashes}
        /\ pollers' = (pollers \ {p}) \cup {q} \/ pollers' \subseteq pollers
    BY <1>2 DEF PollerWakes
  <2> HIDE DEF q
  <2>. QED  BY <1>1, <2>1, <2>2
<1>3. CASE PollerHears(p)
  <2> DEFINE q == Poller("Asleep", p.current, FALSE)
  <2>1. q.current = p.current /\ q.pc # "Closing"
    BY DEF Poller
  <2>2. UNCHANGED <<job, errand, leaving, fastCrashes>> /\ pollers' = (pollers \ {p}) \cup {q}
    BY <1>3 DEF PollerHears
  <2> HIDE DEF q
  <2>. QED  BY <1>1, <2>1, <2>2
<1>4. CASE PollerMisses(p)
  <2> DEFINE q == Poller("Burying", p.current, p.mature)
  <2>1. q.current = p.current /\ q.pc # "Closing"
    BY DEF Poller
  <2>2. UNCHANGED <<job, errand, leaving, fastCrashes>> /\ pollers' = (pollers \ {p}) \cup {q}
    BY <1>4 DEF PollerMisses
  <2> HIDE DEF q
  <2>. QED  BY <1>1, <2>1, <2>2
<1>5. CASE LeaveBe(p)
  BY <1>5, OthersCalm DEF LeaveBe, Closing
<1>6. CASE Surrender(p)
  <2> DEFINE q == Poller("Closing", FALSE, FALSE)
             left == (pollers \ {p}) \cup {q}
  <2>1. fastCrashes # 0
    BY <1>6, LimitsAssumption DEF Surrender, Strikes, Serial
  <2>2. \A j \in Jobs : job[j].pc \in {"Off", "Closing"}
    <3>1. \A j \in Jobs : job[j].pc # "Begin" /\ job[j].pc \notin Begun
      BY <1>6, <2>1 DEF Surrender, CalmInv
    <3>2. \A j \in Jobs : job[j] \in JobType
      BY DEF TypeOK
    <3>. QED  BY <3>1, <3>2 DEF JobType, Begun
  <2>3. StopAll(job, left) /\ left \subseteq PollerType
    <3>1. q \in PollerType
      BY DEF Poller, PollerType
    <3> HIDE DEF q
    <3>2. left \subseteq PollerType
      BY <3>1 DEF TypeOK
    <3>3. left = (pollers \ {p}) \cup {Poller("Closing", FALSE, FALSE)}
      BY DEF q
    <3> HIDE DEF left
    <3>. QED  BY <1>6, <3>2, <3>3 DEF Surrender
  <2> HIDE DEF left
  <2>. QED  BY <2>2, <2>3, StopCalm DEF TypeOK
<1>7. CASE Revive(p)
  <2>1. PICK j \in Jobs : Free(j) /\ Enter(j)
    BY <1>7 DEF Revive
  <2>2. ~Closing /\ \A q \in pollers' : ~q.current
    BY <1>7 DEF Revive, CalmInv
  <2>. QED  BY <1>7, <2>1, <2>2, EnterCalm DEF Revive
<1>8. CASE EndPoller(p)
  BY <1>8, OthersCalm DEF EndPoller, ShowDown, Closing
<1>. QED  BY <1>2, <1>3, <1>4, <1>5, <1>6, <1>7, <1>8

LEMMA RestCalm ==
  ASSUME TypeOK, CalmInv, Serial,
         \/ FinishErrand \/ Connect \/ Disconnect \/ EndDisconnect
         \/ SaveSettings \/ DeleteServer \/ RefreshServers
         \/ CoreDies \/ GrowUp \/ UNCHANGED vars
  PROVE  CalmInv'
<1>1. ASSUME UNCHANGED <<job, pollers, fastCrashes, leaving>>, errand' \in {errand, "None"}
      PROVE  CalmInv'
  BY <1>1, OthersCalm DEF Closing
<1>2. CASE FinishErrand
  <2>1. CASE errand = "Ours"
    <3>1. PICK j \in Jobs : Free(j) /\ Enter(j)
      BY <1>2, <2>1 DEF FinishErrand
    <3>2. ~Closing
      BY <2>1 DEF CalmInv
    <3>. QED  BY <1>2, <2>1, <3>1, <3>2, EnterCalm DEF FinishErrand
  <2>. QED  BY <1>1, <1>2, <2>1 DEF FinishErrand
<1>3. CASE Connect
  <2>1. PICK j \in Jobs : Free(j) /\ Enter(j)
    BY <1>3 DEF Connect
  <2>. QED  BY <1>3, <2>1, EnterCalm DEF Connect, Requested, Quiet, Serial
<1>4. CASE Disconnect
  <2>1. StopAll(job, pollers) /\ \A j \in Jobs : job[j].pc = "Off"
    BY <1>4 DEF Disconnect, Requested, Quiet, Serial, Free
  <2>. QED  BY <2>1, StopCalm DEF TypeOK
<1>5. CASE EndDisconnect
  BY <1>5, OthersCalm DEF EndDisconnect, ShowDown, Closing
<1>6. CASE SaveSettings \/ DeleteServer
  <2>0. /\ ~Closing /\ (Apply \/ FailToSave)
        /\ UNCHANGED <<pollers, errand, leaving>>
    BY <1>6 DEF SaveSettings, DeleteServer, Requested, Quiet, Serial
  <2>1. CASE Apply /\ IsRunning
    <3>1. PICK j \in Jobs : Free(j) /\ Enter(j)
      BY <2>1 DEF Apply
    <3>. QED  BY <2>0, <2>1, <3>1, EnterCalm DEF Apply
  <2>. QED  BY <1>1, <2>0, <2>1 DEF Apply, FailToSave
<1>7. CASE RefreshServers \/ CoreDies \/ GrowUp \/ UNCHANGED vars
  BY <1>1, <1>7 DEF RefreshServers, CoreDies, GrowUp, vars
<1>. QED  BY <1>2, <1>3, <1>4, <1>5, <1>6, <1>7

(* A shutdown under way is alone.                                          *)
THEOREM ShutdownIsAlone ==
  ASSUME Serial
  PROVE  Spec => [](TypeOK /\ CalmInv)
<1>1. TypeOK /\ CalmInv /\ [Next]_vars => CalmInv'
  BY ProceedCalm, WatchCalm, RestCalm DEF Next
<1>. QED  BY <1>1, InitiallyCalm, SessionTypeCorrect, PTL DEF Spec

-----------------------------------------------------------------------------
(* What the one connect in flight leaves behind.                           *)
LEMMA InitiallySerial == Init => SerialInv
<1> SUFFICES ASSUME Init PROVE FlightInv /\ BuryInv /\ ShownInv /\ ProxyInv
  BY DEF SerialInv
<1>1. \A j \in Jobs : job[j].pc = "Off"
  BY DEF Init, Off, At
<1>2. status.state = "Disconnected" /\ status.proxy = FALSE /\ osProxy = FALSE
  BY DEF Init
<1>3. pollers = {}
  BY DEF Init
<1>. QED  BY <1>1, <1>2, <1>3 DEF FlightInv, BuryInv, ShownInv, ProxyInv, Begun, Up

(* Free(j) /\ Enter(j) is the connect before it has begun.                 *)
LEMMA EnterSerial ==
  ASSUME TypeOK, SerialInv, Serial, NEW j \in Jobs, Free(j), Enter(j),
         UNCHANGED <<file, core, panel, status, osProxy, leaving, slips>>,
         pollers' \subseteq pollers, \A p \in pollers : p.pc = "Closing" => p \in pollers',
         (\E p \in pollers : p.current) =>
           (\E p \in pollers' : p.current) \/ core.state # "Running"
  PROVE  FlightInv' /\ BuryInv' /\ ShownInv' /\ (OneMode => ProxyInv')
<1>1. /\ job[j].pc = "Off" /\ job'[j].pc = "Begin" /\ \A i \in Jobs : i = j
      /\ FlightInv /\ BuryInv /\ ShownInv /\ (OneMode => ProxyInv)
  BY DEF Free, Enter, At, TypeOK, Serial, SerialInv
<1>2. FlightInv' /\ BuryInv'
  BY <1>1 DEF FlightInv, BuryInv, Begun, Up
<1>3. ShownInv'
  <2> SUFFICES ASSUME ~Closing', status.state = "Connected"
               PROVE  /\ panel /\ core.state # "None"
                      /\ (\E p \in pollers' : p.current) \/ core.state = "Dead"
    <3>1. Entered'
      BY <1>1 DEF Entered
    <3>. QED  BY <3>1 DEF ShownInv, Owed, Alone
  <2>1. ~Closing /\ \A i \in Jobs : job[i].pc \notin Begun
    BY <1>1 DEF Closing, Begun, Up
  <2>2. panel /\ core.state # "None" /\ ((\E p \in pollers : p.current) \/ core.state = "Dead")
    BY <1>1, <2>1 DEF ShownInv, Alone
  <2>3. core.state \in {"None", "Running", "Dead"}
    BY DEF TypeOK, CoreType, NoCore
  <2>. QED  BY <2>2, <2>3
<1>4. ASSUME OneMode PROVE ProxyInv'
  BY <1>1, <1>4 DEF ProxyInv, Begun, Up
<1>. QED  BY <1>2, <1>3, <1>4

LEMMA NoneCurrent ==
  ASSUME NEW ps, ps \subseteq PollerType
  PROVE  \A p \in OutdatedPollers(ps) : ~p.current
<1>1. \A p \in ps : [p EXCEPT !.current = FALSE].current = FALSE
  BY DEF PollerType
<1>. QED  BY <1>1 DEF OutdatedPollers

LEMMA ProceedSerial ==
  ASSUME TypeOK, CalmInv, SerialInv, Serial, NEW j \in Jobs, Proceed(j)
  PROVE  FlightInv' /\ BuryInv' /\ ShownInv' /\ (OneMode => ProxyInv')
<1>0. /\ \A i \in Jobs : i = j
      /\ FlightInv /\ BuryInv /\ ShownInv /\ (OneMode => ProxyInv)
      /\ job[j] \in JobType /\ job \in [Jobs -> JobType] /\ pollers \subseteq PollerType
  BY DEF Serial, SerialInv, TypeOK
<1>1. CASE BeginRefused(j)
  <2>1. /\ job[j].pc = "Begin" /\ job'[j].pc = "Off" /\ "Refused" \in slips'
        /\ "Registry" \in slips' <=> "Registry" \in slips
        /\ UNCHANGED <<status, settings, file, core, panel, osProxy, pollers, leaving>>
    BY <1>0, <1>1 DEF BeginRefused, Off, At
  <2>2. Closing' <=> Closing
    BY <1>0, <2>1 DEF Closing
  <2>3. FlightInv' /\ BuryInv'
    BY <1>0, <2>1 DEF FlightInv, BuryInv, Begun, Up
  <2>4. ShownInv'
    BY <1>0, <2>1, <2>2 DEF ShownInv, Owed, Alone, Begun, Up
  <2>. QED  BY <1>0, <2>1, <2>3, <2>4 DEF ProxyInv, Begun, Up
<1>2. CASE Begin(j)
  <2>1. job'[j] = At("Fetch", TRUE, settings.mode) /\ job[j].pc = "Begin"
    BY <1>0, <1>2 DEF Begin, Outdated
  <2>2. \A p \in pollers' : ~p.current
    BY <1>0, <1>2, NoneCurrent DEF Begin
  <2>3. FlightInv' /\ BuryInv' /\ ShownInv'
    BY <1>0, <2>1, <2>2 DEF FlightInv, BuryInv, ShownInv, At, Begun, Up
  <2>4. ASSUME OneMode PROVE ProxyInv'
    <3>1. /\ settings.mode \in Modes /\ status'.proxy = status.proxy /\ osProxy' = osProxy
          /\ "Registry" \in slips' <=> "Registry" \in slips
      BY <1>2 DEF Begin, TypeOK, StatusType, Settings
    <3>. QED  BY <1>0, <2>1, <2>4, <3>1 DEF ProxyInv, At, Begun, Up
  <2>. QED  BY <2>3, <2>4
(* A step along the way that leaves the status alone.                      *)
<1>3. ASSUME NEW pc \in Begun, job[j].pc \in Begun, Goto(j, pc),
             UNCHANGED <<settings, status, pollers, leaving>>
      PROVE  /\ job'[j] = [job[j] EXCEPT !.pc = pc] /\ job'[j].pc = pc
             /\ job'[j].current = job[j].current /\ job'[j].mode = job[j].mode
             /\ job[j].current /\ (\A p \in pollers : ~p.current)
             /\ BuryInv' /\ ShownInv' /\ (Closing' <=> Closing)
  <2>1. job'[j] = [job[j] EXCEPT !.pc = pc]
    BY <1>0, <1>3 DEF Goto
  <2>2. /\ job'[j].pc = pc /\ job'[j].current = job[j].current /\ job'[j].mode = job[j].mode
    BY <1>0, <2>1 DEF JobType
  <2>3. job[j].current /\ \A p \in pollers : ~p.current
    BY <1>0, <1>3 DEF FlightInv
  <2>4. BuryInv' /\ ShownInv'
    BY <1>3, <2>2, <2>3 DEF BuryInv, ShownInv
  <2>5. Closing' <=> Closing
    BY <1>0, <1>3, <2>2 DEF Closing, Begun, Up
  <2>. QED  BY <2>1, <2>2, <2>3, <2>4, <2>5
(* Giving up; if it was the system proxy that failed, that is remembered.  *)
<1>4. ASSUME GiveUp(j), job[j].pc \in Begun \ {"Announce"}, osProxy' \in {osProxy, TRUE},
             \/ UNCHANGED <<osProxy, slips>>
             \/ job[j].mode = "SystemProxy" /\ "Registry" \in slips'
      PROVE  FlightInv' /\ BuryInv' /\ ShownInv' /\ (OneMode => ProxyInv')
  <2>1. job'[j].pc = "Closing" /\ UNCHANGED status /\ \A p \in pollers' : ~p.current
    <3>1. job' = Outdated([job EXCEPT ![j] = At("Closing", FALSE, "None")])
      BY <1>4 DEF GiveUp, StopAll
    <3>2. pollers' = OutdatedPollers(pollers) /\ status' = status
      BY <1>4 DEF GiveUp, StopAll
    <3>. QED  BY <3>1, <3>2, <1>0, NoneCurrent DEF Outdated, At
  <2>2. Closing'
    BY <2>1 DEF Closing
  <2>3. FlightInv' /\ BuryInv' /\ ShownInv'
    BY <1>0, <2>1, <2>2 DEF FlightInv, BuryInv, ShownInv, Begun, Up
  <2>4. ASSUME OneMode PROVE ProxyInv'
    <3>1. osProxy' => "SystemProxy" \in Modes
      BY <1>0, <1>4, <2>4 DEF ProxyInv
    <3>2. status'.proxy => osProxy'
      <4>1. status.proxy => osProxy
        BY <1>0, <2>4 DEF ProxyInv
      <4>2. osProxy => osProxy'
        BY <1>4 DEF TypeOK
      <4>. QED  BY <2>1, <4>1, <4>2
    <3>3. osProxy' => status'.proxy \/ "Registry" \in slips'
      BY <1>0, <1>4, <2>1, <2>4 DEF ProxyInv
    <3>. QED  BY <1>0, <2>1, <3>1, <3>2, <3>3 DEF ProxyInv, Begun, Up
  <2>. QED  BY <2>3, <2>4
<1>5. CASE Prepare(j)
  <2>1. CASE /\ file' = settings /\ Goto(j, "Spawn")
             /\ UNCHANGED <<status, settings, panel, osProxy, pollers, leaving, slips>>
    <3>1. FlightInv'
      BY <1>5, <1>0, <2>1, <1>3 DEF Prepare, FlightInv, Begun, Up
    <3>2. OneMode => ProxyInv'
      BY <1>5, <1>0, <2>1, <1>3 DEF Prepare, ProxyInv, Begun, Up
    <3>. QED  BY <1>5, <2>1, <1>3, <3>1, <3>2 DEF Prepare, Begun
  <2>2. CASE GiveUp(j) /\ UNCHANGED <<osProxy, slips>>
    BY <1>5, <1>4, <2>2 DEF Prepare, Begun
  <2>. QED  BY <1>5, <2>1, <2>2 DEF Prepare
<1>6. CASE Spawn(j)
  <2>1. CASE /\ core' = Run(file) /\ Goto(j, "Await")
             /\ UNCHANGED <<status, settings, file, panel, osProxy, pollers, leaving, slips>>
    <3>1. core'.state = "Running" /\ core'.doc = settings
      BY <1>6, <1>0, <2>1 DEF Spawn, Run, FlightInv
    <3>2. FlightInv'
      BY <1>6, <1>0, <2>1, <3>1, <1>3 DEF Spawn, FlightInv, Begun, Up
    <3>3. OneMode => ProxyInv'
      BY <1>6, <1>0, <2>1, <1>3 DEF Spawn, ProxyInv, Begun, Up
    <3>. QED  BY <1>6, <2>1, <1>3, <3>2, <3>3 DEF Spawn, Begun
  <2>2. CASE GiveUp(j) /\ UNCHANGED <<osProxy, slips>>
    BY <1>6, <1>4, <2>2 DEF Spawn, Begun
  <2>. QED  BY <1>6, <2>1, <2>2 DEF Spawn
<1>7. CASE Answer(j)
  <2>1. /\ job[j].pc = "Await" /\ Goto(j, "Install") /\ ~Closing
        /\ UNCHANGED <<status, settings, file, core, panel, osProxy, pollers, leaving, slips>>
    BY <1>7 DEF Answer, CalmInv
  <2>2. FlightInv' /\ BuryInv' /\ ShownInv'
    BY <1>0, <2>1, <1>3 DEF FlightInv, Begun, Up
  <2>. QED  BY <1>0, <2>1, <2>2, <1>3 DEF ProxyInv, Begun, Up
<1>8. CASE NoAnswer(j)
  BY <1>8, <1>4 DEF NoAnswer, Begun
<1>9. CASE Install(j)
  <2>1. /\ job[j].pc = "Install" /\ Goto(j, "Select") /\ panel'
        /\ UNCHANGED <<status, settings, file, core, osProxy, pollers, leaving, slips>>
    BY <1>9 DEF Install
  <2>2. FlightInv' /\ BuryInv' /\ ShownInv'
    BY <1>0, <2>1, <1>3 DEF FlightInv, Begun, Up
  <2>. QED  BY <1>0, <2>1, <2>2, <1>3 DEF ProxyInv, Begun, Up
<1>10. CASE Enable(j)
  <2>0. job[j].pc = "Select"
    BY <1>10 DEF Enable
  <2>1. CASE /\ \/ job[j].mode = "SystemProxy" /\ osProxy' = TRUE
                \/ job[j].mode # "SystemProxy" /\ osProxy' = osProxy
             /\ Goto(j, "Announce")
             /\ UNCHANGED <<status, settings, file, core, panel, pollers, leaving>>
    <3>1. FlightInv' /\ BuryInv' /\ ShownInv'
      BY <1>0, <2>0, <2>1, <1>3 DEF FlightInv, Begun, Up
    <3>2. ASSUME OneMode PROVE ProxyInv'
      <4>1. job[j].mode \in Modes
        BY <1>0, <2>0, <3>2 DEF ProxyInv, Begun, Up
      <4>2. osProxy' = (job[j].mode = "SystemProxy")
        BY <1>0, <2>1, <3>2, <4>1 DEF OneMode, ProxyInv, TypeOK
      <4>3. job'[j].pc = "Announce" /\ job'[j].mode = job[j].mode /\ status' = status
        BY <1>0, <2>0, <2>1, <1>3 DEF Begun, Up
      <4>4. osProxy => osProxy'
        BY <2>1
      <4>. QED  BY <1>0, <3>2, <4>1, <4>2, <4>3, <4>4 DEF ProxyInv
    <3>. QED  BY <3>1, <3>2
  <2>2. CASE /\ GiveUp(j) /\ job[j].mode = "SystemProxy" /\ osProxy' \in {osProxy, TRUE}
             /\ "Registry" \in slips'
    BY <2>0, <1>4, <2>2 DEF Begun, Up
  <2>. QED  BY <1>10, <2>1, <2>2 DEF Enable
<1>11. CASE Announce(j)
  <2>1. /\ job[j].pc = "Announce" /\ job' = [job EXCEPT ![j] = Off] /\ job'[j].pc = "Off"
        /\ status'.state = "Connected" /\ status'.proxy = (job[j].mode = "SystemProxy")
        /\ pollers' = pollers \cup {Poller("Asleep", job[j].current, FALSE)}
        /\ UNCHANGED <<settings, file, core, panel, osProxy, leaving, slips>>
    BY <1>0, <1>11 DEF Announce, Off, At
  <2>2. /\ job[j].current /\ core.state # "None" /\ core.doc = settings /\ panel
        /\ \A p \in pollers : ~p.current
    BY <1>0, <2>1 DEF FlightInv, Begun, Up
  <2> DEFINE q == Poller("Asleep", job[j].current, FALSE)
  <2>3. q.current = job[j].current /\ q.pc = "Asleep" /\ q \in pollers'
        /\ pollers' = pollers \cup {q}
    BY <2>1 DEF Poller
  <2> HIDE DEF q
  <2>4. FlightInv' /\ BuryInv'
    BY <1>0, <2>1, <2>2, <2>3 DEF FlightInv, BuryInv, Begun, Up
  <2>5. ShownInv'
    BY <2>1, <2>2, <2>3 DEF ShownInv
  <2>. QED  BY <1>0, <2>1, <2>4, <2>5 DEF ProxyInv, Begun, Up
<1>12. CASE EndJob(j)
  <2>1. /\ job[j].pc = "Closing" /\ job'[j].pc = "Off" /\ status'.state = "Error"
        /\ status'.proxy = FALSE /\ UNCHANGED <<core, pollers>>
    BY <1>0, <1>12 DEF EndJob, ShowDown, Off, At
  <2>2. FlightInv' /\ BuryInv' /\ ShownInv'
    BY <1>0, <2>1 DEF FlightInv, BuryInv, ShownInv, Begun, Up
  <2>3. /\ osProxy' => osProxy
        /\ osProxy' => "Registry" \in slips' \/ (~status.proxy /\ UNCHANGED slips)
    BY <1>12 DEF EndJob, ShowDown, Disable
  <2>. QED  BY <1>0, <2>1, <2>2, <2>3 DEF ProxyInv, Begun, Up
<1>. QED  BY <1>1, <1>2, <1>5, <1>6, <1>7, <1>8, <1>9, <1>10, <1>11, <1>12 DEF Proceed

(* A shutdown that ends, of whoever it is, shows no connection.            *)
LEMMA ShowDownSerial ==
  ASSUME TypeOK, SerialInv, Serial, NEW result \in {"Error", "Disconnected"},
         ShowDown(result), Closing, UNCHANGED job, pollers' \subseteq pollers
  PROVE  FlightInv' /\ BuryInv' /\ ShownInv' /\ (OneMode => ProxyInv')
<1>1. /\ FlightInv /\ BuryInv /\ (OneMode => ProxyInv) /\ job' = job
      /\ status'.state = result /\ status'.proxy = FALSE
      /\ UNCHANGED <<settings, file, core, panel>>
  BY DEF ShowDown, SerialInv
<1>2. \A j \in Jobs : job[j].pc \notin Up
  BY <1>1 DEF FlightInv
<1>3. FlightInv' /\ BuryInv' /\ ShownInv'
  BY <1>1, <1>2 DEF FlightInv, BuryInv, ShownInv
<1>4. /\ osProxy' => osProxy
      /\ osProxy' => "Registry" \in slips' \/ (~status.proxy /\ UNCHANGED slips)
  BY DEF ShowDown, Disable
<1>. QED  BY <1>1, <1>2, <1>3, <1>4 DEF ProxyInv, Up

(* What stops everything, no connect having begun.                         *)
LEMMA StopSerial ==
  ASSUME TypeOK, SerialInv, Serial, NEW left, left \subseteq PollerType, StopAll(job, left),
         Closing', UNCHANGED <<osProxy, slips>>, \A j \in Jobs : job[j].pc \notin Begun
  PROVE  FlightInv' /\ BuryInv' /\ ShownInv' /\ (OneMode => ProxyInv')
<1>1. \A j \in Jobs : job'[j].pc = job[j].pc
  <2>1. \A j \in Jobs : job[j] \in JobType
    BY DEF TypeOK
  <2>2. \A j \in Jobs : job'[j] = [job[j] EXCEPT !.current = FALSE]
    BY DEF StopAll, Outdated
  <2>. QED  BY <2>1, <2>2 DEF JobType
<1>2. UNCHANGED status /\ \A p \in pollers' : ~p.current
  BY NoneCurrent DEF StopAll
<1>3. FlightInv' /\ BuryInv'
  <2>1. \A j \in Jobs : job'[j].pc \notin Begun
    BY <1>1
  <2>. QED  BY <2>1, <1>2 DEF FlightInv, BuryInv, Begun, Up
<1>4. ShownInv'
  BY DEF ShownInv
<1>. QED  BY <1>1, <1>2, <1>3, <1>4 DEF SerialInv, ProxyInv, Begun, Up

(* The poller.                                                             *)
LEMMA WatchSerial ==
  ASSUME TypeOK, SerialInv, Serial, Watch
  PROVE  FlightInv' /\ BuryInv' /\ ShownInv' /\ (OneMode => ProxyInv')
<1> PICK p \in pollers :
      PollerWakes(p) \/ PollerHears(p) \/ PollerMisses(p) \/ LeaveBe(p) \/ Surrender(p) \/ Revive(p)
      \/ EndPoller(p)
  BY DEF Watch
<1>0. FlightInv /\ BuryInv /\ ShownInv /\ (OneMode => ProxyInv)
  BY DEF SerialInv
(* It goes on watching, or leaves when it is not its session any more.     *)
<1>1. ASSUME UNCHANGED <<status, settings, file, core, panel, osProxy, job, leaving, slips>>,
             NEW q, q.current = p.current, q.pc # "Closing",
             q.pc = "Burying" => core.state # "Running",
             \/ pollers' = (pollers \ {p}) \cup {q} /\ p.pc # "Closing"
             \/ pollers' = pollers \ {p} /\ p.pc # "Closing" /\ ~Ours(p)
      PROVE  FlightInv' /\ BuryInv' /\ ShownInv' /\ (OneMode => ProxyInv')
  <2>1. Closing' <=> Closing
    BY <1>1 DEF Closing
  <2>2. (\A r \in pollers : ~r.current) => \A r \in pollers' : ~r.current
    BY <1>1
  <2>3. FlightInv' /\ BuryInv'
    BY <1>0, <1>1, <2>1, <2>2 DEF FlightInv, BuryInv
  <2>4. ShownInv'
    BY <1>0, <1>1, <2>1 DEF ShownInv, Ours, Owed, Alone, Entered
  <2>. QED  BY <1>0, <1>1, <2>3, <2>4 DEF ProxyInv
<1>2. CASE PollerWakes(p)
  <2> DEFINE q == Poller("Asking", p.current, since = "Mature")
  <2>1. q.current = p.current /\ q.pc = "Asking" /\ p.pc # "Closing"
    BY <1>2 DEF PollerWakes, Poller
  <2>2. /\ UNCHANGED <<status, settings, file, core, panel, osProxy, job, leaving, slips>>
        /\ \/ pollers' = (pollers \ {p}) \cup {q}
           \/ pollers' = pollers \ {p} /\ ~Ours(p)
    BY <1>2 DEF PollerWakes
  <2> HIDE DEF q
  <2>. QED  BY <1>1, <2>1, <2>2
<1>3. CASE PollerHears(p)
  <2> DEFINE q == Poller("Asleep", p.current, FALSE)
  <2>1. q.current = p.current /\ q.pc = "Asleep" /\ p.pc # "Closing"
    BY <1>3 DEF PollerHears, Poller
  <2>2. /\ UNCHANGED <<status, settings, file, core, panel, osProxy, job, leaving, slips>>
        /\ pollers' = (pollers \ {p}) \cup {q}
    BY <1>3 DEF PollerHears
  <2> HIDE DEF q
  <2>. QED  BY <1>1, <2>1, <2>2
<1>4. CASE PollerMisses(p)
  <2> DEFINE q == Poller("Burying", p.current, p.mature)
  <2>1. q.current = p.current /\ q.pc = "Burying" /\ p.pc # "Closing" /\ core.state # "Running"
    BY <1>4 DEF PollerMisses, Poller
  <2>2. /\ UNCHANGED <<status, settings, file, core, panel, osProxy, job, leaving, slips>>
        /\ pollers' = (pollers \ {p}) \cup {q}
    BY <1>4 DEF PollerMisses
  <2> HIDE DEF q
  <2>. QED  BY <1>1, <2>1, <2>2
<1>5. CASE LeaveBe(p)
  <2> DEFINE q == Poller("Asleep", p.current, FALSE)
  <2>1. q.current = p.current /\ q.pc = "Asleep" /\ p.pc # "Closing" /\ ~Ours(p)
    BY <1>5 DEF LeaveBe, Poller, Ours
  <2>2. /\ UNCHANGED <<status, settings, file, core, panel, osProxy, job, leaving, slips>>
        /\ pollers' = pollers \ {p}
    BY <1>5 DEF LeaveBe
  <2> HIDE DEF q
  <2>. QED  BY <1>1, <2>1, <2>2
<1>6. CASE Surrender(p)
  <2> DEFINE q == Poller("Closing", FALSE, FALSE)
             left == (pollers \ {p}) \cup {q}
  <2>1. /\ StopAll(job, left) /\ UNCHANGED <<osProxy, slips>>
        /\ \A j \in Jobs : job[j].pc \notin Begun
    BY <1>0, <1>6 DEF Surrender, FlightInv
  <2>2. Closing'
    <3>1. [q EXCEPT !.current = FALSE].pc = "Closing"
      BY DEF Poller
    <3>2. [q EXCEPT !.current = FALSE] \in pollers'
      BY <1>6 DEF Surrender, StopAll, OutdatedPollers
    <3>. QED  BY <3>1, <3>2 DEF Closing
  <2>3. left \subseteq PollerType
    <3>1. q \in PollerType
      BY DEF Poller, PollerType
    <3> HIDE DEF q
    <3>. QED  BY <3>1 DEF TypeOK
  <2> HIDE DEF q, left
  <2>. QED  BY <2>1, <2>2, <2>3, StopSerial
(* The poller that goes has found the core dead.                           *)
<1>7. CASE Revive(p)
  <2>1. PICK j \in Jobs : Free(j) /\ Enter(j)
    BY <1>7 DEF Revive
  <2>2. core.state # "Running"
    BY <1>0, <1>7 DEF Revive, BuryInv
  <2>. QED  BY <1>7, <2>1, <2>2, EnterSerial DEF Revive
<1>8. CASE EndPoller(p)
  <2>1. /\ Closing /\ ShowDown("Error") /\ pollers' \subseteq pollers
        /\ UNCHANGED <<job, leaving>>
    BY <1>8 DEF EndPoller, Closing
  <2>. QED  BY <2>1, ShowDownSerial
<1>. QED  BY <1>2, <1>3, <1>4, <1>5, <1>6, <1>7, <1>8

LEMMA RestSerial ==
  ASSUME TypeOK, SerialInv, Serial,
         \/ FinishErrand \/ Connect \/ Disconnect \/ EndDisconnect
         \/ SaveSettings \/ DeleteServer \/ RefreshServers
         \/ CoreDies \/ GrowUp \/ UNCHANGED vars
  PROVE  FlightInv' /\ BuryInv' /\ ShownInv' /\ (OneMode => ProxyInv')
<1>0. FlightInv /\ BuryInv /\ ShownInv /\ (OneMode => ProxyInv)
  BY DEF SerialInv
<1>1. ASSUME UNCHANGED <<status, settings, file, core, panel, osProxy, job, pollers, leaving, slips>>
      PROVE  FlightInv' /\ BuryInv' /\ ShownInv' /\ (OneMode => ProxyInv')
  BY <1>0, <1>1 DEF FlightInv, BuryInv, ShownInv, ProxyInv, Closing, Owed, Alone, Entered
<1>2. CASE FinishErrand
  <2>1. CASE errand = "Ours"
    <3>1. PICK j \in Jobs : Free(j) /\ Enter(j)
      BY <1>2, <2>1 DEF FinishErrand
    <3>. QED  BY <1>2, <3>1, EnterSerial DEF FinishErrand
  <2>2. CASE errand # "Ours"
    BY <1>1, <1>2, <2>2 DEF FinishErrand
  <2>. QED  BY <2>1, <2>2
<1>3. CASE Connect
  <2>1. PICK j \in Jobs : Free(j) /\ Enter(j)
    BY <1>3 DEF Connect
  <2>. QED  BY <1>3, <2>1, EnterSerial DEF Connect
<1>4. CASE Disconnect
  <2>1. /\ StopAll(job, pollers) /\ Closing' /\ UNCHANGED <<osProxy, slips>>
        /\ \A j \in Jobs : job[j].pc \notin Begun
    BY <1>4 DEF Disconnect, Requested, Quiet, Serial, Free, Closing, Begun, Up
  <2>. QED  BY <2>1, StopSerial DEF TypeOK
<1>5. CASE EndDisconnect
  <2>1. Closing /\ ShowDown("Disconnected") /\ UNCHANGED <<job, pollers>>
    BY <1>5 DEF EndDisconnect, Closing
  <2>. QED  BY <2>1, ShowDownSerial
<1>6. CASE SaveSettings \/ DeleteServer
  <2>0. /\ (\A j \in Jobs : job[j].pc = "Off") /\ ~Closing /\ (Apply \/ FailToSave)
        /\ UNCHANGED <<status, file, core, panel, osProxy, pollers, leaving>>
    BY <1>6 DEF SaveSettings, DeleteServer, Requested, Quiet, Serial, Free
  <2>1. CASE Apply /\ IsRunning
    <3>1. PICK j \in Jobs : Free(j) /\ Enter(j)
      BY <2>1 DEF Apply
    <3>. QED  BY <2>0, <2>1, <3>1, EnterSerial DEF Apply
  <2>2. CASE ~(Apply /\ IsRunning)
    <3>1. /\ UNCHANGED job
          /\ "Unsaved" \in slips' \/ status.state # "Connected"
          /\ \A s \in {"Refused", "Registry"} : s \in slips' <=> s \in slips
      BY <2>0, <2>2 DEF Apply, FailToSave, IsRunning
    <3>2. FlightInv' /\ BuryInv'
      BY <1>0, <2>0, <3>1 DEF FlightInv, BuryInv, Begun, Up
    <3>3. ShownInv'
      BY <1>0, <2>0, <3>1 DEF ShownInv, Owed, Alone, Entered, Begun, Up
    <3>. QED  BY <1>0, <2>0, <3>1, <3>2, <3>3 DEF ProxyInv, Begun, Up
  <2>. QED  BY <2>1, <2>2
<1>7. CASE CoreDies
  <2>1. /\ core.state = "Running" /\ core'.state = "Dead" /\ core'.doc = core.doc
        /\ UNCHANGED <<status, settings, file, panel, osProxy, job, pollers, leaving, slips>>
    BY <1>7 DEF CoreDies, TypeOK, CoreType, NoCore
  <2>2. Closing' <=> Closing
    BY <2>1 DEF Closing
  <2>3. FlightInv' /\ BuryInv'
    BY <1>0, <2>1, <2>2 DEF FlightInv, BuryInv
  <2>4. ShownInv'
    BY <1>0, <2>1, <2>2 DEF ShownInv, Owed, Alone, Entered
  <2>. QED  BY <1>0, <2>1, <2>3, <2>4 DEF ProxyInv
<1>8. CASE RefreshServers \/ GrowUp \/ UNCHANGED vars
  BY <1>1, <1>8 DEF RefreshServers, GrowUp, vars
<1>. QED  BY <1>2, <1>3, <1>4, <1>5, <1>6, <1>7, <1>8

(* The invariant of the one connect in flight.                             *)
THEOREM SerialInvariance ==
  ASSUME Serial
  PROVE  Spec => []SerialInv
<1>1. TypeOK /\ CalmInv /\ SerialInv /\ [Next]_vars => SerialInv'
  BY ProceedSerial, WatchSerial, RestSerial DEF Next, SerialInv
<1>. QED  BY <1>1, InitiallySerial, ShutdownIsAlone, PTL DEF Spec

-----------------------------------------------------------------------------
(* A connection that is shown is watched, by a poller of its own session   *)
(* with a client to ask the core with, and has a core (attach_session);    *)
(* unless that core died and its restart was refused (connect_inner, its   *)
(* first returns): a core that runs is watched whatever was refused.       *)
THEOREM ConnectionIsWatched ==
  ASSUME Serial
  PROVE  Spec => []ConnectedIsWatched
<1>1. SerialInv => ConnectedIsWatched
  BY DEF SerialInv, ShownInv, ConnectedIsWatched, Quiet, NoCore, Free, Begun, Up, Alone, Entered
<1>. QED  BY <1>1, SerialInvariance, PTL

(* A connection runs with the settings saved last and the servers the last *)
(* deletion left (save_settings, delete_server, restart_if_running),       *)
(* unless that command could not save them or a restart was refused; and   *)
(* the next connect that is not makes up for either, for what is           *)
(* remembered ends there.                                                  *)
THEOREM SettingsAreApplied ==
  ASSUME Serial
  PROVE  Spec => []SettingsApplied
<1>1. SerialInv => SettingsApplied
  BY DEF SerialInv, ShownInv, SettingsApplied, Quiet, Free, Begun, Up, Owed, Entered
<1>. QED  BY <1>1, SerialInvariance, PTL

(* While the tunnel mode is not changed, the status never claims a system  *)
(* proxy that is off, and knows of one that is on, unless the system       *)
(* failed the app the last time it was asked (attach_session, shutdown).   *)
THEOREM ProxyFlagStaysTrue ==
  ASSUME Serial, OneMode
  PROVE  Spec => []ProxyFlagIsTrue
<1>1. SerialInv => ProxyFlagIsTrue
  BY DEF SerialInv, ProxyInv, ProxyFlagIsTrue, Quiet, Free
<1>. QED  BY <1>1, SerialInvariance, PTL
=============================================================================
