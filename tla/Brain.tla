------------------------------- MODULE Brain -------------------------------
(***************************************************************************)
(* The server balancer of Aurora VPN: the state machine `Brain` of          *)
(* src-tauri/src/core/balancer.rs together with the loop that drives it     *)
(* (spawn_balancer in commands.rs).  The machine never touches the network: *)
(* it says what to probe and when to switch, and is told what came of it.   *)
(*                                                                          *)
(* Time.  One Tick is RETRY_AFTER of the code (five seconds).  Instead of   *)
(* instants the state keeps ages in ticks; an age stops growing at Ancient, *)
(* which is beyond every threshold, and Never stands for `None`.            *)
(*                                                                          *)
(* Data.  Queues are kept as sets: the order in which the code pops them is *)
(* Precedes and ListOrder.  A pending switch remembers the tags `checked`   *)
(* since it was decided on, which is what `probed_at >= since` asks.  The   *)
(* age of the last success is forgotten with a miss, since only a live node *)
(* is asked for it.  Counters saturate where the code stops telling their   *)
(* values apart, and the sweep counters, which the code only compares for   *)
(* equality, are the flags newRound (judged # sweeps) and stranded          *)
(* (stranded_at = sweeps).                                                  *)
(***************************************************************************)
EXTENDS Naturals, Sequences, FiniteSets

CONSTANTS
  Tags,          \* outbound tags of the nodes in the running document
  Safe,          \* those the core may dial on its own: `state.candidates`
  ListOrder,     \* position of a tag in the server list
  Delays,        \* the latencies a probe can measure
  Tolerance,     \* cfg.tolerance
  Interval,      \* cfg.interval, in ticks
  PROBE_EVERY, RETRY_AFTER, FRESH, \* in ticks
  FAIL_LIMIT, STREAK, RECOVER_BASE, CHUNK, SAMPLES,
  MAX_DOUBLINGS, \* recover_needed stops doubling after this many
  LongestStep,   \* ticks until a probe or a call to the core is given up
  Strategies,    \* strategies the user picks during the run
  SteadyUp,      \* nodes that answer every probe, under each strategy
  CoreRefuses,   \* may the core refuse a switch?
  MaxInstalls    \* bound: how often the machine is replaced

Miss == 0        \* a probe that was not answered
PowersOfTwo == <<1, 2, 4, 8, 16, 32>>

ASSUME TagsAssumption ==
  /\ IsFiniteSet(Tags) /\ Tags # {} /\ Safe \subseteq Tags
  /\ ListOrder \in [Tags -> Nat]
  /\ \A t, u \in Tags : ListOrder[t] = ListOrder[u] => t = u
ASSUME DelaysAssumption == Delays \subseteq Nat \ {Miss} /\ Tolerance \in Nat
ASSUME TimesAssumption ==
  /\ {Interval, PROBE_EVERY, RETRY_AFTER, FRESH} \subseteq Nat \ {0}
  /\ RETRY_AFTER <= PROBE_EVERY /\ LongestStep \in Nat \ {0}
ASSUME LimitsAssumption ==
  /\ {FAIL_LIMIT, STREAK, RECOVER_BASE, CHUNK, SAMPLES} \subseteq Nat \ {0}
  /\ MAX_DOUBLINGS \in 0..5 /\ MaxInstalls \in Nat /\ CoreRefuses \in BOOLEAN
ASSUME StrategiesAssumption ==
  /\ Strategies \subseteq {"Manual", "Failover", "Fastest", "Rotate"}
  /\ Strategies # {}
ASSUME SteadyAssumption == SteadyUp \in [Strategies -> SUBSET Tags]

VARIABLES
  strategy, primary, routed, candidates,
  health,           \* tag -> what is known of the node
  sweep, sweeping,  \* rest of the current sweep; was the last step part of it
  lastSweep,        \* age of the last finished sweep, up to Interval
  newRound, rounds, \* a finished sweep not judged yet; decisions made, up to 2
  ahead,            \* Fastest: tag -> rounds in the lead (at most one is not 0)
  primaryOk, primaryDeaths,
  pending,          \* the switch under way
  stranded,         \* gave up for this sweep: nobody is alive
  step,             \* what the driving loop is busy with
  elapsed,          \* ticks the current step has taken
  installs          \* how often the machine was replaced

machine == <<strategy, primary, candidates, installs>>
sweepVars == <<sweep, sweeping, lastSweep>>
judgeVars == <<newRound, rounds, ahead>>
primaryVars == <<primaryOk, primaryDeaths>>
vars == <<machine, routed, health, sweepVars, judgeVars, primaryVars,
          pending, stranded, step, elapsed>>

Smaller(m, n) == IF m <= n THEN m ELSE n
Larger(m, n) == IF m >= n THEN m ELSE n

Ancient == Larger(PROBE_EVERY, FRESH) + (1 + Cardinality(Tags)) * LongestStep
Never == Ancient + 1
Unknown == [samples |-> << >>, fails |-> 0, ok |-> Never, probed |-> Never]
Nobody == [t \in Tags |-> 0]

Pending(why, queue) == [reason |-> why, queue |-> queue, checked |-> {}]
NoPending == Pending("None", {})

Ready == [kind |-> "Ready"]
Idle == [kind |-> "Idle"]
Probe(S) == [kind |-> "Probe", tags |-> S]
Switch(t, why) == [kind |-> "Switch", to |-> t, reason |-> why]
Stranded == [kind |-> "Stranded"]

-----------------------------------------------------------------------------
(* What is known of a node.                                                *)

Alive(t) == health[t].fails = 0 /\ health[t].samples # << >>
Dead(t) == health[t].fails >= FAIL_LIMIT
Latest(t) == health[t].samples[Len(health[t].samples)]

(* sorted[len / 2]: the upper median of the last samples.                  *)
Delay(t) ==
  LET s == health[t].samples
      below(d) == Cardinality({i \in DOMAIN s : s[i] < d})
      upTo(d) == Cardinality({i \in DOMAIN s : s[i] <= d})
  IN  CHOOSE d \in Delays : below(d) <= Len(s) \div 2 /\ Len(s) \div 2 < upTo(d)

-----------------------------------------------------------------------------
(* Where to go.                                                            *)

(* The backup strategy keeps an eye on its primary while traffic is        *)
(* elsewhere, unless dialling the primary could bring the core down.       *)
PrimaryOnWatchMutant == strategy = "Failover" /\ routed # primary
PrimaryOnWatch ==
  strategy = "Failover" /\ routed # primary /\ primary \in candidates

WatchedMutant == IF PrimaryOnWatch THEN {primary} ELSE {routed}
Watched == {routed} \cup (IF PrimaryOnWatch THEN {primary} ELSE {})

Others == candidates \ {routed}

AlternativesMutant == {t \in Others : Alive(t)}
Alternatives == {t \in Others : health[t].fails = 0}

(* Order in which alternatives are tried: the primary, then the live ones  *)
(* by latency, then those never measured; ties in list order.              *)
AlternativeBefore(t, u) ==
  IF PrimaryOnWatch /\ primary \in {t, u} THEN t = primary
  ELSE IF Alive(t) # Alive(u) THEN Alive(t)
  ELSE IF Alive(t) /\ Delay(t) # Delay(u) THEN Delay(t) < Delay(u)
  ELSE ListOrder[t] < ListOrder[u]

(* List order starting after the current node, wrapping around; from the   *)
(* top when the current node is not on the list.                           *)
RotationBeforeMutant(t, u) == ListOrder[t] < ListOrder[u]
RotationBefore(t, u) ==
  LET after(v) == routed \notin candidates \/ ListOrder[v] > ListOrder[routed]
  IN  IF after(t) # after(u) THEN after(t) ELSE ListOrder[t] < ListOrder[u]

Precedes(reason, t, u) ==
  IF reason = "Rotation" THEN RotationBefore(t, u) ELSE AlternativeBefore(t, u)

(* The quickest live alternative by its last sample, first in list order.  *)
Quickest ==
  {t \in Others : Alive(t) /\ \A u \in Others \ {t} : Alive(u) =>
     \/ Latest(t) < Latest(u)
     \/ Latest(t) = Latest(u) /\ ListOrder[t] < ListOrder[u]}

(* Successes in a row before a return: doubled with every death but the first. *)
Doublings == Smaller(IF primaryDeaths = 0 THEN 0 ELSE primaryDeaths - 1, MAX_DOUBLINGS)
RecoverNeeded == RECOVER_BASE * PowersOfTwo[Doublings + 1]
MaxRecover == RECOVER_BASE * PowersOfTwo[MAX_DOUBLINGS + 1]

-----------------------------------------------------------------------------------------------------------------------------------------------
(* Judging by what was measured (fn judge): the switch to begin, if any,   *)
(* and what the judgement leaves behind.                                   *)

Hold == [pending |-> NoPending, newRound |-> newRound, rounds |-> rounds, ahead |-> ahead]

(* One decision per finished sweep (fn take_round).                        *)
Taken == [Hold EXCEPT !.newRound = FALSE, !.rounds = Smaller(rounds + 1, 2)]

Quicker == {t \in Quickest : Latest(t) + Tolerance < Delay(routed)}

(* The quickest candidate is followed at once in the first round, and once *)
(* it is ahead by the tolerance STREAK rounds in a row later on.           *)
FastestRound ==
  LET followed == {t \in Quicker : rounds = 0 \/ ahead[t] + 1 >= STREAK}
      why == IF rounds = 0 THEN "Initial" ELSE "Faster"
  IN  [Taken EXCEPT
         !.pending = IF followed = {} THEN NoPending ELSE Pending(why, followed),
         !.ahead = [t \in Tags |-> IF t \in Quicker \ followed THEN ahead[t] + 1 ELSE 0]]

(* The first round only places; rotation begins with the second.           *)
RotateRound ==
  LET queue == {t \in Others : Alive(t)} IN
  IF rounds = 0 \/ queue = {} THEN Taken
  ELSE [Taken EXCEPT !.pending = Pending("Rotation", queue)]

Return(ok) ==
  IF routed # primary /\ ok >= RecoverNeeded
  THEN [Hold EXCEPT !.pending = Pending("Recovered", {primary})] ELSE Hold

(* The current node is dead: leave it, unless that was given up already.   *)
Leave == IF stranded THEN Hold ELSE [Hold EXCEPT !.pending = Pending("Dead", Alternatives)]

Judgement(ok) ==
  CASE strategy = "Manual" -> Hold
    [] strategy # "Manual" /\ Dead(routed) -> Leave
    [] strategy = "Failover" /\ ~Dead(routed) /\ Alive(routed) -> Return(ok)
    [] strategy = "Fastest" /\ ~Dead(routed) /\ Alive(routed) /\ newRound -> FastestRound
    [] strategy = "Rotate" /\ ~Dead(routed) /\ Alive(routed) /\ newRound -> RotateRound
    [] OTHER -> Hold

-----------------------------------------------------------------------------
(* fn next: each action below is one way through it.                       *)

FreshMutant(t) == Alive(t)
Fresh(t) == Alive(t) /\ health[t].ok <= FRESH
LeftMutant(p) == {t \in p.queue : ~(t \in p.checked /\ Dead(t))}
Left(p) == {t \in p.queue : ~(t \in p.checked /\ health[t].fails > 0)}

(* The head of the queue: a node already checked, else the first in order. *)
Foremost(p) ==
  {t \in Left(p) : \A u \in Left(p) \ {t} :
     IF p.checked \cap {t, u} # {} THEN t \in p.checked ELSE Precedes(p.reason, t, u)}

(* Carry a switch on (fn pending_step): make it, verify the candidate      *)
(* first, or report that nobody is left.                                   *)
Pursue(p) ==
  \/ /\ \E t \in Foremost(p) :
          \/ (t \in p.checked \/ Fresh(t)) /\ step' = Switch(t, p.reason) /\ UNCHANGED sweeping
          \/ ~(t \in p.checked \/ Fresh(t)) /\ step' = Probe({t}) /\ sweeping' = FALSE
     /\ pending' = [p EXCEPT !.queue = Left(p)]
     /\ UNCHANGED stranded
  \/ /\ p.reason = "Dead" /\ Left(p) = {}
     /\ pending' = NoPending
     /\ stranded' = TRUE
     /\ step' = Stranded
     /\ UNCHANGED sweeping

UnderWay == pending # NoPending /\ (Left(pending) # {} \/ pending.reason = "Dead")

(* A return that was given up starts the count of successes anew.          *)
OkAfterPendingMutant == 0
OkAfterPending == IF pending.reason = "Recovered" THEN 0 ELSE primaryOk

Verdict == Judgement(OkAfterPending)

(* What is left behind when nothing is under way, whatever comes next.     *)
Judge ==
  /\ step = Ready
  /\ ~UnderWay
  /\ rounds' = Verdict.rounds
  /\ ahead' = Verdict.ahead
  /\ primaryOk' = OkAfterPending
  /\ elapsed' = 0
  /\ UNCHANGED <<machine, routed, health, primaryDeaths>>

Calm == Judge /\ Verdict.pending = NoPending /\ pending' = NoPending

Overdue ==
  {t \in Watched :
     health[t].probed >= IF health[t].fails > 0 THEN RETRY_AFTER ELSE PROBE_EVERY}

(* The rest of the sweep, or a new one when it is time: the watched nodes  *)
(* have a schedule of their own.                                           *)
RestMutant == IF sweep = {} /\ lastSweep = Interval THEN candidates \ Watched ELSE {}
Rest == IF sweep = {} /\ lastSweep = Interval THEN candidates \ Watched ELSE sweep
Chunk == {t \in Rest : Cardinality({u \in Rest : ListOrder[u] < ListOrder[t]}) < CHUNK}

NextPending ==
  /\ step = Ready
  /\ UnderWay
  /\ Pursue(pending)
  /\ elapsed' = 0
  /\ UNCHANGED <<machine, routed, health, sweep, lastSweep, judgeVars, primaryVars>>

NextDecide ==
  /\ Judge
  /\ Verdict.pending # NoPending
  /\ Pursue(Verdict.pending)
  /\ newRound' = Verdict.newRound
  /\ UNCHANGED <<sweep, lastSweep>>

NextWatch ==
  /\ Calm
  /\ Overdue # {}
  /\ step' = Probe(Overdue)
  /\ sweeping' = FALSE
  /\ newRound' = Verdict.newRound
  /\ UNCHANGED <<sweep, lastSweep, stranded>>

NextSweep ==
  /\ Calm
  /\ Overdue = {} /\ Rest # {}
  /\ step' = Probe(Chunk)
  /\ sweep' = Rest \ Chunk
  /\ sweeping' = TRUE
  /\ newRound' = Verdict.newRound
  /\ UNCHANGED <<lastSweep, stranded>>

(* fn finish_sweep.                                                        *)
FinishSweep == newRound' = TRUE /\ stranded' = FALSE /\ lastSweep' = 0

(* A sweep with nobody to visit is finished as soon as it is due.          *)
NextIdle ==
  /\ Calm
  /\ Overdue = {} /\ Rest = {}
  /\ step' = Idle
  /\ \/ lastSweep = Interval /\ FinishSweep
     \/ lastSweep < Interval /\ newRound' = Verdict.newRound /\ UNCHANGED <<lastSweep, stranded>>
  /\ UNCHANGED <<sweep, sweeping>>

-----------------------------------------------------------------------------
(* What comes of a step.                                                   *)

(* What a probe of these nodes may find.                                   *)
Outcomes(S) ==
  {r \in [S -> Delays \cup {Miss}] :
     \A t \in S \cap SteadyUp[strategy] : r[t] # Miss}

LastSamplesMutant(s) == s
LastSamples(s) == IF Len(s) > SAMPLES THEN Tail(s) ELSE s

(* fn report.                                                              *)
Measured(h, ms) ==
  IF ms = Miss
  THEN [h EXCEPT !.fails = Smaller(@ + 1, FAIL_LIMIT), !.ok = Never, !.probed = 0]
  ELSE [samples |-> LastSamples(Append(h.samples, ms)), fails |-> 0, ok |-> 0, probed |-> 0]

Report ==
  /\ step.kind = "Probe"
  /\ \E r \in Outcomes(step.tags) :
       /\ health' = [t \in Tags |-> IF t \in step.tags THEN Measured(health[t], r[t]) ELSE health[t]]
       /\ primaryOk' = IF primary \notin step.tags \/ routed = primary THEN primaryOk
                       ELSE IF r[primary] = Miss THEN 0 ELSE Smaller(primaryOk + 1, MaxRecover)
  /\ pending' = IF pending = NoPending THEN pending
                ELSE [pending EXCEPT !.checked = @ \cup step.tags]
  /\ sweeping' = FALSE
  /\ IF sweeping /\ sweep = {} THEN FinishSweep ELSE UNCHANGED <<newRound, stranded, lastSweep>>
  /\ step' = Ready
  /\ elapsed' = 0
  /\ UNCHANGED <<machine, routed, sweep, rounds, ahead, primaryDeaths>>

(* The core took the switch: fn commit.  The node is to be checked at once. *)
Commit ==
  /\ step.kind = "Switch"
  /\ primaryDeaths' = IF pending.reason = "Dead" /\ routed = primary
                      THEN Smaller(primaryDeaths + 1, MAX_DOUBLINGS + 1) ELSE primaryDeaths
  /\ routed' = step.to
  /\ health' = [health EXCEPT ![step.to].probed = Never]
  /\ primaryOk' = 0
  /\ ahead' = Nobody
  /\ stranded' = FALSE
  /\ pending' = NoPending
  /\ step' = Ready
  /\ elapsed' = 0
  /\ UNCHANGED <<machine, sweepVars, newRound, rounds>>

(* The core refused it: fn abort.                                          *)
Abort ==
  /\ step.kind = "Switch"
  /\ CoreRefuses
  /\ pending' = NoPending
  /\ step' = Ready
  /\ elapsed' = 0
  /\ UNCHANGED <<machine, routed, health, sweepVars, judgeVars, primaryVars, stranded>>

(* Stranded is only written to the log.                                    *)
Log ==
  /\ step = Stranded
  /\ step' = Ready
  /\ UNCHANGED <<machine, routed, health, sweepVars, judgeVars, primaryVars,
                 pending, stranded, elapsed>>

(* Time passes while the loop naps (at most five seconds: one tick) or     *)
(* waits for an answer.                                                    *)
Older(age) == IF age < Ancient THEN age + 1 ELSE age

Tick ==
  /\ \/ step = Idle /\ step' = Ready /\ UNCHANGED elapsed
     \/ /\ step.kind \in {"Probe", "Switch"} /\ elapsed < LongestStep
        /\ elapsed' = elapsed + 1 /\ UNCHANGED step
  /\ health' = [t \in Tags |-> [health[t] EXCEPT !.ok = Older(@), !.probed = Older(@)]]
  /\ lastSweep' = Smaller(lastSweep + 1, Interval)
  /\ UNCHANGED <<machine, routed, sweep, sweeping, judgeVars, primaryVars, pending,
                 stranded>>

-----------------------------------------------------------------------------
(* The machine is replaced (install_brain: Brain::new and inherit).  What  *)
(* is known of the nodes `h` carries over; decisions under way do not.     *)
Install(s, p, h) ==
  LET C == IF s = "Manual" THEN {} ELSE Safe
      known == C \cup {p}
  IN  /\ installs < MaxInstalls
      /\ installs' = installs + 1
      /\ strategy' = s
      /\ primary' = p
      /\ candidates' = C
      /\ routed' = IF p = primary /\ routed \in known THEN routed ELSE p
      /\ health' = [t \in Tags |-> IF t \in known THEN h[t] ELSE Unknown]
      /\ primaryDeaths' = IF p = primary THEN primaryDeaths ELSE 0
      /\ primaryOk' = 0
      /\ sweep' = {} /\ sweeping' = FALSE
      /\ newRound' = FALSE /\ rounds' = 0 /\ ahead' = Nobody
      /\ pending' = NoPending
      /\ stranded' = FALSE
      /\ UNCHANGED <<lastSweep, elapsed>>

Woken == step' = IF step = Idle THEN Ready ELSE step

(* The user picks a server (set_active_server): strategy off, the step of  *)
(* the loop under way goes on.                                             *)
PickServer == \E t \in Tags : "Manual" \in Strategies /\ Install("Manual", t, health) /\ Woken

(* The user picks a strategy (apply_balancer_settings): the node traffic   *)
(* goes through becomes the primary.                                       *)
PickStrategy == \E s \in Strategies \ {strategy} : Install(s, routed, health) /\ Woken

(* The core died under a node it must not dial on its own: to the machine  *)
(* that node is dead (fn mark_dead).                                       *)
Buried(t) ==
  [health EXCEPT ![t] = [@ EXCEPT !.fails = FAIL_LIMIT, !.ok = Never, !.probed = 0]]

(* The core is gone and comes back with a new session, whose loop starts   *)
(* afresh (handle_core_death, attach_session).                             *)
CoreDeath ==
  /\ Install(strategy, primary,
       IF strategy # "Manual" /\ routed \notin candidates THEN Buried(routed) ELSE health)
  /\ step' = Ready

-----------------------------------------------------------------------------
Init ==
  /\ strategy \in Strategies /\ primary \in Tags
  /\ routed = primary
  /\ candidates = IF strategy = "Manual" THEN {} ELSE Safe
  /\ health = [t \in Tags |-> Unknown]
  /\ sweep = {} /\ sweeping = FALSE /\ lastSweep = Interval
  /\ newRound = FALSE /\ rounds = 0 /\ ahead = Nobody
  /\ primaryOk = 0 /\ primaryDeaths = 0
  /\ pending = NoPending /\ stranded = FALSE
  /\ step = Ready /\ elapsed = 0
  /\ installs = 0

Decide == NextPending \/ NextDecide \/ NextWatch \/ NextSweep \/ NextIdle
Drive == Decide \/ Report \/ Commit \/ Abort \/ Log \/ Tick
Replace == PickServer \/ PickStrategy \/ CoreDeath

Next == Drive \/ Replace

Spec == Init /\ [][Next]_vars
FairSpec == Spec /\ WF_vars(Drive)

-----------------------------------------------------------------------------
(* Properties.                                                             *)

HealthType ==
  [samples : Seq(Delays), fails : 0..FAIL_LIMIT, ok : 0..Never, probed : 0..Never]

(* Every variable stays in its range; in particular counters, ages and     *)
(* samples are bounded and a queue never holds the current node.           *)
TypeOK ==
  /\ strategy \in Strategies /\ primary \in Tags /\ routed \in Tags
  /\ candidates = IF strategy = "Manual" THEN {} ELSE Safe
  /\ health \in [Tags -> HealthType] /\ \A t \in Tags : Len(health[t].samples) <= SAMPLES
  /\ sweep \subseteq candidates /\ sweeping \in BOOLEAN /\ lastSweep \in 0..Interval
  /\ newRound \in BOOLEAN /\ rounds \in 0..2 /\ ahead \in [Tags -> 0..STREAK]
  /\ primaryOk \in 0..MaxRecover /\ primaryDeaths \in 0..(MAX_DOUBLINGS + 1)
  /\ pending \in [reason : {"None", "Dead", "Initial", "Faster", "Rotation", "Recovered"},
                 queue : SUBSET (candidates \ {routed}), checked : SUBSET Tags]
  /\ stranded \in BOOLEAN
  /\ \/ step \in {Ready, Idle, Stranded}
     \/ step.kind = "Probe" /\ step.tags \subseteq Tags
     \/ step.kind = "Switch" /\ step.to \in Tags
  /\ elapsed \in 0..LongestStep /\ installs \in 0..MaxInstalls

(* A primary the core must not dial on its own is never probed while       *)
(* traffic goes through another node, however often the machine is         *)
(* replaced under the loop (watched, probe_tags).                          *)
FragileLeftAlone ==
  step.kind = "Probe" /\ primary \in step.tags \ candidates => routed = primary

Own == pending # NoPending   \* the step under way belongs to this machine

(* A switch the machine itself asked for goes to another candidate whose   *)
(* last check succeeded, during the decision or not longer than FRESH ago; *)
(* a node is fled from only while it is dead (pending_step, judge).        *)
SwitchIsVerified ==
  step.kind = "Switch" /\ Own =>
    /\ step.to \in candidates \ {routed}
    /\ Alive(step.to)
    /\ step.to \in pending.checked \/ health[step.to].ok <= FRESH + elapsed
    /\ step.reason = "Dead" => Dead(routed)

(* Having given up, the machine is right: the current node is dead and no  *)
(* other candidate answered its last check (judge, alternatives).          *)
StrandedIsTrue ==
  [][step' = Stranded /\ step # Stranded =>
       Dead(routed) /\ ~stranded /\ \A t \in Others : health[t].fails > 0]_vars

(* A dead node the core must not dial, as after a crash of the core, is    *)
(* dialled again only once no candidate is left (mark_dead, judge).        *)
DeadFragileNotDialled ==
  [][step'.kind = "Probe" /\ step' # step /\ strategy # "Manual" /\ Dead(routed)
       /\ routed \in step'.tags \ candidates => stranded]_vars

(* Unless it is known to be dead, the node traffic goes through is checked *)
(* on schedule, give or take one sweep chunk, every other candidate being  *)
(* verified in turn and one switch being made (watched_due).               *)
WatchedOnTime ==
  \/ Dead(routed) \/ health[routed].probed = Never
  \/ health[routed].probed < PROBE_EVERY + (2 + Cardinality(Others)) * LongestStep

(* A dead node is left once some candidate answers for good, even if the   *)
(* machine had given up before (judge, finish_sweep).                      *)
DeadIsLeft ==
  (\E t \in Safe : <>[](health[t].fails = 0)) => (Dead(routed) ~> ~Dead(routed))

(* Every candidate is measured again and again: neither the watch on the   *)
(* current node nor the switches keep the sweep from going round.          *)
EveryoneIsMeasured ==
  \A t \in Safe : []<>(step.kind = "Probe" /\ t \in step.tags)

(* Failover comes back: a primary that stops failing is where traffic ends *)
(* up and stays, however often it died before (recover_needed).            *)
ReturnsHome ==
  [](strategy = "Failover") /\ <>[](primary \in candidates /\ health[primary].fails = 0) => <>[](routed = primary)

(* Once every candidate keeps answering, rotation visits each of them over *)
(* and over (rotation_queue).  While one keeps dying it need not: fleeing  *)
(* from it may lead back to where the last round began.                    *)
RotationVisitsAll ==
  [](strategy = "Rotate") /\ <>[](\A t \in Safe : health[t].fails = 0) => \A t \in Safe : []<>(routed = t)

(* The machine keeps the contract of Steering.                             *)
Contract == INSTANCE Steering WITH
  home <- primary,
  allowed <- candidates,
  answering <- {t \in Tags : Alive(t)},
  dead <- {t \in Tags : Dead(t)},
  overtaken <- step.kind = "Switch" /\ ~Own

BrainRefines == Contract!Spec
=============================================================================
