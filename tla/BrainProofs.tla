---------------------------- MODULE BrainProofs ----------------------------
(***************************************************************************)
(* Proofs about Brain, for any number of nodes, any latencies and any       *)
(* thresholds: its type invariant, that a fragile primary is never dialled  *)
(* while traffic is elsewhere, that every switch is verified, and that the  *)
(* machine keeps the contract of Steering.                                  *)
(*                                                                          *)
(* None of these is inductive by itself.  A return to the primary is begun  *)
(* on its count of successes, so that it leads to a candidate only if a     *)
(* fragile primary never has any (FragileUncounted), which rests on its not *)
(* being probed (FragileLeftAlone), which rests on where traffic may be     *)
(* after the machine was replaced in the middle of a probe (TypeOK).  What  *)
(* a switch was decided on stays true while it is verified (PendingInv)     *)
(* because only nodes of its queue are probed meanwhile.                    *)
(***************************************************************************)
EXTENDS Brain, FiniteSetTheorems, TLAPS

USE DEF Miss

FragileUncounted == primary \notin candidates /\ routed # primary => primaryOk = 0

(* What holds of a switch under way.                                       *)
PendingInv ==
  Own =>
    /\ pending.reason # "None"
    /\ pending.reason = "Dead" => Dead(routed)
    /\ pending.reason = "Recovered" => strategy = "Failover" /\ pending.queue \subseteq {primary}
    /\ pending.reason \in {"Initial", "Faster", "Rotation"} =>
         strategy \in {"Fastest", "Rotate"} /\ Alive(routed)
    /\ \A t \in pending.checked : health[t].fails = 0 => health[t].samples # << >>
    /\ step.kind = "Probe" => step.tags \subseteq pending.queue
    /\ step.kind = "Switch" =>
         /\ step.to \in pending.queue /\ step.reason = pending.reason
         /\ Alive(step.to)
         /\ step.to \in pending.checked \/ health[step.to].ok <= FRESH + elapsed

IInv == TypeOK /\ FragileLeftAlone /\ FragileUncounted /\ PendingInv

-----------------------------------------------------------------------------
(* Ages, counters and samples stay in range.                               *)

LEMMA AncientType == Ancient \in Nat /\ Never \in Nat /\ Never = Ancient + 1 /\ FRESH <= Ancient
<1>1. Cardinality(Tags) \in Nat
  BY TagsAssumption, FS_CardinalityType
<1>2. (1 + Cardinality(Tags)) * LongestStep \in Nat
  BY <1>1, TimesAssumption
<1>3. Larger(PROBE_EVERY, FRESH) \in Nat /\ FRESH \in Nat /\ FRESH <= Larger(PROBE_EVERY, FRESH)
  BY TimesAssumption DEF Larger
<1>4. \A x, y \in Nat : FRESH <= x => FRESH <= x + y /\ x + y \in Nat /\ x + y + 1 \in Nat
  BY <1>3
<1>. QED  BY <1>2, <1>3, <1>4 DEF Ancient, Never

LEMMA OlderType ==
  ASSUME NEW age \in 0..Never
  PROVE  Older(age) \in 0..Never /\ Older(age) <= age + 1
  BY AncientType DEF Older

LEMMA RecoverType ==
  ASSUME primaryDeaths \in 0..(MAX_DOUBLINGS + 1)
  PROVE  RecoverNeeded \in Nat \ {0} /\ MaxRecover \in Nat \ {0}
<1>1. Doublings \in 0..5 /\ MAX_DOUBLINGS \in 0..5
  BY LimitsAssumption DEF Doublings, Smaller
<1>2. \A i \in 1..6 : PowersOfTwo[i] \in Nat \ {0}
  BY DEF PowersOfTwo
<1>3. PowersOfTwo[Doublings + 1] \in Nat \ {0} /\ PowersOfTwo[MAX_DOUBLINGS + 1] \in Nat \ {0}
  BY <1>1, <1>2
<1>4. RECOVER_BASE \in Nat \ {0}
  BY LimitsAssumption
<1>. QED  BY <1>3, <1>4 DEF RecoverNeeded, MaxRecover

LEMMA UnknownType == Unknown \in HealthType /\ Len(Unknown.samples) <= SAMPLES
<1>1. << >> \in Seq(Delays) /\ Len(<< >>) = 0
  OBVIOUS
<1>2. SAMPLES \in Nat /\ FAIL_LIMIT \in Nat
  BY LimitsAssumption
<1>. QED  BY <1>1, <1>2, AncientType DEF Unknown, HealthType

(* A measured node has a sample or a failure.                              *)
LEMMA MeasuredType ==
  ASSUME NEW h \in HealthType, Len(h.samples) <= SAMPLES, NEW ms \in Delays \cup {Miss}
  PROVE  /\ Measured(h, ms) \in HealthType
         /\ Len(Measured(h, ms).samples) <= SAMPLES
         /\ Measured(h, ms).fails = 0 => Measured(h, ms).samples # << >>
<1>1. SAMPLES \in Nat \ {0} /\ FAIL_LIMIT \in Nat \ {0} /\ Delays \subseteq Nat \ {0}
  BY LimitsAssumption, DelaysAssumption
<1>2. h.samples \in Seq(Delays) /\ h.fails \in 0..FAIL_LIMIT /\ h.ok \in 0..Never
  BY DEF HealthType
<1>3. CASE ms = Miss
  <2>1. Smaller(h.fails + 1, FAIL_LIMIT) \in 1..FAIL_LIMIT
    BY <1>1, <1>2 DEF Smaller
  <2> DEFINE n == Smaller(h.fails + 1, FAIL_LIMIT)
  <2>2. Measured(h, ms) = [h EXCEPT !.fails = n, !.ok = Never, !.probed = 0]
    BY <1>3 DEF Measured
  <2>3. n \in 0..FAIL_LIMIT /\ n # 0
    BY <2>1, <1>1
  <2>4. Never \in 0..Never /\ 0 \in 0..Never
    BY AncientType
  <2> HIDE DEF n
  <2>. QED  BY <2>2, <2>3, <2>4 DEF HealthType
<1>4. CASE ms # Miss
  <2> DEFINE s == Append(h.samples, ms)
             l == LastSamples(s)
  <2>1. ms \in Delays
    BY <1>4
  <2>2. s \in Seq(Delays) /\ Len(s) = Len(h.samples) + 1 /\ Len(s) \in Nat /\ Len(h.samples) \in Nat
    BY <2>1, <1>2
  <2>3. l \in Seq(Delays) /\ Len(l) \in 1..SAMPLES
    <3>1. CASE Len(s) > SAMPLES
      <4>1. l = Tail(s)
        BY <3>1 DEF LastSamples
      <4>2. s # << >>
        BY <2>2
      <4>3. Tail(s) \in Seq(Delays) /\ Len(Tail(s)) = Len(s) - 1
        BY <2>2, <4>2
      <4>. QED  BY <4>1, <4>3, <2>2, <3>1, <1>1
    <3>2. CASE ~(Len(s) > SAMPLES)
      BY <3>2, <2>2, <1>1 DEF LastSamples
    <3>. QED  BY <3>1, <3>2
  <2>4. l # << >>
    BY <2>3
  <2>5. Measured(h, ms) = [samples |-> l, fails |-> 0, ok |-> 0, probed |-> 0]
    BY <1>4 DEF Measured
  <2>. QED  BY <2>3, <2>4, <2>5, <1>1, AncientType DEF HealthType
<1>. QED  BY <1>3, <1>4

-----------------------------------------------------------------------------
(* Deciding.                                                               *)

(* What is judged holds when the switch begins, and leads to candidates.   *)
LEMMA VerdictType ==
  ASSUME TypeOK, FragileUncounted
  PROVE  /\ Verdict.newRound \in BOOLEAN /\ Verdict.rounds \in 0..2
         /\ Verdict.ahead \in [Tags -> 0..STREAK]
         /\ Verdict.pending # NoPending =>
              LET p == Verdict.pending IN
              /\ p = Pending(p.reason, p.queue)
              /\ p.queue \subseteq candidates \ {routed}
              /\ p.reason \in {"Dead", "Initial", "Faster", "Rotation", "Recovered"}
              /\ p.reason = "Dead" => Dead(routed)
              /\ p.reason = "Recovered" => strategy = "Failover" /\ p.queue \subseteq {primary}
              /\ p.reason \in {"Initial", "Faster", "Rotation"} =>
                   strategy \in {"Fastest", "Rotate"} /\ Alive(routed)
<1> DEFINE V == Verdict
           Good(p) ==
              /\ p = Pending(p.reason, p.queue)
              /\ p.queue \subseteq candidates \ {routed}
              /\ p.reason \in {"Dead", "Initial", "Faster", "Rotation", "Recovered"}
              /\ p.reason = "Dead" => Dead(routed)
              /\ p.reason = "Recovered" => strategy = "Failover" /\ p.queue \subseteq {primary}
              /\ p.reason \in {"Initial", "Faster", "Rotation"} =>
                   strategy \in {"Fastest", "Rotate"} /\ Alive(routed)
           Typed(v) == v.newRound \in BOOLEAN /\ v.rounds \in 0..2 /\ v.ahead \in [Tags -> 0..STREAK]
           Fine(v) == Typed(v) /\ (v.pending # NoPending => Good(v.pending))
<1>1. newRound \in BOOLEAN /\ rounds \in 0..2 /\ ahead \in [Tags -> 0..STREAK]
  BY DEF TypeOK
<1>2. Typed(Hold) /\ Hold.pending = NoPending
  BY <1>1 DEF Hold
<1>3. Typed(Taken) /\ Taken.pending = NoPending
  BY <1>1 DEF Taken, Hold, Smaller
<1>4. ASSUME Dead(routed)
      PROVE  Fine(Leave)
  <2>1. Alternatives \subseteq candidates \ {routed}
    BY DEF Alternatives, Others
  <2>. QED  BY <1>2, <1>4, <2>1 DEF Leave, Hold, Pending
<1>5. ASSUME NEW ok \in 0..MaxRecover, ok # 0 => primaryOk # 0, strategy = "Failover"
      PROVE  Fine(Return(ok))
  <2>1. CASE routed # primary /\ ok >= RecoverNeeded
    <3>1. ok # 0
      BY <2>1, RecoverType DEF TypeOK
    <3>2. primary \in candidates
      BY <2>1, <3>1, <1>5 DEF FragileUncounted
    <3>. QED  BY <1>1, <2>1, <3>2, <1>5 DEF Return, Hold, Pending
  <2>2. CASE ~(routed # primary /\ ok >= RecoverNeeded)
    BY <2>2, <1>2 DEF Return
  <2>. QED  BY <2>1, <2>2
<1>6. ASSUME strategy = "Fastest", Alive(routed)
      PROVE  Fine(FastestRound)
  <2> DEFINE followed == {t \in Quicker : rounds = 0 \/ ahead[t] + 1 >= STREAK}
             why == IF rounds = 0 THEN "Initial" ELSE "Faster"
             lead == [t \in Tags |-> IF t \in Quicker \ followed THEN ahead[t] + 1 ELSE 0]
  <2>1. FastestRound = [Taken EXCEPT
           !.pending = IF followed = {} THEN NoPending ELSE Pending(why, followed), !.ahead = lead]
    BY DEF FastestRound
  <2>2. lead \in [Tags -> 0..STREAK]
    <3>1. STREAK \in Nat \ {0}
      BY LimitsAssumption
    <3>2. ASSUME NEW t \in Tags PROVE (IF t \in Quicker \ followed THEN ahead[t] + 1 ELSE 0) \in 0..STREAK
      <4>1. ahead[t] \in 0..STREAK
        BY <1>1
      <4>. QED  BY <3>1, <4>1
    <3>. QED  BY <3>2
  <2>3. Quicker \subseteq candidates \ {routed}
    BY DEF Quicker, Quickest, Others
  <2>4. FastestRound.newRound = Taken.newRound /\ FastestRound.rounds = Taken.rounds
        /\ FastestRound.ahead = lead
        /\ FastestRound.pending = IF followed = {} THEN NoPending ELSE Pending(why, followed)
    <3> HIDE DEF followed, why, lead
    <3>. QED  BY <2>1 DEF Taken, Hold
  <2>5. Typed(FastestRound)
    <3> HIDE DEF followed, why, lead
    <3>. QED  BY <2>4, <2>2, <1>3
  <2>6. followed \subseteq candidates \ {routed} /\ why \in {"Initial", "Faster"}
    BY <2>3
  <2>7. Good(Pending(why, followed))
    <3> HIDE DEF followed, why, lead
    <3>. QED  BY <2>6, <1>6 DEF Pending
  <2>. QED  BY <2>4, <2>5, <2>7
<1>7. ASSUME strategy = "Rotate", Alive(routed)
      PROVE  Fine(RotateRound)
  <2> DEFINE queue == {t \in Others : Alive(t)}
  <2>1. queue \subseteq candidates \ {routed}
    BY DEF Others
  <2>2. CASE rounds = 0 \/ queue = {}
    BY <2>2, <1>3 DEF RotateRound
  <2>3. CASE ~(rounds = 0 \/ queue = {})
    <3>1. RotateRound = [Taken EXCEPT !.pending = Pending("Rotation", queue)]
      BY <2>3 DEF RotateRound
    <3>2. /\ RotateRound.newRound = Taken.newRound /\ RotateRound.rounds = Taken.rounds
          /\ RotateRound.ahead = Taken.ahead /\ RotateRound.pending = Pending("Rotation", queue)
      <4> HIDE DEF queue
      <4>. QED  BY <3>1 DEF Taken, Hold
    <3>3. Good(Pending("Rotation", queue))
      <4> HIDE DEF queue
      <4>. QED  BY <2>1, <1>7 DEF Pending
    <3>. QED  BY <3>2, <3>3, <1>3
  <2>. QED  BY <2>2, <2>3
<1>8. OkAfterPending \in 0..MaxRecover /\ (OkAfterPending # 0 => primaryOk # 0)
  BY RecoverType DEF OkAfterPending, TypeOK
<1>9. Fine(V)
  <2> HIDE DEF Fine
  <2>1. Fine(Hold)
    BY <1>2 DEF Fine
  <2>. QED  BY <2>1, <1>4, <1>5, <1>6, <1>7, <1>8 DEF Verdict, Judgement
<1>. QED  BY <1>9

(* Carrying a switch on keeps what is known of it.                         *)
GoodPending(p) ==
  /\ p \in [reason : {"Dead", "Initial", "Faster", "Rotation", "Recovered"},
            queue : SUBSET (candidates \ {routed}), checked : SUBSET Tags]
  /\ p.reason = "Dead" => Dead(routed)
  /\ p.reason = "Recovered" => strategy = "Failover" /\ p.queue \subseteq {primary}
  /\ p.reason \in {"Initial", "Faster", "Rotation"} =>
       strategy \in {"Fastest", "Rotate"} /\ Alive(routed)
  /\ \A t \in p.checked : health[t].fails = 0 => health[t].samples # << >>

(* The variables fn pending_step writes, after it.                         *)
Pursued ==
  /\ pending' \in [reason : {"None", "Dead", "Initial", "Faster", "Rotation", "Recovered"},
                   queue : SUBSET (candidates \ {routed}), checked : SUBSET Tags]
  /\ sweeping' \in BOOLEAN /\ stranded' \in BOOLEAN
  /\ \/ step' \in {Ready, Idle, Stranded}
     \/ step'.kind = "Probe" /\ step'.tags \subseteq candidates
     \/ step'.kind = "Switch" /\ step'.to \in Tags
  /\ PendingInv'

LEMMA PursueStep ==
  ASSUME TypeOK, NEW p, GoodPending(p), Pursue(p), elapsed' = 0,
         UNCHANGED <<strategy, primary, candidates, routed, health>>
  PROVE  Pursued
<1>1. /\ candidates \subseteq Tags /\ health \in [Tags -> HealthType]
      /\ sweeping \in BOOLEAN /\ stranded \in BOOLEAN
  BY TagsAssumption DEF TypeOK
<1>2. ASSUME NEW t \in Foremost(p),
             pending' = [p EXCEPT !.queue = Left(p)], UNCHANGED stranded,
             \/ (t \in p.checked \/ Fresh(t)) /\ step' = Switch(t, p.reason) /\ UNCHANGED sweeping
             \/ ~(t \in p.checked \/ Fresh(t)) /\ step' = Probe({t}) /\ sweeping' = FALSE
      PROVE  Pursued
  <2>1. t \in Left(p) /\ Left(p) \subseteq p.queue
    BY <1>2 DEF Foremost, Left
  <2>2. t \in candidates \ {routed} /\ t \in Tags
    BY <2>1, <1>1 DEF GoodPending
  <2>3. /\ pending'.reason = p.reason /\ pending'.queue = Left(p) /\ pending'.checked = p.checked
        /\ pending' \in [reason : {"Dead", "Initial", "Faster", "Rotation", "Recovered"},
                         queue : SUBSET (candidates \ {routed}), checked : SUBSET Tags]
    BY <1>2, <2>1 DEF GoodPending
  <2>4. CASE (t \in p.checked \/ Fresh(t)) /\ step' = Switch(t, p.reason) /\ UNCHANGED sweeping
    <3>1. step'.kind = "Switch" /\ step'.to = t /\ step'.reason = p.reason
      BY <2>4 DEF Switch
    <3>2. health[t].fails \in Nat
      BY <1>1, <2>2, LimitsAssumption DEF HealthType
    <3>3. Alive(t)
      BY <2>1, <2>4, <3>2 DEF Left, Fresh, Alive, GoodPending
    <3>4. t \in p.checked \/ health[t].ok <= FRESH + 0
      BY <2>4, TimesAssumption DEF Fresh
    <3>. QED  BY <1>1, <1>2, <2>1, <2>2, <2>3, <2>4, <3>1, <3>3, <3>4
              DEF Pursued, PendingInv, GoodPending, Own, Dead, Alive
  <2>5. CASE ~(t \in p.checked \/ Fresh(t)) /\ step' = Probe({t}) /\ sweeping' = FALSE
    <3>1. step'.kind = "Probe" /\ step'.tags = {t}
      BY <2>5 DEF Probe
    <3>. QED  BY <1>1, <1>2, <2>1, <2>2, <2>3, <2>5, <3>1
              DEF Pursued, PendingInv, GoodPending, Own, Dead, Alive
  <2>. QED  BY <1>2, <2>4, <2>5
<1>3. CASE /\ p.reason = "Dead" /\ Left(p) = {}
           /\ pending' = NoPending
           /\ stranded' = TRUE
           /\ step' = Stranded
           /\ UNCHANGED sweeping
  BY <1>1, <1>3 DEF Pursued, PendingInv, Own, NoPending, Pending, Stranded
<1>. QED  BY <1>2, <1>3 DEF Pursue

-----------------------------------------------------------------------------
(* The invariant is inductive: one lemma per kind of action.               *)

LEMMA InitIInv == Init => IInv
<1> SUFFICES ASSUME Init PROVE IInv
  OBVIOUS
<1>1. health \in [Tags -> HealthType] /\ \A t \in Tags : Len(health[t].samples) <= SAMPLES
  BY UnknownType DEF Init
<1>2. /\ ahead \in [Tags -> 0..STREAK] /\ lastSweep \in 0..Interval
      /\ elapsed \in 0..LongestStep /\ installs \in 0..MaxInstalls
      /\ primaryDeaths \in 0..(MAX_DOUBLINGS + 1)
  BY LimitsAssumption, TimesAssumption DEF Init, Nobody
<1>3. primaryOk \in 0..MaxRecover
  BY <1>2, RecoverType DEF Init
<1>4. pending = NoPending /\ step = Ready /\ step.kind = "Ready"
  BY DEF Init, Ready
<1>5. pending \in [reason : {"None", "Dead", "Initial", "Faster", "Rotation", "Recovered"},
                    queue : SUBSET (candidates \ {routed}), checked : SUBSET Tags]
  BY <1>4 DEF NoPending, Pending
<1>6. /\ strategy \in Strategies /\ primary \in Tags /\ routed \in Tags
      /\ candidates = IF strategy = "Manual" THEN {} ELSE Safe
      /\ sweep \subseteq candidates /\ rounds \in 0..2
  BY DEF Init
<1>7. sweeping \in BOOLEAN /\ newRound \in BOOLEAN /\ stranded \in BOOLEAN
  BY DEF Init
<1>8. TypeOK
  BY <1>1, <1>2, <1>3, <1>4, <1>5, <1>6, <1>7 DEF TypeOK
<1>. QED  BY <1>4, <1>8 DEF Init, IInv, FragileLeftAlone, FragileUncounted, PendingInv, Own

(* A fragile primary is watched only while traffic goes through it.        *)
LEMMA WatchedFacts ==
  ASSUME TypeOK
  PROVE  /\ Watched \subseteq Tags
         /\ primary \in Watched \ candidates => routed = primary
  BY DEF Watched, PrimaryOnWatch, TypeOK

LEMMA DecidedInv ==
  ASSUME IInv, Pursued,
         UNCHANGED <<strategy, primary, candidates, routed, health, primaryDeaths, installs,
                     sweep, lastSweep>>,
         newRound' \in BOOLEAN, rounds' \in 0..2, ahead' \in [Tags -> 0..STREAK],
         primaryOk' \in 0..MaxRecover, elapsed' \in 0..LongestStep, FragileUncounted'
  PROVE  IInv'
<1>1. MaxRecover' = MaxRecover
  BY DEF MaxRecover
<1>2. candidates \subseteq Tags
  BY TagsAssumption DEF IInv, TypeOK
<1>3. TypeOK'
  BY <1>1, <1>2 DEF IInv, TypeOK, Pursued
<1>4. FragileLeftAlone'
  BY DEF Pursued, FragileLeftAlone, Ready, Idle, Stranded
<1>. QED  BY <1>3, <1>4 DEF IInv, Pursued

LEMMA NextPendingStep == IInv /\ NextPending => IInv'
<1> SUFFICES ASSUME IInv, NextPending PROVE IInv'
  OBVIOUS
<1>1. GoodPending(pending)
  BY DEF IInv, TypeOK, PendingInv, NextPending, UnderWay, Own, GoodPending
<1>2. Pursued
  BY <1>1, PursueStep DEF IInv, NextPending, machine
<1>3. UNCHANGED <<strategy, primary, candidates, routed, health, primaryDeaths, installs,
                  sweep, lastSweep, newRound, rounds, ahead, primaryOk>>
  BY DEF NextPending, machine, judgeVars, primaryVars
<1>4. elapsed' \in 0..LongestStep
  BY TimesAssumption DEF NextPending
<1>. QED  BY <1>2, <1>3, <1>4, DecidedInv DEF IInv, TypeOK, FragileUncounted

(* What a judgement writes, typed.                                         *)
LEMMA JudgeStep ==
  ASSUME IInv, Judge
  PROVE  /\ rounds' \in 0..2 /\ ahead' \in [Tags -> 0..STREAK]
         /\ primaryOk' \in 0..MaxRecover /\ FragileUncounted'
         /\ elapsed' \in 0..LongestStep
         /\ Verdict.newRound \in BOOLEAN
<1>1. Verdict.newRound \in BOOLEAN /\ Verdict.rounds \in 0..2 /\ Verdict.ahead \in [Tags -> 0..STREAK]
  BY VerdictType DEF IInv
<1>2. OkAfterPending \in 0..MaxRecover /\ (OkAfterPending # 0 => primaryOk # 0)
  BY RecoverType DEF OkAfterPending, IInv, TypeOK
<1>. QED  BY <1>1, <1>2, TimesAssumption DEF Judge, machine, IInv, FragileUncounted

LEMMA NextDecideStep == IInv /\ NextDecide => IInv'
<1> SUFFICES ASSUME IInv, NextDecide PROVE IInv'
  OBVIOUS
<1> DEFINE p == Verdict.pending
<1>1. GoodPending(p)
  <2>1. /\ p = Pending(p.reason, p.queue)
        /\ p.queue \subseteq candidates \ {routed}
        /\ p.reason \in {"Dead", "Initial", "Faster", "Rotation", "Recovered"}
        /\ p.reason = "Dead" => Dead(routed)
        /\ p.reason = "Recovered" => strategy = "Failover" /\ p.queue \subseteq {primary}
        /\ p.reason \in {"Initial", "Faster", "Rotation"} =>
             strategy \in {"Fastest", "Rotate"} /\ Alive(routed)
    BY VerdictType DEF NextDecide, IInv
  <2> HIDE DEF p
  <2>. QED  BY <2>1 DEF GoodPending, Pending
<1>2. Pursued
  <2>1. Pursue(p) /\ elapsed' = 0 /\ UNCHANGED <<strategy, primary, candidates, routed, health>>
    BY DEF NextDecide, Judge, machine
  <2> HIDE DEF p
  <2>. QED  BY <1>1, <2>1, PursueStep DEF IInv
<1>3. newRound' \in BOOLEAN
  BY JudgeStep DEF NextDecide
<1>4. UNCHANGED <<strategy, primary, candidates, routed, health, primaryDeaths, installs,
                  sweep, lastSweep>>
  BY DEF NextDecide, Judge, machine
<1>. QED  BY <1>2, <1>3, <1>4, JudgeStep, DecidedInv DEF NextDecide, IInv

(* Whatever is done when nothing is under way.                             *)
LEMMA CalmStep ==
  ASSUME IInv, Calm,
         sweep' \subseteq candidates, sweeping' \in BOOLEAN, lastSweep' \in 0..Interval,
         newRound' \in BOOLEAN, stranded' \in BOOLEAN,
         \/ step' = Idle
         \/ \E S \in SUBSET Tags : /\ step' = Probe(S)
                                   /\ primary \in S \ candidates => routed = primary
  PROVE  IInv'
<1>1. pending' = NoPending /\ pending' \in
         [reason : {"None", "Dead", "Initial", "Faster", "Rotation", "Recovered"},
          queue : SUBSET (candidates' \ {routed'}), checked : SUBSET Tags]
  BY DEF Calm, NoPending, Pending
<1>2. UNCHANGED <<strategy, primary, candidates, routed, health, primaryDeaths, installs>>
  BY DEF Calm, Judge, machine
<1>3. PendingInv'
  BY <1>1 DEF PendingInv, Own, NoPending, Pending
<1>4. /\ \/ step' \in {Ready, Idle, Stranded}
         \/ step'.kind = "Probe" /\ step'.tags \subseteq Tags
      /\ FragileLeftAlone'
  BY <1>2 DEF Probe, Idle, FragileLeftAlone
<1>5. MaxRecover' = MaxRecover
  BY DEF MaxRecover
<1>. QED  BY <1>1, <1>2, <1>3, <1>4, <1>5, JudgeStep DEF IInv, TypeOK, Calm

LEMMA NextWatchStep == IInv /\ NextWatch => IInv'
<1> SUFFICES ASSUME IInv, NextWatch PROVE IInv'
  OBVIOUS
<1>1. Overdue \subseteq Watched
  BY DEF Overdue
<1>2. Overdue \in SUBSET Tags /\ (primary \in Overdue \ candidates => routed = primary)
  BY <1>1, WatchedFacts DEF IInv
<1>3. newRound' \in BOOLEAN
  BY JudgeStep DEF NextWatch, Calm
<1>4. sweep' \subseteq candidates /\ lastSweep' \in 0..Interval /\ stranded' \in BOOLEAN
  BY DEF NextWatch, IInv, TypeOK
<1>. QED  BY <1>2, <1>3, <1>4, CalmStep DEF NextWatch

LEMMA ChunkFacts ==
  ASSUME IInv
  PROVE  Rest \subseteq candidates /\ Chunk \subseteq Rest
  BY DEF IInv, TypeOK, Rest, Chunk

LEMMA NextSweepStep == IInv /\ NextSweep => IInv'
<1> SUFFICES ASSUME IInv, NextSweep PROVE IInv'
  OBVIOUS
<1>1. Chunk \subseteq candidates /\ sweep' \subseteq candidates /\ candidates \subseteq Tags
  BY ChunkFacts, TagsAssumption DEF NextSweep, IInv, TypeOK
<1>2. newRound' \in BOOLEAN
  BY JudgeStep DEF NextSweep, Calm
<1>3. lastSweep' \in 0..Interval /\ stranded' \in BOOLEAN
  BY DEF NextSweep, IInv, TypeOK
<1>. QED  BY <1>1, <1>2, <1>3, CalmStep DEF NextSweep

LEMMA NextIdleStep == IInv /\ NextIdle => IInv'
<1> SUFFICES ASSUME IInv, NextIdle PROVE IInv'
  OBVIOUS
<1>1. sweep' \subseteq candidates /\ sweeping' \in BOOLEAN
  BY DEF NextIdle, IInv, TypeOK
<1>2. newRound' \in BOOLEAN
  BY JudgeStep DEF NextIdle, FinishSweep, Calm
<1>3. stranded' \in BOOLEAN
  BY DEF NextIdle, FinishSweep, IInv, TypeOK
<1>4. lastSweep' \in 0..Interval
  BY TimesAssumption DEF NextIdle, FinishSweep, IInv, TypeOK
<1>. QED  BY <1>1, <1>2, <1>3, <1>4, CalmStep DEF NextIdle

LEMMA ReportStep == IInv /\ Report => IInv'
<1> SUFFICES ASSUME IInv, Report PROVE IInv'
  OBVIOUS
<1> DEFINE S == step.tags
<1>1. step.kind = "Probe" /\ S \subseteq Tags
  BY DEF Report, IInv, TypeOK, Ready, Idle, Stranded
<1>2. PICK r \in Outcomes(S) :
        /\ health' = [t \in Tags |-> IF t \in S THEN Measured(health[t], r[t]) ELSE health[t]]
        /\ primaryOk' = IF primary \notin S \/ routed = primary THEN primaryOk
                        ELSE IF r[primary] = Miss THEN 0 ELSE Smaller(primaryOk + 1, MaxRecover)
  BY DEF Report
<1>3. \A t \in S : r[t] \in Delays \cup {Miss}
  BY <1>2 DEF Outcomes
<1>4. /\ health' \in [Tags -> HealthType] /\ \A t \in Tags : Len(health'[t].samples) <= SAMPLES
      /\ \A t \in S : health'[t].fails = 0 => health'[t].samples # << >>
  <2>1. \A t \in Tags : health[t] \in HealthType /\ Len(health[t].samples) <= SAMPLES
    BY DEF IInv, TypeOK
  <2>2. \A t \in S :
          LET m == Measured(health[t], r[t]) IN
          m \in HealthType /\ Len(m.samples) <= SAMPLES /\ (m.fails = 0 => m.samples # << >>)
    BY <1>1, <1>3, <2>1, MeasuredType
  <2>. QED  BY <1>1, <1>2, <2>1, <2>2
<1>5. primaryOk' \in 0..MaxRecover
  BY <1>2, RecoverType DEF Smaller, IInv, TypeOK
<1>6. FragileUncounted'
  <2>1. UNCHANGED <<primary, candidates, routed>>
    BY DEF Report, machine
  <2>2. primary \in S /\ primary \notin candidates => routed = primary
    BY <1>1 DEF IInv, FragileLeftAlone
  <2>. QED  BY <1>2, <2>1, <2>2 DEF IInv, FragileUncounted
<1>7. /\ UNCHANGED <<strategy, primary, candidates, installs, routed, sweep, rounds, ahead, primaryDeaths>>
      /\ step' = Ready /\ step'.kind = "Ready" /\ elapsed' = 0 /\ sweeping' = FALSE
  BY DEF Report, machine, Ready
<1>8. newRound' \in BOOLEAN /\ stranded' \in BOOLEAN /\ sweeping' \in BOOLEAN
  BY DEF Report, FinishSweep, IInv, TypeOK
<1>9. lastSweep' \in 0..Interval
  BY TimesAssumption DEF Report, FinishSweep, IInv, TypeOK
<1>10. pending' \in [reason : {"None", "Dead", "Initial", "Faster", "Rotation", "Recovered"},
                    queue : SUBSET (candidates \ {routed}), checked : SUBSET Tags]
  BY <1>1 DEF Report, IInv, TypeOK
<1>11. PendingInv'
  <2> SUFFICES ASSUME Own' PROVE PendingInv'
    BY DEF PendingInv
  <2>1. /\ pending # NoPending
        /\ pending'.reason = pending.reason /\ pending'.queue = pending.queue
        /\ pending'.checked = pending.checked \cup S
    BY DEF Report, Own, IInv, TypeOK
  <2>2. routed \notin S
    BY <1>1, <2>1 DEF IInv, PendingInv, Own, TypeOK
  <2>3. health'[routed] = health[routed]
    BY <1>2, <2>2 DEF IInv, TypeOK
  <2>4. \A t \in pending'.checked : health'[t].fails = 0 => health'[t].samples # << >>
    <3> TAKE t \in pending'.checked
    <3>1. CASE t \in S
      BY <3>1, <1>4
    <3>2. CASE t \notin S
      <4>1. t \in pending.checked /\ t \in Tags
        BY <2>1, <3>2 DEF IInv, TypeOK
      <4>. QED  BY <4>1, <3>2, <2>1, <1>2 DEF IInv, PendingInv, Own
    <3>. QED  BY <3>1, <3>2
  <2>. QED  BY <1>7, <2>1, <2>3, <2>4 DEF IInv, PendingInv, Own, Dead, Alive
<1>12. MaxRecover' = MaxRecover
  BY DEF MaxRecover
<1>13. elapsed' \in 0..LongestStep /\ installs' \in 0..MaxInstalls
  BY <1>7, TimesAssumption DEF IInv, TypeOK
<1>14. TypeOK'
  BY <1>4, <1>5, <1>7, <1>8, <1>10, <1>12, <1>9, <1>13 DEF IInv, TypeOK
<1>. QED  BY <1>6, <1>7, <1>11, <1>14 DEF IInv, FragileLeftAlone

(* An action that begins nothing and leaves what is known of the nodes,    *)
(* except when they are to be checked next, and the machine as it was.     *)
LEMMA PassiveStep ==
  ASSUME IInv,
         UNCHANGED <<strategy, primary, candidates, installs, sweep, sweeping, newRound, rounds>>,
         routed' \in Tags, primaryOk' \in 0..MaxRecover, FragileUncounted',
         health' \in [Tags -> HealthType], \A t \in Tags : Len(health'[t].samples) <= SAMPLES,
         ahead' \in [Tags -> 0..STREAK], primaryDeaths' \in 0..(MAX_DOUBLINGS + 1),
         lastSweep' \in 0..Interval, stranded' \in BOOLEAN,
         elapsed' \in 0..LongestStep,
         pending' = NoPending, step' = Ready
  PROVE  IInv'
<1>1. pending' \in [reason : {"None", "Dead", "Initial", "Faster", "Rotation", "Recovered"},
                    queue : SUBSET (candidates' \ {routed'}), checked : SUBSET Tags]
  BY DEF NoPending, Pending
<1>2. MaxRecover' = MaxRecover
  BY DEF MaxRecover
<1>3. TypeOK'
  BY <1>1, <1>2 DEF IInv, TypeOK
<1>4. PendingInv' /\ FragileLeftAlone'
  BY DEF PendingInv, Own, NoPending, Pending, FragileLeftAlone, Ready
<1>. QED  BY <1>3, <1>4 DEF IInv

LEMMA CommitStep == IInv /\ Commit => IInv'
<1> SUFFICES ASSUME IInv, Commit PROVE IInv'
  OBVIOUS
<1>1. step.to \in Tags
  BY DEF Commit, IInv, TypeOK, Ready, Idle, Stranded
<1>2. health' \in [Tags -> HealthType] /\ \A t \in Tags : Len(health'[t].samples) <= SAMPLES
  <2> DEFINE h == [health[step.to] EXCEPT !.probed = Never]
  <2>1. health[step.to] \in HealthType
    BY <1>1 DEF IInv, TypeOK
  <2>2. h \in HealthType /\ h.samples = health[step.to].samples
    BY <2>1, AncientType DEF HealthType
  <2>3. health' = [health EXCEPT ![step.to] = h]
    BY DEF Commit
  <2> HIDE DEF h
  <2>. QED  BY <2>2, <2>3, <1>1 DEF IInv, TypeOK
<1>3. primaryDeaths' \in 0..(MAX_DOUBLINGS + 1)
  <2>1. primaryDeaths \in 0..(MAX_DOUBLINGS + 1)
    BY DEF IInv, TypeOK
  <2>2. primaryDeaths' \in {Smaller(primaryDeaths + 1, MAX_DOUBLINGS + 1), primaryDeaths}
    BY DEF Commit
  <2>. QED  BY <2>1, <2>2, LimitsAssumption DEF Smaller
<1>4. ahead' \in [Tags -> 0..STREAK] /\ primaryOk' \in 0..MaxRecover /\ elapsed' \in 0..LongestStep
  BY LimitsAssumption, TimesAssumption, RecoverType DEF Commit, Nobody, IInv, TypeOK
<1>5. FragileUncounted'
  BY DEF Commit, FragileUncounted
<1>8. stranded' \in BOOLEAN
  BY DEF Commit
<1>6. UNCHANGED <<strategy, primary, candidates, installs, sweep, sweeping, newRound, rounds, lastSweep>>
  BY DEF Commit, machine, sweepVars
<1>7. lastSweep' \in 0..Interval
  BY <1>6 DEF IInv, TypeOK
<1>. QED  BY <1>1, <1>2, <1>3, <1>4, <1>5, <1>6, <1>7, <1>8, PassiveStep DEF Commit

LEMMA AbortStep == IInv /\ Abort => IInv'
<1> SUFFICES ASSUME IInv, Abort PROVE IInv'
  OBVIOUS
<1>1. step.to \in Tags
  BY DEF Abort, IInv, TypeOK, Ready, Idle, Stranded
<1>2. UNCHANGED <<strategy, primary, candidates, installs, sweep, sweeping, newRound, rounds,
                  routed, primaryOk, health, ahead, primaryDeaths, lastSweep, stranded>>
  BY DEF Abort, machine, sweepVars, judgeVars, primaryVars
<1>3. elapsed' \in 0..LongestStep
  BY <1>1, TimesAssumption DEF Abort, IInv, TypeOK
<1>4. FragileUncounted'
  BY <1>2 DEF IInv, FragileUncounted
<1>. QED  BY <1>2, <1>3, <1>4, PassiveStep DEF Abort, IInv, TypeOK

LEMMA LogStep == IInv /\ Log => IInv'
<1> SUFFICES ASSUME IInv, Log PROVE IInv'
  OBVIOUS
<1>1. step' = Ready /\ step'.kind = "Ready"
  BY DEF Log, Ready
<1>2. UNCHANGED <<strategy, primary, candidates, installs, sweep, sweeping, newRound, rounds,
                  routed, primaryOk, health, ahead, primaryDeaths, lastSweep, stranded,
                  pending, elapsed>>
  BY DEF Log, machine, sweepVars, judgeVars, primaryVars
<1>3. TypeOK'
  BY <1>1, <1>2 DEF IInv, TypeOK, MaxRecover
<1>. QED  BY <1>1, <1>2, <1>3
          DEF IInv, FragileUncounted, FragileLeftAlone, PendingInv, Own, Dead, Alive

LEMMA TickStep == IInv /\ Tick => IInv'
<1> SUFFICES ASSUME IInv, Tick PROVE IInv'
  OBVIOUS
<1>1. UNCHANGED <<strategy, primary, candidates, installs, sweep, sweeping, newRound, rounds,
                  routed, primaryOk, ahead, primaryDeaths, stranded, pending>>
  BY DEF Tick, machine, judgeVars, primaryVars
<1>2. lastSweep' \in 0..Interval
  <2>1. lastSweep \in 0..Interval /\ lastSweep' = Smaller(lastSweep + 1, Interval)
    BY DEF Tick, IInv, TypeOK
  <2>. QED  BY <2>1, TimesAssumption DEF Smaller
<1>3. \A t \in Tags : /\ health'[t] \in HealthType
                      /\ health'[t].samples = health[t].samples /\ health'[t].fails = health[t].fails
                      /\ health'[t].ok <= health[t].ok + 1
  <2> TAKE t \in Tags
  <2>1. health[t] \in HealthType
    BY DEF IInv, TypeOK
  <2>2. health'[t] = [health[t] EXCEPT !.ok = Older(health[t].ok), !.probed = Older(health[t].probed)]
    BY DEF Tick
  <2>3. /\ Older(health[t].ok) \in 0..Never /\ Older(health[t].probed) \in 0..Never
        /\ Older(health[t].ok) <= health[t].ok + 1
    BY <2>1, OlderType DEF HealthType
  <2>. QED  BY <2>1, <2>2, <2>3 DEF HealthType
<1>4. health' \in [Tags -> HealthType] /\ \A t \in Tags : Len(health'[t].samples) <= SAMPLES
  BY <1>3 DEF Tick, IInv, TypeOK
<1>5. \/ step = Idle /\ step' = Ready /\ step'.kind = "Ready" /\ elapsed' = elapsed
      \/ step.kind \in {"Probe", "Switch"} /\ step' = step /\ elapsed' = elapsed + 1
         /\ elapsed < LongestStep
  <2>1. Ready.kind = "Ready"
    BY DEF Ready
  <2>. QED  BY <2>1, Zenon DEF Tick
<1>6. elapsed' \in 0..LongestStep
  BY <1>5, TimesAssumption DEF IInv, TypeOK
<1>7. TypeOK'
  BY <1>1, <1>2, <1>4, <1>5, <1>6 DEF IInv, TypeOK, MaxRecover
<1>8. FragileLeftAlone' /\ FragileUncounted'
  BY <1>1, <1>5 DEF IInv, FragileLeftAlone, FragileUncounted
<1>9. PendingInv'
  <2> SUFFICES ASSUME Own PROVE PendingInv'
    BY <1>1 DEF PendingInv, Own
  <2>1. \A t \in Tags : (Dead(t) => Dead(t)') /\ (Alive(t) => Alive(t)')
    BY <1>3 DEF Dead, Alive
  <2>2. \A t \in pending.checked : t \in Tags
    BY DEF IInv, TypeOK
  <2>3. ASSUME step.kind = "Switch", step' = step, elapsed' = elapsed + 1
        PROVE  /\ Alive(step.to)'
               /\ step.to \in pending.checked \/ health'[step.to].ok <= FRESH + elapsed'
    <3>1. step.to \in Tags
      BY <2>3 DEF IInv, TypeOK, Ready, Idle, Stranded
    <3>2. health[step.to].ok \in Nat /\ health'[step.to].ok \in Nat /\ FRESH \in Nat /\ elapsed \in Nat
      <4>1. health[step.to] \in HealthType /\ health'[step.to] \in HealthType /\ elapsed \in 0..LongestStep
        BY <3>1, <1>3 DEF IInv, TypeOK
      <4>. QED  BY <4>1, AncientType, TimesAssumption DEF HealthType
    <3>3. Alive(step.to)'
      BY <3>1, <2>1, <2>3 DEF IInv, PendingInv
    <3>4. step.to \in pending.checked \/ health[step.to].ok <= FRESH + elapsed
      BY <2>3 DEF IInv, PendingInv
    <3>. QED  BY <3>1, <3>2, <3>3, <3>4, <1>3, <2>3
  <2>. QED  BY <1>1, <1>3, <1>5, <2>1, <2>2, <2>3 DEF IInv, PendingInv, Own, TypeOK
<1>. QED  BY <1>7, <1>8, <1>9 DEF IInv

(* The machine is replaced while the loop may be in the middle of a step.  *)
LEMMA InstallStep ==
  ASSUME IInv, NEW str \in Strategies, NEW p \in Tags, NEW h \in [Tags -> HealthType],
         \A t \in Tags : Len(h[t].samples) <= SAMPLES,
         Install(str, p, h),
         step' = Ready \/ step' = step
  PROVE  IInv'
<1> DEFINE C == IF str = "Manual" THEN {} ELSE Safe
           known == C \cup {p}
<1>1. /\ strategy' = str /\ primary' = p /\ candidates' = C
      /\ routed' = IF p = primary /\ routed \in known THEN routed ELSE p
      /\ health' = [t \in Tags |-> IF t \in known THEN h[t] ELSE Unknown]
      /\ primaryDeaths' = IF p = primary THEN primaryDeaths ELSE 0
      /\ primaryOk' = 0 /\ sweep' = {} /\ rounds' = 0 /\ ahead' = Nobody
      /\ pending' = NoPending /\ lastSweep' = lastSweep /\ elapsed' = elapsed
      /\ installs < MaxInstalls /\ installs' = installs + 1
  BY DEF Install
<1>2. sweeping' \in BOOLEAN /\ newRound' \in BOOLEAN /\ stranded' \in BOOLEAN
  BY DEF Install
<1>3. health' \in [Tags -> HealthType] /\ \A t \in Tags : Len(health'[t].samples) <= SAMPLES
  <2> HIDE DEF known
  <2>. QED  BY <1>1, UnknownType
<1>4. installs' \in 0..MaxInstalls
  <2>1. installs \in 0..MaxInstalls
    BY DEF IInv, TypeOK
  <2>. QED  BY <1>1, <2>1, LimitsAssumption
<1>5. primaryOk' \in 0..MaxRecover' /\ ahead' \in [Tags -> 0..STREAK]
  BY <1>1, RecoverType, LimitsAssumption DEF Nobody, MaxRecover, IInv, TypeOK
<1>6. primaryDeaths' \in 0..(MAX_DOUBLINGS + 1)
  <2>1. primaryDeaths \in 0..(MAX_DOUBLINGS + 1)
    BY DEF IInv, TypeOK
  <2>. QED  BY <1>1, <2>1, LimitsAssumption
<1>7. pending' \in [reason : {"None", "Dead", "Initial", "Faster", "Rotation", "Recovered"},
                    queue : SUBSET (candidates' \ {routed'}), checked : SUBSET Tags]
  BY <1>1 DEF NoPending, Pending
<1>8. /\ lastSweep' \in 0..Interval /\ elapsed' \in 0..LongestStep
      /\ \/ step' \in {Ready, Idle, Stranded}
         \/ step'.kind = "Probe" /\ step'.tags \subseteq Tags
         \/ step'.kind = "Switch" /\ step'.to \in Tags
  BY <1>1 DEF IInv, TypeOK
<1>9. routed' \in Tags
  BY <1>1 DEF IInv, TypeOK
<1>10. TypeOK'
  BY <1>1, <1>2, <1>3, <1>4, <1>5, <1>6, <1>7, <1>8, <1>9 DEF TypeOK
<1>11. PendingInv' /\ FragileUncounted'
  BY <1>1 DEF PendingInv, Own, FragileUncounted
<1>12. FragileLeftAlone'
  <2> SUFFICES ASSUME step'.kind = "Probe", p \in step'.tags, p \notin C, routed' # p
               PROVE  FALSE
    BY <1>1 DEF FragileLeftAlone
  <2>1. p = primary /\ routed \in known /\ routed # primary
    BY <1>1
  <2>2. str # "Manual" /\ primary \notin Safe
    BY <2>1
  <2>3. primary \notin candidates
    BY <2>2 DEF IInv, TypeOK
  <2>4. step'.kind = "Probe" /\ step' # Ready
    BY DEF Ready
  <2>. QED  BY <2>1, <2>3, <2>4 DEF IInv, FragileLeftAlone
<1>. QED  BY <1>10, <1>11, <1>12 DEF IInv

LEMMA ReplaceStep == IInv /\ Replace => IInv'
<1> SUFFICES ASSUME IInv, Replace PROVE IInv'
  OBVIOUS
<1>1. /\ strategy \in Strategies /\ primary \in Tags /\ routed \in Tags
      /\ health \in [Tags -> HealthType] /\ \A t \in Tags : Len(health[t].samples) <= SAMPLES
  BY DEF IInv, TypeOK
<1>2. CASE PickServer
  BY <1>1, <1>2, InstallStep DEF PickServer, Woken
<1>3. CASE PickStrategy
  BY <1>1, <1>3, InstallStep DEF PickStrategy, Woken
<1>4. CASE CoreDeath
  <2>1. Buried(routed) \in [Tags -> HealthType] /\ \A t \in Tags : Len(Buried(routed)[t].samples) <= SAMPLES
    <3> DEFINE b == [health[routed] EXCEPT !.fails = FAIL_LIMIT, !.ok = Never, !.probed = 0]
    <3>1. health[routed] \in HealthType
      BY <1>1
    <3>2. b \in HealthType /\ b.samples = health[routed].samples
      <4>1. FAIL_LIMIT \in 0..FAIL_LIMIT /\ Never \in 0..Never /\ 0 \in 0..Never
        BY AncientType, LimitsAssumption
      <4>. QED  BY <3>1, <4>1 DEF HealthType
    <3>3. Buried(routed) = [health EXCEPT ![routed] = b]
      BY DEF Buried
    <3> HIDE DEF b
    <3>. QED  BY <1>1, <3>2, <3>3
  <2>2. CASE strategy # "Manual" /\ routed \notin candidates
    BY <1>1, <1>4, <2>1, <2>2, InstallStep DEF CoreDeath
  <2>3. CASE ~(strategy # "Manual" /\ routed \notin candidates)
    BY <1>1, <1>4, <2>3, InstallStep DEF CoreDeath
  <2>. QED  BY <2>2, <2>3
<1>. QED  BY <1>2, <1>3, <1>4 DEF Replace

LEMMA StutterStep == IInv /\ UNCHANGED vars => IInv'
  BY DEF vars, machine, sweepVars, judgeVars, primaryVars, IInv, TypeOK, FragileLeftAlone,
         FragileUncounted, PendingInv, Own, Dead, Alive, MaxRecover

(* The inductive invariant holds of the balancer.                          *)
THEOREM Invariance == Spec => []IInv
<1>1. IInv /\ [Next]_vars => IInv'
  BY NextPendingStep, NextDecideStep, NextWatchStep, NextSweepStep, NextIdleStep,
     ReportStep, CommitStep, AbortStep, LogStep, TickStep, ReplaceStep, StutterStep
  DEF Next, Drive, Decide
<1>. QED  BY <1>1, InitIInv, PTL DEF Spec

(* Type correctness of the balancer (fn next, report, commit, inherit).    *)
THEOREM TypeCorrect == Spec => []TypeOK
  BY Invariance, PTL DEF IInv

(* A primary the core must not dial on its own is never probed while       *)
(* traffic goes through another node (watched, is_safe).                   *)
THEOREM FragileIsLeftAlone == Spec => []FragileLeftAlone
  BY Invariance, PTL DEF IInv

(* Every switch the machine asks for leads to another candidate that       *)
(* answered its last check recently enough (pending_step, judge).          *)
THEOREM SwitchesAreVerified == Spec => []SwitchIsVerified
<1>1. IInv => SwitchIsVerified
  BY DEF IInv, TypeOK, PendingInv, SwitchIsVerified
<1>. QED  BY <1>1, Invariance, PTL

-----------------------------------------------------------------------------
(* The contract.                                                           *)

Answering == {t \in Tags : Alive(t)}
Lost == {t \in Tags : Dead(t)}
Overtaken == step.kind = "Switch" /\ ~Own

LEMMA LostAreSilent ==
  ASSUME IInv PROVE Lost \in SUBSET (Tags \ Answering) /\ Answering \in SUBSET Tags
  BY LimitsAssumption DEF Lost, Answering, Dead, Alive

(* As long as neither the machine nor traffic nor the fate of a switch     *)
(* under way changes, checks merely come in.                               *)
LEMMA HearStep ==
  ASSUME IInv, IInv', UNCHANGED <<strategy, primary, candidates, routed>>, Overtaken' = Overtaken
  PROVE  Contract!Hear
<1>1. Answering' \in SUBSET Tags /\ Lost' \in SUBSET (Tags \ Answering')
  BY LimitsAssumption DEF Lost, Answering, Dead, Alive
<1>. QED  BY <1>1 DEF Contract!Hear, Contract!chosen, Answering, Lost, Overtaken

(* The machine keeps the contract of Steering: every step of the loop is   *)
(* one of its steps, or changes nothing the contract speaks of.            *)
THEOREM KeepsContract == Spec => BrainRefines
<1>1. Init => Contract!Init
  BY LimitsAssumption DEF Init, Contract!Init, Unknown, Alive, Dead, Ready
<1>2. IInv /\ IInv' /\ [Next]_vars => [Contract!Next]_Contract!vars
  <2> SUFFICES ASSUME IInv, IInv', [Next]_vars PROVE [Contract!Next]_Contract!vars
    OBVIOUS
  <2>1. ASSUME Contract!Hear PROVE [Contract!Next]_Contract!vars
    BY <2>1 DEF Contract!Next
  <2>2. CASE Decide \/ Log \/ Tick \/ Report
    <3>1. UNCHANGED <<strategy, primary, candidates, routed>>
      BY <2>2 DEF Decide, NextPending, NextDecide, NextWatch, NextSweep, NextIdle, Calm, Judge,
                  Log, Tick, Report, machine
    <3>2. Overtaken' = Overtaken
      <4>1. CASE NextPending
        <5>1. pending' # NoPending \/ step' = Stranded
          BY <4>1 DEF NextPending, UnderWay, Pursue, NoPending, Pending, IInv, TypeOK, PendingInv, Own
        <5>. QED  BY <4>1, <5>1 DEF Overtaken, NextPending, Ready, Stranded, Own
      <4>2. CASE NextDecide
        <5> DEFINE p == Verdict.pending
        <5>1. p = Pending(p.reason, p.queue) /\ p.reason # "None" /\ Pursue(p)
          BY <4>2, VerdictType DEF NextDecide, IInv
        <5>2. pending' # NoPending \/ step' = Stranded
          <6> HIDE DEF p
          <6>. QED  BY <5>1 DEF Pursue, NoPending, Pending
        <5>. QED  BY <4>2, <5>2 DEF Overtaken, NextDecide, Judge, Ready, Stranded, Own
      <4>3. CASE NextWatch \/ NextSweep \/ NextIdle
        BY <4>3 DEF NextWatch, NextSweep, NextIdle, Calm, Judge, Overtaken, Ready, Probe, Idle
      <4>4. CASE Log
        BY <4>4 DEF Log, Overtaken, Ready, Stranded
      <4>5. CASE Tick
        <5>1. pending' = pending /\ (step' = step \/ (step = Idle /\ step' = Ready))
          BY <4>5 DEF Tick
        <5>2. Idle.kind # "Switch" /\ Ready.kind # "Switch"
          BY DEF Idle, Ready
        <5>. QED  BY <5>1, <5>2 DEF Overtaken, Own
      <4>6. CASE Report
        BY <4>6 DEF Report, Overtaken, Ready
      <4>. QED  BY <2>2, <4>1, <4>2, <4>3, <4>4, <4>5, <4>6 DEF Decide
    <3>. QED  BY <2>1, <3>1, <3>2, HearStep
  <2>3. CASE Commit
    <3>1. step.to \in Tags
      BY <2>3 DEF Commit, IInv, TypeOK, Ready, Idle, Stranded
    <3>2. \A t \in Tags : health'[t].fails = health[t].fails /\ health'[t].samples = health[t].samples
      <4>1. health' = [health EXCEPT ![step.to] = [health[step.to] EXCEPT !.probed = Never]]
        BY <2>3 DEF Commit
      <4>2. health \in [Tags -> HealthType]
        BY DEF IInv, TypeOK
      <4>3. health[step.to] \in HealthType
        BY <4>2, <3>1
      <4>. QED  BY <4>1, <4>2, <4>3 DEF HealthType
    <3>3. Answering' = Answering /\ Lost' = Lost
      BY <3>2 DEF Answering, Lost, Alive, Dead
    <3>4. /\ UNCHANGED <<strategy, primary, candidates>> /\ routed' = step.to
          /\ ~Overtaken' /\ step.kind = "Switch"
      BY <2>3 DEF Commit, machine, Overtaken, Ready
    <3>5. CASE Own
      <4>1. step.to \in (candidates \cap Answering) \ {routed}
        BY <3>1, <3>4, <3>5 DEF IInv, TypeOK, PendingInv, Answering
      <4>2. \/ routed \in Lost
            \/ strategy = "Failover" /\ step.to = primary
            \/ strategy \in {"Fastest", "Rotate"} /\ routed \in Answering
        BY <3>4, <3>5 DEF IInv, TypeOK, PendingInv, Answering, Lost, Own
      <4>3. ~Overtaken
        BY <3>5 DEF Overtaken
      <4>4. Contract!Steer
        BY <3>3, <3>4, <4>1, <4>2, <4>3
           DEF Contract!Steer, Contract!chosen, Contract!Flee, Contract!Return, Contract!Follow,
               Answering, Lost, Overtaken
      <4>. QED  BY <4>4 DEF Contract!Next
    <3>6. CASE ~Own
      <4>1. Contract!Late
        BY <3>1, <3>3, <3>4, <3>6 DEF Contract!Late, Contract!chosen, Answering, Lost, Overtaken
      <4>. QED  BY <4>1 DEF Contract!Next
    <3>. QED  BY <3>5, <3>6
  <2>4. CASE Abort
    <3>1. /\ UNCHANGED <<strategy, primary, candidates, routed, health>>
          /\ ~Overtaken' /\ step.kind = "Switch"
      BY <2>4 DEF Abort, machine, Overtaken, Ready
    <3>2. Answering' = Answering /\ Lost' = Lost
      BY <3>1 DEF Answering, Lost, Alive, Dead
    <3>3. CASE Own
      BY <2>1, <3>1, <3>3, HearStep DEF Overtaken
    <3>4. CASE ~Own
      <4>1. Contract!Refuse
        BY <3>1, <3>2, <3>4 DEF Contract!Refuse, Contract!chosen, Answering, Lost, Overtaken
      <4>. QED  BY <4>1 DEF Contract!Next
    <3>. QED  BY <3>3, <3>4
  <2>5. CASE Replace
    <3>1. PICK str \in Strategies, p \in Tags :
            /\ strategy' = str /\ primary' = p
            /\ candidates' = IF str = "Manual" THEN {} ELSE Safe
            /\ routed' \in {routed, p} /\ (p # primary => routed' = p)
      BY <2>5 DEF Replace, PickServer, PickStrategy, CoreDeath, Install, IInv, TypeOK
    <3>2. Answering' \in SUBSET Tags /\ Lost' \in SUBSET (Tags \ Answering')
      BY LimitsAssumption DEF Lost, Answering, Dead, Alive
    <3>3. Overtaken' \in BOOLEAN
      BY DEF Overtaken
    <3>4. Contract!Choose
      BY <3>1, <3>2, <3>3 DEF Contract!Choose, Answering, Lost, Overtaken
    <3>. QED  BY <3>4 DEF Contract!Next
  <2>6. CASE UNCHANGED vars
    BY <2>1, <2>6, HearStep DEF vars, machine, Overtaken, Own
  <2>. QED  BY <2>2, <2>3, <2>4, <2>5, <2>6 DEF Next, Drive
<1>. QED  BY <1>1, <1>2, Invariance, PTL DEF BrainRefines, Spec, Contract!Spec

(***************************************************************************)
(* What no step of the machine ever does: give up while somebody may be    *)
(* alive, and dial a dead fragile node while a candidate is left.          *)
(*                                                                          *)
(* That giving up is justified is decided long before it happens: the      *)
(* queue of a flight starts with everybody who has not failed, and loses   *)
(* only those checked in vain, while nobody outside of it is probed        *)
(* (FleeInv).                                                              *)
(***************************************************************************)
Fleeing == Own /\ pending.reason = "Dead"

(* Somebody who may be alive is in the queue of a flight.                  *)
FleeInv == Fleeing => ~stranded /\ \A t \in Others \ pending.queue : health[t].fails > 0

LEMMA FailsType == ASSUME TypeOK, NEW t \in Tags PROVE health[t].fails \in Nat
  BY LimitsAssumption DEF TypeOK, HealthType

LEMMA OthersAreTags == TypeOK => Others \subseteq Tags
  BY TagsAssumption DEF TypeOK, Others

(* Only a dead node that was not given up yet is fled from.                *)
LEMMA VerdictFlees ==
  ASSUME strategy \in {"Manual", "Failover", "Fastest", "Rotate"}, Verdict.pending.reason = "Dead"
  PROVE  Verdict.pending.queue = Alternatives /\ ~stranded /\ Dead(routed)
<1>1. Hold.pending = NoPending /\ NoPending.reason = "None"
  BY DEF Hold, NoPending, Pending
<1>2. Leave.pending.reason = "Dead" => Leave.pending.queue = Alternatives /\ ~stranded
  BY <1>1 DEF Leave, Hold, Pending
<1>3. Return(OkAfterPending).pending.reason # "Dead"
  BY <1>1 DEF Return, Hold, Pending
<1>4. FastestRound.pending.reason # "Dead"
  <2> DEFINE followed == {t \in Quicker : rounds = 0 \/ ahead[t] + 1 >= STREAK}
             why == IF rounds = 0 THEN "Initial" ELSE "Faster"
             lead == [t \in Tags |-> IF t \in Quicker \ followed THEN ahead[t] + 1 ELSE 0]
  <2>1. FastestRound = [Taken EXCEPT
           !.pending = IF followed = {} THEN NoPending ELSE Pending(why, followed), !.ahead = lead]
    BY DEF FastestRound
  <2>2. FastestRound.pending = IF followed = {} THEN NoPending ELSE Pending(why, followed)
    <3> HIDE DEF followed, why, lead
    <3>. QED  BY <2>1 DEF Taken, Hold
  <2>3. why # "Dead"
    OBVIOUS
  <2> HIDE DEF followed, why, lead
  <2>. QED  BY <2>2, <2>3, <1>1 DEF Pending
<1>5. RotateRound.pending.reason # "Dead"
  <2> DEFINE queue == {t \in Others : Alive(t)}
  <2>1. RotateRound = Taken \/ RotateRound = [Taken EXCEPT !.pending = Pending("Rotation", queue)]
    BY DEF RotateRound
  <2> HIDE DEF queue
  <2>2. RotateRound.pending = NoPending \/ RotateRound.pending = Pending("Rotation", queue)
    BY <2>1 DEF Taken, Hold
  <2>. QED  BY <2>2, <1>1 DEF Pending
<1>. QED  BY <1>1, <1>2, <1>3, <1>4, <1>5 DEF Verdict, Judgement

-----------------------------------------------------------------------------
(* Carrying a flight on.                                                   *)

(* Whoever drops out of a queue has failed.                                *)
LEMMA DroppedHaveFailed ==
  ASSUME TypeOK, NEW p, p.queue \subseteq Tags, NEW t \in p.queue \ Left(p)
  PROVE  health[t].fails > 0
  BY DEF Left

(* A flight keeps those in its queue who may be alive, or gives up.        *)
LEMMA PursueFlees ==
  ASSUME TypeOK, NEW p, GoodPending(p), Pursue(p), UNCHANGED <<routed, candidates, health>>,
         p.reason = "Dead" => ~stranded /\ \A t \in Others \ p.queue : health[t].fails > 0
  PROVE  /\ FleeInv'
         /\ step' = Stranded => Dead(routed) /\ ~stranded /\ \A t \in Others : health[t].fails > 0
         /\ step'.kind = "Probe" => step'.tags \subseteq candidates \ {routed}
<1>1. p.queue \subseteq Tags /\ p.queue \subseteq candidates \ {routed}
  BY TagsAssumption DEF GoodPending, TypeOK
<1>2. ASSUME p.reason = "Dead"
      PROVE  \A t \in Others \ Left(p) : health[t].fails > 0
  BY <1>1, <1>2, DroppedHaveFailed
<1>3. Others' = Others
  BY DEF Others
<1>4. ASSUME NEW t \in Foremost(p),
             pending' = [p EXCEPT !.queue = Left(p)], UNCHANGED stranded,
             step' \in {Switch(t, p.reason), Probe({t})}
      PROVE  /\ FleeInv' /\ step' # Stranded
             /\ step'.kind = "Probe" => step'.tags \subseteq candidates \ {routed}
  <2>1. pending'.reason = p.reason /\ pending'.queue = Left(p)
    BY <1>4 DEF GoodPending
  <2>2. t \in candidates \ {routed}
    BY <1>1 DEF Foremost, Left
  <2>3. FleeInv'
    BY <2>1, <1>2, <1>3, <1>4 DEF FleeInv, Fleeing
  <2>. QED  BY <1>4, <2>2, <2>3 DEF Switch, Probe, Stranded
<1>5. CASE p.reason = "Dead" /\ Left(p) = {} /\ pending' = NoPending /\ step' = Stranded
  BY <1>2, <1>5 DEF FleeInv, Fleeing, Own, NoPending, Stranded, GoodPending
<1>. QED  BY <1>4, <1>5 DEF Pursue

LEMMA NextPendingFlees ==
  ASSUME IInv, FleeInv, NextPending
  PROVE  /\ FleeInv'
         /\ step' = Stranded => Dead(routed) /\ ~stranded /\ \A t \in Others : health[t].fails > 0
         /\ step'.kind = "Probe" => step'.tags \subseteq candidates \ {routed}
<1>1. GoodPending(pending) /\ Own
  BY DEF IInv, TypeOK, PendingInv, NextPending, UnderWay, Own, GoodPending
<1>2. pending.reason = "Dead" => ~stranded /\ \A t \in Others \ pending.queue : health[t].fails > 0
  BY <1>1 DEF FleeInv, Fleeing
<1>3. Pursue(pending) /\ UNCHANGED <<routed, candidates, health>>
  BY DEF NextPending, machine
<1>. QED  BY <1>1, <1>2, <1>3, PursueFlees DEF IInv

LEMMA NextDecideFlees ==
  ASSUME IInv, NextDecide
  PROVE  /\ FleeInv'
         /\ step' = Stranded => Dead(routed) /\ ~stranded /\ \A t \in Others : health[t].fails > 0
         /\ step'.kind = "Probe" => step'.tags \subseteq candidates \ {routed}
<1> DEFINE p == Verdict.pending
<1>1. GoodPending(p)
  <2>1. /\ p = Pending(p.reason, p.queue)
        /\ p.queue \subseteq candidates \ {routed}
        /\ p.reason \in {"Dead", "Initial", "Faster", "Rotation", "Recovered"}
        /\ p.reason = "Dead" => Dead(routed)
        /\ p.reason = "Recovered" => strategy = "Failover" /\ p.queue \subseteq {primary}
        /\ p.reason \in {"Initial", "Faster", "Rotation"} =>
             strategy \in {"Fastest", "Rotate"} /\ Alive(routed)
    BY VerdictType DEF NextDecide, IInv
  <2> HIDE DEF p
  <2>. QED  BY <2>1 DEF GoodPending, Pending
<1>2. p.reason = "Dead" => ~stranded /\ \A t \in Others \ p.queue : health[t].fails > 0
  <2> SUFFICES ASSUME p.reason = "Dead"
               PROVE  ~stranded /\ \A t \in Others \ p.queue : health[t].fails > 0
    OBVIOUS
  <2>1. p.queue = Alternatives /\ ~stranded
    BY VerdictFlees, StrategiesAssumption DEF IInv, TypeOK
  <2>2. \A t \in Others : health[t].fails \in Nat
    BY FailsType, OthersAreTags DEF IInv
  <2> HIDE DEF p
  <2>. QED  BY <2>1, <2>2 DEF Alternatives
<1>3. Pursue(p) /\ UNCHANGED <<routed, candidates, health>>
  BY DEF NextDecide, Judge, machine
<1> HIDE DEF p
<1>. QED  BY <1>1, <1>2, <1>3, PursueFlees DEF IInv

-----------------------------------------------------------------------------
(* Every other step.                                                       *)

(* Nothing but a decision gives up; and what is not decided on is no       *)
(* flight.                                                                 *)
LEMMA CalmFlees ==
  ASSUME Calm PROVE FleeInv'
  BY DEF Calm, FleeInv, Fleeing, Own

(* Only the queue of a flight is probed during it.                         *)
LEMMA ReportFlees ==
  ASSUME IInv, FleeInv, Report PROVE FleeInv'
<1> SUFFICES ASSUME Fleeing' PROVE FleeInv'
  BY DEF FleeInv
<1>1. /\ Fleeing /\ pending'.queue = pending.queue /\ UNCHANGED <<candidates, routed>>
  BY DEF Report, machine, Fleeing, Own, IInv, TypeOK
<1>2. step.tags \subseteq pending.queue
  BY <1>1 DEF Report, IInv, PendingInv, Fleeing
<1>3. \A t \in Others \ pending.queue : health'[t] = health[t]
  <2>1. Others \subseteq Tags
    BY OthersAreTags DEF IInv
  <2>. QED  BY <1>2, <2>1 DEF Report
<1>4. ~stranded'
  BY <1>1 DEF Report, FinishSweep, FleeInv
<1>. QED  BY <1>1, <1>3, <1>4 DEF FleeInv, Others

LEMMA TickFlees ==
  ASSUME IInv, FleeInv, Tick PROVE FleeInv'
<1>1. UNCHANGED <<candidates, routed, pending, stranded>>
  BY DEF Tick, machine
<1>2. \A t \in Others : health'[t].fails = health[t].fails
  <2> TAKE t \in Others
  <2>1. t \in Tags
    BY OthersAreTags DEF IInv
  <2>2. health[t] \in HealthType
    BY <2>1 DEF IInv, TypeOK
  <2>3. health'[t] = [health[t] EXCEPT !.ok = Older(health[t].ok), !.probed = Older(health[t].probed)]
    BY <2>1 DEF Tick
  <2>. QED  BY <2>2, <2>3 DEF HealthType
<1>. QED  BY <1>1, <1>2 DEF FleeInv, Fleeing, Own, Others

(* The rest ends whatever was under way, or leaves it alone.               *)
LEMMA RestFlees ==
  ASSUME FleeInv, Commit \/ Abort \/ Log \/ Replace PROVE FleeInv'
<1>1. CASE Commit \/ Abort \/ Replace
  BY <1>1 DEF Commit, Abort, Replace, PickServer, PickStrategy, CoreDeath, Install,
              FleeInv, Fleeing, Own
<1>2. CASE Log
  BY <1>2 DEF Log, machine, FleeInv, Fleeing, Own, Others
<1>. QED  BY <1>1, <1>2

LEMMA FleeStep == IInv /\ FleeInv /\ [Next]_vars => FleeInv'
<1> SUFFICES ASSUME IInv, FleeInv, [Next]_vars PROVE FleeInv'
  OBVIOUS
<1>1. CASE Decide
  BY <1>1, NextPendingFlees, NextDecideFlees, CalmFlees DEF Decide, NextWatch, NextSweep, NextIdle
<1>2. CASE UNCHANGED vars
  BY <1>2 DEF vars, machine, FleeInv, Fleeing, Own, Others
<1>. QED  BY <1>1, <1>2, ReportFlees, TickFlees, RestFlees DEF Next, Drive

LEMMA Flight == Spec => [](IInv /\ FleeInv)
<1>1. Init => FleeInv
  BY DEF Init, FleeInv, Fleeing, Own
<1>2. IInv /\ FleeInv /\ [Next]_vars => FleeInv'
  BY FleeStep
<1>. QED  BY <1>1, <1>2, Invariance, PTL DEF Spec

-----------------------------------------------------------------------------
(* Only a decision begins a probe or gives up.                             *)
LEMMA OthersBeginNothing ==
  ASSUME Report \/ Commit \/ Abort \/ Log \/ Tick \/ Replace \/ UNCHANGED vars
  PROVE  step' \in {Ready, step}
<1>1. CASE Report \/ Commit \/ Abort \/ Log \/ Tick
  BY <1>1 DEF Report, Commit, Abort, Log, Tick
<1>2. CASE Replace
  BY <1>2 DEF Replace, PickServer, PickStrategy, CoreDeath, Woken
<1>3. CASE UNCHANGED vars
  BY <1>3 DEF vars
<1>. QED  BY <1>1, <1>2, <1>3

(* Having given up, the machine is right: the current node is dead and no  *)
(* other candidate answered its last check (judge, alternatives).          *)
THEOREM GivingUpIsJustified == Spec => StrandedIsTrue
<1> DEFINE Justified ==
             step' = Stranded /\ step # Stranded =>
               Dead(routed) /\ ~stranded /\ \A t \in Others : health[t].fails > 0
<1>1. ASSUME IInv, FleeInv, [Next]_vars PROVE Justified
  <2>1. CASE NextPending \/ NextDecide
    BY <1>1, <2>1, NextPendingFlees, NextDecideFlees
  <2>2. CASE NextWatch \/ NextSweep \/ NextIdle
    BY <2>2 DEF NextWatch, NextSweep, NextIdle, Probe, Idle, Stranded
  <2>3. CASE ~Decide
    BY <1>1, <2>3, OthersBeginNothing DEF Next, Drive, Ready, Stranded
  <2>. QED  BY <2>1, <2>2, <2>3 DEF Decide
<1>2. IInv /\ FleeInv /\ [Next]_vars => [Justified]_vars
  BY <1>1
<1>. QED  BY <1>2, Flight, PTL DEF Spec, StrandedIsTrue

(* With the current node dead, a calm machine has given it up.             *)
LEMMA CalmIsStranded ==
  ASSUME IInv, Calm, strategy # "Manual", Dead(routed) PROVE stranded
<1>1. Verdict = Leave
  <2>1. strategy \in {"Failover", "Fastest", "Rotate"}
    BY StrategiesAssumption DEF IInv, TypeOK
  <2>. QED  BY <2>1 DEF Verdict, Judgement
<1>2. Verdict.pending.reason # "Dead"
  BY DEF Calm, NoPending, Pending
<1>. QED  BY <1>1, <1>2 DEF Leave, Hold, Pending

(* A dead node the core must not dial, as after a crash of the core, is    *)
(* dialled again only once no candidate is left (mark_dead, judge).        *)
THEOREM DeadFragileIsNotDialled == Spec => DeadFragileNotDialled
<1> DEFINE LeftAlone ==
             step'.kind = "Probe" /\ step' # step /\ strategy # "Manual" /\ Dead(routed)
               /\ routed \in step'.tags \ candidates => stranded
<1>1. ASSUME IInv, FleeInv, [Next]_vars PROVE LeftAlone
  <2>1. CASE NextPending \/ NextDecide
    BY <1>1, <2>1, NextPendingFlees, NextDecideFlees
  <2>2. CASE NextWatch \/ NextSweep \/ NextIdle
    BY <1>1, <2>2, CalmIsStranded DEF NextWatch, NextSweep, NextIdle
  <2>3. CASE ~Decide
    BY <1>1, <2>3, OthersBeginNothing DEF Next, Drive, Ready
  <2>. QED  BY <2>1, <2>2, <2>3 DEF Decide
<1>2. IInv /\ FleeInv /\ [Next]_vars => [LeftAlone]_vars
  BY <1>1
<1>. QED  BY <1>2, Flight, PTL DEF Spec, DeadFragileNotDialled

-----------------------------------------------------------------------------
(***************************************************************************)
(* How late the watch on the current node may be.  A decision puts the      *)
(* watch off for as long as it verifies candidates, each of them once, and  *)
(* nothing that puts it off is decided twice: a round is judged once, and a *)
(* return that came to nothing starts its count anew.  So what is late      *)
(* grows with what was verified (OnTimeInv), and after that the watch comes *)
(* first.  A core that refuses switches, or a machine that is replaced,     *)
(* may put it off for longer, and both are assumed away here.               *)
(***************************************************************************)
Steps(n) == n * LongestStep
Within(n) == health[routed].probed < PROBE_EVERY + n
Exempt == Dead(routed) \/ health[routed].probed = Never

Verifying ==
  Own =>
    /\ pending.reason \in {"Initial", "Faster", "Rotation"} => ~newRound
    /\ pending.checked \subseteq Others
    /\ step.kind = "Probe" =>
         ~sweeping /\ \E t \in Others \ pending.checked : step.tags = {t}

Lateness ==
  /\ step.kind = "Idle" => Within(0)
  /\ step.kind = "Ready" => Within(Steps(1 + IF Own THEN Cardinality(pending.checked) ELSE 0))
  /\ step.kind \in {"Probe", "Switch"} /\ Own =>
       Within(Steps(1 + Cardinality(pending.checked)) + elapsed)
  /\ step.kind = "Probe" /\ ~Own =>
       Within(IF routed \in step.tags THEN Steps(1 + Cardinality(Others)) + elapsed ELSE elapsed)

OnTimeInv ==
  /\ sweeping => step.kind = "Probe"
  /\ step.kind \in {"Idle", "Stranded"} => ~Own
  /\ step.kind = "Stranded" => Dead(routed)
  /\ step.kind = "Switch" => Own
  /\ Verifying
  /\ Exempt \/ Lateness

LEMMA StepsFacts ==
  /\ Steps(0) = 0 /\ Steps(1) = LongestStep
  /\ \A n \in Nat : Steps(n) \in Nat /\ Steps(n + 1) = Steps(n) + LongestStep
  /\ \A m, n \in Nat : m <= n => Steps(m) <= Steps(n)
<1>1. LongestStep \in Nat \ {0}
  BY TimesAssumption
<1>2. ASSUME NEW n \in Nat PROVE Steps(n) \in Nat /\ Steps(n + 1) = Steps(n) + LongestStep
  BY <1>1 DEF Steps
<1>3. ASSUME NEW m \in Nat, NEW n \in Nat, m <= n PROVE Steps(m) <= Steps(n)
  <2>1. n - m \in Nat /\ n = m + (n - m)
    BY <1>3
  <2>2. \A d \in Nat : m * LongestStep <= (m + d) * LongestStep
    <3> TAKE d \in Nat
    <3>1. (m + d) * LongestStep = m * LongestStep + d * LongestStep
      BY <1>1
    <3>2. m * LongestStep \in Nat /\ d * LongestStep \in Nat
      BY <1>1
    <3>. QED  BY <3>1, <3>2
  <2>. QED  BY <2>1, <2>2 DEF Steps
<1>. QED  BY <1>1, <1>2, <1>3 DEF Steps

LEMMA OthersCount ==
  ASSUME TypeOK, NEW S, S \subseteq Others
  PROVE  /\ Cardinality(S) \in Nat /\ Cardinality(Others) \in Nat
         /\ Cardinality(S) <= Cardinality(Others)
         /\ \A t \in Others \ S : /\ Cardinality(S \cup {t}) = Cardinality(S) + 1
                                /\ Cardinality(S) + 1 <= Cardinality(Others)
<1>1. IsFiniteSet(Others)
  BY OthersAreTags, TagsAssumption, FS_Subset
<1>2. IsFiniteSet(S) /\ Cardinality(S) \in Nat /\ Cardinality(Others) \in Nat
      /\ Cardinality(S) <= Cardinality(Others)
  BY <1>1, FS_Subset, FS_CardinalityType
<1>3. ASSUME NEW t \in Others \ S
      PROVE  /\ Cardinality(S \cup {t}) = Cardinality(S) + 1
             /\ Cardinality(S) + 1 <= Cardinality(Others)
  <2>1. Cardinality(S \cup {t}) = Cardinality(S) + 1
    BY <1>2, <1>3, FS_AddElement
  <2>2. Cardinality(S \cup {t}) <= Cardinality(Others)
    BY <1>1, <1>3, FS_Subset
  <2>. QED  BY <2>1, <2>2
<1>. QED  BY <1>2, <1>3

(* What each candidate verified may cost.                                  *)
LEMMA Allowance ==
  ASSUME TypeOK, NEW S, S \subseteq Others
  PROVE  /\ Steps(1 + Cardinality(S)) \in Nat /\ Steps(1 + Cardinality(Others)) \in Nat
         /\ Steps(1 + Cardinality(S)) <= Steps(1 + Cardinality(Others))
         /\ Steps(1) <= Steps(1 + Cardinality(Others))
         /\ Steps(2 + Cardinality(Others)) = Steps(1 + Cardinality(Others)) + LongestStep
         /\ \A t \in Others \ S :
              Steps(1 + Cardinality(S \cup {t})) = Steps(1 + Cardinality(S)) + LongestStep
<1> DEFINE k == Cardinality(S)
           n == Cardinality(Others)
<1>1. /\ k \in Nat /\ n \in Nat /\ k <= n
      /\ \A t \in Others \ S : Cardinality(S \cup {t}) = k + 1
  BY OthersCount
<1> HIDE DEF k, n
<1>2. 1 + k \in Nat /\ 1 + n \in Nat /\ 1 + k <= 1 + n /\ 1 <= 1 + n
      /\ 1 + (k + 1) = (1 + k) + 1 /\ 2 + n = (1 + n) + 1
  BY <1>1
<1>3. Steps(1 + k) \in Nat /\ Steps(1 + n) \in Nat
  BY <1>2, StepsFacts
<1>4. Steps(1 + k) <= Steps(1 + n) /\ Steps(1) <= Steps(1 + n)
  BY <1>2, StepsFacts
<1>5. Steps((1 + k) + 1) = Steps(1 + k) + LongestStep /\ Steps((1 + n) + 1) = Steps(1 + n) + LongestStep
  BY <1>2, StepsFacts
<1>. QED  BY <1>1, <1>2, <1>3, <1>4, <1>5 DEF k, n

(* The age of the current node's last check.                               *)
LEMMA AgeType ==
  ASSUME TypeOK
  PROVE  /\ health[routed] \in HealthType /\ health[routed].probed \in 0..Never
         /\ health[routed].fails \in Nat /\ elapsed \in 0..LongestStep
         /\ LongestStep \in Nat \ {0} /\ PROBE_EVERY \in Nat \ {0}
<1>1. routed \in Tags /\ health \in [Tags -> HealthType] /\ elapsed \in 0..LongestStep
  BY DEF TypeOK
<1>2. health[routed] \in HealthType
  BY <1>1
<1>. QED  BY <1>1, <1>2, TimesAssumption, LimitsAssumption DEF HealthType

-----------------------------------------------------------------------------
(* Nothing that puts the watch off is decided twice.                       *)

LEMMA RoundIsTaken ==
  ASSUME strategy \in {"Manual", "Failover", "Fastest", "Rotate"}
  PROVE  /\ Verdict.pending.reason \in {"Initial", "Faster", "Rotation"} => Verdict.newRound = FALSE
         /\ Verdict.pending # NoPending =>
              \/ Dead(routed)
              \/ strategy = "Failover" /\ OkAfterPending >= RecoverNeeded
              \/ strategy \in {"Fastest", "Rotate"} /\ newRound
<1>1. Hold.pending = NoPending /\ NoPending.reason = "None"
  BY DEF Hold, NoPending, Pending
<1>2. Leave.pending.reason \in {"None", "Dead"}
  BY <1>1 DEF Leave, Hold, Pending
<1>3. /\ Return(OkAfterPending).pending.reason \in {"None", "Recovered"}
      /\ Return(OkAfterPending).pending # NoPending => OkAfterPending >= RecoverNeeded
  BY <1>1 DEF Return, Hold, Pending
<1>4. FastestRound.newRound = FALSE
  <2> DEFINE followed == {t \in Quicker : rounds = 0 \/ ahead[t] + 1 >= STREAK}
             why == IF rounds = 0 THEN "Initial" ELSE "Faster"
             lead == [t \in Tags |-> IF t \in Quicker \ followed THEN ahead[t] + 1 ELSE 0]
  <2>1. FastestRound = [Taken EXCEPT
           !.pending = IF followed = {} THEN NoPending ELSE Pending(why, followed), !.ahead = lead]
    BY DEF FastestRound
  <2> HIDE DEF followed, why, lead
  <2>. QED  BY <2>1 DEF Taken, Hold
<1>5. RotateRound.newRound = FALSE
  <2> DEFINE queue == {t \in Others : Alive(t)}
  <2>1. RotateRound = Taken \/ RotateRound = [Taken EXCEPT !.pending = Pending("Rotation", queue)]
    BY DEF RotateRound
  <2> HIDE DEF queue
  <2>. QED  BY <2>1 DEF Taken, Hold
<1>. QED  BY <1>1, <1>2, <1>3, <1>4, <1>5 DEF Verdict, Judgement

(* A decision that came to nothing is not followed by another, unless the  *)
(* current node is dead.                                                   *)
LEMMA NothingIsDecidedTwice ==
  ASSUME IInv, OnTimeInv, Own, ~Dead(routed)
  PROVE  Verdict.pending = NoPending
<1>1. strategy \in {"Manual", "Failover", "Fastest", "Rotate"}
  BY StrategiesAssumption DEF IInv, TypeOK
<1>2. pending.reason \in {"Initial", "Faster", "Rotation", "Recovered"}
  BY DEF IInv, TypeOK, PendingInv
<1>3. CASE pending.reason = "Recovered"
  <2>1. OkAfterPending = 0 /\ strategy = "Failover"
    BY <1>3 DEF OkAfterPending, IInv, PendingInv
  <2>2. RecoverNeeded \in Nat \ {0}
    BY RecoverType DEF IInv, TypeOK
  <2>. QED  BY <1>1, <2>1, <2>2, RoundIsTaken
<1>4. CASE pending.reason # "Recovered"
  <2>1. strategy \in {"Fastest", "Rotate"} /\ ~newRound
    BY <1>2, <1>4 DEF IInv, PendingInv, OnTimeInv, Verifying
  <2>. QED  BY <1>1, <2>1, RoundIsTaken
<1>. QED  BY <1>3, <1>4

-----------------------------------------------------------------------------
(* One lemma per kind of step.                                             *)

LEMMA PursueIsTimely ==
  ASSUME IInv, ~sweeping, NEW p, GoodPending(p), Pursue(p), elapsed' = 0,
         UNCHANGED <<strategy, primary, candidates, routed, health>>,
         p.checked \subseteq Others,
         p.reason \in {"Initial", "Faster", "Rotation"} => ~newRound',
         Exempt \/ Within(Steps(1 + Cardinality(p.checked)))
  PROVE  OnTimeInv'
<1>1. Others' = Others /\ (Dead(routed)' <=> Dead(routed)) /\ (Exempt' <=> Exempt)
  BY DEF Others, Dead, Exempt
<1>2. Steps(1 + Cardinality(p.checked)) + 0 = Steps(1 + Cardinality(p.checked))
  BY Allowance DEF IInv
<1>3. CASE /\ p.reason = "Dead" /\ Left(p) = {} /\ pending' = NoPending /\ step' = Stranded
           /\ UNCHANGED sweeping
  <2>1. Dead(routed)
    BY <1>3 DEF GoodPending
  <2>2. ~Own' /\ step'.kind = "Stranded" /\ ~sweeping'
    BY <1>3 DEF Own, Stranded
  <2>. QED  BY <1>1, <2>1, <2>2 DEF OnTimeInv, Verifying, Exempt
<1>4. ASSUME NEW t \in Foremost(p), pending' = [p EXCEPT !.queue = Left(p)],
             \/ (t \in p.checked \/ Fresh(t)) /\ step' = Switch(t, p.reason) /\ UNCHANGED sweeping
             \/ ~(t \in p.checked \/ Fresh(t)) /\ step' = Probe({t}) /\ sweeping' = FALSE
      PROVE  OnTimeInv'
  <2>1. pending'.reason = p.reason /\ pending'.checked = p.checked /\ Own' /\ ~sweeping'
    BY <1>4 DEF GoodPending, Own, NoPending, Pending
  <2>2. t \in Others
    BY <1>4 DEF Foremost, Left, GoodPending, Others
  <2>4. Exempt' \/ Within(Steps(1 + Cardinality(pending.checked)) + elapsed)'
    BY <1>1, <1>2, <2>1 DEF Within, Steps
  <2>5. CASE step' = Switch(t, p.reason)
    <3>1. step'.kind = "Switch"
      BY <2>5 DEF Switch
    <3>2. Verifying'
      BY <1>1, <2>1, <3>1 DEF Verifying
    <3>3. Exempt' \/ Lateness'
      BY <2>1, <2>4, <3>1 DEF Lateness
    <3>. QED  BY <2>1, <3>1, <3>2, <3>3 DEF OnTimeInv
  <2>6. CASE step' = Probe({t}) /\ t \notin p.checked /\ sweeping' = FALSE
    <3>1. step'.kind = "Probe" /\ step'.tags = {t}
      BY <2>6 DEF Probe
    <3>2. Verifying'
      BY <1>1, <2>1, <2>2, <2>6, <3>1 DEF Verifying
    <3>3. Exempt' \/ Lateness'
      BY <2>1, <2>4, <3>1 DEF Lateness
    <3>. QED  BY <2>1, <3>1, <3>2, <3>3 DEF OnTimeInv
  <2>. QED  BY <1>4, <2>5, <2>6
<1>. QED  BY <1>3, <1>4 DEF Pursue

LEMMA NextPendingIsTimely == ASSUME IInv, OnTimeInv, NextPending PROVE OnTimeInv'
<1>1. GoodPending(pending) /\ Own
  BY DEF IInv, TypeOK, PendingInv, NextPending, UnderWay, Own, GoodPending
<1>2. step.kind = "Ready" /\ ~sweeping
  BY DEF NextPending, Ready, OnTimeInv
<1>3. /\ Pursue(pending) /\ elapsed' = 0
      /\ UNCHANGED <<strategy, primary, candidates, routed, health, newRound>>
  BY DEF NextPending, machine, judgeVars
<1>4. Exempt \/ Within(Steps(1 + Cardinality(pending.checked)))
  BY <1>1, <1>2 DEF OnTimeInv, Lateness
<1>5. /\ pending.checked \subseteq Others
      /\ pending.reason \in {"Initial", "Faster", "Rotation"} => ~newRound'
  BY <1>1, <1>3 DEF OnTimeInv, Verifying
<1>. QED  BY <1>1, <1>2, <1>3, <1>4, <1>5, PursueIsTimely

(* When nothing is under way, the watch is late by what was verified.      *)
LEMMA ReadyIsTimely ==
  ASSUME IInv, OnTimeInv, step = Ready
  PROVE  /\ ~sweeping
         /\ Exempt \/ Within(Steps(1 + Cardinality(Others)))
         /\ ~Own => Exempt \/ Within(Steps(1))
<1>1. step.kind = "Ready"
  BY DEF Ready
<1>2. CASE Own
  <2>1. Exempt \/ Within(Steps(1 + Cardinality(pending.checked)))
    BY <1>1, <1>2 DEF OnTimeInv, Lateness
  <2>2. Steps(1 + Cardinality(pending.checked)) <= Steps(1 + Cardinality(Others))
        /\ Steps(1 + Cardinality(pending.checked)) \in Nat /\ Steps(1 + Cardinality(Others)) \in Nat
    BY <1>2, Allowance DEF IInv, OnTimeInv, Verifying
  <2>. QED  BY <1>1, <1>2, <2>1, <2>2, AgeType, AncientType DEF Within, OnTimeInv, IInv
<1>3. CASE ~Own
  <2>1. Exempt \/ Within(Steps(1))
    BY <1>1, <1>3 DEF OnTimeInv, Lateness
  <2>3. Steps(1) <= Steps(1 + Cardinality(Others))
        /\ Steps(1) \in Nat /\ Steps(1 + Cardinality(Others)) \in Nat
    BY StepsFacts, Allowance DEF IInv
  <2>. QED  BY <1>1, <1>3, <2>1, <2>3, AgeType, AncientType DEF Within, OnTimeInv, IInv
<1>. QED  BY <1>2, <1>3

LEMMA NextDecideIsTimely == ASSUME IInv, OnTimeInv, NextDecide PROVE OnTimeInv'
<1> DEFINE p == Verdict.pending
<1>1. /\ p = Pending(p.reason, p.queue)
      /\ p.queue \subseteq candidates \ {routed}
      /\ p.reason \in {"Dead", "Initial", "Faster", "Rotation", "Recovered"}
      /\ p.reason = "Dead" => Dead(routed)
      /\ p.reason = "Recovered" => strategy = "Failover" /\ p.queue \subseteq {primary}
      /\ p.reason \in {"Initial", "Faster", "Rotation"} =>
           strategy \in {"Fastest", "Rotate"} /\ Alive(routed)
  BY VerdictType DEF NextDecide, IInv
<1>2. /\ Pursue(p) /\ elapsed' = 0 /\ newRound' = Verdict.newRound /\ p # NoPending /\ step = Ready
      /\ UNCHANGED <<strategy, primary, candidates, routed, health>>
  BY DEF NextDecide, Judge, machine
<1>3. p.reason \in {"Initial", "Faster", "Rotation"} => ~newRound'
  BY <1>2, RoundIsTaken, StrategiesAssumption DEF IInv, TypeOK
<1>4. ~Own \/ Dead(routed)
  BY <1>2, NothingIsDecidedTwice
<1> HIDE DEF p
<1>5. GoodPending(p) /\ p.checked = {}
  BY <1>1 DEF GoodPending, Pending
<1>6. Cardinality(p.checked) = 0
  BY <1>5, FS_EmptySet
<1>7. Exempt \/ Within(Steps(1 + Cardinality(p.checked)))
  BY <1>2, <1>4, <1>6, ReadyIsTimely DEF Exempt
<1>. QED  BY <1>2, <1>3, <1>5, <1>7, ReadyIsTimely, PursueIsTimely

(* A calm machine probes the current node, or has no need to.              *)
LEMMA CalmIsTimely ==
  ASSUME IInv, OnTimeInv, Calm,
         \/ step' = Idle /\ Overdue = {} /\ UNCHANGED sweeping
         \/ step' = Probe(Overdue)
         \/ Overdue = {} /\ \E S : step' = Probe(S)
  PROVE  OnTimeInv'
<1>1. ~Own' /\ elapsed' = 0 /\ step = Ready /\ UNCHANGED <<routed, candidates, health>>
  BY DEF Calm, Judge, machine, Own
<1>2. Others' = Others /\ (Exempt' <=> Exempt)
  BY <1>1 DEF Others, Exempt, Dead
<1>3. routed \notin Overdue => Within(0)
  <2>1. routed \in Watched
    BY DEF Watched
  <2>2. RETRY_AFTER \in Nat /\ RETRY_AFTER <= PROBE_EVERY
    BY TimesAssumption
  <2>. QED  BY <2>1, <2>2, AgeType, AncientType DEF Overdue, Within, IInv
<1>4. /\ Exempt \/ Within(Steps(1 + Cardinality(Others)) + 0)
      /\ Within(0) => Within(Steps(1 + Cardinality(Others)) + 0)
  <2>1. Steps(1 + Cardinality(Others)) \in Nat
    BY Allowance DEF IInv
  <2>2. Exempt \/ Within(Steps(1 + Cardinality(Others)))
    BY <1>1, ReadyIsTimely
  <2>. QED  BY <2>1, <2>2, AgeType, AncientType DEF Within, IInv
<1>5. Exempt' \/ Lateness'
  <2>1. CASE step' = Idle /\ Overdue = {}
    BY <1>1, <1>3, <2>1 DEF Lateness, Within, Idle
  <2>2. CASE step' = Probe(Overdue)
    <3>1. step'.kind = "Probe" /\ step'.tags = Overdue
      BY <2>2 DEF Probe
    <3>. QED  BY <1>1, <1>2, <1>3, <1>4, <3>1 DEF Lateness, Within, Steps
  <2>3. ASSUME NEW S, Overdue = {}, step' = Probe(S) PROVE Lateness'
    <3>1. step'.kind = "Probe" /\ step'.tags = S /\ Within(0)
      BY <1>3, <2>3 DEF Probe
    <3>. QED  BY <1>1, <1>2, <1>4, <3>1 DEF Lateness, Within, Steps
  <2>. QED  BY <2>1, <2>2, <2>3
<1>6. step'.kind \in {"Idle", "Probe"} /\ (sweeping' => step'.kind = "Probe")
  BY <1>1, ReadyIsTimely DEF Idle, Probe
<1>. QED  BY <1>1, <1>5, <1>6 DEF OnTimeInv, Verifying

(* An answer makes up for the time it took: the current node was asked     *)
(* itself, or one more candidate is verified.                              *)
LEMMA ReportIsTimely == ASSUME IInv, OnTimeInv, Report PROVE OnTimeInv'
<1> DEFINE S == step.tags
<1>1. /\ step.kind = "Probe" /\ step' = Ready /\ step'.kind = "Ready" /\ ~sweeping'
      /\ UNCHANGED <<routed, candidates>> /\ Others' = Others
  BY DEF Report, machine, Ready, Others
<1>2. PICK r \in Outcomes(S) :
        health' = [t \in Tags |-> IF t \in S THEN Measured(health[t], r[t]) ELSE health[t]]
  BY DEF Report
<1>3. routed \in Tags /\ health[routed] \in HealthType
  BY AgeType DEF IInv, TypeOK
<1>4. routed \in S => health'[routed'].probed = 0
  <2>1. \A h \in HealthType, ms \in Delays \cup {Miss} : Measured(h, ms).probed = 0
    BY DEF Measured, HealthType
  <2>2. routed \in S => r[routed] \in Delays \cup {Miss}
    BY <1>2 DEF Outcomes
  <2>. QED  BY <1>1, <1>2, <1>3, <2>1, <2>2
<1>5. routed \notin S => health'[routed'] = health[routed]
  BY <1>1, <1>2, <1>3
<1>6. CASE Own
  <2>1. PICK t \in Others \ pending.checked : S = {t} /\ ~sweeping
    BY <1>1, <1>6 DEF OnTimeInv, Verifying
  <2>2. Own' /\ pending'.reason = pending.reason /\ pending'.checked = pending.checked \cup {t}
        /\ newRound' = newRound
    BY <1>6, <2>1 DEF Report, Own, NoPending, Pending, IInv, TypeOK
  <2>3. pending.checked \subseteq Others /\ Verifying'
    BY <1>1, <1>6, <2>1, <2>2 DEF OnTimeInv, Verifying
  <2>4. routed \notin S
    BY <2>1 DEF Others
  <2>5. Exempt' \/ Lateness'
    <3>1. Exempt \/ Within(Steps(1 + Cardinality(pending.checked)) + elapsed)
      BY <1>1, <1>6 DEF OnTimeInv, Lateness
    <3>2. Steps(1 + Cardinality(pending.checked \cup {t})) = Steps(1 + Cardinality(pending.checked)) + LongestStep
          /\ Steps(1 + Cardinality(pending.checked)) \in Nat
      BY <2>1, <2>3, Allowance DEF IInv
    <3>3. Exempt \/ Within(Steps(1 + Cardinality(pending.checked \cup {t})))
      BY <3>1, <3>2, AgeType, AncientType DEF Within, IInv
    <3>4. (Exempt => Exempt') /\ health'[routed'].probed = health[routed].probed
      BY <1>1, <1>5, <2>4 DEF Exempt, Dead
    <3>. QED  BY <1>1, <2>2, <3>3, <3>4 DEF Lateness, Within, Steps
  <2>. QED  BY <1>1, <2>3, <2>5 DEF OnTimeInv
<1>7. CASE ~Own
  <2>1. ~Own'
    BY <1>7 DEF Report, Own
  <2>2. Steps(1) = LongestStep
    BY StepsFacts
  <2>3. CASE routed \in S
    <3>1. 0 < PROBE_EVERY + LongestStep
      BY TimesAssumption
    <3>2. Lateness'
      BY <1>1, <1>4, <2>1, <2>2, <2>3, <3>1 DEF Lateness, Within, Steps
    <3>. QED  BY <1>1, <2>1, <3>2 DEF OnTimeInv, Verifying
  <2>4. CASE routed \notin S
    <3>1. Exempt \/ Within(elapsed)
      BY <1>1, <1>7, <2>4 DEF OnTimeInv, Lateness
    <3>2. Exempt \/ Within(LongestStep)
      BY <3>1, AgeType, AncientType DEF Within, IInv
    <3>3. (Exempt => Exempt') /\ health'[routed'].probed = health[routed].probed
      BY <1>1, <1>5, <2>4 DEF Exempt, Dead
    <3>4. Exempt' \/ Lateness'
      BY <1>1, <2>1, <2>2, <3>2, <3>3 DEF Lateness, Within, Steps
    <3>. QED  BY <1>1, <2>1, <3>4 DEF OnTimeInv, Verifying
  <2>. QED  BY <2>3, <2>4
<1>. QED  BY <1>6, <1>7

(* The node just switched to is to be checked at once.                     *)
LEMMA CommitIsTimely == ASSUME IInv, OnTimeInv, Commit PROVE OnTimeInv'
<1>1. step.kind = "Switch" /\ step' = Ready /\ step'.kind = "Ready" /\ ~sweeping' /\ ~Own'
  BY DEF Commit, Ready, Own, OnTimeInv, sweepVars
<1>2. step.to \in Tags /\ health[step.to] \in HealthType /\ routed' = step.to
  BY <1>1 DEF Commit, IInv, TypeOK, Ready, Idle, Stranded
<1>3. health'[step.to].probed = Never
  BY <1>2 DEF Commit, IInv, TypeOK, HealthType
<1>4. Never' = Never
  BY DEF Never, Ancient, Larger
<1>. QED  BY <1>1, <1>2, <1>3, <1>4 DEF OnTimeInv, Verifying, Exempt

LEMMA LogIsTimely == ASSUME IInv, OnTimeInv, Log PROVE OnTimeInv'
<1>1. step.kind = "Stranded" /\ step'.kind = "Ready" /\ Dead(routed) /\ ~Own /\ ~sweeping
  BY DEF Log, Stranded, Ready, OnTimeInv
<1>2. UNCHANGED <<routed, health, pending, sweeping>>
  BY DEF Log, sweepVars
<1>. QED  BY <1>1, <1>2 DEF OnTimeInv, Verifying, Exempt, Dead, Own

(* Time passes in a step that was allowed for it.                          *)
LEMMA TickIsTimely == ASSUME IInv, OnTimeInv, Tick PROVE OnTimeInv'
<1>1. UNCHANGED <<routed, candidates, pending, sweeping, newRound>> /\ Others' = Others /\ (Own' <=> Own)
  BY DEF Tick, machine, judgeVars, Others, Own
<1> DEFINE h == health[routed]
<1>2. routed \in Tags /\ h \in HealthType
  BY AgeType DEF IInv, TypeOK
<1>3. health'[routed] = [h EXCEPT !.ok = Older(h.ok), !.probed = Older(h.probed)]
  BY <1>2 DEF Tick
<1> HIDE DEF h
<1>4. health'[routed].fails = h.fails /\ health'[routed].probed = Older(h.probed)
  BY <1>2, <1>3 DEF HealthType
<1>5. Never' = Never /\ Older(Never) = Never
  BY AncientType DEF Never, Ancient, Larger, Older
<1>6. Exempt => Exempt'
  BY <1>1, <1>4, <1>5 DEF Exempt, Dead, h
<1>7. h.probed \in Nat /\ Older(h.probed) \in Nat /\ Older(h.probed) <= h.probed + 1
  BY <1>2, AncientType, OlderType DEF HealthType
<1>8. ASSUME NEW n \in Nat, Within(n) PROVE health'[routed'].probed < PROBE_EVERY + (n + 1)
  BY <1>1, <1>4, <1>7, <1>8, TimesAssumption DEF Within, h
<1>9. Verifying'
  <2> SUFFICES ASSUME Own PROVE Verifying'
    BY <1>1 DEF Verifying
  <2>1. Verifying
    BY DEF OnTimeInv
  <2>2. step' \in {Ready, step}
    BY OthersBeginNothing
  <2>3. step'.kind = "Probe" => step' = step
    BY <2>2 DEF Ready
  <2>. QED  BY <1>1, <2>1, <2>3 DEF Verifying
<1>10. CASE step = Idle /\ step' = Ready /\ UNCHANGED elapsed
  <2>1. step.kind = "Idle" /\ step'.kind = "Ready" /\ ~Own /\ ~sweeping
    BY <1>10 DEF Idle, Ready, OnTimeInv
  <2>2. Exempt \/ health'[routed'].probed < PROBE_EVERY + LongestStep
    <3>1. Exempt \/ health'[routed'].probed < PROBE_EVERY + (0 + 1)
      BY <2>1, <1>8 DEF OnTimeInv, Lateness
    <3>. QED  BY <1>1, <1>4, <1>7, <3>1, TimesAssumption
  <2>3. Steps(1 + 0)' = LongestStep
    BY StepsFacts DEF Steps
  <2>. QED  BY <1>1, <1>6, <1>9, <2>1, <2>2, <2>3 DEF OnTimeInv, Lateness, Within
<1>11. CASE step.kind \in {"Probe", "Switch"} /\ elapsed' = elapsed + 1 /\ UNCHANGED step
  <2> DEFINE n == IF Own THEN Steps(1 + Cardinality(pending.checked))
                  ELSE IF routed \in step.tags THEN Steps(1 + Cardinality(Others)) ELSE 0
  <2>1. n \in Nat /\ elapsed \in Nat
    BY Allowance, AgeType DEF IInv, OnTimeInv, Verifying
  <2>2. Exempt \/ Within(n + elapsed)
    BY <1>11, <2>1 DEF OnTimeInv, Lateness
  <2>3. n' = n
    BY <1>1, <1>11 DEF Steps
  <2>4. Exempt \/ health'[routed'].probed < PROBE_EVERY + (n + (elapsed + 1))
    <3>1. n + elapsed \in Nat /\ (n + elapsed) + 1 = n + (elapsed + 1)
      BY <2>1
    <3>. QED  BY <1>8, <2>2, <3>1
  <2>5. Exempt' \/ Within(n + elapsed)'
    BY <1>6, <1>11, <2>3, <2>4 DEF Within
  <2>6. step.kind = "Switch" => Own
    BY DEF OnTimeInv
  <2>7. Lateness' <=> Within(n + elapsed)'
    <3>1. step'.kind \in {"Probe", "Switch"} /\ (step'.kind = "Switch" => Own')
      BY <1>1, <1>11, <2>6
    <3>2. 0 + elapsed' = elapsed'
      BY <1>11, <2>1
    <3>. QED  BY <3>1, <3>2 DEF Lateness
  <2>. QED  BY <1>1, <1>9, <1>11, <2>5, <2>6, <2>7 DEF OnTimeInv
<1>. QED  BY <1>10, <1>11 DEF Tick

LEMMA OnTimeStep ==
  ASSUME ~CoreRefuses, MaxInstalls = 0, IInv, OnTimeInv, [Next]_vars PROVE OnTimeInv'
<1>1. CASE NextWatch \/ NextSweep \/ NextIdle
  BY <1>1, CalmIsTimely DEF NextWatch, NextSweep, NextIdle
<1>2. ~Abort
  BY DEF Abort
<1>3. ~Replace
  BY DEF Replace, PickServer, PickStrategy, CoreDeath, Install, IInv, TypeOK
<1>4. CASE UNCHANGED vars
  BY <1>4 DEF vars, machine, sweepVars, judgeVars, OnTimeInv, Verifying, Lateness, Exempt, Dead, Within,
              Steps, Own, Others, Never, Ancient, Larger
<1>. QED  BY <1>1, <1>2, <1>3, <1>4, NextPendingIsTimely, NextDecideIsTimely, ReportIsTimely,
             CommitIsTimely, LogIsTimely, TickIsTimely DEF Next, Drive, Decide

(* Unless it is known to be dead, the node traffic goes through is checked *)
(* on schedule, give or take one sweep chunk, every other candidate being  *)
(* verified in turn and one switch being made (watched_due): of a machine   *)
(* that is not replaced, with a core that takes every switch.              *)
THEOREM WatchedIsOnTime == ASSUME ~CoreRefuses, MaxInstalls = 0 PROVE Spec => []WatchedOnTime
<1>1. ASSUME Init PROVE OnTimeInv
  <2>1. step.kind = "Ready" /\ ~sweeping /\ ~Own
    BY <1>1 DEF Init, Ready, Own
  <2>2. health[routed].probed = Never
    BY <1>1 DEF Init, Unknown
  <2>. QED  BY <2>1, <2>2 DEF OnTimeInv, Verifying, Exempt
<1>2. IInv /\ OnTimeInv /\ [Next]_vars => OnTimeInv'
  BY OnTimeStep
<1>3. ASSUME IInv, OnTimeInv PROVE WatchedOnTime
  <2> SUFFICES ASSUME ~Exempt PROVE Within(Steps(2 + Cardinality(Others)))
    BY DEF Exempt, WatchedOnTime, Within, Steps
  <2>1. Lateness /\ ~Dead(routed)
    BY <1>3 DEF OnTimeInv, Exempt
  <2>2. /\ Steps(1 + Cardinality(Others)) \in Nat /\ Steps(1) = LongestStep /\ LongestStep \in Nat \ {0}
        /\ Steps(1) <= Steps(1 + Cardinality(Others))
        /\ Steps(2 + Cardinality(Others)) = Steps(1 + Cardinality(Others)) + LongestStep
        /\ Own => /\ Steps(1 + Cardinality(pending.checked)) \in Nat
                  /\ Steps(1 + Cardinality(pending.checked)) <= Steps(1 + Cardinality(Others))
    BY <1>3, Allowance, StepsFacts, TimesAssumption DEF IInv, OnTimeInv, Verifying
  <2>3. health[routed].probed \in Nat /\ PROBE_EVERY \in Nat /\ elapsed \in 0..LongestStep
    BY <1>3, AgeType, AncientType DEF IInv
  <2>4. step.kind \in {"Ready", "Idle", "Probe", "Switch"}
    BY <1>3, <2>1 DEF IInv, TypeOK, OnTimeInv, Ready, Idle, Stranded
  <2>5. CASE step.kind = "Idle"
    BY <2>1, <2>2, <2>3, <2>5 DEF Lateness, Within
  <2>6. CASE step.kind = "Ready"
    BY <2>1, <2>2, <2>3, <2>6 DEF Lateness, Within
  <2>7. CASE step.kind \in {"Probe", "Switch"} /\ Own
    BY <2>1, <2>2, <2>3, <2>7 DEF Lateness, Within
  <2>8. CASE step.kind = "Probe" /\ ~Own
    BY <2>1, <2>2, <2>3, <2>8 DEF Lateness, Within
  <2>. QED  BY <1>3, <2>4, <2>5, <2>6, <2>7, <2>8 DEF OnTimeInv
<1>. QED  BY <1>1, <1>2, <1>3, Invariance, PTL DEF Spec
=============================================================================
