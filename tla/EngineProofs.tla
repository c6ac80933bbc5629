---------------------------- MODULE EngineProofs ----------------------------
(***************************************************************************)
(* The engine's port table, its resolver and its rules.                     *)
(*                                                                          *)
(* Ports, for any number of flows and any range: that the two tables agree  *)
(* is inductive with the types beside it; that a SYN finds a port if there  *)
(* is one follows at each step, since the search passes every port.         *)
(*                                                                          *)
(* Answers, for any number of names, addresses, questions and streams: a    *)
(* given address leads to its name because no name is kept at an address    *)
(* that has gone to another; no reply is taken for another question's       *)
(* because a stream in the pool has nothing unread and belongs to nobody.   *)
(*                                                                          *)
(* Rules, for any lists and any documents: what must be decided is decided  *)
(* by the second call of Router::next, before the mode is looked at.        *)
(***************************************************************************)
EXTENDS PortTable, DnsServer, Routing, WellFoundedInduction, TLAPS

EntryType == [port : NatPorts, seen : Nat, closing : BOOLEAN]

HandType ==
  {Empty} \cup [at : {"app"}, flow : Flows, is : Packets]
          \cup [at : {"kernel"}, port : NatPorts, is : {"data", "fin"}]
          \cup [at : {"routed"}, flow : Flows, is : Packets]

PortTypeOK ==
  /\ DOMAIN forward \in SUBSET Flows /\ forward \in [DOMAIN forward -> EntryType]
  /\ DOMAIN reverse \in SUBSET NatPorts /\ reverse \in [DOMAIN reverse -> Flows]
  /\ cursor \in {0} \cup NatPorts
  /\ seconds \in Nat
  /\ hand \in HandType

PortInv == PortTypeOK /\ PortsAgree

----------------------------------------------------------------------------
(* The search.                                                              *)

\* It begins at a port, and looks at ports only.
LEMMA FirstTriedIsPort ==
  ASSUME NEW c \in {0} \cup NatPorts
  PROVE  FirstTried(c) \in NatPorts
BY PortAssumption DEF FirstTried, NatPorts

LEMMA TriedIsPort ==
  ASSUME NEW c \in {0} \cup NatPorts, NEW i \in Rounds
  PROVE  Tried(c, i) \in NatPorts
<1>1. PICK f \in NatPorts : f = FirstTried(c)
  BY FirstTriedIsPort
<1>. QED  BY <1>1, PortAssumption DEF Tried, NatPorts, Rounds, Range

\* It comes to every port, wherever the cursor is.
LEMMA TriedIsEveryPort ==
  ASSUME NEW c \in {0} \cup NatPorts, NEW p \in NatPorts
  PROVE  \E i \in Rounds : Tried(c, i) = p
<1>1. PICK f \in NatPorts : f = FirstTried(c)
  BY FirstTriedIsPort
<1>2. CASE f <= p
  <2>1. p - f + 1 \in Rounds
    BY <1>2, PortAssumption DEF NatPorts, Rounds, Range
  <2>2. Tried(c, p - f + 1) = p
    BY <1>1, <1>2, PortAssumption DEF Tried, NatPorts
  <2>. QED  BY <2>1, <2>2
<1>3. CASE p < f
  <2>1. p - f + 1 + Range \in Rounds
    BY <1>3, PortAssumption DEF NatPorts, Rounds, Range
  <2>2. Tried(c, p - f + 1 + Range) = p
    BY <1>1, <1>3, PortAssumption DEF Tried, NatPorts, Range
  <2>. QED  BY <2>1, <2>2
<1>. QED  BY <1>2, <1>3, PortAssumption DEF NatPorts

\* Nothing is found only if every port is taken.
LEMMA NothingFree ==
  ASSUME NEW c \in {0} \cup NatPorts, NEW taken, Free(c, taken) = {}
  PROVE  NatPorts \subseteq taken
BY TriedIsEveryPort DEF Free

----------------------------------------------------------------------------
(* Changing the two tables together.                                        *)

\* Whose port a port is, is known by the port.
LEMMA OwnerIsKnown ==
  ASSUME PortInv, NEW k \in DOMAIN forward, NEW p \in DOMAIN reverse, reverse[p] = k
  PROVE  forward[k].port = p
BY DEF PortInv, PortsAgree

LEMMA CreateKeeps ==
  ASSUME PortInv, NEW k \in Flows, hand \in [at : {"app"}, flow : Flows, is : Packets],
         k \notin DOMAIN forward \/ Closing(k), Create(k), seconds' = seconds
  PROVE  PortInv'
<1> DEFINE before == Without(reverse, GivenBack(k))
<1>1. /\ DOMAIN before = DOMAIN reverse \ GivenBack(k)
      /\ \A p \in DOMAIN before : before[p] = reverse[p]
  BY DEF Without
<1>2. \A p \in DOMAIN before : reverse[p] # k
  <2>1. SUFFICES ASSUME NEW p \in DOMAIN reverse, reverse[p] = k, p \notin GivenBack(k)
                 PROVE  FALSE
    BY <1>1
  <2>2. k \in DOMAIN forward /\ forward[k].port = p
    BY <2>1 DEF PortInv, PortsAgree
  <2>. QED  BY <2>1, <2>2 DEF GivenBack
<1>3. \A j \in DOMAIN forward \ {k} : forward[j].port \in DOMAIN before
  <2>1. SUFFICES ASSUME NEW j \in DOMAIN forward \ {k}
                 PROVE  forward[j].port \notin GivenBack(k)
    BY <1>1 DEF PortInv, PortsAgree
  <2>2. reverse[forward[j].port] = j
    BY DEF PortInv, PortsAgree
  <2>3. Closing(k) => reverse[forward[k].port] = k
    BY DEF PortInv, PortsAgree, Closing
  <2>. QED  BY <2>2, <2>3 DEF GivenBack
<1> HIDE DEF before
<1>4. ASSUME NEW i \in Rounds, Found(cursor, DOMAIN before, i),
             forward' = With(forward, k, Entry(Tried(cursor, i), seconds)),
             reverse' = With(before, Tried(cursor, i), k),
             cursor' = Tried(cursor, i), hand' = [hand EXCEPT !.at = "routed"]
      PROVE  PortInv'
  <2>1. PICK p \in NatPorts : p = Tried(cursor, i)
    BY TriedIsPort DEF PortInv, PortTypeOK
  <2>2. p \notin DOMAIN before
    BY <1>4, <2>1 DEF Found, Free
  <2>3. /\ DOMAIN forward' = DOMAIN forward \cup {k}
        /\ \A j \in DOMAIN forward' : forward'[j] = IF j = k THEN Entry(p, seconds) ELSE forward[j]
    BY <1>4, <2>1 DEF With
  <2>4. /\ DOMAIN reverse' = DOMAIN before \cup {p}
        /\ \A q \in DOMAIN reverse' : reverse'[q] = IF q = p THEN k ELSE before[q]
    BY <1>4, <2>1 DEF With
  <2>5. PortTypeOK'
    <3>1. DOMAIN forward' \in SUBSET Flows /\ forward' \in [DOMAIN forward' -> EntryType]
      <4>1. Entry(p, seconds) \in EntryType
        BY DEF Entry, EntryType, PortInv, PortTypeOK
      <4>2. forward' = [j \in DOMAIN forward' |-> forward'[j]]
        BY <1>4 DEF With
      <4>. QED  BY <4>1, <4>2, <2>3 DEF PortInv, PortTypeOK
    <3>2. DOMAIN reverse' \in SUBSET NatPorts /\ reverse' \in [DOMAIN reverse' -> Flows]
      <4>1. reverse' = [q \in DOMAIN reverse' |-> reverse'[q]]
        BY <1>4 DEF With
      <4>. QED  BY <4>1, <2>4, <1>1 DEF PortInv, PortTypeOK
    <3>3. hand' \in HandType
      BY <1>4 DEF HandType
    <3>. QED  BY <3>1, <3>2, <3>3, <1>4, <2>1 DEF PortInv, PortTypeOK
  <2>6. PortsAgree'
    <3>1. ASSUME NEW j \in DOMAIN forward'
          PROVE  forward'[j].port \in DOMAIN reverse' /\ reverse'[forward'[j].port] = j
      <4>1. CASE j = k
        BY <4>1, <2>3, <2>4 DEF Entry
      <4>2. CASE j # k
        BY <4>2, <1>1, <1>3, <2>2, <2>3, <2>4 DEF PortInv, PortsAgree
      <4>. QED  BY <4>1, <4>2
    <3>2. ASSUME NEW q \in DOMAIN reverse'
          PROVE  reverse'[q] \in DOMAIN forward' /\ forward'[reverse'[q]].port = q
      <4>1. CASE q = p
        BY <4>1, <2>3, <2>4 DEF Entry
      <4>2. CASE q # p
        BY <4>2, <1>1, <1>2, <2>3, <2>4 DEF PortInv, PortsAgree
      <4>. QED  BY <4>1, <4>2
    <3>. QED  BY <3>1, <3>2 DEF PortsAgree
  <2>. QED  BY <2>5, <2>6 DEF PortInv
<1>5. ASSUME forward' = Without(forward, IF Closing(k) THEN {k} ELSE {}), reverse' = before,
             cursor' = (IF cursor < PortFirst THEN PortLast ELSE cursor), hand' = Empty
      PROVE  PortInv'
  <2>1. /\ DOMAIN forward' = DOMAIN forward \ {k}
        /\ forward' = [j \in DOMAIN forward' |-> forward[j]]
    BY <1>5 DEF Without
  <2>2. reverse' = [p \in DOMAIN reverse' |-> reverse[p]]
    BY <1>5 DEF before, Without
  <2>3. PortTypeOK'
    <3>1. cursor' \in {0} \cup NatPorts
      BY <1>5, PortAssumption DEF PortInv, PortTypeOK, NatPorts
    <3>2. hand' \in HandType
      BY <1>5 DEF HandType
    <3>. QED  BY <3>1, <3>2, <2>1, <2>2, <1>1, <1>5 DEF PortInv, PortTypeOK
  <2>4. /\ \A j \in DOMAIN forward' : forward'[j] = forward[j]
        /\ DOMAIN reverse' = DOMAIN before
        /\ \A p \in DOMAIN reverse' : reverse'[p] = reverse[p]
    BY <2>1, <2>2, <1>1, <1>5
  <2>5. \A j \in DOMAIN forward' :
          forward'[j].port \in DOMAIN reverse' /\ reverse'[forward'[j].port] = j
    BY <2>1, <2>4, <1>3 DEF PortInv, PortsAgree
  <2>6. \A p \in DOMAIN reverse' :
          reverse'[p] \in DOMAIN forward' /\ forward'[reverse'[p]].port = p
    BY <2>1, <2>4, <1>1, <1>2 DEF PortInv, PortsAgree
  <2>. QED  BY <2>3, <2>5, <2>6 DEF PortInv, PortsAgree
<1>. QED  BY <1>4, <1>5 DEF Create, before

----------------------------------------------------------------------------

LEMMA InitiallyPorts == PortInit => PortInv
BY DEF PortInit, PortInv, PortTypeOK, PortsAgree, HandType

LEMMA LookupKeeps == ASSUME PortInv, Lookup PROVE PortInv'
<1>1. hand \in [at : {"app"}, flow : Flows, is : Packets]
  BY DEF Lookup, PortInv, PortTypeOK, HandType, Empty
<1>2. CASE Create(hand.flow) /\ (hand.flow \notin DOMAIN forward \/ Closing(hand.flow))
  BY <1>1, <1>2, CreateKeeps DEF Lookup
<1>3. CASE hand' \in {Empty, [hand EXCEPT !.at = "routed"]} /\ UNCHANGED <<forward, reverse, cursor>>
  BY <1>1, <1>3 DEF Lookup, PortInv, PortTypeOK, PortsAgree, HandType
<1>. QED  BY <1>2, <1>3 DEF Lookup

LEMMA RewriteKeeps == ASSUME PortInv, Rewrite PROVE PortInv'
<1>1. hand \in [at : {"routed"}, flow : Flows, is : Packets]
  BY DEF Rewrite, PortInv, PortTypeOK, HandType, Empty
<1>2. hand' \in HandType /\ UNCHANGED <<reverse, cursor, seconds>>
  BY DEF Rewrite, HandType
<1>3. CASE hand.flow \in DOMAIN forward
  <2>1. /\ DOMAIN forward' = DOMAIN forward
        /\ forward' = [j \in DOMAIN forward |->
                         IF j = hand.flow THEN Touched(forward[j]) ELSE forward[j]]
    BY <1>3 DEF Rewrite, With
  <2>2. \A e \in EntryType : Touched(e) \in EntryType /\ Touched(e).port = e.port
    BY DEF EntryType, Touched, PortInv, PortTypeOK
  <2>3. \A j \in DOMAIN forward : forward'[j] \in EntryType /\ forward'[j].port = forward[j].port
    BY <2>1, <2>2 DEF PortInv, PortTypeOK
  <2>4. PortTypeOK'
    BY <1>2, <2>1, <2>3 DEF PortInv, PortTypeOK
  <2>5. PortsAgree'
    BY <1>2, <2>1, <2>3 DEF PortInv, PortsAgree
  <2>. QED  BY <2>4, <2>5 DEF PortInv
<1>4. CASE hand.flow \notin DOMAIN forward
  BY <1>2, <1>4 DEF Rewrite, PortInv, PortTypeOK, PortsAgree
<1>. QED  BY <1>3, <1>4

LEMMA SweepKeeps == ASSUME PortInv, Sweep PROVE PortInv'
<1>1. /\ DOMAIN forward' = DOMAIN forward \ Stale
      /\ forward' = [k \in DOMAIN forward' |-> forward[k]]
  BY DEF Sweep, Without
<1>2. /\ DOMAIN reverse' = DOMAIN reverse \ PortsOf(Stale)
      /\ reverse' = [p \in DOMAIN reverse' |-> reverse[p]]
  BY DEF Sweep, Without
<1>3. UNCHANGED <<cursor, seconds, hand>>
  BY DEF Sweep
<1>4. \A k \in DOMAIN forward \ Stale : forward[k].port \notin PortsOf(Stale)
  BY DEF PortInv, PortsAgree, PortsOf, Stale
<1>5. \A p \in DOMAIN reverse \ PortsOf(Stale) : reverse[p] \notin Stale
  BY DEF PortInv, PortsAgree, PortsOf
<1>6. PortTypeOK'
  BY <1>1, <1>2, <1>3 DEF PortInv, PortTypeOK
<1>7. PortsAgree'
  BY <1>1, <1>2, <1>4, <1>5 DEF PortInv, PortsAgree
<1>. QED  BY <1>6, <1>7 DEF PortInv

LEMMA PortStepKeeps == PortInv /\ [PortNext]_portVars => PortInv'
<1> SUFFICES ASSUME PortInv, [PortNext]_portVars PROVE PortInv'
  OBVIOUS
<1>1. CASE ReadPacket
  <2>1. hand' \in HandType
    BY <1>1 DEF ReadPacket, HandType
  <2>. QED  BY <1>1, <2>1 DEF ReadPacket, PortInv, PortTypeOK, PortsAgree
<1>2. CASE LookupPort
  <2>1. hand \in [at : {"kernel"}, port : NatPorts, is : {"data", "fin"}]
    BY <1>2 DEF LookupPort, PortInv, PortTypeOK, HandType, Empty
  <2>2. hand' \in HandType
    BY <1>2, <2>1 DEF LookupPort, PortInv, PortTypeOK, HandType, Packets
  <2>. QED  BY <1>2, <2>2 DEF LookupPort, PortInv, PortTypeOK, PortsAgree
<1>3. CASE TickPorts
  BY <1>3, PortAssumption DEF TickPorts, PortInv, PortTypeOK, PortsAgree
<1>4. CASE UNCHANGED portVars
  BY <1>4 DEF portVars, PortInv, PortTypeOK, PortsAgree
<1>. QED  BY <1>1, <1>2, <1>3, <1>4, LookupKeeps, RewriteKeeps, SweepKeeps DEF PortNext

(* Two flows never share a port and no port outlives its flow (create and   *)
(* sweep of nat.rs), for any number of flows, range of ports and limits.    *)
THEOREM TablesAgree == PortSpec => []PortsAgree
<1>1. PortInv => PortsAgree
  BY DEF PortInv
<1>. QED  BY InitiallyPorts, PortStepKeeps, <1>1, PTL DEF PortSpec

----------------------------------------------------------------------------
(* A lost SYN.                                                              *)

SynLost == hand.at = "app" /\ hand.is = "syn" /\ hand' = Empty
AllTaken == NatPorts \subseteq {forward[k].port : k \in DOMAIN forward \ {hand.flow}}

\* Only a search that found nothing loses a SYN.
LEMMA LostInSearch ==
  ASSUME PortInv, [PortNext]_portVars, SynLost
  PROVE  /\ hand.flow \notin DOMAIN forward \/ Closing(hand.flow)
         /\ Free(cursor, DOMAIN Without(reverse, GivenBack(hand.flow))) = {}
<1>1. hand \in [at : {"app"}, flow : Flows, is : Packets]
  BY DEF SynLost, PortInv, PortTypeOK, HandType, Empty
<1>2. hand # hand' /\ hand' # [hand EXCEPT !.at = "routed"]
  BY <1>1 DEF SynLost, Empty
<1>3. Lookup
  BY <1>1, <1>2 DEF SynLost, PortNext, ReadPacket, LookupPort, Rewrite, TickPorts, Sweep,
                   portVars, Empty
<1>. QED  BY <1>2, <1>3 DEF Lookup, Create, SynLost

LEMMA LostWhenFull ==
  ASSUME PortInv, [PortNext]_portVars, SynLost
  PROVE  AllTaken
<1> DEFINE k == hand.flow
<1>1. NatPorts \subseteq DOMAIN Without(reverse, GivenBack(k))
  BY LostInSearch, NothingFree DEF PortInv, PortTypeOK
<1>2. ASSUME NEW p \in NatPorts
      PROVE  \E j \in DOMAIN forward \ {k} : forward[j].port = p
  <2>1. p \in DOMAIN reverse /\ p \notin GivenBack(k)
    BY <1>1 DEF Without
  <2>2. reverse[p] \in DOMAIN forward /\ forward[reverse[p]].port = p
    BY <2>1 DEF PortInv, PortsAgree
  <2>3. reverse[p] # k
    BY <2>1, <2>2, LostInSearch DEF GivenBack
  <2>. QED  BY <2>2, <2>3
<1>. QED  BY <1>2 DEF AllTaken

(* A SYN is lost only when every port is another flow's (create of nat.rs), *)
(* wherever the cursor is and whatever was given back, for any range.       *)
THEOREM SynIsLostOnlyWhenFull == PortSpec => SynIsServed
<1>1. PortInv /\ [PortNext]_portVars =>
        [hand.at = "app" /\ hand.is = "syn" /\ hand' = Empty
          => NatPorts \subseteq {forward[k].port : k \in DOMAIN forward \ {hand.flow}}]_portVars
  BY LostWhenFull DEF SynLost, AllTaken
<1>. QED  BY InitiallyPorts, PortStepKeeps, <1>1, PTL DEF PortSpec, SynIsServed

----------------------------------------------------------------------------
(* Fake addresses.                                                          *)

\* A name is kept at the address that is kept for it.
FakeInv ==
  /\ \A n \in DOMAIN byName : byName[n] \in DOMAIN byIndex /\ byIndex[byName[n]] = n
  /\ AnswerHolds

LEMMA InitiallyFake == DnsInit => FakeInv
BY DEF DnsInit, FakeInv, AnswerHolds

LEMMA NewIndexKeepsFake ==
  ASSUME FakeInv, NEW n, NewIndex(n)
  PROVE  FakeInv'
<1>1. /\ DOMAIN byIndex' = DOMAIN byIndex \cup {next}
      /\ \A i \in DOMAIN byIndex' : byIndex'[i] = IF i = next THEN n ELSE byIndex[i]
  BY DEF NewIndex, Put
<1>2. /\ DOMAIN given' = DOMAIN given \cup {next}
      /\ \A i \in DOMAIN given' : given'[i] = IF i = next THEN n ELSE given[i]
  BY DEF NewIndex, Put
<1>3. /\ DOMAIN byName' = (DOMAIN byName \ Owner(next)) \cup {n}
      /\ \A m \in DOMAIN byName' : byName'[m] = IF m = n THEN next ELSE byName[m]
  BY DEF NewIndex, Put, Dropped
<1>4. \A m \in DOMAIN byName \ Owner(next) : byName[m] # next
  BY DEF FakeInv, Owner
<1>5. ASSUME NEW m \in DOMAIN byName'
      PROVE  byName'[m] \in DOMAIN byIndex' /\ byIndex'[byName'[m]] = m
  <2>1. CASE m = n
    BY <2>1, <1>1, <1>3
  <2>2. CASE m # n
    BY <2>2, <1>1, <1>3, <1>4 DEF FakeInv
  <2>. QED  BY <2>1, <2>2
<1>6. AnswerHolds'
  BY <1>1, <1>2 DEF FakeInv, AnswerHolds
<1>. QED  BY <1>5, <1>6 DEF FakeInv

LEMMA FakeStep == FakeInv /\ [DnsNext]_dnsVars => FakeInv'
<1> SUFFICES ASSUME FakeInv, [DnsNext]_dnsVars PROVE FakeInv'
  OBVIOUS
<1>1. ASSUME NEW n \in Names, Known(n) PROVE FakeInv'
  <2>1. /\ DOMAIN given' = DOMAIN given \cup {byName[n]}
        /\ \A i \in DOMAIN given' : given'[i] = IF i = byName[n] THEN n ELSE given[i]
    BY <1>1 DEF Known, Put
  <2>2. n \in DOMAIN byName /\ UNCHANGED <<byName, byIndex>>
    BY <1>1 DEF Known
  <2>3. \A i \in DOMAIN given' : i \in DOMAIN byIndex /\ byIndex[i] = given'[i]
    BY <2>1, <2>2 DEF FakeInv, AnswerHolds
  <2>. QED  BY <2>2, <2>3 DEF FakeInv, AnswerHolds
<1>2. ASSUME UNCHANGED fakeVars PROVE FakeInv'
  BY <1>2 DEF fakeVars, FakeInv, AnswerHolds
<1>3. CASE \E n \in Names : Allocate(n)
  BY <1>1, <1>3, NewIndexKeepsFake DEF Allocate
<1>4. CASE ~\E n \in Names : Allocate(n)
  <2>1. UNCHANGED fakeVars
    BY <1>4 DEF DnsNext, dnsVars, Ask, Open, Reply, Again, GiveUp, Forget
  <2>. QED  BY <2>1, <1>2
<1>. QED  BY <1>3, <1>4

(* An address leads to the name of the newest answer that held it           *)
(* (index_for and lookup of dns.rs), for any range and any number of names, *)
(* however often the range is gone round.                                   *)
THEOREM AnswersHold == DnsSpec => []AnswerHolds
<1>1. FakeInv => AnswerHolds
  BY DEF FakeInv
<1>. QED  BY InitiallyFake, FakeStep, <1>1, PTL DEF DnsSpec

----------------------------------------------------------------------------
(* The questions and their streams.                                         *)

QuestionType ==
  {Idle} \cup [at : {"dial"}, name : Names, stream : {NoStream}]
         \cup [at : {"old", "new"}, name : Names, stream : Streams]

StreamTypeOK ==
  /\ question \in [Questions -> QuestionType]
  /\ pool \in Streams \cup {NoStream}
  /\ unread \in [Streams -> Seq(Names)]

\* A stream is in one hand at most.
Alone ==
  /\ \A q \in Questions : On(q) => question[q].stream # pool
  /\ \A q, r \in Questions :
       On(q) /\ On(r) /\ question[q].stream = question[r].stream => q = r

\* A stream is not kept with something unread.
PoolIsRead == pool \in Streams => unread[pool] = <<>>

StreamInv == StreamTypeOK /\ Alone /\ PoolIsRead /\ RightAnswer

LEMMA InitiallyStreams == DnsInit => StreamInv
<1> SUFFICES ASSUME DnsInit PROVE StreamInv
  OBVIOUS
<1>1. \A q \in Questions : ~On(q)
  BY DEF DnsInit, On, Idle
<1>2. StreamTypeOK
  BY DEF DnsInit, StreamTypeOK, QuestionType
<1>3. PoolIsRead
  BY DnsAssumption DEF DnsInit, PoolIsRead
<1>. QED  BY <1>1, <1>2, <1>3 DEF DnsInit, StreamInv, Alone, RightAnswer

\* What a question that is on a stream looks like.
LEMMA OnType ==
  ASSUME StreamInv, NEW q \in Questions, On(q)
  PROVE  /\ question[q] \in [at : {"old", "new"}, name : Names, stream : Streams]
         /\ unread[question[q].stream] = <<question[q].name>>
<1>1. question[q] \in QuestionType
  BY DEF StreamInv, StreamTypeOK
<1>. QED  BY <1>1 DEF On, QuestionType, Idle, StreamInv, RightAnswer

\* One question lets go of its stream, and the pool stays: GiveUp and Again.
LEMMA LetGoKeeps ==
  ASSUME StreamInv, NEW q \in Questions,
         NEW v \in {Idle} \cup [at : {"dial"}, name : Names, stream : {NoStream}],
         question' = [question EXCEPT ![q] = v], UNCHANGED <<pool, unread, cache>>
  PROVE  StreamInv'
<1>1. StreamTypeOK'
  BY DEF StreamInv, StreamTypeOK, QuestionType
<1>2. question'[q] = v /\ \A r \in Questions \ {q} : question'[r] = question[r]
  BY DEF StreamInv, StreamTypeOK
<1>3. v.at \notin {"old", "new"}
  BY DEF Idle
<1>4. \A r \in Questions : On(r)' => r # q /\ On(r) /\ question'[r] = question[r]
  BY <1>2, <1>3 DEF On
<1>. QED  BY <1>1, <1>4 DEF StreamInv, Alone, PoolIsRead, RightAnswer

\* One question takes a stream nobody else holds, with only its name unread.
LEMMA TakesKeeps ==
  ASSUME StreamInv, NEW q \in Questions, ~On(q), NEW n \in Names, NEW s \in Streams,
         \A r \in Questions : On(r) => question[r].stream # s,
         NEW at \in {"old", "new"}, Works(q, at, n, s),
         unread' = [unread EXCEPT ![s] = <<n>>],
         pool' \in {pool, NoStream}, pool' # s, UNCHANGED cache
  PROVE  StreamInv'
<1>1. StreamTypeOK'
  <2>1. [at |-> at, name |-> n, stream |-> s] \in QuestionType
    BY DEF QuestionType
  <2>2. <<n>> \in Seq(Names)
    OBVIOUS
  <2>. QED  BY <2>1, <2>2 DEF StreamInv, StreamTypeOK, Works
<1>2. /\ question'[q] = [at |-> at, name |-> n, stream |-> s]
      /\ \A r \in Questions \ {q} : question'[r] = question[r]
  BY DEF StreamInv, StreamTypeOK, Works
<1>3. unread'[s] = <<n>> /\ \A t \in Streams \ {s} : unread'[t] = unread[t]
  BY DEF StreamInv, StreamTypeOK
<1>4. \A r \in Questions \ {q} : On(r)' => On(r) /\ question'[r] = question[r]
                                           /\ question[r].stream \in Streams \ {s}
  BY <1>2, OnType DEF On
<1>5. Alone'
  BY <1>2, <1>4, DnsAssumption DEF StreamInv, Alone
<1>6. PoolIsRead'
  BY <1>3, DnsAssumption DEF StreamInv, PoolIsRead
<1>7. RightAnswer'
  <2>1. \A r \in Questions \ {q} : On(r)' => unread'[question'[r].stream] = <<question'[r].name>>
    BY <1>3, <1>4 DEF StreamInv, RightAnswer
  <2>. QED  BY <1>2, <1>3, <2>1 DEF StreamInv, RightAnswer
<1>. QED  BY <1>1, <1>5, <1>6, <1>7 DEF StreamInv

LEMMA ReplyKeeps ==
  ASSUME StreamInv, NEW q \in Questions, Reply(q)
  PROVE  StreamInv'
<1> DEFINE s == question[q].stream
<1> DEFINE n == question[q].name
<1>1. On(q) /\ s \in Streams /\ n \in Names /\ unread[s] = <<n>>
  BY OnType DEF Reply
<1>2. /\ question' = [question EXCEPT ![q] = Idle]
      /\ pool' = s
      /\ unread' = [unread EXCEPT ![s] = Tail(@)]
      /\ cache' \in {cache, Put(cache, n, Head(unread[s]))}
  BY DEF Reply, Done
<1> HIDE DEF s, n
<1>3. Head(unread[s]) = n /\ Tail(unread[s]) = <<>>
  BY <1>1
<1>4. unread'[s] = <<>> /\ \A t \in Streams \ {s} : unread'[t] = unread[t]
  BY <1>1, <1>2, <1>3 DEF StreamInv, StreamTypeOK
<1>5. StreamTypeOK'
  <2>1. unread' \in [Streams -> Seq(Names)]
    BY <1>1, <1>2, <1>3 DEF StreamInv, StreamTypeOK
  <2>. QED  BY <1>1, <1>2, <2>1 DEF StreamInv, StreamTypeOK, QuestionType
<1>6. question'[q] = Idle /\ \A r \in Questions \ {q} : question'[r] = question[r]
  BY <1>2 DEF StreamInv, StreamTypeOK
<1>7. \A r \in Questions : On(r)' => On(r) /\ question'[r] = question[r]
                                     /\ question[r].stream \in Streams \ {s}
  <2>1. ~On(q)'
    BY <1>6 DEF On, Idle
  <2>2. \A r \in Questions \ {q} : On(r) => question[r].stream # s
    BY <1>1 DEF StreamInv, Alone, s
  <2>. QED  BY <1>6, <2>1, <2>2, OnType DEF On
<1>8. Alone'
  BY <1>2, <1>7 DEF StreamInv, Alone
<1>9. PoolIsRead'
  BY <1>2, <1>4 DEF PoolIsRead
<1>10. RightAnswer'
  <2>1. \A m \in DOMAIN cache' : cache'[m] = m
    BY <1>2, <1>3 DEF Put, StreamInv, RightAnswer
  <2>2. \A r \in Questions : On(r)' => unread'[question'[r].stream] = <<question'[r].name>>
    BY <1>4, <1>7 DEF StreamInv, RightAnswer
  <2>. QED  BY <2>1, <2>2 DEF RightAnswer
<1>. QED  BY <1>5, <1>8, <1>9, <1>10 DEF StreamInv

LEMMA AskKeeps ==
  ASSUME StreamInv, NEW q \in Questions, NEW n \in Names, Ask(q, n)
  PROVE  StreamInv'
<1>1. ~On(q)
  BY DEF Ask, On, Idle
<1>2. CASE pool # NoStream /\ Works(q, "old", n, pool) /\ Sent(pool, n)
  <2>1. pool \in Streams /\ unread[pool] = <<>>
    BY <1>2 DEF StreamInv, StreamTypeOK, PoolIsRead
  <2>2. unread' = [unread EXCEPT ![pool] = <<n>>]
    <3>1. Append(unread[pool], n) = <<n>>
      BY <2>1
    <3>. QED  BY <1>2, <2>1, <3>1 DEF Sent, StreamInv, StreamTypeOK
  <2>3. \A r \in Questions : On(r) => question[r].stream # pool
    BY DEF StreamInv, Alone
  <2>4. pool' = NoStream /\ UNCHANGED cache
    BY DEF Ask
  <2>. QED  BY <1>1, <1>2, <2>1, <2>2, <2>3, <2>4, TakesKeeps
<1>3. CASE pool = NoStream /\ Works(q, "dial", n, NoStream) /\ UNCHANGED unread
  <2>1. [at |-> "dial", name |-> n, stream |-> NoStream]
          \in [at : {"dial"}, name : Names, stream : {NoStream}]
    OBVIOUS
  <2>2. UNCHANGED <<pool, unread, cache>>
    BY <1>3 DEF Ask
  <2>. QED  BY <1>3, <2>1, <2>2, LetGoKeeps DEF Works
<1>. QED  BY <1>2, <1>3 DEF Ask

LEMMA OpenKeeps ==
  ASSUME StreamInv, NEW q \in Questions, Open(q)
  PROVE  StreamInv'
<1>1. question[q] \in [at : {"dial"}, name : Names, stream : {NoStream}]
  <2>1. question[q] \in QuestionType
    BY DEF StreamInv, StreamTypeOK
  <2>. QED  BY <2>1 DEF Open, QuestionType, Idle
<1>2. PICK s \in Unused : /\ Works(q, "new", question[q].name, s)
                          /\ unread' = [unread EXCEPT ![s] = <<question[q].name>>]
  BY DEF Open
<1>3. s \in Streams /\ s # pool /\ \A r \in Questions : On(r) => question[r].stream # s
  BY DEF Unused
<1>4. UNCHANGED <<pool, cache>>
  BY DEF Open
<1>. QED  BY <1>1, <1>2, <1>3, <1>4, TakesKeeps DEF On

LEMMA StreamStep == StreamInv /\ [DnsNext]_dnsVars => StreamInv'
<1> SUFFICES ASSUME StreamInv, [DnsNext]_dnsVars PROVE StreamInv'
  OBVIOUS
<1>1. ASSUME NEW q \in Questions, Again(q) PROVE StreamInv'
  <2>1. question[q].name \in Names
    BY <1>1, OnType DEF Again, On
  <2>2. [at |-> "dial", name |-> question[q].name, stream |-> NoStream]
          \in [at : {"dial"}, name : Names, stream : {NoStream}]
    BY <2>1
  <2>. QED  BY <1>1, <2>2, LetGoKeeps DEF Again, Works
<1>2. ASSUME NEW q \in Questions, GiveUp(q) PROVE StreamInv'
  BY <1>2, LetGoKeeps DEF GiveUp, Done
<1>3. CASE Forget
  <2>1. \A n \in DOMAIN cache' : cache'[n] = n
    BY <1>3 DEF Forget, Dropped, StreamInv, RightAnswer
  <2>2. UNCHANGED <<question, pool, unread>>
    BY <1>3 DEF Forget
  <2>. QED  BY <2>1, <2>2 DEF StreamInv, StreamTypeOK, Alone, PoolIsRead, RightAnswer, On
<1>4. ASSUME UNCHANGED streamVars PROVE StreamInv'
  BY <1>4 DEF streamVars, StreamInv, StreamTypeOK, Alone, PoolIsRead, RightAnswer, On
<1>5. CASE \E n \in Names : Allocate(n)
  BY <1>4, <1>5 DEF Allocate
<1>6. CASE UNCHANGED dnsVars
  BY <1>4, <1>6 DEF dnsVars
<1>. QED  BY <1>1, <1>2, <1>3, <1>5, <1>6, AskKeeps, OpenKeeps, ReplyKeeps DEF DnsNext

(* No name is answered with another's reply (exchange_stream and            *)
(* exchange_cached of dns.rs), for any number of questions and streams,     *)
(* whatever is given up while its reply is on the way.                      *)
THEOREM AnswersAreRight == DnsSpec => []RightAnswer
<1>1. StreamInv => RightAnswer
  BY DEF StreamInv
<1>. QED  BY InitiallyStreams, StreamStep, <1>1, PTL DEF DnsSpec

----------------------------------------------------------------------------
(* The rules.                                                               *)

Fields == {"stage", "from", "via", "dest", "domain", "process", "resolved", "name", "visible",
           "answer", "asker", "out", "rule"}

Must == Around \/ (conn.visible /\ "block" \in ListsOf[conn.name])

ConnShape ==
  /\ Fields \subseteq DOMAIN conn
  /\ conn.process \subseteq Apps
  /\ \/ conn.dest.kind = "fake"
     \/ conn.dest.kind = "name" /\ conn.dest.of \in Hosts
     \/ conn.dest.kind = "ip" /\ conn.dest.of \in Addresses
  /\ conn.visible \in BOOLEAN
  /\ conn.name \in Hosts \/ (conn.name = NoName /\ ~conn.visible)
  /\ conn.domain \in {NoName, conn.name}
  /\ conn.domain # NoName => conn.visible

RouteInv ==
  /\ setup \in Setups /\ clashMode \in Modes
  /\ conn.stage = "answered" =>
       conn.app \in Apps /\ conn.name \in Hosts /\ "block" \notin ListsOf[conn.name]
  /\ conn.stage = "routing" =>
       /\ ConnShape
       /\ conn.from # 1 /\ conn.visible => conn.domain = conn.name
       /\ conn.via = "mixed" /\ conn.visible => conn.domain = conn.name
       /\ conn.via \in {"tun", "mixed"}
       /\ conn.name \in Hosts /\ conn.answer # "none" => "block" \notin ListsOf[conn.name]
       /\ Must => conn.from \in {1, 2} /\ ~conn.resolved
  /\ SecondGoesAround /\ BlockedIsUnreached

LEMMA OrderIs ==
  /\ Len(RouteOrder) = 21
  /\ RouteOrder[1] = "sniff" /\ RouteOrder[2] = "second" /\ RouteOrder[3] = "serverIp"
  /\ RouteOrder[4] = "serverName" /\ RouteOrder[5] = "dns" /\ RouteOrder[6] = "block"
  /\ Len(DnsOrder) = 11
  /\ DnsOrder[1] = "second" /\ DnsOrder[2] = "serverName" /\ DnsOrder[3] = "block"
BY DEF RouteOrder, DnsOrder

\* The first match is found not after any match among the first rules.
LEMMA FirstIsEarly ==
  ASSUME NEW S \in SUBSET (Nat \ {0}), NEW m \in 1..6, m \in S
  PROVE  First(S) \in S /\ First(S) \in 1..m
<1>1. \E n \in S : \A k \in S : n <= k
  <2>1. CASE 1 \in S BY <2>1
  <2>2. CASE 1 \notin S /\ 2 \in S BY <2>2
  <2>3. CASE 1 \notin S /\ 2 \notin S /\ 3 \in S BY <2>3
  <2>4. CASE 1 \notin S /\ 2 \notin S /\ 3 \notin S /\ 4 \in S BY <2>4
  <2>5. CASE 1 \notin S /\ 2 \notin S /\ 3 \notin S /\ 4 \notin S /\ 5 \in S BY <2>5
  <2>6. CASE 1 \notin S /\ 2 \notin S /\ 3 \notin S /\ 4 \notin S /\ 5 \notin S /\ 6 \in S BY <2>6
  <2>. QED  BY <2>1, <2>2, <2>3, <2>4, <2>5, <2>6
<1>2. First(S) \in S /\ \A k \in S : First(S) <= k
  BY <1>1 DEF First
<1>3. PICK f \in S : f = First(S)
  BY <1>2
<1>. QED  BY <1>2, <1>3

\* What is known of a connection before it is resolved, beside its process, is
\* what its address or its name is on.
LEMMA EarlyFacts ==
  ASSUME ConnShape, ~conn.resolved, clashMode \in Modes
  PROVE  /\ "second" \in Facts(conn, clashMode) => "second" \in conn.process
         /\ "serverIp" \in Facts(conn, clashMode) =>
              conn.dest.kind = "ip" /\ "serverIp" \in ListsOf[conn.dest.of]
         /\ "serverName" \in Facts(conn, clashMode) =>
              conn.domain \in Hosts /\ "serverName" \in ListsOf[conn.domain]
         /\ "dns" \notin Facts(conn, clashMode)
<1>1. conn.domain # NoName => conn.domain \in Hosts /\ ListsOf[conn.domain] \subseteq HostLists
  BY RoutingAssumption DEF ConnShape
<1>2. \/ conn.dest.kind = "fake" /\ IpFacts(conn) = {"private"}
      \/ conn.dest.kind = "name" /\ IpFacts(conn) = {}
      \/ /\ conn.dest.kind = "ip" /\ IpFacts(conn) = ListsOf[conn.dest.of]
         /\ ListsOf[conn.dest.of] \subseteq AddressLists
  BY RoutingAssumption DEF ConnShape, IpFacts
<1>. QED
  BY <1>1, <1>2 DEF Facts, DomainFacts, HostLists, AddressLists, Modes, Apps, ConnShape

LEMMA Present ==
  ASSUME NEW s \in Setups
  PROVE  /\ "sniff" \in RouteRules(s) /\ "block" \in RouteRules(s)
         /\ "second" \in RouteRules(s) <=> s.second # "none"
         /\ "serverIp" \in RouteRules(s) <=> s.second = "address"
         /\ "serverName" \in RouteRules(s) <=> s.second = "name"
         /\ "block" \in DnsRules(s)
         /\ "second" \in DnsRules(s) <=> s.second # "none"
         /\ "serverName" \in DnsRules(s) <=> s.second = "name"
<1>1. /\ s.second \in {"none", "name", "address"}
      /\ s.on \subseteq Switches /\ s.sets \subseteq RuleSets
  BY RoutingAssumption
<1>2. ReadableSets(s) \subseteq RuleSets /\ DirectSites(s) \subseteq RuleSets
  <2>1. AppliedSets(s) \subseteq RuleSets
    BY DEF AppliedSets, GeoSets, RuleSets
  <2>. QED  BY <2>1 DEF ReadableSets, DirectSites
<1>. QED  BY <1>1, <1>2 DEF RouteRules, DnsRules, SecondRules, RuleSets, Switches
LEMMA HitsAre ==
  ASSUME conn.from \in {1, 2}
  PROVE  /\ Hits \in SUBSET (Nat \ {0}) /\ \A n \in Hits : n >= conn.from
         /\ \A n \in 1..6 : n \in Hits <=>
              n >= conn.from /\ RouteOrder[n] \in RouteRules(setup) \cap Facts(conn, clashMode)
BY OrderIs DEF Hits, Matching

\* The first call of next finds the sniff.
LEMMA FirstCall ==
  ASSUME RouteInv, Route, conn.from = 1
  PROVE  conn' = [conn EXCEPT !.from = 2, !.domain =
                    IF conn.via = "tun" /\ conn.visible THEN conn.name ELSE @]
<1>1. 1 \in Hits
  <2>1. "sniff" \in RouteRules(setup)
    BY Present DEF RouteInv
  <2>2. "sniff" \in Facts(conn, clashMode)
    BY DEF Facts
  <2>. QED  BY <2>1, <2>2, HitsAre, OrderIs
<1>2. First(Hits) = 1 /\ Hits # {}
  BY <1>1, FirstIsEarly, HitsAre
<1>3. RouteDoes(setup, Rule) = "sniff"
  BY <1>2, OrderIs DEF RouteDoes, Rule
<1>4. Sniff
  BY <1>2, <1>3 DEF Route, Resolve, Tells
<1>. QED  BY <1>2, <1>4 DEF Sniff

\* The second decides what must be decided early.
LEMMA SecondCall ==
  ASSUME RouteInv, Route, conn.stage = "routing", conn.from = 2, Must
  PROVE  \E rule \in {"second", "serverIp", "serverName", "block"} :
           /\ conn' = [conn EXCEPT !.stage = "done", !.out = RouteDoes(setup, rule), !.rule = rule]
           /\ Around => rule # "block"
           /\ ~Around => rule = "block"
<1>1. ConnShape /\ ~conn.resolved /\ (conn.visible => conn.domain = conn.name) /\ clashMode \in Modes
  BY DEF RouteInv
<1>2. setup \in Setups /\ setup.second \in {"none", "name", "address"}
  BY RoutingAssumption DEF RouteInv
<1>3. Around <=> 2 \in Hits \/ 3 \in Hits \/ 4 \in Hits
  <2>1. ASSUME "second" \in conn.process, setup.second # "none" PROVE 2 \in Hits
    BY <2>1, <1>2, Present, HitsAre, OrderIs DEF Facts
  <2>2. ASSUME setup.second = "address", conn.dest.kind = "ip", "serverIp" \in ListsOf[conn.dest.of]
        PROVE  3 \in Hits
    BY <2>2, <1>2, Present, HitsAre, OrderIs DEF Facts, IpFacts
  <2>3. ASSUME setup.second = "name", conn.visible, conn.name # NoName, "serverName" \in ListsOf[conn.name]
        PROVE  4 \in Hits
    BY <2>3, <1>1, <1>2, Present, HitsAre, OrderIs DEF Facts, DomainFacts
  <2>4. ASSUME 2 \in Hits PROVE Around
    BY <2>4, <1>1, <1>2, Present, HitsAre, OrderIs, EarlyFacts DEF Around
  <2>5. ASSUME 3 \in Hits PROVE Around
    BY <2>5, <1>1, <1>2, Present, HitsAre, OrderIs, EarlyFacts DEF Around
  <2>6. ASSUME 4 \in Hits PROVE Around
    <3>1. conn.domain \in Hosts /\ "serverName" \in ListsOf[conn.domain] /\ setup.second = "name"
      BY <2>6, <1>1, <1>2, Present, HitsAre, OrderIs, EarlyFacts
    <3>. QED  BY <1>1, <3>1, RoutingAssumption DEF Around, ConnShape
  <2>. QED  BY <2>1, <2>2, <2>3, <2>4, <2>5, <2>6 DEF Around
<1>4. 5 \notin Hits
  BY <1>1, HitsAre, OrderIs, EarlyFacts
<1>5. CASE Around
  <2>1. First(Hits) \in {2, 3, 4} /\ Hits # {}
    <3>1. ASSUME NEW m \in {2, 3, 4}, m \in Hits PROVE First(Hits) \in {2, 3, 4}
      BY <3>1, FirstIsEarly, HitsAre
    <3>. QED  BY <3>1, <1>3, <1>5
  <2>2. Rule \in {"second", "serverIp", "serverName"}
    BY <2>1, OrderIs DEF Rule
  <2>3. RouteDoes(setup, Rule) = "direct"
    BY <2>2 DEF RouteDoes
  <2>4. Decided("direct", Rule)
    BY <2>1, <2>3 DEF Route, Sniff, Resolve, Tells
  <2>. QED  BY <1>5, <2>2, <2>3, <2>4 DEF Decided, Rule
<1>6. CASE ~Around
  <2>1. conn.visible /\ "block" \in ListsOf[conn.name]
    BY <1>6 DEF Must
  <2>2. conn.domain = conn.name /\ conn.name # NoName
    BY <1>1, <2>1, RoutingAssumption DEF ConnShape
  <2>3. 6 \in Hits
    BY <2>1, <2>2, <1>2, Present, HitsAre, OrderIs DEF Facts, DomainFacts
  <2>4. First(Hits) = 6 /\ Hits # {}
    BY <2>3, <1>3, <1>4, <1>6, FirstIsEarly, HitsAre
  <2>5. Rule = "block" /\ RouteDoes(setup, Rule) = "reject"
    BY <2>4, OrderIs DEF RouteDoes, Rule
  <2>6. Decided("reject", Rule)
    BY <2>4, <2>5 DEF Route, Sniff, Resolve, Tells
  <2>. QED  BY <1>6, <2>5, <2>6 DEF Decided
<1>. QED  BY <1>5, <1>6

\* A name that is answered is not a blocked one: its lookup is refused, unless
\* it is the second engine's and never reaches the DNS rules.
LEMMA AnsweredIsAllowed ==
  ASSUME RouteInv, NEW n \in Hosts, NEW process \in SUBSET Apps,
         Hijacked(n, process), Answer(n, process) # "reject"
  PROVE  "block" \notin ListsOf[n]
<1>. DEFINE sought == process \cup ListsOf[n] \cup {"fake"}
            met   == process \cup ListsOf[n] \cup {"dns", "private", clashMode}
            A     == Matching(DnsOrder, DnsRules(setup), sought, 1)
            H     == Matching(RouteOrder, RouteRules(setup), met, 2)
<1>1. setup \in Setups /\ ListsOf[n] \subseteq HostLists
  BY RoutingAssumption DEF RouteInv
<1>2. A \in SUBSET (Nat \ {0}) /\ H \in SUBSET (Nat \ {0}) /\ \A k \in H : k >= 2
  BY OrderIs DEF Matching
<1>3. \A k \in 1..3 : k \in A <=> DnsOrder[k] \in DnsRules(setup) \cap sought
  BY OrderIs DEF Matching
<1>4. \A k \in 2..4 : k \in H <=> RouteOrder[k] \in RouteRules(setup) \cap met
  BY OrderIs DEF Matching
<1>5. 2 \notin H /\ 4 \notin H
  <2>1. ASSUME NEW m \in {2, 4}, m \in H PROVE First(H) \in {2, 3, 4}
    BY <2>1, <1>2, FirstIsEarly
  <2>. QED  BY <2>1, OrderIs DEF Hijacked
<1>6. 1 \notin A /\ 2 \notin A
  BY <1>1, <1>3, <1>4, <1>5, Present, OrderIs
<1>7. SUFFICES ASSUME "block" \in ListsOf[n] PROVE FALSE
  OBVIOUS
<1>8. 3 \in A
  BY <1>1, <1>3, <1>7, Present, OrderIs
<1>9. First(A) = 3 /\ A # {}
  BY <1>2, <1>6, <1>8, FirstIsEarly
<1>. QED
  BY <1>9, OrderIs DEF Answer, DnsDoes

LEMMA LookUpKeeps ==
  ASSUME RouteInv, NEW app \in Apps, NEW n \in Hosts, LookUp(app, n)
  PROVE  RouteInv'
<1>1. PICK process \in Attributions(app) :
        conn' = [stage |-> IF ~Hijacked(n, process) THEN "lost"
                           ELSE IF Answer(n, process) = "reject" THEN "refused" ELSE "answered",
                 app |-> app, name |-> n, asker |-> process, answer |-> Answer(n, process)]
  BY DEF LookUp
<1>2. process \in SUBSET Apps
  BY <1>1 DEF Attributions
<1>3. conn'.name = n /\ conn'.app = app /\ conn'.stage \notin {"routing", "done"}
  BY <1>1
<1>4. conn'.stage = "answered" => "block" \notin ListsOf[n]
  BY <1>1, <1>2, AnsweredIsAllowed
<1>. QED
  BY <1>3, <1>4 DEF RouteInv, LookUp, SecondGoesAround, BlockedIsUnreached, Settled

LEMMA OpensKeeps ==
  ASSUME RouteInv, NEW app \in Apps, NEW via \in {"tun", "mixed"}, NEW dest, NEW name,
         NEW visible \in BOOLEAN, NEW lookup, Opens(app, via, dest, name, visible, lookup),
         \/ dest.kind = "fake"
         \/ dest.kind = "name" /\ dest.of \in Hosts
         \/ dest.kind = "ip" /\ dest.of \in Addresses,
         name \in Hosts \/ (name = NoName /\ ~visible),
         dest.kind = "name" => visible,
         via = "mixed" /\ visible => dest.kind = "name",
         name \in Hosts /\ lookup.answer # "none" => "block" \notin ListsOf[name]
  PROVE  RouteInv'
<1>1. PICK process \in Attributions(app) :
        conn' = [stage |-> "routing", from |-> 1, via |-> via, dest |-> dest,
                 domain |-> IF dest.kind = "name" THEN name ELSE NoName,
                 process |-> process, resolved |-> FALSE,
                 name |-> name, visible |-> visible,
                 answer |-> lookup.answer, asker |-> lookup.asker,
                 out |-> "none", rule |-> "none"]
  BY DEF Opens
<1>2. process \in SUBSET Apps
  BY <1>1 DEF Attributions
<1>3. ConnShape'
  BY <1>1, <1>2 DEF ConnShape, Fields
<1>4. /\ conn'.stage = "routing" /\ conn'.from = 1 /\ ~conn'.resolved
      /\ conn'.via = via /\ conn'.visible = visible /\ conn'.name = name
      /\ conn'.answer = lookup.answer
      /\ dest.kind = "name" => conn'.domain = name
  BY <1>1
<1>. QED
  BY <1>3, <1>4 DEF RouteInv, Opens, SecondGoesAround, BlockedIsUnreached, Settled

LEMMA RouteKeeps ==
  ASSUME RouteInv, Route
  PROVE  RouteInv'
<1>1. conn.stage = "routing" /\ ConnShape /\ setup' = setup /\ clashMode' = clashMode
  BY DEF Route, RouteInv
<1>2. CASE conn.from = 1
  <2>1. conn' = [conn EXCEPT !.from = 2, !.domain =
                   IF conn.via = "tun" /\ conn.visible THEN conn.name ELSE @]
    BY <1>2, FirstCall
  <2>2. /\ conn'.stage = "routing" /\ conn'.from = 2
        /\ conn'.domain = IF conn.via = "tun" /\ conn.visible THEN conn.name ELSE conn.domain
        /\ conn'.via = conn.via /\ conn'.resolved = conn.resolved /\ conn'.visible = conn.visible
        /\ conn'.name = conn.name /\ conn'.answer = conn.answer
        /\ conn'.process = conn.process /\ conn'.dest = conn.dest /\ Fields \subseteq DOMAIN conn'
    BY <1>1, <2>1 DEF ConnShape, Fields
  <2>3. Must' <=> Must
    BY <1>1, <2>2 DEF Must, Around
  <2>4. ConnShape'
    BY <1>1, <2>2, RoutingAssumption DEF ConnShape
  <2>. QED
    BY <1>1, <1>2, <2>2, <2>3, <2>4 DEF RouteInv, SecondGoesAround, BlockedIsUnreached, Settled
<1>3. CASE conn.from # 1 /\ Must
  <2>1. PICK rule \in {"second", "serverIp", "serverName", "block"} :
          /\ conn' = [conn EXCEPT !.stage = "done", !.out = RouteDoes(setup, rule), !.rule = rule]
          /\ Around => rule # "block"
          /\ ~Around => rule = "block"
    BY <1>1, <1>3, SecondCall DEF RouteInv
  <2>2. /\ conn'.stage = "done" /\ conn'.out = RouteDoes(setup, rule)
        /\ conn'.visible = conn.visible /\ conn'.name = conn.name
        /\ conn'.process = conn.process /\ conn'.dest = conn.dest
    BY <1>1, <2>1 DEF ConnShape, Fields
  <2>3. Around' <=> Around
    BY <1>1, <2>2 DEF Around
  <2>4. (Around => conn'.out = "direct") /\ (~Around => conn'.out = "reject")
    BY <2>1, <2>2 DEF RouteDoes
  <2>. QED
    BY <1>1, <2>2, <2>3, <2>4 DEF RouteInv, SecondGoesAround, BlockedIsUnreached, Settled
<1>4. CASE conn.from # 1 /\ ~Must
  <2>. DEFINE Kept ==
          /\ conn'.stage \in {"routing", "done"}
          /\ conn'.domain = conn.domain \/ (conn.visible /\ conn'.domain = conn.name)
          /\ conn'.via = conn.via /\ conn'.visible = conn.visible
          /\ conn'.name = conn.name /\ conn'.answer = conn.answer
          /\ conn'.process = conn.process /\ conn'.dest = conn.dest /\ Fields \subseteq DOMAIN conn'
  <2>1. Kept
    <3>1. CASE Sniff BY <1>1, <3>1 DEF Sniff, ConnShape, Fields
    <3>2. CASE Resolve BY <1>1, <3>2 DEF Resolve, ConnShape, Fields
    <3>3. ASSUME NEW out, NEW rule, Decided(out, rule) PROVE Kept
      BY <1>1, <3>3 DEF Decided, ConnShape, Fields
    <3>. QED  BY <3>1, <3>2, <3>3 DEF Route
  <2>2. (Must' <=> Must) /\ (Around' <=> Around)
    BY <1>1, <2>1 DEF Must, Around
  <2>3. ConnShape'
    BY <1>1, <2>1, RoutingAssumption DEF ConnShape
  <2>. QED
    BY <1>1, <1>4, <2>1, <2>2, <2>3
    DEF RouteInv, SecondGoesAround, BlockedIsUnreached, Settled, Must, ConnShape
<1>. QED  BY <1>2, <1>3, <1>4

LEMMA RouteInvHolds == RouteSpec => []RouteInv
<1>1. RouteInit => RouteInv
  BY DEF RouteInit, RouteInv, NoConn, Modes, SecondGoesAround, BlockedIsUnreached, Settled
<1>2. ASSUME RouteInv, [RouteNext]_routeVars PROVE RouteInv'
  <2>1. ASSUME NEW app \in Apps, NEW n \in Hosts, LookUp(app, n) PROVE RouteInv'
    BY <1>2, <2>1, LookUpKeeps
  <2>2. ASSUME NEW app \in Apps, NEW n \in Hosts, ConnectByName(app, n) PROVE RouteInv'
    <3>1. Opens(app, "mixed", Dest("name", n), n, TRUE, Unasked)
      BY <2>2 DEF ConnectByName
    <3>2. Dest("name", n).kind = "name" /\ Dest("name", n).of \in Hosts /\ Unasked.answer = "none"
      BY DEF Dest, Unasked
    <3>. QED  BY <1>2, <3>1, <3>2, OpensKeeps
  <2>3. ASSUME NEW app \in Apps, NEW a \in Addresses, ConnectByAddress(app, a) PROVE RouteInv'
    <3>1. Opens(app, "mixed", Dest("ip", a), NoName, FALSE, Unasked)
      BY <2>3 DEF ConnectByAddress
    <3>2. Dest("ip", a).kind = "ip" /\ Dest("ip", a).of \in Addresses
      BY DEF Dest
    <3>. QED  BY <1>2, <3>1, <3>2, OpensKeeps, RoutingAssumption
  <2>4. ASSUME NEW app \in Apps, NEW a \in Addresses, NEW name \in Hosts \cup {NoName},
               NEW visible \in BOOLEAN, ConnectUnasked(app, a, name, visible)
        PROVE  RouteInv'
    <3>1. /\ Opens(app, "tun", Dest("ip", a), name, visible, Unasked)
          /\ name = NoName => ~visible
      BY <2>4 DEF ConnectUnasked
    <3>2. Dest("ip", a).kind = "ip" /\ Dest("ip", a).of \in Addresses /\ Unasked.answer = "none"
      BY DEF Dest, Unasked
    <3>. QED  BY <1>2, <3>1, <3>2, OpensKeeps
  <2>5. ASSUME NEW visible \in BOOLEAN, Connect(visible) PROVE RouteInv'
    <3>. DEFINE dest == IF conn.answer = "fake" THEN Dest("fake", conn.name)
                                              ELSE Dest("ip", AddressOf[conn.name])
    <3>1. /\ conn.name \in Hosts /\ "block" \notin ListsOf[conn.name] /\ conn.app \in Apps
          /\ Opens(conn.app, "tun", dest, conn.name, visible, conn)
      BY <1>2, <2>5 DEF Connect, RouteInv
    <3>2. dest.kind = "fake" \/ (dest.kind = "ip" /\ dest.of \in Addresses)
      BY <3>1, RoutingAssumption DEF Dest
    <3>. HIDE DEF dest
    <3>. QED  BY <1>2, <3>1, <3>2, OpensKeeps
  <2>6. CASE Route
    BY <1>2, <2>6, RouteKeeps
  <2>7. ASSUME NEW m \in Modes, SetMode(m) PROVE RouteInv'
    BY <1>2, <2>7
    DEF SetMode, RouteInv, ConnShape, Must, Around, SecondGoesAround, BlockedIsUnreached, Settled
  <2>8. CASE UNCHANGED routeVars
    BY <1>2, <2>8
    DEF routeVars, RouteInv, ConnShape, Must, Around, SecondGoesAround, BlockedIsUnreached, Settled
  <2>. QED  BY <1>2, <2>1, <2>2, <2>3, <2>4, <2>5, <2>6, <2>7, <2>8 DEF RouteNext
<1>. QED  BY <1>1, <1>2, PTL DEF RouteSpec

\* Nothing the second engine sends, as far as the rules can tell it, re-enters
\* the tunnel, whatever lists there are and however often the mode changes.
THEOREM SecondEngineGoesAround == RouteSpec => []SecondGoesAround
<1>1. RouteInv => SecondGoesAround
  BY DEF RouteInv
<1>. QED  BY <1>1, RouteInvHolds, PTL

\* A blocked name is not reached, by its lookup or by a connection that shows
\* it, whatever else it is on and however often the mode changes.
THEOREM BlockedStaysUnreached == RouteSpec => []BlockedIsUnreached
<1>1. RouteInv => BlockedIsUnreached
  BY DEF RouteInv
<1>. QED  BY <1>1, RouteInvHolds, PTL

----------------------------------------------------------------------------
(* A lookup and its connection.                                             *)

\* The rules both lists have.
NameRules ==
  {"second", "serverName", "block", "geosite-ads", "direct", "proxy", "ru", "geosite-ru",
   "geosite-cn"}
ByAddress == {"private", "serverIp", "directIp", "proxyIp", "geoip-ru", "geoip-cn"}

Applies(k) == RouteOrder[k] \in RouteRules(setup) \cap Facts(conn, "Rule")

FollowInv ==
  /\ conn.stage = "answered" => conn.answer = Answer(conn.name, conn.asker)
  /\ conn.stage \in {"routing", "done"} => clashMode \in modes
  /\ conn.stage = "routing" /\ conn.answer \in {"direct", "remote"} =>
       /\ conn.via = "tun" /\ conn.name \in Hosts /\ conn.dest.kind = "ip"
       /\ conn.answer = Answer(conn.name, conn.asker)
       /\ conn.from \in {1, 2, 17}
       /\ conn.from = 17 /\ conn.visible /\ modes = {"Rule"} => \A k \in 2..15 : ~Applies(k)
  /\ LookupFollowsTraffic

LEMMA LeastNumber ==
  ASSUME NEW T, T \subseteq Nat, T # {}
  PROVE  \E x \in T : \A y \in T : x <= y
<1> DEFINE R == OpToRel(<, Nat)
<1>1. \A i, j \in Nat : i < j => <<i, j>> \in R
  BY DEF OpToRel
<1>2. \E x \in T : \A y \in T : ~ (<<y, x>> \in R)
  BY NatLessThanWellFounded, WFMin, Zenon
<1> HIDE DEF R
<1>3. \E x \in T : \A y \in T : ~ (y < x)
  BY <1>1, <1>2
<1> QED
  BY <1>3

LEMMA FirstIsFirst ==
  ASSUME NEW S \in SUBSET Nat, S # {}
  PROVE  First(S) \in S /\ \A k \in S : First(S) <= k
<1>1. \E n \in S : \A k \in S : n <= k
  BY LeastNumber
<1>. QED  BY <1>1 DEF First

LEMMA ThisIsFirst ==
  ASSUME NEW S \in SUBSET Nat, NEW n \in S, \A k \in S : n <= k
  PROVE  First(S) = n
<1>1. First(S) \in S /\ First(S) <= n
  BY FirstIsFirst
<1>2. PICK f \in S : f = First(S)
  BY <1>1
<1>. QED  BY <1>1, <1>2

LEMMA WholeOrders ==
  /\ Len(DnsOrder) = 11
  /\ DnsOrder[1] = "second" /\ DnsOrder[2] = "serverName" /\ DnsOrder[3] = "block"
  /\ DnsOrder[4] = "geosite-ads" /\ DnsOrder[5] = "direct" /\ DnsOrder[6] = "proxy"
  /\ DnsOrder[7] = "ru" /\ DnsOrder[8] = "geosite-ru" /\ DnsOrder[9] = "geosite-cn"
  /\ DnsOrder[10] = "listed" /\ DnsOrder[11] = "fake"
  /\ RouteOrder[2] = "second" /\ RouteOrder[3] = "serverIp" /\ RouteOrder[4] = "serverName"
  /\ RouteOrder[5] = "dns" /\ RouteOrder[6] = "block" /\ RouteOrder[7] = "geosite-ads"
  /\ RouteOrder[8] = "Direct" /\ RouteOrder[9] = "Global" /\ RouteOrder[10] = "private"
  /\ RouteOrder[11] = "direct" /\ RouteOrder[12] = "proxy" /\ RouteOrder[13] = "ru"
  /\ RouteOrder[14] = "geosite-ru" /\ RouteOrder[15] = "geosite-cn"
  /\ RouteOrder[16] = "resolve" /\ RouteOrder[17] = "directIp" /\ RouteOrder[18] = "proxyIp"
  /\ RouteOrder[19] = "geoip-ru" /\ RouteOrder[20] = "geoip-cn" /\ RouteOrder[21] = "listed"
BY DEF DnsOrder, RouteOrder

\* A rule about names or processes is in both lists or in none.
LEMMA SameRules ==
  ASSUME NEW s \in Setups, SitesAreRead(s)
  PROVE  /\ \A r \in NameRules : r \in RouteRules(s) <=> r \in DnsRules(s)
         /\ "listed" \in RouteRules(s) <=> s.split # "off"
         /\ "listed" \in DnsRules(s) <=> s.split # "off"
<1>1. /\ s.second \in {"none", "name", "address"} /\ s.split \in {"off", "include", "exclude"}
      /\ s.on \subseteq Switches
  BY RoutingAssumption
<1>2. ReadableSets(s) \subseteq RuleSets
  BY DEF AppliedSets, GeoSets, RuleSets, ReadableSets
<1>3. DirectSites(s) = ReadableSets(s) \cap {"geosite-ru", "geosite-cn"}
  BY DEF SitesAreRead
<1>. QED
  BY <1>1, <1>2, <1>3 DEF RouteRules, DnsRules, SecondRules, RuleSets, Switches, NameRules
Sought(n, process) == process \cup ListsOf[n] \cup {"fake"}
Asked(k, n, process) == DnsOrder[k] \in DnsRules(setup) \cap Sought(n, process)

LEMMA AnswerIs ==
  ASSUME NEW n, NEW process
  PROVE  /\ \A k \in 1..11 :
              Asked(k, n, process) /\ (\A i \in 1..(k - 1) : ~Asked(i, n, process))
                => Answer(n, process) = DnsDoes(setup, DnsOrder[k])
         /\ (\A k \in 1..11 : ~Asked(k, n, process)) => Answer(n, process) = DnsFinal(setup)
<1> DEFINE S == Matching(DnsOrder, DnsRules(setup), Sought(n, process), 1)
<1>1. S \in SUBSET Nat /\ \A k \in 1..11 : k \in S <=> Asked(k, n, process)
  BY WholeOrders DEF Matching, Asked
<1>2. S \subseteq 1..11
  BY WholeOrders DEF Matching
<1>3. Answer(n, process) =
        IF S = {} THEN DnsFinal(setup) ELSE DnsDoes(setup, DnsOrder[First(S)])
  BY DEF Answer, Sought
<1> HIDE DEF S
<1>4. ASSUME NEW k \in 1..11, Asked(k, n, process), \A i \in 1..(k - 1) : ~Asked(i, n, process)
      PROVE  First(S) = k /\ S # {}
  <2>1. k \in S /\ \A i \in S : k <= i
    BY <1>1, <1>2, <1>4
  <2>. QED  BY <1>1, <2>1, ThisIsFirst
<1>. QED  BY <1>1, <1>2, <1>3, <1>4

\* What the rules know of a name is the same in both lists, but for what the
\* address is on.
LEMMA SameFacts ==
  ASSUME ConnShape, conn.dest.kind = "ip", conn.domain = conn.name, conn.name \in Hosts
  PROVE  /\ \A r \in NameRules \cup {"listed"} :
              r \in Facts(conn, "Rule") <=> r \in Sought(conn.name, conn.process)
         /\ {"dns", "Direct", "Global"} \cap Facts(conn, "Rule") = {}
         /\ "resolve" \in Facts(conn, "Rule")
<1>1. /\ ListsOf[conn.name] \subseteq HostLists /\ conn.process \subseteq Apps
      /\ ListsOf[conn.dest.of] \subseteq AddressLists
      /\ conn.name # NoName
  BY RoutingAssumption DEF ConnShape
<1>2. Facts(conn, "Rule") =
        {"sniff", "resolve", "Rule"} \cup conn.process \cup ListsOf[conn.dest.of] \cup ListsOf[conn.name]
  BY <1>1 DEF Facts, IpFacts, DomainFacts
<1>3. /\ \A r \in NameRules \cup {"listed"} :
           r \notin {"sniff", "resolve", "Rule", "fake"} \cup AddressLists
      /\ {"dns", "Direct", "Global"} \cap ({"sniff", "resolve", "Rule"} \cup Apps \cup AddressLists \cup HostLists) = {}
  BY DEF NameRules, AddressLists, HostLists, Apps
<1>. QED  BY <1>1, <1>2, <1>3 DEF Sought
\* Where a later call of next finds its rule.
LEMMA LaterCall ==
  ASSUME RouteInv, conn.stage = "routing", conn.from \in {2, 17}, Hits # {}
  PROVE  /\ First(Hits) \in conn.from..21 /\ Rule \in RouteRules(setup) \cap Facts(conn, clashMode)
         /\ \A k \in conn.from..(First(Hits) - 1) :
              RouteOrder[k] \notin RouteRules(setup) \cap Facts(conn, clashMode)
<1>1. Hits = {n \in conn.from..21 : RouteOrder[n] \in RouteRules(setup) \cap Facts(conn, clashMode)}
  BY OrderIs DEF Hits, Matching
<1>2. First(Hits) \in Hits /\ \A k \in Hits : First(Hits) <= k
  BY <1>1, FirstIsFirst
<1>3. PICK f \in Hits : f = First(Hits)
  BY <1>2
<1>4. \A k \in conn.from..(f - 1) : k \notin Hits
  BY <1>1, <1>2, <1>3
<1>. QED  BY <1>1, <1>3, <1>4 DEF Rule

\* The resolve is the only step in between.
LEMMA OnlyResolve ==
  ASSUME RouteInv, Route, conn.from \in {2, 17}
  PROVE  \/ /\ conn.from = 2 /\ First(Hits) = 16 /\ Hits # {}
            /\ \E found \in BOOLEAN : conn' = [conn EXCEPT !.from = 17, !.resolved = found]
         \/ /\ Hits # {} /\ Decided(RouteDoes(setup, Rule), Rule)
            /\ RouteDoes(setup, Rule) \in {"direct", "proxy", "reject", "hijack"}
         \/ Hits = {} /\ Decided(RouteFinal(setup), "final")
<1>1. conn.stage = "routing"
  BY DEF Route
<1>2. CASE Sniff \/ Resolve
  <2>1. Hits # {} /\ RouteDoes(setup, Rule) \in {"sniff", "resolve"}
    BY <1>2 DEF Sniff, Resolve, Tells
  <2>2. PICK f \in conn.from..21 : f = First(Hits) /\ Rule = RouteOrder[f]
    BY <1>1, <2>1, LaterCall DEF Rule
  <2>3. Rule \in {"sniff", "resolve"}
    BY <2>1 DEF RouteDoes
  <2>4. f = 16
    BY <2>2, <2>3, WholeOrders
  <2>5. ~Sniff
    BY <2>2, <2>4, WholeOrders DEF Sniff, Tells, RouteDoes
  <2>6. First(Hits) + 1 = 17 /\ conn.from = 2
    BY <2>2, <2>4
  <2>. QED  BY <1>2, <2>1, <2>2, <2>4, <2>5, <2>6 DEF Resolve
<1>. QED  BY <1>2 DEF Route, Tells

\* What the rules decide by name or process they had decided for its lookup.
LEMMA NamedFollows ==
  ASSUME RouteInv, conn.stage = "routing", conn.from = 2, conn.visible, clashMode = "Rule",
         conn.name \in Hosts, conn.dest.kind = "ip",
         conn.asker = conn.process, SitesAreRead(setup), Hits # {}, Rule \in NameRules
  PROVE  Answer(conn.name, conn.asker) = DnsDoes(setup, Rule)
<1> DEFINE n == conn.name
           process == conn.process
<1>1. ConnShape /\ conn.domain = conn.name /\ setup \in Setups
  BY DEF RouteInv
<1>2. PICK f \in 2..21 : f = First(Hits) /\ Rule = RouteOrder[f]
  BY LaterCall DEF Rule
<1>3. f \in {2, 4, 6, 7, 11, 12, 13, 14, 15}
  BY <1>2, WholeOrders DEF NameRules
<1>4. \A r \in NameRules :
        r \in RouteRules(setup) \cap Facts(conn, "Rule") <=> r \in DnsRules(setup) \cap Sought(n, process)
  BY <1>1, SameRules, SameFacts
<1>5. \A k \in 2..(f - 1) : RouteOrder[k] \notin RouteRules(setup) \cap Facts(conn, "Rule")
  BY <1>2, LaterCall
<1>6. Rule \in DnsRules(setup) \cap Sought(n, process)
  BY <1>4, LaterCall
<1> HIDE DEF n, process
<1>7. /\ (f > 2 => ~Asked(1, n, process)) /\ (f > 4 => ~Asked(2, n, process))
      /\ (f > 6 => ~Asked(3, n, process)) /\ (f > 7 => ~Asked(4, n, process))
      /\ (f > 11 => ~Asked(5, n, process)) /\ (f > 12 => ~Asked(6, n, process))
      /\ (f > 13 => ~Asked(7, n, process)) /\ (f > 14 => ~Asked(8, n, process))
  BY <1>3, <1>4, <1>5, WholeOrders DEF Asked, NameRules
<1>8. \E k \in 1..9 : DnsOrder[k] = Rule /\ Asked(k, n, process) /\ \A i \in 1..(k - 1) : ~Asked(i, n, process)
  <2>1. CASE f = 2
    <3>1. 1 \in 1..9 /\ DnsOrder[1] = Rule
      BY <1>2, <2>1, WholeOrders
    <3>2. \A i \in 1..(1 - 1) : ~Asked(i, n, process)
      BY <1>7, <2>1
    <3>. QED  BY <1>6, <3>1, <3>2 DEF Asked
  <2>2. CASE f = 4
    <3>1. 2 \in 1..9 /\ DnsOrder[2] = Rule
      BY <1>2, <2>2, WholeOrders
    <3>2. \A i \in 1..(2 - 1) : ~Asked(i, n, process)
      BY <1>7, <2>2
    <3>. QED  BY <1>6, <3>1, <3>2 DEF Asked
  <2>3. CASE f = 6
    <3>1. 3 \in 1..9 /\ DnsOrder[3] = Rule
      BY <1>2, <2>3, WholeOrders
    <3>2. \A i \in 1..(3 - 1) : ~Asked(i, n, process)
      BY <1>7, <2>3
    <3>. QED  BY <1>6, <3>1, <3>2 DEF Asked
  <2>4. CASE f = 7
    <3>1. 4 \in 1..9 /\ DnsOrder[4] = Rule
      BY <1>2, <2>4, WholeOrders
    <3>2. \A i \in 1..(4 - 1) : ~Asked(i, n, process)
      BY <1>7, <2>4
    <3>. QED  BY <1>6, <3>1, <3>2 DEF Asked
  <2>5. CASE f = 11
    <3>1. 5 \in 1..9 /\ DnsOrder[5] = Rule
      BY <1>2, <2>5, WholeOrders
    <3>2. \A i \in 1..(5 - 1) : ~Asked(i, n, process)
      BY <1>7, <2>5
    <3>. QED  BY <1>6, <3>1, <3>2 DEF Asked
  <2>6. CASE f = 12
    <3>1. 6 \in 1..9 /\ DnsOrder[6] = Rule
      BY <1>2, <2>6, WholeOrders
    <3>2. \A i \in 1..(6 - 1) : ~Asked(i, n, process)
      BY <1>7, <2>6
    <3>. QED  BY <1>6, <3>1, <3>2 DEF Asked
  <2>7. CASE f = 13
    <3>1. 7 \in 1..9 /\ DnsOrder[7] = Rule
      BY <1>2, <2>7, WholeOrders
    <3>2. \A i \in 1..(7 - 1) : ~Asked(i, n, process)
      BY <1>7, <2>7
    <3>. QED  BY <1>6, <3>1, <3>2 DEF Asked
  <2>8. CASE f = 14
    <3>1. 8 \in 1..9 /\ DnsOrder[8] = Rule
      BY <1>2, <2>8, WholeOrders
    <3>2. \A i \in 1..(8 - 1) : ~Asked(i, n, process)
      BY <1>7, <2>8
    <3>. QED  BY <1>6, <3>1, <3>2 DEF Asked
  <2>9. CASE f = 15
    <3>1. 9 \in 1..9 /\ DnsOrder[9] = Rule
      BY <1>2, <2>9, WholeOrders
    <3>2. \A i \in 1..(9 - 1) : ~Asked(i, n, process)
      BY <1>7, <2>9
    <3>. QED  BY <1>6, <3>1, <3>2 DEF Asked
  <2>. QED  BY <1>3, <2>1, <2>2, <2>3, <2>4, <2>5, <2>6, <2>7, <2>8, <2>9
<1>. QED  BY <1>8, AnswerIs DEF n, process
\* Where no rule decided by name, none did for the lookup, and the process
\* decides both.
LEMMA UnnamedFollows ==
  ASSUME RouteInv, conn.stage = "routing", conn.from # 1, conn.visible,
         conn.name \in Hosts, conn.dest.kind = "ip", \A k \in 2..15 : ~Applies(k),
         conn.asker = conn.process, SitesAreRead(setup),
         conn.answer = Answer(conn.name, conn.asker), conn.answer \in {"direct", "remote"}
  PROVE  conn.answer = "direct" <=>
           IF "listed" \in RouteRules(setup) \cap Facts(conn, "Rule")
           THEN RouteDoes(setup, "listed") = "direct" ELSE RouteFinal(setup) = "direct"
<1> DEFINE n == conn.name
           process == conn.process
           answer == conn.answer
<1>1. ConnShape /\ conn.domain = conn.name /\ setup \in Setups
  BY DEF RouteInv
<1>2. \A r \in NameRules \cup {"listed"} :
        r \in RouteRules(setup) \cap Facts(conn, "Rule") <=> r \in DnsRules(setup) \cap Sought(n, process)
  BY <1>1, SameRules, SameFacts
<1>3. answer = Answer(n, process) /\ answer \in {"direct", "remote"}
  OBVIOUS
<1> HIDE DEF n, process, answer
<1>4. /\ ~Asked(1, n, process) /\ ~Asked(2, n, process) /\ ~Asked(3, n, process)
      /\ ~Asked(4, n, process) /\ ~Asked(5, n, process) /\ ~Asked(6, n, process)
      /\ ~Asked(7, n, process) /\ ~Asked(8, n, process) /\ ~Asked(9, n, process)
  <2>1. /\ ~Applies(2) /\ ~Applies(4) /\ ~Applies(6) /\ ~Applies(7) /\ ~Applies(11)
        /\ ~Applies(12) /\ ~Applies(13) /\ ~Applies(14) /\ ~Applies(15)
    OBVIOUS
  <2>. QED  BY <1>2, <2>1, WholeOrders DEF Asked, Applies, NameRules
<1>5. \A i \in 1..9 : ~Asked(i, n, process)
  BY <1>4
<1>6. /\ setup.split \in {"off", "include", "exclude"}
      /\ "listed" \in RouteRules(setup) => setup.split # "off"
  BY <1>1, RoutingAssumption, SameRules
<1>7. CASE Asked(10, n, process)
  <2>1. answer = DnsDoes(setup, "listed")
    <3>1. \A i \in 1..(10 - 1) : ~Asked(i, n, process)
      BY <1>5
    <3>2. Answer(n, process) = DnsDoes(setup, DnsOrder[10])
      BY <1>7, <3>1, AnswerIs
    <3>. QED  BY <1>3, <3>2, WholeOrders
  <2>2. "listed" \in RouteRules(setup) \cap Facts(conn, "Rule")
    BY <1>2, <1>7, WholeOrders DEF Asked
  <2>. QED  BY <1>3, <1>6, <2>1, <2>2 DEF answer, DnsDoes, RouteDoes
<1>8. CASE ~Asked(10, n, process)
  <2>1. "listed" \notin RouteRules(setup) \cap Facts(conn, "Rule")
    BY <1>2, <1>8, WholeOrders DEF Asked
  <2>2. CASE Asked(11, n, process)
    <3>1. \A i \in 1..(11 - 1) : ~Asked(i, n, process)
      BY <1>5, <1>8
    <3>2. Answer(n, process) = DnsDoes(setup, DnsOrder[11])
      BY <2>2, <3>1, AnswerIs
    <3>. QED  BY <1>3, <3>2, WholeOrders DEF DnsDoes
  <2>3. CASE ~Asked(11, n, process)
    <3>1. \A i \in 1..11 : ~Asked(i, n, process)
      BY <1>5, <1>8, <2>3
    <3>2. answer = DnsFinal(setup)
      BY <1>3, <3>1, AnswerIs
    <3>. QED  BY <1>6, <2>1, <3>2 DEF answer, DnsFinal, RouteFinal
  <2>. QED  BY <2>2, <2>3
<1>. QED  BY <1>7, <1>8

LEMMA RouteFollows ==
  ASSUME RouteInv, FollowInv, Route
  PROVE  FollowInv'
<1>1. conn.stage = "routing" /\ ConnShape /\ UNCHANGED <<setup, clashMode, modes>>
  BY DEF Route, RouteInv
<1> DEFINE Kept ==
        /\ conn'.via = conn.via /\ conn'.name = conn.name /\ conn'.visible = conn.visible
        /\ conn'.dest = conn.dest /\ conn'.process = conn.process /\ conn'.asker = conn.asker
        /\ conn'.answer = conn.answer
<1>2. /\ clashMode \in modes
      /\ \A m, by : Answer(m, by)' = Answer(m, by)
  BY <1>1 DEF FollowInv, Answer
<1>3. CASE conn.from = 1
  <2>1. conn' = [conn EXCEPT !.from = 2, !.domain =
                   IF conn.via = "tun" /\ conn.visible THEN conn.name ELSE @]
    BY <1>3, FirstCall
  <2>2. Kept /\ conn'.stage = "routing" /\ conn'.from = 2
    BY <1>1, <2>1 DEF ConnShape, Fields
  <2>. QED  BY <1>1, <1>2, <2>2 DEF FollowInv, LookupFollowsTraffic, Settled
<1>4. CASE conn.from # 1 /\ conn.answer \notin {"direct", "remote"}
  <2>1. Kept /\ conn'.stage \in {"routing", "done"}
    <3>1. CASE Sniff BY <1>1, <3>1 DEF Sniff, ConnShape, Fields
    <3>2. CASE Resolve BY <1>1, <3>2 DEF Resolve, ConnShape, Fields
    <3>3. ASSUME NEW out, NEW rule, Decided(out, rule)
          PROVE  Kept /\ conn'.stage \in {"routing", "done"}
      BY <1>1, <3>3 DEF Decided, ConnShape, Fields
    <3>. QED  BY <3>1, <3>2, <3>3 DEF Route
  <2>. QED  BY <1>1, <1>2, <1>4, <2>1 DEF FollowInv, LookupFollowsTraffic, Settled
<1>5. CASE conn.from # 1 /\ conn.answer \in {"direct", "remote"}
  <2>1. /\ conn.from \in {2, 17} /\ conn.via = "tun" /\ conn.name \in Hosts /\ conn.dest.kind = "ip"
        /\ conn.answer = Answer(conn.name, conn.asker)
        /\ conn.from = 17 /\ conn.visible /\ modes = {"Rule"} => \A k \in 2..15 : ~Applies(k)
    BY <1>1, <1>5 DEF FollowInv
  <2>2. modes = {"Rule"} => clashMode = "Rule"
    BY <1>2
  <2>3. conn.visible => conn.domain = conn.name
    BY <1>1, <1>5 DEF RouteInv
  <2>4. "resolve" \in RouteRules(setup)
    BY DEF RouteRules
  <2>5. CASE /\ conn.from = 2 /\ First(Hits) = 16 /\ Hits # {}
             /\ \E found \in BOOLEAN : conn' = [conn EXCEPT !.from = 17, !.resolved = found]
    <3>1. Kept /\ conn'.stage = "routing" /\ conn'.from = 17 /\ conn'.domain = conn.domain
      BY <1>1, <2>5 DEF ConnShape, Fields
    <3>2. ASSUME conn.visible, modes = {"Rule"}, NEW k \in 2..15
          PROVE  ~Applies(k)'
      <4>1. RouteOrder[k] \notin RouteRules(setup) \cap Facts(conn, "Rule")
        BY <1>1, <2>2, <2>5, <3>2, LaterCall
      <4>2. Facts(conn, "Rule")' = Facts(conn, "Rule")
        BY <2>1, <3>1 DEF Facts, IpFacts
      <4>. QED  BY <1>1, <4>1, <4>2 DEF Applies
    <3>. QED  BY <1>1, <1>2, <2>1, <3>1, <3>2 DEF FollowInv, LookupFollowsTraffic, Settled
  <2>6. ASSUME NEW out, NEW rule, Decided(out, rule),
               /\ modes = {"Rule"} /\ conn.visible /\ conn.asker = conn.process /\ SitesAreRead(setup)
               /\ rule \notin ByAddress
               => ((conn.answer = "direct") = (out = "direct"))
        PROVE  FollowInv'
    <3>1. Kept /\ conn'.stage = "done" /\ conn'.out = out /\ conn'.rule = rule
      BY <1>1, <2>6 DEF Decided, ConnShape, Fields
    <3>2. SitesAreRead(setup)' <=> SitesAreRead(setup)
      BY <1>1 DEF SitesAreRead
    <3>. QED
      BY <1>1, <1>2, <2>6, <3>1, <3>2 DEF FollowInv, LookupFollowsTraffic, Settled, ByAddress
  <2>7. CASE /\ Hits # {} /\ Decided(RouteDoes(setup, Rule), Rule)
             /\ RouteDoes(setup, Rule) \in {"direct", "proxy", "reject", "hijack"}
    <3>1. SUFFICES ASSUME modes = {"Rule"}, conn.visible, conn.asker = conn.process,
                          SitesAreRead(setup), Rule \notin ByAddress
                   PROVE  (conn.answer = "direct") = (RouteDoes(setup, Rule) = "direct")
      BY <2>6, <2>7
    <3>2. PICK f \in conn.from..21 : f = First(Hits) /\ Rule = RouteOrder[f]
      BY <1>1, <2>1, <2>7, LaterCall DEF Rule
    <3>3. Rule \in RouteRules(setup) \cap Facts(conn, "Rule")
      BY <1>1, <2>1, <2>2, <2>7, <3>1, LaterCall
    <3>4. Rule # "resolve" /\ Rule # "dns" /\ Rule # "Direct" /\ Rule # "Global"
      <4>1. {"dns", "Direct", "Global"} \cap Facts(conn, "Rule") = {}
        BY <1>1, <2>1, <2>3, <3>1, SameFacts
      <4>. QED  BY <2>7, <3>3, <4>1 DEF RouteDoes
    <3>5. CASE conn.from = 2
      <4>1. f <= 16
        <5>1. "resolve" \in Facts(conn, "Rule")
          BY <1>1, <2>1, <2>3, <3>1, SameFacts
        <5>2. f > 16 => RouteOrder[16] \notin RouteRules(setup) \cap Facts(conn, "Rule")
          BY <1>1, <2>1, <2>2, <2>7, <3>1, <3>2, <3>5, LaterCall
        <5>. QED  BY <2>4, <3>2, <5>1, <5>2, WholeOrders
      <4>2. Rule \in NameRules
        BY <3>1, <3>2, <3>4, <3>5, <4>1, WholeOrders DEF NameRules, ByAddress
      <4>3. conn.answer = DnsDoes(setup, Rule)
        BY <1>1, <2>1, <2>2, <2>7, <3>1, <3>5, <4>2, NamedFollows
      <4>. QED  BY <1>5, <4>2, <4>3 DEF NameRules, DnsDoes, RouteDoes
    <3>6. CASE conn.from = 17
      <4>1. Rule = "listed"
        BY <3>1, <3>2, <3>6, WholeOrders DEF ByAddress
      <4>. QED  BY <1>1, <1>5, <2>1, <3>1, <3>3, <3>6, <4>1, UnnamedFollows
    <3>. QED  BY <2>1, <3>5, <3>6
  <2>8. CASE Hits = {} /\ Decided(RouteFinal(setup), "final")
    <3>1. SUFFICES ASSUME modes = {"Rule"}, conn.visible, conn.asker = conn.process,
                          SitesAreRead(setup)
                   PROVE  (conn.answer = "direct") = (RouteFinal(setup) = "direct")
      BY <2>6, <2>8
    <3>2. \A k \in conn.from..21 : RouteOrder[k] \notin RouteRules(setup) \cap Facts(conn, "Rule")
      BY <2>2, <2>8, <3>1, OrderIs DEF Hits, Matching
    <3>3. "resolve" \in Facts(conn, "Rule")
      BY <1>1, <2>1, <2>3, <3>1, SameFacts
    <3>4. conn.from = 17
      BY <2>1, <2>4, <3>2, <3>3, WholeOrders
    <3>5. "listed" \notin RouteRules(setup) \cap Facts(conn, "Rule")
      BY <2>1, <3>2, WholeOrders
    <3>. QED  BY <1>1, <1>5, <2>1, <3>1, <3>4, <3>5, UnnamedFollows
  <2>. QED  BY <2>1, <2>5, <2>7, <2>8, OnlyResolve
<1>. QED  BY <1>3, <1>4, <1>5
LEMMA OpensFollows ==
  ASSUME NEW app, NEW via, NEW dest, NEW name, NEW visible, NEW lookup,
         Opens(app, via, dest, name, visible, lookup),
         lookup.answer \in {"direct", "remote"} =>
           /\ via = "tun" /\ name \in Hosts /\ dest.kind = "ip"
           /\ lookup.answer = Answer(name, lookup.asker)
  PROVE  FollowInv'
<1>1. PICK process \in Attributions(app) :
        conn' = [stage |-> "routing", from |-> 1, via |-> via, dest |-> dest,
                 domain |-> IF dest.kind = "name" THEN name ELSE NoName,
                 process |-> process, resolved |-> FALSE,
                 name |-> name, visible |-> visible,
                 answer |-> lookup.answer, asker |-> lookup.asker,
                 out |-> "none", rule |-> "none"]
  BY DEF Opens
<1>2. /\ conn'.stage = "routing" /\ conn'.from = 1 /\ conn'.via = via /\ conn'.name = name
      /\ conn'.dest = dest /\ conn'.answer = lookup.answer /\ conn'.asker = lookup.asker
  BY <1>1
<1>3. /\ clashMode' \in modes'
      /\ \A m, by : Answer(m, by)' = Answer(m, by)
  BY DEF Opens, Answer
<1>. QED  BY <1>2, <1>3 DEF FollowInv, LookupFollowsTraffic, Settled

LEMMA FollowStep == RouteInv /\ FollowInv /\ [RouteNext]_routeVars => FollowInv'
<1> SUFFICES ASSUME RouteInv, FollowInv, [RouteNext]_routeVars PROVE FollowInv'
  OBVIOUS
<1>1. ASSUME NEW app \in Apps, NEW n \in Hosts, LookUp(app, n) PROVE FollowInv'
  <2>1. PICK process \in Attributions(app) :
          conn' = [stage |-> IF ~Hijacked(n, process) THEN "lost"
                             ELSE IF Answer(n, process) = "reject" THEN "refused" ELSE "answered",
                   app |-> app, name |-> n, asker |-> process, answer |-> Answer(n, process)]
    BY <1>1 DEF LookUp
  <2>2. /\ conn'.name = n /\ conn'.asker = process /\ conn'.answer = Answer(n, process)
        /\ conn'.stage \notin {"routing", "done"}
    BY <2>1
  <2>3. Answer(n, process)' = Answer(n, process)
    BY <1>1 DEF LookUp, Answer
  <2>4. Answer(conn.name, conn.asker)' = Answer(n, process)'
    BY <2>2 DEF Answer
  <2>. QED  BY <2>2, <2>3, <2>4 DEF FollowInv, LookupFollowsTraffic, Settled
<1>2. ASSUME NEW app \in Apps, NEW n \in Hosts, ConnectByName(app, n) PROVE FollowInv'
  BY <1>2, OpensFollows DEF ConnectByName, Unasked
<1>3. ASSUME NEW app \in Apps, NEW a \in Addresses, ConnectByAddress(app, a) PROVE FollowInv'
  BY <1>3, OpensFollows DEF ConnectByAddress, Unasked
<1>4. ASSUME NEW app \in Apps, NEW a \in Addresses, NEW name \in Hosts \cup {NoName},
             NEW visible \in BOOLEAN, ConnectUnasked(app, a, name, visible)
      PROVE  FollowInv'
  BY <1>4, OpensFollows DEF ConnectUnasked, Unasked
<1>5. ASSUME NEW visible \in BOOLEAN, Connect(visible) PROVE FollowInv'
  <2>. DEFINE dest == IF conn.answer = "fake" THEN Dest("fake", conn.name)
                                            ELSE Dest("ip", AddressOf[conn.name])
  <2>1. /\ conn.name \in Hosts /\ conn.answer = Answer(conn.name, conn.asker)
        /\ Opens(conn.app, "tun", dest, conn.name, visible, conn)
    BY <1>5 DEF Connect, RouteInv, FollowInv
  <2>2. conn.answer \in {"direct", "remote"} => dest.kind = "ip"
    BY DEF Dest
  <2>. HIDE DEF dest
  <2>. QED  BY <2>1, <2>2, OpensFollows
<1>6. ASSUME NEW m \in Modes, SetMode(m) PROVE FollowInv'
  <2>1. /\ conn' = conn /\ setup' = setup /\ modes' = modes \cup {m} /\ clashMode' = m
        /\ m # clashMode
    BY <1>6 DEF SetMode
  <2>2. /\ \A x, by : Answer(x, by)' = Answer(x, by)
        /\ SitesAreRead(setup)' <=> SitesAreRead(setup)
        /\ \A k : Applies(k)' <=> Applies(k)
    BY <2>1 DEF Answer, SitesAreRead, Applies, Facts, IpFacts
  <2>3. conn.stage \in {"routing", "done"} => modes' # {"Rule"}
    BY <2>1 DEF FollowInv
  <2>4. Answer(conn.name, conn.asker)' = Answer(conn.name, conn.asker)
    BY <2>1, <2>2 DEF Answer
  <2>. QED  BY <2>1, <2>3, <2>4 DEF FollowInv, LookupFollowsTraffic, Settled
<1>7. CASE UNCHANGED routeVars
  BY <1>7
  DEF routeVars, FollowInv, LookupFollowsTraffic, Settled, Answer, SitesAreRead, Applies, Facts, IpFacts
<1>. QED  BY <1>1, <1>2, <1>3, <1>4, <1>5, <1>6, <1>7, RouteFollows DEF RouteNext

(* A lookup and the connection that follows it take the same side, whatever *)
(* lists there are and however their settings combine (config.rs:583), as   *)
(* long as the sets of both countries can be read.                          *)
THEOREM LookupsFollowTraffic == RouteSpec => []LookupFollowsTraffic
<1>1. RouteInit => FollowInv
  BY DEF RouteInit, NoConn, FollowInv, LookupFollowsTraffic, Settled
<1>2. FollowInv => LookupFollowsTraffic
  BY DEF FollowInv
<1>. QED  BY <1>1, <1>2, FollowStep, RouteInvHolds, PTL DEF RouteSpec
=============================================================================
