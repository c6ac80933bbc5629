---------------------------- MODULE UdpSessions ----------------------------
(***************************************************************************)
(* The UDP side of the TUN inbound (udp_dispatch and udp_session of         *)
(* inbound/tun/mod.rs): one task hands the packets to a session per pair of *)
(* addresses, every session is a task of its own and tells of its end on a  *)
(* channel.  Whichever of packets and ends is looked at first is a matter   *)
(* of chance.                                                               *)
(***************************************************************************)
EXTENDS Naturals, Sequences

CONSTANTS
  Pairs,        \* UdpKey
  MaxSessions,  \* (bound) sessions started
  MaxUdp        \* (bound) packets that come

ASSUME UdpAssumption == MaxSessions \in Nat /\ MaxUdp \in Nat

VARIABLES
  sessions, \* udp_dispatch: the session that gets the packets of a pair
  session,  \* all sessions started, in order: their pair and how far they are
  ends,     \* done_tx: pairs whose session has ended
  packets   \* (bound) packets so far

udpVars == <<sessions, session, ends, packets>>

SessionIds == DOMAIN session
InForce == {sessions[k] : k \in DOMAIN sessions}
Assign(k, s) == sessions' = [x \in DOMAIN sessions \cup {k} |-> IF x = k THEN s ELSE sessions[x]]
Forgotten(k) == sessions' = [x \in DOMAIN sessions \ {k} |-> sessions[x]]
Moves(s, to) == session' = [session EXCEPT ![s].at = to]

\* A packet of a pair.  Its session gets it as long as that reads its queue;
\* else a new one is started in its place.
Packet(k) ==
  /\ packets < MaxUdp
  /\ packets' = packets + 1
  /\ IF k \in DOMAIN sessions /\ session[sessions[k]].at # "gone"
     THEN UNCHANGED <<sessions, session>>
     ELSE /\ Len(session) < MaxSessions
          /\ session' = Append(session, [pair |-> k, at |-> "opening"])
          /\ Assign(k, Len(session) + 1)
  /\ UNCHANGED ends

\* The end of a session is heard of.
Hear ==
  /\ ends # <<>>
  /\ Forgotten(Head(ends))
  /\ ends' = Tail(ends)
  /\ UNCHANGED <<session, packets>>

OpenedMutant(s) ==    \* a rejected one returns at once
  /\ session[s].at = "opening"
  /\ (Moves(s, "on") \/ Moves(s, "gone"))
  /\ UNCHANGED <<sessions, ends, packets>>

\* open_udp: rejected, or on its way.
Opened(s) ==
  /\ session[s].at = "opening"
  /\ \/ Moves(s, "on") /\ UNCHANGED ends
     \/ Moves(s, "ended") /\ ends' = Append(ends, session[s].pair)
  /\ UNCHANGED <<sessions, packets>>

\* The session ends: nobody sends to it any more, a minute without packets, an
\* error, or its connection is cancelled.  Its queue is still there while it
\* tells of it.
End(s) ==
  /\ session[s].at = "on"
  /\ Moves(s, "ended")
  /\ ends' = Append(ends, session[s].pair)
  /\ UNCHANGED <<sessions, packets>>

Gone(s) ==
  /\ session[s].at = "ended"
  /\ Moves(s, "gone")
  /\ UNCHANGED <<sessions, ends, packets>>

----------------------------------------------------------------------------

UdpInit ==
  /\ sessions = [k \in {} |-> 0]
  /\ session = <<>>
  /\ ends = <<>>
  /\ packets = 0

Runs(s) == Opened(s) \/ End(s) \/ Gone(s)

UdpNext ==
  \/ \E k \in Pairs : Packet(k)
  \/ Hear
  \/ \E s \in SessionIds : Runs(s)

----------------------------------------------------------------------------
(* What a pair left behind goes away when its packets stop, both ways: each *)
(* session ends, and the dispatcher forgets the pair, also when the end of an older *)
(* session was taken for that of a newer one (tun/mod.rs:361).              *)
NothingIsLeft ==
  []<>(DOMAIN sessions = {} /\ \A s \in SessionIds : session[s].at = "gone")
=============================================================================
