----------------------------- MODULE PortTable -----------------------------
(***************************************************************************)
(* The TCP translation of the engine's TUN inbound (inbound/tun/nat.rs,     *)
(* handle_tcp_packet of inbound/tun/mod.rs).  A flow of an application gets *)
(* a port; its packets come back into the TUN as if from that port to our   *)
(* listener, and the kernel's answers to the port go back to the flow.      *)
(*                                                                          *)
(* One thread reads the device; the sweep runs in a task of its own and may *)
(* fall between any two steps of the reader.  A port's number is part of    *)
(* the data: the search for a free one runs along them from `cursor`.       *)
(***************************************************************************)
EXTENDS Naturals

CONSTANTS
  Flows,                \* FlowKey: the two addresses and two ports of an application
  PortFirst, PortLast,  \* PORT_FIRST and u16::MAX
  IdleOpen, IdleClosed, \* IDLE_OPEN_SECS and IDLE_CLOSED_SECS, in ticks
  MaxSeconds            \* (bound) how far the clock runs

ASSUME PortAssumption ==
  /\ PortFirst \in Nat \ {0} /\ PortLast \in Nat /\ PortFirst <= PortLast
  /\ IdleOpen \in Nat /\ IdleClosed \in Nat /\ MaxSeconds \in Nat

VARIABLES
  forward,  \* Tables.forward: what is kept of the flows that have a port
  reverse,  \* Tables.reverse: whose a port is
  cursor,   \* Tables.cursor: the port tried last; 0 before the first
  seconds,  \* the clock the housekeeping stores
  hand      \* the reader: the packet it holds, and how far it has come

portVars == <<forward, reverse, cursor, seconds, hand>>

NatPorts == PortFirst .. PortLast
Range == PortLast - PortFirst + 1
Entry(p, now) == [port |-> p, seen |-> now, closing |-> FALSE]
Empty == [at |-> "empty"]
Packets == {"syn", "data", "fin"}   \* fin: FIN or RST

With(f, x, v) == [y \in DOMAIN f \cup {x} |-> IF y = x THEN v ELSE f[y]]
Without(f, S) == [y \in DOMAIN f \ S |-> f[y]]

----------------------------------------------------------------------------
(* The search of `create`.  `Tried(c, i)` is the port it looks at in the    *)
(* i-th round: one on from the last, from the first again behind the last.  *)

FirstTried(c) == IF c < PortFirst \/ c = PortLast THEN PortFirst ELSE c + 1
Tried(c, i) == IF FirstTried(c) + i - 1 <= PortLast
               THEN FirstTried(c) + i - 1
               ELSE FirstTried(c) + i - 1 - Range

RoundsMutant == 1 .. Range - 1      \* u16::MAX - PORT_FIRST, without the one

Rounds == 1 .. Range
Free(c, taken) == {i \in Rounds : Tried(c, i) \notin taken}
Found(c, taken, i) == i \in Free(c, taken) /\ \A j \in Free(c, taken) : i <= j

----------------------------------------------------------------------------
(* `create` for a flow that is unknown or closing: the ports of a closing   *)
(* flow are given back before one is looked for.  No port: the SYN is lost  *)
(* and the client will repeat it, the cursor is where it was.               *)

Closing(k) == k \in DOMAIN forward /\ forward[k].closing
GivenBackMutant(k) == {}

GivenBack(k) == IF Closing(k) THEN {forward[k].port} ELSE {}

Create(k) ==
  LET before == Without(reverse, GivenBack(k))
  IN \/ \E i \in Rounds :
          LET p == Tried(cursor, i)
          IN /\ Found(cursor, DOMAIN before, i)
             /\ forward' = With(forward, k, Entry(p, seconds))
             /\ reverse' = With(before, p, k)
             /\ cursor' = p
             /\ hand' = [hand EXCEPT !.at = "routed"]
     \/ /\ Free(cursor, DOMAIN before) = {}
        /\ forward' = Without(forward, IF Closing(k) THEN {k} ELSE {})
        /\ reverse' = before
        /\ cursor' = IF cursor < PortFirst THEN PortLast ELSE cursor
        /\ hand' = Empty

----------------------------------------------------------------------------
(* The reader.                                                              *)

\* An application's packet, or the kernel's answer from the listener to a port.
ReadPacket ==
  /\ hand = Empty
  /\ \/ \E k \in Flows, f \in Packets : hand' = [at |-> "app", flow |-> k, is |-> f]
     \/ \E p \in NatPorts, f \in {"data", "fin"} :
          hand' = [at |-> "kernel", port |-> p, is |-> f]
  /\ UNCHANGED <<forward, reverse, cursor, seconds>>

\* nat.lookup, nat.create.  A SYN of a closing flow makes a new one.
Lookup ==
  /\ hand.at = "app"
  /\ UNCHANGED seconds
  /\ LET k == hand.flow
         known == k \in DOMAIN forward
         syn == hand.is = "syn"
     IN \/ /\ known /\ ~(syn /\ Closing(k))
           /\ hand' = [hand EXCEPT !.at = "routed"]
           /\ UNCHANGED <<forward, reverse, cursor>>
        \/ syn /\ (~known \/ Closing(k)) /\ Create(k)
        \/ ~known /\ ~syn /\ hand' = Empty /\ UNCHANGED <<forward, reverse, cursor>>

\* by_port.
LookupPort ==
  /\ hand.at = "kernel"
  /\ hand' = IF hand.port \in DOMAIN reverse
             THEN [at |-> "routed", flow |-> reverse[hand.port], is |-> hand.is]
             ELSE Empty
  /\ UNCHANGED <<forward, reverse, cursor, seconds>>

\* touch, mark_closing and write_back, for both directions.  A flow swept
\* since it was looked up is no longer in the tables: the writes are lost.
Touched(e) == [port |-> e.port, seen |-> seconds, closing |-> e.closing \/ hand.is = "fin"]

Rewrite ==
  /\ hand.at = "routed"
  /\ forward' = IF hand.flow \in DOMAIN forward
                THEN With(forward, hand.flow, Touched(forward[hand.flow]))
                ELSE forward
  /\ hand' = Empty
  /\ UNCHANGED <<reverse, cursor, seconds>>

----------------------------------------------------------------------------
(* The housekeeping.                                                        *)

TickPorts ==
  /\ seconds < MaxSeconds
  /\ seconds' = seconds + 1
  /\ UNCHANGED <<forward, reverse, cursor, hand>>

Limit(k) == IF forward[k].closing THEN IdleClosed ELSE IdleOpen
Stale == {k \in DOMAIN forward : forward[k].seen + Limit(k) < seconds}
PortsOf(K) == {forward[k].port : k \in K}

Sweep ==
  /\ Stale # {}
  /\ forward' = Without(forward, Stale)
  /\ reverse' = Without(reverse, PortsOf(Stale))
  /\ UNCHANGED <<cursor, seconds, hand>>

----------------------------------------------------------------------------

PortInit ==
  /\ forward = [k \in {} |-> Entry(0, 0)]
  /\ reverse = [p \in {} |-> 0]
  /\ cursor = 0
  /\ seconds = 0
  /\ hand = Empty

PortNext == ReadPacket \/ Lookup \/ LookupPort \/ Rewrite \/ TickPorts \/ Sweep

PortSpec == PortInit /\ [][PortNext]_portVars

----------------------------------------------------------------------------
(* Two flows never share a port, and no port outlives its flow or belongs   *)
(* to another: `forward` and `reverse` are inverse to each other at every   *)
(* moment, through the reuse of ports, the search round the end of the      *)
(* range and the sweep (nat.rs, create and sweep, which change both).       *)
PortsAgree ==
  /\ \A k \in DOMAIN forward :
       forward[k].port \in DOMAIN reverse /\ reverse[forward[k].port] = k
  /\ \A p \in DOMAIN reverse :
       reverse[p] \in DOMAIN forward /\ forward[reverse[p]].port = p

\* A SYN is lost only when every port is another flow's: the search passes all
\* ports whatever the cursor is, and a closing flow's own port counts as free
\* (nat.rs, create: "`None` - the ports have run out").
SynIsServed ==
  [][(hand.at = "app" /\ hand.is = "syn" /\ hand' = Empty)
       => NatPorts \subseteq {forward[k].port : k \in DOMAIN forward \ {hand.flow}}]_portVars
=============================================================================
