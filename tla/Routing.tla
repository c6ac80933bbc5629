------------------------------ MODULE Routing ------------------------------
(***************************************************************************)
(* Where a connection goes: the rules the app writes (core/config.rs,       *)
(* build), the first match aura-engine looks for (router.rs), the lookup    *)
(* that came before the connection (dns.rs, handle_query) and the steps in  *)
(* between, sniff and resolve, during which the mode may change (engine.rs, *)
(* handle_tcp and open_udp).  One connection, and the lookup it followed.   *)
(*                                                                          *)
(* A rule is named for what it looks for, and a name or an address has the  *)
(* lists it is on, so a rule matches when its name is among the facts known *)
(* of the connection.  Desktop only; the WARP layer changes what "proxy"    *)
(* means and nothing here.                                                  *)
(***************************************************************************)
EXTENDS Naturals, Sequences

CONSTANTS
  Hosts, Addresses,
  ListsOf,     \* the lists and rule sets that name it, of each name and address
  AddressOf,   \* what a resolver answers
  Setups,      \* settings, split rules and rule sets the document is built from
  NoName,
  MaxSwitches  \* (bound) switches of the mode

Switches == {"tun", "fake", "private", "ads", "ru", "cn"}
RuleSets == {"geosite-ads", "geosite-ru", "geoip-ru", "geosite-cn", "geoip-cn"}

HostLists ==
  {"serverName", "block", "direct", "proxy", "ru", "geosite-ads", "geosite-ru", "geosite-cn"}
AddressLists == {"serverIp", "private", "directIp", "proxyIp", "geoip-ru", "geoip-cn"}

(* A set on disk may still be one the engine cannot read.                   *)
ASSUME RoutingAssumption ==
  /\ NoName \notin Hosts
  /\ \A n \in Hosts : ListsOf[n] \subseteq HostLists /\ AddressOf[n] \in Addresses
  /\ \A a \in Addresses : ListsOf[a] \subseteq AddressLists
  /\ Setups \subseteq [on : SUBSET Switches, split : {"off", "include", "exclude"},
                       second : {"none", "name", "address"},
                       sets : SUBSET RuleSets, broken : SUBSET RuleSets]

VARIABLES
  setup,
  clashMode, \* Context.mode, which the control API changes at any time
  modes,      \* (history) modes since the connection was opened
  conn,
  switches

routeVars == <<setup, clashMode, modes, conn, switches>>

NoConn == [stage |-> "idle"]

(***************************************************************************)
(* The document.                                                            *)
(***************************************************************************)
GeoSets == [ads |-> {"geosite-ads"}, ru |-> {"geosite-ru", "geoip-ru"},
            cn |-> {"geosite-cn", "geoip-cn"}]

(* A switch whose rule sets are not all on disk does nothing.               *)
AppliedSets(s) ==
  UNION {GeoSets[g] : g \in {h \in DOMAIN GeoSets \cap s.on : GeoSets[h] \subseteq s.sets}}

ReadableSets(s) == AppliedSets(s) \ s.broken

(* Rules on the second engine (Xray): its process, and the servers it dials.*)
SecondRules(s) ==
  CASE s.second = "none" -> {}
    [] s.second = "address" -> {"second", "serverIp"}
    [] s.second = "name" -> {"second", "serverName"}

RouteOrderMutant ==
  <<"sniff", "Direct", "Global", "second", "serverIp", "serverName", "dns", "block",
    "geosite-ads", "private", "direct", "proxy", "ru", "geosite-ru", "geosite-cn", "resolve",
    "directIp", "proxyIp", "geoip-ru", "geoip-cn", "listed">>
RouteOrder ==
  <<"sniff", "second", "serverIp", "serverName", "dns", "block", "geosite-ads", "Direct",
    "Global", "private", "direct", "proxy", "ru", "geosite-ru", "geosite-cn", "resolve",
    "directIp", "proxyIp", "geoip-ru", "geoip-cn", "listed">>

\* A rule over an empty list matches nothing: that the code leaves it out is no
\* difference.
RouteRules(s) ==
  {"sniff", "block", "Direct", "Global", "direct", "proxy", "resolve", "directIp", "proxyIp"}
    \cup SecondRules(s) \cup ReadableSets(s)
    \cup (s.on \cap {"private", "ru"})
    \cup (IF "tun" \in s.on THEN {"dns"} ELSE {})
    \cup (IF s.split = "off" THEN {} ELSE {"listed"})

RouteDoes(s, rule) ==
  CASE rule \in {"sniff", "resolve"} -> rule
    [] rule = "dns" -> "hijack"
    [] rule \in {"block", "geosite-ads"} -> "reject"
    [] rule \in {"Global", "proxy", "proxyIp"} -> "proxy"
    [] rule = "listed" /\ s.split = "include" -> "proxy"
    [] OTHER -> "direct"
RouteFinal(s) == IF s.split = "include" THEN "direct" ELSE "proxy"

DnsOrderMutant ==
  <<"second", "serverName", "block", "geosite-ads", "direct", "ru", "geosite-ru",
    "geosite-cn", "proxy", "listed", "fake">>
DnsOrder ==
  <<"second", "serverName", "block", "geosite-ads", "direct", "proxy", "ru", "geosite-ru",
    "geosite-cn", "listed", "fake">>

(* The names of both countries are one rule here, lost with either set.     *)
DirectSites(s) ==
  LET sites == AppliedSets(s) \cap {"geosite-ru", "geosite-cn"}
  IN IF sites \subseteq ReadableSets(s) THEN sites ELSE {}

DnsRulesMutant(s) ==
  {"direct", "proxy"}
    \cup SecondRules(s) \cup (ReadableSets(s) \cap {"geosite-ads"}) \cup DirectSites(s)
    \cup (s.on \cap {"ru"})
    \cup (IF s.split = "off" THEN {} ELSE {"listed"})
    \cup (IF s.split = "include" THEN {} ELSE s.on \cap {"fake"})
DnsRules(s) ==
  {"block", "direct", "proxy"}
    \cup SecondRules(s) \cup (ReadableSets(s) \cap {"geosite-ads"}) \cup DirectSites(s)
    \cup (s.on \cap {"ru"})
    \cup (IF s.split = "off" THEN {} ELSE {"listed"})
    \cup (IF s.split = "include" THEN {} ELSE s.on \cap {"fake"})

DnsDoes(s, rule) ==
  CASE rule \in {"block", "geosite-ads"} -> "reject"
    [] rule = "proxy" -> "remote"
    [] rule = "listed" /\ s.split = "include" -> IF "fake" \in s.on THEN "fake" ELSE "remote"
    [] rule = "fake" -> "fake"
    [] OTHER -> "direct"
DnsFinal(s) == IF s.split = "include" THEN "direct" ELSE "remote"

(***************************************************************************)
(* The engine: the first rule that matches.                                 *)
(***************************************************************************)
Matching(order, present, facts, from) ==
  {n \in from..Len(order) : order[n] \in present \cap facts}
First(S) == CHOOSE n \in S : \A k \in S : n <= k

(* Addresses of the range fake ones are taken from count as private.        *)
IpFacts(m) ==
  CASE m.dest.kind = "ip" -> ListsOf[m.dest.of]
    [] m.dest.kind = "fake" -> {"private"}
    [] m.dest.kind = "name" -> IF m.resolved THEN ListsOf[AddressOf[m.dest.of]] ELSE {}

DomainFacts(domain) == IF domain = NoName THEN {} ELSE ListsOf[domain]

Facts(m, mode) ==
  {"sniff", "resolve", mode} \cup m.process \cup IpFacts(m) \cup DomainFacts(m.domain)

(* What the process of a connection turns out to be: the app's, or none, as *)
(* when the port is gone from the table by the time it is read.             *)
Attributions(app) == {{app}, {}}

(***************************************************************************)
(* A lookup of `n` arrives through TUN as a packet to the tunnel's own      *)
(* address: sniffed, its name is known to the rules already.  Made by the   *)
(* app or, on its behalf, by the system's resolver.                         *)
(***************************************************************************)
Answer(n, process) ==
  LET facts == process \cup ListsOf[n] \cup {"fake"}
      hits == Matching(DnsOrder, DnsRules(setup), facts, 1)
  IN IF hits = {} THEN DnsFinal(setup) ELSE DnsDoes(setup, DnsOrder[First(hits)])

Hijacked(n, process) ==
  LET facts == process \cup ListsOf[n] \cup {"dns", "private", clashMode}
      hits == Matching(RouteOrder, RouteRules(setup), facts, 2)
  IN RouteOrder[First(hits)] = "dns"

LookUp(app, n) ==
  /\ conn = NoConn /\ "tun" \in setup.on
  /\ \E process \in Attributions(app) :
       conn' = [stage |-> IF ~Hijacked(n, process) THEN "lost"
                          ELSE IF Answer(n, process) = "reject" THEN "refused" ELSE "answered",
                app |-> app, name |-> n, asker |-> process, answer |-> Answer(n, process)]
  /\ UNCHANGED <<setup, clashMode, modes, switches>>

(* What the engine knows of a connection: where it says it goes (dest, and  *)
(* domain once sniffed or named to the local proxy), its process, and its   *)
(* address if it went by name and was resolved.  What it is besides: its    *)
(* name, and whether its first bytes show it.                               *)
Opens(app, via, dest, name, visible, lookup) ==
  \E process \in Attributions(app) :
    /\ conn' = [stage |-> "routing", from |-> 1, via |-> via, dest |-> dest,
                domain |-> IF dest.kind = "name" THEN name ELSE NoName,
                process |-> process, resolved |-> FALSE,
                name |-> name, visible |-> visible,
                answer |-> lookup.answer, asker |-> lookup.asker,
                out |-> "none", rule |-> "none"]
    /\ modes' = {clashMode}
    /\ UNCHANGED <<setup, clashMode, switches>>

Dest(kind, of) == [kind |-> kind, of |-> of]
Unasked == [answer |-> "none", asker |-> {}]

Connect(visible) ==
  /\ conn.stage = "answered"
  /\ Opens(conn.app, "tun",
            IF conn.answer = "fake" THEN Dest("fake", conn.name)
                                    ELSE Dest("ip", AddressOf[conn.name]),
            conn.name, visible, conn)

(* To an address the app has from elsewhere, perhaps for a name.            *)
ConnectUnasked(app, a, name, visible) ==
  /\ conn = NoConn /\ "tun" \in setup.on
  /\ IF name = NoName THEN ~visible ELSE AddressOf[name] = a
  /\ Opens(app, "tun", Dest("ip", a), name, visible, Unasked)

(* Through the local proxy, which reads a name or an address in the request *)
(* and looks no further (mixed.rs).  Datagrams through it are left out.     *)
ConnectByName(app, n) ==
  conn = NoConn /\ Opens(app, "mixed", Dest("name", n), n, TRUE, Unasked)
ConnectByAddress(app, a) ==
  conn = NoConn /\ Opens(app, "mixed", Dest("ip", a), NoName, FALSE, Unasked)

(* One call of Router::next, and what the engine makes of its answer.       *)
Hits == Matching(RouteOrder, RouteRules(setup), Facts(conn, clashMode), conn.from)
Rule == RouteOrder[First(Hits)]
Tells(does) == Hits # {} /\ RouteDoes(setup, Rule) \in does

Sniff ==
  /\ Tells({"sniff"})
  /\ conn' = [conn EXCEPT !.from = First(Hits) + 1,
                          !.domain = IF conn.via = "tun" /\ conn.visible THEN conn.name ELSE @]

Resolve == \* which may fail
  /\ Tells({"resolve"})
  /\ \E found \in BOOLEAN : conn' = [conn EXCEPT !.from = First(Hits) + 1, !.resolved = found]

Decided(out, rule) == conn' = [conn EXCEPT !.stage = "done", !.out = out, !.rule = rule]

Route ==
  /\ conn.stage = "routing"
  /\ \/ Sniff \/ Resolve
     \/ Tells({"direct", "proxy", "reject", "hijack"}) /\ Decided(RouteDoes(setup, Rule), Rule)
     \/ Hits = {} /\ Decided(RouteFinal(setup), "final")
  /\ UNCHANGED <<setup, clashMode, modes, switches>>

(* PATCH /configs.                                                          *)
SetMode(m) ==
  /\ switches < MaxSwitches /\ m # clashMode
  /\ switches' = switches + 1
  /\ clashMode' = m
  /\ modes' = modes \cup {m}
  /\ UNCHANGED <<setup, conn>>

Modes == {"Rule", "Global", "Direct"}
Apps == {"listed", "other", "second"}

RouteInit ==
  /\ setup \in Setups /\ clashMode = "Rule" /\ modes = {} /\ conn = NoConn /\ switches = 0

RouteNext ==
  \/ \E app \in Apps, n \in Hosts : LookUp(app, n) \/ ConnectByName(app, n)
  \/ \E app \in Apps, a \in Addresses :
       \/ ConnectByAddress(app, a)
       \/ \E name \in Hosts \cup {NoName}, visible \in BOOLEAN :
            ConnectUnasked(app, a, name, visible)
  \/ \E visible \in BOOLEAN : Connect(visible)
  \/ Route
  \/ \E m \in Modes : SetMode(m)

RouteSpec == RouteInit /\ [][RouteNext]_routeVars

----------------------------------------------------------------------------
Settled == conn.stage = "done"
Around == \* the second engine's own traffic, as far as the rules can tell
  setup.second # "none" /\
    \/ "second" \in conn.process
    \/ setup.second = "address" /\ conn.dest.kind = "ip" /\ "serverIp" \in ListsOf[conn.dest.of]
    \/ /\ setup.second = "name" /\ conn.visible /\ conn.name # NoName
       /\ "serverName" \in ListsOf[conn.name]

(* Nothing the second engine sends re-enters the tunnel, in any mode and    *)
(* whatever list its server is on (config.rs:687 and :694, the bypass).     *)
SecondGoesAround == Settled /\ Around => conn.out = "direct"

(* A blocked name is not reached, in any mode, by fake address or by real,  *)
(* whether or not its connection shows the name (config.rs:709).            *)
BlockedIsUnreached ==
  /\ Settled /\ ~Around /\ conn.name # NoName /\ "block" \in ListsOf[conn.name]
  /\ conn.answer # "none" \/ conn.visible
  => conn.out = "reject"

(* A name was looked up on the side its connection then takes, when the     *)
(* rules knew the same of both and no address decided (config.rs:583: the   *)
(* traffic would take the right path but the lookup would not).  A set that *)
(* cannot be read takes the other country's lookups with it, and not their  *)
(* traffic.                                                                 *)
SitesAreRead(s) == DirectSites(s) = ReadableSets(s) \cap {"geosite-ru", "geosite-cn"}
LookupFollowsTraffic ==
  /\ Settled /\ SitesAreRead(setup) /\ modes = {"Rule"} /\ conn.answer \in {"direct", "remote"}
  /\ conn.visible /\ conn.asker = conn.process
  /\ conn.rule \notin {"private", "serverIp", "directIp", "proxyIp", "geoip-ru", "geoip-cn"}
  => (conn.answer = "direct") = (conn.out = "direct")

(* A fake address does not change where a name goes: on no list, it goes    *)
(* where everything else does.                                              *)
FakeIsCarried ==
  /\ Settled /\ modes = {"Rule"} /\ conn.answer = "fake" /\ conn.process = {}
  /\ ListsOf[conn.name] \cup ListsOf[AddressOf[conn.name]] = {}
  => conn.out = RouteFinal(setup)
=============================================================================
