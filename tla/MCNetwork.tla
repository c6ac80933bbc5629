----------------------------- MODULE MCNetwork -----------------------------
(***************************************************************************)
(* The parts of the network side, one in each behaviour: they share no      *)
(* state in the code, so nothing is lost by letting the others rest.        *)
(*                                                                          *)
(* Fairness: a task that can go on does (tokio runs what is ready), a call  *)
(* over the network ends, by an error or a timeout if need be.  Nothing is  *)
(* assumed of packets, users, the panel or the clock.                       *)
(***************************************************************************)
EXTENDS MCRouting, PortTable, UdpSessions, DnsServer, UrlTest, VeilTokens, VeilSubs

VARIABLE focus

netVars == <<focus, routeVars, portVars, udpVars, dnsVars, urlVars, tokenVars, subsVars>>

Init ==
  /\ focus \in {"routes", "ports", "udp", "dns", "urltest", "tokens", "subs"}
  /\ RouteInit /\ PortInit /\ UdpInit /\ DnsInit /\ UrlInit /\ TokensInit /\ SubsInit
  /\ focus # "tokens" => made = [t \in Tokens |-> 0] /\ clock = 0
  /\ focus # "subs" => panel = {} /\ disk.section
  /\ focus # "routes" => setup = CHOOSE s \in Setups : TRUE

RouteStep == focus = "routes" /\ RouteNext
             /\ UNCHANGED <<focus, portVars, udpVars, dnsVars, urlVars, tokenVars, subsVars>>
PortStep == focus = "ports" /\ PortNext
            /\ UNCHANGED <<focus, routeVars, udpVars, dnsVars, urlVars, tokenVars, subsVars>>
InUdp(A) == focus = "udp" /\ A
            /\ UNCHANGED <<focus, routeVars, portVars, dnsVars, urlVars, tokenVars, subsVars>>
DnsStep == focus = "dns" /\ DnsNext
           /\ UNCHANGED <<focus, routeVars, portVars, udpVars, urlVars, tokenVars, subsVars>>
InUrl(A) == focus = "urltest" /\ A
            /\ UNCHANGED <<focus, routeVars, portVars, udpVars, dnsVars, tokenVars, subsVars>>
TokensStep == focus = "tokens" /\ TokensNext
              /\ UNCHANGED <<focus, routeVars, portVars, udpVars, dnsVars, urlVars, subsVars>>
InSubs(A) == focus = "subs" /\ A
             /\ UNCHANGED <<focus, routeVars, portVars, udpVars, dnsVars, urlVars, tokenVars>>

Next ==
  \/ RouteStep \/ PortStep \/ InUdp(UdpNext) \/ DnsStep \/ InUrl(UrlNext) \/ TokensStep \/ InSubs(SubsNext)

Spec ==
  /\ Init /\ [][Next]_netVars
  /\ WF_netVars(InUdp(Hear)) /\ WF_netVars(InUdp(\E s \in SessionIds : Runs(s)))
  /\ WF_netVars(InUrl(LoopRuns)) /\ \A u \in Users : WF_netVars(InUrl(Swap(u)))
  /\ WF_netVars(InSubs(Keeps)) /\ \A r \in Requests : WF_netVars(InSubs(Serves(r)))
=============================================================================
