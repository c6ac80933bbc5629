------------------------------ MODULE Steering ------------------------------
(***************************************************************************)
(* What the balancer promises about traffic, whatever it measures and       *)
(* whenever: the contract stated in the header of                           *)
(* src-tauri/src/core/balancer.rs, strategy by strategy.  Brain implements  *)
(* it (BrainRefines).                                                       *)
(*                                                                          *)
(* The one thing the balancer does not promise is what happens to a switch  *)
(* it had already asked the core for when the user replaced the machine:    *)
(* that switch is `overtaken` and lands on the new machine all the same.    *)
(***************************************************************************)
CONSTANTS Tags, Safe

VARIABLES
  strategy, home,  \* what the user chose: a strategy and a server
  allowed,         \* nodes the balancer may move traffic to
  routed,          \* the node traffic goes through
  answering,       \* nodes that answered their last check
  dead,            \* nodes given up on
  overtaken        \* a switch of a replaced machine is still to land

chosen == <<strategy, home, allowed>>
vars == <<chosen, routed, answering, dead, overtaken>>

Init ==
  /\ routed = home
  /\ allowed = IF strategy = "Manual" THEN {} ELSE Safe
  /\ answering = {} /\ dead = {}
  /\ ~overtaken

(* Checks come in.                                                         *)
Hear ==
  /\ answering' \in SUBSET Tags
  /\ dead' \in SUBSET (Tags \ answering')
  /\ UNCHANGED <<chosen, routed, overtaken>>

(* Why traffic may be moved to t.                                          *)
Flee(t) == routed \in dead
Return(t) == strategy = "Failover" /\ t = home
Follow(t) == strategy \in {"Fastest", "Rotate"} /\ routed \in answering

Steer ==
  /\ ~overtaken
  /\ \E t \in (allowed \cap answering) \ {routed} :
       /\ Flee(t) \/ Return(t) \/ Follow(t)
       /\ routed' = t
  /\ UNCHANGED <<chosen, answering, dead, overtaken>>

(* A switch of the machine before this one lands.                          *)
Late ==
  /\ overtaken
  /\ ~overtaken'
  /\ routed' \in Tags
  /\ UNCHANGED <<chosen, answering, dead>>

(* The core refuses it.                                                    *)
Refuse == overtaken /\ ~overtaken' /\ UNCHANGED <<chosen, routed, answering, dead>>

(* The user chooses, or the core is started again: a server picked by hand *)
(* is where traffic goes, and nothing is allowed to move it from there.    *)
Choose ==
  /\ home' \in Tags
  /\ routed' \in {routed, home'}
  /\ home' # home => routed' = home'
  /\ allowed' = IF strategy' = "Manual" THEN {} ELSE Safe
  /\ answering' \in SUBSET Tags
  /\ dead' \in SUBSET (Tags \ answering')
  /\ overtaken' \in BOOLEAN

Next == Hear \/ Steer \/ Late \/ Refuse \/ Choose

Spec == Init /\ [][Next]_vars
=============================================================================
