----------------------------- MODULE Selection -----------------------------
(***************************************************************************)
(* Which server the traffic goes through, and which the app shows, while    *)
(* connected: the user's picks (set_active_server), the balancer's switches *)
(* (apply_switch), a change of the strategy (apply_balancer_settings), and  *)
(* the selector of the core, which all of them ask over HTTP.  When the     *)
(* machine switches, and to whom, is Brain's; here it may be any candidate. *)
(*                                                                          *)
(* Commands and the balancer's loop run side by side.  A request takes      *)
(* effect in the core at one moment and is answered at a later one.         *)
(***************************************************************************)
EXTENDS Naturals

CONSTANTS
  Servers,
  Commands,     \* picks and changes of the strategy under way at once
  Loop,         \* the balancer's loop
  MaxCommands,  \* (bound) commands in all
  MaxRefused    \* (bound) requests the core refuses

VARIABLES
  active,    \* AppState.active_id: the server the user picked
  routed,    \* status.routed_id
  selector,  \* (core) where the traffic goes
  brain,     \* AppState.balancer: whom it takes for routed, and if it may switch
  job,       \* how far each command and the loop's switch are
  commands, refused

vars == <<active, routed, selector, brain, job, commands, refused>>

Out == [at |-> "out"]
Goes(x, to) == job' = [job EXCEPT ![x].at = to]
Ends(x) == job' = [job EXCEPT ![x] = Out]

\* install_brain: inherit keeps the routed of a machine with the same primary, if
\* the new one knows it.
InstallBrain(primary, auto) ==
  brain' = [routed |-> IF auto /\ primary = active THEN brain.routed ELSE primary, auto |-> auto]

\* set_active_server up to the status: picking by hand ends the automation.
Pick(c) ==
  /\ job[c] = Out /\ commands < MaxCommands
  /\ commands' = commands + 1
  /\ \E s \in Servers :
       /\ active' = s
       /\ InstallBrain(s, FALSE)
       /\ job' = [job EXCEPT ![c] = [at |-> "show", to |-> s]]
  /\ UNCHANGED <<routed, selector, refused>>

ShowPicked(c) ==
  /\ job[c].at = "show"
  /\ routed' = job[c].to
  /\ Goes(c, "select")
  /\ UNCHANGED <<active, selector, brain, commands, refused>>

\* apply_balancer_settings: what is shown as routed becomes the picked one.
SetStrategy ==
  /\ commands < MaxCommands
  /\ commands' = commands + 1
  /\ active' = routed
  /\ \E auto \in BOOLEAN :
       brain' = [routed |-> IF auto /\ active = routed THEN brain.routed ELSE routed, auto |-> auto]
  /\ UNCHANGED <<routed, selector, job, refused>>

\* spawn_balancer: the machine asks for a switch.
Decide ==
  /\ job[Loop] = Out /\ brain.auto
  /\ \E s \in Servers \ {brain.routed} :
       job' = [job EXCEPT ![Loop] = [at |-> "select", to |-> s]]
  /\ UNCHANGED <<active, routed, selector, brain, commands, refused>>

\* The core gets a select and does it, or refuses.
Takes(x) ==
  /\ job[x].at = "select"
  /\ \/ selector' = job[x].to /\ Goes(x, "done") /\ UNCHANGED refused
     \/ /\ refused < MaxRefused /\ refused' = refused + 1
        /\ Goes(x, "refused") /\ UNCHANGED selector
  /\ UNCHANGED <<active, routed, brain, commands>>

\* The command returns, with the core's error if it refused: nothing is undone.
Returns(c) ==
  /\ job[c].at \in {"done", "refused"}
  /\ Ends(c)
  /\ UNCHANGED <<active, routed, selector, brain, commands, refused>>

\* apply_switch: the machine of this moment is told.
Told ==
  /\ \/ /\ job[Loop].at = "done"
        /\ brain' = [brain EXCEPT !.routed = job[Loop].to]
        /\ Goes(Loop, "show")
     \/ job[Loop].at = "refused" /\ Ends(Loop) /\ UNCHANGED brain
  /\ UNCHANGED <<active, routed, selector, commands, refused>>

ShowSwitched ==
  /\ job[Loop].at = "show"
  /\ routed' = job[Loop].to
  /\ Ends(Loop)
  /\ UNCHANGED <<active, selector, brain, commands, refused>>

Init ==
  /\ active \in Servers /\ routed = active /\ selector = active
  /\ brain \in [routed : {active}, auto : BOOLEAN]
  /\ job = [x \in Commands \cup {Loop} |-> Out]
  /\ commands = 0 /\ refused = 0

Next ==
  \/ \E c \in Commands : Pick(c) \/ ShowPicked(c) \/ Takes(c) \/ Returns(c)
  \/ SetStrategy
  \/ Decide \/ Takes(Loop) \/ Told \/ ShowSwitched

Spec == Init /\ [][Next]_vars

----------------------------------------------------------------------------
(* At rest the app shows the server the traffic goes through (state.rs:75   *)
(* of routed_id: "the node the traffic goes through right now").            *)
RoutedIsTrue == (\A x \in DOMAIN job : job[x] = Out) => routed = selector
=============================================================================
