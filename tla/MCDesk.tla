------------------------------- MODULE MCDesk -------------------------------
(* The parts of the desktop app whose state is their own, one in each        *)
(* behaviour: what must survive its death (Recovery), the lists (Lists), and *)
(* connects that overlap (Session).                                          *)
EXTENDS Recovery, Lists, TLC

CONSTANTS
  home, none, lan, a1, a2, n1, n2,   \* of Recovery
  j1, j2, s1, p1, p2, f, g,          \* of Lists
  c1, c2                             \* of Session

\* Two settings of the user's, one of them a proxy of his own.
MCConfigs == {[server |-> home, bypass |-> lan, on |-> TRUE],
              [server |-> none, bypass |-> lan, on |-> FALSE]}

\* One subscription beside the free pool.
MCIds == 1..9
MCStarts == {
  [servers |-> <<>>, subs |-> <<>>, ui |-> NoId],
  [servers |-> <<Server(2, s1, f), Server(1, Own, f), Server(3, s1, g), Server(4, p1, f)>>,
   subs |-> <<s1, p1>>, ui |-> 3],
  [servers |-> <<Server(1, s1, f), Server(2, s1, f)>>, subs |-> <<s1>>, ui |-> 4]}
Connects == {c1, c2}
AnyJob == Permutations(Jobs) \cup Permutations(Connects)

VARIABLES
  focus,
  status, since, settings, file, core, panel, osProxy, fastCrashes, job, pollers,  \* Session's
  errand, leaving, servers, asked, slips, requests

\* Two connects, disconnects and settings at any moment, both modes, rights
\* that come and go.
Overlapping == INSTANCE Session WITH
  Jobs <- Connects, Elevated <- FALSE, Overlap <- TRUE, Brisk <- TRUE,
  FAST_CRASH_LIMIT <- 3, MaxRequests <- 3, wish <- asked

connectVars == <<status, since, settings, file, core, panel, osProxy, fastCrashes, job, pollers,
                 errand, leaving, servers, asked, slips, requests>>
deskVars == <<focus, recoveryVars, listsVars, connectVars>>

Init ==
  /\ focus \in {"recovery", "lists", "connects"}
  /\ RecoveryInit /\ ListsInit /\ Overlapping!Init
  /\ focus # "recovery" => /\ registry = CHOOSE v \in Configs : TRUE
                           /\ mode = "Tun" /\ port = a1 /\ pidFile = NoPid /\ fault = "none"
  /\ focus # "lists" => nodes = <<>> /\ hitch = "none"
  /\ focus # "connects" => settings.mode = "Tun" /\ servers

Next ==
  \/ focus = "recovery" /\ RecoveryNext /\ UNCHANGED <<focus, listsVars, connectVars>>
  \/ focus = "lists" /\ ListsNext /\ UNCHANGED <<focus, recoveryVars, connectVars>>
  \/ focus = "connects" /\ Overlapping!Next /\ UNCHANGED <<focus, recoveryVars, listsVars>>

Spec == Init /\ [][Next]_deskVars

(* Once connects, shutdowns and deaths have settled on no connection, no    *)
(* core is left behind (Session, shutdown of commands.rs).                  *)
NothingLeftRunning == Overlapping!NothingLeftRunning
=============================================================================
