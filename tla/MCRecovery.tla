----------------------------- MODULE MCRecovery -----------------------------
(* Recovery with two settings of the user's, one of them a proxy of his own. *)
EXTENDS Recovery, TLC

CONSTANTS home, none, lan, p1, p2, n1, n2

MCConfigs == {[server |-> home, bypass |-> lan, on |-> TRUE],
              [server |-> none, bypass |-> lan, on |-> FALSE]}
=============================================================================
