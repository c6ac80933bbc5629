------------------------------ MODULE MCBrain ------------------------------
(* Small instances of Brain: up to three servers in list order.            *)
EXTENDS Brain, TLC

CONSTANTS a, b, c

MCListOrder == a :> 1 @@ b :> 2 @@ c :> 3
MCListOrder2 == a :> 1 @@ b :> 2

(* Servers that answer or not at will; or one of them that always answers.  *)
AnyServers == [s \in Strategies |-> {}]
OneSteady == [s \in Strategies |-> {b}]
=============================================================================
