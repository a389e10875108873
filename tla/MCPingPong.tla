------------------------------ MODULE MCPingPong ------------------------------
(* Instances of PingPong for TLC. *)
EXTENDS PingPong

CONSTANTS c1, c2

TwoClients == {c1, c2}
===============================================================================
