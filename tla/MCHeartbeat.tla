----------------------------- MODULE MCHeartbeat ------------------------------
(* Instances of Heartbeat for TLC. *)
EXTENDS Heartbeat

CONSTANTS c1, c2, s1

TwoClients   == {c1, c2}
OneStranger  == {s1}
===============================================================================
