---------------------------- MODULE MCHttpExchange ----------------------------
(* Instances of HttpExchange for TLC. *)
EXTENDS HttpExchange
===============================================================================
