---------------------------- MODULE MCHttpService -----------------------------
(* Instances of HttpService for TLC. *)
EXTENDS HttpService

CONSTANTS c1, c2

TwoConns     == {c1, c2}
SecondOne    == {c2}
===============================================================================
