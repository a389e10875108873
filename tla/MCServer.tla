------------------------------- MODULE MCServer -------------------------------
(* Instances of Server for TLC: the descriptors are those the program gets  *)
(* when it is started with 0, 1 and 2 open.                                 *)
EXTENDS Server

CONSTANTS s1, h1

TwoConns == {s1, h1}
OneHttp  == {h1}
===============================================================================
