------------------------------- MODULE MCSetup --------------------------------
(* Instances of Setup for TLC: two servers that get in each other's way, and *)
(* a process that is now a client and now a heartbeat client.                *)
EXTENDS Setup

CONSTANTS procA, procB, procC

ThreeProcs == {procA, procB, procC}
Roles == (procA :> {"server"}) @@ (procB :> {"server"}) @@ (procC :> {"client", "heartbeat_client"})

Numbers == ("0" :> 0) @@ ("1" :> 1) @@ ("-1" :> -1) @@ ("3030" :> 3030)

\* A host with several addresses, of which not every one is this machine's.
Hosts == ("127.0.0.1" :> <<"127.0.0.1">>) @@ (INADDR_ANY :> <<INADDR_ANY>>) @@
         ("pc" :> <<"10.0.0.1", "127.0.0.1">>)

Lists ==
  (procA :> [server |-> {<<>>, <<"--help">>, <<"--local-ip", "pc">>}]) @@
  (procB :> [server |-> {<<>>, <<"--local-port-tcp", "3030">>}]) @@
  (procC :> [client |-> {<<>>, <<"--mode", "1", "--resource", "/">>, <<"--mode", "2">>},
         heartbeat_client |-> {<<>>}])

-------------------------------------------------------------------------------
\* What a command line means, said without a loop.

Words == {"--help", "--local-ip", "--threads", "--mode", "--resource", "/", "1", "-1"}
Lines == UNION {[1 .. n -> Words] : n \in 0 .. 4}

Pair(name, argv, k) ==
  argv[k] \in DOMAIN Defaults(name) /\ Accepts(name, argv[k], argv[k + 1])
PairsOf(name, argv) ==
  Max({n \in 0 .. Len(argv) \div 2 : \A k \in 1 .. n : Pair(name, argv, 2 * k - 1)})

\* A line is read pair by pair up to the first word that begins no pair: nothing
\* is left, or that word asks for a text, or it is an error.  Each setting is the
\* one of its last pair that changes it.
Settings(argv, o, n) ==
  {k \in 1 .. n : argv[2 * k - 1] = o /\ (o = "--resource" => argv[2 * k] # "/")}

Setting(name, argv, o, n) ==
  IF Settings(argv, o, n) = {} THEN Defaults(name)[o]
  ELSE LET word == argv[2 * Max(Settings(argv, o, n))] IN
       IF o \in {"--threads", "--queue", "--mode"} THEN atoi(word) ELSE word

LineRead(name, argv) ==
  LET parsed == parse_arguments(name, argv)
      n == PairsOf(name, argv)
  IN /\ parsed.result = IF Len(argv) = 2 * n THEN 0
                        ELSE IF argv[2 * n + 1] \in {"--help", "--version"} THEN 1 ELSE -1
     /\ \A o \in DOMAIN Defaults(name) : parsed.config[o] = Setting(name, argv, o, n)

\* Every line is read like that.  (Evaluated where nothing runs yet.)
LastPairWins ==
  (\A p \in Procs : pc[p] = "ended") /\ lingering = {} =>
  \A name \in Programs, argv \in Lines : LineRead(name, argv)
===============================================================================
