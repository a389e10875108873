------------------------------ MODULE Arguments -------------------------------
(***************************************************************************)
(* The command lines of the three programs: the options each one knows,    *)
(* the defaults, and the loop over argv that is the same in all of them.   *)
(* Words and addresses are strings; what atoi makes of a word is the       *)
(* constant Numeral.  The texts of --help and --version are left out.      *)
(***************************************************************************)
EXTENDS Integers, SequencesExt

CONSTANT Numeral   \* the words that are numbers, and which

ASSUME NumeralAssumption == \A word \in DOMAIN Numeral : Numeral[word] \in Int

Programs == {"server", "client", "heartbeat_client"}

\* atoi: a word that is no number is zero.
atoi(word) == IF word \in DOMAIN Numeral THEN Numeral[word] ELSE 0

DEFAULT_THREAD_COUNT == 10
DEFAULT_QUEUE_SIZE == 20

ServerDefaults ==
  [option \in {"--local-ip", "--local-port-tcp", "--local-port-udp", "--local-port-tcp-http",
               "--threads", "--queue"} |->
     CASE option = "--local-ip"            -> "127.0.0.1"
       [] option = "--local-port-tcp"      -> "3490"
       [] option = "--local-port-udp"      -> "3491"
       [] option = "--local-port-tcp-http" -> "3030"
       [] option = "--threads"             -> DEFAULT_THREAD_COUNT
       [] option = "--queue"               -> DEFAULT_QUEUE_SIZE]

ClientDefaults ==
  [option \in {"--external-ip", "--external-port", "--mode", "--resource"} |->
     IF option = "--mode" THEN 0 ELSE ""]

HeartbeatDefaults ==
  [option \in {"--local-ip", "--local-port", "--external-ip", "--external-port"} |->
     CASE option = "--local-port"    -> "4000"
       [] option = "--external-port" -> "3491"
       [] OTHER                      -> "127.0.0.1"]

Defaults(program) ==
  CASE program = "server" -> ServerDefaults
    [] program = "client" -> ClientDefaults
    [] program = "heartbeat_client" -> HeartbeatDefaults

\* What becomes of an option's value: the server stores numbers unchecked, the
\* client takes two modes only, and keeps its resource when told "/".  (A word is
\* copied by strcpy; the words here fit into the arrays of their settings.)
ServerStore(config, option, value) ==
  [config EXCEPT ![option] = IF option \in {"--threads", "--queue"} THEN atoi(value) ELSE value]

ClientAccepts(option, value) == option = "--mode" => value \in {"0", "1"}
ClientStore(config, option, value) ==
  CASE option = "--mode" -> [config EXCEPT ![option] = atoi(value)]
    [] option = "--resource" /\ value = "/" -> config
    [] OTHER -> [config EXCEPT ![option] = value]

HeartbeatStore(config, option, value) == [config EXCEPT ![option] = value]

Accepts(program, option, value) == program = "client" => ClientAccepts(option, value)
Store(program, config, option, value) ==
  CASE program = "server" -> ServerStore(config, option, value)
    [] program = "client" -> ClientStore(config, option, value)
    [] program = "heartbeat_client" -> HeartbeatStore(config, option, value)

\* Mutant: the loop does not step over the value.
NextWordStays(i) == i + 1
NextWord(i) == i + 2

\* One turn of the loop, on the i-th word.
Turn(program, argv, state, i) ==
  IF state.result # 0 \/ i < state.next THEN state
  ELSE CASE argv[i] \in {"--help", "--version"} -> [state EXCEPT !.result = 1]
         [] /\ argv[i] \in DOMAIN Defaults(program) /\ i < Len(argv)
            /\ Accepts(program, argv[i], argv[i + 1]) ->
              [state EXCEPT !.next = NextWord(i),
                            !.config = Store(program, @, argv[i], argv[i + 1])]
         [] OTHER -> [state EXCEPT !.result = -1]

\* The result, and the configuration as far as it was read.
parse_arguments(program, argv) ==
  LET after[i \in 0 .. Len(argv)] ==
        IF i = 0 THEN [result |-> 0, next |-> 1, config |-> Defaults(program)]
        ELSE Turn(program, argv, after[i - 1], i)
  IN after[Len(argv)]

\* Mutant: the modes are swapped.
AssignDefaultsSwapped(config) ==
  [config EXCEPT
     !["--external-ip"]   = IF @ # "" THEN @ ELSE IF config["--mode"] = 0 THEN "127.0.0.1" ELSE "0.0.0.0",
     !["--external-port"] = IF @ # "" THEN @ ELSE IF config["--mode"] = 0 THEN "3030" ELSE "3490"]

\* main of the client: what was not given depends on the mode.
AssignDefaults(config) ==
  [config EXCEPT
     !["--external-ip"]   = IF @ # "" THEN @ ELSE IF config["--mode"] = 0 THEN "127.0.0.1" ELSE "0.0.0.0",
     !["--external-port"] = IF @ # "" THEN @ ELSE IF config["--mode"] = 0 THEN "3490" ELSE "3030"]
===============================================================================
